------------------------------ MODULE MCPorts ------------------------------
(***************************************************************************)
(* Three active-low sources on the interrupt input of the CPU, one of them *)
(* the keyboard, whose row is selected by a bidirectional VIA port (':P'). *)
(* The handler of the selection moves the keyboard's request, which is     *)
(* also to be read, inverted, on the port that has selected the row.  The  *)
(* port uses its high bit, the others their low one, so that values are    *)
(* shifted either way.                                                     *)
(***************************************************************************)
EXTENDS PortProperties

MCPorts == {"SYS_VIA:IRQ", "USER_VIA:IRQ", "KB:IRQ", "CPU:IRQ", "SYS_VIA:PA", "KB:SEL"}
MCDir == [p \in MCPorts |-> CASE p = "SYS_VIA:PA"            -> "IO"
                              [] p \in {"CPU:IRQ", "KB:SEL"} -> "IN"
                              [] OTHER                       -> "OUT"]
MCMask == [p \in MCPorts |-> IF p = "SYS_VIA:PA" THEN {1} ELSE {0}]
Wire(s, d, shifts, q) == [src |-> s, dst |-> d, mask |-> MCMask[d], shifts |-> shifts, qual |-> q]
MCRoutes == {Wire("SYS_VIA:IRQ", "CPU:IRQ", 0, <<>>), Wire("USER_VIA:IRQ", "CPU:IRQ", 0, <<>>),
             Wire("KB:IRQ", "CPU:IRQ", 0, <<>>), Wire("KB:IRQ", "SYS_VIA:PA", -1, <<"I">>),
             Wire("SYS_VIA:PA", "KB:SEL", 1, <<"P">>)}
MCReacts == [p \in MCPorts |-> IF p = "KB:SEL" THEN {"KB:IRQ"} ELSE {}]
MCRank == [p \in MCPorts |-> IF p = "KB:IRQ" THEN 1 ELSE 0]

\* The wiring is one that the proofs are about.
ASSUME WiringAssumption == UniqueRoutes /\ RankedCalls /\ SharedBitsArbitrated /\ LineArbitrated

=============================================================================

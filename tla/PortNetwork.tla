---------------------------- MODULE PortNetwork ----------------------------
(***************************************************************************)
(* The digital wiring of an emulated system: the ports a device registers  *)
(* (shared/Device.cpp), the CONNECT lines that join them                   *)
(* (ConnectionManager::connect, DeviceManager.cpp) and the propagation of  *)
(* a new output value to every connected input (Device::updatePort).       *)
(*                                                                         *)
(* A port value is the set of its high bits, so that & is \cap, | is \cup  *)
(* and a shift moves every element.  The life of a system has three        *)
(* phases: the CONNECT lines are read ("config"), every device is reset    *)
(* and its outputs are forced onto the inputs ("power"), and the emulation *)
(* runs ("run").                                                           *)
(*                                                                         *)
(* updatePort is not atomic: an input whose CONNECT line says ':P' runs    *)
(* processPortUpdate of its device in the middle of the loop over the      *)
(* inputs, and that handler updates ports of its own.  `stack' is the      *)
(* chain of updatePort calls in progress, innermost first.                 *)
(*                                                                         *)
(* A definition named after another one with a suffix (MergedNotCleared,   *)
(* RecordedOnChange, ...) is a plausible error in it, against which the    *)
(* properties are tested; the specification does not use it.               *)
(***************************************************************************)
EXTENDS Integers, Sequences

CONSTANTS
  PortWidth,  \* bits of a PortVal (16 in DeviceTypes.h)
  Ports,      \* the digital ports of all the devices
  Dir,        \* Dir[p]: "IN", "OUT" or "IO"
  Mask,       \* Mask[p]: the bits port p implements
  Routes,     \* the CONNECT lines of the memory map file
  Reacts      \* Reacts[p]: the ports the handler of input p may update

PortBits == 0 .. PortWidth - 1

\* A CONNECT line: the qualifier letters after "CONNECT:", the two ports, the
\* selected bits of the destination and the distance from them to the source's.
RouteType == [src : Ports, dst : Ports, mask : SUBSET PortBits, shifts : Int,
              qual : Seq({"I", "P"})]

ASSUME WidthAssumption == PortWidth \in Nat
ASSUME PortAssumption ==
  /\ Dir \in [Ports -> {"IN", "OUT", "IO"}]
  /\ Mask \in [Ports -> SUBSET PortBits]
  /\ Reacts \in [Ports -> SUBSET Ports]
ASSUME RouteAssumption ==
  /\ Routes \subseteq RouteType
  /\ \A r \in Routes : r.mask \subseteq Mask[r.dst]

VARIABLES
  phase,        \* "config", "power" or "run"
  conns,        \* the connections made, in order: every inputs and portSources list
  arbitration,  \* arbitration[d]: input d combines its sources
  dstVal,       \* dstVal[r]: what the source of r last requested of its destination
  valOut,       \* valOut[p]: *valOut of port p
  valIn,        \* valIn[p]: *valIn of port p
  stack,        \* the updatePort calls in progress, innermost first
  todo,         \* ports updatePorts() has not forced out yet
  fed           \* history: the connections that have delivered a value

vars == <<phase, conns, arbitration, dstVal, valOut, valIn, stack, todo, fed>>

Outputs == {p \in Ports : Dir[p] # "IN"}
Inputs  == {p \in Ports : Dir[p] # "OUT"}
Levels(p) == SUBSET Mask[p]
Frame == [src : Ports, val : SUBSET PortBits, next : Nat, reacting : SUBSET Ports]

-----------------------------------------------------------------------------
(* Reading a CONNECT line.                                                 *)

\* DeviceManager compares the REST of the directive, from each letter on, with
\* "I" and with "P": only a letter that is the last one is recognised.
Qualified(r, letter) == r.qual # <<>> /\ r.qual[Len(r.qual)] = letter

Inverted(r)  == Qualified(r, "I")
Processed(r) == Qualified(r, "P")

\* The shape connect() accepts; anything else aborts the start of the program.
Acceptable(r) == Dir[r.src] # "IN" /\ Dir[r.dst] # "OUT" /\ Len(r.qual) <= 2

IsSource(cs, j, d) == cs[j].dst = d /\ Dir[cs[j].src] = "OUT"

\* The arbitration flag connect() computes anew for the destination: at least
\* two pure outputs, and a bit that ALL the pure outputs are connected to.
Arbitrates(cs, d) ==
  /\ \E i, j \in DOMAIN cs : i # j /\ IsSource(cs, i, d) /\ IsSource(cs, j, d)
  /\ \E b \in PortBits : \A j \in DOMAIN cs : IsSource(cs, j, d) => b \in cs[j].mask

Connect(r) ==
  /\ phase = "config"
  /\ \A j \in DOMAIN conns : conns[j] # r
  /\ Acceptable(r)
  /\ conns' = Append(conns, r)
  /\ arbitration' = [arbitration EXCEPT ![r.dst] = Arbitrates(conns', r.dst)]
  /\ UNCHANGED <<phase, dstVal, valOut, valIn, stack, todo, fed>>

-----------------------------------------------------------------------------
(* One input reference: updateDstPortValue.                                *)

\* The destination bits of connection r that are high when its source is v.
Driven(r, v) ==
  LET src == IF Inverted(r) THEN PortBits \ v ELSE v
  IN  {b \in r.mask : b + r.shifts \in src}

\* nval: the destination's present value with the selected bits replaced.
MergedNotCleared(r, v) == (valIn[r.dst] \cup Driven(r, v)) \cap Mask[r.dst]

Merged(r, v) == ((valIn[r.dst] \ r.mask) \cup Driven(r, v)) \cap Mask[r.dst]

\* The reference whose dstVal is updated: the first one of that source port.
FirstRef(r) ==
  LET same == {j \in DOMAIN conns : conns[j].src = r.src /\ conns[j].dst = r.dst}
  IN  conns[CHOOSE j \in same : \A k \in same : j <= k]

\* The record each source's request keeps, whether or not the input changes.
RecordedOnChange(r, nval) ==
  IF arbitration[r.dst] /\ valIn[r.dst] # nval
  THEN [dstVal EXCEPT ![FirstRef(r)] = nval] ELSE dstVal

Recorded(r, nval) ==
  IF arbitration[r.dst] THEN [dstVal EXCEPT ![FirstRef(r)] = nval] ELSE dstVal

\* AND of what every source of d requests; a source leaves other bits high.
WiredAndButLast(d, req) ==
  {b \in Mask[d] : \A j \in 1 .. Len(conns) - 1 :
      conns[j].dst = d => b \in req[conns[j]] \/ b \notin conns[j].mask}

WiredAnd(d, req) ==
  {b \in Mask[d] : \A j \in DOMAIN conns :
      conns[j].dst = d => b \in req[conns[j]] \/ b \notin conns[j].mask}

\* The rest of the inputs of the port the call f updates.
InputsLeft(f) == {j \in DOMAIN conns : f.next <= j /\ conns[j].src = f.src}

\* updateDstPortValue for the connection r = conns[j], and the start of the
\* handler of its destination when it changed.
DeliverTo(j, r) ==
  LET d == r.dst
      nval == Merged(r, stack[1].val)
      changed == valIn[d] # nval
  IN  /\ dstVal' = Recorded(r, nval)
      /\ valIn' = IF changed
                  THEN [valIn EXCEPT ![d] = IF arbitration[d]
                                            THEN WiredAnd(d, dstVal') ELSE nval]
                  ELSE valIn
      /\ stack' = [stack EXCEPT
                     ![1] = [@ EXCEPT !.next = j + 1,
                               !.reacting = IF changed /\ Processed(r)
                                            THEN Reacts[d] ELSE {}]]
      /\ fed' = fed \cup {r}

Deliver ==
  /\ stack # <<>>
  /\ stack[1].reacting = {}
  /\ \E j \in InputsLeft(stack[1]) :
       /\ \A k \in InputsLeft(stack[1]) : j <= k
       /\ DeliverTo(j, conns[j])
  /\ UNCHANGED <<phase, conns, arbitration, valOut, todo>>

-----------------------------------------------------------------------------
(* updatePort and its callers.                                             *)

HasFanOut(p) == \E j \in DOMAIN conns : conns[j].src = p

\* updatePort(p, v, force), called with the calls `base' already in progress.
UpdatePort(p, v, force, base) ==
  /\ valOut' = [valOut EXCEPT ![p] = v]
  /\ stack' = IF HasFanOut(p) /\ (valOut[p] # v \/ force)
              THEN <<[src |-> p, val |-> v, next |-> 1, reacting |-> {}]>> \o base
              ELSE base
  /\ UNCHANGED <<phase, conns, arbitration, dstVal, valIn, fed>>

\* A device updates one of its ports while it is advanced, read or written.
Drive(p, v) ==
  /\ phase = "run"
  /\ stack = <<>>
  /\ UpdatePort(p, v, FALSE, stack)
  /\ UNCHANGED todo

\* processPortUpdate, called by the innermost updatePort, updates a port.
React(q, v) ==
  /\ stack # <<>>
  /\ q \in stack[1].reacting
  /\ UpdatePort(q, v, FALSE, [stack EXCEPT ![1].reacting = @ \ {q}])
  /\ UNCHANGED todo

\* processPortUpdate returns without updating another port.
HandlerDone ==
  /\ stack # <<>>
  /\ stack[1].reacting # {}
  /\ stack' = [stack EXCEPT ![1].reacting = {}]
  /\ UNCHANGED <<phase, conns, arbitration, dstVal, valOut, valIn, todo, fed>>

\* The loop over the inputs is over: the innermost updatePort returns.
Return ==
  /\ stack # <<>>
  /\ stack[1].reacting = {}
  /\ InputsLeft(stack[1]) = {}
  /\ stack' = Tail(stack)
  /\ UNCHANGED <<phase, conns, arbitration, dstVal, valOut, valIn, todo, fed>>

-----------------------------------------------------------------------------
(* Power on: each device is reset, which may set its outputs, and then     *)
(* updatePorts() forces them onto the connected inputs.                    *)

PowerOn ==
  /\ phase = "config"
  /\ \A r \in Routes : Acceptable(r) => \E j \in DOMAIN conns : conns[j] = r
  /\ phase' = "power"
  /\ todo' = Outputs
  /\ UNCHANGED <<conns, arbitration, dstVal, valOut, valIn, stack, fed>>

ForceOut(p, v) ==
  /\ phase = "power"
  /\ stack = <<>>
  /\ p \in todo
  /\ todo' = todo \ {p}
  /\ UpdatePort(p, v, TRUE, stack)

Started ==
  /\ phase = "power"
  /\ stack = <<>>
  /\ todo = {}
  /\ phase' = "run"
  /\ UNCHANGED <<conns, arbitration, dstVal, valOut, valIn, stack, todo, fed>>

-----------------------------------------------------------------------------
Init ==
  /\ phase = "config"
  /\ conns = <<>>
  /\ arbitration = [p \in Ports |-> FALSE]
  /\ dstVal = [r \in Routes |-> PortBits]
  /\ valOut \in {f \in [Ports -> SUBSET PortBits] :
                   \A p \in Ports : f[p] \subseteq (IF p \in Outputs THEN Mask[p] ELSE {})}
  /\ valIn \in {f \in [Ports -> SUBSET PortBits] :
                   \A p \in Ports : f[p] \subseteq (IF p \in Inputs THEN Mask[p] ELSE {})}
  /\ stack = <<>>
  /\ todo = {}
  /\ fed = {}

Call == Deliver \/ HandlerDone \/ Return

Next ==
  \/ \E r \in Routes : Connect(r)
  \/ PowerOn
  \/ \E p \in Outputs : \E v \in Levels(p) : ForceOut(p, v) \/ Drive(p, v)
  \/ \E q \in Outputs : \E v \in Levels(q) : React(q, v)
  \/ Started
  \/ Call

Spec == Init /\ [][Next]_vars

=============================================================================

---------------------------- MODULE WiredAndLine ----------------------------
(***************************************************************************)
(* The abstract promise of an arbitrated input port: an open-collector     *)
(* line of several wires.  Each source requests a level on the wires it is *)
(* attached to; once powered, a wire is high exactly when every source     *)
(* attached to it requests high.                                           *)
(***************************************************************************)
CONSTANTS
  Bits,     \* the wires of the line
  Sources,  \* the connections that drive it
  Wires     \* Wires[s]: the wires source s is attached to

VARIABLES powered, request, line

And(req) == {b \in Bits : \A s \in Sources : b \in Wires[s] => b \in req[s]}

Init ==
  /\ powered = FALSE
  /\ request \in [Sources -> SUBSET Bits]
  /\ line \in SUBSET Bits

\* A source presents a new level; before power-up the wires float.
Present(s, level) ==
  /\ request' = [request EXCEPT ![s] = level]
  /\ line' \in SUBSET Bits
  /\ powered => line' = And(request')
  /\ UNCHANGED powered

PowerUp ==
  /\ ~powered
  /\ powered' = TRUE
  /\ line = And(request)
  /\ UNCHANGED <<request, line>>

Next == PowerUp \/ \E s \in Sources : \E level \in SUBSET Wires[s] : Present(s, level)

Spec == Init /\ [][Next]_<<powered, request, line>>

=============================================================================

------------------------------ MODULE Channel ------------------------------
(***************************************************************************)
(* What a tape or a serial line is to the programs at its ends: bytes come *)
(* out as they have been put in, in the same order and each of them once.  *)
(***************************************************************************)
EXTENDS Naturals, Sequences

CONSTANT Data

VARIABLES sent, received

Init == sent = <<>> /\ received = <<>>

Send(b) == sent' = Append(sent, b) /\ UNCHANGED received

Receive ==
  /\ Len(received) < Len(sent)
  /\ received' = Append(received, sent[Len(received) + 1])
  /\ UNCHANGED sent

Next == Receive \/ \E b \in Data : Send(b)

Spec == Init /\ [][Next]_<<sent, received>>

=============================================================================

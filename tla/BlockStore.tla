----------------------------- MODULE BlockStore -----------------------------
(***************************************************************************)
(* What a memory card is for: a filing system asks for a block to be read  *)
(* or written and gets an answer, one request at a time.  A write takes    *)
(* effect before it is answered.  The card may be taken out, and another   *)
(* one put in, at any time.  A card that does not work answers anything    *)
(* and keeps nothing.                                                      *)
(***************************************************************************)
CONSTANTS Addresses, Blocks, None

VARIABLES
  present,   \* whether there is a card
  works,     \* whether it, or the last one, works
  store,     \* its content, or that of the last one
  pending,   \* the request that has not been answered
  answer     \* the last answer: the block that was read or written

vars == <<present, works, store, pending, answer>>

Requests ==
  [kind : {"read"}, adr : Addresses] \cup [kind : {"write"}, adr : Addresses, data : Blocks]

Init ==
  /\ present = FALSE /\ works = FALSE
  /\ store \in [Addresses -> Blocks]
  /\ pending = None
  /\ answer = None

Ask(r) ==
  /\ pending = None
  /\ pending' = r
  /\ answer' = None
  /\ UNCHANGED <<present, works, store>>

Apply ==
  /\ present /\ works /\ pending # None /\ pending.kind = "write"
  /\ store' = [store EXCEPT ![pending.adr] = pending.data]
  /\ UNCHANGED <<present, works, pending, answer>>

Answer ==
  /\ present /\ works /\ pending # None
  /\ CASE pending.kind = "read"  -> answer' = store[pending.adr]
       [] pending.kind = "write" -> store[pending.adr] = pending.data /\ answer' = pending.data
  /\ pending' = None
  /\ UNCHANGED <<present, works, store>>

AnswerAnything ==
  /\ present /\ ~works /\ pending # None
  /\ answer' # None
  /\ pending' = None
  /\ UNCHANGED <<present, works, store>>

Eject ==
  /\ present /\ present' = FALSE
  /\ UNCHANGED <<works, store, pending, answer>>

Insert ==
  /\ ~present /\ present' = TRUE /\ works' \in BOOLEAN
  /\ store' \in [Addresses -> Blocks]
  /\ UNCHANGED <<pending, answer>>

Next == (\E r \in Requests : Ask(r)) \/ Apply \/ Answer \/ AnswerAnything \/ Eject \/ Insert

Spec == Init /\ [][Next]_vars

=============================================================================

---------------------------- MODULE SDProperties ----------------------------
(***************************************************************************)
(* What the filing system may rely on.                                     *)
(***************************************************************************)
EXTENDS SDSystem

Store == IF sd.open THEN StoreOf(sd.image) ELSE [a \in Addresses |-> CHOOSE b \in Blocks : TRUE]

BS == INSTANCE BlockStore WITH present <- sd.inserted, works <- sd.open, store <- Store, pending <- drv.pending, answer <- drv.answer

\* Card and driver together are a store of blocks: a block that is read is the one that
\* was last written there, a write changes that block only and is answered after it
\* has taken effect, and no other traffic on the lines changes the card.  A card whose
\* file cannot be opened answers all the same.
IsBlockStore == BS!Spec

\* A card that was in its slot when it was switched on answers every command it
\* knows in time, whatever has been sent before, paused or left unread: bits are neither
\* lost nor out of step.
Answered == drv.gaveUp # None => Number6(drv.gaveUp) \notin Known

\* What is asked of a card that stays in its slot is done in the end, though the card
\* may have been exchanged since it was switched on, so that the first attempt fails.
RequestsEnd == drv.pending # None ~> drv.pending = None \/ ~sd.inserted

=============================================================================

-------------------------- MODULE SerialProperties --------------------------
(***************************************************************************)
(* What the programs at the serial interface may rely on.                  *)
(***************************************************************************)
EXTENDS SerialSystem

Ch == INSTANCE Channel

\* Bytes come back from the tape, or from the line, as they were sent, in their order
\* and each once, whatever the phase of the sampling clocks and of the batches, and no
\* byte is made of noise, of the leader or of the end of the tape.
IsChannel == Ch!Spec

\* What has been sent has been received when the tape has been played, or the line has
\* been quiet: no byte is lost, to an interrupt that does not come or a start bit that
\* is not found.
Delivered == prog.plan = <<>> => received = sent

\* The interrupt that a program waits for is requested in every state in which
\* its reason is there, after reads, writes, ticks, resets and changes of the carrier.
NoLostInterrupt == Requested(dev.acia) => dev.acia.irq

=============================================================================

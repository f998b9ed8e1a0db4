---------------------------- MODULE SerialSystem ----------------------------
(***************************************************************************)
(* The serial interface of the BBC Micro at work: a program, as the        *)
(* operating system's, serves the ACIA by interrupts, and the user its     *)
(* tape recorder.  Either a message is recorded, and the tape is played    *)
(* back; or it is sent by RS423 through a cable back to the computer, and  *)
(* received while more is sent.                                            *)
(*                                                                         *)
(* The devices advance in the order of the memory map, each of them by a   *)
(* whole batch of ticks before the next one: they see the lines of the     *)
(* other devices late, by up to a batch, and miss what is shorter.         *)
(***************************************************************************)
EXTENDS BeebSerialULA, TapeRecorder

CONSTANTS
  Data, Messages,      \* the bytes, and how many are sent
  Batches,             \* ticks that the devices may be advanced at a time
  Plans,               \* what is done: sequences of the names of the operations below
  Formats,             \* word formats
  Gaps,                \* ticks between bytes, and between recording and playing
  Latency,             \* ticks with interrupts disabled after one has been served
  Leader, Trail, Pause \* ticks of carrier before and after the bytes, and between keys

ASSUME BatchAssumption == Batches \subseteq Nat \ {0}

VARIABLES
  dev,             \* the ACIA and the ULA
  tape,
  prog,            \* the program and the user
  sent, received

vars == <<dev, tape, prog, sent, received>>

Now == dev.acia.ticks

-----------------------------------------------------------------------------
(* The devices.                                                            *)

\* n ticks of a device.
AdvanceACIA(d, n) ==
  LET after[k \in 0 .. n] ==
        IF k = 0 THEN d ELSE Forward([after[k - 1] EXCEPT !.acia = Tick(@)])
  IN  after[n]

AdvanceULA(d, n) ==
  LET after[k \in 0 .. n] == IF k = 0 THEN d ELSE TickULA(after[k - 1]) IN after[n]

\* The devices advance by a batch after what the program and the user have done with
\* them: ACIA, serial ULA and tape recorder.
Advance(d, t) ==
  LET d2 == AdvanceULA(AdvanceACIA([d EXCEPT !.ula.casIn = t.casIn], prog.batch), prog.batch)
      t2 == advanceUntil(t, d2.acia.ticks, d2.ula.casOut)
  IN  dev' = [d2 EXCEPT !.ula.casIn = t2.casIn] /\ tape' = t2

-----------------------------------------------------------------------------
(* The program's interrupt handler.                                        *)

Plays == \E i \in DOMAIN prog.all : prog.all[i] = "play"

\* On a tape at 1200 baud, with any word of 8 bits; on the line at 1200 baud as well.
CR(tx, rie) ==
  [div |-> IF Plays THEN 1 ELSE 2, word |-> prog.word, tx |-> tx, rie |-> rie]

Interrupted == dev.acia.irq /\ Now >= prog.masked /\ prog.plan # <<>>

\* The status is read,
Interrupt ==
  /\ Interrupted /\ ~prog.serving
  /\ prog' = [prog EXCEPT !.serving = TRUE, !.status = dev.acia.sr]
  /\ Advance([dev EXCEPT !.acia = ReadStatus(@)], tape)
  /\ UNCHANGED <<sent, received>>

Return(gap) == prog' = [prog EXCEPT !.serving = FALSE, !.masked = Now + gap]

\* and then, in another instruction, the byte that has been received, if any: a lost
\* carrier is only acknowledged;
TakeByte ==
  /\ prog.serving /\ prog.status \cap {"RDRF", "DCD"} # {} /\ dev.acia.cr.rie
  /\ received' = IF "RDRF" \in prog.status THEN Append(received, dev.acia.rdr) ELSE received
  /\ Return(Latency)
  /\ Advance([dev EXCEPT !.acia = ReadData(@)], tape)
  /\ UNCHANGED sent

Transmits == prog.serving /\ ~(prog.status \cap {"RDRF", "DCD"} # {} /\ dev.acia.cr.rie)

\* or another byte is sent;
SendByte ==
  /\ Transmits /\ Len(sent) < Messages
  /\ \E b \in Data, gap \in Gaps :
       /\ sent' = Append(sent, b)
       /\ Return(gap)
       /\ Advance([dev EXCEPT !.acia = WriteData(@, b)], tape)
  /\ UNCHANGED received

\* or no more is to be sent, and transmit interrupts are disabled.
EndTransmission ==
  /\ Transmits /\ Len(sent) = Messages
  /\ Return(0)
  /\ Advance([dev EXCEPT !.acia = WriteControl(@, CR(0, dev.acia.cr.rie))], tape)
  /\ UNCHANGED <<sent, received>>

-----------------------------------------------------------------------------
(* The plan of the program and the user.                                   *)

Due(op) == ~Interrupted /\ ~prog.serving /\ Now >= prog.due /\ prog.plan # <<>> /\ Head(prog.plan) = op

\* The operation is done, and the next one follows after some time.
Done(delay) == prog' = [prog EXCEPT !.plan = Tail(@), !.due = Now + delay] /\ UNCHANGED <<sent, received>>

\* The serial ULA is set up for the tape, with its motor on, or for the line.
Select ==
  /\ Due("select")
  /\ Advance(WriteByte(dev, [serial |-> ~Plays, motor |-> Plays, rx |-> 1, tx |-> IF Plays THEN 5 ELSE 4]), tape)
  /\ Done(0)

Reset == Due("reset") /\ Advance([dev EXCEPT !.acia = WriteMasterReset(@)], tape) /\ Done(Pause)

\* Carrier is sent, before bytes are.
Open == Due("open") /\ Advance([dev EXCEPT !.acia = WriteControl(@, CR(0, ~Plays))], tape) /\ Done(Leader)

Transmit == Due("transmit") /\ Advance([dev EXCEPT !.acia = WriteControl(@, CR(1, ~Plays))], tape) /\ Done(0)

\* All is sent when the transmitter is idle.
Finish ==
  /\ Due("finish") /\ Len(sent) = Messages /\ dev.acia.cr.tx = 0 /\ "TDRE" \in dev.acia.sr
  /\ Advance(dev, tape) /\ Done(Trail)

Enable == Due("listen") /\ Advance([dev EXCEPT !.acia = WriteControl(@, CR(0, TRUE))], tape) /\ Done(0)

\* The keys of the recorder.
Record == Due("record") /\ Advance(dev, record(startSaveFile(tape))) /\ Done(Leader)

Stop == Due("stop") /\ Advance(dev, stop(tape)) /\ \E gap \in Gaps : Done(gap)

Load == Due("load") /\ Advance(dev, startLoadFile(tape)) /\ Done(0)

Play == Due("play") /\ Advance(dev, play(tape)) /\ Done(Pause)

Rewind == Due("rewind") /\ Advance(dev, rewind(tape)) /\ Done(Pause)

PlayedBack == Due("played") /\ ~tape.loading /\ Advance(dev, tape) /\ Done(Trail)

End == Due("end") /\ Advance(dev, tape) /\ Done(0)

Operation ==
  \/ Select \/ Reset \/ Open \/ Transmit \/ Finish \/ Enable
  \/ Record \/ Stop \/ Load \/ Play \/ Rewind \/ PlayedBack \/ End

\* Nothing to do but wait, for the time of the next operation or what it waits for.
Waiting ==
  \/ Now < prog.due
  \/ Head(prog.plan) = "finish" /\ ~(Len(sent) = Messages /\ dev.acia.cr.tx = 0 /\ "TDRE" \in dev.acia.sr)
  \/ Head(prog.plan) = "played" /\ tape.loading

Wait ==
  /\ ~Interrupted /\ ~prog.serving /\ prog.plan # <<>> /\ Waiting
  /\ Advance(dev, tape) /\ UNCHANGED <<prog, sent, received>>

-----------------------------------------------------------------------------
Init ==
  \E plan \in Plans, batch \in Batches, word \in Formats :
    /\ prog = [plan |-> plan, all |-> plan, batch |-> batch, word |-> word, due |-> 0, masked |-> 0,
               serving |-> FALSE, status |-> {}]
    /\ dev = [acia |-> PoweredOn, ula |-> ULAPoweredOn(\A i \in DOMAIN plan : plan[i] # "play")]
    /\ tape = Unloaded
    /\ sent = <<>> /\ received = <<>>

Next == Interrupt \/ TakeByte \/ SendByte \/ EndTransmission \/ Operation \/ Wait

Spec == Init /\ [][Next]_vars

=============================================================================

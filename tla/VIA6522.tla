------------------------------ MODULE VIA6522 ------------------------------
(***************************************************************************)
(* The 6522 VIA (shared/VIA6522.cpp): two timers, a shift register, four   *)
(* control lines with edge detection, and the interrupt flags they share.  *)
(*                                                                         *)
(* The chip is one record, `via', and each function of the code maps it to *)
(* the next one, so that a handler is the composition of the calls it      *)
(* makes.  One Cycle is one phi2 cycle of advanceUntil; a read first       *)
(* advances the chip by a cycle, a write does not.                         *)
(*                                                                         *)
(* A byte has Base values (256) and the shift register Width bits (8).     *)
(* IFR, IER, the data direction and the levels of the lines are sets of    *)
(* names.  Of the data lines, PA0, PB0, PB6 (the pulses T2 counts) and PB7 *)
(* (the output of T1) are kept.  The chip is used in several setups: what  *)
(* the program accesses and what is connected to the lines.  Updating an   *)
(* output during a cycle may make a responsive device move the inputs at   *)
(* once.                                                                   *)
(*                                                                         *)
(* A definition named after another one with a suffix is a plausible error *)
(* in it, against which the properties are tested.                         *)
(***************************************************************************)
EXTENDS Integers, Sequences

CONSTANTS
  Base,        \* values of a byte
  Width,       \* bits of the shift register
  Setups       \* the ways the chip is used: [writes, reads, lines, responsive]

Flags == {"CA1", "CA2", "CB1", "CB2", "SR", "T1", "T2"}
ControlLines == {"CA1", "CA2", "CB1", "CB2"}
PALines == {"PA0"}
PBLines == {"PB0", "PB6", "PB7"}
Lines == ControlLines \cup PALines \cup PBLines
Bytes == 0 .. Base - 1

ACRs == [t1 : 0 .. 3, t2 : 0 .. 1, sr : 0 .. 7, latchA : BOOLEAN, latchB : BOOLEAN]
PCRs == {p \in [ControlLines -> 0 .. 7] : p["CA1"] <= 1 /\ p["CB1"] <= 1}

RegisterWrites ==
  [reg : {"ORB", "ORA", "ORA2", "DDRB", "DDRA", "IFR"}, data : SUBSET (Lines \cup Flags)]
  \cup [reg : {"T1CL", "T1CH", "T1LL", "T1LH", "T2CL", "T2CH"}, data : Bytes]
  \cup [reg : {"SR"}, data : [1 .. Width -> BOOLEAN]]
  \cup [reg : {"ACR"}, data : ACRs]
  \cup [reg : {"PCR"}, data : PCRs]
  \cup [reg : {"IER"}, data : [set : BOOLEAN, flags : SUBSET Flags]]

Registers == {"IRB", "IRA", "IRA2", "T1CL", "T2CL", "SR", "other"}

\* A setup: the register writes and reads of the program, the inputs the connected
\* devices move, and whether they do so in answer to an output.
ASSUME VIAAssumption ==
  /\ Base \in Nat \ {0} /\ Width \in Nat \ {0}
  /\ \A u \in Setups :
       /\ \A w \in u.writes : w \in RegisterWrites
       /\ u.reads \subseteq Registers
       /\ u.lines \subseteq Lines
       /\ u.responsive \in BOOLEAN

VARIABLES
  via,    \* the chip
  setup,  \* the setup it is used in
  hist    \* history: what its documentation makes of the accesses so far

vars == <<via, setup, hist>>

-----------------------------------------------------------------------------
(* Ports, flags and the interrupt output.                                  *)

\* updatePort; `answer' is what a connected device makes of the inputs.
UpdatePort(s, out, answer) ==
  [s EXCEPT !.out = out, !.in = IF out # s.out THEN answer ELSE s.in]

WithLine(lines, l, high) == IF high THEN lines \cup {l} ELSE lines \ {l}

SetIFR(s, flags)   == [s EXCEPT !.IFR = @ \cup flags]
ClearIFR(s, flags) == [s EXCEPT !.IFR = @ \ flags]

\* The IRQ output is low (asserted) while an enabled flag is set.
UpdateIRQOnlyAsserts(s) == [s EXCEPT !.irq = @ \/ s.IFR \cap s.IER # {}]

UpdateIRQ(s) == [s EXCEPT !.irq = (s.IFR \cap s.IER # {})]

-----------------------------------------------------------------------------
(* The shift register.                                                     *)

\* The low byte of T2 has just become zero.
T2LowTimesOut(s) == s.t2.counter % Base = 0 /\ s.t2.previous % Base # 0

\* Level of the shift clock in this cycle: CB1, phi2 or the timeouts of T2.
ShiftPulse(s) ==
  CASE s.acr.sr \in {0, 3, 7} -> "CB1" \in s.now
    [] s.acr.sr \in {2, 6}    -> ~s.sr.pulse
    [] OTHER                  -> IF T2LowTimesOut(s) THEN ~s.sr.pulse ELSE s.sr.pulse

CountShiftOneMore(s, stops) ==
  LET shifts == (s.sr.shifts + 1) % (Width + 1)
      whole  == shifts = 0
  IN  [s EXCEPT !.sr.shifts = shifts,
                !.sr.start = @ /\ ~(whole /\ stops),
                !.IFR = IF whole /\ s.sr.interrupt THEN @ \cup {"SR"} ELSE @]

\* A bit has been shifted: the last one of a byte sets the flag and may stop.
CountShift(s, stops) ==
  LET shifts == (s.sr.shifts + 1) % Width
      whole  == shifts = 0
  IN  [s EXCEPT !.sr.shifts = shifts,
                !.sr.start = @ /\ ~(whole /\ stops),
                !.IFR = IF whole /\ s.sr.interrupt THEN @ \cup {"SR"} ELSE @]

\* CB1 is driven first, so that the device can put the next bit on CB2.
ShiftInStale(s, rising, answer) ==
  LET t == IF s.sr.generate THEN UpdatePort(s, WithLine(s.out, "CB1", s.sr.pulse), answer) ELSE s
      bit == "CB2" \in t.now
      u == [t EXCEPT !.sr.bits = Append(Tail(@), bit)]
  IN  IF ~rising THEN t
      ELSE IF s.acr.sr = 0 THEN u ELSE CountShift(u, TRUE)

ShiftIn(s, rising, answer) ==
  LET t == IF s.sr.generate THEN UpdatePort(s, WithLine(s.out, "CB1", s.sr.pulse), answer) ELSE s
      bit == "CB2" \in t.in
      u == [t EXCEPT !.now = WithLine(@, "CB2", bit), !.sr.bits = Append(Tail(@), bit)]
  IN  IF ~rising THEN t
      ELSE IF s.acr.sr = 0 THEN u ELSE CountShift(u, TRUE)

\* CB2 is driven first (with bit 0), so that the device can read it on CB1's edge.
ShiftOut(s, rising, answer) ==
  LET bits == s.sr.bits
      t == UpdatePort(s, WithLine(s.out, "CB2", bits[Width]), answer)
      u == IF ~rising THEN s
           ELSE CountShift([t EXCEPT !.sr.bits = <<bits[Width]>> \o SubSeq(bits, 1, Width - 1)],
                           s.acr.sr \notin {4, 7})
  IN  IF s.sr.generate THEN UpdatePort(u, WithLine(u.out, "CB1", s.sr.pulse), answer) ELSE u

\* interrupt and generate stay as an earlier mode left them where the mode does
\* not set them.
CheckForShift(s, answer) ==
  LET mode == s.acr.sr
      active == s.sr.start \/ s.sr.shifts > 0 \/ mode = 0
      pulse  == ShiftPulse(s)
      rising == pulse /\ ~s.sr.pPulse
      t == [s EXCEPT !.sr.pulse = pulse,
                     !.sr.interrupt = (@ \/ mode \in {1, 2, 3, 5}) /\ mode # 0,
                     !.sr.generate = @ \/ mode \in {1, 2, 4, 5, 6}]
  IN  IF ~active THEN s
      ELSE IF mode \in 0 .. 3 THEN ShiftIn(t, rising, answer) ELSE ShiftOut(t, rising, answer)

-----------------------------------------------------------------------------
(* The timers.                                                             *)

Timer1Latch(s) == s.t1.high * Base + s.t1.low

\* A countdown that expires restarts in the free-running modes; in the modes with
\* output it raises or toggles PB7.
Timer1Expires(s, answer) ==
  LET again == s.acr.t1 \in {1, 3}
      t == [SetIFR(s, {"T1"}) EXCEPT !.t1.first = FALSE,
                                     !.t1.counter = IF again THEN Timer1Latch(s) ELSE 0,
                                     !.t1.running = again]
  IN  CASE s.acr.t1 = 2 -> UpdatePort(t, s.out \cup {"PB7"}, answer)
        [] s.acr.t1 = 3 -> UpdatePort(t, WithLine(s.out, "PB7", "PB7" \notin s.out), answer)
        [] OTHER        -> t

\* Until the end of the first countdown, a later one, T1 is running.
Timer1OneLate(s, answer) ==
  LET c == s.t1.counter - 1
  IN  IF ~s.t1.running THEN s
      ELSE IF c <= -2 THEN Timer1Expires(s, answer)
      ELSE [s EXCEPT !.t1.counter = c]

Timer1PB7Stays(s, answer) ==
  LET c == s.t1.counter - 1
  IN  IF ~s.t1.running THEN s
      ELSE IF c <= (IF s.t1.first THEN -1 ELSE -2)
      THEN [Timer1Expires(s, answer) EXCEPT !.out = s.out]
      ELSE [s EXCEPT !.t1.counter = c]

Timer1(s, answer) ==
  LET c == s.t1.counter - 1
  IN  IF ~s.t1.running THEN s
      ELSE IF c <= (IF s.t1.first THEN -1 ELSE -2) THEN Timer1Expires(s, answer)
      ELSE [s EXCEPT !.t1.counter = c]

\* T2 counts on when it has expired.  Bound: only the two low bytes and the sign of
\* a negative count are ever looked at, so it wraps within the negative numbers.
Wrapped(c) == IF c < -(Base * Base) THEN c + Base * Base ELSE c

\* T2 counts cycles, or both edges of PB6.
Timer2(s) ==
  LET counts == s.acr.t2 = 0 \/ ("PB6" \in s.now) # ("PB6" \in s.pIn)
      c == IF counts THEN Wrapped(s.t2.counter - 1) ELSE s.t2.counter
  IN  IF c <= -1 /\ s.t2.running
      THEN [SetIFR(s, {"T2"}) EXCEPT !.t2.counter = 0, !.t2.running = FALSE]
      ELSE [s EXCEPT !.t2.counter = c]

-----------------------------------------------------------------------------
(* The control lines.                                                      *)

IsInput(s, l) == l \in {"CA1", "CB1"} \/ s.pcr[l] \in 0 .. 3
Positive(s, l) == IF l \in {"CA1", "CB1"} THEN s.pcr[l] = 1 ELSE s.pcr[l] \in {2, 3}

\* An active transition since the previous cycle.
ActiveEdgeNegative(s, l) == (l \in s.now) # (l \in s.pIn) /\ l \notin s.now

ActiveEdge(s, l) == (l \in s.now) # (l \in s.pIn) /\ (l \in s.now) = Positive(s, l)

Partner == [l \in {"CA1", "CB1"} |-> IF l = "CA1" THEN "CA2" ELSE "CB2"]

CheckForHandShaking(s, answer) ==
  LET edges == {l \in ControlLines : IsInput(s, l) /\ ActiveEdge(s, l)}
      released == {Partner[l] : l \in {k \in edges \cap {"CA1", "CB1"} : s.pcr[Partner[k]] \in {4, 5}}}
  IN  UpdatePort(SetIFR(s, edges), s.out \cup released, answer)

-----------------------------------------------------------------------------
(* advanceUntil.                                                           *)

SampleAlways(s) ==
  LET latching == (IF s.acr.latchA THEN PALines ELSE {}) \cup (IF s.acr.latchB THEN PBLines ELSE {})
  IN  [s EXCEPT !.now = s.in, !.latched = (@ \ latching) \cup (s.in \cap latching)]

\* The levels this cycle works with; port A (B) is latched while CA1 (CB1) is high.
Sample(s) ==
  LET latching == (IF s.acr.latchA /\ "CA1" \in s.in THEN PALines ELSE {})
                    \cup (IF s.acr.latchB /\ "CB1" \in s.in THEN PBLines ELSE {})
  IN  [s EXCEPT !.now = s.in, !.latched = (@ \ latching) \cup (s.in \cap latching)]

EndCycleForgetsCA(s) ==
  [s EXCEPT !.pIn = (s.in \ {"CA1", "CA2"}) \cup (@ \cap {"CA1", "CA2"}),
            !.sr.pPulse = s.sr.pulse, !.t2.previous = s.t2.counter]

EndCycle(s) ==
  [s EXCEPT !.pIn = s.in, !.sr.pPulse = s.sr.pulse, !.t2.previous = s.t2.counter]

\* A new shift mode restarts the count of shifts.
NoteShiftMode(s) ==
  [s EXCEPT !.sr.shifts = IF s.acr.sr # s.sr.mode THEN 0 ELSE @, !.sr.mode = s.acr.sr]

Cycle(s, answer) ==
  LET shifted == CheckForShift(Sample(NoteShiftMode(s)), answer)
      timed   == Timer2(Timer1(shifted, answer))
  IN  UpdateIRQ(EndCycle(CheckForHandShaking(timed, answer)))

\* The timers, and what is going on in the shift register, survive a reset; the
\* outputs are set without telling the connected devices.
ResetState(s) ==
  [s EXCEPT !.IFR = {}, !.IER = {}, !.ddr = {}, !.out = Lines,
            !.acr = [t1 |-> 0, t2 |-> 0, sr |-> 0, latchA |-> FALSE, latchB |-> FALSE],
            !.pcr = [l \in ControlLines |-> 0],
            !.sr.bits = [i \in 1 .. Width |-> FALSE]]

-----------------------------------------------------------------------------
(* readByte and writeByte.                                                 *)

\* An access of a data register acknowledges the transitions of its control lines,
\* those of an independent interrupt input excepted.
Acknowledge(s, c1, c2) == ClearIFR(s, {c1} \cup (IF s.pcr[c2] \in {0, 2} THEN {c2} ELSE {}))

StartShifting(s) ==
  [s EXCEPT !.sr.start = @ \/ (s.sr.shifts = 0 /\ s.acr.sr # 6)]

\* A read of IRB leaves the case before it clears anything.
ReadByte(s, r) ==
  UpdateIRQ(CASE r = "IRA"  -> Acknowledge(s, "CA1", "CA2")
              [] r = "T1CL" -> ClearIFR(s, {"T1"})
              [] r = "T2CL" -> ClearIFR(s, {"T2"})
              [] r = "SR"   -> ClearIFR(StartShifting(s), {"SR"})
              [] OTHER      -> s)

WritePort(s, lines, data) ==
  [s EXCEPT !.out = (@ \ (lines \cap s.ddr)) \cup (data \cap lines \cap s.ddr)]

\* A counter of -1 reads as the largest 16-bit number.
LowByteReplacedSigned(c, data) == c - (c % Base) + data

LowByteReplaced(c, data) == LET word == c % (Base * Base) IN word - (word % Base) + data

WriteT1CounterHigh(s, data) ==
  LET low == IF s.t1.lowWritten THEN s.t1.low ELSE s.t1.counter % Base
      t == [ClearIFR(s, {"T1"}) EXCEPT !.t1.high = data, !.t1.lowWritten = FALSE,
                                       !.t1.counter = data * Base + low,
                                       !.t1.running = TRUE, !.t1.first = TRUE]
  IN  CASE s.acr.t1 = 2 -> [t EXCEPT !.out = @ \ {"PB7"}]
        [] s.acr.t1 = 3 -> [t EXCEPT !.out = WithLine(@, "PB7", "PB7" \notin @)]
        [] OTHER        -> t

WritePCR(s, data) ==
  LET level(out, l) == CASE data[l] = 6 -> out \ {l}
                         [] data[l] = 7 -> out \cup {l}
                         [] OTHER       -> out
  IN  [s EXCEPT !.pcr = data, !.out = level(level(@, "CA2"), "CB2")]

\* T2CL ends up in the latch of T1, and T2CH does not load the counter of T2.
Written(s, r, data) ==
  CASE r = "ORB"  -> WritePort(Acknowledge(s, "CB1", "CB2"), PBLines, data)
    [] r = "ORA"  -> Acknowledge(WritePort(s, PALines, data), "CA1", "CA2")
    [] r = "ORA2" -> WritePort(s, PALines, data)
    [] r = "DDRB" -> [s EXCEPT !.ddr = (@ \ PBLines) \cup (data \cap PBLines)]
    [] r = "DDRA" -> [s EXCEPT !.ddr = (@ \ PALines) \cup (data \cap PALines)]
    [] r = "T1CL" -> [s EXCEPT !.t1.low = data, !.t1.lowWritten = TRUE,
                               !.t1.counter = LowByteReplaced(@, data)]
    [] r = "T1CH" -> WriteT1CounterHigh(s, data)
    [] r = "T1LL" -> [s EXCEPT !.t1.low = data, !.t1.lowWritten = FALSE]
    [] r = "T1LH" -> [s EXCEPT !.t1.high = data]
    [] r = "T2CL" -> [s EXCEPT !.t1.low = data]
    [] r = "T2CH" -> [ClearIFR(s, {"T2"}) EXCEPT !.t2.high = data, !.t2.running = TRUE]
    [] r = "SR"   -> ClearIFR(StartShifting([s EXCEPT !.sr.bits = data]), {"SR"})
    [] r = "ACR"  -> [s EXCEPT !.acr = data]
    [] r = "PCR"  -> WritePCR(s, data)
    [] r = "IFR"  -> ClearIFR(s, data)
    [] r = "IER"  -> [s EXCEPT !.IER = IF data.set THEN @ \cup data.flags ELSE @ \ data.flags]

WriteByte(s, r, data) == UpdateIRQ(Written(s, r, data))

-----------------------------------------------------------------------------
(* Actions.                                                                *)

None == 0      \* no countdown
Unknown == -1  \* a countdown whose end the documentation does not tell

\* What the documentation makes of a cycle: countdowns get shorter, T1 starts
\* again in the free-running modes, the levels of the inputs are seen and those of port A
\* held from a falling CA1 until it rises; t is the chip after the cycle.
AfterCycle(h, s, t) ==
  [h EXCEPT !.op = "cycle",
            !.shiftAge = IF @ > 0 /\ t.sr.start THEN @ + 1 ELSE 0,
            !.fresh = FALSE,
            !.seen = s.in,
            !.latching = s.acr.latchA,
            !.held = IF "CA1" \in h.seen THEN h.seen \cap PALines ELSE @,
            !.holding = /\ h.latching /\ s.acr.latchA
                        /\ "CA1" \notin s.in
                        /\ @ \/ "CA1" \in h.seen,
            !.t1Due = CASE @ > 1 -> @ - 1
                        [] @ = 1 -> IF s.acr.t1 \in {1, 3} THEN h.t1High * Base + h.t1Low + 2 ELSE None
                        [] OTHER -> @]

\* ... and of a write: t is the chip after it.
AfterWrite(h, s, t, r, data) ==
  [h EXCEPT !.op = "write",
            !.fresh = FALSE,
            !.t1Low = IF r \in {"T1CL", "T1LL"} THEN data ELSE @,
            !.t1High = IF r \in {"T1CH", "T1LH"} THEN data ELSE @,
            !.t1Due = CASE r = "T1CH" -> t.t1.counter + 1
                        [] r = "T1CL" /\ @ # None -> Unknown
                        [] OTHER -> @,
            !.shiftAge = CASE r = "SR" /\ s.acr.sr = 2 /\ ~s.sr.start /\ s.sr.shifts = 0 -> 1
                           [] r = "ACR" -> 0
                           [] OTHER -> @,
            !.pulse = CASE r = "T1CH" -> s.acr.t1 = 2
                        [] r \in {"T1CL", "ACR"} -> FALSE
                        [] r = "ORB" /\ "PB7" \in s.ddr -> FALSE
                        [] OTHER -> @]

\* What the connected devices may make of the inputs during a cycle.
Answers ==
  IF setup.responsive THEN {(via.in \ setup.lines) \cup a : a \in SUBSET setup.lines}
  ELSE {via.in}

Advance ==
  \E answer \in Answers :
    /\ via' = Cycle(via, answer)
    /\ hist' = AfterCycle(hist, via, via')
    /\ UNCHANGED setup

Read(r) ==
  \E answer \in Answers :
    /\ via' = ReadByte(Cycle(via, answer), r)
    /\ hist' = [AfterCycle(hist, via, Cycle(via, answer)) EXCEPT !.op = r]
    /\ UNCHANGED setup

Write(w) ==
  /\ via' = WriteByte(via, w.reg, w.data)
  /\ hist' = AfterWrite(hist, via, via', w.reg, w.data)
  /\ UNCHANGED setup

\* The RESET input falls; advanceUntil does nothing else then.
Reset ==
  /\ via' = ResetState(via)
  /\ hist' = [hist EXCEPT !.op = "reset", !.fresh = TRUE, !.pulse = FALSE, !.shiftAge = 0]
  /\ UNCHANGED setup

\* A connected device moves an input between two cycles.
Input(l) ==
  /\ via' = [via EXCEPT !.in = WithLine(@, l, l \notin @)]
  /\ hist' = [hist EXCEPT !.op = "input"]
  /\ UNCHANGED setup

Init ==
  /\ setup \in Setups
  /\ \E in \in SUBSET setup.lines :
       via = [IFR |-> {}, IER |-> {}, irq |-> FALSE, ddr |-> {},
              acr |-> [t1 |-> 0, t2 |-> 0, sr |-> 0, latchA |-> FALSE, latchB |-> FALSE],
              pcr |-> [l \in ControlLines |-> 0],
              in |-> in, pIn |-> Lines, now |-> in, out |-> Lines,
              latched |-> PALines \cup PBLines,
              t1 |-> [counter |-> 0, high |-> 0, low |-> 0, lowWritten |-> FALSE,
                      running |-> FALSE, first |-> FALSE],
              t2 |-> [counter |-> 0, previous |-> 0, high |-> 0, running |-> FALSE],
              sr |-> [bits |-> [i \in 1 .. Width |-> FALSE], shifts |-> 0, start |-> FALSE,
                      pulse |-> FALSE, pPulse |-> FALSE, interrupt |-> FALSE,
                      generate |-> FALSE, mode |-> 0]]
  /\ hist = [op |-> "reset", fresh |-> TRUE, seen |-> Lines, t1Due |-> None,
             t1Low |-> 0, t1High |-> 0, pulse |-> FALSE, shiftAge |-> 0,
             latching |-> FALSE, held |-> {}, holding |-> FALSE]

Next ==
  \/ Advance
  \/ \E r \in setup.reads : Read(r)
  \/ \E w \in setup.writes : Write(w)
  \/ \E l \in setup.lines : Input(l)
  \/ Reset

Spec == Init /\ [][Next]_vars

=============================================================================

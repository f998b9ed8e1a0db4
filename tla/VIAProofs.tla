----------------------------- MODULE VIAProofs ------------------------------
(***************************************************************************)
(* Proofs about the VIA, whatever the width of its registers and the       *)
(* setups it is used in: its state stays well typed (no counter leaves its *)
(* range), its IRQ output follows its flags, T1 and the shift register set *)
(* their flags when they run out, transitions of the control lines set     *)
(* theirs, and what is latched and shifted in then is right.               *)
(*                                                                         *)
(* A cycle is a composition of functions of the chip.  A lemma for each    *)
(* says what it leaves alone and what it does to the rest; the effect of   *)
(* the cycle follows, and from it, action by action, the invariant.        *)
(***************************************************************************)
EXTENDS VIAProperties, TLAPS

-----------------------------------------------------------------------------
(* Arithmetic and sequences.                                               *)

\* A high and a low byte make a word.
LEMMA WordRange ==
  ASSUME NEW high \in Bytes, NEW low \in Bytes
  PROVE  high * Base + low \in 0 .. Base * Base - 1
<1> USE VIAAssumption DEF Bytes
<1>1. high * Base >= 0 /\ high * Base \in Int
  BY SMTT(30)
<1>2. high * Base <= (Base - 1) * Base
  BY SMTT(30)
<1>3. (Base - 1) * Base = Base * Base - Base
  BY SMTT(30)
<1> QED  BY <1>1, <1>2, <1>3

\* Replacing the low byte of a word leaves a word.
LEMMA LowByteRange ==
  ASSUME NEW c \in Int, NEW data \in Bytes
  PROVE  LowByteReplaced(c, data) \in 0 .. Base * Base - 1
<1> USE VIAAssumption
<1> DEFINE word == c % (Base * Base)
           high == word \div Base
<1>1. Base * Base \in Nat \ {0}
  BY SMTT(30)
<1>2. word \in 0 .. Base * Base - 1
  BY <1>1, SMTT(30)
<1>3. high \in Int /\ word = high * Base + (word % Base) /\ word % Base \in 0 .. Base - 1
  BY <1>2, SMTT(30)
<1> HIDE DEF word, high
<1>4. high >= 0
  <2> SUFFICES ASSUME high <= -1 PROVE FALSE
    BY <1>3
  <2>1. high * Base <= -Base
    BY <1>3, SMTT(30)
  <2> QED  BY <1>2, <1>3, <2>1
<1>5. high <= Base - 1
  <2> SUFFICES ASSUME high >= Base PROVE FALSE
    BY <1>3
  <2>1. high * Base >= Base * Base
    BY <1>3, SMTT(30)
  <2> QED  BY <1>2, <1>3, <2>1
<1>6. high * Base + data \in 0 .. Base * Base - 1
  BY <1>3, <1>4, <1>5, WordRange DEF Bytes
<1> QED  BY <1>3, <1>6, high * Base \in Int DEF LowByteReplaced, word, Bytes

-----------------------------------------------------------------------------
(* Each function of the chip keeps its type.                               *)

\* Driving lines keeps the chip's state typed.
LEMMA UpdatePortType ==
  ASSUME NEW s \in ViaType, NEW out \in SUBSET Lines, NEW answer \in SUBSET Lines
  PROVE  UpdatePort(s, out, answer) \in ViaType
BY DEF UpdatePort, ViaType

\* Setting interrupt flags keeps it typed.
LEMMA FlagsType ==
  ASSUME NEW s \in ViaType, NEW flags \in SUBSET Flags
  PROVE  SetIFR(s, flags) \in ViaType
BY DEF SetIFR, ViaType

\* Any set may be cleared from the flags.
LEMMA ClearType ==
  ASSUME NEW s \in ViaType, NEW flags
  PROVE  ClearIFR(s, flags) \in ViaType
BY DEF ClearIFR, ViaType

\* updateIRQ keeps the type, and makes the output what the flags and enables say.
LEMMA UpdateIRQType ==
  ASSUME NEW s \in ViaType
  PROVE  /\ UpdateIRQ(s) \in ViaType
         /\ UpdateIRQ(s).irq <=> UpdateIRQ(s).IFR \cap UpdateIRQ(s).IER # {}
<1>1. (s.IFR \cap s.IER # {}) \in BOOLEAN
  OBVIOUS
<1> QED  BY <1>1 DEF UpdateIRQ, ViaType

\* A line driven high or low is a line of the chip's.
LEMMA LineType ==
  ASSUME NEW out \in SUBSET Lines, NEW l \in Lines, NEW high
  PROVE  WithLine(out, l, high) \in SUBSET Lines
BY DEF WithLine

\* Shifting keeps the number of bits.
LEMMA BitsShifted ==
  ASSUME NEW bits \in [1 .. Width -> BOOLEAN], NEW bit \in BOOLEAN
  PROVE  /\ Append(Tail(bits), bit) \in [1 .. Width -> BOOLEAN]
         /\ bits[Width] \in BOOLEAN
         /\ <<bits[Width]>> \o SubSeq(bits, 1, Width - 1) \in [1 .. Width -> BOOLEAN]
<1> USE VIAAssumption
<1>1. bits \in Seq(BOOLEAN) /\ Len(bits) = Width /\ Width \in 1 .. Width
  OBVIOUS
<1>2. Append(Tail(bits), bit) \in Seq(BOOLEAN) /\ Len(Append(Tail(bits), bit)) = Width
  BY <1>1
<1>3. SubSeq(bits, 1, Width - 1) \in Seq(BOOLEAN) /\ Len(SubSeq(bits, 1, Width - 1)) = Width - 1
  BY <1>1
<1>4. <<bits[Width]>> \in Seq(BOOLEAN) /\ Len(<<bits[Width]>>) = 1
  BY <1>1
<1> DEFINE out == <<bits[Width]>> \o SubSeq(bits, 1, Width - 1)
<1>5. out \in Seq(BOOLEAN) /\ Len(out) = Width
  BY <1>3, <1>4
<1> HIDE DEF out
<1>6. \A q \in Seq(BOOLEAN) : Len(q) = Width => q \in [1 .. Width -> BOOLEAN]
  OBVIOUS
<1> QED  BY <1>1, <1>2, <1>5, <1>6 DEF out

\* Counting a shift keeps the state typed.
LEMMA CountShiftType ==
  ASSUME NEW s \in ViaType, NEW stops \in BOOLEAN
  PROVE  CountShift(s, stops) \in ViaType
<1> USE VIAAssumption
<1> DEFINE shifts == (s.sr.shifts + 1) % Width
           sr == [s.sr EXCEPT !.shifts = shifts, !.start = @ /\ ~(shifts = 0 /\ stops)]
           IFR == IF shifts = 0 /\ s.sr.interrupt THEN s.IFR \cup {"SR"} ELSE s.IFR
<1>1. s.sr \in ShiftType /\ s.IFR \in SUBSET Flags
  BY DEF ViaType
<1>2. shifts \in 0 .. Width - 1
  BY <1>1 DEF ShiftType
<1>3. (s.sr.start /\ ~(shifts = 0 /\ stops)) \in BOOLEAN
  OBVIOUS
<1>4. sr \in ShiftType
  BY <1>1, <1>2, <1>3 DEF ShiftType
<1>5. IFR \in SUBSET Flags
  BY <1>1 DEF Flags
<1>6. CountShift(s, stops) = [s EXCEPT !.sr = sr, !.IFR = IFR]
  BY <1>1 DEF CountShift, ViaType
<1> QED  BY <1>4, <1>5, <1>6 DEF ViaType

\* Shifting a bit in keeps it typed.
LEMMA ShiftInType ==
  ASSUME NEW s \in ViaType, NEW rising \in BOOLEAN, NEW answer \in SUBSET Lines
  PROVE  ShiftIn(s, rising, answer) \in ViaType
<1> DEFINE t == IF s.sr.generate
                THEN UpdatePort(s, WithLine(s.out, "CB1", s.sr.pulse), answer) ELSE s
           bit == "CB2" \in t.in
           u == [t EXCEPT !.now = WithLine(@, "CB2", bit), !.sr.bits = Append(Tail(@), bit)]
<1>1. t \in ViaType
  <2>1. s.out \in SUBSET Lines /\ "CB1" \in Lines
    BY DEF ViaType, Lines, ControlLines
  <2>2. WithLine(s.out, "CB1", s.sr.pulse) \in SUBSET Lines
    BY <2>1, LineType
  <2> QED  BY <2>2, UpdatePortType
<1> HIDE DEF t
<1>2. u \in ViaType
  <2>1. t.now \in SUBSET Lines /\ "CB2" \in Lines /\ t.sr \in ShiftType
    BY <1>1 DEF ViaType, Lines, ControlLines
  <2>2. WithLine(t.now, "CB2", bit) \in SUBSET Lines
    BY <2>1, LineType
  <2>3. Append(Tail(t.sr.bits), bit) \in [1 .. Width -> BOOLEAN]
    <3>1. bit \in BOOLEAN
      OBVIOUS
    <3>2. t.sr.bits \in [1 .. Width -> BOOLEAN]
      BY <2>1 DEF ShiftType
    <3> HIDE DEF bit
    <3> QED  BY <3>1, <3>2, BitsShifted
  <2>4. [t.sr EXCEPT !.bits = Append(Tail(@), bit)] \in ShiftType
    BY <2>1, <2>3 DEF ShiftType
  <2> QED  BY <1>1, <2>2, <2>4 DEF ViaType
<1> HIDE DEF u
<1>3. CountShift(u, TRUE) \in ViaType
  BY <1>2, CountShiftType
<1> QED  BY <1>1, <1>2, <1>3 DEF ShiftIn, t, bit, u

\* Shifting a bit out keeps it typed.
LEMMA ShiftOutType ==
  ASSUME NEW s \in ViaType, NEW rising \in BOOLEAN, NEW answer \in SUBSET Lines
  PROVE  ShiftOut(s, rising, answer) \in ViaType
<1> DEFINE bits == s.sr.bits
           t == UpdatePort(s, WithLine(s.out, "CB2", bits[Width]), answer)
           b == <<bits[Width]>> \o SubSeq(bits, 1, Width - 1)
           v == [t EXCEPT !.sr.bits = b]
           u == IF ~rising THEN s ELSE CountShift(v, s.acr.sr \notin {4, 7})
<1>1. /\ s.out \in SUBSET Lines /\ {"CB1", "CB2"} \subseteq Lines
      /\ bits \in [1 .. Width -> BOOLEAN]
  BY DEF ViaType, ShiftType, Lines, ControlLines
<1>2. t \in ViaType
  BY <1>1, LineType, UpdatePortType
<1>3. b \in [1 .. Width -> BOOLEAN]
  BY <1>1, BitsShifted
<1>4. v \in ViaType
  <2> HIDE DEF t, b
  <2>1. t.sr \in ShiftType
    BY <1>2 DEF ViaType
  <2>2. [t.sr EXCEPT !.bits = b] \in ShiftType
    BY <1>3, <2>1 DEF ShiftType
  <2> QED  BY <1>2, <2>2 DEF ViaType
<1>5. u \in ViaType
  <2> HIDE DEF v
  <2>1. (s.acr.sr \notin {4, 7}) \in BOOLEAN
    OBVIOUS
  <2> QED  BY <1>4, <2>1, CountShiftType
<1> HIDE DEF u
<1>6. UpdatePort(u, WithLine(u.out, "CB1", s.sr.pulse), answer) \in ViaType
  <2>1. u.out \in SUBSET Lines
    BY <1>5 DEF ViaType
  <2> QED  BY <1>1, <1>5, <2>1, LineType, UpdatePortType
<1> QED  BY <1>5, <1>6 DEF ShiftOut, u, v, b, t, bits

\* The shift register as checkForShift prepares it before it shifts.
LEMMA ShiftPrepared ==
  ASSUME NEW s \in ViaType
  PROVE  [s EXCEPT !.sr.pulse = ShiftPulse(s),
                   !.sr.interrupt = (@ \/ s.acr.sr \in {1, 2, 3, 5}) /\ s.acr.sr # 0,
                   !.sr.generate = @ \/ s.acr.sr \in {1, 2, 4, 5, 6}] \in ViaType
<1> DEFINE pulse == ShiftPulse(s)
           interrupt == (s.sr.interrupt \/ s.acr.sr \in {1, 2, 3, 5}) /\ s.acr.sr # 0
           generate == s.sr.generate \/ s.acr.sr \in {1, 2, 4, 5, 6}
<1>1. s.sr \in ShiftType
  BY DEF ViaType
<1>2. pulse \in BOOLEAN
  <2>1. (~s.sr.pulse) \in BOOLEAN /\ s.sr.pulse \in BOOLEAN
    BY <1>1 DEF ShiftType
  <2>2. ("CB1" \in s.now) \in BOOLEAN
    OBVIOUS
  <2>3. pulse \in {"CB1" \in s.now, ~s.sr.pulse, s.sr.pulse}
    <3>1. CASE s.acr.sr \in {0, 3, 7}
      BY <3>1 DEF ShiftPulse
    <3>2. CASE s.acr.sr \in {2, 6}
      BY <3>2 DEF ShiftPulse
    <3>3. CASE s.acr.sr \notin {0, 2, 3, 6, 7}
      BY <3>3 DEF ShiftPulse
    <3> QED  BY <3>1, <3>2, <3>3
  <2> QED  BY <2>1, <2>2, <2>3
<1>3. interrupt \in BOOLEAN /\ generate \in BOOLEAN
  OBVIOUS
<1> HIDE DEF pulse, interrupt, generate
<1>4. [s.sr EXCEPT !.pulse = pulse, !.interrupt = interrupt, !.generate = generate] \in ShiftType
  BY <1>1, <1>2, <1>3 DEF ShiftType
<1>5. [s EXCEPT !.sr.pulse = pulse, !.sr.interrupt = interrupt, !.sr.generate = generate] \in ViaType
  BY <1>4 DEF ViaType
<1> QED  BY <1>5 DEF pulse, interrupt, generate

\* The shift register's part of a cycle keeps it typed.
LEMMA CheckForShiftType ==
  ASSUME NEW s \in ViaType, NEW answer \in SUBSET Lines
  PROVE  CheckForShift(s, answer) \in ViaType
<1> DEFINE t == [s EXCEPT !.sr.pulse = ShiftPulse(s),
                          !.sr.interrupt = (@ \/ s.acr.sr \in {1, 2, 3, 5}) /\ s.acr.sr # 0,
                          !.sr.generate = @ \/ s.acr.sr \in {1, 2, 4, 5, 6}]
           rising == ShiftPulse(s) /\ ~s.sr.pPulse
<1>1. t \in ViaType
  BY ShiftPrepared
<1>2. rising \in BOOLEAN
  OBVIOUS
<1>3. CheckForShift(s, answer) \in {s, ShiftIn(t, rising, answer), ShiftOut(t, rising, answer)}
  BY DEF CheckForShift
<1> HIDE DEF t, rising
<1> QED  BY <1>1, <1>2, <1>3, ShiftInType, ShiftOutType

-----------------------------------------------------------------------------
(* The timers.                                                             *)

\* The latches of timer 1 make a counter.
LEMMA LatchType ==
  ASSUME NEW s \in ViaType
  PROVE  Timer1Latch(s) \in 0 .. Base * Base - 1
<1>1. s.t1.high \in Bytes /\ s.t1.low \in Bytes
  BY DEF ViaType, Timer1Type
<1> QED  BY <1>1, WordRange DEF Timer1Latch

\* The end of timer 1's count keeps the state typed.
LEMMA Timer1ExpiresType ==
  ASSUME NEW s \in ViaType, NEW answer \in SUBSET Lines
  PROVE  Timer1Expires(s, answer) \in ViaType
<1> DEFINE again == s.acr.t1 \in {1, 3}
           counter == IF again THEN Timer1Latch(s) ELSE 0
           t1 == [s.t1 EXCEPT !.first = FALSE, !.counter = counter, !.running = again]
           t == [SetIFR(s, {"T1"}) EXCEPT !.t1.first = FALSE, !.t1.counter = counter,
                                          !.t1.running = again]
<1>1. s.t1 \in Timer1Type /\ s.out \in SUBSET Lines /\ "PB7" \in Lines
  BY DEF ViaType, Lines, PBLines
<1>2. t1 \in Timer1Type
  <2>1. counter \in -1 .. Base * Base - 1
    <3>1. Base * Base \in Nat \ {0}
      BY VIAAssumption, SMTT(30)
    <3> QED  BY <3>1, LatchType
  <2>2. again \in BOOLEAN
    OBVIOUS
  <2> HIDE DEF counter, again
  <2> QED  BY <1>1, <2>1, <2>2 DEF Timer1Type
<1>3. t \in ViaType
  <2>1. SetIFR(s, {"T1"}) \in ViaType
    BY FlagsType DEF Flags
  <2>2. SetIFR(s, {"T1"}).t1 = s.t1
    BY DEF SetIFR, ViaType
  <2>3. t = [SetIFR(s, {"T1"}) EXCEPT !.t1 = t1]
    BY <2>1, <2>2 DEF ViaType
  <2> HIDE DEF t1, t
  <2> QED  BY <1>2, <2>1, <2>3 DEF ViaType
<1>4. \A out \in SUBSET Lines : UpdatePort(t, out, answer) \in ViaType
  <2> HIDE DEF t
  <2> QED  BY <1>3, UpdatePortType
<1>5. /\ s.out \cup {"PB7"} \in SUBSET Lines
      /\ WithLine(s.out, "PB7", "PB7" \notin s.out) \in SUBSET Lines
  BY <1>1, LineType
<1>6. Timer1Expires(s, answer) \in
        {t, UpdatePort(t, s.out \cup {"PB7"}, answer),
         UpdatePort(t, WithLine(s.out, "PB7", "PB7" \notin s.out), answer)}
  <2>1. CASE s.acr.t1 = 2
    BY <2>1 DEF Timer1Expires
  <2>2. CASE s.acr.t1 = 3
    BY <2>2 DEF Timer1Expires
  <2>3. CASE s.acr.t1 \notin {2, 3}
    BY <2>3 DEF Timer1Expires
  <2> QED  BY <2>1, <2>2, <2>3
<1> HIDE DEF t
<1> QED  BY <1>3, <1>4, <1>5, <1>6

\* Timer 1's part of a cycle keeps it typed.
LEMMA Timer1Typed ==
  ASSUME NEW s \in ViaType, NEW answer \in SUBSET Lines
  PROVE  Timer1(s, answer) \in ViaType
<1> DEFINE c == s.t1.counter - 1
           expires == c <= (IF s.t1.first THEN -1 ELSE -2)
<1>1. s.t1 \in Timer1Type
  BY DEF ViaType
<1>2. CASE s.t1.running /\ ~expires
  <2>1. Base * Base \in Nat
    BY VIAAssumption, SMTT(30)
  <2>2. c \in -1 .. Base * Base - 1
    BY <1>1, <1>2, <2>1 DEF Timer1Type
  <2>3. [s.t1 EXCEPT !.counter = c] \in Timer1Type
    BY <1>1, <2>2 DEF Timer1Type
  <2>4. Timer1(s, answer) = [s EXCEPT !.t1.counter = c]
    BY <1>2 DEF Timer1
  <2> QED  BY <2>3, <2>4 DEF ViaType
<1>3. CASE ~s.t1.running \/ expires
  BY <1>3, Timer1ExpiresType DEF Timer1
<1> QED  BY <1>2, <1>3

\* Timer 2's part of a cycle keeps it typed.
LEMMA Timer2Typed ==
  ASSUME NEW s \in ViaType
  PROVE  Timer2(s) \in ViaType
<1> DEFINE c == IF s.acr.t2 = 0 \/ ("PB6" \in s.now) # ("PB6" \in s.pIn)
                THEN Wrapped(s.t2.counter - 1) ELSE s.t2.counter
           t == SetIFR(s, {"T2"})
<1>1. s.t2 \in Timer2Type
  BY DEF ViaType
<1>2. Base * Base \in Nat \ {0}
  BY VIAAssumption, SMTT(30)
<1>3. c \in -(Base * Base) .. 0
  BY <1>1, <1>2 DEF Wrapped, Timer2Type
<1>4. Timer2(s) \in {[t EXCEPT !.t2.counter = 0, !.t2.running = FALSE], [s EXCEPT !.t2.counter = c]}
  BY DEF Timer2
<1> HIDE DEF c
<1>5. [s EXCEPT !.t2.counter = c] \in ViaType
  <2>1. [s.t2 EXCEPT !.counter = c] \in Timer2Type
    BY <1>1, <1>3 DEF Timer2Type
  <2> QED  BY <2>1 DEF ViaType
<1>6. [t EXCEPT !.t2.counter = 0, !.t2.running = FALSE] \in ViaType
  <2>1. t \in ViaType
    BY FlagsType DEF Flags
  <2> HIDE DEF t
  <2>2. [t.t2 EXCEPT !.counter = 0, !.running = FALSE] \in Timer2Type
    <3>1. t.t2 \in Timer2Type
      BY <2>1 DEF ViaType
    <3>2. 0 \in -(Base * Base) .. 0
      BY <1>2
    <3> QED  BY <3>1, <3>2 DEF Timer2Type
  <2> QED  BY <2>1, <2>2 DEF ViaType
<1> HIDE DEF t
<1> QED  BY <1>4, <1>5, <1>6

-----------------------------------------------------------------------------
(* A cycle, the register accesses and a reset.                             *)

\* The handshake's part of a cycle keeps it typed.
LEMMA HandShakingType ==
  ASSUME NEW s \in ViaType, NEW answer \in SUBSET Lines
  PROVE  CheckForHandShaking(s, answer) \in ViaType
<1> DEFINE edges == {l \in ControlLines : IsInput(s, l) /\ ActiveEdge(s, l)}
           pulled == {k \in edges \cap {"CA1", "CB1"} : s.pcr[Partner[k]] \in {4, 5}}
           released == {Partner[l] : l \in pulled}
<1>1. edges \subseteq Flags /\ released \subseteq Lines
  BY DEF ControlLines, Flags, Lines, Partner
<1>2. s.out \cup released \in SUBSET Lines
  BY <1>1 DEF ViaType
<1>3. SetIFR(s, edges) \in ViaType
  BY <1>1, FlagsType
<1>4. CheckForHandShaking(s, answer) = UpdatePort(SetIFR(s, edges), s.out \cup released, answer)
  BY DEF CheckForHandShaking
<1> HIDE DEF edges, released
<1> QED  BY <1>2, <1>3, <1>4, UpdatePortType

\* The ends of a cycle keep it typed.
LEMMA SampleType ==
  ASSUME NEW s \in ViaType
  PROVE  /\ Sample(s) \in ViaType
         /\ NoteShiftMode(s) \in ViaType
         /\ EndCycle(s) \in ViaType
<1> USE VIAAssumption
<1>1. /\ s.sr \in ShiftType /\ s.t2 \in Timer2Type /\ s.acr \in ACRs
      /\ s.in \subseteq Lines /\ s.latched \subseteq Lines
  BY DEF ViaType
<1>2. Sample(s) \in ViaType
  BY <1>1 DEF Sample, ViaType, PALines, PBLines, Lines
<1>3. NoteShiftMode(s) \in ViaType
  <2> DEFINE shifts == IF s.acr.sr # s.sr.mode THEN 0 ELSE s.sr.shifts
             sr == [s.sr EXCEPT !.shifts = shifts, !.mode = s.acr.sr]
  <2>1. shifts \in 0 .. Width - 1 /\ s.acr.sr \in 0 .. 7
    BY <1>1 DEF ShiftType, ACRs
  <2>2. sr \in ShiftType
    BY <1>1, <2>1 DEF ShiftType
  <2>3. NoteShiftMode(s) = [s EXCEPT !.sr = sr]
    BY <1>1 DEF NoteShiftMode, ShiftType
  <2> HIDE DEF sr
  <2> QED  BY <2>2, <2>3 DEF ViaType
<1>4. EndCycle(s) \in ViaType
  <2> DEFINE sr == [s.sr EXCEPT !.pPulse = s.sr.pulse]
             t2 == [s.t2 EXCEPT !.previous = s.t2.counter]
  <2>1. sr \in ShiftType
    BY <1>1 DEF ShiftType
  <2>2. t2 \in Timer2Type
    BY <1>1 DEF Timer2Type
  <2>3. EndCycle(s) = [s EXCEPT !.pIn = s.in, !.sr = sr, !.t2 = t2]
    BY DEF EndCycle
  <2> HIDE DEF sr, t2
  <2> QED  BY <2>1, <2>2, <2>3 DEF ViaType
<1> QED  BY <1>2, <1>3, <1>4

\* What a cycle leaves: a chip, whose IRQ output says what its flags say.
LEMMA CycleType ==
  ASSUME NEW s \in ViaType, NEW answer \in SUBSET Lines
  PROVE  /\ Cycle(s, answer) \in ViaType
         /\ Cycle(s, answer).irq <=> Cycle(s, answer).IFR \cap Cycle(s, answer).IER # {}
<1> DEFINE shifted == CheckForShift(Sample(NoteShiftMode(s)), answer)
           timed == Timer2(Timer1(shifted, answer))
           ended == EndCycle(CheckForHandShaking(timed, answer))
<1>1. shifted \in ViaType
  BY SampleType, CheckForShiftType
<1> HIDE DEF shifted
<1>2. timed \in ViaType
  BY <1>1, Timer1Typed, Timer2Typed
<1> HIDE DEF timed
<1>3. ended \in ViaType
  BY <1>2, HandShakingType, SampleType
<1>4. Cycle(s, answer) = UpdateIRQ(ended)
  BY DEF Cycle, ended, timed, shifted
<1> HIDE DEF ended
<1> QED  BY <1>3, <1>4, UpdateIRQType

\* Clearing the handshake's flags keeps it typed.
LEMMA AcknowledgeType ==
  ASSUME NEW s \in ViaType, NEW c1, NEW c2
  PROVE  Acknowledge(s, c1, c2) \in ViaType
BY ClearType DEF Acknowledge

\* Starting to shift keeps it typed.
LEMMA StartShiftingType ==
  ASSUME NEW s \in ViaType
  PROVE  StartShifting(s) \in ViaType
<1> DEFINE start == s.sr.start \/ (s.sr.shifts = 0 /\ s.acr.sr # 6)
<1>1. s.sr \in ShiftType /\ start \in BOOLEAN
  BY DEF ViaType
<1> HIDE DEF start
<1>2. [s.sr EXCEPT !.start = start] \in ShiftType
  BY <1>1 DEF ShiftType
<1>3. StartShifting(s) = [s EXCEPT !.sr = [s.sr EXCEPT !.start = start]]
  BY DEF StartShifting, start
<1> QED  BY <1>2, <1>3 DEF ViaType

\* Reading a register keeps it typed, and the request is what flags and mask ask for.
LEMMA ReadByteType ==
  ASSUME NEW s \in ViaType, NEW r \in Registers
  PROVE  /\ ReadByte(s, r) \in ViaType
         /\ ReadByte(s, r).irq <=> ReadByte(s, r).IFR \cap ReadByte(s, r).IER # {}
<1>1. \A t \in ViaType : \A f : ClearIFR(t, f) \in ViaType
  BY ClearType
<1>2. StartShifting(s) \in ViaType /\ Acknowledge(s, "CA1", "CA2") \in ViaType
  BY StartShiftingType, AcknowledgeType
<1> DEFINE t == CASE r = "IRA"  -> Acknowledge(s, "CA1", "CA2")
                  [] r = "T1CL" -> ClearIFR(s, {"T1"})
                  [] r = "T2CL" -> ClearIFR(s, {"T2"})
                  [] r = "SR"   -> ClearIFR(StartShifting(s), {"SR"})
                  [] OTHER      -> s
<1>3. t \in ViaType
  BY <1>1, <1>2 DEF Registers
<1>4. ReadByte(s, r) = UpdateIRQ(t)
  BY DEF ReadByte
<1> HIDE DEF t
<1> QED  BY <1>3, <1>4, UpdateIRQType

\* Writing a port keeps it typed.
LEMMA WritePortType ==
  ASSUME NEW s \in ViaType, NEW lines \in SUBSET Lines, NEW data
  PROVE  WritePort(s, lines, data) \in ViaType
<1> DEFINE out == (s.out \ (lines \cap s.ddr)) \cup (data \cap lines \cap s.ddr)
<1>1. out \in SUBSET Lines
  BY DEF ViaType
<1>2. WritePort(s, lines, data) = [s EXCEPT !.out = out]
  BY DEF WritePort
<1> HIDE DEF out
<1> QED  BY <1>1, <1>2 DEF ViaType

\* Starting timer 1 keeps it typed.
LEMMA WriteT1CHType ==
  ASSUME NEW s \in ViaType, NEW data \in Bytes
  PROVE  WriteT1CounterHigh(s, data) \in ViaType
<1> DEFINE low == IF s.t1.lowWritten THEN s.t1.low ELSE s.t1.counter % Base
           word == data * Base + low
           t1 == [s.t1 EXCEPT !.high = data, !.lowWritten = FALSE, !.counter = word,
                              !.running = TRUE, !.first = TRUE]
           c == ClearIFR(s, {"T1"})
           t == [c EXCEPT !.t1.high = data, !.t1.lowWritten = FALSE, !.t1.counter = word,
                          !.t1.running = TRUE, !.t1.first = TRUE]
<1>1. s.t1 \in Timer1Type /\ s.out \in SUBSET Lines /\ "PB7" \in Lines
  BY DEF ViaType, Lines, PBLines
<1>2. word \in -1 .. Base * Base - 1
  <2>1. s.t1.counter \in Int /\ s.t1.low \in Bytes
    BY <1>1 DEF Timer1Type
  <2>2. low \in Bytes
    BY <2>1, VIAAssumption DEF Bytes
  <2> HIDE DEF low
  <2>3. Base * Base \in Nat
    BY VIAAssumption, SMTT(30)
  <2>4. word \in 0 .. Base * Base - 1
    BY <2>2, WordRange
  <2> HIDE DEF word
  <2> QED  BY <2>3, <2>4
<1> HIDE DEF word
<1>3. t1 \in Timer1Type
  BY <1>1, <1>2 DEF Timer1Type
<1>4. t \in ViaType
  <2>1. c \in ViaType /\ c.t1 = s.t1
    BY ClearType DEF ClearIFR, ViaType
  <2> HIDE DEF c
  <2>2. t = [c EXCEPT !.t1 = t1]
    BY <2>1 DEF ViaType
  <2> HIDE DEF t, t1
  <2> QED  BY <1>3, <2>1, <2>2 DEF ViaType
<1>5. \A out \in SUBSET Lines : [t EXCEPT !.out = out] \in ViaType
  <2> HIDE DEF t
  <2> QED  BY <1>4 DEF ViaType
<1>6. t.out \in SUBSET Lines
  <2> HIDE DEF t
  <2> QED  BY <1>4 DEF ViaType
<1>7. /\ t.out \ {"PB7"} \in SUBSET Lines
      /\ WithLine(t.out, "PB7", "PB7" \notin t.out) \in SUBSET Lines
  <2> HIDE DEF t
  <2> QED  BY <1>1, <1>6, LineType
<1>8. WriteT1CounterHigh(s, data) \in
        {t, [t EXCEPT !.out = t.out \ {"PB7"}],
         [t EXCEPT !.out = WithLine(t.out, "PB7", "PB7" \notin t.out)]}
  <2>1. CASE s.acr.t1 = 2
    BY <2>1 DEF WriteT1CounterHigh, word
  <2>2. CASE s.acr.t1 = 3
    BY <2>2 DEF WriteT1CounterHigh, word
  <2>3. CASE s.acr.t1 \notin {2, 3}
    BY <2>3 DEF WriteT1CounterHigh, word
  <2> QED  BY <2>1, <2>2, <2>3
<1> HIDE DEF t
<1> QED  BY <1>4, <1>5, <1>7, <1>8

\* Writing PCR keeps it typed.
LEMMA WritePCRType ==
  ASSUME NEW s \in ViaType, NEW data \in PCRs
  PROVE  WritePCR(s, data) \in ViaType
<1> DEFINE level(out, l) == CASE data[l] = 6 -> out \ {l}
                              [] data[l] = 7 -> out \cup {l}
                              [] OTHER       -> out
           out2 == level(level(s.out, "CA2"), "CB2")
<1>1. \A out \in SUBSET Lines, l \in {"CA2", "CB2"} : level(out, l) \in SUBSET Lines
  BY DEF Lines, ControlLines
<1>2. out2 \in SUBSET Lines
  <2>1. s.out \in SUBSET Lines
    BY DEF ViaType
  <2> HIDE DEF level
  <2> QED  BY <1>1, <2>1
<1>3. WritePCR(s, data) = [s EXCEPT !.pcr = data, !.out = out2]
  BY DEF WritePCR, ViaType
<1> HIDE DEF out2
<1> QED  BY <1>2, <1>3 DEF ViaType

\* The bytes the program writes to the timers' registers.
LEMMA TimerBytesType ==
  ASSUME NEW s \in ViaType, NEW data \in Bytes
  PROVE  /\ [s EXCEPT !.t1.low = data] \in ViaType
         /\ [s EXCEPT !.t1.high = data] \in ViaType
         /\ [s EXCEPT !.t1.low = data, !.t1.lowWritten = FALSE] \in ViaType
         /\ [s EXCEPT !.t1.low = data, !.t1.lowWritten = TRUE,
                      !.t1.counter = LowByteReplaced(s.t1.counter, data)] \in ViaType
         /\ [s EXCEPT !.t2.high = data, !.t2.running = TRUE] \in ViaType
<1>1. s.t1 \in Timer1Type /\ s.t2 \in Timer2Type
  BY DEF ViaType
<1>2. \A t \in Timer1Type : [s EXCEPT !.t1 = t] \in ViaType
  BY DEF ViaType
<1>3. \A t \in Timer2Type : [s EXCEPT !.t2 = t] \in ViaType
  BY DEF ViaType
<1> DEFINE word == LowByteReplaced(s.t1.counter, data)
<1>4. word \in -1 .. Base * Base - 1
  <2>1. s.t1.counter \in Int
    BY <1>1 DEF Timer1Type
  <2>2. Base * Base \in Nat
    BY VIAAssumption, SMTT(30)
  <2>3. word \in 0 .. Base * Base - 1
    BY <2>1, LowByteRange
  <2> HIDE DEF word
  <2> QED  BY <2>2, <2>3
<1> HIDE DEF word
<1>5. /\ [s.t1 EXCEPT !.low = data] \in Timer1Type
      /\ [s.t1 EXCEPT !.high = data] \in Timer1Type
      /\ [s.t1 EXCEPT !.low = data, !.lowWritten = FALSE] \in Timer1Type
      /\ [s.t1 EXCEPT !.low = data, !.lowWritten = TRUE, !.counter = word] \in Timer1Type
  BY <1>1, <1>4 DEF Timer1Type
<1>6. [s.t2 EXCEPT !.high = data, !.running = TRUE] \in Timer2Type
  BY <1>1 DEF Timer2Type
<1>7. [s EXCEPT !.t1.low = data, !.t1.lowWritten = TRUE, !.t1.counter = word] \in ViaType
  <2> DEFINE t == [s.t1 EXCEPT !.low = data, !.lowWritten = TRUE, !.counter = word]
  <2>1. [s EXCEPT !.t1.low = data, !.t1.lowWritten = TRUE, !.t1.counter = word] = [s EXCEPT !.t1 = t]
    BY DEF ViaType
  <2> HIDE DEF t
  <2> QED  BY <1>2, <1>5, <2>1 DEF t
<1> QED  BY <1>2, <1>3, <1>5, <1>6, <1>7 DEF word

\* A write of any register, whatever its value.
LEMMA WrittenType ==
  ASSUME NEW s \in ViaType, NEW w \in RegisterWrites
  PROVE  Written(s, w.reg, w.data) \in ViaType
<1> DEFINE ok == Written(s, w.reg, w.data) \in ViaType
<1>1. CASE w \in [reg : {"ORB", "ORA", "ORA2", "DDRB", "DDRA", "IFR"}, data : SUBSET (Lines \cup Flags)]
  <2>1. PALines \in SUBSET Lines /\ PBLines \in SUBSET Lines
    BY DEF Lines
  <2>2. \A t \in ViaType : \A d : WritePort(t, PALines, d) \in ViaType /\ WritePort(t, PBLines, d) \in ViaType
    BY <2>1, WritePortType
  <2>3. \A d \in SUBSET Lines : [s EXCEPT !.ddr = d] \in ViaType
    BY DEF ViaType
  <2>4. /\ (s.ddr \ PALines) \cup (w.data \cap PALines) \in SUBSET Lines
        /\ (s.ddr \ PBLines) \cup (w.data \cap PBLines) \in SUBSET Lines
    BY <2>1 DEF ViaType
  <2>5. CASE w.reg = "ORB"
    BY <2>2, <2>5, AcknowledgeType DEF Written
  <2>6. CASE w.reg = "ORA"
    BY <2>2, <2>6, AcknowledgeType DEF Written
  <2>7. CASE w.reg = "ORA2"
    BY <2>2, <2>7 DEF Written
  <2>8. CASE w.reg = "DDRB"
    BY <2>3, <2>4, <2>8 DEF Written
  <2>9. CASE w.reg = "DDRA"
    BY <2>3, <2>4, <2>9 DEF Written
  <2>10. CASE w.reg = "IFR"
    BY <2>10, ClearType DEF Written
  <2> QED  BY <1>1, <2>5, <2>6, <2>7, <2>8, <2>9, <2>10
<1>2. CASE w \in [reg : {"T1CL", "T1CH", "T1LL", "T1LH", "T2CL", "T2CH"}, data : Bytes]
  <2>1. w.data \in Bytes
    BY <1>2
  <2>2. CASE w.reg = "T1CL"
    BY <2>1, <2>2, TimerBytesType DEF Written
  <2>3. CASE w.reg = "T1CH"
    BY <2>1, <2>3, WriteT1CHType DEF Written
  <2>4. CASE w.reg = "T1LL"
    BY <2>1, <2>4, TimerBytesType DEF Written
  <2>5. CASE w.reg = "T1LH"
    BY <2>1, <2>5, TimerBytesType DEF Written
  <2>6. CASE w.reg = "T2CL"
    BY <2>1, <2>6, TimerBytesType DEF Written
  <2>7. CASE w.reg = "T2CH"
    <3>1. ClearIFR(s, {"T2"}) \in ViaType
      BY ClearType
    <3> QED  BY <2>1, <2>7, <3>1, TimerBytesType DEF Written
  <2> QED  BY <1>2, <2>2, <2>3, <2>4, <2>5, <2>6, <2>7
<1>3. CASE w \in [reg : {"SR"}, data : [1 .. Width -> BOOLEAN]]
  <2> DEFINE t == [s EXCEPT !.sr.bits = w.data]
  <2>1. t \in ViaType
    <3>1. [s.sr EXCEPT !.bits = w.data] \in ShiftType
      BY <1>3 DEF ViaType, ShiftType
    <3> QED  BY <3>1 DEF ViaType
  <2>2. Written(s, w.reg, w.data) = ClearIFR(StartShifting(t), {"SR"})
    BY <1>3 DEF Written
  <2> HIDE DEF t
  <2> QED  BY <2>1, <2>2, StartShiftingType, ClearType
<1>4. CASE w \in [reg : {"ACR"}, data : ACRs]
  BY <1>4 DEF Written, ViaType
<1>5. CASE w \in [reg : {"PCR"}, data : PCRs]
  BY <1>5, WritePCRType DEF Written
<1>6. CASE w \in [reg : {"IER"}, data : [set : BOOLEAN, flags : SUBSET Flags]]
  <2> DEFINE IER == IF w.data.set THEN s.IER \cup w.data.flags ELSE s.IER \ w.data.flags
  <2>1. IER \in SUBSET Flags
    BY <1>6 DEF ViaType
  <2>2. Written(s, w.reg, w.data) = [s EXCEPT !.IER = IER]
    BY <1>6 DEF Written
  <2> HIDE DEF IER
  <2> QED  BY <2>1, <2>2 DEF ViaType
<1> QED  BY <1>1, <1>2, <1>3, <1>4, <1>5, <1>6 DEF RegisterWrites

\* A reset keeps it typed.
LEMMA ResetType ==
  ASSUME NEW s \in ViaType
  PROVE  ResetState(s) \in ViaType
<1> DEFINE sr == [s.sr EXCEPT !.bits = [i \in 1 .. Width |-> FALSE]]
           acr == [t1 |-> 0, t2 |-> 0, sr |-> 0, latchA |-> FALSE, latchB |-> FALSE]
           pcr == [l \in ControlLines |-> 0]
<1>1. sr \in ShiftType
  BY DEF ViaType, ShiftType
<1>2. acr \in ACRs
  BY DEF ACRs
<1>3. pcr \in PCRs
  BY DEF PCRs, ControlLines
<1>4. ResetState(s) = [s EXCEPT !.IFR = {}, !.IER = {}, !.ddr = {}, !.out = Lines,
                                !.acr = acr, !.pcr = pcr, !.sr = sr]
  BY DEF ResetState
<1> HIDE DEF sr, acr, pcr
<1> QED  BY <1>1, <1>2, <1>3, <1>4 DEF ViaType

-----------------------------------------------------------------------------
(* The theorems.                                                           *)

\* What every step keeps: the history says of each step whether it was a reset.
ChipInv == TypeOK /\ "fresh" \in DOMAIN hist /\ IrqFollowsFlags

\* The chip is typed, and requests what it should, at the start.
LEMMA InitChip == Init => ChipInv
<1> SUFFICES ASSUME Init PROVE ChipInv
  OBVIOUS
<1> USE VIAAssumption
<1>1. setup \in Setups /\ setup.lines \subseteq Lines
  BY DEF Init
<1>2. PICK in \in SUBSET setup.lines :
        via = [IFR |-> {}, IER |-> {}, irq |-> FALSE, ddr |-> {},
               acr |-> [t1 |-> 0, t2 |-> 0, sr |-> 0, latchA |-> FALSE, latchB |-> FALSE],
               pcr |-> [l \in ControlLines |-> 0],
               in |-> in, pIn |-> Lines, now |-> in, out |-> Lines,
               latched |-> PALines \cup PBLines,
               t1 |-> [counter |-> 0, high |-> 0, low |-> 0, lowWritten |-> FALSE,
                       running |-> FALSE, first |-> FALSE],
               t2 |-> [counter |-> 0, previous |-> 0, high |-> 0, running |-> FALSE],
               sr |-> [bits |-> [i \in 1 .. Width |-> FALSE], shifts |-> 0, start |-> FALSE,
                       pulse |-> FALSE, pPulse |-> FALSE, interrupt |-> FALSE,
                       generate |-> FALSE, mode |-> 0]]
  BY DEF Init
<1>3. Base * Base \in Nat \ {0} /\ 0 \in Bytes
  BY SMTT(30) DEF Bytes
<1>4. via.t1 \in Timer1Type /\ via.t2 \in Timer2Type
  <2>1. 0 \in -1 .. Base * Base - 1 /\ 0 \in -(Base * Base) .. 0
    BY <1>3
  <2>2. /\ via.t1 = [counter |-> 0, high |-> 0, low |-> 0, lowWritten |-> FALSE,
                     running |-> FALSE, first |-> FALSE]
        /\ via.t2 = [counter |-> 0, previous |-> 0, high |-> 0, running |-> FALSE]
    BY <1>2
  <2> QED  BY <1>3, <2>1, <2>2 DEF Timer1Type, Timer2Type
<1>5. via.sr \in ShiftType
  BY <1>2 DEF ShiftType
<1>6. via.acr \in ACRs /\ via.pcr \in PCRs
  BY <1>2 DEF ACRs, PCRs, ControlLines
<1>7. via \in ViaType
  BY <1>1, <1>2, <1>4, <1>5, <1>6 DEF ViaType, Lines, PALines, PBLines
<1>8. "fresh" \in DOMAIN hist /\ hist.fresh
  BY DEF Init
<1> QED  BY <1>1, <1>7, <1>8 DEF ChipInv, TypeOK, IrqFollowsFlags

\* Every step keeps it so.
LEMMA NextChip == ChipInv /\ [Next]_vars => ChipInv'
<1> SUFFICES ASSUME ChipInv, [Next]_vars PROVE ChipInv'
  OBVIOUS
<1> USE VIAAssumption DEF ChipInv, TypeOK
<1> DEFINE follows(s) == s.irq <=> s.IFR \cap s.IER # {}
<1>1. ASSUME follows(via'), "fresh" \in DOMAIN hist'  PROVE "fresh" \in DOMAIN hist' /\ IrqFollowsFlags'
  BY <1>1 DEF IrqFollowsFlags
<1>2. \A answer \in Answers : answer \in SUBSET Lines
  BY DEF Answers, ViaType
<1>3. \A s, t : DOMAIN AfterCycle(hist, s, t) = DOMAIN hist
  BY DEF AfterCycle
<1>4. ASSUME Advance  PROVE ChipInv'
  <2>1. PICK answer \in Answers : via' = Cycle(via, answer)
    BY <1>4 DEF Advance
  <2>2. via' \in ViaType /\ follows(via')
    BY <1>2, <2>1, CycleType
  <2> HIDE DEF follows
  <2> QED  BY <1>1, <1>3, <1>4, <2>2 DEF Advance
<1>5. ASSUME NEW r \in setup.reads, Read(r)  PROVE ChipInv'
  <2>1. PICK answer \in Answers : /\ via' = ReadByte(Cycle(via, answer), r)
                                  /\ DOMAIN hist' = DOMAIN hist
    BY <1>3, <1>5 DEF Read
  <2>2. Cycle(via, answer) \in ViaType /\ r \in Registers
    BY <1>2, CycleType
  <2>3. via' \in ViaType /\ follows(via')
    BY <2>1, <2>2, ReadByteType
  <2> HIDE DEF follows
  <2> QED  BY <1>1, <1>5, <2>1, <2>3 DEF Read
<1>6. ASSUME NEW w \in setup.writes, Write(w)  PROVE ChipInv'
  <2>1. w \in RegisterWrites
    OBVIOUS
  <2>2. via' = UpdateIRQ(Written(via, w.reg, w.data))
    BY <1>6 DEF Write, WriteByte
  <2>3. via' \in ViaType /\ follows(via')
    BY <2>1, <2>2, WrittenType, UpdateIRQType
  <2>4. DOMAIN hist' = DOMAIN hist
    BY <1>6 DEF Write, AfterWrite
  <2> HIDE DEF follows
  <2> QED  BY <1>1, <1>6, <2>3, <2>4 DEF Write
<1>7. ASSUME NEW l \in setup.lines, Input(l)  PROVE ChipInv'
  <2>1. l \in Lines /\ via.in \in SUBSET Lines
    BY DEF ViaType
  <2>2. WithLine(via.in, l, l \notin via.in) \in SUBSET Lines
    BY <2>1, LineType
  <2>3. /\ via' \in ViaType
        /\ via'.IFR = via.IFR /\ via'.IER = via.IER /\ via'.irq = via.irq
    BY <1>7, <2>2 DEF Input, ViaType
  <2>4. DOMAIN hist' = DOMAIN hist /\ hist'.fresh = hist.fresh
    BY <1>7 DEF Input
  <2> QED  BY <1>7, <2>3, <2>4 DEF Input, IrqFollowsFlags
<1>8. ASSUME Reset  PROVE ChipInv'
  <2>1. via' \in ViaType
    BY <1>8, ResetType DEF Reset
  <2>2. "fresh" \in DOMAIN hist' /\ hist'.fresh
    BY <1>8 DEF Reset
  <2> QED  BY <1>8, <2>1, <2>2 DEF Reset, IrqFollowsFlags
<1>9. CASE UNCHANGED vars
  BY <1>9 DEF vars, IrqFollowsFlags
<1> QED  BY <1>4, <1>5, <1>6, <1>7, <1>8, <1>9 DEF Next

(***************************************************************************)
(* The registers of the VIA keep their types and the counters of timers    *)
(* and shifts their ranges, for every size of a byte and of the shift      *)
(* register, and whatever the program writes and the devices answer.       *)
(***************************************************************************)
THEOREM TypeCorrect == Spec => []TypeOK
<1>1. ChipInv => TypeOK
  BY DEF ChipInv
<1> QED  BY InitChip, NextChip, <1>1, PTL DEF Spec

(***************************************************************************)
(* After any sequence of cycles, register accesses and movements of the    *)
(* inputs, the IRQ output is asserted exactly while an enabled flag is set. *)
(***************************************************************************)
THEOREM IrqCorrect == Spec => []IrqFollowsFlags
<1>1. ChipInv => IrqFollowsFlags
  BY DEF ChipInv
<1> QED  BY InitChip, NextChip, <1>1, PTL DEF Spec

-----------------------------------------------------------------------------
(* What the parts of a cycle do.                                           *)

\* Part of a cycle: t comes after s, having set only these flags and driven only these
\* lines; the inputs are as they were or as the device answers to a change of an output.
Moves(s, t, answer, flags, lines) ==
  /\ t.acr = s.acr /\ t.pcr = s.pcr /\ t.pIn = s.pIn /\ t.latched = s.latched
  /\ s.IFR \subseteq t.IFR /\ t.IFR \subseteq s.IFR \cup flags
  /\ t.out \ lines = s.out \ lines
  /\ t.in \in {s.in, answer}
  /\ t.out # s.out => t.in = answer
  /\ t.now \ {"CB2"} = s.now \ {"CB2"}
  /\ s.now = s.in /\ answer = s.in => t.now = s.now

\* Two parts of a cycle, one after the other.
LEMMA MovesOn ==
  ASSUME NEW s, NEW t, NEW u, NEW answer, NEW f, NEW g, NEW k, NEW l,
         Moves(s, t, answer, f, k), Moves(t, u, answer, g, l)
  PROVE  Moves(s, u, answer, f \cup g, k \cup l)
<1>1. u.out \ (k \cup l) = s.out \ (k \cup l)
  BY DEF Moves
<1>2. s.now = s.in /\ answer = s.in => u.now = s.now
  BY DEF Moves
<1>3. u.in \in {s.in, answer} /\ (u.out # s.out => u.in = answer)
  BY DEF Moves
<1> QED  BY <1>1, <1>2, <1>3 DEF Moves

\* Driving lines moves those lines alone.
LEMMA UpdatePortMoves ==
  ASSUME NEW s \in ViaType, NEW out \in SUBSET Lines, NEW answer, NEW lines,
         out \ lines = s.out \ lines
  PROVE  /\ Moves(s, UpdatePort(s, out, answer), answer, {}, lines)
         /\ UpdatePort(s, out, answer).out = out
         /\ UpdatePort(s, out, answer).sr = s.sr
         /\ UpdatePort(s, out, answer).t1 = s.t1
         /\ UpdatePort(s, out, answer).IFR = s.IFR
BY DEF UpdatePort, ViaType, Moves

-----------------------------------------------------------------------------
(* The shift register.                                                     *)

\* One shift more.
LEMMA CountShiftMoves ==
  ASSUME NEW s \in ViaType, NEW stops \in BOOLEAN, NEW answer
  PROVE  LET t == CountShift(s, stops)
         IN  /\ Moves(s, t, answer, {"SR"}, {})
             /\ t.out = s.out /\ t.in = s.in /\ t.now = s.now /\ t.t1 = s.t1
             /\ t.sr.bits = s.sr.bits /\ t.sr.pulse = s.sr.pulse
             /\ t.sr.pPulse = s.sr.pPulse /\ t.sr.mode = s.sr.mode
             /\ t.sr.shifts = (s.sr.shifts + 1) % Width
             /\ t.sr.start <=> (s.sr.start /\ ~(t.sr.shifts = 0 /\ stops))
             /\ t.sr.shifts = 0 /\ s.sr.interrupt => "SR" \in t.IFR
             /\ "SR" \in t.IFR \ s.IFR => t.sr.shifts = 0
<1> DEFINE t == CountShift(s, stops)
           shifts == (s.sr.shifts + 1) % Width
           IFR == IF shifts = 0 /\ s.sr.interrupt THEN s.IFR \cup {"SR"} ELSE s.IFR
           start == s.sr.start /\ ~(shifts = 0 /\ stops)
           sr == [s.sr EXCEPT !.shifts = shifts, !.start = start]
<1>1. s.sr \in ShiftType
  BY DEF ViaType
<1>2. t = [s EXCEPT !.sr = sr, !.IFR = IFR]
  BY <1>1 DEF CountShift, ViaType
<1> HIDE DEF t
<1>3. /\ sr.shifts = shifts /\ sr.start = start /\ sr.bits = s.sr.bits /\ sr.pulse = s.sr.pulse
      /\ sr.pPulse = s.sr.pPulse /\ sr.mode = s.sr.mode
  <2> HIDE DEF shifts, start
  <2> QED  BY <1>1 DEF ShiftType
<1>4. /\ t.sr = sr /\ t.IFR = IFR
      /\ t.out = s.out /\ t.in = s.in /\ t.now = s.now /\ t.t1 = s.t1
      /\ t.acr = s.acr /\ t.pcr = s.pcr /\ t.pIn = s.pIn /\ t.latched = s.latched
  <2> HIDE DEF sr, IFR
  <2> QED  BY <1>2 DEF ViaType
<1>5. Moves(s, t, answer, {"SR"}, {})
  BY <1>4 DEF Moves
<1> HIDE DEF sr, shifts
<1>6. t.sr.start <=> (s.sr.start /\ ~(t.sr.shifts = 0 /\ stops))
  BY <1>3, <1>4
<1> QED  BY <1>3, <1>4, <1>5, <1>6 DEF t, shifts

\* The bit that is shifted in comes last.
LEMMA LastBit ==
  ASSUME NEW bits \in [1 .. Width -> BOOLEAN], NEW bit \in BOOLEAN
  PROVE  Append(Tail(bits), bit)[Width] = bit
<1> USE VIAAssumption
<1>1. bits \in Seq(BOOLEAN) /\ Len(bits) = Width /\ bits # <<>>
  OBVIOUS
<1>2. Tail(bits) \in Seq(BOOLEAN) /\ Len(Tail(bits)) = Width - 1
  BY <1>1
<1> QED  BY <1>2

\* The bit is read from the inputs as the device leaves them.
LEMMA BitReadMoves ==
  ASSUME NEW t \in ViaType, NEW answer
  PROVE  LET bit == "CB2" \in t.in
             u == [t EXCEPT !.now = WithLine(@, "CB2", bit), !.sr.bits = Append(Tail(@), bit)]
         IN  /\ u \in ViaType
             /\ Moves(t, u, answer, {}, {})
             /\ u.out = t.out /\ u.in = t.in /\ u.t1 = t.t1 /\ u.IFR = t.IFR
             /\ u.sr.bits[Width] = bit
             /\ u.sr.pulse = t.sr.pulse /\ u.sr.pPulse = t.sr.pPulse /\ u.sr.mode = t.sr.mode
             /\ u.sr.shifts = t.sr.shifts /\ u.sr.start = t.sr.start
             /\ u.sr.interrupt = t.sr.interrupt
<1> DEFINE bit == "CB2" \in t.in
           bits == Append(Tail(t.sr.bits), bit)
           now == WithLine(t.now, "CB2", bit)
           sr == [t.sr EXCEPT !.bits = bits]
           u == [t EXCEPT !.now = now, !.sr = sr]
<1>1. t.sr \in ShiftType /\ t.sr.bits \in [1 .. Width -> BOOLEAN] /\ t.now \in SUBSET Lines
  BY DEF ViaType, ShiftType
<1>2. bit \in BOOLEAN
  OBVIOUS
<1>3. bits \in [1 .. Width -> BOOLEAN] /\ bits[Width] = bit
  <2> HIDE DEF bit
  <2> QED  BY <1>1, <1>2, BitsShifted, LastBit
<1>4. now \in SUBSET Lines /\ now \ {"CB2"} = t.now \ {"CB2"} /\ (t.now = t.in => now = t.now)
  BY <1>1 DEF WithLine, Lines, ControlLines
<1>5. /\ sr \in ShiftType /\ sr.bits = bits
      /\ sr.pulse = t.sr.pulse /\ sr.pPulse = t.sr.pPulse /\ sr.mode = t.sr.mode
      /\ sr.shifts = t.sr.shifts /\ sr.start = t.sr.start /\ sr.interrupt = t.sr.interrupt
  <2> HIDE DEF bits
  <2> QED  BY <1>1, <1>3 DEF ShiftType
<1>6. [t EXCEPT !.now = WithLine(@, "CB2", bit), !.sr.bits = Append(Tail(@), bit)] = u
  BY DEF ViaType
<1> HIDE DEF bits, now, sr, bit
<1>7. /\ u \in ViaType /\ u.now = now /\ u.sr = sr
      /\ u.out = t.out /\ u.in = t.in /\ u.t1 = t.t1 /\ u.IFR = t.IFR
      /\ u.acr = t.acr /\ u.pcr = t.pcr /\ u.pIn = t.pIn /\ u.latched = t.latched
  BY <1>4, <1>5 DEF ViaType
<1> HIDE DEF u
<1>8. Moves(t, u, answer, {}, {})
  BY <1>4, <1>7 DEF Moves
<1> QED  BY <1>3, <1>5, <1>6, <1>7, <1>8 DEF bit

\* A shift in, on a rising or a falling edge.
LEMMA ShiftInMoves ==
  ASSUME NEW s \in ViaType, NEW rising \in BOOLEAN, NEW answer \in SUBSET Lines
  PROVE  LET t == ShiftIn(s, rising, answer)
         IN  /\ Moves(s, t, answer, {"SR"}, {"CB1", "CB2"})
             /\ t.t1 = s.t1 /\ t.sr.pulse = s.sr.pulse
             /\ t.sr.pPulse = s.sr.pPulse /\ t.sr.mode = s.sr.mode
             /\ s.sr.generate => ("CB1" \in t.out <=> s.sr.pulse)
             /\ ~rising => t.sr.shifts = s.sr.shifts /\ t.sr.start = s.sr.start /\ t.IFR = s.IFR
             /\ rising /\ s.acr.sr # 0 =>
                  /\ t.sr.bits[Width] = ("CB2" \in t.in)
                  /\ t.sr.shifts = (s.sr.shifts + 1) % Width
                  /\ t.sr.start <=> (s.sr.start /\ t.sr.shifts # 0)
                  /\ t.sr.shifts = 0 /\ s.sr.interrupt => "SR" \in t.IFR
                  /\ "SR" \in t.IFR \ s.IFR => t.sr.shifts = 0
<1> DEFINE t == IF s.sr.generate
                THEN UpdatePort(s, WithLine(s.out, "CB1", s.sr.pulse), answer) ELSE s
           bit == "CB2" \in t.in
           u == [t EXCEPT !.now = WithLine(@, "CB2", bit), !.sr.bits = Append(Tail(@), bit)]
           v == CountShift(u, TRUE)
           r == ShiftIn(s, rising, answer)
<1>1. s.sr \in ShiftType /\ s.sr.pulse \in BOOLEAN /\ "CB1" \in Lines /\ s.out \in SUBSET Lines
  BY DEF ViaType, ShiftType, Lines, ControlLines
<1>2. /\ t \in ViaType
      /\ Moves(s, t, answer, {}, {"CB1"})
      /\ t.sr = s.sr /\ t.t1 = s.t1 /\ t.IFR = s.IFR
      /\ s.sr.generate => ("CB1" \in t.out <=> s.sr.pulse)
  <2>1. CASE s.sr.generate
    <3>1. WithLine(s.out, "CB1", s.sr.pulse) \in SUBSET Lines
      BY <1>1, LineType
    <3> DEFINE out == WithLine(s.out, "CB1", s.sr.pulse)
    <3>2. out \ {"CB1"} = s.out \ {"CB1"} /\ ("CB1" \in out <=> s.sr.pulse)
      BY <1>1 DEF WithLine
    <3>3. t = UpdatePort(s, out, answer)
      BY <2>1
    <3> HIDE DEF out, t
    <3>4. out \in SUBSET Lines
      BY <3>1 DEF out
    <3>5. /\ Moves(s, t, answer, {}, {"CB1"})
          /\ t.out = out /\ t.sr = s.sr /\ t.t1 = s.t1 /\ t.IFR = s.IFR
      BY <3>2, <3>3, <3>4, UpdatePortMoves
    <3>6. t \in ViaType
      BY <3>3, <3>4, UpdatePortType
    <3> QED  BY <3>2, <3>5, <3>6
  <2>2. CASE ~s.sr.generate
    BY <2>2 DEF Moves
  <2> QED  BY <2>1, <2>2
<1>3. t.acr = s.acr
  BY <1>2 DEF Moves
<1> HIDE DEF t
<1>4. /\ u \in ViaType
      /\ Moves(t, u, answer, {}, {})
      /\ u.out = t.out /\ u.in = t.in /\ u.t1 = t.t1 /\ u.IFR = t.IFR
      /\ u.sr.bits[Width] = bit
      /\ u.sr.pulse = t.sr.pulse /\ u.sr.pPulse = t.sr.pPulse /\ u.sr.mode = t.sr.mode
      /\ u.sr.shifts = t.sr.shifts /\ u.sr.start = t.sr.start
      /\ u.sr.interrupt = t.sr.interrupt
  BY <1>2, BitReadMoves
<1> HIDE DEF u
<1>5. /\ Moves(u, v, answer, {"SR"}, {})
      /\ v.out = u.out /\ v.in = u.in /\ v.t1 = u.t1
      /\ v.sr.bits = u.sr.bits /\ v.sr.pulse = u.sr.pulse
      /\ v.sr.pPulse = u.sr.pPulse /\ v.sr.mode = u.sr.mode
      /\ v.sr.shifts = (u.sr.shifts + 1) % Width
      /\ v.sr.start <=> (u.sr.start /\ ~(v.sr.shifts = 0 /\ TRUE))
      /\ v.sr.shifts = 0 /\ u.sr.interrupt => "SR" \in v.IFR
      /\ "SR" \in v.IFR \ u.IFR => v.sr.shifts = 0
  BY <1>4, CountShiftMoves
<1> HIDE DEF v
<1>6. r = IF ~rising THEN t ELSE IF s.acr.sr = 0 THEN u ELSE v
  BY DEF ShiftIn, t, u, v, bit
<1> HIDE DEF r
<1>7. \A a, b : Moves(a, b, answer, {}, {"CB1"}) => Moves(a, b, answer, {"SR"}, {"CB1", "CB2"})
  BY DEF Moves
<1>8. Moves(s, u, answer, {}, {"CB1"})
  <2>1. Moves(s, u, answer, {} \cup {}, {"CB1"} \cup {})
    BY <1>2, <1>4, MovesOn
  <2>2. {"CB1"} \cup {} = {"CB1"} /\ {} \cup {} = {}
    OBVIOUS
  <2> QED  BY <2>1, <2>2
<1>9. Moves(s, v, answer, {"SR"}, {"CB1", "CB2"})
  <2>1. Moves(s, v, answer, {} \cup {"SR"}, {"CB1"} \cup {})
    BY <1>5, <1>8, MovesOn
  <2> QED  BY <2>1 DEF Moves
<1>10. CASE ~rising
  BY <1>2, <1>6, <1>7, <1>10 DEF r
<1>11. CASE rising /\ s.acr.sr = 0
  BY <1>2, <1>4, <1>6, <1>7, <1>8, <1>11 DEF r
<1>12. CASE rising /\ s.acr.sr # 0
  BY <1>2, <1>4, <1>5, <1>6, <1>9, <1>12 DEF r, bit
<1> QED  BY <1>10, <1>11, <1>12

\* A part of a cycle may be allowed more than it does.
LEMMA MovesMore ==
  ASSUME NEW s, NEW t, NEW answer, NEW f, NEW g, NEW k, NEW l,
         Moves(s, t, answer, f, k), f \subseteq g, k \subseteq l
  PROVE  Moves(s, t, answer, g, l)
BY DEF Moves

\* Shifting out moves CB1 and CB2 and may set the flag SR.
LEMMA ShiftOutMoves ==
  ASSUME NEW s \in ViaType, NEW rising \in BOOLEAN, NEW answer \in SUBSET Lines
  PROVE  /\ Moves(s, ShiftOut(s, rising, answer), answer, {"SR"}, {"CB1", "CB2"})
         /\ ShiftOut(s, rising, answer).t1 = s.t1
<1> DEFINE bits == s.sr.bits
           out == WithLine(s.out, "CB2", bits[Width])
           t == UpdatePort(s, out, answer)
           b == <<bits[Width]>> \o SubSeq(bits, 1, Width - 1)
           v == [t EXCEPT !.sr.bits = b]
           stops == s.acr.sr \notin {4, 7}
           u == IF ~rising THEN s ELSE CountShift(v, stops)
           out1 == WithLine(u.out, "CB1", s.sr.pulse)
           r == UpdatePort(u, out1, answer)
<1>1. /\ s.out \in SUBSET Lines /\ {"CB1", "CB2"} \subseteq Lines
      /\ bits \in [1 .. Width -> BOOLEAN] /\ stops \in BOOLEAN
  BY DEF ViaType, ShiftType, Lines, ControlLines
<1>2. t \in ViaType /\ Moves(s, t, answer, {}, {"CB2"}) /\ t.t1 = s.t1
  <2>1. out \in SUBSET Lines /\ out \ {"CB2"} = s.out \ {"CB2"}
    BY <1>1 DEF WithLine
  <2> HIDE DEF out
  <2> QED  BY <2>1, UpdatePortMoves, UpdatePortType
<1> HIDE DEF t
<1>3. v \in ViaType /\ Moves(t, v, answer, {}, {}) /\ v.t1 = t.t1
  <2>1. b \in [1 .. Width -> BOOLEAN]
    BY <1>1, BitsShifted
  <2> HIDE DEF b
  <2>2. [t.sr EXCEPT !.bits = b] \in ShiftType
    BY <1>2, <2>1 DEF ViaType, ShiftType
  <2>3. v \in ViaType
    BY <1>2, <2>2 DEF ViaType
  <2>4. v.t1 = t.t1 /\ Moves(t, v, answer, {}, {})
    BY <1>2 DEF ViaType, Moves
  <2> QED  BY <2>3, <2>4
<1> HIDE DEF v, stops
<1>4. u \in ViaType /\ Moves(s, u, answer, {"SR"}, {"CB2"}) /\ u.t1 = s.t1
  <2>1. CASE rising
    <3>1. /\ u \in ViaType /\ u.t1 = v.t1
          /\ Moves(v, u, answer, {"SR"}, {})
      BY <1>1, <1>3, <2>1, CountShiftMoves, CountShiftType
    <3> HIDE DEF u
    <3>2. Moves(s, v, answer, {} \cup {}, {"CB2"} \cup {})
      BY <1>2, <1>3, MovesOn
    <3>3. Moves(s, u, answer, ({} \cup {}) \cup {"SR"}, ({"CB2"} \cup {}) \cup {})
      BY <3>1, <3>2, MovesOn
    <3> QED  BY <1>2, <1>3, <3>1, <3>3, MovesMore
  <2>2. CASE ~rising
    BY <2>2 DEF Moves
  <2> QED  BY <2>1, <2>2
<1> HIDE DEF u
<1>5. Moves(s, r, answer, {"SR"}, {"CB1", "CB2"}) /\ r.t1 = s.t1
  <2>1. u.out \in SUBSET Lines
    BY <1>4 DEF ViaType
  <2>2. out1 \in SUBSET Lines /\ out1 \ {"CB1"} = u.out \ {"CB1"}
    BY <1>1, <2>1 DEF WithLine
  <2> HIDE DEF out1
  <2>3. Moves(u, r, answer, {}, {"CB1"}) /\ r.t1 = u.t1
    BY <1>4, <2>2, UpdatePortMoves
  <2> HIDE DEF r
  <2>4. Moves(s, r, answer, {"SR"} \cup {}, {"CB2"} \cup {"CB1"})
    BY <1>4, <2>3, MovesOn
  <2> QED  BY <1>4, <2>3, <2>4, MovesMore
<1>6. Moves(s, u, answer, {"SR"}, {"CB1", "CB2"})
  BY <1>4, MovesMore
<1>7. ShiftOut(s, rising, answer) = IF s.sr.generate THEN r ELSE u
  BY DEF ShiftOut, r, out1, u, stops, v, b, t, out, bits
<1> HIDE DEF r
<1> QED  BY <1>4, <1>5, <1>6, <1>7

\* What checkForShift may change at all.
LEMMA CheckForShiftMoves ==
  ASSUME NEW s \in ViaType, NEW answer \in SUBSET Lines
  PROVE  /\ Moves(s, CheckForShift(s, answer), answer, {"SR"}, {"CB1", "CB2"})
         /\ CheckForShift(s, answer).t1 = s.t1
<1> DEFINE t == [s EXCEPT !.sr.pulse = ShiftPulse(s),
                          !.sr.interrupt = (@ \/ s.acr.sr \in {1, 2, 3, 5}) /\ s.acr.sr # 0,
                          !.sr.generate = @ \/ s.acr.sr \in {1, 2, 4, 5, 6}]
           rising == ShiftPulse(s) /\ ~s.sr.pPulse
           i == ShiftIn(t, rising, answer)
           o == ShiftOut(t, rising, answer)
<1>1. t \in ViaType
  BY ShiftPrepared
<1>2. Moves(s, t, answer, {}, {}) /\ t.t1 = s.t1
  BY DEF ViaType, Moves
<1>3. rising \in BOOLEAN
  OBVIOUS
<1>4. CheckForShift(s, answer) \in {s, i, o}
  BY DEF CheckForShift
<1> HIDE DEF t, rising
<1>5. /\ Moves(t, i, answer, {"SR"}, {"CB1", "CB2"}) /\ i.t1 = t.t1
      /\ Moves(t, o, answer, {"SR"}, {"CB1", "CB2"}) /\ o.t1 = t.t1
  BY <1>1, <1>3, ShiftInMoves, ShiftOutMoves
<1> HIDE DEF i, o
<1>6. /\ Moves(s, i, answer, {} \cup {"SR"}, {} \cup {"CB1", "CB2"})
      /\ Moves(s, o, answer, {} \cup {"SR"}, {} \cup {"CB1", "CB2"})
  BY <1>2, <1>5, MovesOn
<1>7. Moves(s, s, answer, {"SR"}, {"CB1", "CB2"})
  BY DEF Moves
<1> QED  BY <1>2, <1>4, <1>5, <1>6, <1>7, MovesMore

\* In the mode that shifts in at phi2 rate, the clock has an edge in each cycle, and
\* a rising one shifts in the bit the device has on CB2 then.
LEMMA ShiftInAtPhi2 ==
  ASSUME NEW s \in ViaType, NEW answer \in SUBSET Lines,
         s.acr.sr = 2, s.sr.start \/ s.sr.shifts > 0, s.sr.pPulse = s.sr.pulse
  PROVE  LET t == CheckForShift(s, answer)
         IN  /\ t.sr.pulse <=> ~s.sr.pulse
             /\ t.sr.mode = s.sr.mode
             /\ "CB1" \in t.out <=> ~s.sr.pulse
             /\ s.sr.pulse => t.sr.shifts = s.sr.shifts /\ t.sr.start = s.sr.start /\ t.IFR = s.IFR
             /\ ~s.sr.pulse =>
                  /\ t.sr.bits[Width] = ("CB2" \in t.in)
                  /\ t.sr.shifts = (s.sr.shifts + 1) % Width
                  /\ t.sr.start <=> (s.sr.start /\ t.sr.shifts # 0)
                  /\ t.sr.shifts = 0 => "SR" \in t.IFR
                  /\ "SR" \in t.IFR \ s.IFR => t.sr.shifts = 0
<1> DEFINE u == [s EXCEPT !.sr.pulse = ShiftPulse(s),
                          !.sr.interrupt = (@ \/ s.acr.sr \in {1, 2, 3, 5}) /\ s.acr.sr # 0,
                          !.sr.generate = @ \/ s.acr.sr \in {1, 2, 4, 5, 6}]
           rising == ShiftPulse(s) /\ ~s.sr.pPulse
           t == CheckForShift(s, answer)
<1>1. u \in ViaType
  BY ShiftPrepared
<1>2. s.sr \in ShiftType /\ s.sr.pulse \in BOOLEAN
  BY DEF ViaType, ShiftType
<1>3. (ShiftPulse(s) <=> ~s.sr.pulse) /\ (rising <=> ~s.sr.pulse) /\ rising \in BOOLEAN
  BY <1>2 DEF ShiftPulse
<1>4. /\ u.acr.sr = 2 /\ u.IFR = s.IFR
      /\ u.sr.pulse = ShiftPulse(s) /\ u.sr.interrupt /\ u.sr.generate
      /\ u.sr.shifts = s.sr.shifts /\ u.sr.start = s.sr.start /\ u.sr.mode = s.sr.mode
  <2> DEFINE pulse == ShiftPulse(s)
             interrupt == (s.sr.interrupt \/ s.acr.sr \in {1, 2, 3, 5}) /\ s.acr.sr # 0
             generate == s.sr.generate \/ s.acr.sr \in {1, 2, 4, 5, 6}
             sr == [s.sr EXCEPT !.pulse = pulse, !.interrupt = interrupt, !.generate = generate]
  <2>1. interrupt /\ generate
    OBVIOUS
  <2> HIDE DEF pulse, interrupt, generate
  <2>2. /\ sr.pulse = pulse /\ sr.interrupt = interrupt /\ sr.generate = generate
        /\ sr.shifts = s.sr.shifts /\ sr.start = s.sr.start /\ sr.mode = s.sr.mode
    BY <1>2 DEF ShiftType
  <2>3. u = [s EXCEPT !.sr = sr]
    BY DEF pulse, interrupt, generate
  <2> HIDE DEF sr, u
  <2>4. u.sr = sr /\ u.acr = s.acr /\ u.IFR = s.IFR
    BY <2>3 DEF ViaType
  <2> QED  BY <2>1, <2>2, <2>4 DEF pulse
<1>5. t = ShiftIn(u, rising, answer)
  BY DEF CheckForShift
<1> HIDE DEF u, rising, t
<1>6. /\ t.sr.pulse = u.sr.pulse
      /\ t.sr.mode = u.sr.mode
      /\ u.sr.generate => ("CB1" \in t.out <=> u.sr.pulse)
      /\ ~rising => t.sr.shifts = u.sr.shifts /\ t.sr.start = u.sr.start /\ t.IFR = u.IFR
      /\ rising /\ u.acr.sr # 0 =>
           /\ t.sr.bits[Width] = ("CB2" \in t.in)
           /\ t.sr.shifts = (u.sr.shifts + 1) % Width
           /\ t.sr.start <=> (u.sr.start /\ t.sr.shifts # 0)
           /\ t.sr.shifts = 0 /\ u.sr.interrupt => "SR" \in t.IFR
           /\ "SR" \in t.IFR \ u.IFR => t.sr.shifts = 0
  BY <1>1, <1>3, <1>5, ShiftInMoves
<1> QED  BY <1>3, <1>4, <1>6 DEF t

-----------------------------------------------------------------------------
(* The timers and the control lines.                                       *)

\* A countdown that is not at its end gets shorter and does nothing else.
LEMMA Timer1Counts ==
  ASSUME NEW s \in ViaType, NEW answer \in SUBSET Lines, s.t1.running, CyclesLeft(s) > 1
  PROVE  LET t == Timer1(s, answer)
         IN  /\ Moves(s, t, answer, {"T1"}, {"PB7"})
             /\ t.sr = s.sr /\ t.out = s.out /\ t.IFR = s.IFR
             /\ t.t1.low = s.t1.low /\ t.t1.high = s.t1.high
             /\ t.t1.running /\ t.t1.first = s.t1.first /\ t.t1.counter = s.t1.counter - 1
<1> DEFINE t == Timer1(s, answer)
           c == s.t1.counter - 1
           t1 == [s.t1 EXCEPT !.counter = c]
<1>1. s.t1 \in Timer1Type /\ s.t1.counter \in Int
  BY DEF ViaType, Timer1Type
<1>2. ~(c <= (IF s.t1.first THEN -1 ELSE -2))
  BY <1>1 DEF CyclesLeft
<1>3. t = [s EXCEPT !.t1 = t1]
  BY <1>2 DEF Timer1
<1> HIDE DEF t, c
<1>4. /\ t1.counter = c /\ t1.low = s.t1.low /\ t1.high = s.t1.high
      /\ t1.running = s.t1.running /\ t1.first = s.t1.first
  BY <1>1 DEF Timer1Type
<1> HIDE DEF t1
<1>5. t.t1 = t1 /\ t.sr = s.sr /\ t.out = s.out /\ t.IFR = s.IFR
  BY <1>3 DEF ViaType
<1>6. Moves(s, t, answer, {"T1"}, {"PB7"})
  BY <1>3 DEF ViaType, Moves
<1> QED  BY <1>4, <1>5, <1>6 DEF t, c

\* The end of a countdown.
LEMMA Timer1Ends ==
  ASSUME NEW s \in ViaType, NEW answer \in SUBSET Lines
  PROVE  LET t == Timer1Expires(s, answer)
         IN  /\ Moves(s, t, answer, {"T1"}, {"PB7"})
             /\ t.sr = s.sr /\ "T1" \in t.IFR
             /\ t.t1.low = s.t1.low /\ t.t1.high = s.t1.high
             /\ t.t1.running <=> s.acr.t1 \in {1, 3}
             /\ ~t.t1.first
             /\ s.acr.t1 \in {1, 3} => t.t1.counter = s.t1.high * Base + s.t1.low
             /\ s.acr.t1 = 2 => "PB7" \in t.out
<1> DEFINE again == s.acr.t1 \in {1, 3}
           counter == IF again THEN Timer1Latch(s) ELSE 0
           t1 == [s.t1 EXCEPT !.first = FALSE, !.counter = counter, !.running = again]
           IFR == s.IFR \cup {"T1"}
           v == [s EXCEPT !.IFR = IFR, !.t1 = t1]
           out == CASE s.acr.t1 = 2 -> s.out \cup {"PB7"}
                    [] s.acr.t1 = 3 -> WithLine(s.out, "PB7", "PB7" \notin s.out)
                    [] OTHER        -> s.out
           t == Timer1Expires(s, answer)
<1>1. s.t1 \in Timer1Type /\ s.out \in SUBSET Lines /\ "PB7" \in Lines /\ "T1" \in Flags
  BY DEF ViaType, Lines, PBLines, Flags
<1>2. again \in BOOLEAN /\ counter \in -1 .. Base * Base - 1
  BY VIAAssumption, LatchType, Base * Base \in Nat \ {0}, SMTT(30)
<1>3. again => counter = s.t1.high * Base + s.t1.low
  BY DEF Timer1Latch
<1> HIDE DEF counter
<1>4. /\ t1 \in Timer1Type
      /\ t1.low = s.t1.low /\ t1.high = s.t1.high /\ t1.counter = counter
      /\ t1.running = again /\ t1.first = FALSE
  <2> HIDE DEF again
  <2> QED  BY <1>1, <1>2 DEF Timer1Type
<1>5. [SetIFR(s, {"T1"}) EXCEPT !.t1.first = FALSE, !.t1.counter = counter, !.t1.running = again] = v
  <2> HIDE DEF again
  <2> QED  BY DEF SetIFR, ViaType
<1>6. v \in ViaType /\ Moves(s, v, answer, {"T1"}, {}) /\ v.out = s.out /\ v.sr = s.sr
      /\ v.t1 = t1 /\ v.IFR = IFR
  <2> HIDE DEF t1
  <2>1. v \in ViaType
    BY <1>1, <1>4 DEF ViaType
  <2>2. Moves(s, v, answer, {"T1"}, {})
    BY DEF ViaType, Moves
  <2> QED  BY <2>1, <2>2 DEF ViaType
<1>7. out \in SUBSET Lines /\ out \ {"PB7"} = s.out \ {"PB7"} /\ (s.acr.t1 = 2 => "PB7" \in out)
  BY <1>1 DEF WithLine
<1>8. t = IF s.acr.t1 \in {2, 3} THEN UpdatePort(v, out, answer) ELSE v
  <2> DEFINE w == [SetIFR(s, {"T1"}) EXCEPT !.t1.first = FALSE, !.t1.counter = counter,
                                            !.t1.running = again]
  <2>1. t = CASE s.acr.t1 = 2 -> UpdatePort(w, s.out \cup {"PB7"}, answer)
              [] s.acr.t1 = 3 -> UpdatePort(w, WithLine(s.out, "PB7", "PB7" \notin s.out), answer)
              [] OTHER        -> w
    BY DEF Timer1Expires, counter
  <2> HIDE DEF t, w, v
  <2>2. w = v
    BY <1>5 DEF w
  <2> QED  BY <2>1, <2>2
<1> HIDE DEF v, t, out, t1
<1>9. CASE s.acr.t1 \in {2, 3}
  <2>1. t = UpdatePort(v, out, answer)
    BY <1>8, <1>9
  <2>2. /\ Moves(v, t, answer, {}, {"PB7"})
        /\ t.out = out /\ t.sr = v.sr /\ t.t1 = v.t1 /\ t.IFR = v.IFR
    BY <1>6, <1>7, <2>1, UpdatePortMoves
  <2>3. Moves(s, t, answer, {"T1"} \cup {}, {} \cup {"PB7"})
    BY <1>6, <2>2, MovesOn
  <2>4. Moves(s, t, answer, {"T1"}, {"PB7"})
    BY <2>3, MovesMore
  <2> QED  BY <1>3, <1>4, <1>6, <1>7, <2>2, <2>4 DEF t
<1>10. CASE s.acr.t1 \notin {2, 3}
  <2>1. Moves(s, t, answer, {"T1"}, {"PB7"})
    BY <1>6, <1>8, <1>10, MovesMore
  <2> QED  BY <1>3, <1>4, <1>6, <1>8, <1>10, <2>1 DEF t
<1> QED  BY <1>9, <1>10

\* T1 in a cycle.
LEMMA Timer1Moves ==
  ASSUME NEW s \in ViaType, NEW answer \in SUBSET Lines
  PROVE  LET t == Timer1(s, answer)
         IN  /\ Moves(s, t, answer, {"T1"}, {"PB7"}) /\ t.sr = s.sr
             /\ ~s.t1.running => t = s
             /\ s.t1.running /\ CyclesLeft(s) <= 1 => t = Timer1Expires(s, answer)
<1>1. s.t1.counter \in Int
  BY DEF ViaType, Timer1Type
<1>2. CASE ~s.t1.running
  BY <1>2 DEF Timer1, Moves
<1>3. CASE s.t1.running /\ CyclesLeft(s) <= 1
  <2>1. Timer1(s, answer) = Timer1Expires(s, answer)
    BY <1>1, <1>3 DEF Timer1, CyclesLeft
  <2> QED  BY <1>3, <2>1, Timer1Ends
<1>4. CyclesLeft(s) \in Int
  BY <1>1 DEF CyclesLeft
<1>5. CASE s.t1.running /\ CyclesLeft(s) > 1
  <2>1. ~(CyclesLeft(s) <= 1)
    BY <1>4, <1>5
  <2> QED  BY <1>5, <2>1, Timer1Counts
<1> QED  BY <1>2, <1>3, <1>4, <1>5

\* Timer 2 may set its flag and nothing else.
LEMMA Timer2Moves ==
  ASSUME NEW s \in ViaType, NEW answer
  PROVE  /\ Moves(s, Timer2(s), answer, {"T2"}, {})
         /\ Timer2(s).t1 = s.t1 /\ Timer2(s).sr = s.sr /\ Timer2(s).out = s.out
         /\ "T1" \in Timer2(s).IFR <=> "T1" \in s.IFR
BY DEF Timer2, SetIFR, ViaType, Moves

\* Active edges set the flags of their lines, and may end a handshake.
LEMMA HandShakingMoves ==
  ASSUME NEW s \in ViaType, NEW answer \in SUBSET Lines
  PROVE  LET t == CheckForHandShaking(s, answer)
         IN  /\ Moves(s, t, answer, ControlLines, {"CA2", "CB2"})
             /\ t.t1 = s.t1 /\ t.sr = s.sr
             /\ t.IFR = s.IFR \cup {l \in ControlLines : IsInput(s, l) /\ ActiveEdge(s, l)}
<1> DEFINE edges == {l \in ControlLines : IsInput(s, l) /\ ActiveEdge(s, l)}
           pulled == {k \in edges \cap {"CA1", "CB1"} : s.pcr[Partner[k]] \in {4, 5}}
           released == {Partner[l] : l \in pulled}
           u == SetIFR(s, edges)
           out == s.out \cup released
           t == CheckForHandShaking(s, answer)
<1>1. edges \subseteq ControlLines /\ ControlLines \subseteq Flags /\ released \subseteq {"CA2", "CB2"}
  BY DEF ControlLines, Flags, Partner
<1>2. t = UpdatePort(u, out, answer)
  BY DEF CheckForHandShaking
<1> HIDE DEF released
<1>3. out \in SUBSET Lines /\ out \ {"CA2", "CB2"} = s.out \ {"CA2", "CB2"}
  BY <1>1 DEF ViaType, Lines, ControlLines
<1> HIDE DEF out, edges
<1>4. u \in ViaType /\ Moves(s, u, answer, ControlLines, {}) /\ u.out = s.out
      /\ u.t1 = s.t1 /\ u.sr = s.sr /\ u.IFR = s.IFR \cup edges
  <2>1. u \in ViaType
    BY <1>1, FlagsType
  <2> QED  BY <1>1, <2>1 DEF SetIFR, ViaType, Moves
<1> HIDE DEF u, t
<1>5. /\ Moves(u, t, answer, {}, {"CA2", "CB2"})
      /\ t.sr = u.sr /\ t.t1 = u.t1 /\ t.IFR = u.IFR
  BY <1>2, <1>3, <1>4, UpdatePortMoves
<1>6. Moves(s, t, answer, ControlLines \cup {}, {} \cup {"CA2", "CB2"})
  BY <1>4, <1>5, MovesOn
<1>7. Moves(s, t, answer, ControlLines, {"CA2", "CB2"})
  BY <1>6, MovesMore
<1> QED  BY <1>4, <1>5, <1>7 DEF t, edges

-----------------------------------------------------------------------------
(* A cycle.                                                                *)

\* The chip as the parts of a cycle leave it.
Sampled(s) == Sample(NoteShiftMode(s))
Shifted(s, answer) == CheckForShift(Sampled(s), answer)
Timed(s, answer) == Timer2(Timer1(Shifted(s, answer), answer))
Checked(s, answer) == CheckForHandShaking(Timed(s, answer), answer)

\* What a cycle starts with.
LEMMA SampledState ==
  ASSUME NEW s \in ViaType
  PROVE  LET t == Sampled(s)
         IN  /\ t \in ViaType
             /\ t.acr = s.acr /\ t.pcr = s.pcr /\ t.pIn = s.pIn /\ t.IFR = s.IFR
             /\ t.out = s.out /\ t.in = s.in /\ t.now = s.in /\ t.t1 = s.t1
             /\ t.latched \cap PALines =
                  (IF s.acr.latchA /\ "CA1" \in s.in THEN s.in ELSE s.latched) \cap PALines
             /\ t.sr.pulse = s.sr.pulse /\ t.sr.pPulse = s.sr.pPulse /\ t.sr.start = s.sr.start
             /\ t.sr.mode = s.acr.sr
             /\ t.sr.shifts = IF s.acr.sr # s.sr.mode THEN 0 ELSE s.sr.shifts
<1> DEFINE n == NoteShiftMode(s)
           t == Sampled(s)
           shifts == IF s.acr.sr # s.sr.mode THEN 0 ELSE s.sr.shifts
           sr == [s.sr EXCEPT !.shifts = shifts, !.mode = s.acr.sr]
           latching == (IF n.acr.latchA /\ "CA1" \in n.in THEN PALines ELSE {})
                         \cup (IF n.acr.latchB /\ "CB1" \in n.in THEN PBLines ELSE {})
           latched == (n.latched \ latching) \cup (n.in \cap latching)
<1>1. s.sr \in ShiftType /\ s.acr \in ACRs
  BY DEF ViaType
<1>2. n = [s EXCEPT !.sr = sr]
  BY <1>1 DEF NoteShiftMode, ShiftType
<1>3. n \in ViaType
  BY SampleType
<1> HIDE DEF n, shifts
<1>4. /\ sr.shifts = shifts /\ sr.mode = s.acr.sr
      /\ sr.pulse = s.sr.pulse /\ sr.pPulse = s.sr.pPulse /\ sr.start = s.sr.start
  BY <1>1 DEF ShiftType
<1> HIDE DEF sr
<1>5. /\ n.sr = sr /\ n.acr = s.acr /\ n.pcr = s.pcr /\ n.pIn = s.pIn /\ n.IFR = s.IFR
      /\ n.out = s.out /\ n.in = s.in /\ n.t1 = s.t1 /\ n.latched = s.latched
  BY <1>2 DEF ViaType
<1>6. t = [n EXCEPT !.now = n.in, !.latched = latched]
  BY DEF Sampled, Sample, n
<1>7. t \in ViaType
  BY SampleType DEF Sampled
<1>8. latched \cap PALines =
        (IF s.acr.latchA /\ "CA1" \in s.in THEN s.in ELSE s.latched) \cap PALines
  BY <1>5 DEF PALines, PBLines
<1> HIDE DEF latched, latching, t
<1>9. /\ t.latched = latched /\ t.sr = n.sr /\ t.acr = n.acr /\ t.pcr = n.pcr /\ t.pIn = n.pIn
      /\ t.IFR = n.IFR /\ t.out = n.out /\ t.in = n.in /\ t.now = n.in /\ t.t1 = n.t1
  BY <1>3, <1>6 DEF ViaType
<1> QED  BY <1>4, <1>5, <1>7, <1>8, <1>9 DEF t, shifts

\* The parts of a cycle, and what each may change.
LEMMA Stages ==
  ASSUME NEW s \in ViaType, NEW answer \in SUBSET Lines
  PROVE  /\ Sampled(s) \in ViaType /\ Shifted(s, answer) \in ViaType
         /\ Timed(s, answer) \in ViaType /\ Checked(s, answer) \in ViaType
         /\ Moves(Sampled(s), Shifted(s, answer), answer, {"SR"}, {"CB1", "CB2"})
         /\ Shifted(s, answer).t1 = s.t1
         /\ Moves(Shifted(s, answer), Timed(s, answer), answer, {"T1", "T2"}, {"PB7"})
         /\ Timed(s, answer).sr = Shifted(s, answer).sr
         /\ Moves(Timed(s, answer), Checked(s, answer), answer, ControlLines, {"CA2", "CB2"})
         /\ Checked(s, answer).sr = Shifted(s, answer).sr
         /\ Checked(s, answer).t1 = Timed(s, answer).t1
         /\ Moves(Sampled(s), Timed(s, answer), answer, {"SR", "T1", "T2"}, {"CB1", "CB2", "PB7"})
         /\ Moves(Sampled(s), Checked(s, answer), answer, Flags, {"CA2", "CB1", "CB2", "PB7"})
<1> DEFINE a == Sampled(s)
           b == Shifted(s, answer)
           c == Timer1(b, answer)
           d == Timed(s, answer)
           e == Checked(s, answer)
<1>1. a \in ViaType /\ a.t1 = s.t1
  BY SampledState
<1> HIDE DEF a
<1>2. b \in ViaType /\ Moves(a, b, answer, {"SR"}, {"CB1", "CB2"}) /\ b.t1 = a.t1
  BY <1>1, CheckForShiftType, CheckForShiftMoves DEF Shifted, a
<1> HIDE DEF b
<1>3. c \in ViaType /\ Moves(b, c, answer, {"T1"}, {"PB7"}) /\ c.sr = b.sr
  BY <1>2, Timer1Typed, Timer1Moves
<1>4. d = Timer2(c)
  BY DEF Timed, b
<1> HIDE DEF c
<1>5. d \in ViaType /\ Moves(c, d, answer, {"T2"}, {}) /\ d.sr = c.sr
  BY <1>3, <1>4, Timer2Typed, Timer2Moves
<1> HIDE DEF d
<1>6. Moves(b, d, answer, {"T1"} \cup {"T2"}, {"PB7"} \cup {})
  BY <1>3, <1>5, MovesOn
<1>7. Moves(b, d, answer, {"T1", "T2"}, {"PB7"})
  BY <1>6, MovesMore
<1>8. e \in ViaType /\ Moves(d, e, answer, ControlLines, {"CA2", "CB2"})
      /\ e.sr = d.sr /\ e.t1 = d.t1
  BY <1>5, HandShakingType, HandShakingMoves DEF Checked, d
<1> HIDE DEF e
<1>9. Moves(a, d, answer, {"SR"} \cup {"T1", "T2"}, {"CB1", "CB2"} \cup {"PB7"})
  BY <1>2, <1>7, MovesOn
<1>10. Moves(a, d, answer, {"SR", "T1", "T2"}, {"CB1", "CB2", "PB7"})
  BY <1>9, MovesMore
<1>11. Moves(a, e, answer, {"SR", "T1", "T2"} \cup ControlLines,
             {"CB1", "CB2", "PB7"} \cup {"CA2", "CB2"})
  BY <1>8, <1>10, MovesOn
<1>12. Moves(a, e, answer, Flags, {"CA2", "CB1", "CB2", "PB7"})
  <2>1. /\ {"SR", "T1", "T2"} \cup ControlLines \subseteq Flags
        /\ {"CB1", "CB2", "PB7"} \cup {"CA2", "CB2"} \subseteq {"CA2", "CB1", "CB2", "PB7"}
    BY DEF ControlLines, Flags
  <2> QED  BY <1>11, <2>1, MovesMore
<1> QED
  BY <1>1, <1>2, <1>3, <1>5, <1>7, <1>8, <1>10, <1>12 DEF a, b, d, e

\* The end of a cycle: the levels are remembered, the IRQ output is updated.
LEMMA CycleEnds ==
  ASSUME NEW s \in ViaType, NEW answer \in SUBSET Lines
  PROVE  LET t == Checked(s, answer)
             u == Cycle(s, answer)
         IN  /\ u.acr = t.acr /\ u.pcr = t.pcr /\ u.IFR = t.IFR /\ u.out = t.out /\ u.in = t.in
             /\ u.latched = t.latched /\ u.t1 = t.t1
             /\ u.pIn = t.in
             /\ u.sr.pPulse = t.sr.pulse /\ u.sr.pulse = t.sr.pulse /\ u.sr.mode = t.sr.mode
             /\ u.sr.shifts = t.sr.shifts /\ u.sr.start = t.sr.start /\ u.sr.bits = t.sr.bits
<1> DEFINE t == Checked(s, answer)
           u == Cycle(s, answer)
           sr == [t.sr EXCEPT !.pPulse = t.sr.pulse]
           t2 == [t.t2 EXCEPT !.previous = t.t2.counter]
           v == [t EXCEPT !.pIn = t.in, !.sr = sr, !.t2 = t2]
           irq == v.IFR \cap v.IER # {}
<1>1. t \in ViaType
  BY Stages
<1>2. u = UpdateIRQ(EndCycle(t))
  BY DEF Cycle, Checked, Timed, Shifted, Sampled
<1> HIDE DEF t
<1>3. EndCycle(t) = v
  BY DEF EndCycle
<1>4. t.sr \in ShiftType
  BY <1>1 DEF ViaType
<1>5. /\ sr.pPulse = t.sr.pulse /\ sr.pulse = t.sr.pulse /\ sr.mode = t.sr.mode
      /\ sr.shifts = t.sr.shifts /\ sr.start = t.sr.start /\ sr.bits = t.sr.bits
  BY <1>4 DEF ShiftType
<1>6. u = [v EXCEPT !.irq = irq]
  BY <1>2, <1>3 DEF UpdateIRQ
<1> HIDE DEF u, irq, sr, t2
<1>7. /\ u.acr = t.acr /\ u.pcr = t.pcr /\ u.IFR = t.IFR /\ u.out = t.out /\ u.in = t.in
      /\ u.latched = t.latched /\ u.t1 = t.t1 /\ u.pIn = t.in /\ u.sr = sr
  BY <1>1, <1>6 DEF ViaType
<1> QED  BY <1>5, <1>7 DEF u, t

\* The inputs, the latches and the control lines in a cycle.
LEMMA CycleLines ==
  ASSUME NEW s \in ViaType, NEW answer \in SUBSET Lines
  PROVE  LET u == Cycle(s, answer)
         IN  /\ u.acr = s.acr /\ u.pcr = s.pcr /\ s.IFR \subseteq u.IFR
             /\ u.in \in {s.in, answer} /\ u.pIn = u.in
             /\ u.latched \cap PALines =
                  (IF s.acr.latchA /\ "CA1" \in s.in THEN s.in ELSE s.latched) \cap PALines
             /\ u.sr.pPulse = u.sr.pulse
             /\ "CA1" \in u.IFR \ s.IFR => ("CA1" \in s.in) = Positive(s, "CA1")
             /\ answer = s.in =>
                  \A l \in ControlLines :
                    /\ l \in u.IFR \ s.IFR => (l \in s.in) # (l \in s.pIn)
                    /\ IsInput(s, l) /\ (l \in s.in) # (l \in s.pIn) /\ (l \in s.in) = Positive(s, l)
                         => l \in u.IFR
<1> DEFINE a == Sampled(s)
           t == Timed(s, answer)
           e == Checked(s, answer)
           u == Cycle(s, answer)
<1>1. /\ a.acr = s.acr /\ a.pcr = s.pcr /\ a.pIn = s.pIn /\ a.IFR = s.IFR
      /\ a.in = s.in /\ a.now = s.in
      /\ a.latched \cap PALines =
           (IF s.acr.latchA /\ "CA1" \in s.in THEN s.in ELSE s.latched) \cap PALines
  BY SampledState
<1>2. /\ t \in ViaType
      /\ Moves(a, t, answer, {"SR", "T1", "T2"}, {"CB1", "CB2", "PB7"})
      /\ Moves(a, e, answer, Flags, {"CA2", "CB1", "CB2", "PB7"})
  BY Stages
<1>3. e.IFR = t.IFR \cup {l \in ControlLines : IsInput(t, l) /\ ActiveEdge(t, l)}
  BY <1>2, HandShakingMoves DEF Checked
<1>4. /\ u.acr = e.acr /\ u.pcr = e.pcr /\ u.IFR = e.IFR /\ u.in = e.in
      /\ u.latched = e.latched /\ u.pIn = e.in /\ u.sr.pPulse = e.sr.pulse /\ u.sr.pulse = e.sr.pulse
  BY CycleEnds
<1> HIDE DEF a, t, e, u
<1>5. /\ t.pcr = s.pcr /\ t.pIn = s.pIn
      /\ t.IFR \subseteq s.IFR \cup {"SR", "T1", "T2"}
      /\ t.now \ {"CB2"} = s.in \ {"CB2"}
      /\ answer = s.in => t.now = s.in
  BY <1>1, <1>2 DEF Moves
<1>6. /\ e.acr = s.acr /\ e.pcr = s.pcr /\ s.IFR \subseteq e.IFR
      /\ e.in \in {s.in, answer} /\ e.latched = a.latched
  BY <1>1, <1>2 DEF Moves
<1>7. \A l \in ControlLines : (IsInput(t, l) <=> IsInput(s, l)) /\ Positive(t, l) = Positive(s, l)
  BY <1>5 DEF IsInput, Positive
<1>8. \A l \in ControlLines : l \in u.IFR \ s.IFR => ActiveEdge(t, l)
  BY <1>3, <1>4, <1>5 DEF ControlLines
<1>9. \A l \in ControlLines : IsInput(t, l) /\ ActiveEdge(t, l) => l \in u.IFR
  BY <1>3, <1>4
<1>10. "CA1" \in u.IFR \ s.IFR => ("CA1" \in s.in) = Positive(s, "CA1")
  BY <1>5, <1>7, <1>8 DEF ActiveEdge, ControlLines
<1>11. ASSUME answer = s.in, NEW l \in ControlLines
       PROVE  /\ l \in u.IFR \ s.IFR => (l \in s.in) # (l \in s.pIn)
              /\ IsInput(s, l) /\ (l \in s.in) # (l \in s.pIn) /\ (l \in s.in) = Positive(s, l)
                   => l \in u.IFR
  <2>1. ActiveEdge(t, l) <=> (l \in s.in) # (l \in s.pIn) /\ (l \in s.in) = Positive(s, l)
    BY <1>5, <1>7, <1>11 DEF ActiveEdge
  <2> QED  BY <1>7, <1>8, <1>9, <2>1
<1> QED  BY <1>1, <1>4, <1>6, <1>10, <1>11 DEF u

\* T1 and PB7 in a cycle.
LEMMA CycleT1 ==
  ASSUME NEW s \in ViaType, NEW answer \in SUBSET Lines
  PROVE  LET u == Cycle(s, answer)
         IN  /\ u.t1.low = s.t1.low /\ u.t1.high = s.t1.high
             /\ ~s.t1.running => ~u.t1.running
             /\ ~s.t1.running \/ CyclesLeft(s) > 1 =>
                  /\ "T1" \in u.IFR <=> "T1" \in s.IFR
                  /\ "PB7" \in u.out <=> "PB7" \in s.out
             /\ s.t1.running /\ CyclesLeft(s) > 1 =>
                  /\ u.t1.running /\ u.t1.first = s.t1.first
                  /\ CyclesLeft(u) = CyclesLeft(s) - 1
             /\ s.t1.running /\ CyclesLeft(s) <= 1 =>
                  /\ "T1" \in u.IFR
                  /\ u.t1.running <=> s.acr.t1 \in {1, 3}
                  /\ s.acr.t1 \in {1, 3} => CyclesLeft(u) = s.t1.high * Base + s.t1.low + 2
                  /\ s.acr.t1 = 2 => "PB7" \in u.out
<1> DEFINE a == Sampled(s)
           b == Shifted(s, answer)
           c == Timer1(b, answer)
           d == Timed(s, answer)
           e == Checked(s, answer)
           u == Cycle(s, answer)
<1>1. a.acr = s.acr /\ a.IFR = s.IFR /\ a.out = s.out
  BY SampledState
<1>2. /\ b \in ViaType /\ b.t1 = s.t1
      /\ Moves(a, b, answer, {"SR"}, {"CB1", "CB2"})
      /\ Moves(d, e, answer, ControlLines, {"CA2", "CB2"}) /\ e.t1 = d.t1
  BY Stages
<1>3. u.IFR = e.IFR /\ u.out = e.out /\ u.t1 = e.t1
  BY CycleEnds
<1> HIDE DEF a, b, e, u
<1>4. /\ b.acr = s.acr /\ ("T1" \in b.IFR <=> "T1" \in s.IFR) /\ ("PB7" \in b.out <=> "PB7" \in s.out)
  BY <1>1, <1>2 DEF Moves
<1>5. d = Timer2(c)
  BY DEF Timed, b
<1>6. c \in ViaType
  BY <1>2, Timer1Typed
<1>7. d.t1 = c.t1 /\ d.out = c.out /\ ("T1" \in d.IFR <=> "T1" \in c.IFR)
  BY <1>5, <1>6, Timer2Moves
<1> HIDE DEF d
<1>8. /\ u.t1 = c.t1 /\ ("T1" \in u.IFR <=> "T1" \in c.IFR) /\ ("PB7" \in u.out <=> "PB7" \in c.out)
  BY <1>2, <1>3, <1>7 DEF Moves, ControlLines
<1>9. CyclesLeft(b) = CyclesLeft(s) /\ CyclesLeft(u) = CyclesLeft(c) /\ CyclesLeft(s) \in Int
  <2>1. s.t1.counter \in Int
    BY DEF ViaType, Timer1Type
  <2> QED  BY <1>2, <1>8, <2>1 DEF CyclesLeft
<1>10. CASE ~s.t1.running
  <2>1. c = b
    BY <1>2, <1>10, Timer1Moves
  <2> QED  BY <1>2, <1>4, <1>8, <1>10, <2>1 DEF u
<1>11. CASE s.t1.running /\ CyclesLeft(s) > 1
  <2>1. ~(CyclesLeft(s) <= 1)
    BY <1>9, <1>11
  <2>2. b.t1.counter \in Int /\ (b.t1.first \in BOOLEAN)
    BY <1>2 DEF ViaType, Timer1Type
  <2>3. /\ c.out = b.out /\ c.IFR = b.IFR
        /\ c.t1.low = b.t1.low /\ c.t1.high = b.t1.high
        /\ c.t1.running /\ c.t1.first = b.t1.first /\ c.t1.counter = b.t1.counter - 1
    BY <1>2, <1>9, <1>11, Timer1Counts
  <2>4. CyclesLeft(c) = CyclesLeft(b) - 1
    BY <2>2, <2>3 DEF CyclesLeft
  <2> QED  BY <1>2, <1>4, <1>8, <1>9, <1>11, <2>1, <2>3, <2>4 DEF u
<1>12. CASE s.t1.running /\ CyclesLeft(s) <= 1
  <2>1. c = Timer1Expires(b, answer)
    BY <1>2, <1>9, <1>12, Timer1Moves
  <2>2. /\ "T1" \in c.IFR
        /\ c.t1.low = b.t1.low /\ c.t1.high = b.t1.high
        /\ c.t1.running <=> b.acr.t1 \in {1, 3}
        /\ ~c.t1.first
        /\ b.acr.t1 \in {1, 3} => c.t1.counter = b.t1.high * Base + b.t1.low
        /\ b.acr.t1 = 2 => "PB7" \in c.out
    BY <1>2, <2>1, Timer1Ends
  <2>3. b.acr.t1 \in {1, 3} => CyclesLeft(c) = b.t1.high * Base + b.t1.low + 2
    BY <2>2 DEF CyclesLeft
  <2>4. ~(CyclesLeft(s) > 1)
    BY <1>9, <1>12
  <2> HIDE DEF c
  <2> QED  BY <1>2, <1>4, <1>8, <1>9, <1>12, <2>2, <2>3, <2>4 DEF u
<1> QED  BY <1>9, <1>10, <1>11, <1>12

\* A byte that is shifted in at phi2 rate, in a cycle.
LEMMA CycleShift ==
  ASSUME NEW s \in ViaType, NEW answer \in SUBSET Lines,
         s.acr.sr = 2, s.sr.start, s.sr.mode # 2 => s.sr.shifts = 0, s.sr.pPulse = s.sr.pulse
  PROVE  LET u == Cycle(s, answer)
         IN  /\ u.sr.pulse <=> ~s.sr.pulse
             /\ u.sr.mode = 2
             /\ s.sr.pulse =>
                  /\ u.sr.shifts = s.sr.shifts /\ u.sr.start
                  /\ "SR" \in u.IFR <=> "SR" \in s.IFR
             /\ ~s.sr.pulse =>
                  /\ u.sr.shifts = (s.sr.shifts + 1) % Width
                  /\ u.sr.start <=> u.sr.shifts # 0
                  /\ u.sr.shifts = 0 => "SR" \in u.IFR
                  /\ "SR" \in u.IFR \ s.IFR => u.sr.shifts = 0
<1> DEFINE a == Sampled(s)
           b == Shifted(s, answer)
           d == Timed(s, answer)
           e == Checked(s, answer)
           u == Cycle(s, answer)
<1>1. /\ a \in ViaType /\ a.acr = s.acr /\ a.IFR = s.IFR
      /\ a.sr.pulse = s.sr.pulse /\ a.sr.pPulse = s.sr.pPulse /\ a.sr.start = s.sr.start
      /\ a.sr.mode = 2 /\ a.sr.shifts = s.sr.shifts
  BY SampledState
<1>2. /\ e.sr = b.sr
      /\ Moves(b, d, answer, {"T1", "T2"}, {"PB7"})
      /\ Moves(d, e, answer, ControlLines, {"CA2", "CB2"})
  BY Stages
<1>3. /\ u.IFR = e.IFR
      /\ u.sr.pPulse = e.sr.pulse /\ u.sr.pulse = e.sr.pulse /\ u.sr.mode = e.sr.mode
      /\ u.sr.shifts = e.sr.shifts /\ u.sr.start = e.sr.start
  BY CycleEnds
<1> HIDE DEF a, b, d, e, u
<1>4. "SR" \in u.IFR <=> "SR" \in b.IFR
  BY <1>2, <1>3 DEF Moves, ControlLines
<1>5. b = CheckForShift(a, answer)
  BY DEF Shifted, a, b
<1>6. /\ b.sr.pulse <=> ~a.sr.pulse
      /\ b.sr.mode = a.sr.mode
      /\ a.sr.pulse => b.sr.shifts = a.sr.shifts /\ b.sr.start = a.sr.start /\ b.IFR = a.IFR
      /\ ~a.sr.pulse =>
           /\ b.sr.shifts = (a.sr.shifts + 1) % Width
           /\ b.sr.start <=> (a.sr.start /\ b.sr.shifts # 0)
           /\ b.sr.shifts = 0 => "SR" \in b.IFR
           /\ "SR" \in b.IFR \ a.IFR => b.sr.shifts = 0
  <2>1. a.acr.sr = 2 /\ (a.sr.start \/ a.sr.shifts > 0) /\ a.sr.pPulse = a.sr.pulse
    BY <1>1
  <2> QED  BY ONLY <1>1, <1>5, <2>1, answer \in SUBSET Lines, ShiftInAtPhi2
<1> QED  BY <1>1, <1>2, <1>3, <1>4, <1>6 DEF u

\* Where CB1 rises, the bit comes from the answer to it.
LEMMA CycleShiftsAnswer ==
  ASSUME NEW s \in ViaType, NEW answer \in SUBSET Lines,
         s.acr.sr = 2, s.sr.pPulse = s.sr.pulse,
         "CB1" \in Cycle(s, answer).out \ s.out
  PROVE  Cycle(s, answer).sr.bits[Width] = ("CB2" \in Cycle(s, answer).in)
<1> DEFINE a == Sampled(s)
           b == Shifted(s, answer)
           d == Timed(s, answer)
           e == Checked(s, answer)
           u == Cycle(s, answer)
<1>1. /\ a \in ViaType /\ a.acr = s.acr /\ a.out = s.out
      /\ a.sr.pulse = s.sr.pulse /\ a.sr.pPulse = s.sr.pPulse
  BY SampledState
<1>2. /\ e.sr = b.sr
      /\ Moves(a, b, answer, {"SR"}, {"CB1", "CB2"})
      /\ Moves(b, d, answer, {"T1", "T2"}, {"PB7"})
      /\ Moves(d, e, answer, ControlLines, {"CA2", "CB2"})
  BY Stages
<1>3. u.out = e.out /\ u.in = e.in /\ u.sr.bits = e.sr.bits
  BY CycleEnds
<1>4. b = CheckForShift(a, answer)
  BY DEF Shifted
<1>5. "CB1" \in u.out \ s.out
  OBVIOUS
<1> HIDE DEF a, b, d, e, u
<1>6. "CB1" \in b.out \ a.out
  BY <1>1, <1>2, <1>3, <1>5 DEF Moves
<1>7. b.in = answer /\ u.in = answer
  <2>1. b.in = answer
    BY <1>2, <1>6 DEF Moves
  <2> QED  BY <1>2, <1>3, <2>1 DEF Moves
<1>8. a.sr.start \/ a.sr.shifts > 0
  BY <1>1, <1>4, <1>6 DEF CheckForShift
<1>9. /\ "CB1" \in b.out <=> ~a.sr.pulse
      /\ ~a.sr.pulse => b.sr.bits[Width] = ("CB2" \in b.in)
  BY <1>1, <1>4, <1>8, ShiftInAtPhi2
<1> QED  BY <1>2, <1>3, <1>6, <1>7, <1>9 DEF u

-----------------------------------------------------------------------------
(* The accesses of registers.                                              *)

\* An access moves no level and makes no shift, sets no flag and stops no shifting.
Accessed(s, t) ==
  /\ t.in = s.in /\ t.pIn = s.pIn /\ t.latched = s.latched
  /\ t.IFR \subseteq s.IFR
  /\ t.sr.pulse = s.sr.pulse /\ t.sr.pPulse = s.sr.pPulse
  /\ t.sr.mode = s.sr.mode /\ t.sr.shifts = s.sr.shifts
  /\ s.sr.start => t.sr.start

\* Starting to shift leaves what the lemmas on register accesses need.
LEMMA StartShiftingKeeps ==
  ASSUME NEW s \in ViaType
  PROVE  LET t == ClearIFR(StartShifting(s), {"SR"})
         IN  /\ Accessed(s, t)
             /\ t.acr = s.acr /\ t.out = s.out /\ t.t1 = s.t1 /\ t.pcr = s.pcr
             /\ "T1" \in t.IFR <=> "T1" \in s.IFR
             /\ s.sr.shifts = 0 /\ s.acr.sr # 6 => t.sr.start
<1> DEFINE start == s.sr.start \/ (s.sr.shifts = 0 /\ s.acr.sr # 6)
           sr == [s.sr EXCEPT !.start = start]
           IFR == s.IFR \ {"SR"}
           t == ClearIFR(StartShifting(s), {"SR"})
<1>1. s.sr \in ShiftType
  BY DEF ViaType
<1>2. t = [s EXCEPT !.sr = sr, !.IFR = IFR]
  BY DEF StartShifting, ClearIFR, ViaType
<1>3. (s.sr.start => start) /\ (s.sr.shifts = 0 /\ s.acr.sr # 6 => start)
  OBVIOUS
<1> HIDE DEF t, start
<1>4. /\ sr.pulse = s.sr.pulse /\ sr.pPulse = s.sr.pPulse /\ sr.mode = s.sr.mode
      /\ sr.shifts = s.sr.shifts /\ sr.start = start
  BY <1>1 DEF ShiftType
<1> HIDE DEF sr
<1>5. /\ t.in = s.in /\ t.pIn = s.pIn /\ t.latched = s.latched /\ t.IFR = IFR /\ t.sr = sr
      /\ t.acr = s.acr /\ t.out = s.out /\ t.t1 = s.t1 /\ t.pcr = s.pcr
  BY <1>2 DEF ViaType
<1> QED  BY <1>3, <1>4, <1>5 DEF t, Accessed

\* So does updating the request.
LEMMA UpdateIRQKeeps ==
  ASSUME NEW s \in ViaType
  PROVE  LET t == UpdateIRQ(s)
         IN  /\ t.in = s.in /\ t.pIn = s.pIn /\ t.latched = s.latched /\ t.IFR = s.IFR
             /\ t.sr = s.sr /\ t.acr = s.acr /\ t.out = s.out /\ t.t1 = s.t1 /\ t.pcr = s.pcr
<1> DEFINE irq == s.IFR \cap s.IER # {}
<1>1. UpdateIRQ(s) = [s EXCEPT !.irq = irq]
  BY DEF UpdateIRQ
<1> HIDE DEF irq
<1> QED  BY <1>1 DEF ViaType

\* So does clearing flags.
LEMMA ClearKeeps ==
  ASSUME NEW s \in ViaType, NEW flags
  PROVE  LET t == ClearIFR(s, flags)
         IN  /\ Accessed(s, t)
             /\ t.acr = s.acr /\ t.out = s.out /\ t.t1 = s.t1 /\ t.pcr = s.pcr
             /\ t.IFR = s.IFR \ flags
BY DEF ClearIFR, ViaType, Accessed

\* A read of a register, after the cycle it makes.
LEMMA ReadKeeps ==
  ASSUME NEW s \in ViaType, NEW r \in Registers
  PROVE  LET t == ReadByte(s, r)
         IN  /\ Accessed(s, t)
             /\ t.acr = s.acr /\ t.out = s.out /\ t.t1 = s.t1 /\ t.pcr = s.pcr
             /\ r # "T1CL" => ("T1" \in t.IFR <=> "T1" \in s.IFR)
<1> DEFINE t == CASE r = "IRA"  -> Acknowledge(s, "CA1", "CA2")
                  [] r = "T1CL" -> ClearIFR(s, {"T1"})
                  [] r = "T2CL" -> ClearIFR(s, {"T2"})
                  [] r = "SR"   -> ClearIFR(StartShifting(s), {"SR"})
                  [] OTHER      -> s
           kept(u) == /\ Accessed(s, u)
                      /\ u.acr = s.acr /\ u.out = s.out /\ u.t1 = s.t1 /\ u.pcr = s.pcr
                      /\ r # "T1CL" => ("T1" \in u.IFR <=> "T1" \in s.IFR)
<1>1. ReadByte(s, r) = UpdateIRQ(t)
  BY DEF ReadByte
<1>2. t \in ViaType /\ kept(t)
  <2>1. CASE r = "IRA"
    <3> DEFINE f == {"CA1"} \cup (IF s.pcr["CA2"] \in {0, 2} THEN {"CA2"} ELSE {})
    <3>1. t = ClearIFR(s, f) /\ "T1" \notin f
      BY <2>1 DEF Acknowledge
    <3> HIDE DEF t, f
    <3> QED  BY <3>1, ClearType, ClearKeeps
  <2>2. CASE r = "T1CL"
    BY <2>2, ClearType, ClearKeeps
  <2>3. CASE r = "T2CL"
    BY <2>3, ClearType, ClearKeeps
  <2>4. CASE r = "SR"
    BY <2>4, StartShiftingType, ClearType, StartShiftingKeeps
  <2>5. CASE r \notin {"IRA", "T1CL", "T2CL", "SR"}
    BY <2>5 DEF Accessed
  <2> QED  BY <2>1, <2>2, <2>3, <2>4, <2>5
<1> HIDE DEF t
<1>3. Accessed(s, UpdateIRQ(t))
  BY <1>2, UpdateIRQKeeps DEF Accessed
<1> QED  BY <1>1, <1>2, <1>3, UpdateIRQKeeps

\* So does writing a port.
LEMMA WritePortKeeps ==
  ASSUME NEW s \in ViaType, NEW lines \in SUBSET Lines, NEW data
  PROVE  LET t == WritePort(s, lines, data)
         IN  /\ Accessed(s, t)
             /\ t.acr = s.acr /\ t.t1 = s.t1
             /\ "PB7" \notin lines \cap s.ddr => ("PB7" \in t.out <=> "PB7" \in s.out)
BY DEF WritePort, ViaType, Accessed

\* So does writing PCR.
LEMMA WritePCRKeeps ==
  ASSUME NEW s \in ViaType, NEW data \in PCRs
  PROVE  LET t == WritePCR(s, data)
         IN  /\ Accessed(s, t)
             /\ t.acr = s.acr /\ t.t1 = s.t1
             /\ "PB7" \in t.out <=> "PB7" \in s.out
<1> DEFINE level(out, l) == CASE data[l] = 6 -> out \ {l}
                              [] data[l] = 7 -> out \cup {l}
                              [] OTHER       -> out
           out1 == level(s.out, "CA2")
           out2 == level(out1, "CB2")
<1>1. \A out, l : l # "PB7" => ("PB7" \in level(out, l) <=> "PB7" \in out)
  OBVIOUS
<1>2. WritePCR(s, data) = [s EXCEPT !.pcr = data, !.out = out2]
  BY DEF WritePCR, ViaType
<1>3. "PB7" \in out2 <=> "PB7" \in s.out
  <2> HIDE DEF level
  <2> QED  BY <1>1
<1> HIDE DEF out2
<1> QED  BY <1>2, <1>3 DEF ViaType, Accessed

\* The write of T1CH starts a countdown from the value written.
LEMMA WriteT1CHStarts ==
  ASSUME NEW s \in ViaType, NEW data \in Bytes
  PROVE  LET t == WriteT1CounterHigh(s, data)
         IN  /\ Accessed(s, t) /\ t.acr = s.acr
             /\ t.t1.high = data /\ t.t1.low = s.t1.low
             /\ t.t1.running /\ t.t1.first /\ t.t1.counter \in Nat
             /\ s.acr.t1 = 2 => "PB7" \notin t.out
<1> DEFINE low == IF s.t1.lowWritten THEN s.t1.low ELSE s.t1.counter % Base
           word == data * Base + low
           t1 == [s.t1 EXCEPT !.high = data, !.lowWritten = FALSE, !.counter = word,
                              !.running = TRUE, !.first = TRUE]
           IFR == s.IFR \ {"T1"}
           v == [s EXCEPT !.IFR = IFR, !.t1 = t1]
           out == CASE s.acr.t1 = 2 -> s.out \ {"PB7"}
                    [] s.acr.t1 = 3 -> WithLine(s.out, "PB7", "PB7" \notin s.out)
                    [] OTHER        -> s.out
           w == [v EXCEPT !.out = out]
           t == WriteT1CounterHigh(s, data)
<1>1. s.t1 \in Timer1Type
  BY DEF ViaType
<1>2. word \in Nat
  <2>1. s.t1.counter \in Int /\ s.t1.low \in Bytes
    BY <1>1 DEF Timer1Type
  <2>2. low \in Bytes
    BY <2>1, VIAAssumption DEF Bytes
  <2> HIDE DEF low
  <2>3. word \in 0 .. Base * Base - 1
    BY <2>2, WordRange
  <2> HIDE DEF word
  <2> QED  BY <2>3
<1> HIDE DEF word
<1>3. /\ t1.high = data /\ t1.low = s.t1.low /\ t1.counter = word
      /\ t1.running = TRUE /\ t1.first = TRUE
  BY <1>1 DEF Timer1Type
<1>4. [ClearIFR(s, {"T1"}) EXCEPT !.t1.high = data, !.t1.lowWritten = FALSE,
                                  !.t1.counter = word, !.t1.running = TRUE, !.t1.first = TRUE] = v
  BY DEF ClearIFR, ViaType
<1>5. v.out = s.out
  BY DEF ViaType
<1>6. t = w
  <2> DEFINE u == [ClearIFR(s, {"T1"}) EXCEPT !.t1.high = data, !.t1.lowWritten = FALSE,
                     !.t1.counter = word, !.t1.running = TRUE, !.t1.first = TRUE]
  <2>1. t = CASE s.acr.t1 = 2 -> [u EXCEPT !.out = @ \ {"PB7"}]
              [] s.acr.t1 = 3 -> [u EXCEPT !.out = WithLine(@, "PB7", "PB7" \notin @)]
              [] OTHER        -> u
    BY DEF WriteT1CounterHigh, word
  <2>2. u = v
    BY <1>4
  <2>3. [v EXCEPT !.out = s.out] = v
    BY DEF ViaType
  <2> HIDE DEF u, v, t
  <2> QED  BY <1>5, <2>1, <2>2, <2>3
<1>7. s.acr.t1 = 2 => "PB7" \notin out
  OBVIOUS
<1> HIDE DEF t1, out, t
<1>8. /\ t.t1 = t1 /\ t.acr = s.acr /\ t.out = out
      /\ Accessed(s, t)
  BY <1>6 DEF ViaType, Accessed
<1> QED  BY <1>2, <1>3, <1>7, <1>8 DEF t

\* The other writes to the registers of T1; that of T2CL ends up there too.
LEMMA TimerBytesKept ==
  ASSUME NEW s \in ViaType, NEW data \in Bytes,
         NEW r \in {"T1CL", "T1LL", "T1LH", "T2CL"}
  PROVE  LET t == Written(s, r, data)
         IN  /\ Accessed(s, t) /\ t.acr = s.acr /\ t.out = s.out
             /\ t.t1.running = s.t1.running /\ t.t1.first = s.t1.first
             /\ t.t1.high = (IF r = "T1LH" THEN data ELSE s.t1.high)
             /\ t.t1.low = (IF r = "T1LH" THEN s.t1.low ELSE data)
             /\ r # "T1CL" => t.t1.counter = s.t1.counter
<1>1. s.t1 \in Timer1Type
  BY DEF ViaType
<1> DEFINE word == LowByteReplaced(s.t1.counter, data)
           t == Written(s, r, data)
<1> HIDE DEF word
<1>2. ASSUME NEW t1, t = [s EXCEPT !.t1 = t1]
      PROVE  Accessed(s, t) /\ t.acr = s.acr /\ t.out = s.out /\ t.t1 = t1
  <2> HIDE DEF t
  <2> QED  BY <1>2 DEF ViaType, Accessed
<1>3. CASE r = "T1CL"
  <2> DEFINE t1 == [s.t1 EXCEPT !.low = data, !.lowWritten = TRUE, !.counter = word]
  <2>1. t = [s EXCEPT !.t1 = t1]
    BY <1>3 DEF Written, ViaType, word
  <2>2. /\ t1.running = s.t1.running /\ t1.first = s.t1.first
        /\ t1.high = s.t1.high /\ t1.low = data
    BY <1>1 DEF Timer1Type
  <2> HIDE DEF t1
  <2>3. Accessed(s, t) /\ t.acr = s.acr /\ t.out = s.out /\ t.t1 = t1
    BY <1>2, <2>1
  <2> HIDE DEF t
  <2> QED  BY <1>3, <2>2, <2>3 DEF t
<1>4. CASE r = "T1LL"
  <2> DEFINE t1 == [s.t1 EXCEPT !.low = data, !.lowWritten = FALSE]
  <2>1. t = [s EXCEPT !.t1 = t1]
    BY <1>4 DEF Written, ViaType
  <2>2. /\ t1.running = s.t1.running /\ t1.first = s.t1.first
        /\ t1.high = s.t1.high /\ t1.low = data /\ t1.counter = s.t1.counter
    BY <1>1 DEF Timer1Type
  <2> HIDE DEF t1
  <2>3. Accessed(s, t) /\ t.acr = s.acr /\ t.out = s.out /\ t.t1 = t1
    BY <1>2, <2>1
  <2> HIDE DEF t
  <2> QED  BY <1>4, <2>2, <2>3 DEF t
<1>5. CASE r = "T1LH"
  <2> DEFINE t1 == [s.t1 EXCEPT !.high = data]
  <2>1. t = [s EXCEPT !.t1 = t1]
    BY <1>5 DEF Written, ViaType
  <2>2. /\ t1.running = s.t1.running /\ t1.first = s.t1.first
        /\ t1.high = data /\ t1.low = s.t1.low /\ t1.counter = s.t1.counter
    BY <1>1 DEF Timer1Type
  <2> HIDE DEF t1
  <2>3. Accessed(s, t) /\ t.acr = s.acr /\ t.out = s.out /\ t.t1 = t1
    BY <1>2, <2>1
  <2> HIDE DEF t
  <2> QED  BY <1>5, <2>2, <2>3 DEF t
<1>6. CASE r = "T2CL"
  <2> DEFINE t1 == [s.t1 EXCEPT !.low = data]
  <2>1. t = [s EXCEPT !.t1 = t1]
    BY <1>6 DEF Written, ViaType
  <2>2. /\ t1.running = s.t1.running /\ t1.first = s.t1.first
        /\ t1.high = s.t1.high /\ t1.low = data /\ t1.counter = s.t1.counter
    BY <1>1 DEF Timer1Type
  <2> HIDE DEF t1
  <2>3. Accessed(s, t) /\ t.acr = s.acr /\ t.out = s.out /\ t.t1 = t1
    BY <1>2, <2>1
  <2> HIDE DEF t
  <2> QED  BY <1>6, <2>2, <2>3 DEF t
<1> QED  BY <1>3, <1>4, <1>5, <1>6

T1Registers == {"T1CL", "T1CH", "T1LL", "T1LH", "T2CL"}

\* A write of any register.
LEMMA WrittenKeeps ==
  ASSUME NEW s \in ViaType, NEW w \in RegisterWrites
  PROVE  LET t == Written(s, w.reg, w.data)
         IN  /\ Accessed(s, t)
             /\ w.reg # "ACR" => t.acr = s.acr
             /\ w.reg \notin T1Registers => t.t1 = s.t1
             /\ w.reg # "T1CH" /\ ~(w.reg = "ORB" /\ "PB7" \in s.ddr) =>
                  ("PB7" \in t.out <=> "PB7" \in s.out)
             /\ w.reg = "SR" /\ s.sr.shifts = 0 /\ s.acr.sr # 6 => t.sr.start
<1> DEFINE t == Written(s, w.reg, w.data)
           kept(u) == /\ Accessed(s, u) /\ u.acr = s.acr /\ u.t1 = s.t1
                      /\ ~(w.reg = "ORB" /\ "PB7" \in s.ddr) =>
                           ("PB7" \in u.out <=> "PB7" \in s.out)
<1>1. CASE w \in [reg : {"ORB", "ORA", "ORA2", "DDRB", "DDRA", "IFR"}, data : SUBSET (Lines \cup Flags)]
  <2>1. PALines \in SUBSET Lines /\ PBLines \in SUBSET Lines /\ "PB7" \notin PALines
    BY DEF Lines, PALines
  <2>2. \A u \in ViaType : WritePort(u, PALines, w.data) \in ViaType
    BY <2>1, WritePortType
  <2>3. \A d : LET u == [s EXCEPT !.ddr = d] IN kept(u)
    BY DEF ViaType, Accessed
  <2>4. CASE w.reg = "ORB"
    <3> DEFINE f == {"CB1"} \cup (IF s.pcr["CB2"] \in {0, 2} THEN {"CB2"} ELSE {})
               u == ClearIFR(s, f)
    <3>1. t = WritePort(u, PBLines, w.data)
      BY <2>4 DEF Written, Acknowledge
    <3> HIDE DEF f
    <3>2. u \in ViaType /\ Accessed(s, u) /\ u.acr = s.acr /\ u.out = s.out /\ u.t1 = s.t1
          /\ u.ddr = s.ddr
      BY ClearType, ClearKeeps DEF ClearIFR, ViaType
    <3> HIDE DEF u, t
    <3>3. /\ Accessed(u, t) /\ t.acr = u.acr /\ t.t1 = u.t1
          /\ "PB7" \notin PBLines \cap u.ddr => ("PB7" \in t.out <=> "PB7" \in u.out)
      BY <2>1, <3>1, <3>2, WritePortKeeps
    <3>4. kept(t)
      BY <2>4, <3>2, <3>3 DEF Accessed
    <3> QED  BY <2>4, <3>4 DEF t
  <2>5. CASE w.reg = "ORA"
    <3> DEFINE u == WritePort(s, PALines, w.data)
               f == {"CA1"} \cup (IF u.pcr["CA2"] \in {0, 2} THEN {"CA2"} ELSE {})
    <3>1. t = ClearIFR(u, f)
      BY <2>5 DEF Written, Acknowledge
    <3> HIDE DEF f
    <3>2. u \in ViaType /\ Accessed(s, u) /\ u.acr = s.acr /\ u.t1 = s.t1
          /\ ("PB7" \in u.out <=> "PB7" \in s.out)
      BY <2>1, <2>2, WritePortKeeps
    <3> HIDE DEF u, t
    <3>3. Accessed(u, t) /\ t.acr = u.acr /\ t.t1 = u.t1 /\ t.out = u.out
      BY <3>1, <3>2, ClearKeeps
    <3>4. kept(t)
      BY <3>2, <3>3 DEF Accessed
    <3> QED  BY <2>5, <3>4 DEF t
  <2>6. CASE w.reg = "ORA2"
    <3>1. t = WritePort(s, PALines, w.data)
      BY <2>6 DEF Written
    <3>2. kept(WritePort(s, PALines, w.data))
      BY <2>1, WritePortKeeps
    <3> QED  BY <2>6, <3>1, <3>2
  <2>7. CASE w.reg \in {"DDRB", "DDRA"}
    <3>1. t \in {[s EXCEPT !.ddr = (s.ddr \ PBLines) \cup (w.data \cap PBLines)],
                 [s EXCEPT !.ddr = (s.ddr \ PALines) \cup (w.data \cap PALines)]}
      BY <2>7 DEF Written
    <3>2. kept(t)
      BY <2>3, <3>1
    <3> QED  BY <2>7, <3>2
  <2>8. CASE w.reg = "IFR"
    <3>1. t = ClearIFR(s, w.data)
      BY <2>8 DEF Written
    <3>2. kept(ClearIFR(s, w.data))
      BY ClearKeeps
    <3> QED  BY <2>8, <3>1, <3>2
  <2> QED  BY <1>1, <2>4, <2>5, <2>6, <2>7, <2>8
<1>2. CASE w \in [reg : {"T1CL", "T1CH", "T1LL", "T1LH", "T2CL", "T2CH"}, data : Bytes]
  <2>1. CASE w.reg = "T1CH"
    <3>1. t = WriteT1CounterHigh(s, w.data)
      BY <2>1 DEF Written
    <3> QED  BY <1>2, <2>1, <3>1, WriteT1CHStarts DEF T1Registers
  <2>2. CASE w.reg = "T2CH"
    <3> DEFINE u == ClearIFR(s, {"T2"})
    <3>1. t = [u EXCEPT !.t2.high = w.data, !.t2.running = TRUE]
      BY <2>2 DEF Written
    <3>2. kept(t)
      BY <3>1 DEF ClearIFR, ViaType, Accessed
    <3> QED  BY <2>2, <3>2
  <2>3. CASE w.reg \in {"T1CL", "T1LL", "T1LH", "T2CL"}
    <3>1. Accessed(s, t) /\ t.acr = s.acr /\ t.out = s.out
      BY <1>2, <2>3, TimerBytesKept
    <3> QED  BY <2>3, <3>1 DEF T1Registers
  <2> QED  BY <1>2, <2>1, <2>2, <2>3
<1>3. CASE w \in [reg : {"SR"}, data : [1 .. Width -> BOOLEAN]]
  <2> DEFINE sr == [s.sr EXCEPT !.bits = w.data]
             v == [s EXCEPT !.sr = sr]
  <2>1. s.sr \in ShiftType
    BY DEF ViaType
  <2>2. /\ sr \in ShiftType
        /\ sr.pulse = s.sr.pulse /\ sr.pPulse = s.sr.pPulse /\ sr.mode = s.sr.mode
        /\ sr.shifts = s.sr.shifts /\ sr.start = s.sr.start
    BY <1>3, <2>1 DEF ShiftType
  <2>3. t = ClearIFR(StartShifting(v), {"SR"})
    BY <1>3 DEF Written
  <2> HIDE DEF sr
  <2>4. v \in ViaType /\ v.sr = sr /\ v.acr = s.acr /\ v.out = s.out /\ v.t1 = s.t1
        /\ v.in = s.in /\ v.pIn = s.pIn /\ v.latched = s.latched /\ v.IFR = s.IFR
    BY <2>2 DEF ViaType
  <2> HIDE DEF v, t
  <2>5. /\ Accessed(v, t)
        /\ t.acr = v.acr /\ t.out = v.out /\ t.t1 = v.t1
        /\ v.sr.shifts = 0 /\ v.acr.sr # 6 => t.sr.start
    BY <2>3, <2>4, StartShiftingKeeps
  <2>6. Accessed(s, t)
    BY <2>2, <2>4, <2>5 DEF Accessed
  <2> QED  BY <1>3, <2>2, <2>4, <2>5, <2>6 DEF t
<1>4. CASE w \in [reg : {"ACR"}, data : ACRs]
  <2>1. t = [s EXCEPT !.acr = w.data]
    BY <1>4 DEF Written
  <2> QED  BY <1>4, <2>1 DEF ViaType, Accessed
<1>5. CASE w \in [reg : {"PCR"}, data : PCRs]
  <2>1. t = WritePCR(s, w.data)
    BY <1>5 DEF Written
  <2> QED  BY <1>5, <2>1, WritePCRKeeps
<1>6. CASE w \in [reg : {"IER"}, data : [set : BOOLEAN, flags : SUBSET Flags]]
  <2> DEFINE IER == IF w.data.set THEN s.IER \cup w.data.flags ELSE s.IER \ w.data.flags
  <2>1. t = [s EXCEPT !.IER = IER]
    BY <1>6 DEF Written
  <2> HIDE DEF IER
  <2> QED  BY <1>6, <2>1 DEF ViaType, Accessed
<1> QED  BY <1>1, <1>2, <1>3, <1>4, <1>5, <1>6 DEF RegisterWrites

-----------------------------------------------------------------------------
(* The steps that make a cycle: Advance, and Read before it reads.          *)

Advanced(answer) ==
  LET u == Cycle(via, answer)
  IN  /\ answer \in Answers /\ setup' = setup
      /\ Accessed(u, via')
      /\ via'.acr = u.acr /\ via'.pcr = u.pcr /\ via'.out = u.out /\ via'.t1 = u.t1
      /\ hist'.op # "T1CL" => ("T1" \in via'.IFR <=> "T1" \in u.IFR)
      /\ hist'.op \in {"cycle"} \cup Registers
      /\ hist' = [AfterCycle(hist, via, u) EXCEPT !.op = hist'.op]

\* What the device at the port answers are its lines.
LEMMA AnswersType ==
  ASSUME TypeOK
  PROVE  /\ Answers \subseteq SUBSET Lines
         /\ ~setup.responsive => Answers = {via.in}
<1>1. via.in \subseteq Lines /\ setup.lines \subseteq Lines
  BY VIAAssumption DEF TypeOK, ViaType
<1> QED  BY <1>1 DEF Answers

\* What a cycle makes of the record of what CA1 has latched.
HeldAfter == IF "CA1" \in hist.seen THEN hist.seen \cap PALines ELSE hist.held
HoldingAfter(s) == /\ hist.latching /\ s.acr.latchA
                   /\ "CA1" \notin s.in
                   /\ hist.holding \/ "CA1" \in hist.seen

\* AfterCycle changes these parts of the history.
LEMMA AfterCycleShape ==
  ASSUME hist \in HistType, NEW s, NEW t
  PROVE  LET h == AfterCycle(hist, s, t)
         IN  h = [hist EXCEPT !.op = "cycle", !.shiftAge = h.shiftAge, !.fresh = FALSE,
                              !.seen = s.in, !.latching = s.acr.latchA, !.held = HeldAfter,
                              !.holding = HoldingAfter(s), !.t1Due = h.t1Due]
<1> DEFINE age == IF hist.shiftAge > 0 /\ t.sr.start THEN hist.shiftAge + 1 ELSE 0
           due == CASE hist.t1Due > 1 -> hist.t1Due - 1
                    [] hist.t1Due = 1 -> IF s.acr.t1 \in {1, 3} THEN hist.t1High * Base + hist.t1Low + 2 ELSE None
                    [] OTHER -> hist.t1Due
           h == AfterCycle(hist, s, t)
<1>1. h = [hist EXCEPT !.op = "cycle", !.shiftAge = age, !.fresh = FALSE,
                       !.seen = s.in, !.latching = s.acr.latchA, !.held = HeldAfter,
                       !.holding = HoldingAfter(s), !.t1Due = due]
  BY DEF AfterCycle, HistType, HeldAfter, HoldingAfter
<1> HIDE DEF h, age, due
<1>2. h.shiftAge = age /\ h.t1Due = due
  BY <1>1 DEF HistType
<1>3. h = [hist EXCEPT !.op = "cycle", !.shiftAge = h.shiftAge, !.fresh = FALSE,
                       !.seen = s.in, !.latching = s.acr.latchA, !.held = HeldAfter,
                       !.holding = HoldingAfter(s), !.t1Due = h.t1Due]
  BY <1>1, <1>2
<1> QED  BY <1>3 DEF h

\* Advance() is a cycle.
LEMMA AdvanceAdvances ==
  ASSUME TypeOK, hist \in HistType, Advance
  PROVE  /\ \E answer \in Answers : Advanced(answer) /\ via' = Cycle(via, answer)
         /\ hist'.op = "cycle"
<1>1. PICK answer \in Answers : via' = Cycle(via, answer)
  BY DEF Advance
<1>2. hist' = AfterCycle(hist, via, via')
  BY DEF Advance
<1> DEFINE h == AfterCycle(hist, via, via')
           age == h.shiftAge
           due == h.t1Due
<1>3. h = [hist EXCEPT !.op = "cycle", !.shiftAge = age, !.fresh = FALSE,
                       !.seen = via.in, !.latching = via.acr.latchA, !.held = HeldAfter,
                       !.holding = HoldingAfter(via), !.t1Due = due]
  BY AfterCycleShape
<1>4. hist'.op = "cycle" /\ hist' = [h EXCEPT !.op = hist'.op]
  <2> HIDE DEF h, age, due
  <2>1. h.op = "cycle" /\ [h EXCEPT !.op = "cycle"] = h
    BY <1>3 DEF HistType
  <2>2. hist' = h
    BY <1>2 DEF h
  <2> QED  BY <2>1, <2>2
<1>5. Accessed(via', via')
  BY DEF Accessed
<1>6. setup' = setup
  BY DEF Advance
<1>7. Advanced(answer)
  BY <1>1, <1>4, <1>5, <1>6 DEF Advanced
<1> QED  BY <1>1, <1>4, <1>7

\* So is a read of a register.
LEMMA ReadAdvances ==
  ASSUME TypeOK, hist \in HistType, NEW r \in setup.reads, Read(r)
  PROVE  /\ \E answer \in Answers : Advanced(answer)
         /\ hist'.op = r /\ r \in Registers
<1>1. PICK answer \in Answers :
        /\ via' = ReadByte(Cycle(via, answer), r)
        /\ hist' = [AfterCycle(hist, via, Cycle(via, answer)) EXCEPT !.op = r]
        /\ setup' = setup
  BY DEF Read
<1> DEFINE u == Cycle(via, answer)
<1>2. u \in ViaType /\ r \in Registers
  BY AnswersType, CycleType, VIAAssumption DEF TypeOK
<1>3. hist'.op = r
  BY <1>1 DEF AfterCycle, HistType
<1> HIDE DEF u
<1>4. /\ Accessed(u, via')
      /\ via'.acr = u.acr /\ via'.out = u.out /\ via'.t1 = u.t1 /\ via'.pcr = u.pcr
      /\ r # "T1CL" => ("T1" \in via'.IFR <=> "T1" \in u.IFR)
  BY <1>1, <1>2, ReadKeeps DEF u
<1>5. Advanced(answer)
  BY <1>1, <1>2, <1>3, <1>4 DEF Advanced, u
<1> QED  BY <1>2, <1>3, <1>5

\* What the history makes of it.
LEMMA HistAdvances ==
  ASSUME hist \in HistType, NEW answer, Advanced(answer)
  PROVE  /\ hist'.seen = via.in /\ hist'.latching = via.acr.latchA /\ hist'.pulse = hist.pulse
         /\ hist'.held = HeldAfter /\ hist'.holding = HoldingAfter(via)
         /\ hist'.t1Low = hist.t1Low /\ hist'.t1High = hist.t1High
         /\ hist'.shiftAge = (IF hist.shiftAge > 0 /\ Cycle(via, answer).sr.start
                              THEN hist.shiftAge + 1 ELSE 0)
         /\ hist.t1Due > 1 => hist'.t1Due = hist.t1Due - 1
         /\ hist.t1Due = 1 =>
              hist'.t1Due = IF via.acr.t1 \in {1, 3} THEN hist.t1High * Base + hist.t1Low + 2 ELSE None
         /\ ~(hist.t1Due > 1) /\ hist.t1Due # 1 => hist'.t1Due = hist.t1Due
<1> DEFINE age == IF hist.shiftAge > 0 /\ Cycle(via, answer).sr.start THEN hist.shiftAge + 1 ELSE 0
           due == CASE hist.t1Due > 1 -> hist.t1Due - 1
                    [] hist.t1Due = 1 -> IF via.acr.t1 \in {1, 3} THEN hist.t1High * Base + hist.t1Low + 2 ELSE None
                    [] OTHER -> hist.t1Due
           op == hist'.op
           held == HeldAfter
           holding == HoldingAfter(via)
           h == [hist EXCEPT !.op = op, !.shiftAge = age, !.fresh = FALSE, !.seen = via.in,
                             !.latching = via.acr.latchA, !.held = held, !.holding = holding,
                             !.t1Due = due]
<1>1. hist' = h
  <2>1. hist' = [AfterCycle(hist, via, Cycle(via, answer)) EXCEPT !.op = op]
    BY DEF Advanced
  <2>2. AfterCycle(hist, via, Cycle(via, answer)) =
          [hist EXCEPT !.op = "cycle", !.shiftAge = age, !.fresh = FALSE, !.seen = via.in,
                       !.latching = via.acr.latchA, !.held = held, !.holding = holding,
                       !.t1Due = due]
    BY DEF AfterCycle, HistType, HeldAfter, HoldingAfter
  <2> HIDE DEF age, due, op, held, holding
  <2> QED  BY <2>1, <2>2 DEF HistType
<1>2. /\ hist.t1Due > 1 => due = hist.t1Due - 1
      /\ hist.t1Due = 1 => due = IF via.acr.t1 \in {1, 3} THEN hist.t1High * Base + hist.t1Low + 2 ELSE None
      /\ ~(hist.t1Due > 1) /\ hist.t1Due # 1 => due = hist.t1Due
  BY DEF HistType
<1> HIDE DEF age, due, op, held, holding
<1>3. /\ h.seen = via.in /\ h.latching = via.acr.latchA /\ h.pulse = hist.pulse
      /\ h.held = held /\ h.holding = holding
      /\ h.t1Low = hist.t1Low /\ h.t1High = hist.t1High /\ h.shiftAge = age /\ h.t1Due = due
  BY DEF HistType
<1> HIDE DEF h
<1> QED  BY <1>1, <1>2, <1>3 DEF age, held, holding

\* A cycle keeps the history typed.
LEMMA HistTypeAdvances ==
  ASSUME TypeOK, hist \in HistType, NEW answer, Advanced(answer)
  PROVE  hist' \in HistType
<1> DEFINE h == AfterCycle(hist, via, Cycle(via, answer))
           seen == via.in
           latching == via.acr.latchA
           held == HeldAfter
           holding == HoldingAfter(via)
<1>1. h = [hist EXCEPT !.op = "cycle", !.shiftAge = h.shiftAge, !.fresh = FALSE,
                       !.seen = seen, !.latching = latching, !.held = held,
                       !.holding = holding, !.t1Due = h.t1Due]
  BY AfterCycleShape
<1>2. hist' = [h EXCEPT !.op = hist'.op]
  BY DEF Advanced
<1>4. hist'.t1Due \in Int
  <2>1. hist.t1High * Base + hist.t1Low + 2 \in Int
    BY VIAAssumption, WordRange, hist.t1High \in Bytes, hist.t1Low \in Bytes DEF HistType
  <2>2. hist.t1Due \in Int
    BY DEF HistType
  <2>3. CASE hist.t1Due > 1
    BY <2>2, <2>3, HistAdvances
  <2>4. CASE hist.t1Due = 1
    BY <2>1, <2>4, HistAdvances DEF None
  <2>5. CASE ~(hist.t1Due > 1) /\ hist.t1Due # 1
    BY <2>2, <2>5, HistAdvances
  <2> QED  BY <2>3, <2>4, <2>5
<1>5. hist'.shiftAge \in Nat
  BY HistAdvances DEF HistType
<1>6. /\ seen \in SUBSET Lines /\ latching \in BOOLEAN
      /\ held \in SUBSET Lines /\ holding \in BOOLEAN
  <2>1. seen \in SUBSET Lines /\ latching \in BOOLEAN
    BY DEF TypeOK, ViaType, ACRs
  <2>2. held \in SUBSET Lines
    BY DEF HistType, HeldAfter
  <2>3. holding \in BOOLEAN
    BY DEF HoldingAfter
  <2> QED  BY <2>1, <2>2, <2>3
<1>7. hist'.op \in {"cycle"} \cup Registers
  BY DEF Advanced
<1> DEFINE op == hist'.op
           due == hist'.t1Due
           age == hist'.shiftAge
<1>8. due \in Int /\ age \in Nat /\ op \in {"reset", "cycle", "write", "input"} \cup Registers
  BY <1>4, <1>5, <1>7
<1>9. hist' = [hist EXCEPT !.op = op, !.fresh = FALSE, !.seen = seen,
                           !.latching = latching, !.held = held, !.holding = holding,
                           !.t1Due = due, !.shiftAge = age]
  <2> HIDE DEF seen, latching, held, holding, h
  <2>1. due = h.t1Due /\ age = h.shiftAge
    BY <1>1, <1>2 DEF HistType
  <2>2. hist' = [h EXCEPT !.op = op]
    BY <1>2
  <2>3. h = [hist EXCEPT !.op = "cycle", !.shiftAge = age, !.fresh = FALSE,
                         !.seen = seen, !.latching = latching, !.held = held,
                         !.holding = holding, !.t1Due = due]
    BY <1>1, <2>1
  <2> HIDE DEF op, age, due
  <2> QED  BY <2>2, <2>3 DEF HistType
<1> HIDE DEF op, seen, latching, held, holding, due, age
<1>10. [hist EXCEPT !.op = op, !.fresh = FALSE, !.seen = seen,
                    !.latching = latching, !.held = held, !.holding = holding,
                    !.t1Due = due, !.shiftAge = age] \in HistType
  BY ONLY <1>6, <1>8, hist \in HistType, FALSE \in BOOLEAN DEF HistType
<1> QED  BY <1>9, <1>10

-----------------------------------------------------------------------------
(* What the history makes of a write.                                      *)

\* Where a write to SR begins a byte that is shifted in at phi2 rate.
Begins(w) == w.reg = "SR" /\ via.acr.sr = 2 /\ ~via.sr.start /\ via.sr.shifts = 0

\* Where a write ends a pulse, as the documentation tells it, or leaves that open.
EndsPulse(w) == w.reg \in {"T1CL", "ACR"} \/ (w.reg = "ORB" /\ "PB7" \in via.ddr)

\* A write keeps the history typed and records what is written.
LEMMA HistWrites ==
  ASSUME TypeOK, hist \in HistType, NEW w \in RegisterWrites, Write(w), via' \in ViaType
  PROVE  /\ hist' \in HistType /\ hist'.op = "write"
         /\ hist'.seen = hist.seen /\ hist'.latching = hist.latching
         /\ hist'.held = hist.held /\ hist'.holding = hist.holding
         /\ hist'.t1Low = (IF w.reg \in {"T1CL", "T1LL"} THEN w.data ELSE hist.t1Low)
         /\ hist'.t1High = (IF w.reg \in {"T1CH", "T1LH"} THEN w.data ELSE hist.t1High)
         /\ w.reg = "T1CH" => hist'.t1Due = via'.t1.counter + 1
         /\ w.reg = "T1CL" => hist'.t1Due = (IF hist.t1Due # None THEN Unknown ELSE hist.t1Due)
         /\ w.reg \notin {"T1CH", "T1CL"} => hist'.t1Due = hist.t1Due
         /\ w.reg = "ACR" => hist'.shiftAge = 0
         /\ Begins(w) => hist'.shiftAge = 1
         /\ w.reg # "ACR" /\ ~Begins(w) => hist'.shiftAge = hist.shiftAge
         /\ w.reg = "T1CH" => (hist'.pulse <=> via.acr.t1 = 2)
         /\ EndsPulse(w) => ~hist'.pulse
         /\ w.reg # "T1CH" /\ ~EndsPulse(w) => hist'.pulse = hist.pulse
<1> DEFINE low == IF w.reg \in {"T1CL", "T1LL"} THEN w.data ELSE hist.t1Low
           high == IF w.reg \in {"T1CH", "T1LH"} THEN w.data ELSE hist.t1High
           due == CASE w.reg = "T1CH" -> via'.t1.counter + 1
                    [] w.reg = "T1CL" /\ hist.t1Due # None -> Unknown
                    [] OTHER -> hist.t1Due
           age == CASE w.reg = "SR" /\ via.acr.sr = 2 /\ ~via.sr.start /\ via.sr.shifts = 0 -> 1
                    [] w.reg = "ACR" -> 0
                    [] OTHER -> hist.shiftAge
           pulse == CASE w.reg = "T1CH" -> via.acr.t1 = 2
                      [] w.reg \in {"T1CL", "ACR"} -> FALSE
                      [] w.reg = "ORB" /\ "PB7" \in via.ddr -> FALSE
                      [] OTHER -> hist.pulse
           h == [hist EXCEPT !.op = "write", !.fresh = FALSE, !.t1Low = low, !.t1High = high,
                             !.t1Due = due, !.shiftAge = age, !.pulse = pulse]
<1>1. hist' = h
  BY DEF Write, AfterWrite
<1>2. low \in Bytes /\ high \in Bytes
  <2>1. w.reg \in {"T1CL", "T1LL", "T1CH", "T1LH"} => w.data \in Bytes
    BY DEF RegisterWrites
  <2> QED  BY <2>1 DEF HistType
<1>3. due \in Int
  BY DEF HistType, ViaType, Timer1Type, Unknown
<1>4. age \in Nat
  BY DEF HistType
<1>5. /\ w.reg = "T1CH" => due = via'.t1.counter + 1
      /\ w.reg = "T1CL" => due = (IF hist.t1Due # None THEN Unknown ELSE hist.t1Due)
      /\ w.reg \notin {"T1CH", "T1CL"} => due = hist.t1Due
  OBVIOUS
<1>6. /\ w.reg = "ACR" => age = 0
      /\ Begins(w) => age = 1
      /\ w.reg # "ACR" /\ ~Begins(w) => age = hist.shiftAge
  BY DEF Begins
<1>7. /\ w.reg = "T1CH" => (pulse <=> via.acr.t1 = 2)
      /\ EndsPulse(w) => ~pulse
      /\ w.reg # "T1CH" /\ ~EndsPulse(w) => pulse = hist.pulse
      /\ pulse \in BOOLEAN
  <2>1. hist.pulse \in BOOLEAN /\ (via.acr.t1 = 2) \in BOOLEAN
    BY DEF HistType
  <2>2. CASE w.reg = "T1CH"
    BY <2>1, <2>2 DEF EndsPulse
  <2>3. CASE EndsPulse(w)
    BY <2>1, <2>3 DEF EndsPulse
  <2>4. CASE w.reg # "T1CH" /\ ~EndsPulse(w)
    BY <2>1, <2>4 DEF EndsPulse
  <2> QED  BY <2>2, <2>3, <2>4
<1> HIDE DEF low, high, due, age, pulse
<1>8. h \in HistType
  BY <1>2, <1>3, <1>4, <1>7 DEF HistType
<1>9. /\ h.op = "write" /\ h.seen = hist.seen /\ h.latching = hist.latching
      /\ h.held = hist.held /\ h.holding = hist.holding
      /\ h.t1Low = low /\ h.t1High = high /\ h.t1Due = due /\ h.shiftAge = age /\ h.pulse = pulse
  BY DEF HistType
<1> HIDE DEF h
<1>10. /\ w.reg = "T1CH" => (hist'.pulse <=> via.acr.t1 = 2)
       /\ EndsPulse(w) => ~hist'.pulse
       /\ w.reg # "T1CH" /\ ~EndsPulse(w) => hist'.pulse = hist.pulse
  BY <1>1, <1>7, <1>9
<1> QED  BY <1>1, <1>5, <1>6, <1>8, <1>9, <1>10 DEF low, high

\* The chip after a write: the access, and the IRQ output.
LEMMA ChipWrites ==
  ASSUME TypeOK, NEW w \in RegisterWrites, Write(w)
  PROVE  LET t == Written(via, w.reg, w.data)
         IN  /\ t \in ViaType /\ via' \in ViaType
             /\ Accessed(via, via')
             /\ via'.acr = t.acr /\ via'.t1 = t.t1 /\ via'.out = t.out
             /\ via'.sr.start = t.sr.start
<1> DEFINE t == Written(via, w.reg, w.data)
<1>1. t \in ViaType /\ Accessed(via, t)
  BY WrittenType, WrittenKeeps DEF TypeOK
<1>2. via' = UpdateIRQ(t)
  BY DEF Write, WriteByte
<1> HIDE DEF t
<1>3. via' \in ViaType
  BY <1>1, <1>2, UpdateIRQType
<1>4. /\ via'.in = t.in /\ via'.pIn = t.pIn /\ via'.latched = t.latched /\ via'.IFR = t.IFR
      /\ via'.sr = t.sr /\ via'.acr = t.acr /\ via'.out = t.out /\ via'.t1 = t.t1
  BY <1>1, <1>2, UpdateIRQKeeps
<1>5. Accessed(via, via')
  BY <1>1, <1>4 DEF Accessed
<1> QED  BY <1>1, <1>3, <1>4, <1>5 DEF t

-----------------------------------------------------------------------------
(* The invariant.                                                          *)

\* Counting shifts, without the remainder.
LEMMA OneShiftMore ==
  ASSUME NEW n \in 0 .. Width - 1
  PROVE  (n + 1) % Width = IF n = Width - 1 THEN 0 ELSE n + 1
<1> USE VIAAssumption
<1>1. CASE n = Width - 1
  <2>1. n + 1 = Width /\ Width % Width = 0
    BY <1>1, SMTT(30)
  <2> QED  BY <1>1, <2>1
<1>2. CASE n # Width - 1
  BY <1>2, n + 1 \in 0 .. Width - 1, SMTT(30)
<1> QED  BY <1>1, <1>2

\* A cycle keeps every part of the invariant.
LEMMA CycleInv ==
  ASSUME IInv, NEW answer \in Answers, Advanced(answer)
  PROVE  SeenInv' /\ LatchInv' /\ PulseInv' /\ T1Inv' /\ PB7Inv' /\ ShiftInv'
<1> DEFINE u == Cycle(via, answer)
<1>1. via \in ViaType /\ answer \in SUBSET Lines /\ (~setup.responsive => answer = via.in)
  BY AnswersType DEF IInv, TypeOK
<1>2. /\ hist'.seen = via.in /\ hist'.latching = via.acr.latchA /\ hist'.pulse = hist.pulse
      /\ hist'.held = HeldAfter /\ hist'.holding = HoldingAfter(via)
      /\ hist'.t1Low = hist.t1Low /\ hist'.t1High = hist.t1High
      /\ hist'.shiftAge = (IF hist.shiftAge > 0 /\ u.sr.start THEN hist.shiftAge + 1 ELSE 0)
      /\ hist.t1Due > 1 => hist'.t1Due = hist.t1Due - 1
      /\ hist.t1Due = 1 =>
           hist'.t1Due = IF via.acr.t1 \in {1, 3} THEN hist.t1High * Base + hist.t1Low + 2 ELSE None
      /\ ~(hist.t1Due > 1) /\ hist.t1Due # 1 => hist'.t1Due = hist.t1Due
  BY HistAdvances DEF IInv
<1>3. /\ setup' = setup /\ Accessed(u, via')
      /\ via'.acr = u.acr /\ via'.pcr = u.pcr /\ via'.out = u.out /\ via'.t1 = u.t1
  BY DEF Advanced
<1>4. /\ u.acr = via.acr /\ u.in \in {via.in, answer} /\ u.pIn = u.in
      /\ u.latched \cap PALines =
           (IF via.acr.latchA /\ "CA1" \in via.in THEN via.in ELSE via.latched) \cap PALines
      /\ u.sr.pPulse = u.sr.pulse
  BY <1>1, CycleLines
<1>5. /\ hist.t1Due \in Int /\ hist.shiftAge \in Nat
      /\ hist.t1High * Base + hist.t1Low \in Nat
  <2>1. hist.t1High \in Bytes /\ hist.t1Low \in Bytes
    BY DEF IInv, HistType
  <2>2. hist.t1High * Base + hist.t1Low \in 0 .. Base * Base - 1
    BY <2>1, WordRange
  <2> QED  BY <2>2 DEF IInv, HistType
<1>6. CyclesLeft(via) \in Int /\ CyclesLeft(via') = CyclesLeft(u)
  <2>1. via.t1.counter \in Int
    BY <1>1 DEF ViaType, Timer1Type
  <2> QED  BY <1>3, <2>1 DEF CyclesLeft
<1>7. /\ u.t1.low = via.t1.low /\ u.t1.high = via.t1.high
      /\ ~via.t1.running => ~u.t1.running
      /\ ~via.t1.running \/ CyclesLeft(via) > 1 => ("PB7" \in u.out <=> "PB7" \in via.out)
      /\ via.t1.running /\ CyclesLeft(via) > 1 =>
           u.t1.running /\ u.t1.first = via.t1.first /\ CyclesLeft(u) = CyclesLeft(via) - 1
      /\ via.t1.running /\ CyclesLeft(via) <= 1 =>
           /\ u.t1.running <=> via.acr.t1 \in {1, 3}
           /\ via.acr.t1 \in {1, 3} => CyclesLeft(u) = via.t1.high * Base + via.t1.low + 2
           /\ via.acr.t1 = 2 => "PB7" \in u.out
  BY <1>1, CycleT1
<1> HIDE DEF u
<1>8. SeenInv'
  BY <1>1, <1>2, <1>3, <1>4 DEF SeenInv, Accessed
<1>9. LatchInv'
  <2>1. via'.latched = u.latched
    BY <1>3 DEF Accessed
  <2>2. /\ hist.latching /\ "CA1" \in hist.seen => via.latched \cap PALines = hist.seen \cap PALines
        /\ hist.holding => via.latched \cap PALines = hist.held
    BY DEF IInv, LatchInv, LatchedAtEdge
  <2>3. hist'.latching /\ "CA1" \in hist'.seen => via'.latched \cap PALines = hist'.seen \cap PALines
    BY <1>2, <1>4, <2>1
  <2>4. ASSUME hist'.holding  PROVE via'.latched \cap PALines = hist'.held
    <3>1. /\ hist.latching /\ via.acr.latchA /\ "CA1" \notin via.in
          /\ hist.holding \/ "CA1" \in hist.seen
      BY <1>2, <2>4 DEF HoldingAfter
    <3>2. via'.latched \cap PALines = via.latched \cap PALines
      BY <1>4, <2>1, <3>1
    <3>3. CASE "CA1" \in hist.seen
      BY <1>2, <2>2, <3>1, <3>2, <3>3 DEF HeldAfter
    <3>4. CASE "CA1" \notin hist.seen
      BY <1>2, <2>2, <3>1, <3>2, <3>4 DEF HeldAfter
    <3> QED  BY <3>3, <3>4
  <2> QED  BY <2>3, <2>4 DEF LatchInv, LatchedAtEdge
<1>10. PulseInv'
  BY <1>3, <1>4 DEF PulseInv, Accessed
<1>11. T1Inv'
  <2> SUFFICES ASSUME LatchesKept PROVE T1Inv'
    BY <1>3 DEF T1Inv, LatchesKept
  <2>1. /\ via.t1.low = hist.t1Low /\ via.t1.high = hist.t1High
        /\ hist.t1Due # Unknown =>
             /\ via.t1.running <=> hist.t1Due > 0
             /\ hist.t1Due > 0 => hist.t1Due = CyclesLeft(via)
    BY DEF IInv, T1Inv
  <2>2. via'.t1.low = hist'.t1Low /\ via'.t1.high = hist'.t1High
    BY <1>2, <1>3, <1>7, <2>1
  <2>3. ASSUME hist'.t1Due # Unknown
        PROVE  /\ via'.t1.running <=> hist'.t1Due > 0
               /\ hist'.t1Due > 0 => hist'.t1Due = CyclesLeft(via')
    <3>1. CASE hist.t1Due > 1
      BY <1>2, <1>3, <1>5, <1>6, <1>7, <2>1, <3>1 DEF Unknown
    <3>2. CASE hist.t1Due = 1
      BY <1>2, <1>3, <1>5, <1>6, <1>7, <2>1, <3>2 DEF Unknown, None
    <3>3. CASE ~(hist.t1Due > 1) /\ hist.t1Due # 1
      BY <1>2, <1>3, <1>5, <1>6, <1>7, <2>1, <2>3, <3>3 DEF Unknown
    <3> QED  BY <3>1, <3>2, <3>3
  <2> QED  BY <2>2, <2>3 DEF T1Inv
<1>12. PB7Inv'
  <2> SUFFICES ASSUME hist.pulse PROVE PB7Inv'
    BY <1>2 DEF PB7Inv
  <2>1. /\ via.acr.t1 = 2 /\ hist.t1Due # Unknown
        /\ via.t1.running <=> hist.t1Due > 0
        /\ hist.t1Due > 0 => hist.t1Due = CyclesLeft(via) /\ via.t1.first
        /\ "PB7" \notin via.out <=> hist.t1Due > 0
    BY DEF IInv, PB7Inv
  <2>2. via'.acr.t1 = 2
    BY <1>3, <1>4, <2>1
  <2>3. /\ hist'.t1Due # Unknown
        /\ via'.t1.running <=> hist'.t1Due > 0
        /\ hist'.t1Due > 0 => hist'.t1Due = CyclesLeft(via') /\ via'.t1.first
        /\ "PB7" \notin via'.out <=> hist'.t1Due > 0
    <3>1. CASE hist.t1Due > 1
      BY <1>2, <1>3, <1>5, <1>6, <1>7, <2>1, <3>1 DEF Unknown
    <3>2. CASE hist.t1Due = 1
      BY <1>2, <1>3, <1>5, <1>6, <1>7, <2>1, <3>2 DEF Unknown, None
    <3>3. CASE ~(hist.t1Due > 1) /\ hist.t1Due # 1
      BY <1>2, <1>3, <1>5, <1>6, <1>7, <2>1, <3>3 DEF Unknown
    <3> QED  BY <3>1, <3>2, <3>3
  <2> QED  BY <2>2, <2>3 DEF PB7Inv
<1>13. ShiftInv'
  <2> SUFFICES ASSUME hist.shiftAge > 0, u.sr.start PROVE ShiftInv'
    BY <1>2, <1>5 DEF ShiftInv
  <2>1. /\ via.acr.sr = 2 /\ via.sr.start
        /\ via.sr.mode # 2 => via.sr.shifts = 0
        /\ 2 * via.sr.shifts \in (IF via.sr.pulse THEN {hist.shiftAge - 1, hist.shiftAge}
                                  ELSE {hist.shiftAge - 1, hist.shiftAge - 2})
        /\ via.sr.pPulse = via.sr.pulse
    BY DEF IInv, ShiftInv, PulseInv
  <2>2. /\ u.sr.pulse <=> ~via.sr.pulse
        /\ u.sr.mode = 2
        /\ via.sr.pulse => u.sr.shifts = via.sr.shifts
        /\ ~via.sr.pulse =>
             /\ u.sr.shifts = (via.sr.shifts + 1) % Width
             /\ u.sr.start <=> u.sr.shifts # 0
    BY <1>1, <2>1, CycleShift DEF u
  <2>3. via.sr.shifts \in 0 .. Width - 1 /\ Width \in Nat
    BY <1>1, VIAAssumption DEF ViaType, ShiftType
  <2>4. ~via.sr.pulse => u.sr.shifts = via.sr.shifts + 1
    BY <2>2, <2>3, OneShiftMore
  <2>5. /\ via'.sr.pulse = u.sr.pulse /\ via'.sr.shifts = u.sr.shifts /\ via'.sr.mode = 2
        /\ via'.sr.start /\ via'.acr.sr = 2
    BY <1>3, <1>4, <2>1, <2>2 DEF Accessed
  <2>6. hist'.shiftAge = hist.shiftAge + 1
    BY <1>2
  <2>7. 2 * via'.sr.shifts \in (IF via'.sr.pulse THEN {hist'.shiftAge - 1, hist'.shiftAge}
                                ELSE {hist'.shiftAge - 1, hist'.shiftAge - 2})
    <3>1. CASE via.sr.pulse
      BY <1>5, <2>1, <2>2, <2>3, <2>5, <2>6, <3>1
    <3>2. CASE ~via.sr.pulse
      <4>1. 2 * via.sr.shifts \in {hist.shiftAge - 1, hist.shiftAge - 2}
        BY <2>1, <3>2
      <4>2. via'.sr.pulse /\ via'.sr.shifts = via.sr.shifts + 1
        BY <2>2, <2>4, <2>5, <3>2
      <4>3. 2 * via'.sr.shifts \in {hist'.shiftAge - 1, hist'.shiftAge}
        BY <1>5, <2>3, <2>6, <4>1, <4>2
      <4> QED  BY <4>2, <4>3
    <3> QED  BY <3>1, <3>2
  <2> QED  BY <2>5, <2>7 DEF ShiftInv
<1> QED  BY <1>8, <1>9, <1>10, <1>11, <1>12, <1>13

\* A write keeps every part of the invariant.
LEMMA WriteInv ==
  ASSUME IInv, NEW w \in setup.writes, Write(w)
  PROVE  SeenInv' /\ LatchInv' /\ PulseInv' /\ T1Inv' /\ PB7Inv' /\ ShiftInv'
<1> DEFINE t == Written(via, w.reg, w.data)
<1>1. /\ TypeOK /\ hist \in HistType /\ via \in ViaType /\ w \in RegisterWrites /\ setup' = setup
  BY VIAAssumption DEF IInv, TypeOK, Write
<1>2. /\ via' \in ViaType /\ Accessed(via, via')
      /\ via'.acr = t.acr /\ via'.t1 = t.t1 /\ via'.out = t.out /\ via'.sr.start = t.sr.start
  BY <1>1, ChipWrites
<1>3. /\ w.reg # "ACR" => t.acr = via.acr
      /\ w.reg \notin T1Registers => t.t1 = via.t1
      /\ w.reg # "T1CH" /\ ~(w.reg = "ORB" /\ "PB7" \in via.ddr) =>
           ("PB7" \in t.out <=> "PB7" \in via.out)
      /\ w.reg = "SR" /\ via.sr.shifts = 0 /\ via.acr.sr # 6 => t.sr.start
  BY <1>1, WrittenKeeps
<1>4. /\ hist'.seen = hist.seen /\ hist'.latching = hist.latching
      /\ hist'.held = hist.held /\ hist'.holding = hist.holding
      /\ hist'.t1Low = (IF w.reg \in {"T1CL", "T1LL"} THEN w.data ELSE hist.t1Low)
      /\ hist'.t1High = (IF w.reg \in {"T1CH", "T1LH"} THEN w.data ELSE hist.t1High)
      /\ w.reg = "T1CH" => hist'.t1Due = via'.t1.counter + 1
      /\ w.reg = "T1CL" => hist'.t1Due = (IF hist.t1Due # None THEN Unknown ELSE hist.t1Due)
      /\ w.reg \notin {"T1CH", "T1CL"} => hist'.t1Due = hist.t1Due
      /\ w.reg = "ACR" => hist'.shiftAge = 0
      /\ Begins(w) => hist'.shiftAge = 1
      /\ w.reg # "ACR" /\ ~Begins(w) => hist'.shiftAge = hist.shiftAge
      /\ w.reg = "T1CH" => (hist'.pulse <=> via.acr.t1 = 2)
      /\ EndsPulse(w) => ~hist'.pulse
      /\ w.reg # "T1CH" /\ ~EndsPulse(w) => hist'.pulse = hist.pulse
  BY <1>1, <1>2, HistWrites
<1>5. w.reg \in {"T1CL", "T1LL", "T1LH", "T2CL"} =>
        /\ t.t1.running = via.t1.running /\ t.t1.first = via.t1.first
        /\ t.t1.high = (IF w.reg = "T1LH" THEN w.data ELSE via.t1.high)
        /\ t.t1.low = (IF w.reg = "T1LH" THEN via.t1.low ELSE w.data)
        /\ w.reg # "T1CL" => t.t1.counter = via.t1.counter
  <2>1. w.reg \in {"T1CL", "T1LL", "T1LH", "T2CL"} => w.data \in Bytes
    BY <1>1 DEF RegisterWrites
  <2> QED  BY <1>1, <2>1, TimerBytesKept
<1>6. w.reg = "T1CH" =>
        /\ t.t1.high = w.data /\ t.t1.low = via.t1.low
        /\ t.t1.running /\ t.t1.first /\ t.t1.counter \in Nat
        /\ via.acr.t1 = 2 => "PB7" \notin t.out
  <2> SUFFICES ASSUME w.reg = "T1CH"
               PROVE  /\ t.t1.high = w.data /\ t.t1.low = via.t1.low
                      /\ t.t1.running /\ t.t1.first /\ t.t1.counter \in Nat
                      /\ via.acr.t1 = 2 => "PB7" \notin t.out
    OBVIOUS
  <2>1. w.data \in Bytes
    BY <1>1 DEF RegisterWrites
  <2>2. t = WriteT1CounterHigh(via, w.data)
    BY DEF Written
  <2> QED  BY <1>1, <2>1, <2>2, WriteT1CHStarts
<1>7. w.reg = "T1CH" => CyclesLeft(via') = hist'.t1Due /\ hist'.t1Due > 0 /\ hist'.t1Due # Unknown
  BY <1>2, <1>4, <1>6 DEF CyclesLeft, Unknown
<1>8. w.reg \notin {"T1CH", "T1CL"} =>
        /\ CyclesLeft(via') = CyclesLeft(via)
        /\ via'.t1.running = via.t1.running /\ via'.t1.first = via.t1.first
  BY <1>2, <1>3, <1>5 DEF CyclesLeft, T1Registers
<1> HIDE DEF t
<1>9. SeenInv' /\ LatchInv' /\ PulseInv'
  BY <1>1, <1>2, <1>4 DEF IInv, SeenInv, LatchInv, LatchedAtEdge, PulseInv, Accessed
<1>10. T1Inv'
  <2> SUFFICES ASSUME LatchesKept PROVE T1Inv'
    BY <1>1 DEF T1Inv, LatchesKept
  <2>1. w.reg # "T2CL"
    BY DEF LatchesKept
  <2>2. /\ via.t1.low = hist.t1Low /\ via.t1.high = hist.t1High
        /\ hist.t1Due # Unknown =>
             /\ via.t1.running <=> hist.t1Due > 0
             /\ hist.t1Due > 0 => hist.t1Due = CyclesLeft(via)
    BY DEF IInv, T1Inv
  <2>3. via'.t1.low = hist'.t1Low /\ via'.t1.high = hist'.t1High
    BY <1>2, <1>3, <1>4, <1>5, <1>6, <2>1, <2>2 DEF T1Registers
  <2>4. hist'.t1Due # Unknown =>
          /\ via'.t1.running <=> hist'.t1Due > 0
          /\ hist'.t1Due > 0 => hist'.t1Due = CyclesLeft(via')
    <3>1. CASE w.reg = "T1CH"
      BY <1>2, <1>6, <1>7, <3>1
    <3>2. CASE w.reg = "T1CL"
      BY <1>2, <1>4, <1>5, <2>2, <3>2 DEF None, Unknown
    <3>3. CASE w.reg \notin {"T1CH", "T1CL"}
      BY <1>4, <1>8, <2>2, <3>3
    <3> QED  BY <3>1, <3>2, <3>3
  <2> QED  BY <2>3, <2>4 DEF T1Inv
<1>11. PB7Inv'
  <2> SUFFICES ASSUME hist'.pulse PROVE PB7Inv'
    BY DEF PB7Inv
  <2>1. CASE w.reg = "T1CH"
    <3>1. via'.acr.t1 = 2 /\ "PB7" \notin via'.out
      BY <1>2, <1>3, <1>4, <1>6, <2>1
    <3> QED  BY <1>2, <1>6, <1>7, <2>1, <3>1 DEF PB7Inv
  <2>2. CASE w.reg # "T1CH"
    <3>1. ~EndsPulse(w) /\ hist.pulse /\ w.reg \notin {"T1CH", "T1CL"}
      BY <1>4, <2>2 DEF EndsPulse
    <3>2. /\ via.acr.t1 = 2 /\ hist.t1Due # Unknown
          /\ via.t1.running <=> hist.t1Due > 0
          /\ hist.t1Due > 0 => hist.t1Due = CyclesLeft(via) /\ via.t1.first
          /\ "PB7" \notin via.out <=> hist.t1Due > 0
      BY <3>1 DEF IInv, PB7Inv
    <3>3. /\ via'.acr = via.acr /\ hist'.t1Due = hist.t1Due
          /\ "PB7" \in via'.out <=> "PB7" \in via.out
      BY <1>2, <1>3, <1>4, <3>1 DEF EndsPulse
    <3> QED  BY <1>8, <3>1, <3>2, <3>3 DEF PB7Inv
  <2> QED  BY <2>1, <2>2
<1>12. ShiftInv'
  <2> SUFFICES ASSUME hist'.shiftAge > 0 PROVE ShiftInv'
    BY DEF ShiftInv
  <2>1. w.reg # "ACR" /\ via'.acr = via.acr
    BY <1>2, <1>3, <1>4
  <2>2. /\ via'.sr.pulse = via.sr.pulse /\ via'.sr.mode = via.sr.mode
        /\ via'.sr.shifts = via.sr.shifts /\ (via.sr.start => via'.sr.start)
    BY <1>2 DEF Accessed
  <2>3. CASE Begins(w)
    <3>1. hist'.shiftAge = 1 /\ via.acr.sr = 2 /\ via.sr.shifts = 0 /\ via'.sr.start
      BY <1>2, <1>3, <1>4, <2>3 DEF Begins
    <3> QED  BY <2>1, <2>2, <3>1 DEF ShiftInv
  <2>4. CASE ~Begins(w)
    <3>1. hist'.shiftAge = hist.shiftAge
      BY <1>4, <2>1, <2>4
    <3>2. /\ via.acr.sr = 2 /\ via.sr.start
          /\ via.sr.mode # 2 => via.sr.shifts = 0
          /\ 2 * via.sr.shifts \in (IF via.sr.pulse THEN {hist.shiftAge - 1, hist.shiftAge}
                                    ELSE {hist.shiftAge - 1, hist.shiftAge - 2})
      BY <3>1 DEF IInv, ShiftInv
    <3> QED  BY <2>1, <2>2, <3>1, <3>2 DEF ShiftInv
  <2> QED  BY <2>3, <2>4
<1> QED  BY <1>9, <1>10, <1>11, <1>12

\* A reset and the movement of an input leave the counters and the history's view of
\* them alone.
LEMMA ResetInv ==
  ASSUME IInv, Reset
  PROVE  /\ hist' \in HistType
         /\ SeenInv' /\ LatchInv' /\ PulseInv' /\ T1Inv' /\ PB7Inv' /\ ShiftInv'
<1> DEFINE sr == [via.sr EXCEPT !.bits = [i \in 1 .. Width |-> FALSE]]
<1>1. via \in ViaType /\ via.sr \in ShiftType /\ hist \in HistType /\ setup' = setup
  BY DEF IInv, TypeOK, ViaType, Reset
<1>2. /\ via'.pIn = via.pIn /\ via'.latched = via.latched /\ via'.t1 = via.t1 /\ via'.sr = sr
      /\ via'.IFR = {}
  BY <1>1 DEF Reset, ResetState, ViaType
<1>3. sr.pulse = via.sr.pulse /\ sr.pPulse = via.sr.pPulse
  BY <1>1 DEF ShiftType
<1> HIDE DEF sr
<1>4. hist' = [hist EXCEPT !.op = "reset", !.fresh = TRUE, !.pulse = FALSE, !.shiftAge = 0]
  BY DEF Reset
<1>5. /\ hist' \in HistType /\ ~hist'.pulse /\ hist'.shiftAge = 0
      /\ hist'.seen = hist.seen /\ hist'.latching = hist.latching
      /\ hist'.held = hist.held /\ hist'.holding = hist.holding
      /\ hist'.t1Low = hist.t1Low /\ hist'.t1High = hist.t1High /\ hist'.t1Due = hist.t1Due
  BY <1>1, <1>4 DEF HistType
<1>6. SeenInv' /\ LatchInv' /\ PulseInv'
  BY <1>1, <1>2, <1>3, <1>5 DEF IInv, SeenInv, LatchInv, LatchedAtEdge, PulseInv
<1>7. T1Inv'
  <2>1. CyclesLeft(via') = CyclesLeft(via) /\ (LatchesKept' <=> LatchesKept)
    BY <1>1, <1>2 DEF CyclesLeft, LatchesKept
  <2> QED  BY <1>2, <1>5, <2>1 DEF IInv, T1Inv
<1> QED  BY <1>5, <1>6, <1>7 DEF PB7Inv, ShiftInv

\* An input keeps every part of the invariant.
LEMMA InputInv ==
  ASSUME IInv, NEW l \in setup.lines, Input(l)
  PROVE  /\ hist' \in HistType /\ via'.IFR = via.IFR /\ hist'.op = "input"
         /\ SeenInv' /\ LatchInv' /\ PulseInv' /\ T1Inv' /\ PB7Inv' /\ ShiftInv'
<1> DEFINE in == WithLine(via.in, l, l \notin via.in)
<1>1. via \in ViaType /\ hist \in HistType /\ setup' = setup
  BY DEF IInv, TypeOK, Input
<1>2. via' = [via EXCEPT !.in = in]
  BY DEF Input
<1> HIDE DEF in
<1>3. /\ via'.pIn = via.pIn /\ via'.latched = via.latched /\ via'.t1 = via.t1
      /\ via'.sr = via.sr /\ via'.acr = via.acr /\ via'.out = via.out /\ via'.IFR = via.IFR
  BY <1>1, <1>2 DEF ViaType
<1>4. hist' = [hist EXCEPT !.op = "input"]
  BY DEF Input
<1>5. /\ hist' \in HistType /\ hist'.op = "input"
      /\ hist'.seen = hist.seen /\ hist'.latching = hist.latching
      /\ hist'.held = hist.held /\ hist'.holding = hist.holding
      /\ hist'.t1Low = hist.t1Low /\ hist'.t1High = hist.t1High /\ hist'.t1Due = hist.t1Due
      /\ hist'.pulse = hist.pulse /\ hist'.shiftAge = hist.shiftAge
  BY <1>1, <1>4 DEF HistType
<1>6. CyclesLeft(via') = CyclesLeft(via) /\ (LatchesKept' <=> LatchesKept)
  BY <1>1, <1>3 DEF CyclesLeft, LatchesKept
<1>7. SeenInv' /\ LatchInv' /\ PulseInv'
  BY <1>1, <1>3, <1>5 DEF IInv, SeenInv, LatchInv, LatchedAtEdge, PulseInv
<1>8. T1Inv' /\ PB7Inv'
  BY <1>3, <1>5, <1>6 DEF IInv, T1Inv, PB7Inv
<1>9. ShiftInv'
  BY <1>3, <1>5 DEF IInv, ShiftInv
<1> QED  BY <1>3, <1>5, <1>7, <1>8, <1>9

\* The invariant holds at the start.
LEMMA InitInv == Init => IInv
<1> SUFFICES ASSUME Init PROVE IInv
  OBVIOUS
<1>1. TypeOK /\ IrqFollowsFlags
  BY InitChip DEF ChipInv
<1>2. hist = [op |-> "reset", fresh |-> TRUE, seen |-> Lines, t1Due |-> None,
              t1Low |-> 0, t1High |-> 0, pulse |-> FALSE, shiftAge |-> 0, latching |-> FALSE,
              held |-> {}, holding |-> FALSE]
  BY DEF Init
<1>3. hist \in HistType
  BY <1>2, VIAAssumption DEF HistType, Bytes, None
<1>4. PICK in \in SUBSET setup.lines :
        via = [IFR |-> {}, IER |-> {}, irq |-> FALSE, ddr |-> {},
               acr |-> [t1 |-> 0, t2 |-> 0, sr |-> 0, latchA |-> FALSE, latchB |-> FALSE],
               pcr |-> [l \in ControlLines |-> 0],
               in |-> in, pIn |-> Lines, now |-> in, out |-> Lines,
               latched |-> PALines \cup PBLines,
               t1 |-> [counter |-> 0, high |-> 0, low |-> 0, lowWritten |-> FALSE,
                       running |-> FALSE, first |-> FALSE],
               t2 |-> [counter |-> 0, previous |-> 0, high |-> 0, running |-> FALSE],
               sr |-> [bits |-> [i \in 1 .. Width |-> FALSE], shifts |-> 0, start |-> FALSE,
                       pulse |-> FALSE, pPulse |-> FALSE, interrupt |-> FALSE,
                       generate |-> FALSE, mode |-> 0]]
  BY DEF Init
<1>5. /\ via.pIn = Lines /\ via.sr.pPulse = via.sr.pulse
      /\ via.t1.low = 0 /\ via.t1.high = 0 /\ via.t1.running = FALSE
  BY <1>4
<1>6. /\ hist.seen = Lines /\ ~hist.latching /\ ~hist.holding /\ ~hist.pulse /\ hist.shiftAge = 0
      /\ hist.t1Low = 0 /\ hist.t1High = 0 /\ hist.t1Due = None
  BY <1>2
<1>7. SeenInv /\ LatchInv /\ PulseInv /\ T1Inv /\ PB7Inv /\ ShiftInv
  BY <1>5, <1>6 DEF SeenInv, LatchInv, LatchedAtEdge, PulseInv, T1Inv, PB7Inv, ShiftInv, None
<1> QED  BY <1>1, <1>3, <1>7 DEF IInv

\* Every step keeps the invariant.
LEMMA NextInv == IInv /\ [Next]_vars => IInv'
<1> SUFFICES ASSUME IInv, [Next]_vars PROVE IInv'
  OBVIOUS
<1>1. TypeOK' /\ IrqFollowsFlags'
  <2>1. ChipInv
    BY DEF IInv, ChipInv, HistType
  <2> QED  BY <2>1, NextChip DEF ChipInv
<1> DEFINE Rest == /\ hist \in HistType
                   /\ SeenInv /\ LatchInv /\ PulseInv /\ T1Inv /\ PB7Inv /\ ShiftInv
<1>2. TypeOK /\ hist \in HistType
  BY DEF IInv
<1>3. ASSUME Advance  PROVE Rest'
  <2>1. PICK answer \in Answers : Advanced(answer)
    BY <1>2, <1>3, AdvanceAdvances
  <2> QED  BY <1>2, <2>1, HistTypeAdvances, CycleInv
<1>4. ASSUME NEW r \in setup.reads, Read(r)  PROVE Rest'
  <2>1. PICK answer \in Answers : Advanced(answer)
    BY <1>2, <1>4, ReadAdvances
  <2> QED  BY <1>2, <2>1, HistTypeAdvances, CycleInv
<1>5. ASSUME NEW w \in setup.writes, Write(w)  PROVE Rest'
  <2>1. w \in RegisterWrites
    BY <1>2, VIAAssumption DEF TypeOK
  <2>2. via' \in ViaType
    BY <1>2, <1>5, <2>1, ChipWrites
  <2> QED  BY <1>2, <1>5, <2>1, <2>2, HistWrites, WriteInv
<1>6. ASSUME NEW l \in setup.lines, Input(l)  PROVE Rest'
  BY <1>6, InputInv
<1>7. ASSUME Reset  PROVE Rest'
  BY <1>7, ResetInv
<1>8. CASE UNCHANGED vars
  <2>1. via' = via /\ hist' = hist /\ setup' = setup
    BY <1>8 DEF vars
  <2> QED
    BY <2>1 DEF IInv, TypeOK, IrqFollowsFlags, SeenInv, LatchInv, LatchedAtEdge, PulseInv,
                T1Inv, PB7Inv, ShiftInv, LatchesKept
<1>9. CASE Next
  <2>1. Rest'
    BY <1>3, <1>4, <1>5, <1>6, <1>7, <1>9 DEF Next
  <2> QED  BY <1>1, <2>1 DEF IInv
<1> QED  BY <1>8, <1>9

(***************************************************************************)
(* What the VIA holds is what the history makes of the accesses, after     *)
(* every step: the levels seen, the port latched, the cycles left of T1's  *)
(* countdown and of a pulse on PB7, and the bits shifted in.               *)
(***************************************************************************)
THEOREM HistoryKept == Spec => []IInv
BY InitInv, NextInv, PTL DEF Spec

(***************************************************************************)
(* In the one-shot mode with output, PB7 is low exactly while the          *)
(* countdown that T1CH has started runs.                                   *)
(***************************************************************************)
THEOREM PulseExact == Spec => []PB7Pulse
<1>1. IInv => PB7Pulse
  BY DEF IInv, PB7Inv, PB7Pulse
<1> QED  BY <1>1, HistoryKept, PTL

\* A step either makes a cycle or sets no flag.
LEMMA OnlyCyclesSetFlags ==
  ASSUME IInv, Next
  PROVE  \/ \E answer \in Answers : Advanced(answer)
         \/ /\ via'.IFR \subseteq via.IFR
            /\ hist'.op \in {"write", "input", "reset"}
<1>1. TypeOK /\ hist \in HistType
  BY DEF IInv
<1>2. CASE Advance
  BY <1>1, <1>2, AdvanceAdvances
<1>3. ASSUME NEW r \in setup.reads, Read(r)  PROVE \E answer \in Answers : Advanced(answer)
  BY <1>1, <1>3, ReadAdvances
<1>4. ASSUME NEW w \in setup.writes, Write(w)
      PROVE  via'.IFR \subseteq via.IFR /\ hist'.op = "write"
  <2>1. w \in RegisterWrites
    BY <1>1, VIAAssumption DEF TypeOK
  <2>2. via' \in ViaType /\ Accessed(via, via')
    BY <1>1, <1>4, <2>1, ChipWrites
  <2>3. hist'.op = "write"
    BY <1>1, <1>4, <2>1, <2>2, HistWrites
  <2> QED  BY <2>2, <2>3 DEF Accessed
<1>5. ASSUME NEW l \in setup.lines, Input(l)
      PROVE  via'.IFR \subseteq via.IFR /\ hist'.op = "input"
  BY <1>5, InputInv
<1>6. CASE Reset
  <2>1. via'.IFR = {}
    BY <1>1, <1>6 DEF Reset, ResetState, TypeOK, ViaType
  <2>2. hist'.op = "reset"
    BY <1>1, <1>6 DEF Reset, HistType
  <2> QED  BY <2>1, <2>2
<1> QED  BY <1>2, <1>3, <1>4, <1>5, <1>6 DEF Next

\* A cycle the property of which names it is one of advanceUntil alone.
LEMMA CycleAdvances ==
  ASSUME IInv, Next, hist'.op = "cycle"
  PROVE  \E answer \in Answers : Advanced(answer) /\ via' = Cycle(via, answer)
<1>1. TypeOK /\ hist \in HistType
  BY DEF IInv
<1>2. CASE Advance
  BY <1>1, <1>2, AdvanceAdvances
<1>3. ASSUME NEW r \in setup.reads, Read(r)  PROVE FALSE
  <2>1. hist'.op = r /\ r \in Registers
    BY <1>1, <1>3, ReadAdvances
  <2> QED  BY <2>1 DEF Registers
<1>4. ASSUME NEW w \in setup.writes, Write(w)  PROVE FALSE
  <2>1. w \in RegisterWrites
    BY <1>1, VIAAssumption DEF TypeOK
  <2>2. via' \in ViaType
    BY <1>1, <1>4, <2>1, ChipWrites
  <2> QED  BY <1>1, <1>4, <2>1, <2>2, HistWrites
<1>5. ASSUME NEW l \in setup.lines, Input(l)  PROVE FALSE
  BY <1>5, InputInv
<1>6. CASE Reset
  BY <1>1, <1>6 DEF Reset, HistType
<1> QED  BY <1>2, <1>3, <1>4, <1>5, <1>6 DEF Next

(***************************************************************************)
(* T1 sets its flag n + 1 cycles after T1CH is written, each n + 2 cycles   *)
(* after that, and at no other time, for every n.                          *)
(***************************************************************************)
THEOREM T1Exact == Spec => T1OnTime
<1>1. IInv /\ [Next]_vars =>
        [LatchesKept /\ hist'.op \in ({"cycle"} \cup Registers) \ {"T1CL"} /\ hist.t1Due # Unknown =>
           /\ hist.t1Due = 1 => "T1" \in via'.IFR
           /\ "T1" \in via'.IFR \ via.IFR => hist.t1Due = 1]_vars
  <2> SUFFICES ASSUME IInv, Next, LatchesKept, hist.t1Due # Unknown,
                      hist'.op \in ({"cycle"} \cup Registers) \ {"T1CL"}
               PROVE  /\ hist.t1Due = 1 => "T1" \in via'.IFR
                      /\ "T1" \in via'.IFR \ via.IFR => hist.t1Due = 1
    OBVIOUS
  <2>1. PICK answer \in Answers : Advanced(answer)
    <3>1. hist'.op \notin {"write", "input", "reset"}
      BY DEF Registers
    <3> QED  BY <3>1, OnlyCyclesSetFlags
  <2>2. via \in ViaType /\ answer \in SUBSET Lines /\ hist.t1Due \in Int
    BY AnswersType DEF IInv, TypeOK, HistType
  <2> DEFINE u == Cycle(via, answer)
  <2>3. "T1" \in via'.IFR <=> "T1" \in u.IFR
    BY <2>1 DEF Advanced
  <2>4. /\ ~via.t1.running \/ CyclesLeft(via) > 1 => ("T1" \in u.IFR <=> "T1" \in via.IFR)
        /\ via.t1.running /\ CyclesLeft(via) <= 1 => "T1" \in u.IFR
    BY <2>2, CycleT1
  <2> HIDE DEF u
  <2>5. /\ via.t1.running <=> hist.t1Due > 0
        /\ hist.t1Due > 0 => hist.t1Due = CyclesLeft(via)
    BY DEF IInv, T1Inv
  <2>6. CASE hist.t1Due = 1
    BY <2>3, <2>4, <2>5, <2>6
  <2>7. CASE hist.t1Due # 1
    <3>1. ~via.t1.running \/ CyclesLeft(via) > 1
      BY <2>2, <2>5, <2>7
    <3> QED  BY <2>3, <2>4, <2>7, <3>1
  <2> QED  BY <2>6, <2>7
<1> QED  BY <1>1, HistoryKept, PTL DEF Spec, T1OnTime

(***************************************************************************)
(* A control line sets its flag only when its level has changed since the  *)
(* last cycle, whatever the program writes to the chip.                    *)
(***************************************************************************)
THEOREM EdgesNeeded == Spec => FlagNeedsEdge
<1>1. IInv /\ [Next]_vars =>
        [~setup.responsive =>
           \A l \in ControlLines :
             l \in via'.IFR \ via.IFR => (l \in via.in) # (l \in hist.seen)]_vars
  <2> SUFFICES ASSUME IInv, Next, ~setup.responsive, NEW l \in ControlLines,
                      l \in via'.IFR \ via.IFR
               PROVE  (l \in via.in) # (l \in hist.seen)
    OBVIOUS
  <2>1. PICK answer \in Answers : Advanced(answer)
    BY OnlyCyclesSetFlags
  <2>2. via \in ViaType /\ answer \in SUBSET Lines /\ answer = via.in
    BY AnswersType DEF IInv, TypeOK
  <2>3. l \in Cycle(via, answer).IFR \ via.IFR
    BY <2>1 DEF Advanced, Accessed
  <2>4. (l \in via.in) # (l \in via.pIn)
    BY <2>2, <2>3, CycleLines
  <2> QED  BY <2>4 DEF IInv, SeenInv
<1> QED  BY <1>1, HistoryKept, PTL DEF Spec, FlagNeedsEdge

(***************************************************************************)
(* A transition to the active level that is there at a cycle sets the flag *)
(* of its line.                                                            *)
(***************************************************************************)
THEOREM EdgesSeen == Spec => TransitionsDetected
<1>1. IInv /\ [Next]_vars =>
        [hist'.op = "cycle" /\ ~setup.responsive =>
           \A l \in ControlLines :
             IsInput(via, l) /\ (l \in via.in) # (l \in hist.seen) /\ (l \in via.in) = Positive(via, l)
               => l \in via'.IFR]_vars
  <2> SUFFICES ASSUME IInv, Next, hist'.op = "cycle", ~setup.responsive, NEW l \in ControlLines,
                      IsInput(via, l), (l \in via.in) # (l \in hist.seen),
                      (l \in via.in) = Positive(via, l)
               PROVE  l \in via'.IFR
    OBVIOUS
  <2>1. PICK answer \in Answers : via' = Cycle(via, answer)
    BY CycleAdvances
  <2>2. via \in ViaType /\ answer \in SUBSET Lines /\ answer = via.in
    BY AnswersType DEF IInv, TypeOK
  <2>3. hist.seen = via.pIn
    BY DEF IInv, SeenInv
  <2> QED  BY <2>1, <2>2, <2>3, CycleLines
<1> QED  BY <1>1, HistoryKept, PTL DEF Spec, TransitionsDetected

(***************************************************************************)
(* Port A as a falling CA1 has found it is what the program reads.         *)
(***************************************************************************)
THEOREM PortLatched == Spec => []LatchedAtEdge
<1>1. IInv => LatchedAtEdge
  BY DEF IInv, LatchInv
<1> QED  BY HistoryKept, <1>1, PTL

(***************************************************************************)
(* The bit shifted in is the one the device answers the shift clock with.  *)
(***************************************************************************)
THEOREM BitAnswered == Spec => ShiftAnswered
<1>1. IInv /\ [Next]_vars =>
        [(hist'.op = "cycle" /\ via.acr.sr = 2 /\ "CB1" \in via'.out \ via.out)
           => via'.sr.bits[Width] = ("CB2" \in via'.in)]_vars
  <2> SUFFICES ASSUME IInv, Next, hist'.op = "cycle", via.acr.sr = 2,
                      "CB1" \in via'.out \ via.out
               PROVE  via'.sr.bits[Width] = ("CB2" \in via'.in)
    OBVIOUS
  <2>1. PICK answer \in Answers : via' = Cycle(via, answer)
    BY CycleAdvances
  <2>2. via \in ViaType /\ answer \in SUBSET Lines /\ via.sr.pPulse = via.sr.pulse
    BY AnswersType DEF IInv, TypeOK, PulseInv
  <2> QED  BY <2>1, <2>2, CycleShiftsAnswer
<1> QED  BY <1>1, HistoryKept, PTL DEF Spec, ShiftAnswered

(***************************************************************************)
(* A byte of any width that is shifted in at phi2 rate takes two cycles a   *)
(* bit.                                                                    *)
(***************************************************************************)
THEOREM ByteOnTime == Spec => ShiftOnTime
<1>1. IInv /\ [Next]_vars =>
        [(hist'.op = "cycle" /\ hist.shiftAge > 0) =>
           /\ hist.shiftAge >= 2 * Width => "SR" \in via'.IFR
           /\ "SR" \in via'.IFR \ via.IFR => hist.shiftAge >= 2 * Width - 1]_vars
  <2> SUFFICES ASSUME IInv, Next, hist'.op = "cycle", hist.shiftAge > 0
               PROVE  /\ hist.shiftAge >= 2 * Width => "SR" \in via'.IFR
                      /\ "SR" \in via'.IFR \ via.IFR => hist.shiftAge >= 2 * Width - 1
    OBVIOUS
  <2>1. PICK answer \in Answers : via' = Cycle(via, answer)
    BY CycleAdvances
  <2>2. /\ via \in ViaType /\ answer \in SUBSET Lines
        /\ hist.shiftAge \in Nat /\ Width \in Nat \ {0}
    BY AnswersType, VIAAssumption DEF IInv, TypeOK, HistType
  <2>3. /\ via.acr.sr = 2 /\ via.sr.start /\ via.sr.pPulse = via.sr.pulse
        /\ via.sr.mode # 2 => via.sr.shifts = 0
        /\ 2 * via.sr.shifts \in (IF via.sr.pulse THEN {hist.shiftAge - 1, hist.shiftAge}
                                  ELSE {hist.shiftAge - 1, hist.shiftAge - 2})
    BY DEF IInv, ShiftInv, PulseInv
  <2>4. via.sr.shifts \in 0 .. Width - 1
    BY <2>2 DEF ViaType, ShiftType
  <2>5. /\ via.sr.pulse => ("SR" \in via'.IFR <=> "SR" \in via.IFR)
        /\ ~via.sr.pulse =>
             /\ via'.sr.shifts = (via.sr.shifts + 1) % Width
             /\ via'.sr.shifts = 0 => "SR" \in via'.IFR
             /\ "SR" \in via'.IFR \ via.IFR => via'.sr.shifts = 0
    BY <2>1, <2>2, <2>3, CycleShift
  <2>6. CASE via.sr.pulse
    <3>1. hist.shiftAge < 2 * Width
      BY <2>2, <2>3, <2>4, <2>6
    <3> QED  BY <2>2, <2>5, <2>6, <3>1
  <2>7. CASE ~via.sr.pulse
    <3>1. 2 * via.sr.shifts \in {hist.shiftAge - 1, hist.shiftAge - 2}
      BY <2>3, <2>7
    <3>2. via'.sr.shifts = IF via.sr.shifts = Width - 1 THEN 0 ELSE via.sr.shifts + 1
      BY <2>4, <2>5, <2>7, OneShiftMore
    <3>3. hist.shiftAge >= 2 * Width => via'.sr.shifts = 0
      BY <2>2, <2>4, <3>1, <3>2
    <3>4. via'.sr.shifts = 0 => hist.shiftAge >= 2 * Width - 1
      BY <2>2, <2>4, <3>1, <3>2
    <3> QED  BY <2>5, <2>7, <3>3, <3>4
  <2> QED  BY <2>6, <2>7
<1> QED  BY <1>1, HistoryKept, PTL DEF Spec, ShiftOnTime

=============================================================================

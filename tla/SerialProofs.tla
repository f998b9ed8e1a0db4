---------------------------- MODULE SerialProofs ----------------------------
(***************************************************************************)
(* Proof that the ACIA requests every interrupt it has a reason for,       *)
(* whatever the program, the line and the tape do.                         *)
(***************************************************************************)
EXTENDS SerialProperties, FiniteSetTheorems, TLAPS

-----------------------------------------------------------------------------
(* Induction over the numbers, for the members of a set.                   *)

\* Induction for a set: a number that is missing would have a predecessor that is missing,
\* and there are not enough smaller ones.
LEMMA InductionOnSet ==
  ASSUME NEW S, 0 \in S, \A k \in Nat : k \in S => k + 1 \in S
  PROVE  Nat \subseteq S
<1> SUFFICES ASSUME NEW n \in Nat, n \notin S PROVE FALSE
  OBVIOUS
<1> DEFINE U == {k \in 0 .. n : k \notin S}
           f == [k \in U |-> k - 1]
<1>1. \A k \in U : k - 1 \in U \ {n}
  <2> SUFFICES ASSUME NEW k \in 0 .. n, k \notin S
               PROVE  k - 1 \in 0 .. n /\ k - 1 # n /\ k - 1 \notin S
    OBVIOUS
  <2>1. k # 0 /\ k - 1 \in Nat /\ (k - 1) + 1 = k
    OBVIOUS
  <2> QED  BY <2>1
<1>2. IsFiniteSet(0 .. n) /\ U \in SUBSET (0 .. n) /\ n \in U
  BY FS_Interval
<1>3. IsFiniteSet(U)
  BY <1>2, FS_Subset
<1> HIDE DEF U
<1>4. IsFiniteSet(U \ {n}) /\ Cardinality(U \ {n}) = Cardinality(U) - 1 /\ Cardinality(U) \in Nat
  BY <1>2, <1>3, FS_RemoveElement, FS_CardinalityType
<1>5. f \in [U -> U \ {n}]
  BY <1>1
<1>6. \E x, y \in U : x # y /\ f[x] = f[y]
  <2> HIDE DEF f
  <2>1. Cardinality(U \ {n}) < Cardinality(U)
    BY <1>4
  <2> QED  BY <1>3, <1>4, <1>5, <2>1, FS_PigeonHole
<1>7. \A k \in U : k \in Int
  BY DEF U
<1> QED  BY <1>6, <1>7


\* The phases of the receiver and of the transmitter.
Phases == {"none", "start", "data", "parity", "stop"}

Chip(a) ==
  /\ {"cr", "sr", "irq", "rx", "tx"} \subseteq DOMAIN a
  /\ a.rx \in Phases /\ a.tx \in Phases

NoLost(a) == Requested(a) => a.irq

\* A chip that requests its interrupt, and devices with such a chip.
Good(a) == Chip(a) /\ NoLost(a)
GoodDev(d) == {"acia", "ula"} \subseteq DOMAIN d /\ Good(d.acia)

SerialInv == GoodDev(dev) /\ "batch" \in DOMAIN prog /\ prog.batch \in Batches

\* b is a with other registers and phases, before the interrupt is computed.
Moved(a, b) == Chip(b) /\ b.cr = a.cr /\ b.irq = a.irq
Same(a, b) == Moved(a, b) /\ b.sr = a.sr

-----------------------------------------------------------------------------
(* The interrupt.                                                          *)

\* updateIRQ() leaves the request that the registers ask for.
LEMMA IRQIsRequested ==
  ASSUME NEW a, Chip(a)
  PROVE  Good(updateIRQ(a)) /\ updateIRQ(a).sr = a.sr /\ updateIRQ(a).cr = a.cr
<1> DEFINE q == Requested(a)
           b == [a EXCEPT !.irq = q]
<1>1. q \in BOOLEAN
  BY DEF Requested
<1>2. updateIRQ(a) = b
  BY DEF updateIRQ
<1>3. Requested(a) <=> q
  OBVIOUS
<1> HIDE DEF q
<1>4. Chip(b) /\ b.cr = a.cr /\ b.sr = a.sr /\ b.irq = q
  BY <1>1 DEF Chip
<1> HIDE DEF b
<1>5. Requested(b) <=> Requested(a)
  BY <1>4 DEF Requested
<1> QED  BY <1>2, <1>3, <1>4, <1>5 DEF Good, NoLost

\* So does an update after a change of the status register.
LEMMA UpdatedIsGood ==
  ASSUME NEW a, NEW b, NoLost(a), Chip(b)
  PROVE  Good(Updated(a, b))
<1>1. CASE a.irq \/ b.sr # a.sr \/ b.cr # a.cr
  BY <1>1, IRQIsRequested DEF Updated
<1>2. CASE ~ (a.irq \/ b.sr # a.sr \/ b.cr # a.cr)
  <2>1. ~ Requested(b)
    BY <1>2 DEF NoLost, Requested
  <2> QED  BY <1>2, <2>1 DEF Updated, Good, NoLost
<1> QED  BY <1>1, <1>2

\* A chip with the same registers and request is as good.
LEMMA SameIsGood ==
  ASSUME NEW a, NEW b, Good(a), Same(a, b)
  PROVE  Good(b)
BY DEF Good, Same, Moved, NoLost, Requested

-----------------------------------------------------------------------------
(* The registers.                                                          *)

\* update_settings() leaves registers and request.
LEMMA SettingsKept ==
  ASSUME NEW a, Chip(a)
  PROVE  Same(a, update_settings(a))
BY DEF update_settings, Same, Moved, Chip

\* A new baud rate keeps the chip good.
LEMMA ClocksAreGood ==
  ASSUME NEW a, Good(a), NEW rxClk, NEW txClk
  PROVE  Good(processAnaloguePortUpdate(a, rxClk, txClk))
<1> DEFINE b == [a EXCEPT !.rxClk = rxClk, !.txClk = txClk, !.rxClkCycles = Round(TickRate, rxClk)]
<1>1. Same(a, b)
  BY DEF Same, Moved, Good, Chip
<1> HIDE DEF b
<1>2. Same(b, update_settings(b))
  BY <1>1, SettingsKept DEF Same, Moved
<1>3. processAnaloguePortUpdate(a, rxClk, txClk) = update_settings(b)
  BY DEF processAnaloguePortUpdate, b
<1> QED  BY <1>1, <1>2, <1>3, SameIsGood

\* Reading the status register keeps it good.
LEMMA StatusIsGood == ASSUME NEW a, Good(a) PROVE Good(ReadStatus(a))
<1> DEFINE b == [a EXCEPT !.clearPending = @ \/ a.sr \cap {"OVRN", "DCD"} # {}]
<1>1. Chip(b)
  BY DEF Good, Chip
<1> HIDE DEF b
<1>2. Good(Updated(a, b))
  BY <1>1, UpdatedIsGood DEF Good
<1> QED  BY <1>2 DEF ReadStatus, b

\* Reading a byte keeps it good.
LEMMA DataIsGood == ASSUME NEW a, Good(a) PROVE Good(ReadData(a))
<1> DEFINE b == [a EXCEPT !.sr = @ \ ({"RDRF"} \cup IF a.clearPending THEN {"OVRN", "DCD"} ELSE {}),
                          !.clearPending = FALSE]
<1>1. Chip(b)
  BY DEF Good, Chip
<1> HIDE DEF b
<1>2. Good(Updated(a, b))
  BY <1>1, UpdatedIsGood DEF Good
<1> QED  BY <1>2 DEF ReadData, b

\* A master reset keeps it good.
LEMMA ResetIsGood == ASSUME NEW a, Good(a) PROVE Good(WriteMasterReset(a))
<1> DEFINE b == WriteMasterReset(a)
<1>1. Chip(b) /\ b.cr = ClearedCR
  BY DEF WriteMasterReset, Good, Chip, Phases
<1> HIDE DEF b
<1>2. ~ Requested(b)
  BY <1>1 DEF Requested, ClearedCR
<1> QED  BY <1>1, <1>2 DEF Good, NoLost, b

\* Writing the control register keeps it good.
LEMMA ControlIsGood == ASSUME NEW a, Good(a), NEW cr PROVE Good(WriteControl(a, cr))
<1> DEFINE b == [a EXCEPT !.cr = cr, !.clkDiv = Dividers[cr.div], !.format = Words[cr.word],
                          !.RTS = IF cr.tx = 2 THEN 1 ELSE 0, !.TxD = IF cr.tx = 3 THEN 0 ELSE @]
<1>1. Chip(b)
  BY DEF Good, Chip
<1> HIDE DEF b
<1>2. Good(Updated(a, update_settings(b)))
  BY <1>1, SettingsKept, UpdatedIsGood DEF Good, Same, Moved
<1>3. WriteControl(a, cr) = IF cr.div = MasterReset THEN WriteMasterReset(a)
                            ELSE Updated(a, update_settings(b))
  BY DEF WriteControl, b
<1> QED  BY <1>2, <1>3, ResetIsGood

\* Writing a byte keeps it good.
LEMMA WriteIsGood == ASSUME NEW a, Good(a), NEW data PROVE Good(WriteData(a, data))
<1> DEFINE b == [a EXCEPT !.tdr = data, !.sr = @ \ {"TDRE"}, !.txPending = @ \/ a.tx = "none"]
<1>1. Chip(b)
  BY DEF Good, Chip
<1> HIDE DEF b
<1>2. Good(Updated(a, update_settings(b)))
  BY <1>1, SettingsKept, UpdatedIsGood DEF Good, Same, Moved
<1> QED  BY <1>2 DEF WriteData, b

\* A change of DCD keeps it good.
LEMMA CarrierIsGood == ASSUME NEW a, Good(a), NEW level PROVE Good(CarrierDetect(a, level))
<1> DEFINE b == [a EXCEPT !.DCD = level, !.rxLow = 0, !.rx = "start"]
           c == [a EXCEPT !.DCD = level, !.sr = @ \cup {"DCD"}]
<1>1. Chip(b) /\ Chip(c)
  BY DEF Good, Chip, Phases
<1> HIDE DEF b, c
<1>2. Good(Updated(a, b)) /\ Good(Updated(a, c))
  BY <1>1, UpdatedIsGood DEF Good
<1> QED  BY <1>2 DEF CarrierDetect, b, c

-----------------------------------------------------------------------------
(* A tick.                                                                 *)

\* A bit received changes the receiver.
LEMMA ReceiveMoves == ASSUME NEW a, Chip(a) PROVE Moved(a, Receive(a))
<1>1. Moved(a, FindStartBit(a))
  BY DEF FindStartBit, Moved, Chip, Phases
<1>2. Moved(a, ReceiveDataBit(a))
  BY DEF ReceiveDataBit, AfterData, Moved, Chip, Phases
<1>3. Moved(a, ReceiveParityBit(a))
  BY DEF ReceiveParityBit, Moved, Chip, Phases
<1>4. Moved(a, ReceiveStopBit(a))
  BY DEF ReceiveStopBit, Moved, Chip, Phases
<1>5. Moved(a, a)
  BY DEF Moved
<1>6. a.rx \in Phases
  BY DEF Chip
<1> QED  BY <1>1, <1>2, <1>3, <1>4, <1>5, <1>6 DEF Receive, Phases

\* Taking the next byte to be sent changes the transmitter.
LEMMA NextByteMoves == ASSUME NEW a, Chip(a) PROVE Moved(a, NextByte(a))
BY DEF NextByte, Moved, Chip, Phases

\* A bit sent changes the transmitter.
LEMMA SendMoves == ASSUME NEW a, Chip(a) PROVE Moved(a, Send(a))
<1> DEFINE b == NextByte(a)
<1>1. Moved(a, b)
  BY NextByteMoves
<1>2. Send(a) = IF a.ticks % a.txDivCycles = 0 THEN SendBit(b) ELSE a
  BY DEF Send
<1> HIDE DEF b
<1>3. Chip(b) /\ b.tx \in Phases
  BY <1>1 DEF Moved, Chip
<1>4. Moved(b, [b EXCEPT !.TxD = 0, !.stopBits = 0, !.tx = "data", !.txBits = 0,
                         !.txPar = IF b.format.parity = 0 THEN 0 ELSE 1])
  BY <1>3 DEF Moved, Chip, Phases
<1>5. Moved(b, SendDataBit(b))
  BY <1>3 DEF SendDataBit, AfterData, Moved, Chip, Phases
<1>6. Moved(b, [b EXCEPT !.TxD = b.txPar, !.tx = "stop"])
  BY <1>3 DEF Moved, Chip, Phases
<1>7. Moved(b, SendStopBit(b))
  BY <1>3 DEF SendStopBit, Moved, Chip, Phases
<1>8. Moved(b, b) /\ Moved(a, a)
  BY <1>3 DEF Moved
<1>9. Moved(b, SendBit(b))
  BY <1>3, <1>4, <1>5, <1>6, <1>7, <1>8 DEF SendBit, Phases
<1> QED  BY <1>1, <1>2, <1>8, <1>9 DEF Moved

\* A tick changes the status only with the interrupt computed anew.
LEMMA TickIsGood == ASSUME NEW a, Good(a) PROVE Good(Tick(a))
<1> DEFINE t == Send(Receive(a))
           u == IF t.sr # a.sr THEN updateIRQ(t) ELSE t
<1>1. Moved(a, t)
  BY ReceiveMoves, SendMoves DEF Good, Moved
<1> HIDE DEF t
<1>2. Good(u)
  <2>1. CASE t.sr # a.sr
    BY <1>1, <2>1, IRQIsRequested DEF Moved
  <2>2. CASE t.sr = a.sr
    BY <1>1, <2>2, SameIsGood DEF Same
  <2> QED  BY <2>1, <2>2
<1>3. Tick(a) = [u EXCEPT !.ticks = @ + 1]
  BY DEF Tick, t
<1> HIDE DEF u
<1>4. Same(u, [u EXCEPT !.ticks = @ + 1])
  BY <1>2 DEF Good, Same, Moved, Chip
<1> QED  BY <1>2, <1>3, <1>4, SameIsGood

-----------------------------------------------------------------------------
(* The serial ULA, which calls the ACIA.                                   *)

\* A step of the ULA's own leaves the chip, or calls it.
LEMMA UlaAlone == ASSUME NEW d, GoodDev(d), NEW u PROVE GoodDev([d EXCEPT !.ula = u])
BY DEF GoodDev

\* A call of the ACIA that keeps it good keeps the devices good.
LEMMA ChipCalled == ASSUME NEW d, GoodDev(d), NEW a, Good(a) PROVE GoodDev([d EXCEPT !.acia = a])
BY DEF GoodDev

\* A change of the received data line keeps the devices good.
LEMMA RxDIsGood == ASSUME NEW d, GoodDev(d), NEW level PROVE GoodDev(SetRxD(d, level))
<1> DEFINE b == [d.acia EXCEPT !.RxD = level]
<1>1. Same(d.acia, b)
  BY DEF GoodDev, Good, Same, Moved, Chip
<1>2. SetRxD(d, level) = [d EXCEPT !.acia = b]
  BY DEF SetRxD
<1> HIDE DEF b
<1>3. Good(b)
  BY <1>1, SameIsGood DEF GoodDev
<1> QED  BY <1>2, <1>3, ChipCalled

\* A change of the carrier line keeps them good.
LEMMA DCDIsGood == ASSUME NEW d, GoodDev(d), NEW level PROVE GoodDev(SetDCD(d, level))
<1> DEFINE c == CarrierDetect(d.acia, level)
           e == [d EXCEPT !.ula.DCD = level]
<1>1. Good(c)
  BY CarrierIsGood DEF GoodDev
<1>2. GoodDev(e) /\ e.acia = d.acia
  BY DEF GoodDev
<1>3. SetDCD(d, level) = IF d.ula.DCD = level THEN d ELSE [e EXCEPT !.acia = c]
  BY <1>2 DEF SetDCD
<1> HIDE DEF c, e
<1> QED  BY <1>1, <1>2, <1>3, ChipCalled

\* Forwarding the ULA's lines to the ACIA keeps them good.
LEMMA ForwardIsGood == ASSUME NEW d, GoodDev(d) PROVE GoodDev(Forward(d))
<1> DEFINE e == [d EXCEPT !.ula.TxD = d.acia.TxD]
<1>1. GoodDev(e)
  BY DEF GoodDev
<1> HIDE DEF e
<1>2. \A level : GoodDev(SetRxD(e, level))
  BY <1>1, RxDIsGood
<1> QED  BY <1>1, <1>2 DEF Forward, e

\* Writing the ULA's register keeps them good.
LEMMA SelectIsGood == ASSUME NEW d, GoodDev(d), NEW cr PROVE GoodDev(WriteByte(d, cr))
<1> DEFINE rx == IF cr.serial THEN Rate(Reversed(cr.rx)) ELSE CassetteRate
           tx == Rate(cr.tx)
           c  == processAnaloguePortUpdate(d.acia, rx, tx)
           s  == [d EXCEPT !.ula.serial = cr.serial, !.ula.motor = cr.motor, !.acia = c]
<1> HIDE DEF rx, tx
<1>1. Good(c)
  BY ClocksAreGood DEF GoodDev
<1> HIDE DEF c
<1>2. GoodDev(s)
  BY <1>1 DEF GoodDev
<1>3. WriteByte(d, cr) = IF cr.serial THEN SetDCD(s, 0) ELSE s
  BY DEF WriteByte, s, c, rx, tx, GoodDev
<1> HIDE DEF s
<1> QED  BY <1>2, <1>3, DCDIsGood

\* A tone of the tape keeps them good.
LEMMA ToneIsGood == ASSUME NEW d, GoodDev(d), NEW n PROVE GoodDev(Tone(d, n))
<1> DEFINE e == [d EXCEPT !.ula.lastTone = Heard(n)]
<1>1. GoodDev(e)
  BY DEF GoodDev
<1> HIDE DEF e
<1>2. \A level : GoodDev(SetRxD(d, level)) /\ GoodDev(SetRxD(e, level))
  BY <1>1, RxDIsGood
<1> QED  BY <1>2 DEF Tone, e

\* A half cycle of the tape keeps them good.
LEMMA HalfCycleIsGood == ASSUME NEW d, GoodDev(d), NEW n PROVE GoodDev(CountHalfCycle(d, n))
<1> DEFINE e == [d EXCEPT !.ula.highs = CountTo(MinCarrier + 1, @), !.ula.lows = 0]
           f == [d EXCEPT !.ula.lows = 2, !.ula.highs = 0]
           g == [d EXCEPT !.ula.lows = 1]
<1>1. GoodDev(e)
  BY DEF GoodDev
<1>2. GoodDev(f)
  BY DEF GoodDev
<1>3. GoodDev(g)
  BY DEF GoodDev
<1>4. CountHalfCycle(d, n) = IF HighTone(n) THEN e ELSE IF d.ula.lows >= 1 THEN SetDCD(f, 1) ELSE g
  BY DEF CountHalfCycle
<1> HIDE DEF e, f, g
<1> QED  BY <1>1, <1>2, <1>3, <1>4, DCDIsGood

\* Detecting the carrier keeps them good.
LEMMA DetectIsGood == ASSUME NEW d, GoodDev(d) PROVE GoodDev(DetectCarrier(d))
<1>1. GoodDev(SetDCD(d, 0))
  BY DCDIsGood
<1>2. GoodDev([SetDCD(d, 0) EXCEPT !.ula.carrier = TRUE])
  BY <1>1 DEF GoodDev
<1> QED  BY <1>2 DEF DetectCarrier

\* Sampling the tape keeps them good.
LEMMA ListenIsGood == ASSUME NEW d, GoodDev(d) PROVE GoodDev(Listen(d))
<1> DEFINE n == d.ula.levelCnt
           e == [d EXCEPT !.ula.level = d.ula.casIn, !.ula.levelCnt = 0]
           g == [d EXCEPT !.ula.levelCnt = CountTo(Silence + 1, @)]
<1>1. GoodDev(e)
  BY DEF GoodDev
<1>2. GoodDev(g)
  BY DEF GoodDev
<1>3. Listen(d) = IF d.ula.casIn # d.ula.level
                 THEN DetectCarrier(CountHalfCycle(Tone(e, n), n)) ELSE g
  BY DEF Listen
<1> HIDE DEF n, e, g
<1>4. GoodDev(DetectCarrier(CountHalfCycle(Tone(e, n), n)))
  BY <1>1, ToneIsGood, HalfCycleIsGood, DetectIsGood
<1> QED  BY <1>2, <1>3, <1>4

\* Losing the carrier keeps them good.
LEMMA LossIsGood == ASSUME NEW d, GoodDev(d) PROVE GoodDev(LoseCarrier(d))
<1> DEFINE e == [SetDCD(d, 1) EXCEPT !.ula.highs = 0, !.ula.carrier = FALSE]
<1>1. GoodDev(SetDCD(d, 1))
  BY DCDIsGood
<1>2. GoodDev(e)
  BY <1>1 DEF GoodDev
<1> HIDE DEF e
<1>3. GoodDev(SetRxD(e, 1))
  BY <1>2, RxDIsGood
<1> QED  BY <1>3 DEF LoseCarrier, e

\* A cycle of the serial ULA keeps them good.
LEMMA TickULAIsGood == ASSUME NEW d, GoodDev(d) PROVE GoodDev(TickULA(d))
<1> DEFINE e == [d EXCEPT !.ula.casOut = 0]
           heard == Listen(d)
           f == [heard EXCEPT !.ula = MakeTone(@, heard.acia.RTS)]
<1>1. GoodDev(e)
  BY DEF GoodDev
<1>2. GoodDev(heard)
  BY ListenIsGood
<1>3. TickULA(d) = IF d.ula.serial THEN e ELSE LoseCarrier(f)
  BY DEF TickULA
<1> HIDE DEF heard
<1>4. GoodDev(f)
  BY <1>2, UlaAlone
<1> HIDE DEF e, f
<1> QED  BY <1>1, <1>3, <1>4, LossIsGood

\* A cycle of the ACIA keeps them good.
LEMMA TickACIAIsGood ==
  ASSUME NEW d, GoodDev(d) PROVE GoodDev(Forward([d EXCEPT !.acia = Tick(@)]))
<1> DEFINE t == Tick(d.acia)
<1>1. Good(t)
  BY TickIsGood DEF GoodDev
<1>2. [d EXCEPT !.acia = Tick(@)] = [d EXCEPT !.acia = t]
  OBVIOUS
<1> HIDE DEF t
<1>3. GoodDev([d EXCEPT !.acia = t])
  BY <1>1, ChipCalled
<1> QED  BY <1>2, <1>3, ForwardIsGood

-----------------------------------------------------------------------------
(* A batch of ticks, which is a recursive function of their number.        *)

\* The chip is good after every tick of the batch.
LEMMA AdvanceACIAIsGood ==
  ASSUME NEW d, GoodDev(d), NEW n \in Nat PROVE GoodDev(AdvanceACIA(d, n))
<1> DEFINE Next1(e) == Forward([e EXCEPT !.acia = Tick(@)])
           Is(f, m) == f = [k \in 0 .. m |-> IF k = 0 THEN d ELSE Next1(f[k - 1])]
           S == {m \in Nat : \E f : Is(f, m)}
<1> HIDE DEF Next1
<1>1. 0 \in S
  <2> DEFINE f == [k \in 0 .. 0 |-> d]
  <2>1. Is(f, 0)
    OBVIOUS
  <2> QED  BY <2>1
<1>2. ASSUME NEW m \in Nat, m \in S PROVE m + 1 \in S
  <2>1. PICK f : Is(f, m)
    BY <1>2
  <2> DEFINE g == [k \in 0 .. m + 1 |-> IF k = m + 1 THEN Next1(f[m]) ELSE f[k]]
  <2>2. \A k \in 0 .. m : f[k] = IF k = 0 THEN d ELSE Next1(f[k - 1])
    BY <2>1
  <2>3. \A k \in 0 .. m + 1 : g[k] = IF k = 0 THEN d ELSE Next1(g[k - 1])
    <3> TAKE k \in 0 .. m + 1
    <3>1. CASE k = m + 1
      BY <3>1
    <3>2. CASE k \in 0 .. m
      BY <2>2, <3>2
    <3> QED  BY <3>1, <3>2
  <2>4. Is(g, m + 1)
    BY <2>3
  <2> HIDE DEF g, Is
  <2> QED  BY <2>4
<1>3. n \in S
  <2> HIDE DEF S
  <2> QED  BY <1>1, <1>2, InductionOnSet
<1> DEFINE after == CHOOSE f : Is(f, n)
<1>4. Is(after, n)
  <2>1. \E f : Is(f, n)
    BY <1>3
  <2> HIDE DEF Is
  <2> QED  BY <2>1
<1>5. AdvanceACIA(d, n) = after[n]
  BY DEF AdvanceACIA, Next1
<1> HIDE DEF after
<1>6. \A k \in 0 .. n : after[k] = IF k = 0 THEN d ELSE Next1(after[k - 1])
  BY <1>4
<1> DEFINE T == {k \in Nat : k \in 0 .. n => GoodDev(after[k])}
<1>7. 0 \in T
  BY <1>6
<1>8. ASSUME NEW k \in Nat, k \in T PROVE k + 1 \in T
  <2> SUFFICES ASSUME k + 1 \in 0 .. n PROVE GoodDev(after[k + 1])
    OBVIOUS
  <2>1. k \in 0 .. n /\ GoodDev(after[k])
    BY <1>8
  <2>2. after[k + 1] = Next1(after[k])
    BY <1>6
  <2>3. GoodDev(Next1(after[k]))
    BY <2>1, TickACIAIsGood DEF Next1
  <2> QED  BY <2>2, <2>3
<1>9. n \in T
  <2> HIDE DEF T
  <2> QED  BY <1>7, <1>8, InductionOnSet
<1> QED  BY <1>5, <1>9
\* The same for the ticks of the ULA.
LEMMA AdvanceULAIsGood ==
  ASSUME NEW d, GoodDev(d), NEW n \in Nat PROVE GoodDev(AdvanceULA(d, n))
<1> DEFINE Next1(e) == TickULA(e)
           Is(f, m) == f = [k \in 0 .. m |-> IF k = 0 THEN d ELSE Next1(f[k - 1])]
           S == {m \in Nat : \E f : Is(f, m)}
<1> HIDE DEF Next1
<1>1. 0 \in S
  <2> DEFINE f == [k \in 0 .. 0 |-> d]
  <2>1. Is(f, 0)
    OBVIOUS
  <2> QED  BY <2>1
<1>2. ASSUME NEW m \in Nat, m \in S PROVE m + 1 \in S
  <2>1. PICK f : Is(f, m)
    BY <1>2
  <2> DEFINE g == [k \in 0 .. m + 1 |-> IF k = m + 1 THEN Next1(f[m]) ELSE f[k]]
  <2>2. \A k \in 0 .. m : f[k] = IF k = 0 THEN d ELSE Next1(f[k - 1])
    BY <2>1
  <2>3. \A k \in 0 .. m + 1 : g[k] = IF k = 0 THEN d ELSE Next1(g[k - 1])
    <3> TAKE k \in 0 .. m + 1
    <3>1. CASE k = m + 1
      BY <3>1
    <3>2. CASE k \in 0 .. m
      BY <2>2, <3>2
    <3> QED  BY <3>1, <3>2
  <2>4. Is(g, m + 1)
    BY <2>3
  <2> HIDE DEF g, Is
  <2> QED  BY <2>4
<1>3. n \in S
  <2> HIDE DEF S
  <2> QED  BY <1>1, <1>2, InductionOnSet
<1> DEFINE after == CHOOSE f : Is(f, n)
<1>4. Is(after, n)
  <2>1. \E f : Is(f, n)
    BY <1>3
  <2> HIDE DEF Is
  <2> QED  BY <2>1
<1>5. AdvanceULA(d, n) = after[n]
  BY DEF AdvanceULA, Next1
<1> HIDE DEF after
<1>6. \A k \in 0 .. n : after[k] = IF k = 0 THEN d ELSE Next1(after[k - 1])
  BY <1>4
<1> DEFINE T == {k \in Nat : k \in 0 .. n => GoodDev(after[k])}
<1>7. 0 \in T
  BY <1>6
<1>8. ASSUME NEW k \in Nat, k \in T PROVE k + 1 \in T
  <2> SUFFICES ASSUME k + 1 \in 0 .. n PROVE GoodDev(after[k + 1])
    OBVIOUS
  <2>1. k \in 0 .. n /\ GoodDev(after[k])
    BY <1>8
  <2>2. after[k + 1] = Next1(after[k])
    BY <1>6
  <2>3. GoodDev(Next1(after[k]))
    BY <2>1, TickULAIsGood DEF Next1
  <2> QED  BY <2>2, <2>3
<1>9. n \in T
  <2> HIDE DEF T
  <2> QED  BY <1>7, <1>8, InductionOnSet
<1> QED  BY <1>5, <1>9

\* Both batches.
LEMMA AdvanceIsGood ==
  ASSUME NEW d, GoodDev(d), NEW t, prog.batch \in Nat, Advance(d, t)
  PROVE  GoodDev(dev')
<1> DEFINE e  == [d EXCEPT !.ula.casIn = t.casIn]
           d1 == AdvanceACIA(e, prog.batch)
           d2 == AdvanceULA(d1, prog.batch)
<1>1. GoodDev(e)
  BY DEF GoodDev
<1> HIDE DEF e
<1>2. GoodDev(d1)
  BY <1>1, AdvanceACIAIsGood
<1> HIDE DEF d1
<1>3. GoodDev(d2)
  BY <1>2, AdvanceULAIsGood
<1>4. \E x : dev' = [d2 EXCEPT !.ula.casIn = x]
  BY Zenon DEF Advance, d2, d1, e
<1> HIDE DEF d2
<1> QED  BY <1>3, <1>4 DEF GoodDev

\* What each action has done with the devices before they advance.
LEMMA ActionsAdvance ==
  ASSUME SerialInv, Next
  PROVE  \E d, t : GoodDev(d) /\ Advance(d, t)
<1> DEFINE Use(a) == GoodDev([dev EXCEPT !.acia = a])
<1>1. GoodDev(dev) /\ Good(dev.acia)
  BY DEF SerialInv, GoodDev
<1>2. \A a : Good(a) => Use(a)
  BY <1>1, ChipCalled
<1> HIDE DEF Use
<1>3. Use(ReadStatus(dev.acia)) /\ Use(ReadData(dev.acia)) /\ Use(WriteMasterReset(dev.acia))
  BY <1>1, <1>2, StatusIsGood, DataIsGood, ResetIsGood
<1>4. \A x : /\ Use(WriteControl(dev.acia, x)) /\ Use(WriteData(dev.acia, x))
            /\ GoodDev(WriteByte(dev, x))
  BY <1>1, <1>2, ControlIsGood, WriteIsGood, SelectIsGood
<1>5. CASE Interrupt
  BY <1>3, <1>5 DEF Interrupt, Use
<1>6. CASE TakeByte
  BY <1>3, <1>6 DEF TakeByte, Use
<1>7. CASE SendByte
  BY <1>4, <1>7 DEF SendByte, Use
<1>8. CASE EndTransmission
  BY <1>4, <1>8 DEF EndTransmission, Use
<1>9. CASE Select
  BY <1>4, <1>9 DEF Select
<1>10. CASE Reset
  BY <1>3, <1>10 DEF Reset, Use
<1>11. CASE Open \/ Transmit \/ Enable
  BY <1>4, <1>11 DEF Open, Transmit, Enable, Use
<1>12. CASE Finish \/ PlayedBack \/ End \/ Wait
  BY <1>1, <1>12 DEF Finish, PlayedBack, End, Wait
<1>13. CASE Record \/ Stop \/ Load \/ Play \/ Rewind
  BY <1>1, <1>13 DEF Record, Stop, Load, Play, Rewind
<1> QED  BY <1>5, <1>6, <1>7, <1>8, <1>9, <1>10, <1>11, <1>12, <1>13 DEF Next, Operation

\* The batch is chosen once.
LEMMA BatchKept == SerialInv /\ [Next]_vars => "batch" \in DOMAIN prog' /\ prog'.batch \in Batches
<1> SUFFICES ASSUME SerialInv, [Next]_vars
             PROVE  "batch" \in DOMAIN prog' /\ prog'.batch \in Batches
  OBVIOUS
<1>1. CASE UNCHANGED prog
  BY <1>1 DEF SerialInv
<1>2. CASE Interrupt
  BY <1>2 DEF SerialInv, Interrupt
<1>3. ASSUME NEW gap, Return(gap)  PROVE "batch" \in DOMAIN prog' /\ prog'.batch \in Batches
  BY <1>3 DEF SerialInv, Return
<1>4. ASSUME NEW delay, Done(delay)  PROVE "batch" \in DOMAIN prog' /\ prog'.batch \in Batches
  BY <1>4 DEF SerialInv, Done
<1>5. TakeByte \/ SendByte \/ EndTransmission => \E gap : Return(gap)
  BY DEF TakeByte, SendByte, EndTransmission
<1>6. Operation => \E delay : Done(delay)
  BY DEF Operation, Select, Reset, Open, Transmit, Finish, Enable, Record, Stop, Load, Play, Rewind,
         PlayedBack, End
<1>7. Wait \/ UNCHANGED vars => UNCHANGED prog
  BY DEF Wait, vars
<1> QED  BY <1>1, <1>2, <1>3, <1>4, <1>5, <1>6, <1>7 DEF Next

-----------------------------------------------------------------------------
\* The ACIA requests its interrupt in every state with a reason for it: ACIA6850::updateIRQ
\* is called after everything that changes the status or the control register, and a
\* master reset, which does not call it, takes the reasons away.
THEOREM NothingLost == Spec => []NoLostInterrupt
<1>1. Init => SerialInv
  <2> SUFFICES ASSUME Init PROVE SerialInv
    OBVIOUS
  <2>1. PICK batch \in Batches : "batch" \in DOMAIN prog /\ prog.batch = batch
    BY DEF Init
  <2>2. {"acia", "ula"} \subseteq DOMAIN dev /\ dev.acia = PoweredOn
    BY DEF Init
  <2>3. Chip(PoweredOn)
    BY DEF Chip, PoweredOn, Phases
  <2>4. ~ Requested(PoweredOn)
    BY DEF Requested, PoweredOn, ClearedCR
  <2> QED  BY <2>1, <2>2, <2>3, <2>4 DEF SerialInv, GoodDev, Good, NoLost
<1>2. SerialInv /\ [Next]_vars => SerialInv'
  <2> SUFFICES ASSUME SerialInv, [Next]_vars PROVE GoodDev(dev')
    BY BatchKept DEF SerialInv
  <2>1. CASE Next
    <3>1. prog.batch \in Nat
      BY BatchAssumption DEF SerialInv
    <3> QED  BY <2>1, <3>1, ActionsAdvance, AdvanceIsGood
  <2>2. CASE UNCHANGED vars
    BY <2>2 DEF SerialInv, vars
  <2> QED  BY <2>1, <2>2
<1>3. SerialInv => NoLostInterrupt
  BY DEF SerialInv, GoodDev, Good, NoLost, NoLostInterrupt
<1> QED  BY <1>1, <1>2, <1>3, PTL DEF Spec
=============================================================================

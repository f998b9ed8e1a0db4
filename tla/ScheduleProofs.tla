--------------------------- MODULE ScheduleProofs ---------------------------
(***************************************************************************)
(* Proofs about the schedule: how often the devices of the high and of the *)
(* low rate are served, and how far the VIA and the picture are ahead of   *)
(* the processor, whatever the instructions, the periods, the speeds and   *)
(* modes selected and the accesses.                                        *)
(***************************************************************************)
EXTENDS ScheduleProperties, FiniteSetTheorems, TLAPS

-----------------------------------------------------------------------------
(* Induction over the numbers, for the members of a set.                   *)

\* Induction for a set: a number that is missing would have a predecessor that is missing,
\* and there are not enough smaller ones.
LEMMA InductionOnSet ==
  ASSUME NEW S, 0 \in S, \A k \in Nat : k \in S => k + 1 \in S
  PROVE  Nat \subseteq S
<1> SUFFICES ASSUME NEW n \in Nat, n \notin S PROVE FALSE
  OBVIOUS
<1> DEFINE U == {k \in 0 .. n : k \notin S}
           f == [k \in U |-> k - 1]
<1>1. \A k \in U : k - 1 \in U \ {n}
  <2> SUFFICES ASSUME NEW k \in 0 .. n, k \notin S
               PROVE  k - 1 \in 0 .. n /\ k - 1 # n /\ k - 1 \notin S
    OBVIOUS
  <2>1. k # 0 /\ k - 1 \in Nat /\ (k - 1) + 1 = k
    OBVIOUS
  <2> QED  BY <2>1
<1>2. IsFiniteSet(0 .. n) /\ U \in SUBSET (0 .. n) /\ n \in U
  BY FS_Interval
<1>3. IsFiniteSet(U)
  BY <1>2, FS_Subset
<1> HIDE DEF U
<1>4. IsFiniteSet(U \ {n}) /\ Cardinality(U \ {n}) = Cardinality(U) - 1 /\ Cardinality(U) \in Nat
  BY <1>2, <1>3, FS_RemoveElement, FS_CardinalityType
<1>5. f \in [U -> U \ {n}]
  BY <1>1
<1>6. \E x, y \in U : x # y /\ f[x] = f[y]
  <2> HIDE DEF f
  <2>1. Cardinality(U \ {n}) < Cardinality(U)
    BY <1>4
  <2> QED  BY <1>3, <1>4, <1>5, <2>1, FS_PigeonHole
<1>7. \A k \in U : k \in Int
  BY DEF U
<1> QED  BY <1>6, <1>7


-----------------------------------------------------------------------------
(* Division.                                                               *)

\* A number is its quotient times the divisor plus its remainder.
LEMMA Division ==
  ASSUME NEW a \in Nat, NEW h \in Nat \ {0}
  PROVE  /\ a \div h \in Nat /\ a % h \in Nat
         /\ a % h < h
         /\ a = h * (a \div h) + (a % h)
  BY Z3

\* A multiple of a positive number is at least as large as the factor requires.
LEMMA Multiples ==
  ASSUME NEW h \in Nat \ {0}, NEW d \in Int
  PROVE  /\ d >= 1 => h * d >= h
         /\ d >= 2 => h * d >= 2 * h
         /\ d <= -1 => h * d <= -h
  BY Z3

\* A step shorter than the period passes a multiple of it exactly when the remainder
\* becomes smaller.
LEMMA Wrapping ==
  ASSUME NEW a \in Nat, NEW s \in Nat, NEW h \in Nat \ {0}, s < h
  PROVE  (a + s) \div h = (a \div h) + (IF (a + s) % h < a % h THEN 1 ELSE 0)
<1> DEFINE b == a + s
           q == a \div h
           p == b \div h
           r == a % h
           t == b % h
           d == p - q
<1>1. /\ q \in Nat /\ r \in Nat /\ r < h /\ a = h * q + r
      /\ p \in Nat /\ t \in Nat /\ t < h /\ b = h * p + t
  BY Division
<1> HIDE DEF q, p, r, t
<1>2. h * d = r + s - t /\ d \in Int
  <2>1. h * d = h * p - h * q
    BY <1>1, Z3
  <2> QED
    BY <1>1, <2>1
<1>3. d = 0 \/ d = 1
  <2> HIDE DEF d
  <2>1. h * d < 2 * h /\ h * d > -h
    BY <1>1, <1>2
  <2> QED
    BY <1>2, <2>1, Multiples
<1>4. CASE d = 0
  BY <1>1, <1>2, <1>4 DEF d, q, p, r, t
<1>5. CASE d = 1
  BY <1>1, <1>2, <1>5 DEF d, q, p, r, t
<1> QED
  BY <1>3, <1>4, <1>5

-----------------------------------------------------------------------------
(* Steps of the processor.                                                 *)

\* What a step that takes so long does to the variables the theorems are about.
Elapses(time) ==
  /\ mTicks < end_cycle
  /\ mTicks' = mTicks + time
  /\ samples' = IF Wrapped(mTicks, mTicks') THEN samples + 1 ELSE samples
  /\ UNCHANGED <<end_cycle, pia, keyboard>>

\* Accesses to the VIA stretch an instruction by no more than the assumption allows.
LEMMA Stretched ==
  ASSUME NEW reads \in 0..MaxReads,
         NEW stretched \in (reads * (ViaCycle - 1))..(reads * (2 * ViaCycle - 2))
  PROVE  stretched \in Nat /\ stretched <= MaxReads * (2 * ViaCycle - 2)
<1> DEFINE most == 2 * ViaCycle - 2
           least == ViaCycle - 1
<1>1. reads \in Nat /\ MaxReads \in Nat /\ reads <= MaxReads /\ most \in Nat /\ least \in Nat
  BY ScheduleAssumption
<1> HIDE DEF most, least
<1>2. reads * least \in Nat /\ reads * most \in Nat /\ reads * most <= MaxReads * most
  BY <1>1, Z3
<1> QED
  BY <1>1, <1>2 DEF most, least

\* Whatever the processor, a step is shorter than the period of the high rate.
LEMMA StepsAreShort ==
  ASSUME Instruction \/ StretchedCycle \/ AccessCycle
  PROVE  \E time \in Nat : time < HighPeriod /\ Elapses(time)
<1>1. CASE Instruction
  <2>1. PICK cycles \in Cycles, reads \in 0..MaxReads :
          \E stretched \in (reads * (ViaCycle - 1))..(reads * (2 * ViaCycle - 2)) :
             Advance(cycles + stretched, reads)
    BY <1>1 DEF Instruction
  <2>2. PICK stretched \in (reads * (ViaCycle - 1))..(reads * (2 * ViaCycle - 2)) :
          Advance(cycles + stretched, reads)
    BY <2>1
  <2>3. stretched \in Nat /\ stretched <= MaxReads * (2 * ViaCycle - 2)
    BY Stretched
  <2> DEFINE most == MaxReads * (2 * ViaCycle - 2)
  <2>4. cycles \in Nat /\ cycles + most < HighPeriod /\ HighPeriod \in Nat
    BY ScheduleAssumption
  <2>5. most \in Int
    BY ScheduleAssumption, Z3
  <2> HIDE DEF most
  <2>6. cycles + stretched \in Nat /\ cycles + stretched < HighPeriod
    BY <2>3, <2>4, <2>5 DEF most
  <2> QED
    BY <2>2, <2>6 DEF Advance, Elapses
<1>2. CASE StretchedCycle
  BY <1>2, ScheduleAssumption DEF StretchedCycle, Advance, Elapses
<1>3. CASE AccessCycle
  BY <1>3, ScheduleAssumption DEF AccessCycle, Advance, Elapses
<1> QED
  BY <1>1, <1>2, <1>3

-----------------------------------------------------------------------------
(* The high rate.                                                          *)

HighInv == mTicks \in Nat /\ samples \in Nat /\ HighServed

\* Every step keeps the invariant of the high rate.
LEMMA HighInvStep == HighInv /\ [Next]_vars => HighInv'
<1> SUFFICES ASSUME HighInv, [Next]_vars PROVE HighInv'
  OBVIOUS
<1>1. CASE Instruction \/ StretchedCycle \/ AccessCycle
  <2>1. PICK time \in Nat : time < HighPeriod /\ Elapses(time)
    BY <1>1, StepsAreShort
  <2>2. (mTicks + time) \div HighPeriod
          = (mTicks \div HighPeriod)
              + (IF (mTicks + time) % HighPeriod < mTicks % HighPeriod THEN 1 ELSE 0)
    BY <2>1, Wrapping, ScheduleAssumption DEF HighInv
  <2> QED
    BY <2>1, <2>2 DEF HighInv, HighServed, Elapses, Wrapped
<1>2. CASE StartPeriod
  BY <1>2 DEF HighInv, HighServed, StartPeriod
<1>3. CASE UNCHANGED vars
  BY <1>3 DEF HighInv, HighServed, vars
<1> QED
  BY <1>1, <1>2, <1>3 DEF Next

\* The devices of the high rate are served once per period of that rate, although the
\* engine only sees the remainder of the time become smaller (Engine::run).
THEOREM HighRate == Spec => []HighServed
<1>1. Init => HighInv
  BY ScheduleAssumption DEF Init, HighInv, HighServed
<1>2. HighInv => HighServed
  BY DEF HighInv
<1> QED
  BY <1>1, <1>2, HighInvStep, PTL DEF Spec

-----------------------------------------------------------------------------
(* The low rate.                                                           *)

\* The time stays within the ints the keyboards compute it with: 18 minutes at 2 MHz.
NoOverflow ==
  /\ IntRange <= LongRange
  /\ \A r \in Refreshes : Horizon + LowPeriod + r < IntRange \div 2

LowInv ==
  /\ mTicks \in Nat /\ end_cycle \in Nat
  /\ keyboard \in [ticks : Nat, refresh : Refreshes, BREAK : BOOLEAN]
  /\ pia = end_cycle
  /\ end_cycle <= mTicks + LowPeriod
  /\ mTicks < end_cycle + HighPeriod
  /\ end_cycle < keyboard.ticks + keyboard.refresh
  /\ keyboard.ticks <= Horizon + LowPeriod

\* Within the range of an int the conversions change nothing.
LEMMA Conversions ==
  ASSUME NEW x \in Nat, x < IntRange \div 2, IntRange <= LongRange
  PROVE  ToUnsigned(ToInt(x)) = x
<1> DEFINE half == IntRange \div 2
<1>1. IntRange \in Nat /\ LongRange \in Nat /\ half \in Nat /\ 2 * half <= IntRange
  BY ScheduleAssumption
<1>2. (x + half) % IntRange = x + half
  <2> HIDE DEF half
  <2>1. x + half \in Nat /\ x + half < IntRange
    BY <1>1 DEF half
  <2> QED
    BY <1>1, <2>1, Z3
<1>3. ToInt(x) = x
  BY <1>1, <1>2 DEF ToInt
<1>4. x % LongRange = x
  BY <1>1, Z3
<1> QED
  BY <1>3, <1>4 DEF ToUnsigned

\* Every step keeps the invariant of the low rate.
LEMMA LowInvStep == NoOverflow /\ LowInv /\ [Next]_vars => LowInv'
<1> SUFFICES ASSUME NoOverflow, LowInv, [Next]_vars PROVE LowInv'
  OBVIOUS
<1>1. CASE Instruction \/ StretchedCycle \/ AccessCycle
  <2>1. PICK time \in Nat : time < HighPeriod /\ Elapses(time)
    BY <1>1, StepsAreShort
  <2> QED
    BY <2>1, ScheduleAssumption DEF LowInv, Elapses
<1>2. CASE StartPeriod
  <2> DEFINE tick == mTicks + LowPeriod
  <2>1. PICK refresh \in Refreshes, pressed \in BOOLEAN :
          keyboard' = KeyboardUntil([keyboard EXCEPT !.refresh = refresh], pressed, tick)
    BY <1>2 DEF StartPeriod, LowInv
  <2> DEFINE k == [keyboard EXCEPT !.refresh = refresh]
  <2>2. /\ k \in [ticks : Nat, refresh : Refreshes, BREAK : BOOLEAN]
        /\ k.ticks = keyboard.ticks /\ k.refresh = refresh
    BY DEF LowInv
  <2>3. refresh \in Nat \ {0} /\ mTicks \in Nat /\ tick \in Nat /\ mTicks < Horizon
        /\ Horizon \in Nat /\ LowPeriod \in Nat /\ IntRange \in Nat
    BY <1>2, ScheduleAssumption DEF LowInv, StartPeriod
  <2>4. ToUnsigned(ToInt(k.ticks + refresh)) = k.ticks + refresh
    <3>1. k.ticks + refresh \in Nat /\ k.ticks + refresh < IntRange \div 2
      BY <2>2, <2>3 DEF LowInv, NoOverflow
    <3> QED
      BY <3>1, Conversions DEF NoOverflow
  <2>5. /\ keyboard' \in [ticks : Nat, refresh : Refreshes, BREAK : BOOLEAN]
        /\ tick < keyboard'.ticks + keyboard'.refresh
        /\ keyboard'.ticks <= Horizon + LowPeriod
    <3> HIDE DEF k
    <3>1. CASE tick < k.ticks + refresh
      <4>1. keyboard' = k
        BY <2>1, <2>2, <2>4, <3>1 DEF KeyboardUntil, k
      <4> QED
        BY <2>2, <3>1, <4>1 DEF LowInv
    <3>2. CASE ~(tick < k.ticks + refresh)
      <4>1. keyboard' = [k EXCEPT !.ticks = tick, !.BREAK = ~pressed]
        BY <2>1, <2>2, <2>4, <3>2 DEF KeyboardUntil, k
      <4>2. keyboard'.ticks = tick /\ keyboard'.refresh = refresh
            /\ keyboard' \in [ticks : Nat, refresh : Refreshes, BREAK : BOOLEAN]
        BY <2>2, <2>3, <4>1
      <4> QED
        BY <2>3, <4>2
    <3> QED
      BY <3>1, <3>2
  <2>6. mTicks' = mTicks /\ end_cycle' = tick /\ pia' = tick
    BY <1>2 DEF StartPeriod
  <2> QED
    BY <2>3, <2>5, <2>6, ScheduleAssumption DEF LowInv
<1>3. CASE UNCHANGED vars
  BY <1>3 DEF LowInv, vars
<1> QED
  BY <1>1, <1>2, <1>3 DEF Next

\* As long as the time fits an int, the devices of the low rate keep within a period of
\* the processor and the keyboard is polled once per refresh time (Engine::run,
\* BeebKeyboard::advanceUntil).
THEOREM LowRate ==
  ASSUME NoOverflow
  PROVE  Spec => []LowRateInTime
<1>1. Init => LowInv
  <2> SUFFICES ASSUME Init PROVE LowInv
    OBVIOUS
  <2>1. PICK refresh \in Refreshes :
          keyboard = [ticks |-> 0, refresh |-> refresh, BREAK |-> TRUE]
    BY DEF Init
  <2>2. /\ keyboard \in [ticks : Nat, refresh : Refreshes, BREAK : BOOLEAN]
        /\ keyboard.ticks = 0 /\ keyboard.refresh \in Refreshes
    BY <2>1
  <2>3. keyboard.refresh \in Nat \ {0}
    BY <2>2, ScheduleAssumption
  <2> QED
    BY <2>2, <2>3, ScheduleAssumption DEF Init, LowInv
<1>2. LowInv => LowRateInTime
  <2> SUFFICES ASSUME LowInv PROVE LowRateInTime
    OBVIOUS
  <2>1. keyboard.ticks \in Nat /\ keyboard.refresh \in Nat
    BY ScheduleAssumption DEF LowInv
  <2> QED
    BY <2>1, ScheduleAssumption DEF LowInv, LowRateInTime
<1>3. LowInv /\ [Next]_vars => LowInv'
  BY LowInvStep
<1> QED
  BY <1>1, <1>2, <1>3, PTL DEF Spec

-----------------------------------------------------------------------------
(* The VIA.                                                                *)

\* The clock of the VIA is that of the processor, or half of it: 1 MHz in machines whose
\* processor runs at 1 or 2 MHz.
ViaClocks == ViaCycle \in {1, 2}

\* The next even time.
Up(t) == t + (t % 2)

\* Time rounded up to a VIA cycle.
LEMMA UpIs ==
  ASSUME NEW t \in Nat
  PROVE  /\ Up(t) \in Nat /\ Up(t) \in {t, t + 1} /\ Up(t) % 2 = 0
         /\ 2 * ((t + 2 - 1) \div 2) = Up(t)
         /\ Up(t + 2) = Up(t) + 2
BY Z3 DEF Up

\* Rounding up adds at most one.
LEMMA UpBounds ==
  ASSUME NEW t \in Nat
  PROVE  Up(t) \in Nat /\ t <= Up(t) /\ Up(t) <= t + 1
<1>1. Up(t) \in Nat /\ Up(t) \in {t, t + 1}
  BY UpIs
<1> QED  BY <1>1

\* Where an advance to `stop' takes the VIA.
LEMMA Until ==
  ASSUME ViaClocks, NEW v, v.ticks \in Nat, NEW reset, NEW stop \in Nat
  PROVE  LET u == ViaUntil(v, reset, stop).ticks
         IN  \/ u = stop
             \/ stop <= v.ticks /\ u = v.ticks
             \/ ViaCycle = 2 /\ v.ticks < stop /\ u = Up(stop)
<1> DEFINE t == v.ticks
           cycle(x) == ViaCycle * ((x + ViaCycle - 1) \div ViaCycle)
           u == ViaUntil(v, reset, stop).ticks
<1>1. \/ u = stop
      \/ stop <= t /\ u = t
      \/ ~ (stop <= t) /\ ~ (stop <= cycle(t)) /\ u = cycle(stop)
  BY DEF ViaUntil
<1>2. CASE ViaCycle = 2
  <2>1. cycle(stop) = Up(stop)
    BY <1>2, UpIs
  <2>2. cycle(t) >= t
    BY <1>2
  <2> HIDE DEF cycle, u
  <2>3. u = stop \/ (stop <= t /\ u = t) \/ (t < stop /\ u = Up(stop))
    BY <1>1, <1>2, <2>1
  <2> QED  BY <1>2, <2>3 DEF u
<1>3. CASE ViaCycle = 1
  <2>1. cycle(stop) = stop
    BY <1>3, Z3
  <2> HIDE DEF cycle, u
  <2>2. u = stop \/ (stop <= t /\ u = t)
    BY <1>1, <2>1
  <2> QED  BY <2>2 DEF u
<1> QED  BY <1>2, <1>3 DEF ViaClocks

\* A read takes it to the end of another cycle.
LEMMA ReadTakesCycle ==
  ASSUME ViaClocks, NEW v, v.ticks \in Nat, NEW reset
  PROVE  LET u == ViaRead(v, reset).ticks
         IN  /\ u \in Nat
             /\ ViaCycle = 1 => u = v.ticks + 1
             /\ ViaCycle = 2 => Up(u) = Up(v.ticks) + 2
<1> DEFINE t == v.ticks
           u == ViaRead(v, reset).ticks
           stop == t + ViaCycle
<1>1. t \in Nat /\ stop \in Nat /\ stop > t
  BY DEF ViaClocks
<1>2. \/ u = stop
      \/ stop <= t /\ u = t
      \/ ViaCycle = 2 /\ t < stop /\ u = Up(stop)
  BY <1>1, Until DEF ViaRead
<1> HIDE DEF u, t
<1>3. CASE ViaCycle = 1
  <2>1. u = t + 1
    BY <1>1, <1>2, <1>3
  <2> QED  BY <1>1, <1>3, <2>1 DEF t, u
<1>4. CASE ViaCycle = 2
  <2>1. Up(stop) = Up(t) + 2 /\ Up(Up(stop)) = Up(stop) /\ Up(stop) \in Nat
    <3>1. \A x \in Nat : x % 2 = 0 => Up(x) = x
      BY DEF Up
    <3> QED  BY <1>1, <1>4, <3>1, UpIs
  <2>2. u \in Nat /\ Up(u) = Up(t) + 2
    BY <1>1, <1>2, <1>4, <2>1
  <2> QED  BY <1>4, <2>2 DEF t, u
<1> QED  BY <1>3, <1>4 DEF ViaClocks

\* So do several reads, each in its turn.
LEMMA ReadsTakeCycles ==
  ASSUME ViaClocks, NEW v, v.ticks \in Nat, NEW reset, NEW reads \in Nat
  PROVE  LET u == ViaReads(v, reset, reads).ticks
         IN  /\ u \in Nat
             /\ reads = 0 => u = v.ticks
             /\ ViaCycle = 1 => u = v.ticks + reads
             /\ ViaCycle = 2 => Up(u) = Up(v.ticks) + 2 * reads
<1> DEFINE Read(w) == ViaRead(w, reset)
           Is(f, m) == f = [n \in 0 .. m |-> IF n = 0 THEN v ELSE Read(f[n - 1])]
           S == {m \in Nat : \E f : Is(f, m)}
<1> HIDE DEF Read
<1>1. 0 \in S
  <2> DEFINE f == [n \in 0 .. 0 |-> v]
  <2>1. Is(f, 0)
    OBVIOUS
  <2> QED  BY <2>1
<1>2. ASSUME NEW m \in Nat, m \in S PROVE m + 1 \in S
  <2>1. PICK f : Is(f, m)
    BY <1>2
  <2> DEFINE g == [n \in 0 .. m + 1 |-> IF n = m + 1 THEN Read(f[m]) ELSE f[n]]
  <2>2. \A n \in 0 .. m : f[n] = IF n = 0 THEN v ELSE Read(f[n - 1])
    BY <2>1
  <2>3. \A n \in 0 .. m + 1 : g[n] = IF n = 0 THEN v ELSE Read(g[n - 1])
    <3> TAKE n \in 0 .. m + 1
    <3>1. CASE n = m + 1
      BY <3>1
    <3>2. CASE n \in 0 .. m
      BY <2>2, <3>2
    <3> QED  BY <3>1, <3>2
  <2>4. Is(g, m + 1)
    BY <2>3
  <2> HIDE DEF g, Is
  <2> QED  BY <2>4
<1>3. reads \in S
  <2> HIDE DEF S
  <2> QED  BY <1>1, <1>2, InductionOnSet
<1> DEFINE after == CHOOSE f : Is(f, reads)
<1>4. Is(after, reads)
  <2>1. \E f : Is(f, reads)
    BY <1>3
  <2> HIDE DEF Is
  <2> QED  BY <2>1
<1>5. ViaReads(v, reset, reads) = after[reads]
  BY DEF ViaReads, Read
<1> HIDE DEF after
<1>6. \A n \in 0 .. reads : after[n] = IF n = 0 THEN v ELSE Read(after[n - 1])
  BY <1>4
<1> DEFINE Good(u, n) == /\ u \in Nat
                         /\ n = 0 => u = v.ticks
                         /\ ViaCycle = 1 => u = v.ticks + n
                         /\ ViaCycle = 2 => Up(u) = Up(v.ticks) + 2 * n
           T == {n \in Nat : n \in 0 .. reads => Good(after[n].ticks, n)}
<1>7. 0 \in T
  <2>1. Up(v.ticks) \in Nat
    BY UpIs
  <2> QED  BY <1>6, <2>1
<1>8. ASSUME NEW n \in Nat, n \in T PROVE n + 1 \in T
  <2> SUFFICES ASSUME n + 1 \in 0 .. reads PROVE Good(after[n + 1].ticks, n + 1)
    OBVIOUS
  <2>1. n \in 0 .. reads /\ Good(after[n].ticks, n)
    BY <1>8
  <2> DEFINE w == after[n]
             u == ViaRead(w, reset).ticks
  <2>2. after[n + 1] = ViaRead(w, reset)
    BY <1>6 DEF Read
  <2>3. w.ticks \in Nat
    BY <2>1
  <2> HIDE DEF w
  <2>4. u \in Nat /\ (ViaCycle = 1 => u = w.ticks + 1) /\ (ViaCycle = 2 => Up(u) = Up(w.ticks) + 2)
    BY <2>3, ReadTakesCycle
  <2> HIDE DEF u
  <2>5. Good(w.ticks, n) /\ Up(v.ticks) \in Nat
    BY <2>1, UpIs DEF w
  <2>6. Good(u, n + 1)
    BY <2>4, <2>5
  <2> QED  BY <2>2, <2>6 DEF u
<1>9. reads \in T
  <2> HIDE DEF T
  <2> QED  BY <1>7, <1>8, InductionOnSet
<1> QED  BY <1>5, <1>9

\* An advance with reads takes it to `stop', to the end of the cycle `stop' is in, or
\* leaves it where the reads have taken it.
LEMMA Advanced ==
  ASSUME ViaClocks, NEW v, v.ticks \in Nat, NEW reset, NEW reads \in Nat, NEW stop \in Nat
  PROVE  LET u == ViaUntil(ViaReads(v, reset, reads), reset, stop).ticks
         IN  /\ u \in Nat /\ u >= stop
             /\ \/ u = stop
                \/ ViaCycle = 2 /\ u = Up(stop)
                \/ /\ reads = 0 => u = v.ticks
                   /\ ViaCycle = 1 => u = v.ticks + reads
                   /\ ViaCycle = 2 => Up(u) = Up(v.ticks) + 2 * reads
<1> DEFINE read == ViaReads(v, reset, reads)
           w == read.ticks
           u == ViaUntil(read, reset, stop).ticks
<1>1. /\ w \in Nat
      /\ reads = 0 => w = v.ticks
      /\ ViaCycle = 1 => w = v.ticks + reads
      /\ ViaCycle = 2 => Up(w) = Up(v.ticks) + 2 * reads
  BY ReadsTakeCycles
<1> HIDE DEF read
<1>2. u = stop \/ (stop <= w /\ u = w) \/ (ViaCycle = 2 /\ w < stop /\ u = Up(stop))
  BY <1>1, Until
<1> HIDE DEF w, u
<1>3. Up(stop) \in Nat /\ Up(stop) >= stop
  BY UpBounds
<1>4. u \in Nat /\ u >= stop
  BY <1>1, <1>2, <1>3
<1>5. \/ u = stop
      \/ ViaCycle = 2 /\ u = Up(stop)
      \/ u = w
  BY <1>2
<1>6. \/ u = stop
      \/ ViaCycle = 2 /\ u = Up(stop)
      \/ /\ reads = 0 => u = v.ticks
         /\ ViaCycle = 1 => u = v.ticks + reads
         /\ ViaCycle = 2 => Up(u) = Up(v.ticks) + 2 * reads
  BY <1>1, <1>5
<1> QED  BY <1>4, <1>6 DEF u, read

\* How far the VIA is ahead.  The instruction-accurate processor makes its reads in the
\* course of an instruction, whose end catches up with them.  The cycle-accurate one
\* makes a stretched access in its last cycle: before it the VIA is at most at the end
\* of the cycle of its clock the processor is in, after it at most a cycle further.
Ahead(v, m, kind, pending) ==
  /\ ViaCycle = 1 => v = m /\ ~ pending
  /\ ViaCycle = 2 /\ kind = "CPU_6502" => v <= m + 1
  /\ ViaCycle = 2 /\ kind = "CPU_6502CC" /\ pending => v = m \/ (v = m + 1 /\ v % 2 = 0)
  /\ ViaCycle = 2 /\ kind = "CPU_6502CC" /\ ~ pending => v <= m + 1 \/ (v = m + 2 /\ v % 2 = 0)

Processors == [kind : {"CPU_6502", "CPU_6502CC"}, stretched : Nat, pending : BOOLEAN]

ViaInv ==
  /\ mTicks \in Nat /\ via.ticks \in Nat
  /\ cpu \in Processors
  /\ mTicks <= via.ticks
  /\ Ahead(via.ticks, mTicks, cpu.kind, cpu.pending)

\* An instruction.
LEMMA InstructionAhead ==
  ASSUME ViaClocks, NEW v \in Nat, NEW m \in Nat, NEW u \in Nat, NEW n \in Nat, NEW reads \in Nat,
         m <= v, v <= m + ViaCycle - 1, n > m + reads * ViaCycle, u >= n,
         \/ u = n
         \/ ViaCycle = 2 /\ u = Up(n)
         \/ /\ ViaCycle = 1 => u = v + reads
            /\ ViaCycle = 2 => Up(u) = Up(v) + 2 * reads
  PROVE  u <= n + ViaCycle - 1
<1>1. /\ Up(n) <= n + 1 /\ Up(v) <= v + 1 /\ u <= Up(u)
      /\ Up(n) \in Nat /\ Up(v) \in Nat /\ Up(u) \in Nat
  BY UpBounds
<1>2. CASE ViaCycle = 1
  BY <1>2
<1>3. CASE ViaCycle = 2
  BY <1>1, <1>3
<1> QED  BY <1>2, <1>3 DEF ViaClocks

\* A cycle of the cycle-accurate processor; q is whether a stretched access is pending
\* after it.
LEMMA CycleAhead ==
  ASSUME ViaClocks, NEW v \in Nat, NEW m \in Nat, NEW u \in Nat, NEW reads \in 0 .. 1,
         NEW p \in BOOLEAN, NEW q \in BOOLEAN,
         m <= v, Ahead(v, m, "CPU_6502CC", p), u >= m + 1,
         \/ u = m + 1
         \/ ViaCycle = 2 /\ u = Up(m + 1)
         \/ /\ reads = 0 => u = v
            /\ ViaCycle = 1 => u = v + reads
            /\ ViaCycle = 2 => Up(u) = Up(v) + 2 * reads,
         ViaCycle = 1 => ~ q,
         ViaCycle = 2 /\ reads = 1 => p /\ ~ q
  PROVE  Ahead(u, m + 1, "CPU_6502CC", q)
<1>1. CASE ViaCycle = 1
  BY <1>1 DEF Ahead
<1>2. CASE ViaCycle = 2
  <2>1. CASE u = m + 1
    BY <1>2, <2>1 DEF Ahead
  <2>2. CASE u = Up(m + 1)
    <3>1. u \in {m + 1, m + 2} /\ u % 2 = 0
      BY <2>2, UpIs
    <3> QED  BY <1>2, <3>1 DEF Ahead
  <2>3. CASE reads = 0 /\ u = v
    BY <1>2, <2>3 DEF Ahead
  <2>4. CASE reads = 1 /\ Up(u) = Up(v) + 2
    <3>1. v = m \/ (v = m + 1 /\ v % 2 = 0)
      BY <1>2, <2>4 DEF Ahead
    <3>2. Up(u) \in {u, u + 1} /\ Up(v) \in {v, v + 1} /\ Up(u) % 2 = 0 /\ Up(v) % 2 = 0
      BY UpIs
    <3>3. v % 2 = 0 => Up(v) = v
      BY DEF Up
    <3>4. u <= m + 2 \/ (u = m + 3 /\ u % 2 = 0)
      BY <3>1, <3>2, <3>3, <2>4
    <3> QED  BY <1>2, <2>4, <3>4 DEF Ahead
  <2> QED  BY <1>2, <2>1, <2>2, <2>3, <2>4
<1> QED  BY <1>1, <1>2 DEF ViaClocks

\* Every step keeps the invariant of the VIA's clock.
LEMMA ViaInvStep == ViaClocks /\ ViaInv /\ [Next]_vars => ViaInv'
<1> SUFFICES ASSUME ViaClocks, ViaInv, [Next]_vars PROVE ViaInv'
  OBVIOUS
<1> DEFINE v == via.ticks
           m == mTicks
           reset == keyboard.BREAK
<1>1. /\ m \in Nat /\ v \in Nat /\ m <= v /\ via.ticks = v
      /\ cpu \in Processors /\ Ahead(v, m, cpu.kind, cpu.pending)
  BY DEF ViaInv
<1>2. CASE Instruction
  <2>1. cpu.kind = "CPU_6502" /\ cpu' = cpu
    BY <1>2 DEF Instruction
  <2>2. PICK cycles \in Cycles, reads \in 0 .. MaxReads :
          /\ reads < cycles
          /\ \E stretched \in (reads * (ViaCycle - 1)) .. (reads * (2 * ViaCycle - 2)) :
               Advance(cycles + stretched, reads)
    BY <1>2 DEF Instruction
  <2>3. PICK stretched \in (reads * (ViaCycle - 1)) .. (reads * (2 * ViaCycle - 2)) :
          Advance(cycles + stretched, reads)
    BY <2>2
  <2> DEFINE n == mTicks + (cycles + stretched)
             u == ViaUntil(ViaReads(via, reset, reads), reset, n).ticks
  <2>4. mTicks' = n /\ via'.ticks = u
    BY <2>3 DEF Advance
  <2>5. reads \in Nat /\ cycles \in Nat
    BY ScheduleAssumption
  <2>6. n \in Nat /\ n > m + reads * ViaCycle
    <3>1. CASE ViaCycle = 1
      BY <1>1, <2>2, <2>5, <3>1
    <3>2. CASE ViaCycle = 2
      BY <1>1, <2>2, <2>5, <3>2
    <3> QED  BY <3>1, <3>2 DEF ViaClocks
  <2> HIDE DEF n
  <2>7. /\ u \in Nat /\ u >= n
        /\ \/ u = n
           \/ ViaCycle = 2 /\ u = Up(n)
           \/ /\ reads = 0 => u = v
              /\ ViaCycle = 1 => u = v + reads
              /\ ViaCycle = 2 => Up(u) = Up(v) + 2 * reads
    BY <1>1, <2>5, <2>6, Advanced
  <2> HIDE DEF u, v, m
  <2>8. v <= m + ViaCycle - 1
    BY <1>1, <2>1 DEF Ahead, ViaClocks
  <2>9. u <= n + ViaCycle - 1
    BY <1>1, <2>5, <2>6, <2>7, <2>8, InstructionAhead
  <2>10. ViaCycle = 1 => ~ cpu.pending
    BY <1>1 DEF Ahead
  <2>11. Ahead(u, n, cpu.kind, cpu.pending)
    BY <2>1, <2>6, <2>7, <2>9, <2>10 DEF Ahead
  <2> QED  BY <1>1, <2>1, <2>4, <2>6, <2>7, <2>11 DEF ViaInv
<1>3. ASSUME NEW reads \in 0 .. 1, Advance(1, reads), cpu.kind = "CPU_6502CC",
             cpu' \in Processors, cpu'.kind = cpu.kind,
             ViaCycle = 1 => ~ cpu'.pending,
             ViaCycle = 2 /\ reads = 1 => cpu.pending /\ ~ cpu'.pending
      PROVE  ViaInv'
  <2> DEFINE n == mTicks + 1
             u == ViaUntil(ViaReads(via, reset, reads), reset, n).ticks
  <2>1. mTicks' = n /\ via'.ticks = u
    BY <1>3 DEF Advance
  <2>2. n \in Nat /\ reads \in Nat /\ n = m + 1
    BY <1>1
  <2> HIDE DEF n
  <2>3. /\ u \in Nat /\ u >= n
        /\ \/ u = n
           \/ ViaCycle = 2 /\ u = Up(n)
           \/ /\ reads = 0 => u = v
              /\ ViaCycle = 1 => u = v + reads
              /\ ViaCycle = 2 => Up(u) = Up(v) + 2 * reads
    BY <1>1, <2>2, Advanced
  <2> DEFINE p == cpu.pending
             q == cpu'.pending
  <2>4. p \in BOOLEAN /\ q \in BOOLEAN /\ Ahead(v, m, "CPU_6502CC", p)
    BY <1>1, <1>3 DEF Processors
  <2>5. (ViaCycle = 1 => ~ q) /\ (ViaCycle = 2 /\ reads = 1 => p /\ ~ q)
    BY <1>3
  <2> HIDE DEF u, v, m, p, q
  <2>6. Ahead(u, m + 1, "CPU_6502CC", q)
    BY <1>1, <2>2, <2>3, <2>4, <2>5, CycleAhead
  <2> QED  BY <1>3, <2>1, <2>2, <2>3, <2>6 DEF ViaInv, q
<1>4. CASE StretchedCycle
  <2>1. PICK left \in IF cpu.pending THEN {cpu.stretched} ELSE Stretches :
          left > 0 /\ cpu' = [cpu EXCEPT !.stretched = left - 1, !.pending = TRUE]
    BY <1>4 DEF StretchedCycle
  <2>2. cpu.kind = "CPU_6502CC" /\ Advance(1, 0)
    BY <1>4 DEF StretchedCycle
  <2>3. ViaCycle # 1
    <3>1. ViaCycle = 1 => Stretches = 0 .. 0 /\ ~ cpu.pending
      BY <1>1 DEF Ahead, Stretches
    <3> QED  BY <2>1, <3>1
  <2>4. left - 1 \in Nat
    BY <1>1, <2>1, <2>3 DEF Processors, Stretches, ViaClocks
  <2>5. cpu' \in Processors /\ cpu'.kind = cpu.kind
    BY <1>1, <2>1, <2>4 DEF Processors
  <2> QED  BY <1>3, <2>2, <2>3, <2>5
<1>5. CASE AccessCycle
  <2>1. PICK reads \in IF cpu.pending \/ 0 \in Stretches THEN 0 .. 1 ELSE {0} : Advance(1, reads)
    BY <1>5 DEF AccessCycle
  <2>2. cpu.kind = "CPU_6502CC" /\ cpu' = [cpu EXCEPT !.pending = FALSE]
    BY <1>5 DEF AccessCycle
  <2>3. cpu' \in Processors /\ cpu'.kind = cpu.kind /\ ~ cpu'.pending
    BY <1>1, <2>2 DEF Processors
  <2>4. reads \in 0 .. 1 /\ (ViaCycle = 2 /\ reads = 1 => cpu.pending)
    BY <2>1 DEF Stretches
  <2> QED  BY <1>3, <2>1, <2>2, <2>3, <2>4
<1>6. CASE StartPeriod
  BY <1>6 DEF StartPeriod, ViaInv
<1>7. CASE UNCHANGED vars
  BY <1>7 DEF vars, ViaInv
<1> QED  BY <1>2, <1>4, <1>5, <1>6, <1>7 DEF Next

\* After every step the VIA has reached the time of the processor and is ahead of it by
\* a cycle of its clock at most, although every read takes it a cycle further than the
\* schedule does, and the start of a RESET out of step with its clock: in the machines
\* whose VIA runs at 1 MHz and whose processor at 1 or 2 MHz.
THEOREM ViaRate == ASSUME ViaClocks PROVE Spec => []ViaInTime
<1>1. Init => ViaInv
  <2> SUFFICES ASSUME Init PROVE ViaInv
    OBVIOUS
  <2>1. /\ mTicks = 0 /\ via.ticks = 0
        /\ cpu \in [kind : {"CPU_6502", "CPU_6502CC"}, stretched : {0}, pending : {FALSE}]
    BY DEF Init
  <2>2. cpu \in Processors /\ cpu.pending = FALSE
    <3>1. cpu.pending \in {FALSE} /\ cpu.stretched \in {0}
      BY <2>1
    <3>2. cpu \in [kind : {"CPU_6502", "CPU_6502CC"}, stretched : {0}, pending : BOOLEAN]
      <4>1. {FALSE} \subseteq BOOLEAN
        OBVIOUS
      <4> DEFINE F == {FALSE}
      <4>2. /\ cpu \in [kind : {"CPU_6502", "CPU_6502CC"}, stretched : {0}, pending : F]
            /\ F \subseteq BOOLEAN
        BY <2>1, <4>1
      <4> HIDE DEF F
      <4> QED  BY <4>2
    <3>3. cpu.pending = FALSE
      BY <3>1
    <3>4. cpu \in Processors
      BY <3>2 DEF Processors
    <3> QED  BY <3>3, <3>4
  <2> DEFINE p == cpu.pending
             k == cpu.kind
  <2>3. p = FALSE
    BY <2>2
  <2> HIDE DEF p, k
  <2>4. Ahead(0, 0, k, p)
    BY <2>3 DEF Ahead
  <2> QED  BY <2>1, <2>2, <2>4 DEF ViaInv, k, p
<1>2. ViaInv => ViaInTime
  BY DEF ViaInv, ViaInTime, Ahead, Processors, ViaClocks
<1>3. ViaInv /\ [Next]_vars => ViaInv'
  BY ViaInvStep
<1> QED  BY <1>1, <1>2, <1>3, PTL DEF Spec
-----------------------------------------------------------------------------
(* The picture.                                                            *)

\* One of the video modes is the slowest: its characters have the most pixels and its
\* pixel rate is the lowest; a line takes a tick in it at least.  The modes of the video
\* ULA are such: 16 / CLK pixels at 2, 4, 8 or 16 MHz.
Slowest(slow) ==
  /\ slow \in Modes
  /\ \A m \in Modes : m[1] <= slow[1] /\ slow[2] <= m[2]
  /\ Round(LineChars * slow[1], slow[2]) > 0

VideoModes ==
  /\ Modes \subseteq (Nat \ {0}) \X (Nat \ {0})
  /\ \E slow \in Modes : Slowest(slow)
  /\ HSync \in 0 .. (LineChars - 1)

\* The times of the picture fit an int.
PictureFits ==
  /\ IntRange <= LongRange
  /\ Horizon + LowPeriod + HighPeriod + LongestLine < IntRange \div 2

\* A rounded quotient grows with its dividend and as its divisor shrinks.
LEMMA Fraction ==
  ASSUME NEW a \in Nat, NEW d \in Nat \ {0}, NEW c \in Nat, NEW e \in Nat \ {0}, a <= c, e <= d
  PROVE  (2 * a + d) \div (2 * d) <= (2 * c + e) \div (2 * e)
<1> DEFINE p == (2 * a + d) \div (2 * d)
           q == (2 * c + e) \div (2 * e)
           x == (2 * a + d) % (2 * d)
           y == (2 * c + e) % (2 * e)
<1>1. p \in Nat /\ x \in Nat /\ 2 * a + d = (2 * d) * p + x
  <2>1. 2 * a + d \in Nat /\ 2 * d \in Nat \ {0}
    OBVIOUS
  <2> QED  BY <2>1, Division
<1>2. q \in Nat /\ y \in Nat /\ y < 2 * e /\ 2 * c + e = (2 * e) * q + y
  <2>1. 2 * c + e \in Nat /\ 2 * e \in Nat \ {0}
    OBVIOUS
  <2> QED  BY <2>1, Division
<1> HIDE DEF p, q, x, y
<1>3. ASSUME p >= q + 1 PROVE FALSE
  <2>1. d * (2 * p - 1) <= 2 * a
    BY <1>1, Z3
  <2>2. e * (2 * q + 1) > 2 * c
    BY <1>2, Z3
  <2>3. 2 * p - 1 >= 2 * q + 1 /\ 2 * p - 1 \in Nat /\ 2 * q + 1 \in Nat
    BY <1>1, <1>2, <1>3
  <2> DEFINE s == 2 * p - 1
             r == 2 * q + 1
  <2> HIDE DEF s, r
  <2>4. e * r <= d * s
    <3>1. s >= r /\ s \in Nat /\ r \in Nat
      BY <2>3 DEF s, r
    <3>2. e * r <= d * r /\ d * r <= d * s
      BY <3>1, Z3
    <3> QED  BY <3>1, <3>2, Z3
  <2>5. d * s <= 2 * a /\ e * r > 2 * c
    BY <2>1, <2>2 DEF s, r
  <2> QED  BY <2>4, <2>5, <2>3, Z3 DEF s, r
<1> QED  BY <1>1, <1>2, <1>3 DEF p, q

\* More pixels at a lower rate take no less time.
LEMMA Rounding ==
  ASSUME NEW a \in Nat, NEW d \in Nat \ {0}, NEW c \in Nat, NEW e \in Nat \ {0}, a <= c, e <= d
  PROVE  Round(a, d) \in Nat /\ Round(a, d) <= Round(c, e)
<1>1. (2 * a + d) \div (2 * d) \in Nat
  <2>1. 2 * a + d \in Nat /\ 2 * d \in Nat \ {0}
    OBVIOUS
  <2> QED  BY <2>1, Division
<1> QED  BY <1>1, Fraction DEF Round

\* The longest line is that of the slowest mode.
LEMMA LongestIs ==
  ASSUME VideoModes, NEW slow, Slowest(slow)
  PROVE  /\ slow[1] \in Nat \ {0} /\ slow[2] \in Nat \ {0}
         /\ LongestLine \in Nat \ {0}
         /\ LongestLine = Round(LineChars * slow[1], slow[2])
<1> DEFINE L == Round(LineChars * slow[1], slow[2])
           Lines == {Round(LineChars * m[1], m[2]) : m \in Modes}
<1>1. slow[1] \in Nat \ {0} /\ slow[2] \in Nat \ {0} /\ LineChars \in Nat \ {0}
  BY ScheduleAssumption DEF VideoModes, Slowest
<1>2. \A m \in Modes : Round(LineChars * m[1], m[2]) \in Nat /\ Round(LineChars * m[1], m[2]) <= L
  <2> TAKE m \in Modes
  <2>1. m[1] \in Nat \ {0} /\ m[2] \in Nat \ {0} /\ m[1] <= slow[1] /\ slow[2] <= m[2]
    BY DEF VideoModes, Slowest
  <2> DEFINE a == LineChars * m[1]
             c == LineChars * slow[1]
  <2>2. a \in Nat /\ c \in Nat /\ a <= c
    BY <1>1, <2>1, Z3
  <2> HIDE DEF a, c
  <2>3. Round(a, m[2]) \in Nat /\ Round(a, m[2]) <= Round(c, slow[2])
    BY <1>1, <2>1, <2>2, Rounding
  <2> QED  BY <2>3 DEF a, c
<1>3. L \in Lines /\ L > 0
  BY DEF Slowest
<1>4. L \in Nat
  BY <1>2 DEF Slowest
<1>5. LongestLine \in Lines /\ \A m \in Modes : Round(LineChars * m[1], m[2]) <= LongestLine
  <2>1. \E t \in Lines : \A m \in Modes : Round(LineChars * m[1], m[2]) <= t
    BY <1>2, <1>3
  <2> QED  BY <2>1 DEF LongestLine
<1>6. LongestLine \in Nat /\ LongestLine <= L
  BY <1>2, <1>5
<1>7. L <= LongestLine
  BY <1>5 DEF Slowest
<1>8. L = LongestLine
  <2> HIDE DEF L
  <2> QED  BY <1>4, <1>6, <1>7
<1> QED  BY <1>1, <1>3, <1>4, <1>8

\* Where in the line the picture is: the characters drawn since the last
\* synchronisation, none of which has more pixels than the slowest mode's.
Drawn(ref, pixels, pos, slow) ==
  /\ ref \in Nat /\ pixels \in Nat /\ pos \in Nat
  /\ pixels <= pos * slow[1]

InLine(pos, halfLine, col) ==
  /\ halfLine => pos <= LineChars
  /\ ~ halfLine => pos <= IF col <= HSync THEN LineChars - HSync + col ELSE col - HSync

Picture(v, slow) ==
  /\ v \in VideoState /\ v.ref <= v.ticks
  /\ Drawn(v.ref, v.pixels, v.pos, slow)
  /\ InLine(v.pos, v.halfLine, v.col)

\* The times of the picture are within the ranges of the integer types.
LEMMA TimeFits ==
  ASSUME NEW ref \in Nat, NEW t \in Nat, ref + t < IntRange \div 2, IntRange <= LongRange
  PROVE  ToUnsigned(IntSum(ref, t)) = ref + t /\ ToInt(ref) = ref
<1> DEFINE half == IntRange \div 2
           s == ref + t
<1>1. /\ IntRange \in Nat /\ LongRange \in Nat /\ half \in Nat /\ 2 * half <= IntRange
      /\ s \in Nat /\ s < half /\ ref < half
  BY ScheduleAssumption
<1>2. \A x \in Nat : x < half => (x + half) % IntRange = x + half /\ x % LongRange = x
  <2> HIDE DEF half
  <2> TAKE x \in Nat
  <2> HAVE x < half
  <2>1. x + half \in Nat /\ x + half < IntRange /\ x < LongRange
    BY <1>1
  <2> QED  BY <1>1, <2>1, Z3
<1>3. \A x \in Nat : x < half => ToInt(x) = x /\ ToUnsigned(x) = x
  <2> TAKE x \in Nat
  <2> HAVE x < half
  <2>1. (x + half) % IntRange = x + half /\ x % LongRange = x
    BY <1>2
  <2> DEFINE y == x + half
  <2>2. ToInt(x) = (y % IntRange) - half /\ y % IntRange = y
    BY <2>1 DEF ToInt
  <2>3. y - half = x
    BY <1>1
  <2> QED  BY <2>1, <2>2, <2>3 DEF ToUnsigned
<1> HIDE DEF half, s
<1>4. ToInt(s) = s /\ ToUnsigned(s) = s /\ ToInt(ref) = ref
  BY <1>1, <1>3
<1>5. IntSum(ref, t) = s
  BY <1>4 DEF IntSum, s
<1> QED  BY <1>4, <1>5 DEF s

\* A character drawn takes the picture no further than the end of the longest line that
\* begins before the time to reach.
LEMMA Draws ==
  ASSUME VideoModes, NEW slow, Slowest(slow), IntRange <= LongRange,
         NEW v \in VideoState, NEW stop \in Nat, stop + LongestLine < IntRange \div 2,
         Drawn(v.ref, v.pixels, v.pos, slow), v.ref < stop, v.pos < LineChars
  PROVE  LET d == DrawPixels(v)
         IN  /\ d \in VideoState /\ d.ticks < stop + LongestLine
             /\ Drawn(d.ref, d.pixels, d.pos, slow) /\ d.ref = v.ref /\ d.pos = v.pos + 1
             /\ d.halfLine = v.halfLine /\ d.col = v.col /\ d.ref <= d.ticks
<1> DEFINE chars == v.mode[1]
           rate == v.mode[2]
           pixels == v.pixels + chars
           pos == v.pos + 1
           time == Round(pixels, rate)
<1>1. /\ chars \in Nat \ {0} /\ rate \in Nat \ {0} /\ chars <= slow[1] /\ slow[2] <= rate
  BY DEF VideoState, VideoModes, Slowest
<1>2. /\ slow[1] \in Nat \ {0} /\ slow[2] \in Nat \ {0} /\ LongestLine \in Nat \ {0}
      /\ LongestLine = Round(LineChars * slow[1], slow[2])
  BY LongestIs
<1>3. /\ v.ref \in Nat /\ v.pixels \in Nat /\ v.pos \in Nat /\ v.pixels <= v.pos * slow[1]
      /\ LineChars \in Nat
  BY ScheduleAssumption DEF Drawn
<1>4. pixels \in Nat /\ pos \in Nat /\ pixels <= pos * slow[1] /\ pos * slow[1] <= LineChars * slow[1]
      /\ LineChars * slow[1] \in Nat /\ pos * slow[1] \in Nat
  <2> HIDE DEF chars
  <2>1. pos * slow[1] = v.pos * slow[1] + slow[1]
    BY <1>2, <1>3, Z3
  <2>2. v.pos * slow[1] \in Nat
    BY <1>2, <1>3, Z3
  <2>3. pos <= LineChars
    BY <1>3
  <2>4. pos * slow[1] <= LineChars * slow[1] /\ LineChars * slow[1] \in Nat
    BY <1>2, <1>3, <2>3, Z3
  <2> QED  BY <1>1, <1>2, <1>3, <2>1, <2>2, <2>4
<1>5. time \in Nat /\ time <= LongestLine
  <2> DEFINE c == LineChars * slow[1]
  <2> HIDE DEF pixels, rate, c
  <2>1. pixels \in Nat /\ c \in Nat /\ pixels <= c
    <3>1. pos * slow[1] \in Nat /\ pixels <= pos * slow[1] /\ pos * slow[1] <= c /\ c \in Nat
          /\ pixels \in Nat
      BY <1>4 DEF c
    <3> QED  BY <3>1
  <2>2. Round(pixels, rate) \in Nat /\ Round(pixels, rate) <= Round(c, slow[2])
    BY <1>1, <1>2, <2>1, Rounding
  <2> QED  BY <1>2, <2>2 DEF c
<1> DEFINE drawn == [v EXCEPT !.pixels = v.pixels + CharPixels(v), !.pos = v.pos + 1]
           d == DrawPixels(v)
<1>6. /\ drawn \in VideoState
      /\ drawn.ref = v.ref /\ drawn.pixels = pixels /\ drawn.pos = pos
      /\ drawn.halfLine = v.halfLine /\ drawn.col = v.col /\ drawn.mode = v.mode
  BY <1>4 DEF VideoState, CharPixels
<1>7. d = [drawn EXCEPT !.ticks = LineTime(drawn)]
  BY DEF DrawPixels
<1>8. LineTime(drawn) = v.ref + time
  <2>1. LineTime(drawn) = ToUnsigned(IntSum(v.ref, time))
    BY <1>6 DEF LineTime, PixelRate
  <2>2. v.ref + time < IntRange \div 2
    <3> HIDE DEF time
    <3>1. IntRange \div 2 \in Int
      BY ScheduleAssumption
    <3> QED  BY <1>2, <1>3, <1>5, <3>1
  <2> HIDE DEF time
  <2> QED  BY <1>3, <1>5, <2>1, <2>2, TimeFits
<1>9. v.ref + time \in Nat /\ v.ref + time < stop + LongestLine /\ v.ref <= v.ref + time
  <2> HIDE DEF time
  <2> QED  BY <1>2, <1>3, <1>5
<1> HIDE DEF drawn, pixels, pos, time
<1>10. /\ d \in VideoState /\ d.ticks = v.ref + time
       /\ d.ref = v.ref /\ d.pixels = pixels /\ d.pos = pos
       /\ d.halfLine = v.halfLine /\ d.col = v.col
  BY <1>6, <1>7, <1>8, <1>9 DEF VideoState
<1>11. Drawn(d.ref, d.pixels, d.pos, slow)
  BY <1>3, <1>4, <1>10 DEF Drawn
<1> QED  BY <1>9, <1>10, <1>11 DEF pos

\* A line begins.
LineFrom(v, t) == [v EXCEPT !.ref = t, !.pixels = 0, !.pos = 0]

\* What a new line starts with.
LEMMA NewLine ==
  ASSUME NEW v \in VideoState, NEW t \in Nat
  PROVE  LET n == LineFrom(v, t)
         IN  /\ n \in VideoState /\ n.ref = t /\ n.pixels = 0 /\ n.pos = 0 /\ n.ticks = v.ticks
             /\ n.halfLine = v.halfLine /\ n.col = v.col /\ n.line = v.line
<1> DEFINE n == LineFrom(v, t)
           r == [v EXCEPT !.ref = t]
           x == [r EXCEPT !.pixels = 0]
<1>1. /\ r \in VideoState /\ r.ref = t /\ r.ticks = v.ticks
      /\ r.halfLine = v.halfLine /\ r.col = v.col /\ r.line = v.line
  BY DEF VideoState
<1>2. n = [x EXCEPT !.pos = 0]
  BY DEF LineFrom
<1> HIDE DEF r
<1>3. /\ x \in VideoState /\ x.ref = t /\ x.pixels = 0 /\ x.ticks = v.ticks
      /\ x.halfLine = v.halfLine /\ x.col = v.col /\ x.line = v.line
  BY <1>1 DEF VideoState
<1> HIDE DEF x, n
<1>4. /\ n \in VideoState /\ n.ref = t /\ n.pixels = 0 /\ n.pos = 0 /\ n.ticks = v.ticks
      /\ n.halfLine = v.halfLine /\ n.col = v.col /\ n.line = v.line
  BY <1>2, <1>3 DEF VideoState
<1> QED  BY <1>4 DEF n

\* What the CRTC does with a character leaves the picture in the line.
LEMMA Signals ==
  ASSUME VideoModes, NEW slow, Slowest(slow), IntRange <= LongRange,
         NEW v, Picture(v, slow), ~ v.halfLine, v.ticks < IntRange \div 2
  PROVE  LET c == CRTCChar(v)
         IN  /\ c \in VideoState /\ c.ref <= v.ticks /\ c.pos < LineChars
             /\ Drawn(c.ref, c.pixels, c.pos, slow)
             /\ ~ c.halfLine => c.pos + 1 <= IF c.col <= HSync THEN LineChars - HSync + c.col
                                                               ELSE c.col - HSync
<1> DEFINE vs == [v EXCEPT !.halfLine = v.halfLine \/ (v.line = 0 /\ v.col = 0)]
           hs == IF v.col = HSync THEN HorizontalSync(vs) ELSE vs
           col == (v.col + 1) % LineChars
           line == IF v.col + 1 = LineChars THEN (v.line + 1) % FieldLines ELSE v.line
           c == CRTCChar(v)
<1>1. /\ v.ref \in Nat /\ v.pixels \in Nat /\ v.pos \in Nat /\ v.pixels <= v.pos * slow[1]
      /\ v.ref <= v.ticks /\ v.ticks \in Nat
      /\ v.pos <= IF v.col <= HSync THEN LineChars - HSync + v.col ELSE v.col - HSync
      /\ v.col \in 0 .. (LineChars - 1) /\ v.line \in 0 .. (FieldLines - 1)
  BY DEF Picture, Drawn, InLine, VideoState
<1>2. HSync \in 0 .. (LineChars - 1) /\ LineChars \in Nat \ {0} /\ FieldLines \in Nat \ {0}
  BY ScheduleAssumption DEF VideoModes
<1>3. /\ vs \in VideoState /\ vs.ref = v.ref /\ vs.pixels = v.pixels /\ vs.pos = v.pos
      /\ vs.ticks = v.ticks /\ vs.col = v.col /\ vs.line = v.line
  BY DEF Picture, VideoState
<1> HIDE DEF vs
<1>4. ToInt(v.ticks) = v.ticks
  <2>1. v.ticks + 0 < IntRange \div 2
    BY <1>1
  <2> QED  BY <1>1, <2>1, TimeFits
<1>5. /\ hs \in VideoState /\ hs.ref \in Nat /\ hs.ref <= v.ticks
      /\ hs.col = v.col /\ hs.line = v.line
      /\ Drawn(hs.ref, hs.pixels, hs.pos, slow)
      /\ v.col = HSync => hs.pos = 0
      /\ v.col # HSync => hs.pos = v.pos
  <2>1. CASE v.col = HSync
    <3>1. hs = LineFrom(vs, v.ticks)
      BY <1>3, <1>4, <2>1 DEF HorizontalSync, LineFrom
    <3> HIDE DEF hs
    <3>2. /\ hs \in VideoState /\ hs.ref = v.ticks /\ hs.pixels = 0 /\ hs.pos = 0
          /\ hs.col = v.col /\ hs.line = v.line
      <4>1. vs \in VideoState /\ v.ticks \in Nat
        BY <1>1, <1>3
      <4> QED  BY <1>3, <3>1, <4>1, NewLine
    <3>3. slow[1] \in Nat /\ 0 <= 0 * slow[1]
      BY LongestIs
    <3> QED  BY <1>1, <2>1, <3>2, <3>3 DEF Drawn
  <2>2. CASE v.col # HSync
    <3>1. hs = vs
      BY <2>2
    <3> HIDE DEF hs
    <3> QED  BY <1>1, <1>3, <2>2, <3>1 DEF Drawn
  <2> QED  BY <2>1, <2>2
<1>6. c = [hs EXCEPT !.col = col, !.line = line]
  BY <1>5 DEF CRTCChar, vs
<1>7. col \in 0 .. (LineChars - 1) /\ line \in 0 .. (FieldLines - 1)
  BY <1>1, <1>2
<1>8. v.col + 1 < LineChars => col = v.col + 1
  BY <1>1, <1>2
<1>9. v.col + 1 = LineChars => col = 0
  BY <1>1, <1>2
<1> HIDE DEF hs, col, line
<1>10. /\ c \in VideoState /\ c.ref = hs.ref /\ c.pixels = hs.pixels /\ c.pos = hs.pos
       /\ c.halfLine = hs.halfLine /\ c.col = col
  BY <1>5, <1>6, <1>7 DEF VideoState
<1> HIDE DEF c
<1>11. Drawn(c.ref, c.pixels, c.pos, slow) /\ c.ref <= v.ticks
  BY <1>5, <1>10
<1>12. /\ c.pos < LineChars
       /\ c.pos + 1 <= IF c.col <= HSync THEN LineChars - HSync + c.col ELSE c.col - HSync
  <2>1. CASE v.col = HSync
    BY <1>1, <1>2, <1>5, <1>7, <1>8, <1>9, <1>10, <2>1
  <2>2. CASE v.col # HSync
    BY <1>1, <1>2, <1>5, <1>7, <1>8, <1>9, <1>10, <2>2
  <2> QED  BY <2>1, <2>2
<1> QED  BY <1>10, <1>11, <1>12 DEF c

\* What is drawn in a line takes no longer than the slowest line.
LEMMA LineTimes ==
  ASSUME VideoModes, NEW slow, Slowest(slow), IntRange <= LongRange,
         NEW v \in VideoState, NEW stop \in Nat, stop + LongestLine < IntRange \div 2,
         Drawn(v.ref, v.pixels, v.pos, slow), v.ref < stop, v.pos <= LineChars
  PROVE  /\ LineTime(v) \in Nat /\ v.ref <= LineTime(v) /\ LineTime(v) < stop + LongestLine
<1> DEFINE rate == v.mode[2]
           time == Round(v.pixels, rate)
           c == LineChars * slow[1]
<1>1. rate \in Nat \ {0} /\ slow[2] <= rate
  BY DEF VideoState, VideoModes, Slowest
<1>2. /\ slow[1] \in Nat \ {0} /\ slow[2] \in Nat \ {0} /\ LongestLine \in Nat \ {0}
      /\ LongestLine = Round(c, slow[2])
  BY LongestIs
<1>3. /\ v.ref \in Nat /\ v.pixels \in Nat /\ v.pos \in Nat /\ v.pixels <= v.pos * slow[1]
      /\ LineChars \in Nat
  BY ScheduleAssumption DEF Drawn
<1>4. c \in Nat /\ v.pixels <= c
  <2>1. v.pos * slow[1] <= LineChars * slow[1] /\ LineChars * slow[1] \in Nat /\ v.pos * slow[1] \in Nat
    BY <1>2, <1>3, Z3
  <2> QED  BY <1>3, <2>1
<1> HIDE DEF c, rate
<1>5. time \in Nat /\ time <= LongestLine
  BY <1>1, <1>2, <1>3, <1>4, Rounding
<1>6. LineTime(v) = ToUnsigned(IntSum(v.ref, time))
  BY DEF LineTime, PixelRate, rate
<1> HIDE DEF time
<1>7. IntRange \div 2 \in Int
  BY ScheduleAssumption
<1>8. v.ref + time < IntRange \div 2
  BY <1>2, <1>3, <1>5, <1>7
<1>9. LineTime(v) = v.ref + time
  BY <1>3, <1>5, <1>6, <1>8, TimeFits
<1> QED  BY <1>2, <1>3, <1>5, <1>9

\* A character begun before the time to reach ends before that time and a line.
LEMMA Advances ==
  ASSUME VideoModes, NEW slow, Slowest(slow), IntRange <= LongRange,
         NEW stop \in Nat, stop + LongestLine < IntRange \div 2,
         NEW v, Picture(v, slow), v.ticks < stop,
         NEW fetched, NEW endCycle \in Nat, v.ticks <= endCycle, endCycle <= stop
  PROVE  LET a == AdvanceChar(v, fetched, endCycle)
         IN  Picture(a, slow) /\ a.ticks < stop + LongestLine
<1> DEFINE a == AdvanceChar(v, fetched, endCycle)
<1>1. /\ v \in VideoState /\ v.ref \in Nat /\ v.pixels \in Nat /\ v.pos \in Nat /\ v.ticks \in Nat
      /\ v.ref <= v.ticks /\ Drawn(v.ref, v.pixels, v.pos, slow)
      /\ LongestLine \in Nat \ {0} /\ LineChars \in Nat \ {0} /\ IntRange \div 2 \in Int
      /\ HSync \in 0 .. (LineChars - 1) /\ slow[1] \in Nat
  BY LongestIs, ScheduleAssumption DEF Picture, Drawn, VideoState, VideoModes
<1>2. v.ticks < IntRange \div 2 /\ v.ref < stop
  BY <1>1
<1>3. CASE v.halfLine /\ v.pos >= LineChars \div 2
  <2> DEFINE time == LineTime(v)
  <2>1. time \in Nat /\ time < stop + LongestLine
    <3>1. v.pos <= LineChars
      BY <1>3 DEF Picture, InLine
    <3> QED  BY <1>1, <1>2, <3>1, LineTimes
  <2> HIDE DEF time
  <2>2. ToInt(time) = time
    <3>1. time + 0 < IntRange \div 2
      BY <1>1, <2>1
    <3> QED  BY <2>1, <3>1, TimeFits
  <2> DEFINE h == [v EXCEPT !.halfLine = FALSE, !.ticks = time]
  <2>3. a = LineFrom(h, time)
    <3>1. a = [v EXCEPT !.ticks = time, !.ref = ToInt(time), !.halfLine = FALSE,
                        !.pixels = 0, !.pos = 0]
      BY <1>3 DEF AdvanceChar, HalfLine, time
    <3> HIDE DEF a
    <3>2. a = [v EXCEPT !.ticks = time, !.ref = time, !.halfLine = FALSE, !.pixels = 0, !.pos = 0]
      BY <2>2, <3>1
    <3> QED  BY <3>2 DEF LineFrom
  <2>4. h \in VideoState /\ h.ticks = time /\ ~ h.halfLine /\ h.col = v.col
    BY <1>1, <2>1 DEF VideoState
  <2> HIDE DEF a, h
  <2>5. /\ a \in VideoState /\ a.ref = time /\ a.pixels = 0 /\ a.pos = 0 /\ a.ticks = time
        /\ ~ a.halfLine /\ a.col = v.col
    BY <2>1, <2>3, <2>4, NewLine
  <2>6. v.col \in 0 .. (LineChars - 1)
    BY <1>1 DEF VideoState
  <2>7. 0 <= 0 * slow[1]
    BY <1>1
  <2>8. Drawn(a.ref, a.pixels, a.pos, slow)
    BY <2>1, <2>5, <2>7 DEF Drawn
  <2>9. InLine(a.pos, a.halfLine, a.col)
    BY <1>1, <2>5, <2>6 DEF InLine
  <2> QED  BY <2>1, <2>5, <2>8, <2>9 DEF Picture, a
<1>4. CASE v.halfLine /\ ~ (v.pos >= LineChars \div 2)
  <2>1. a = DrawPixels(v)
    BY <1>4 DEF AdvanceChar, HalfLine
  <2>2. v.pos < LineChars
    BY <1>1, <1>4
  <2>3. /\ a \in VideoState /\ a.ticks < stop + LongestLine
        /\ Drawn(a.ref, a.pixels, a.pos, slow) /\ a.pos = v.pos + 1
        /\ a.halfLine = v.halfLine /\ a.ref <= a.ticks
    BY <1>1, <1>2, <2>1, <2>2, Draws
  <2> HIDE DEF a
  <2>4. InLine(a.pos, a.halfLine, a.col)
    BY <1>1, <1>4, <2>2, <2>3 DEF InLine
  <2> QED  BY <2>3, <2>4 DEF Picture, a
<1>5. CASE ~ v.halfLine /\ fetched
  <2> DEFINE c == CRTCChar(v)
  <2>1. a = DrawPixels(c)
    BY <1>5 DEF AdvanceChar
  <2>2. /\ c \in VideoState /\ c.ref <= v.ticks /\ c.pos < LineChars
        /\ Drawn(c.ref, c.pixels, c.pos, slow)
        /\ ~ c.halfLine => c.pos + 1 <= IF c.col <= HSync THEN LineChars - HSync + c.col
                                                          ELSE c.col - HSync
    BY <1>2, <1>5, Signals
  <2> HIDE DEF c
  <2>3. c.ref < stop
    BY <1>1, <2>2 DEF Drawn
  <2>4. /\ a \in VideoState /\ a.ticks < stop + LongestLine
        /\ Drawn(a.ref, a.pixels, a.pos, slow) /\ a.pos = c.pos + 1
        /\ a.halfLine = c.halfLine /\ a.col = c.col /\ a.ref <= a.ticks
    BY <1>1, <2>1, <2>2, <2>3, Draws
  <2> HIDE DEF a
  <2>5. InLine(a.pos, a.halfLine, a.col)
    <3>1. c.pos \in Nat
      BY <2>2 DEF Drawn
    <3> QED  BY <1>1, <2>2, <2>4, <3>1 DEF InLine
  <2> QED  BY <2>4, <2>5 DEF Picture, a
<1>6. CASE ~ v.halfLine /\ ~ fetched
  <2> DEFINE c == CRTCChar(v)
  <2>1. a = [c EXCEPT !.ticks = endCycle]
    BY <1>6 DEF AdvanceChar
  <2>2. /\ c \in VideoState /\ c.ref <= v.ticks /\ c.pos < LineChars
        /\ Drawn(c.ref, c.pixels, c.pos, slow)
        /\ ~ c.halfLine => c.pos + 1 <= IF c.col <= HSync THEN LineChars - HSync + c.col
                                                          ELSE c.col - HSync
    BY <1>2, <1>6, Signals
  <2> HIDE DEF a, c
  <2>3. /\ a \in VideoState /\ a.ticks = endCycle /\ a.ref = c.ref /\ a.pixels = c.pixels
        /\ a.pos = c.pos /\ a.halfLine = c.halfLine /\ a.col = c.col
    BY <2>1, <2>2 DEF VideoState
  <2>4. c.pos \in Nat /\ c.ref \in Nat /\ c.col \in 0 .. (LineChars - 1)
    BY <2>2 DEF Drawn, VideoState
  <2>5. InLine(a.pos, a.halfLine, a.col)
    BY <1>1, <2>2, <2>3, <2>4 DEF InLine
  <2>6. a.ref <= a.ticks /\ a.ticks < stop + LongestLine
    BY <1>1, <2>2, <2>3, <2>4
  <2> QED  BY <2>2, <2>3, <2>5, <2>6 DEF Picture, a
<1> QED  BY <1>3, <1>4, <1>5, <1>6

\* ... and takes at least a tick.
LEMMA Timed ==
  ASSUME VideoModes, NEW slow, Slowest(slow), IntRange <= LongRange,
         NEW stop \in Nat, stop + LongestLine < IntRange \div 2,
         NEW v, Picture(v, slow), v.ticks < stop,
         NEW fetched, NEW endCycle \in Nat, v.ticks <= endCycle, endCycle <= stop
  PROVE  LET u == TimedChar(v, fetched, endCycle)
         IN  Picture(u, slow) /\ u.ticks < stop + LongestLine /\ u.ticks > v.ticks
<1> DEFINE a == AdvanceChar(v, fetched, endCycle)
           u == TimedChar(v, fetched, endCycle)
<1>1. Picture(a, slow) /\ a.ticks < stop + LongestLine
  BY Advances
<1>2. v.ticks \in Nat /\ LongestLine \in Nat \ {0} /\ IntRange \div 2 \in Int
  BY LongestIs, ScheduleAssumption DEF Picture, VideoState
<1>3. ToInt(v.ticks) = v.ticks
  <2>1. v.ticks + 0 < IntRange \div 2
    BY <1>2
  <2> QED  BY <1>2, <2>1, TimeFits
<1>4. ToUnsigned(v.ticks) = v.ticks /\ ToUnsigned(IntSum(v.ticks, 1)) = v.ticks + 1
  <2>1. v.ticks + 1 < IntRange \div 2
    BY <1>2
  <2>2. ToUnsigned(IntSum(v.ticks, 1)) = v.ticks + 1
    BY <1>2, <2>1, TimeFits
  <2>3. v.ticks % LongRange = v.ticks
    <3>1. LongRange \in Nat /\ v.ticks < LongRange
      BY <1>2, ScheduleAssumption
    <3> QED  BY <1>2, <3>1, Z3
  <2> QED  BY <2>2, <2>3 DEF ToUnsigned
<1> HIDE DEF a
<1>5. u = IF a.ticks <= v.ticks THEN [a EXCEPT !.ticks = v.ticks + 1] ELSE a
  BY <1>3, <1>4 DEF TimedChar, a
<1> HIDE DEF u
<1>6. a.ticks \in Nat /\ a.ref \in Nat /\ a.ref <= a.ticks
  BY <1>1 DEF Picture, VideoState, Drawn
<1>7. CASE a.ticks <= v.ticks
  <2>1. u = [a EXCEPT !.ticks = v.ticks + 1]
    BY <1>5, <1>7
  <2>2. /\ u \in VideoState /\ u.ticks = v.ticks + 1 /\ u.ref = a.ref /\ u.pixels = a.pixels
        /\ u.pos = a.pos /\ u.halfLine = a.halfLine /\ u.col = a.col
    BY <1>1, <1>2, <2>1 DEF Picture, VideoState
  <2>3. u.ref <= u.ticks /\ u.ticks < stop + LongestLine /\ u.ticks > v.ticks
    BY <1>2, <1>6, <1>7, <2>2
  <2> QED  BY <1>1, <2>2, <2>3 DEF Picture, u
<1>8. CASE ~ (a.ticks <= v.ticks)
  BY <1>1, <1>2, <1>5, <1>6, <1>8 DEF u
<1> QED  BY <1>7, <1>8

\* So many characters as the time to reach is away are enough to reach it.
LEMMA Reaches ==
  ASSUME VideoModes, NEW slow, Slowest(slow), IntRange <= LongRange,
         NEW stop \in Nat, stop + LongestLine < IntRange \div 2,
         NEW v, Picture(v, slow), v.ticks < stop + LongestLine, NEW fetches
  PROVE  LET u == VideoUntil(v, fetches, stop)
         IN  Picture(u, slow) /\ stop <= u.ticks /\ u.ticks < stop + LongestLine
<1> DEFINE until(u, n) == IF u.ticks < stop THEN TimedChar(u, n \in fetches, EndCycle(u, n, stop)) ELSE u
           enough == IF v.ticks < stop THEN stop - v.ticks ELSE 0
           Is(f, m) == f = [n \in 0 .. m |-> IF n = 0 THEN v ELSE until(f[n - 1], n)]
           S == {m \in Nat : \E f : Is(f, m)}
<1>1. v.ticks \in Nat /\ enough \in Nat /\ v.ticks + enough >= stop
  BY DEF Picture, VideoState
<1>2. \A u, n : /\ u.ticks < stop => until(u, n) = TimedChar(u, n \in fetches, EndCycle(u, n, stop))
                /\ ~ (u.ticks < stop) => until(u, n) = u
  OBVIOUS
<1>3. VideoUntil(v, fetches, stop) = (CHOOSE f : Is(f, enough))[enough]
  BY DEF VideoUntil
<1> HIDE DEF until, enough
<1>4. 0 \in S
  <2> DEFINE f == [n \in 0 .. 0 |-> v]
  <2>1. Is(f, 0)
    OBVIOUS
  <2> QED  BY <2>1
<1>5. ASSUME NEW m \in Nat, m \in S PROVE m + 1 \in S
  <2>1. PICK f : Is(f, m)
    BY <1>5
  <2> DEFINE g == [n \in 0 .. m + 1 |-> IF n = m + 1 THEN until(f[m], m + 1) ELSE f[n]]
  <2>2. \A n \in 0 .. m : f[n] = IF n = 0 THEN v ELSE until(f[n - 1], n)
    BY <2>1
  <2>3. \A n \in 0 .. m + 1 : g[n] = IF n = 0 THEN v ELSE until(g[n - 1], n)
    <3> TAKE n \in 0 .. m + 1
    <3>1. CASE n = m + 1
      BY <3>1
    <3>2. CASE n \in 0 .. m
      BY <2>2, <3>2
    <3> QED  BY <3>1, <3>2
  <2>4. Is(g, m + 1)
    BY <2>3
  <2> HIDE DEF g, Is
  <2> QED  BY <2>4
<1>6. enough \in S
  <2> HIDE DEF S
  <2> QED  BY <1>1, <1>4, <1>5, InductionOnSet
<1> DEFINE after == CHOOSE f : Is(f, enough)
<1>7. Is(after, enough)
  <2>1. \E f : Is(f, enough)
    BY <1>6
  <2> HIDE DEF Is
  <2> QED  BY <2>1
<1> HIDE DEF after
<1>8. \A n \in 0 .. enough : after[n] = IF n = 0 THEN v ELSE until(after[n - 1], n)
  BY <1>7
<1> DEFINE Good(u, n) == /\ Picture(u, slow) /\ u.ticks < stop + LongestLine
                         /\ stop <= u.ticks \/ v.ticks + n <= u.ticks
           T == {n \in Nat : n \in 0 .. enough => Good(after[n], n)}
<1>9. 0 \in T
  <2>1. after[0] = v
    BY <1>1, <1>8
  <2> QED  BY <1>1, <2>1
<1>10. ASSUME NEW n \in Nat, n \in T PROVE n + 1 \in T
  <2> SUFFICES ASSUME n + 1 \in 0 .. enough PROVE Good(after[n + 1], n + 1)
    OBVIOUS
  <2>1. n \in 0 .. enough /\ Good(after[n], n)
    BY <1>1, <1>10
  <2>2. after[n + 1] = until(after[n], n + 1)
    BY <1>1, <1>8
  <2> DEFINE u == after[n]
             w == after[n + 1]
  <2>3. Good(u, n) /\ w = until(u, n + 1)
    BY <2>1, <2>2
  <2> HIDE DEF u, w
  <2>4. CASE u.ticks < stop
    <3> DEFINE end == EndCycle(u, n + 1, stop)
               fetched == n + 1 \in fetches
    <3>1. w = TimedChar(u, fetched, end)
      BY <1>2, <2>3, <2>4
    <3>4. end \in Nat /\ u.ticks <= end /\ end <= stop
      BY <2>3, <2>4 DEF EndCycle, Picture, VideoState
    <3> HIDE DEF end, fetched
    <3>2. Picture(w, slow) /\ w.ticks < stop + LongestLine /\ w.ticks > u.ticks
      BY <2>3, <2>4, <3>1, <3>4, Timed
    <3>3. u.ticks \in Nat /\ w.ticks \in Nat
      BY <2>3, <3>2 DEF Picture, VideoState
    <3> QED  BY <1>1, <2>3, <2>4, <3>2, <3>3 DEF w
  <2>5. CASE ~ (u.ticks < stop)
    <3>1. w = u
      BY <1>2, <2>3, <2>5
    <3>2. u.ticks \in Nat
      BY <2>3 DEF Picture, VideoState
    <3> QED  BY <2>3, <2>5, <3>1, <3>2 DEF w
  <2> QED  BY <2>4, <2>5
<1>11. enough \in T
  <2> HIDE DEF T
  <2> QED  BY <1>1, <1>9, <1>10, InductionOnSet
<1> DEFINE u == after[enough]
<1>12. Good(u, enough)
  BY <1>1, <1>11
<1>13. u = VideoUntil(v, fetches, stop)
  BY <1>3 DEF after
<1> HIDE DEF u
<1>14. u.ticks \in Nat
  BY <1>12 DEF Picture, VideoState
<1>15. Picture(u, slow) /\ stop <= u.ticks /\ u.ticks < stop + LongestLine
  BY <1>1, <1>12, <1>14
<1> QED  BY <1>13, <1>15

\* What the theorem about the picture needs at every step: the time stays in the bounds
\* the ints have been compared with, and the picture is in its line.
PictureInv ==
  /\ mTicks \in Nat /\ end_cycle \in Nat
  /\ end_cycle <= Horizon + LowPeriod
  /\ mTicks <= Horizon + LowPeriod + HighPeriod
  /\ \E slow \in Modes : Slowest(slow) /\ Picture(video, slow)
  /\ VideoInTime

\* Selecting another mode rescales what is drawn of the line, but does not take it past
\* the slowest mode.
LEMMA Selects ==
  ASSUME NEW v, NEW slow, Picture(v, slow), NEW mode \in Modes
  PROVE  LET w == [v EXCEPT !.mode = mode] IN Picture(w, slow) /\ w.ticks = v.ticks
<1> DEFINE w == [v EXCEPT !.mode = mode]
<1>1. /\ w \in VideoState /\ w.ticks = v.ticks /\ w.ref = v.ref /\ w.pixels = v.pixels
      /\ w.pos = v.pos /\ w.halfLine = v.halfLine /\ w.col = v.col
  BY DEF Picture, VideoState
<1> HIDE DEF w
<1> QED  BY <1>1 DEF Picture, w

\* Every step keeps the invariant of the picture.
LEMMA PictureInvStep == VideoModes /\ PictureFits /\ PictureInv /\ [Next]_vars => PictureInv'
<1> SUFFICES ASSUME VideoModes, PictureFits, PictureInv, [Next]_vars PROVE PictureInv'
  OBVIOUS
<1>1. CASE Instruction \/ StretchedCycle \/ AccessCycle
  <2>1. PICK time \in Nat : time < HighPeriod /\ Elapses(time)
    BY <1>1, StepsAreShort
  <2>2. PICK mode \in Modes, fetches \in Fetches :
          video' = VideoUntil([video EXCEPT !.mode = mode], fetches, mTicks')
    BY <1>1 DEF Instruction, StretchedCycle, AccessCycle, Advance
  <2>3. PICK slow \in Modes : Slowest(slow) /\ Picture(video, slow)
    BY DEF PictureInv
  <2>4. /\ mTicks' \in Nat /\ mTicks <= mTicks' /\ end_cycle' = end_cycle
        /\ mTicks' <= Horizon + LowPeriod + HighPeriod
    BY <2>1, ScheduleAssumption DEF PictureInv, Elapses
  <2> DEFINE w == [video EXCEPT !.mode = mode]
             stop == mTicks'
  <2>5. Picture(w, slow) /\ w.ticks = video.ticks
    BY <2>3, Selects
  <2>6. LongestLine \in Nat \ {0}
    BY <2>3, LongestIs
  <2>7. w.ticks < stop + LongestLine
    <3>1. video.ticks \in Nat
      BY <2>3 DEF Picture, VideoState
    <3>2. video.ticks < mTicks + LongestLine /\ mTicks \in Nat
      BY DEF PictureInv, VideoInTime
    <3> HIDE DEF w
    <3> QED  BY <2>4, <2>5, <2>6, <3>1, <3>2
  <2>8. stop + LongestLine < IntRange \div 2 /\ IntRange <= LongRange /\ stop \in Nat
    <3> DEFINE half == IntRange \div 2
               most == Horizon + LowPeriod + HighPeriod
    <3>1. half \in Int /\ most \in Nat /\ most + LongestLine < half /\ IntRange <= LongRange
      BY ScheduleAssumption DEF PictureFits
    <3>2. stop \in Nat /\ stop <= most
      BY <2>4
    <3> DEFINE line == LongestLine
    <3> HIDE DEF half, most, stop, line
    <3>3. stop + line < half
      BY <2>6, <3>1, <3>2 DEF line
    <3> QED  BY <3>1, <3>2, <3>3 DEF half, line
  <2> HIDE DEF w, stop
  <2>9. LET u == VideoUntil(w, fetches, stop)
        IN  Picture(u, slow) /\ stop <= u.ticks /\ u.ticks < stop + LongestLine
    BY <2>3, <2>5, <2>7, <2>8, Reaches
  <2>10. video' = VideoUntil(w, fetches, stop) /\ mTicks' = stop
    BY <2>2 DEF w, stop
  <2>11. Picture(video', slow) /\ mTicks' <= video'.ticks /\ video'.ticks < mTicks' + LongestLine
    BY <2>9, <2>10
  <2>12. (\E s \in Modes : Slowest(s) /\ Picture(video, s))'
    BY <2>3, <2>11
  <2> QED  BY <2>4, <2>11, <2>12 DEF PictureInv, VideoInTime
<1>2. CASE StartPeriod
  BY <1>2, ScheduleAssumption DEF StartPeriod, PictureInv, VideoInTime
<1>3. CASE UNCHANGED vars
  BY <1>3 DEF vars, PictureInv, VideoInTime
<1> QED  BY <1>1, <1>2, <1>3 DEF Next

\* The picture's invariant holds at the start.
LEMMA PictureInitially == VideoModes /\ PictureFits /\ Init => PictureInv
<1> SUFFICES ASSUME VideoModes, PictureFits, Init PROVE PictureInv
  OBVIOUS
<1>1. PICK slow \in Modes : Slowest(slow)
  BY DEF VideoModes
<1>2. /\ video.ticks = 0 /\ video.ref = 0 /\ video.pixels = 0 /\ video.pos = 0
      /\ video.col = 0 /\ video.halfLine = FALSE
  BY DEF Init
<1>3. HSync \in 0 .. (LineChars - 1) /\ LineChars \in Nat \ {0} /\ FieldLines \in Nat \ {0}
      /\ LongestLine \in Nat \ {0} /\ slow[1] \in Nat
  BY <1>1, LongestIs, ScheduleAssumption DEF VideoModes
<1>4. video \in VideoState
  <2> DEFINE Zero == {0}
             False == {FALSE}
             Columns == 0 .. (LineChars - 1)
             Lines == 0 .. (FieldLines - 1)
  <2>1. video \in [ticks : Zero, ref : Zero, pixels : Zero, pos : Zero, halfLine : False,
                   col : Zero, line : Zero, mode : Modes]
    BY DEF Init
  <2>2. /\ Zero \subseteq Nat /\ Zero \subseteq Int /\ Zero \subseteq Columns /\ Zero \subseteq Lines
        /\ False \subseteq BOOLEAN
    BY <1>3
  <2> HIDE DEF Zero, False, Columns, Lines
  <2>3. video \in [ticks : Nat, ref : Int, pixels : Nat, pos : Nat, halfLine : BOOLEAN,
                   col : Columns, line : Lines, mode : Modes]
    BY <2>1, <2>2
  <2> QED  BY <2>3 DEF VideoState, Columns, Lines
<1>5. Picture(video, slow)
  BY <1>2, <1>3, <1>4 DEF Picture, Drawn, InLine
<1>6. mTicks = 0 /\ end_cycle = 0
  BY DEF Init
<1> QED  BY <1>1, <1>2, <1>3, <1>5, <1>6, ScheduleAssumption DEF PictureInv, VideoInTime

\* After every step the devices scheduled with the processor have reached its time: the
\* VIA is ahead by a cycle of its clock at most and the picture by less than the longest
\* line, although it is drawn by characters, a change of the video mode rescales what
\* has been drawn of the line, half a line is added between two fields, and characters
\* outside the video memory are not drawn (BeebVideoULA::advanceUntil, VIA6522::advanceUntil).
THEOREM InTime ==
  ASSUME ViaClocks, VideoModes, PictureFits
  PROVE  Spec => []InstrInTime
<1>1. Init => PictureInv
  BY PictureInitially
<1>2. PictureInv /\ [Next]_vars => PictureInv'
  BY PictureInvStep
<1>3. PictureInv => VideoInTime
  BY DEF PictureInv
<1>4. Spec => []VideoInTime
  BY <1>1, <1>2, <1>3, PTL DEF Spec
<1>5. Spec => []ViaInTime
  BY ViaRate
<1>6. ViaInTime /\ VideoInTime => InstrInTime
  BY DEF InstrInTime
<1> QED  BY <1>4, <1>5, <1>6, PTL
=============================================================================

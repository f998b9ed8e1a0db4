----------------------------- MODULE InstrProofs ----------------------------
(***************************************************************************)
(* Proofs that the two processors agree, for every opcode, register,       *)
(* operand and content of memory, on what an instruction leaves, reads and *)
(* takes.                                                                  *)
(*                                                                         *)
(* What is left of the instructions comes first: the sequence of BRK and   *)
(* of an interrupt, the instructions that modify memory, JSR.  Then an     *)
(* opcode of any kind runs to the next one, an interrupt is served between *)
(* two of them, and an invariant follows the comparison from its start to  *)
(* its end. Decimal arithmetic and what the stack restores follow from it  *)
(* and from lemmas about the instruction-accurate processor alone.         *)
(***************************************************************************)
EXTENDS InstrStepProofs

-----------------------------------------------------------------------------
(* BRK and the sequence of an interrupt.                                   *)

\* The cycles that save the program counter and the status, and load the vector.
SavesHigh(s) == Push(NextEx(s), Page(s.pc))
SavesLow(s) == Push(NextEx(s), Byte(s.pc))
SavesStatus(s, v) == Push(NextEx(s), v)
ReadsLow(s, w, adr) == prepMemRead([NextEx(s) EXCEPT !.sr = w], adr)
ReadsHigh(s, adr) == prepMemRead([NextEx(s) EXCEPT !.tmp = s.data], adr + 1)

Saved(q, v) == ICPU!push(ICPU!pushWord(q, q.pc), v)

\* The three writes of the sequence of BRK and of interrupts.
LEMMA SavesState ==
  ASSUME NEW s, NEW q, NEW e, NEW r, Beside(s, q, e, r, 1), NEW v, IsByte(v)
  PROVE  LET p1 == SavesHigh(s)
             t1 == Access(p1)
             p2 == SavesLow(t1)
             t2 == Access(p2)
             p3 == SavesStatus(t2, v)
             t3 == Access(p3)
         IN  /\ p1.exec = e.exec /\ t1.exec = e.exec /\ t1.ex = 2 /\ t1.inter = e.inter
             /\ t1.code = e.code
             /\ p2.exec = e.exec /\ t2.exec = e.exec /\ t2.ex = 3 /\ t2.inter = e.inter
             /\ t2.code = e.code
             /\ t2.sr = q.sr /\ Micro(t1) /\ Micro(t2)
             /\ p3.exec = e.exec /\ Beside(t3, Saved(q, v), e, r, 4)
             /\ Saved(q, v).sr = q.sr
<1> DEFINE hi == Page(s.pc)
           lo == Byte(s.pc)
           u1 == ICPU!push(q, hi)
           u2 == ICPU!push(u1, lo)
           u3 == ICPU!push(u2, v)
           p1 == SavesHigh(s)
           t1 == Access(p1)
           p2 == SavesLow(t1)
           t2 == Access(p2)
           p3 == SavesStatus(t2, v)
           t3 == Access(p3)
<1>1. s.pc = q.pc /\ IsWord(q.pc) /\ IsByte(hi) /\ IsByte(lo)
  <2>1. s.pc = q.pc /\ IsWord(q.pc)
    BY DEF Beside, Typed
  <2> QED  BY <2>1, PageAndPlace DEF Page, Byte
<1>2. u3 = Saved(q, v)
  <2>1. ICPU!Byte(q.pc \div 256) = hi /\ ICPU!Byte(q.pc) = lo
    <3>1. Byte(hi) = hi
      BY <1>1, Wrapped DEF Byte, IsByte
    <3> QED  BY <1>1, <3>1, SharedMemory DEF Page
  <2> QED  BY <2>1 DEF Saved, ICPU!pushWord
<1> HIDE DEF hi, lo
<1>3. 1 + 1 = 2 /\ 2 + 1 = 3 /\ 3 + 1 = 4
  OBVIOUS
<1>4. p1.exec = e.exec /\ Beside(t1, u1, e, r, 1 + 1) /\ u1.sr = q.sr
  BY <1>1, PushCycle DEF SavesHigh, hi
<1> HIDE DEF p1, t1, u1
<1>5. Beside(t1, u1, e, r, 2) /\ t1.pc = s.pc
  <2>1. u1.pc = q.pc
    BY <1>1, PushCycle DEF u1
  <2> QED  BY <1>1, <1>3, <1>4, <2>1 DEF Beside
<1>6. p2.exec = e.exec /\ Beside(t2, u2, e, r, 2 + 1) /\ u2.sr = u1.sr
  <2>1. p2 = Push(NextEx(t1), lo)
    BY <1>5 DEF SavesLow, lo
  <2> DEFINE p0 == Push(NextEx(t1), lo)
  <2>2. 2 \in Nat
    OBVIOUS
  <2> HIDE DEF p2
  <2>3. p0.exec = e.exec /\ Beside(Access(p0), u2, e, r, 2 + 1) /\ u2.sr = u1.sr
    BY <1>1, <1>5, <2>2, PushCycle
  <2> QED  BY <2>1, <2>3
<1> HIDE DEF p2, t2, u2
<1>7. Beside(t2, u2, e, r, 3)
  BY <1>3, <1>6
<1>8. p3.exec = e.exec /\ Beside(t3, u3, e, r, 3 + 1) /\ u3.sr = u2.sr
  BY <1>7, PushCycle DEF SavesStatus
<1> HIDE DEF p3, t3, u3
<1>9. t2.sr = u2.sr
  BY <1>7 DEF Beside, Agree
<1>10. /\ t1.exec = e.exec /\ t1.ex = 2 /\ t1.inter = e.inter /\ t1.code = e.code
       /\ t2.exec = e.exec /\ t2.ex = 3 /\ t2.inter = e.inter /\ t2.code = e.code
       /\ Micro(t1) /\ Micro(t2)
  BY <1>5, <1>7 DEF Beside
<1>11. Beside(t3, Saved(q, v), e, r, 4) /\ Saved(q, v).sr = q.sr /\ t2.sr = q.sr
  <2>1. Beside(t3, u3, e, r, 4)
    BY <1>3, <1>8
  <2> QED  BY <1>2, <1>4, <1>6, <1>8, <1>9, <2>1
<1> QED  BY <1>4, <1>6, <1>8, <1>10, <1>11, Zenon DEF p1, t1, p2, t2, p3, t3

\* The low byte of the vector waits for the high one.
LEMMA KeepsLow ==
  ASSUME NEW s, NEW q, NEW e, NEW r, Beside(s, q, e, r, 5)
  PROVE  LET n == [NextEx(s) EXCEPT !.tmp = s.data]
         IN  Beside(n, q, e, r, 6) /\ n.tmp = s.data
<1> DEFINE v == s.data
           n == [NextEx(s) EXCEPT !.tmp = v]
<1>1. 5 \in Nat /\ 5 + 1 = 6
  OBVIOUS
<1> HIDE DEF v
<1>2. Beside(n, q, e, r, 5 + 1) /\ n.tmp = v
  BY <1>1, BesideKept
<1> HIDE DEF n
<1> QED  BY <1>1, <1>2 DEF n, v

\* What the cycles that load the vector do.
Vectored(s, q, w, e, r, adr) ==
  LET p4 == ReadsLow(s, w, adr)
      t4 == Access(p4)
      p5 == ReadsHigh(t4, adr)
      t5 == Access(p5)
      u == ICPU!Touch(ICPU!Touch(q, adr), adr + 1)
  IN  /\ p4.exec = e.exec /\ t4.exec = e.exec /\ t4.ex = 5 /\ t4.inter = e.inter /\ t4.code = e.code
      /\ Micro(t4)
      /\ p5.exec = e.exec /\ Beside(t5, u, e, r, 6)
      /\ IsWord(Word(t5.data, t5.tmp))
      /\ ICPU!Vector(q, adr) = [u EXCEPT !.pc = Word(t5.data, t5.tmp)]

\* The two reads of the vector and the jump to the handler.
LEMMA Vectors ==
  ASSUME NEW s, NEW q, NEW w, NEW e, NEW r, NEW n4, n4 = [NextEx(s) EXCEPT !.sr = w],
         Beside(n4, q, e, r, 5),
         NEW adr \in {65530, 65534}
  PROVE  Vectored(s, q, w, e, r, adr)
<1> DEFINE p4 == ReadsLow(s, w, adr)
           t4 == Access(p4)
           q1 == ICPU!Touch(q, adr)
           n5 == [NextEx(t4) EXCEPT !.tmp = t4.data]
           p5 == ReadsHigh(t4, adr)
           t5 == Access(p5)
           u == ICPU!Touch(q1, adr + 1)
<1>1. IsWord(adr) /\ IsWord(adr + 1) /\ adr \in Int
  BY DEF IsWord
<1>2. p4 = prepMemRead(n4, adr) /\ p5 = prepMemRead(n5, adr + 1)
  BY DEF ReadsLow, ReadsHigh
<1> HIDE DEF p4
<1>3. p4.exec = e.exec /\ Beside(t4, q1, e, r, 5) /\ t4.data = Content(q, adr)
  BY <1>1, <1>2, ReadCycle
<1> HIDE DEF t4
<1>4. t4.exec = e.exec /\ t4.ex = 5 /\ t4.inter = e.inter /\ t4.code = e.code /\ Micro(t4)
  BY <1>3 DEF Beside
<1>5. Beside(n5, q1, e, r, 6) /\ n5.tmp = t4.data
  BY <1>3, KeepsLow
<1> HIDE DEF n5, p5
<1>6. /\ p5.exec = e.exec /\ Beside(t5, u, e, r, 6) /\ t5.data = Content(q1, adr + 1)
      /\ t5.tmp = n5.tmp
  BY <1>1, <1>2, <1>5, ReadCycle
<1>7. Content(q1, adr + 1) = Content(q, adr + 1)
  <2>1. q1.ram = q.ram /\ q1.b1 = q.b1 /\ q1.b2 = q.b2 /\ q1.seed = q.seed
    BY DEF ICPU!Touch, Beside, Whole, Registers
  <2> QED  BY <2>1, ContentSame
<1>8. IsByte(t5.data) /\ IsByte(t5.tmp)
  <2>1. TypedMemory(q)
    BY DEF Beside, Typed
  <2> QED  BY <1>1, <1>3, <1>5, <1>6, <1>7, <2>1, ContentIsByte
<1>9. ICPU!Vector(q, adr) = [u EXCEPT !.pc = Word(t5.data, t5.tmp)]
  BY <1>3, <1>5, <1>6, <1>7, SharedMemory DEF ICPU!Vector
<1> QED  BY <1>3, <1>4, <1>6, <1>8, <1>9, WordOfBytes DEF p4, t4, p5, t5, Vectored

\* The cycles of BRKExecHdlr.
VectorOf(s) == IF s.inter = "NMI" THEN 65530 ELSE 65534

\* BRKExecHdlr() cycle by cycle, for BRK and for an interrupt.
LEMMA SequenceCycles ==
  ASSUME NEW s, Micro(s), s.ex \in 1 .. 6, NEW pc, pc = Word(s.data, s.tmp)
  PROVE  /\ s.ex = 1 => BRKExecHdlr(s) = SavesHigh(s)
         /\ s.ex = 2 => BRKExecHdlr(s) = SavesLow(s)
         /\ s.ex = 3 => BRKExecHdlr(s) =
              SavesStatus(s, IF s.exec \in {"IN_IRQ", "IN_NMI"} THEN s.sr ELSE Or(s.sr, B))
         /\ s.ex = 4 => BRKExecHdlr(s) =
              ReadsLow(s, IF s.inter = "none" THEN s.sr ELSE SetFlag(s.sr, I, TRUE), VectorOf(s))
         /\ s.ex = 5 => BRKExecHdlr(s) = ReadsHigh(s, VectorOf(s))
         /\ s.ex = 6 => BRKExecHdlr(s) =
              initFetch([NextEx(s) EXCEPT !.pc = pc, !.inter = "none",
                                          !.ex = IF s.inter = "none" THEN @ - 1 ELSE @])
<1> DEFINE brk == s.inter = "none"
           cycle == IF s.ex = 0 /\ brk THEN 1 ELSE s.ex
           past == IF s.ex = 0 /\ brk THEN (s.pc + 1) % 65536 ELSE s.pc
           t == [s EXCEPT !.ex = cycle + 1, !.pc = past]
           x0 == [initDummyOperandRead(t) EXCEPT !.pc = (@ - 1) % 65536]
           x1 == Push(t, t.pc \div 256)
           x2 == Push(t, Byte(t.pc))
           x3 == Push(t, IF s.exec \in {"IN_IRQ", "IN_NMI"} THEN s.sr ELSE Or(s.sr, B))
           x4 == prepMemRead([t EXCEPT !.sr = IF brk THEN @ ELSE SetFlag(@, I, TRUE)], VectorOf(s))
           x5 == prepMemRead([t EXCEPT !.tmp = s.data], VectorOf(s) + 1)
           x6 == initFetch([t EXCEPT !.pc = Word(s.data, s.tmp), !.inter = "none", !.ex = IF brk THEN @ - 1 ELSE @])
<1>1. BRKExecHdlr(s) =
        CASE cycle = 0 -> x0 [] cycle = 1 -> x1 [] cycle = 2 -> x2 [] cycle = 3 -> x3
          [] cycle = 4 -> x4 [] cycle = 5 -> x5 [] cycle = 6 -> x6
  BY DEF BRKExecHdlr, VectorOf
<1>2. cycle = s.ex /\ past = s.pc
  OBVIOUS
<1> HIDE DEF cycle, past
<1>3. t = NextEx(s)
  BY <1>2 DEF Micro, Registers, NextEx
<1>4. t.pc = s.pc /\ t.sr = s.sr
  BY <1>3 DEF Micro, Registers, NextEx
<1>5. /\ x1 = SavesHigh(s) /\ x2 = SavesLow(s)
      /\ x3 = SavesStatus(s, IF s.exec \in {"IN_IRQ", "IN_NMI"} THEN s.sr ELSE Or(s.sr, B))
  BY <1>3, <1>4 DEF SavesHigh, SavesLow, SavesStatus, Page
<1>6. x4 = ReadsLow(s, IF brk THEN s.sr ELSE SetFlag(s.sr, I, TRUE), VectorOf(s))
  BY <1>3, <1>4 DEF ReadsLow
<1>7. x5 = ReadsHigh(s, VectorOf(s))
  BY <1>3 DEF ReadsHigh
<1>8. x6 = initFetch([NextEx(s) EXCEPT !.pc = pc, !.inter = "none", !.ex = IF brk THEN @ - 1 ELSE @])
  BY <1>3
<1> HIDE DEF x0, x1, x2, x3, x4, x5, x6, t
<1>9. /\ s.ex = 1 => BRKExecHdlr(s) = x1 
      /\ s.ex = 2 => BRKExecHdlr(s) = x2
      /\ s.ex = 3 => BRKExecHdlr(s) = x3
      /\ s.ex = 4 => BRKExecHdlr(s) = x4
      /\ s.ex = 5 => BRKExecHdlr(s) = x5
      /\ s.ex = 6 => BRKExecHdlr(s) = x6
  BY <1>1, <1>2
<1> QED  BY <1>5, <1>6, <1>7, <1>8, <1>9, Zenon

\* Clearing mInterrupt when it is clear changes nothing.
LEMMA InterKept ==
  ASSUME NEW s, "pc" \in DOMAIN s, "inter" \in DOMAIN s, "ex" \in DOMAIN s, s.inter = "none",
         NEW x, NEW y, NEW z, NEW pc
  PROVE  [[[[s EXCEPT !.ex = x] EXCEPT !.pc = pc] EXCEPT !.inter = "none"] EXCEPT !.ex = z]
           = [[[s EXCEPT !.ex = y] EXCEPT !.pc = pc] EXCEPT !.ex = z]
OBVIOUS

\* The last cycle: BRK is done, an interrupt's handler is fetched.
LEMMA SequenceEnds ==
  ASSUME NEW s, Micro(s), s.ex = 6, NEW pc, pc = Word(s.data, s.tmp)
  PROVE  /\ s.inter = "none" => BRKExecHdlr(s) = Done([[s EXCEPT !.ex = 5] EXCEPT !.pc = pc])
         /\ s.inter # "none" => BRKExecHdlr(s) =
              initFetch([NextEx(s) EXCEPT !.pc = pc, !.inter = "none"])
<1> DEFINE t == [NextEx(s) EXCEPT !.pc = pc, !.inter = "none",
                                  !.ex = IF s.inter = "none" THEN @ - 1 ELSE @]
<1>1. BRKExecHdlr(s) = initFetch(t)
  <2>1. s.ex \in 1 .. 6
    OBVIOUS
  <2> QED  BY <2>1, SequenceCycles, Zenon
<1>2. "pc" \in DOMAIN s /\ "inter" \in DOMAIN s /\ "ex" \in DOMAIN s
  BY DEF Micro, Registers
<1>3. s.inter = "none" => t = NextEx([[s EXCEPT !.ex = 5] EXCEPT !.pc = pc])
  <2>1. s.inter = "none" => t = [[[[s EXCEPT !.ex = 7] EXCEPT !.pc = pc] EXCEPT !.inter = "none"] EXCEPT !.ex = 6]
    BY <1>2 DEF NextEx
  <2>2. NextEx([[s EXCEPT !.ex = 5] EXCEPT !.pc = pc]) = [[[s EXCEPT !.ex = 5] EXCEPT !.pc = pc] EXCEPT !.ex = 6]
    BY <1>2 DEF NextEx
  <2> SUFFICES ASSUME s.inter = "none"
               PROVE  [[[[s EXCEPT !.ex = 7] EXCEPT !.pc = pc] EXCEPT !.inter = "none"] EXCEPT !.ex = 6]
                        = [[[s EXCEPT !.ex = 5] EXCEPT !.pc = pc] EXCEPT !.ex = 6]
    BY <2>1, <2>2, Zenon
  <2> HIDE DEF t
  <2> QED  BY <1>2, InterKept, Zenon
<1>4. s.inter # "none" => t = [NextEx(s) EXCEPT !.pc = pc, !.inter = "none"]
  BY <1>2 DEF NextEx
<1> QED  BY <1>1, <1>3, <1>4 DEF Done

\* Where the program counter is does not matter to what is pushed.
Turned(q, x) == [q EXCEPT !.pc = x]

\* A push does not use the program counter.
LEMMA PushTurned ==
  ASSUME NEW q, Whole(q), NEW x, NEW v
  PROVE  /\ ICPU!push(Turned(q, x), v) = Turned(ICPU!push(q, v), x)
         /\ Whole(ICPU!push(q, v)) /\ Whole(Turned(q, x))
<1> DEFINE adr == 256 + q.sp
<1> DEFINE u == Turned(q, x)
<1>1. /\ u.sp = q.sp /\ Whole(u) /\ u.ram = q.ram /\ u.writes = q.writes
  BY DEF Turned, Whole, Registers
<1> DEFINE ram == [n \in {adr} \cup DOMAIN q.ram |-> IF n = adr THEN v ELSE q.ram[n]]
           kept == IF ICPU!Writable(adr) THEN ram ELSE q.ram
           writes == Append(q.writes, <<adr, v>>)
           sp == ICPU!Byte(q.sp - 1)
<1>2. ICPU!push(q, v) = [[q EXCEPT !.writes = writes, !.ram = kept] EXCEPT !.sp = sp]
  <2>1. ICPU!Stored(q, adr, v) = [q EXCEPT !.writes = writes, !.ram = kept]
    BY DEF ICPU!Stored
  <2> HIDE DEF kept, writes, adr
  <2>2. ICPU!Stored(q, adr, v).sp = q.sp
    BY <2>1
  <2> USE DEF adr
  <2> QED  BY <2>1, <2>2 DEF ICPU!push
<1>3. ICPU!push(u, v) = [[u EXCEPT !.writes = writes, !.ram = kept] EXCEPT !.sp = sp]
  <2> HIDE DEF u
  <2>1. ICPU!Stored(u, adr, v) = [u EXCEPT !.writes = writes, !.ram = kept]
    BY <1>1 DEF ICPU!Stored
  <2> HIDE DEF kept, writes, adr
  <2>2. ICPU!Stored(u, adr, v).sp = q.sp
    BY <1>1, <2>1
  <2> USE DEF adr
  <2> QED  BY <1>1, <2>1, <2>2 DEF ICPU!push
<1> HIDE DEF ram, kept, writes, sp
<1>4. "pc" \in DOMAIN q /\ "writes" \in DOMAIN q /\ "ram" \in DOMAIN q /\ "sp" \in DOMAIN q
  BY DEF Whole, Registers
<1>5. ICPU!push(u, v) = Turned(ICPU!push(q, v), x)
  BY <1>2, <1>3, <1>4 DEF Turned
<1>6. Whole(ICPU!push(q, v))
  BY <1>2 DEF Whole, Registers
<1> QED  BY <1>1, <1>5, <1>6

\* Loading the vector does not use the program counter.
LEMMA VectorTurned ==
  ASSUME NEW q, Whole(q), NEW x, NEW adr
  PROVE  ICPU!Vector(Turned(q, x), adr) = ICPU!Vector(q, adr)
<1> DEFINE u == Turned(q, x)
<1>1. \A n : ICPU!Content(u, n) = ICPU!Content(q, n)
  <2>1. u.ram = q.ram /\ u.b1 = q.b1 /\ u.b2 = q.b2 /\ u.seed = q.seed
    BY DEF Turned, Whole, Registers
  <2> QED  BY <2>1, ContentSame, SharedMemory
<1> DEFINE pc == ICPU!Word(ICPU!Content(q, adr + 1), ICPU!Content(q, adr))
           lo == adr % 65536
           hi == (adr + 1) % 65536
<1>2. ICPU!Vector(q, adr) = [[[q EXCEPT !.reads = @ \cup {lo}] EXCEPT !.reads = @ \cup {hi}] EXCEPT !.pc = pc]
  BY DEF ICPU!Vector, ICPU!Touch
<1>3. ICPU!Vector(u, adr) = [[[u EXCEPT !.reads = @ \cup {lo}] EXCEPT !.reads = @ \cup {hi}] EXCEPT !.pc = pc]
  <2> DEFINE pcu == ICPU!Word(ICPU!Content(u, adr + 1), ICPU!Content(u, adr))
  <2>1. pcu = pc
    BY <1>1
  <2> HIDE DEF pc
  <2>2. ICPU!Vector(u, adr) = [[[u EXCEPT !.reads = @ \cup {lo}] EXCEPT !.reads = @ \cup {hi}] EXCEPT !.pc = pcu]
    BY DEF ICPU!Vector, ICPU!Touch
  <2> HIDE DEF pcu
  <2> QED  BY <2>1, <2>2
<1> HIDE DEF pc, lo, hi
<1> QED  BY <1>2, <1>3 DEF Turned, Whole, Registers, u

\* The sequence with the program counter moved before it.
LEMMA SavedTurned ==
  ASSUME NEW q, Whole(q), NEW x, NEW v, NEW adr
  PROVE  ICPU!Vector(Saved(Turned(q, x), v), adr) = ICPU!Vector(ICPU!push(ICPU!pushWord(q, x), v), adr)
<1> DEFINE hi == ICPU!Byte(x \div 256)
           lo == ICPU!Byte(x)
           u1 == ICPU!push(q, hi)
           u2 == ICPU!push(u1, lo)
           u3 == ICPU!push(u2, v)
<1>1. Turned(q, x).pc = x
  BY DEF Turned, Whole, Registers
<1>2. ICPU!push(ICPU!pushWord(q, x), v) = u3
  BY DEF ICPU!pushWord
<1>3. Saved(Turned(q, x), v) = ICPU!push(ICPU!push(ICPU!push(Turned(q, x), hi), lo), v)
  BY <1>1 DEF Saved, ICPU!pushWord
<1> HIDE DEF hi, lo
<1>4. ICPU!push(Turned(q, x), hi) = Turned(u1, x) /\ Whole(u1)
  BY PushTurned
<1> HIDE DEF u1
<1>5. ICPU!push(Turned(u1, x), lo) = Turned(u2, x) /\ Whole(u2)
  BY <1>4, PushTurned
<1> HIDE DEF u2
<1>6. ICPU!push(Turned(u2, x), v) = Turned(u3, x) /\ Whole(u3)
  BY <1>5, PushTurned
<1> HIDE DEF u3
<1>7. Saved(Turned(q, x), v) = Turned(u3, x)
  BY <1>3, <1>4, <1>5, <1>6
<1> QED  BY <1>2, <1>6, <1>7, VectorTurned

\* Setting the status register to what it is.
LEMMA KeepsStatus ==
  ASSUME NEW s, NEW q, NEW e, NEW r, Beside(s, q, e, r, 4)
  PROVE  Beside([NextEx(s) EXCEPT !.sr = s.sr], q, e, r, 5)
<1> DEFINE n == NextEx(s)
<1>1. Beside(n, q, e, r, 4 + 1) /\ n.sr = s.sr
  <2>1. n.sr = s.sr
    BY DEF NextEx, Beside, Micro, Registers
  <2> QED  BY <2>1, BesideNext
<1>2. Beside(n, q, e, r, 5)
  BY <1>1
<1> DEFINE v == s.sr
<1> HIDE DEF n, v
<1>3. Beside([n EXCEPT !.sr = v], q, e, r, 5)
  BY <1>1, <1>2 DEF Beside, Micro, Registers, Agree, v
<1> QED  BY <1>3 DEF n, v

\* The first cycle of BRK.
LEMMA BRKStarts ==
  ASSUME NEW e, NEW r, NEW c, Ready(e, r, c), Seen(e.reads, r.reads)
  PROVE  LET s == [e EXCEPT !.ex = 1, !.pc = Past(e.pc)]
             q == Turned(r, Past(r.pc))
         IN  Beside(s, q, e, r, 1) /\ BRKExecHdlr(e) = SavesHigh(s)
<1> DEFINE v == Past(e.pc)
           s0 == [e EXCEPT !.ex = 1]
           s == [e EXCEPT !.ex = 1, !.pc = v]
           q == Turned(r, Past(r.pc))
<1>1. IsWord(v) /\ e.pc = r.pc /\ e.ex = 0 /\ e.inter = "none" /\ Micro(e)
  BY PastIsWord DEF Ready, Typed
<1>2. Beside(e, r, e, r, 0)
  BY BesideItself
<1>3. Beside(s0, r, e, r, 1)
  BY <1>2 DEF Beside, Micro, Registers, Agree
<1> HIDE DEF s0
<1>4. Beside([s0 EXCEPT !.pc = v], [r EXCEPT !.pc = v], e, r, 1)
  BY <1>1, <1>3, BesideSet
<1>5. Beside(s, q, e, r, 1)
  BY <1>1, <1>4 DEF s0, Turned
<1>6. BRKExecHdlr(e) = SavesHigh(s)
  <2> DEFINE t == [e EXCEPT !.ex = 2, !.pc = v]
  <2>1. BRKExecHdlr(e) = Push(t, t.pc \div 256)
    <3> DEFINE brk == e.inter = "none"
               cycle == IF e.ex = 0 /\ brk THEN 1 ELSE e.ex
               past == IF e.ex = 0 /\ brk THEN (e.pc + 1) % 65536 ELSE e.pc
               n == [e EXCEPT !.ex = cycle + 1, !.pc = past]
               x0 == [initDummyOperandRead(n) EXCEPT !.pc = (@ - 1) % 65536]
               x1 == Push(n, n.pc \div 256)
               x2 == Push(n, Byte(n.pc))
               x3 == Push(n, IF e.exec \in {"IN_IRQ", "IN_NMI"} THEN e.sr ELSE Or(e.sr, B))
               x4 == prepMemRead([n EXCEPT !.sr = IF brk THEN @ ELSE SetFlag(@, I, TRUE)], VectorOf(e))
               x5 == prepMemRead([n EXCEPT !.tmp = e.data], VectorOf(e) + 1)
               x6 == initFetch([n EXCEPT !.pc = Word(e.data, e.tmp), !.inter = "none",
                                         !.ex = IF brk THEN @ - 1 ELSE @])
    <3>1. BRKExecHdlr(e) =
            CASE cycle = 0 -> x0 [] cycle = 1 -> x1 [] cycle = 2 -> x2 [] cycle = 3 -> x3
              [] cycle = 4 -> x4 [] cycle = 5 -> x5 [] cycle = 6 -> x6
      BY DEF BRKExecHdlr, VectorOf
    <3>2. cycle = 1 /\ past = v
      BY <1>1 DEF Past
    <3> HIDE DEF cycle, past, v
    <3>3. n = t
      BY <3>2
    <3> HIDE DEF x0, x2, x3, x4, x5, x6
    <3>4. BRKExecHdlr(e) = x1
      BY <3>1, <3>2
    <3> HIDE DEF n
    <3> QED  BY <3>3, <3>4
  <2>2. NextEx(s) = t /\ s.pc = v /\ t.pc = v
    <3>1. "ex" \in DOMAIN e /\ "pc" \in DOMAIN e
      BY <1>1 DEF Micro, Registers
    <3> HIDE DEF v
    <3>2. s.ex = 1 /\ s.pc = v /\ t.pc = v
      BY <3>1
    <3>3. [s EXCEPT !.ex = 2] = t
      BY <3>1
    <3> HIDE DEF s, t
    <3> QED  BY <3>2, <3>3 DEF NextEx
  <2> HIDE DEF t, s, v
  <2> QED  BY <2>1, <2>2 DEF SavesHigh, Page
<1> QED  BY <1>5, <1>6

\* BRK: the same bytes pushed, flags and vector.
LEMMA BRKExecuted ==
  ASSUME NEW e, NEW r, NEW c, Ready(e, r, c), MarkedWell(e.code), e.code[1] = "BRK"
  PROVE  Executed(e, r, c)
<1>1. Steps(e.code) = 6 /\ ~ Modifies(e.code) /\ e.code[1] # "JSR" /\ e.code[2] # "Accumulator"
  BY StackKind
<1>2. /\ r.code = e.code /\ e.ex = 0 /\ e.exec = "EXECUTE" /\ Whole(r) /\ e.inter = "none"
      /\ e.sr = r.sr /\ r.pc = Past(r.opcodePC) /\ IsWord(r.opcodePC)
  BY <1>1 DEF Ready, Agree
<1>3. Seen(e.reads, r.reads)
  BY <1>1 DEF Ready, Elsewhere, Apart, Unread
<1> DEFINE v == Or(r.sr, B)
           x == Past(r.pc)
           s == [e EXCEPT !.ex = 1, !.pc = Past(e.pc)]
           q == Turned(r, x)
           p1 == SavesHigh(s)
           t1 == Access(p1)
           p2 == SavesLow(t1)
           t2 == Access(p2)
           p3 == SavesStatus(t2, v)
           t3 == Access(p3)
           w == Saved(q, v)
           p4 == ReadsLow(t3, t3.sr, 65534)
           t4 == Access(p4)
           p5 == ReadsHigh(t4, 65534)
           t5 == Access(p5)
           y == ICPU!Touch(ICPU!Touch(w, 65534), 65535)
           pc == Word(t5.data, t5.tmp)
           f0 == [t5 EXCEPT !.ex = 5]
           f == [f0 EXCEPT !.pc = pc]
           u == ICPU!Vector(w, 65534)
<1>4. ICPU!ExecHdlr(r) = u
  <2>1. ICPU!ExecHdlr(r) = ICPU!BRKExecHdlr(r)
    BY <1>2, Zenon DEF ICPU!ExecHdlr
  <2>2. x = (r.opcodePC + 2) % 65536
    <3>1. r.opcodePC \in Int
      BY <1>2 DEF IsWord
    <3> QED  BY <1>2, <3>1, PastPast DEF Address
  <2>3. ICPU!Or(r.sr, ICPU!B) = v
    BY SharedBits DEF ICPU!B, B
  <2> HIDE DEF x, v
  <2>4. ICPU!BRKExecHdlr(r) = ICPU!Vector(ICPU!push(ICPU!pushWord(r, x), v), 65534)
    BY <2>2, <2>3 DEF ICPU!BRKExecHdlr
  <2> QED  BY <1>2, <2>1, <2>4, SavedTurned
<1>5. ASSUME NEW n, n.code = e.code PROVE ExecHdlr(n) = BRKExecHdlr(n)
  BY <1>5, <1>1, Zenon DEF ExecHdlr
<1>6. Beside(s, q, e, r, 1) /\ ExecHdlr(e) = p1
  BY <1>3, <1>5, BRKStarts
<1>7. IsByte(v)
  BY BitsAreBytes
<1>8. q.sr = r.sr
  BY <1>2 DEF Turned, Whole, Registers
<1> HIDE DEF s, q, v, x
<1>9. /\ p1.exec = e.exec /\ t1.exec = e.exec /\ t1.ex = 2 /\ t1.inter = e.inter /\ t1.code = e.code
      /\ p2.exec = e.exec /\ t2.exec = e.exec /\ t2.ex = 3 /\ t2.inter = e.inter /\ t2.code = e.code
      /\ t2.sr = q.sr
      /\ p3.exec = e.exec /\ Beside(t3, w, e, r, 4)
  BY <1>6, <1>7, SavesState
<1>10. t3.exec = e.exec /\ t3.ex = 4 /\ t3.inter = e.inter /\ t3.code = e.code /\ Micro(t3)
  BY <1>9 DEF Beside
<1>11. Micro(t1) /\ Micro(t2)
  BY <1>6, <1>7, SavesState
<1> HIDE DEF p1, p2, p3
<1>12. Beside([NextEx(t3) EXCEPT !.sr = t3.sr], w, e, r, 5)
  BY <1>9, KeepsStatus
<1>13. /\ p4.exec = e.exec /\ t4.exec = e.exec /\ t4.ex = 5 /\ t4.inter = e.inter
       /\ t4.code = e.code
       /\ Micro(t4) /\ p5.exec = e.exec /\ Beside(t5, y, e, r, 6) /\ IsWord(pc)
       /\ u = [y EXCEPT !.pc = pc]
  <2> DEFINE z == t3.sr
             adr == 65534
             o == [NextEx(t3) EXCEPT !.sr = z]
  <2>1. Beside(o, w, e, r, 5) /\ adr \in {65530, 65534} /\ o = [NextEx(t3) EXCEPT !.sr = z]
    BY <1>12
  <2> HIDE DEF t3, w, z, adr, o
  <2>2. Vectored(t3, w, z, e, r, adr)
    BY <2>1, Vectors
  <2>3. 65534 + 1 = 65535
    OBVIOUS
  <2>4. p4 = ReadsLow(t3, z, adr)
    BY DEF z, adr
  <2>5. p5 = ReadsHigh(t4, adr)
    BY DEF adr
  <2>6. y = ICPU!Touch(ICPU!Touch(w, adr), adr + 1) /\ u = ICPU!Vector(w, adr)
    BY <2>3 DEF adr
  <2> HIDE DEF p4, t4, p5, t5, y, u
  <2>7. /\ p4.exec = e.exec /\ t4.exec = e.exec /\ t4.ex = 5 /\ t4.inter = e.inter
        /\ t4.code = e.code
        /\ Micro(t4) /\ p5.exec = e.exec /\ Beside(t5, y, e, r, 6) /\ IsWord(Word(t5.data, t5.tmp))
        /\ u = [y EXCEPT !.pc = Word(t5.data, t5.tmp)]
    BY <2>2, <2>4, <2>5, <2>6 DEF Vectored, t4, t5
  <2> QED  BY <2>7
<1> HIDE DEF t1, t2, t3, w, y, p4, p5, t4, u
<1>14. t5.exec = e.exec /\ t5.ex = 6 /\ t5.inter = e.inter /\ t5.code = e.code /\ Micro(t5)
  BY <1>13 DEF Beside
<1> HIDE DEF t5, pc
<1>15. ExecHdlr(t1) = p2 /\ ExecHdlr(t2) = p3
  <2>1. t1.ex \in 1 .. 6 /\ t2.ex \in 1 .. 6
    BY <1>9
  <2>2. BRKExecHdlr(t1) = p2
    BY <1>9, <1>11, <2>1, SequenceCycles, Zenon DEF p2
  <2>3. BRKExecHdlr(t2) = p3
    <3>1. BRKExecHdlr(t2) =
            SavesStatus(t2, IF t2.exec \in {"IN_IRQ", "IN_NMI"} THEN t2.sr ELSE Or(t2.sr, B))
      BY <1>9, <1>11, <2>1, SequenceCycles, Zenon
    <3> QED  BY <1>2, <1>8, <1>9, <3>1 DEF p3, v
  <2> QED  BY <1>5, <1>9, <2>2, <2>3
<1>16. ExecHdlr(t3) = p4 /\ ExecHdlr(t4) = p5
  <2>1. t3.ex \in 1 .. 6 /\ t4.ex \in 1 .. 6
    BY <1>10, <1>13
  <2>2. VectorOf(t3) = 65534 /\ VectorOf(t4) = 65534 /\ t3.inter = "none" /\ 65534 + 1 = 65535
    BY <1>2, <1>10, <1>13 DEF VectorOf
  <2>3. BRKExecHdlr(t3) = p4
    <3>1. BRKExecHdlr(t3) =
            ReadsLow(t3, IF t3.inter = "none" THEN t3.sr ELSE SetFlag(t3.sr, I, TRUE), VectorOf(t3))
      BY <1>10, <2>1, SequenceCycles, Zenon
    <3> QED  BY <2>2, <3>1 DEF p4
  <2>4. BRKExecHdlr(t4) = p5
    <3>1. BRKExecHdlr(t4) = ReadsHigh(t4, VectorOf(t4))
      BY <1>13, <2>1, SequenceCycles, Zenon
    <3> QED  BY <2>2, <3>1 DEF p5
  <2> QED  BY <1>5, <1>10, <1>13, <2>3, <2>4
<1>17. ExecHdlr(t5) = Done(f)
  <2>1. BRKExecHdlr(t5) = Done(f)
    BY <1>2, <1>14, SequenceEnds DEF f, f0, pc
  <2> QED  BY <1>5, <1>14, <2>1
<1>18. Beside(f, u, e, r, 5)
  <2>1. Beside(f0, y, e, r, 5)
    BY <1>13 DEF Beside, Micro, Registers, Agree, f0
  <2> HIDE DEF f0
  <2> QED  BY <1>13, <2>1, BesideSet
<1> HIDE DEF f
<1>19. Finished(Done(f), u, c, e.code)
  BY <1>1, <1>18, EndsIdly
<1>20. Leads(ExecHdlr(t5), Done(f))
  BY <1>17, LeadsNowhere
<1>21. Leads(ExecHdlr(t4), Done(f))
  BY <1>2, <1>13, <1>16, <1>20, ExecutesOn DEF t5
<1>22. Leads(ExecHdlr(t3), Done(f))
  BY <1>2, <1>13, <1>16, <1>21, ExecutesOn DEF t4
<1>23. Leads(ExecHdlr(t2), Done(f))
  BY <1>2, <1>9, <1>15, <1>22, ExecutesOn DEF t3
<1>24. Leads(ExecHdlr(t1), Done(f))
  BY <1>2, <1>9, <1>15, <1>23, ExecutesOn DEF t2
<1>25. Leads(ExecHdlr(e), Done(f))
  BY <1>2, <1>6, <1>9, <1>24, ExecutesOn DEF t1
<1> QED  BY <1>4, <1>19, <1>25 DEF Executed

-----------------------------------------------------------------------------
(* Instructions that modify memory.                                        *)

\* What they do to the registers.
Changed(s, a, sr) == [s EXCEPT !.a = a, !.sr = sr]

SumA(a, sr, v) == Byte(a + v + Bit(sr, C))
SumSr(a, sr, v) ==
  NZCV(sr, SumA(a, sr, v) >= 128, SumA(a, sr, v) = 0, a + v + Bit(sr, C) > 255,
       OutOfRange(Signed(a) + Signed(v) + Bit(sr, C)))
DiffA(a, sr, v) == Byte(a - v - (1 - Bit(sr, C)))
DiffSr(a, sr, v) ==
  NZCV(sr, DiffA(a, sr, v) >= 128, DiffA(a, sr, v) = 0, a - v - (1 - Bit(sr, C)) >= 0,
       OutOfRange(Signed(a) - Signed(v) - (1 - Bit(sr, C))))

\* What changes A and the status register.
LEMMA ChangesAgain ==
  ASSUME NEW s, Registers(s), NEW a, NEW sr
  PROVE  /\ Registers(Changed(s, a, sr)) /\ Changed(s, a, sr).a = a /\ Changed(s, a, sr).sr = sr
         /\ [s EXCEPT !.a = a] = Changed(s, a, s.sr)
         /\ [s EXCEPT !.sr = sr] = Changed(s, s.a, sr)
         /\ Status(s, sr) = Changed(s, s.a, sr)
<1>1. "a" \in DOMAIN s /\ "sr" \in DOMAIN s
  BY DEF Registers
<1>2. Registers(Changed(s, a, sr)) /\ Changed(s, a, sr).a = a /\ Changed(s, a, sr).sr = sr
  BY DEF Registers, Changed
<1>4. /\ [s EXCEPT !.a = a] = Changed(s, a, s.sr)
      /\ [s EXCEPT !.sr = sr] = Changed(s, s.a, sr)
  BY <1>1 DEF Changed
<1> QED  BY <1>2, <1>4 DEF Status

\* The last change counts.
LEMMA ChangedOnce ==
  ASSUME NEW s, Registers(s), NEW a, NEW sr, NEW t, t = Changed(s, a, sr), NEW b, NEW st
  PROVE  Registers(t) /\ t.a = a /\ t.sr = sr /\ Changed(t, b, st) = Changed(s, b, st)
<1>1. "a" \in DOMAIN s /\ "sr" \in DOMAIN s
  BY DEF Registers
<1>2. Changed(t, b, st) = Changed(s, b, st)
  BY <1>1 DEF Changed
<1>3. Registers(t) /\ t.a = a /\ t.sr = sr
  BY <1>1 DEF Registers, Changed
<1> QED  BY <1>2, <1>3

\* The flags that both processors set.
LEMMA ChangesFlags ==
  ASSUME NEW s, Registers(s), NEW v, NEW c
  PROVE  /\ setNZflags(s, v) = Changed(s, s.a, NZ(s.sr, v))
         /\ ICPU!setNZflags(s, v) = Changed(s, s.a, NZ(s.sr, v))
         /\ setNZCflags(s, v, c) = Changed(s, s.a, NZC(s.sr, v, AsBit(c)))
         /\ ICPU!setNZCflags(s, v, c) = Changed(s, s.a, NZC(s.sr, v, AsBit(c)))
<1> DEFINE x == NZ(s.sr, v)
           y == NZC(s.sr, v, AsBit(c))
<1>1. /\ setNZflags(s, v) = [s EXCEPT !.sr = x] /\ ICPU!setNZflags(s, v) = [s EXCEPT !.sr = x]
  BY FlagsSet
<1>2. /\ setNZCflags(s, v, c) = Status(Status(s, x), y)
      /\ ICPU!setNZCflags(s, v, c) = Status(Status(s, x), y)
  BY CarrySet
<1> HIDE DEF x, y
<1>3. Status(Status(s, x), y) = Changed(s, s.a, y)
  <2>1. "a" \in DOMAIN s /\ "sr" \in DOMAIN s
    BY DEF Registers
  <2> QED  BY <2>1 DEF Status, Changed
<1>4. [s EXCEPT !.sr = x] = Changed(s, s.a, x)
  BY ChangesAgain
<1> QED  BY <1>1, <1>2, <1>3, <1>4 DEF x, y

\* Binary sums and differences as changes of A and the status register.
LEMMA ChangesSums ==
  ASSUME NEW s, Registers(s), IsByte(s.sr), NEW v
  PROVE  /\ Add(s, v) = Changed(s, SumA(s.a, s.sr, v), SumSr(s.a, s.sr, v))
         /\ ICPU!Add(s, v) = Changed(s, SumA(s.a, s.sr, v), SumSr(s.a, s.sr, v))
         /\ Subtract(s, v) = Changed(s, DiffA(s.a, s.sr, v), DiffSr(s.a, s.sr, v))
         /\ ICPU!Subtract(s, v) = Changed(s, DiffA(s.a, s.sr, v), DiffSr(s.a, s.sr, v))
<1>1. ICPU!Bit(s.sr, ICPU!C) = Bit(s.sr, C)
  BY DEF ICPU!Bit, Bit, ICPU!C, C
<1>2. \A n : ICPU!OutOfRange(n) = OutOfRange(n)
  BY DEF ICPU!OutOfRange, OutOfRange
<1>3. ASSUME NEW a, NEW n, NEW z, NEW c, NEW o
      PROVE  LET t == [s EXCEPT !.a = a]
                 sr == NZCV(s.sr, n, z, c, o)
             IN  /\ setNZCVflags(t, n, z, c, o) = Changed(s, a, sr)
                 /\ ICPU!setNZCVflags(t, n, z, c, o) = Changed(s, a, sr)
  <2> DEFINE t == [s EXCEPT !.a = a]
             x == NZV(s.sr, n, z, o)
             sr == NZCV(s.sr, n, z, c, o)
  <2>1. "a" \in DOMAIN s /\ "sr" \in DOMAIN s
    BY DEF Registers
  <2>2. Registers(t) /\ t.sr = s.sr
    BY DEF Registers
  <2> HIDE DEF t
  <2>3. /\ setNZCVflags(t, n, z, c, o) = Status(Status(t, x), sr)
        /\ ICPU!setNZCVflags(t, n, z, c, o) = Status(Status(t, x), sr)
    BY <2>2, OverflowSet
  <2> HIDE DEF x, sr
  <2>4. Status(Status(t, x), sr) = Changed(s, a, sr)
    BY <2>1 DEF Status, Changed, t
  <2> QED  BY <2>3, <2>4 DEF t, x, sr
<1>4. /\ Add(s, v) = Changed(s, SumA(s.a, s.sr, v), SumSr(s.a, s.sr, v))
      /\ ICPU!Add(s, v) = Changed(s, SumA(s.a, s.sr, v), SumSr(s.a, s.sr, v))
  <2> DEFINE a == Byte(s.a + v + Bit(s.sr, C))
             n == a >= 128
             z == a = 0
             c == s.a + v + Bit(s.sr, C) > 255
             o == OutOfRange(Signed(s.a) + Signed(v) + Bit(s.sr, C))
  <2>1. Add(s, v) = setNZCVflags([s EXCEPT !.a = a], n, z, c, o)
    BY DEF Add
  <2>2. ICPU!Add(s, v) = ICPU!setNZCVflags([s EXCEPT !.a = a], n, z, c, o)
    BY <1>1, <1>2, SharedMemory DEF ICPU!Add
  <2>3. SumA(s.a, s.sr, v) = a /\ SumSr(s.a, s.sr, v) = NZCV(s.sr, n, z, c, o)
    BY DEF SumA, SumSr
  <2> HIDE DEF a, n, z, c, o
  <2> QED  BY <1>3, <2>1, <2>2, <2>3
<1>5. /\ Subtract(s, v) = Changed(s, DiffA(s.a, s.sr, v), DiffSr(s.a, s.sr, v))
      /\ ICPU!Subtract(s, v) = Changed(s, DiffA(s.a, s.sr, v), DiffSr(s.a, s.sr, v))
  <2> DEFINE a == Byte(s.a - v - (1 - Bit(s.sr, C)))
             n == a >= 128
             z == a = 0
             c == s.a - v - (1 - Bit(s.sr, C)) >= 0
             o == OutOfRange(Signed(s.a) - Signed(v) - (1 - Bit(s.sr, C)))
  <2>1. Subtract(s, v) = setNZCVflags([s EXCEPT !.a = a], n, z, c, o)
    BY DEF Subtract
  <2>2. ICPU!Subtract(s, v) = ICPU!setNZCVflags([s EXCEPT !.a = a], n, z, c, o)
    BY <1>1, <1>2, SharedMemory DEF ICPU!Subtract
  <2>3. DiffA(s.a, s.sr, v) = a /\ DiffSr(s.a, s.sr, v) = NZCV(s.sr, n, z, c, o)
    BY DEF DiffA, DiffSr
  <2> HIDE DEF a, n, z, c, o
  <2> QED  BY <1>3, <2>1, <2>2, <2>3
<1> QED  BY <1>4, <1>5

\* They are bytes.
LEMMA SumsAreBytes ==
  ASSUME NEW a, IsByte(a), NEW sr, IsByte(sr), NEW v, IsByte(v)
  PROVE  /\ IsByte(SumA(a, sr, v)) /\ IsByte(SumSr(a, sr, v))
         /\ IsByte(DiffA(a, sr, v)) /\ IsByte(DiffSr(a, sr, v))
<1>1. Bit(sr, C) \in {0, 1}
  BY DEF Bit, C, IsByte
<1>2. a + v + Bit(sr, C) \in Int /\ a - v - (1 - Bit(sr, C)) \in Int
  BY <1>1 DEF IsByte
<1> QED  BY <1>2, Wrapped, OverflowIsByte DEF SumA, SumSr, DiffA, DiffSr

\* C is set before N and Z by the one, after them by the other.
LEMMA CarryApart ==
  ASSUME NEW s, IsByte(s), NEW n \in {0, 1}, NEW c \in {0, 1}
  PROVE  /\ With(With(s, C, c), N, n) = With(With(s, N, n), C, c)
         /\ With(With(s, C, c), Z, n) = With(With(s, Z, n), C, c)
<1> DEFINE b == s % 2
           h == s \div 128
           z == (s \div 2) % 2
<1>1. s \in Nat /\ s < 256
  BY DEF IsByte
<1>2. b \in {0, 1} /\ h \in {0, 1} /\ z \in {0, 1}
  BY <1>1
<1>3. /\ With(s, C, c) = s + c - b /\ With(s, N, n) = s + 128 * (n - h)
      /\ With(s, Z, n) = s + 2 * (n - z)
  BY <1>1 DEF With, Bit, C, N, Z
<1>4. (s + c - b) \div 128 = h
  BY <1>1
<1>5. ((s + c - b) \div 2) % 2 = z
  <2>1. (s + c - b) \div 2 = s \div 2
    BY <1>1
  <2> QED  BY <2>1
<1>6. (s + 128 * (n - h)) % 2 = b
  <2>1. CASE n - h = 0
    BY <2>1, <1>1
  <2>2. CASE n - h = 1
    BY <2>2, <1>1
  <2>3. CASE n - h = 0 - 1
    BY <2>3, <1>1
  <2> QED  BY <2>1, <2>2, <2>3, <1>2
<1>7. (s + 2 * (n - z)) % 2 = b
  <2>1. CASE n - z = 0
    BY <2>1, <1>1
  <2>2. CASE n - z = 1
    BY <2>2, <1>1
  <2>3. CASE n - z = 0 - 1
    BY <2>3, <1>1
  <2> QED  BY <2>1, <2>2, <2>3, <1>2
<1>8. With(s + c - b, N, n) = s + c - b + 128 * (n - h)
  <2>1. h % 2 = h
    BY <1>2
  <2> HIDE DEF h, b
  <2> QED  BY <1>1, <1>2, <1>4, <2>1 DEF With, Bit, N
<1>9. With(s + c - b, Z, n) = s + c - b + 2 * (n - z)
  <2> HIDE DEF z, b
  <2> QED  BY <1>1, <1>2, <1>5 DEF With, Bit, Z
<1>10. With(s + 128 * (n - h), C, c) = s + 128 * (n - h) + c - b
  <2>1. s + 128 * (n - h) \in Int /\ \A k \in Int : k \div 1 = k
    BY <1>1, <1>2
  <2> HIDE DEF h, b
  <2> QED  BY <1>1, <1>2, <1>6, <2>1 DEF With, Bit, C
<1>11. With(s + 2 * (n - z), C, c) = s + 2 * (n - z) + c - b
  <2>1. s + 2 * (n - z) \in Int /\ \A k \in Int : k \div 1 = k
    BY <1>1, <1>2
  <2> HIDE DEF z, b
  <2> QED  BY <1>1, <1>2, <1>7, <2>1 DEF With, Bit, C
<1> HIDE DEF h, z, b
<1> QED  BY <1>1, <1>2, <1>3, <1>8, <1>9, <1>10, <1>11

\* C may be set before N and Z or after.
LEMMA FlagsCommute ==
  ASSUME NEW sr, IsByte(sr), NEW v, NEW c \in {0, 1}
  PROVE  NZ(With(sr, C, c), v) = NZC(sr, v, c)
<1>1. AsBit(v >= 128) \in {0, 1} /\ AsBit(v = 0) \in {0, 1}
  BY DEF AsBit
<1>2. IsByte(With(sr, N, AsBit(v >= 128)))
  BY <1>1, WithIsByte
<1> QED  BY <1>1, <1>2, CarryApart DEF NZ, NZC

-----------------------------------------------------------------------------
(* Shifts of memory.                                                       *)

ShiftValue(i, b, sr) ==
  CASE i = "ASL"            -> Byte(2 * b)
    [] i = "LSR"            -> b \div 2
    [] i \in {"ROL", "RLA"} -> Byte(2 * b) + Bit(sr, C)
    [] i \in {"ROR", "RRA"} -> b \div 2 + 128 * Bit(sr, C)

ShiftCarry(i, b) == IF i \in {"ASL", "ROL", "RLA"} THEN b >= 128 ELSE b % 2 = 1
ShiftSr(i, b, sr) == NZC(sr, ShiftValue(i, b, sr), AsBit(ShiftCarry(i, b)))

ShiftedA(i, a, sr, b) ==
  CASE i = "RLA" -> And(a, ShiftValue(i, b, sr))
    [] i = "RRA" -> SumA(a, ShiftSr(i, b, sr), ShiftValue(i, b, sr))
    [] OTHER     -> a

ShiftedSr(i, a, sr, b) ==
  IF i = "RRA" THEN SumSr(a, ShiftSr(i, b, sr), ShiftValue(i, b, sr)) ELSE ShiftSr(i, b, sr)

Shifting == Shifts \cup {"RLA", "RRA"}

\* What a shift leaves is bytes.
LEMMA ShiftBytes ==
  ASSUME NEW i \in Shifting, NEW a, IsByte(a), NEW sr, IsByte(sr), NEW b, IsByte(b)
  PROVE  /\ IsByte(ShiftValue(i, b, sr)) /\ IsByte(ShiftSr(i, b, sr))
         /\ IsByte(ShiftedA(i, a, sr, b)) /\ IsByte(ShiftedSr(i, a, sr, b))
<1> DEFINE v == ShiftValue(i, b, sr)
           x == ShiftSr(i, b, sr)
<1>1. Bit(sr, C) \in {0, 1}
  BY DEF Bit, C, IsByte
<1>2. IsByte(Byte(2 * b)) /\ Byte(2 * b) % 2 = 0
  BY DEF Byte, IsByte
<1>3. IsByte(Byte(2 * b) + Bit(sr, C))
  BY <1>1, <1>2 DEF IsByte
<1>4. b \div 2 \in Nat /\ b \div 2 < 128
  BY DEF IsByte
<1>5. IsByte(v)
  BY <1>1, <1>2, <1>3, <1>4 DEF ShiftValue, Shifting, Shifts, IsByte
<1>6. IsByte(x)
  <2> DEFINE c == ShiftCarry(i, b)
  <2> HIDE DEF c, v
  <2>1. AsBit(c) \in {0, 1}
    BY DEF AsBit
  <2> QED  BY <2>1, NZCIsByte DEF ShiftSr, v, c
<1> HIDE DEF v, x
<1>7. IsByte(And(a, v)) /\ IsByte(SumA(a, x, v)) /\ IsByte(SumSr(a, x, v))
  BY <1>5, <1>6, BitsAreBytes, SumsAreBytes
<1> QED  BY <1>5, <1>6, <1>7 DEF ShiftedA, ShiftedSr, v, x

\* p is s with the write of the old value prepared and the new one kept for the next cycle.
Begun(p, s, a, sr, v) ==
  /\ Micro(p) /\ p.a = a /\ p.sr = sr /\ p.calc = v
  /\ p.rw = "write" /\ p.adr = Address(s.opAdr) /\ p.data = s.rv
  /\ p.x = s.x /\ p.y = s.y /\ p.sp = s.sp /\ p.pc = s.pc
  /\ p.ram = s.ram /\ p.writes = s.writes /\ p.b1 = s.b1 /\ p.b2 = s.b2 /\ p.seed = s.seed
  /\ p.code = s.code /\ p.cycles = s.cycles /\ p.reads = s.reads /\ p.opAdr = s.opAdr
  /\ p.op16 = s.op16 /\ p.op = s.op /\ p.exec = s.exec /\ p.inter = s.inter /\ p.ex = s.ex + 1

\* An instruction that has begun to modify memory may change registers.
LEMMA BegunChanged ==
  ASSUME NEW p, NEW s, NEW a, NEW sr, NEW v, Begun(p, s, a, sr, v), NEW b, NEW st
  PROVE  Begun(Changed(p, b, st), s, b, st, v)
BY DEF Begun, Changed, Micro, Registers

\* The first cycle of a shift of memory.
LEMMA ShiftBegins ==
  ASSUME NEW s, Micro(s), s.ex = 0, WritesMem(s.code), NEW v, NEW c
  PROVE  Begun(Shift(s, s.rv, v, c), s, s.a, NZC(s.sr, v, AsBit(c)), v)
<1> DEFINE n == [NextEx(s) EXCEPT !.rv = s.rv, !.calc = v]
           x == NZC(s.sr, v, AsBit(c))
           t == Changed(n, s.a, x)
<1>1. /\ Micro(n) /\ n.a = s.a /\ n.sr = s.sr /\ n.calc = v /\ n.rv = s.rv
      /\ n.x = s.x /\ n.y = s.y /\ n.sp = s.sp /\ n.pc = s.pc
      /\ n.ram = s.ram /\ n.writes = s.writes /\ n.b1 = s.b1 /\ n.b2 = s.b2 /\ n.seed = s.seed
      /\ n.code = s.code /\ n.cycles = s.cycles /\ n.reads = s.reads /\ n.opAdr = s.opAdr
      /\ n.op16 = s.op16 /\ n.op = s.op /\ n.exec = s.exec /\ n.inter = s.inter /\ n.ex = s.ex + 1
  BY DEF Micro, Registers, NextEx
<1>2. Shift(s, s.rv, v, c) = prepMemWrite(setNZCflags(n, v, c), s.opAdr, s.rv)
  BY DEF Shift
<1> HIDE DEF n, x
<1>3. setNZCflags(n, v, c) = t
  BY <1>1, ChangesFlags DEF Micro, x
<1>4. Begun(prepMemWrite(t, s.opAdr, s.rv), s, s.a, x, v)
  BY <1>1 DEF Begun, prepMemWrite, Changed, Micro, Registers, Address
<1> QED  BY <1>2, <1>3, <1>4 DEF x

\* The first cycle of a shift.
LEMMA FirstShift ==
  ASSUME NEW s, Micro(s), s.ex = 0, WritesMem(s.code), s.data = s.rv, s.code[1] \in Shifting,
         IsByte(s.a), IsByte(s.sr), IsByte(s.rv)
  PROVE  LET i == s.code[1]
         IN  Begun(ExecHdlr(s), s, ShiftedA(i, s.a, s.sr, s.rv), ShiftedSr(i, s.a, s.sr, s.rv),
                   ShiftValue(i, s.rv, s.sr))
<1> DEFINE i == s.code[1]
           b == s.rv
           v == ShiftValue(i, b, s.sr)
           c == ShiftCarry(i, b)
           x == ShiftSr(i, b, s.sr)
           t == Shift(s, s.rv, v, c)
<1>1. Begun(t, s, s.a, x, v)
  <2> HIDE DEF v, c
  <2>1. Begun(t, s, s.a, NZC(s.sr, v, AsBit(c)), v)
    BY ShiftBegins
  <2> QED  BY <2>1 DEF ShiftSr, v, c
<1>2. /\ i = "ASL" => ExecHdlr(s) = t
      /\ i = "LSR" => ExecHdlr(s) = t
      /\ i = "ROL" => ExecHdlr(s) = t
      /\ i = "ROR" => ExecHdlr(s) = t
      /\ i = "RLA" => ExecHdlr(s) = [t EXCEPT !.a = And(@, t.calc)]
      /\ i = "RRA" => ExecHdlr(s) = Add(t, t.calc)
  <2>1. /\ i = "ASL" => ExecHdlr(s) = ASLExecHdlr(s)
        /\ i = "LSR" => ExecHdlr(s) = LSRExecHdlr(s)
        /\ i = "ROL" => ExecHdlr(s) = ROLExecHdlr(s)
        /\ i = "ROR" => ExecHdlr(s) = RORExecHdlr(s)
        /\ i = "RLA" => ExecHdlr(s) = RLAExecHdlr(s)
        /\ i = "RRA" => ExecHdlr(s) = RRAExecHdlr(s)
    BY Zenon DEF ExecHdlr
  <2>2. CASE i = "ASL"
    <3>1. v = Byte(2 * s.rv) /\ c = (s.rv >= 128)
      BY <2>2 DEF ShiftValue, ShiftCarry
    <3> QED  BY <2>1, <2>2, <3>1 DEF ASLExecHdlr, MemoryOrA
  <2>3. CASE i = "LSR"
    <3>1. v = s.data \div 2 /\ c = (s.data % 2 = 1)
      BY <2>3 DEF ShiftValue, ShiftCarry
    <3> QED  BY <2>1, <2>3, <3>1 DEF LSRExecHdlr, MemoryOrA
  <2>4. CASE i = "ROL"
    <3>1. v = RotatedLeft(s, s.data) /\ c = (s.data >= 128)
      BY <2>4 DEF ShiftValue, ShiftCarry, RotatedLeft
    <3> QED  BY <2>1, <2>4, <3>1 DEF ROLExecHdlr, MemoryOrA
  <2>5. CASE i = "ROR"
    <3>1. v = RotatedRight(s, s.data) /\ c = (s.data % 2 = 1)
      BY <2>5 DEF ShiftValue, ShiftCarry, RotatedRight
    <3> QED  BY <2>1, <2>5, <3>1 DEF RORExecHdlr, MemoryOrA
  <2>6. CASE i = "RLA"
    <3>1. v = RotatedLeft(s, s.data) /\ c = (s.data >= 128)
      BY <2>6 DEF ShiftValue, ShiftCarry, RotatedLeft
    <3> QED  BY <2>1, <2>6, <3>1 DEF RLAExecHdlr
  <2>7. CASE i = "RRA"
    <3>1. v = RotatedRight(s, s.data) /\ c = (s.data % 2 = 1)
      BY <2>7 DEF ShiftValue, ShiftCarry, RotatedRight
    <3> QED  BY <2>1, <2>7, <3>1 DEF RRAExecHdlr
  <2> QED  BY <2>2, <2>3, <2>4, <2>5, <2>6, <2>7
<1>9. IsByte(x)
  BY ShiftBytes
<1> HIDE DEF v, x, t, c
<1>3. Registers(t) /\ t.a = s.a /\ t.sr = x /\ t.calc = v
  BY <1>1 DEF Begun, Micro
<1>4. [t EXCEPT !.a = And(@, t.calc)] = Changed(t, And(s.a, v), x)
  <2> DEFINE n == And(s.a, v)
  <2> HIDE DEF n
  <2>1. [t EXCEPT !.a = n] = Changed(t, n, x)
    BY <1>3, ChangesAgain
  <2> QED  BY <1>3, <2>1 DEF n
<1>5. Add(t, t.calc) = Changed(t, SumA(s.a, x, v), SumSr(s.a, x, v))
  BY <1>3, <1>9, ChangesSums
<1>6. CASE i \in Shifts
  <2>1. ShiftedA(i, s.a, s.sr, b) = s.a /\ ShiftedSr(i, s.a, s.sr, b) = x
    BY <1>6 DEF ShiftedA, ShiftedSr, x, Shifts
  <2> QED  BY <1>1, <1>2, <1>6, <2>1 DEF v, Shifts
<1>7. CASE i = "RLA"
  <2>1. ShiftedA(i, s.a, s.sr, b) = And(s.a, v) /\ ShiftedSr(i, s.a, s.sr, b) = x
    BY <1>7 DEF ShiftedA, ShiftedSr, x, v
  <2>2. Begun(Changed(t, And(s.a, v), x), s, And(s.a, v), x, v)
    BY <1>1, BegunChanged
  <2> QED  BY <1>2, <1>4, <1>7, <2>1, <2>2 DEF v
<1>8. CASE i = "RRA"
  <2>1. ShiftedA(i, s.a, s.sr, b) = SumA(s.a, x, v) /\ ShiftedSr(i, s.a, s.sr, b) = SumSr(s.a, x, v)
    BY <1>8 DEF ShiftedA, ShiftedSr, x, v
  <2>2. Begun(Changed(t, SumA(s.a, x, v), SumSr(s.a, x, v)), s, SumA(s.a, x, v), SumSr(s.a, x, v), v)
    BY <1>1, BegunChanged
  <2> QED  BY <1>2, <1>5, <1>8, <2>1, <2>2 DEF v
<1> QED  BY <1>6, <1>7, <1>8 DEF Shifting, v

\* The other cycles.
LEMMA LaterShifts ==
  ASSUME NEW s, s.code[1] \in Shifting
  PROVE  /\ s.ex = 1 => ExecHdlr(s) = prepMemWrite(NextEx(s), s.opAdr, s.calc)
         /\ s.ex = 2 => ExecHdlr(s) = Done(s)
<1> DEFINE i == s.code[1]
<1>1. /\ i = "ASL" => ExecHdlr(s) = ASLExecHdlr(s)
      /\ i = "LSR" => ExecHdlr(s) = LSRExecHdlr(s)
      /\ i = "ROL" => ExecHdlr(s) = ROLExecHdlr(s)
      /\ i = "ROR" => ExecHdlr(s) = RORExecHdlr(s)
      /\ i = "RLA" => ExecHdlr(s) = RLAExecHdlr(s)
      /\ i = "RRA" => ExecHdlr(s) = RRAExecHdlr(s)
  BY Zenon DEF ExecHdlr
<1>2. \A old, new, carry : /\ s.ex = 1 => Shift(s, old, new, carry) = prepMemWrite(NextEx(s), s.opAdr, s.calc)
                           /\ s.ex = 2 => Shift(s, old, new, carry) = Done(s)
  BY DEF Shift
<1> QED  BY <1>1, <1>2 DEF Shifting, Shifts, ASLExecHdlr, LSRExecHdlr, ROLExecHdlr, RORExecHdlr,
           RLAExecHdlr, RRAExecHdlr

\* A write that has been prepared is made.
LEMMA PreparedWrite ==
  ASSUME NEW p, NEW q, NEW e, NEW r, NEW ex \in Nat, Beside(p, q, e, r, ex),
         p.rw = "write", NEW v, IsByte(v), p.data = v, NEW adr, p.adr = adr
  PROVE  LET t == Access(p)
         IN  Beside(t, Stored(q, adr, v), e, r, ex) /\ t.calc = p.calc /\ t.rv = p.rv
<1> DEFINE t == Stored(p, adr, v)
           u == Stored(q, adr, v)
<1>1. Access(p) = t
  BY DEF Access
<1>2. Micro(p) /\ Registers(p) /\ Whole(q) /\ Registers(q) /\ Agree(p, q) /\ TypedMemory(q)
  BY DEF Beside, Micro, Whole, Typed
<1>3. Agree(t, u) /\ TypedMemory(u)
  BY <1>2, WritesAlike
<1>4. /\ Wrote(t, p, adr, v) /\ Micro(t)
      /\ \A f \in {"exec", "op", "ex", "inter", "data", "rw", "adr", "calc", "tmp"} : t[f] = p[f]
  BY <1>2, Writes
<1>5. Wrote(u, q, adr, v) /\ Whole(u)
  BY <1>2, Writes
<1> HIDE DEF t, u
<1>6. t.exec = p.exec /\ t.op = p.op /\ t.ex = p.ex /\ t.inter = p.inter /\ t.calc = p.calc
  BY <1>4
<1>7. Typed(u)
  BY <1>3, <1>5 DEF Beside, Typed, Wrote
<1>8. Beside(t, u, e, r, ex)
  BY <1>3, <1>4, <1>5, <1>6, <1>7 DEF Beside, Wrote
<1> QED  BY <1>1, <1>4, <1>6, <1>8 DEF t, u, Wrote

\* A and the status are changed in both.
LEMMA BesideChanged ==
  ASSUME NEW s, NEW q, NEW e, NEW r, NEW ex, Beside(s, q, e, r, ex),
         NEW a, IsByte(a), NEW sr, IsByte(sr)
  PROVE  Beside(Changed(s, a, sr), Changed(q, a, sr), e, r, ex)
BY DEF Beside, Changed, Micro, Whole, Registers, Agree, Typed, TypedMemory

\* After it the processors are side by side.
LEMMA BegunBeside ==
  ASSUME NEW p, NEW e, NEW r, Beside(e, r, e, r, 0), NEW a, IsByte(a), NEW sr, IsByte(sr), NEW v,
         Begun(p, e, a, sr, v)
  PROVE  Beside(p, Changed(r, a, sr), e, r, 1)
<1>1. Beside(Changed(e, a, sr), Changed(r, a, sr), e, r, 0)
  BY BesideChanged
<1> DEFINE q == Changed(r, a, sr)
<1> HIDE DEF q
<1>2. /\ Changed(e, a, sr).a = a /\ Changed(e, a, sr).sr = sr
      /\ \A f \in {"x", "y", "sp", "pc", "ram", "writes", "b1", "b2", "seed", "reads"} :
           Changed(e, a, sr)[f] = e[f]
  BY DEF Changed, Beside, Micro, Registers
<1>3. Agree(Changed(e, a, sr), q) /\ Whole(q) /\ Typed(q) /\ Changed(e, a, sr).pc = q.pc
      /\ Seen(Changed(e, a, sr).reads, q.reads) /\ q.code = r.code /\ q.cycles = r.cycles
      /\ q.opAdr = r.opAdr
  BY <1>1 DEF Beside, q
<1>4. Agree(p, q) /\ p.pc = q.pc /\ Seen(p.reads, q.reads)
  BY <1>2, <1>3 DEF Agree, Begun
<1>5. e.ex = 0
  BY DEF Beside
<1> QED  BY <1>3, <1>4, <1>5 DEF Beside, Begun, q

\* Writes and changes of registers may be swapped.
LEMMA WrittenChanged ==
  ASSUME NEW r, Whole(r), NEW a, NEW sr, NEW adr, NEW b, NEW v
  PROVE  /\ Stored(Stored(Changed(r, a, sr), adr, b), adr, v)
              = Changed(Stored(Stored(r, adr, b), adr, v), a, sr)
         /\ Whole(Stored(Stored(r, adr, b), adr, v))
         /\ Stored(Stored(r, adr, b), adr, v).a = r.a /\ Stored(Stored(r, adr, b), adr, v).sr = r.sr
<1>1. ASSUME NEW s, Registers(s), NEW w
      PROVE  Stored(Changed(s, a, sr), adr, w) = Changed(Stored(s, adr, w), a, sr)
  <2>1. "a" \in DOMAIN s /\ "sr" \in DOMAIN s /\ "writes" \in DOMAIN s /\ "ram" \in DOMAIN s
    BY <1>1 DEF Registers
  <2>2. Changed(s, a, sr).ram = s.ram /\ Changed(s, a, sr).writes = s.writes
    BY <2>1 DEF Changed
  <2>3. CASE Writable(adr)
    BY <2>1, <2>2, <2>3 DEF Stored, Changed
  <2>4. CASE ~ Writable(adr)
    BY <2>1, <2>2, <2>4 DEF Stored, Changed
  <2> QED  BY <2>3, <2>4
<1> DEFINE t == Stored(r, adr, b)
           u == Stored(t, adr, v)
<1>2. Registers(r)
  BY DEF Whole
<1>3. Whole(t) /\ Registers(t) /\ t.a = r.a /\ t.sr = r.sr
  BY <1>2, Writes DEF Wrote
<1>4. Stored(Changed(r, a, sr), adr, b) = Changed(t, a, sr)
  BY <1>1, <1>2
<1> HIDE DEF t
<1>5. Whole(u) /\ u.a = t.a /\ u.sr = t.sr
  BY <1>3, Writes DEF Wrote
<1>6. Stored(Changed(t, a, sr), adr, v) = Changed(u, a, sr)
  BY <1>1, <1>3
<1> QED  BY <1>3, <1>4, <1>5, <1>6 DEF t

-----------------------------------------------------------------------------
(* Counting, in memory.                                                    *)

Counting == Counts \cup {"ISC", "DCP"}

NewCount(i, b) == IF i \in {"DEC", "DCP"} THEN Byte(b - 1) ELSE Byte(b + 1)

CountedA(i, a, sr, b) == IF i = "ISC" THEN DiffA(a, sr, NewCount(i, b)) ELSE a
CountedSr(i, a, sr, b) ==
  CASE i = "ISC" -> DiffSr(a, sr, NewCount(i, b))
    [] i = "DCP" -> NZC(sr, Byte(a - b), AsBit(a >= b))
    [] OTHER     -> NZ(sr, NewCount(i, b))

\* What a count leaves is bytes.
LEMMA CountBytes ==
  ASSUME NEW i \in Counting, NEW a, IsByte(a), NEW sr, IsByte(sr), NEW b, IsByte(b)
  PROVE  /\ IsByte(NewCount(i, b)) /\ IsByte(CountedA(i, a, sr, b))
         /\ IsByte(CountedSr(i, a, sr, b))
<1> DEFINE v == NewCount(i, b)
<1>1. IsByte(v)
  <2>1. b - 1 \in Int /\ b + 1 \in Int
    BY DEF IsByte
  <2> QED  BY <2>1, Wrapped DEF NewCount
<1> HIDE DEF v
<1>2. IsByte(DiffA(a, sr, v)) /\ IsByte(DiffSr(a, sr, v)) /\ IsByte(NZ(sr, v))
  BY <1>1, SumsAreBytes, NZIsByte
<1>3. IsByte(NZC(sr, Byte(a - b), AsBit(a >= b)))
  <2> DEFINE n == Byte(a - b)
             k == AsBit(a >= b)
  <2>1. k \in {0, 1}
    BY DEF AsBit
  <2> HIDE DEF n, k
  <2>2. IsByte(NZC(sr, n, k))
    BY <2>1, NZCIsByte
  <2> QED  BY <2>2 DEF n, k
<1> QED  BY <1>1, <1>2, <1>3 DEF CountedA, CountedSr, v

\* P6502CC: the cycles of an instruction that counts in memory.
LEMMA CountCycles ==
  ASSUME NEW s, s.code[1] \in Counting, Registers(s), IsByte(s.a), IsByte(s.sr), IsByte(s.rv)
  PROVE  LET i == s.code[1]
         IN  /\ s.ex = 0 => ExecHdlr(s) = prepMemWrite(NextEx(s), s.opAdr, s.rv)
             /\ s.ex = 1 => ExecHdlr(s) = prepMemWrite(NextEx(s), s.opAdr, NewCount(i, s.rv))
             /\ s.ex = 2 => ExecHdlr(s) = Done(Changed(s, CountedA(i, s.a, s.sr, s.rv),
                                                          CountedSr(i, s.a, s.sr, s.rv)))
<1> DEFINE i == s.code[1]
           v == NewCount(i, s.rv)
           last == Changed(s, CountedA(i, s.a, s.sr, s.rv), CountedSr(i, s.a, s.sr, s.rv))
<1>1. /\ i = "DEC" => ExecHdlr(s) = DECExecHdlr(s)
      /\ i = "INC" => ExecHdlr(s) = INCExecHdlr(s)
      /\ i = "ISC" => ExecHdlr(s) = ISCExecHdlr(s)
      /\ i = "DCP" => ExecHdlr(s) = DCPExecHdlr(s)
  BY Zenon DEF ExecHdlr
<1>2. CASE i \in Counts
  <2>1. /\ i = "DEC" => v = Byte(s.rv - 1)
        /\ i = "INC" => v = Byte(s.rv + 1)
    BY DEF NewCount
  <2>2. ExecHdlr(s) = Modify(s, v, setNZflags(s, v))
    BY <1>1, <1>2, <2>1 DEF Counts, DECExecHdlr, INCExecHdlr
  <2>3. CountedA(i, s.a, s.sr, s.rv) = s.a /\ CountedSr(i, s.a, s.sr, s.rv) = NZ(s.sr, v)
    BY <1>2 DEF CountedA, CountedSr, Counts
  <2> HIDE DEF v
  <2>4. setNZflags(s, v) = last
    BY <2>3, ChangesFlags
  <2> HIDE DEF last
  <2> QED  BY <2>2, <2>4 DEF Modify, v, last
<1>3. CASE i = "ISC"
  <2>1. v = Byte(s.rv + 1)
    BY <1>3 DEF NewCount
  <2>2. ExecHdlr(s) = Modify(s, v, Subtract(s, v))
    BY <1>1, <1>3, <2>1 DEF ISCExecHdlr
  <2>3. /\ CountedA(i, s.a, s.sr, s.rv) = DiffA(s.a, s.sr, v)
        /\ CountedSr(i, s.a, s.sr, s.rv) = DiffSr(s.a, s.sr, v)
    BY <1>3 DEF CountedA, CountedSr
  <2> HIDE DEF v
  <2>4. Subtract(s, v) = last
    BY <2>3, ChangesSums
  <2> HIDE DEF last
  <2> QED  BY <2>2, <2>4 DEF Modify, v, last
<1>4. CASE i = "DCP"
  <2>1. v = Byte(s.rv - 1)
    BY <1>4 DEF NewCount
  <2> DEFINE n == Byte(s.a - s.rv)
             c == s.a >= s.rv
  <2>2. ExecHdlr(s) = Modify(s, v, setNZCflags(s, n, c))
    BY <1>1, <1>4, <2>1 DEF DCPExecHdlr
  <2>3. CountedA(i, s.a, s.sr, s.rv) = s.a /\ CountedSr(i, s.a, s.sr, s.rv) = NZC(s.sr, n, AsBit(c))
    BY <1>4 DEF CountedA, CountedSr
  <2> HIDE DEF v, n, c
  <2>4. setNZCflags(s, n, c) = last
    BY <2>3, ChangesFlags
  <2> HIDE DEF last
  <2> QED  BY <2>2, <2>4 DEF Modify, v, last
<1> QED  BY <1>2, <1>3, <1>4 DEF Counting

\* The other processor.
LEMMA ICCounts ==
  ASSUME NEW r, r.code[1] \in Counting, Whole(r), IsByte(r.a), IsByte(r.sr), IsByte(r.rv),
         Writable(r.opAdr)
  PROVE  LET i == r.code[1]
         IN  ICPU!ExecHdlr(r)
               = Changed(Stored(Stored(r, r.opAdr, r.rv), r.opAdr, NewCount(i, r.rv)),
                         CountedA(i, r.a, r.sr, r.rv), CountedSr(i, r.a, r.sr, r.rv))
<1> DEFINE i == r.code[1]
           v == NewCount(i, r.rv)
           u == Stored(Stored(r, r.opAdr, r.rv), r.opAdr, v)
<1>1. /\ i = "DEC" => ICPU!ExecHdlr(r) = ICPU!DECExecHdlr(r)
      /\ i = "INC" => ICPU!ExecHdlr(r) = ICPU!INCExecHdlr(r)
      /\ i = "ISC" => ICPU!ExecHdlr(r) = ICPU!ISCExecHdlr(r)
      /\ i = "DCP" => ICPU!ExecHdlr(r) = ICPU!DCPExecHdlr(r)
  BY Zenon DEF ICPU!ExecHdlr
<1>2. /\ ICPU!Stored(ICPU!Stored(r, r.opAdr, r.rv), r.opAdr, v) = u
      /\ Registers(u) /\ u.a = r.a /\ u.sr = r.sr /\ u.rv = r.rv
  <2> DEFINE t == Stored(r, r.opAdr, r.rv)
  <2>1. Registers(r)
    BY DEF Whole
  <2>2. ICPU!Stored(r, r.opAdr, r.rv) = t /\ Registers(t) /\ t.a = r.a /\ t.sr = r.sr /\ t.rv = r.rv
    BY <2>1, Writes DEF Wrote
  <2> HIDE DEF t, v
  <2>3. /\ ICPU!Stored(t, r.opAdr, v) = Stored(t, r.opAdr, v)
        /\ Wrote(Stored(t, r.opAdr, v), t, r.opAdr, v) /\ Registers(Stored(t, r.opAdr, v))
    BY <2>2, Writes
  <2> QED  BY <2>2, <2>3 DEF Wrote, t
<1>3. ICPU!Writable(r.opAdr)
  BY DEF Writable, ICPU!Writable, RomStart, ICPU!RomStart
<1>4. \A n : ICPU!Byte(n) = Byte(n)
  BY DEF Byte, ICPU!Byte
<1>5. CASE i \in Counts
  <2>1. /\ i = "DEC" => v = ICPU!Byte(r.rv - 1)
        /\ i = "INC" => v = ICPU!Byte(r.rv + 1)
    BY <1>4 DEF NewCount
  <2>2. ICPU!ExecHdlr(r) = ICPU!setNZflags(ICPU!Stored(ICPU!Stored(r, r.opAdr, r.rv), r.opAdr, v), v)
    BY <1>1, <1>3, <1>5, <2>1 DEF Counts, ICPU!DECExecHdlr, ICPU!INCExecHdlr, ICPU!Modify
  <2>3. CountedA(i, r.a, r.sr, r.rv) = r.a /\ CountedSr(i, r.a, r.sr, r.rv) = NZ(r.sr, v)
    BY <1>5 DEF CountedA, CountedSr, Counts
  <2> HIDE DEF v, u
  <2> QED  BY <1>2, <2>2, <2>3, ChangesFlags DEF v, u
<1>6. CASE i = "ISC"
  <2>1. v = ICPU!Byte(r.rv + 1)
    BY <1>4, <1>6 DEF NewCount
  <2>2. ICPU!ExecHdlr(r) = ICPU!Subtract(ICPU!Stored(ICPU!Stored(r, r.opAdr, r.rv), r.opAdr, v), v)
    BY <1>1, <1>3, <1>6, <2>1 DEF ICPU!ISCExecHdlr, ICPU!Modify
  <2>3. /\ CountedA(i, r.a, r.sr, r.rv) = DiffA(r.a, r.sr, v)
        /\ CountedSr(i, r.a, r.sr, r.rv) = DiffSr(r.a, r.sr, v)
    BY <1>6 DEF CountedA, CountedSr
  <2> HIDE DEF v, u
  <2> QED  BY <1>2, <2>2, <2>3, ChangesSums DEF v, u
<1>7. CASE i = "DCP"
  <2>1. v = ICPU!Byte(r.rv - 1)
    BY <1>4, <1>7 DEF NewCount
  <2> DEFINE n == Byte(r.a - r.rv)
             c == r.a >= r.rv
  <2>2. ICPU!ExecHdlr(r) = ICPU!setNZCflags(u, ICPU!Byte(u.a - u.rv), u.a >= u.rv)
    BY <1>1, <1>2, <1>3, <1>7, <2>1 DEF ICPU!DCPExecHdlr, ICPU!Modify
  <2>4. ICPU!ExecHdlr(r) = ICPU!setNZCflags(u, n, c)
    BY <1>2, <1>4, <2>2
  <2>3. CountedA(i, r.a, r.sr, r.rv) = r.a /\ CountedSr(i, r.a, r.sr, r.rv) = NZC(r.sr, n, AsBit(c))
    BY <1>7 DEF CountedA, CountedSr
  <2> HIDE DEF v, u, n, c
  <2> QED  BY <1>2, <2>4, <2>3, ChangesFlags DEF v, u
<1> QED  BY <1>5, <1>6, <1>7 DEF Counting

\* The other processor sets C, writes twice, sets N and Z, and then A.
LEMMA ICShiftsMemory ==
  ASSUME NEW r, Whole(r), IsByte(r.a), IsByte(r.sr), IsByte(r.rv), Writable(r.opAdr),
         NEW v, NEW c
  PROVE  LET t == [r EXCEPT !.sr = ICPU!SetFlag(@, C, c)]
             u == ICPU!Stored(ICPU!Stored(t, t.opAdr, t.rv), t.opAdr, v)
         IN  /\ ICPU!setNZflags(u, v) = Changed(Stored(Stored(r, r.opAdr, r.rv), r.opAdr, v), r.a,
                                                NZC(r.sr, v, AsBit(c)))
             /\ ICPU!Writable(t.opAdr)
<1> DEFINE k == AsBit(c)
           x == With(r.sr, C, k)
           t == Changed(r, r.a, x)
           u == Stored(Stored(t, r.opAdr, r.rv), r.opAdr, v)
           w == Stored(Stored(r, r.opAdr, r.rv), r.opAdr, v)
<1>1. Registers(r) /\ k \in {0, 1}
  BY DEF Whole, AsBit
<1>2. [r EXCEPT !.sr = ICPU!SetFlag(@, C, c)] = t
  <2>1. ICPU!SetFlag(r.sr, C, c) = x
    BY DEF ICPU!SetFlag, ICPU!Bit, Bit, With, AsBit
  <2> HIDE DEF x
  <2>2. [r EXCEPT !.sr = x] = t
    BY <1>1, ChangesAgain
  <2> QED  BY <2>1, <2>2
<1> HIDE DEF k
<1>3. Whole(t) /\ Registers(t) /\ t.opAdr = r.opAdr /\ t.rv = r.rv
  BY DEF Changed, Whole, Registers
<1>4. ICPU!Stored(ICPU!Stored(t, r.opAdr, r.rv), r.opAdr, v) = u /\ Registers(u)
  <2> DEFINE m == Stored(t, r.opAdr, r.rv)
  <2> HIDE DEF t
  <2>1. ICPU!Stored(t, r.opAdr, r.rv) = m /\ Registers(m)
    BY <1>3, Writes
  <2> HIDE DEF m
  <2>2. ICPU!Stored(m, r.opAdr, v) = Stored(m, r.opAdr, v) /\ Registers(Stored(m, r.opAdr, v))
    BY <2>1, Writes
  <2> QED  BY <2>1, <2>2 DEF m
<1>5. u = Changed(w, r.a, x) /\ Whole(w) /\ w.a = r.a /\ w.sr = r.sr
  <2> HIDE DEF x
  <2> QED  BY WrittenChanged
<1>6. ICPU!setNZflags(u, v) = Changed(u, u.a, NZ(u.sr, v))
  <2> HIDE DEF u
  <2> QED  BY <1>4, ChangesFlags
<1> HIDE DEF w, u, x
<1>7. u.a = r.a /\ u.sr = x /\ \A sr : Changed(u, r.a, sr) = Changed(w, r.a, sr)
  <2>1. Registers(w)
    BY <1>5 DEF Whole
  <2> QED  BY <1>5, <2>1, ChangedOnce
<1>8. NZ(x, v) = NZC(r.sr, v, k)
  BY <1>1, FlagsCommute DEF x
<1>9. ICPU!Writable(r.opAdr)
  BY DEF Writable, ICPU!Writable, RomStart, ICPU!RomStart
<1>10. ICPU!setNZflags(u, v) = Changed(w, r.a, NZC(r.sr, v, k))
  BY <1>6, <1>7, <1>8
<1> HIDE DEF t
<1> QED  BY <1>2, <1>3, <1>4, <1>9, <1>10 DEF w, k

\* P6502IC: a shift of memory.
LEMMA ICShifts ==
  ASSUME NEW r, r.code[1] \in Shifting, Whole(r), IsByte(r.a), IsByte(r.sr), IsByte(r.rv),
         Writable(r.opAdr), WritesMem(r.code)
  PROVE  LET i == r.code[1]
         IN  ICPU!ExecHdlr(r)
               = Changed(Stored(Stored(r, r.opAdr, r.rv), r.opAdr, ShiftValue(i, r.rv, r.sr)),
                         ShiftedA(i, r.a, r.sr, r.rv), ShiftedSr(i, r.a, r.sr, r.rv))
<1> DEFINE i == r.code[1]
           v == ShiftValue(i, r.rv, r.sr)
           c == ShiftCarry(i, r.rv)
           x == ShiftSr(i, r.rv, r.sr)
           w == Stored(Stored(r, r.opAdr, r.rv), r.opAdr, v)
           t == [r EXCEPT !.sr = ICPU!SetFlag(@, C, c)]
           u == ICPU!Stored(ICPU!Stored(t, t.opAdr, t.rv), t.opAdr, v)
           n == ICPU!setNZflags(u, v)
<1>1. n = Changed(w, r.a, x) /\ ICPU!Writable(t.opAdr)
  <2> HIDE DEF v, c
  <2> QED  BY ICShiftsMemory DEF ShiftSr, v, c
<1>2. /\ i = "ASL" => ICPU!ExecHdlr(r) = ICPU!ASLExecHdlr(r)
      /\ i = "LSR" => ICPU!ExecHdlr(r) = ICPU!LSRExecHdlr(r)
      /\ i = "ROL" => ICPU!ExecHdlr(r) = ICPU!ROLExecHdlr(r)
      /\ i = "ROR" => ICPU!ExecHdlr(r) = ICPU!RORExecHdlr(r)
      /\ i = "RLA" => ICPU!ExecHdlr(r) = ICPU!RLAExecHdlr(r)
      /\ i = "RRA" => ICPU!ExecHdlr(r) = ICPU!RRAExecHdlr(r)
  BY Zenon DEF ICPU!ExecHdlr
<1>3. ICPU!WritesMem(r.code)
  BY DEF WritesMem, ICPU!WritesMem, NoMemory, ICPU!NoMemory, Stores, ICPU!Stores, Shifts,
     ICPU!Shifts,
         Counts, ICPU!Counts, Combined, ICPU!Combined
<1>4. ICPU!Shift(r, v, c, ICPU!Same) = n
  BY <1>1, <1>3 DEF ICPU!Shift, ICPU!Modify, ICPU!Same, ICPU!C, C
<1>5. IsByte(x) /\ Registers(w) /\ w.a = r.a /\ w.sr = r.sr
  <2>1. IsByte(x)
    BY ShiftBytes
  <2> HIDE DEF v
  <2>2. Whole(w) /\ w.a = r.a /\ w.sr = r.sr
    BY WrittenChanged
  <2> QED  BY <2>1, <2>2 DEF Whole
<1>6. CASE i \in Shifts
  <2>1. ShiftedA(i, r.a, r.sr, r.rv) = r.a /\ ShiftedSr(i, r.a, r.sr, r.rv) = x
    BY <1>6 DEF ShiftedA, ShiftedSr, Shifts
  <2>2. CASE i = "ASL"
    <3>1. v = ICPU!Byte(2 * r.rv) /\ c = (r.rv >= 128)
      BY <2>2 DEF ShiftValue, ShiftCarry, ICPU!Byte, Byte
    <3> QED  BY <1>1, <1>2, <1>4, <2>1, <2>2, <3>1 DEF ICPU!ASLExecHdlr
  <2>3. CASE i = "LSR"
    <3>1. v = r.rv \div 2 /\ c = (r.rv % 2 = 1)
      BY <2>3 DEF ShiftValue, ShiftCarry
    <3> QED  BY <1>1, <1>2, <1>4, <2>1, <2>3, <3>1 DEF ICPU!LSRExecHdlr
  <2>4. CASE i = "ROL"
    <3>1. v = ICPU!RotatedLeft(r) /\ c = (r.rv >= 128)
      BY <2>4 DEF ShiftValue, ShiftCarry, ICPU!RotatedLeft, ICPU!Byte, Byte, ICPU!Bit, Bit, C,
         ICPU!C
    <3> QED  BY <1>1, <1>2, <1>4, <2>1, <2>4, <3>1 DEF ICPU!ROLExecHdlr
  <2>5. CASE i = "ROR"
    <3>1. v = ICPU!RotatedRight(r) /\ c = (r.rv % 2 = 1)
      BY <2>5 DEF ShiftValue, ShiftCarry, ICPU!RotatedRight, ICPU!Bit, Bit, C, ICPU!C
    <3> QED  BY <1>1, <1>2, <1>4, <2>1, <2>5, <3>1 DEF ICPU!RORExecHdlr
  <2> QED  BY <1>6, <2>2, <2>3, <2>4, <2>5 DEF Shifts
<1>7. CASE i = "RLA"
  <2>1. v = ICPU!RotatedLeft(r) /\ c = (r.rv >= 128)
    BY <1>7 DEF ShiftValue, ShiftCarry, ICPU!RotatedLeft, ICPU!Byte, Byte, ICPU!Bit, Bit, C, ICPU!C
  <2>2. ICPU!RLAExecHdlr(r) = [n EXCEPT !.a = ICPU!And(@, v)]
    <3> HIDE DEF v, c
    <3> QED  BY <1>1, <1>3, <2>1 DEF ICPU!RLAExecHdlr, ICPU!Shift, ICPU!Modify, ICPU!C, C
  <2>3. ShiftedA(i, r.a, r.sr, r.rv) = And(r.a, v) /\ ShiftedSr(i, r.a, r.sr, r.rv) = x
    BY <1>7 DEF ShiftedA, ShiftedSr
  <2> HIDE DEF v, x, w, n
  <2>4. Registers(n) /\ n.a = r.a /\ n.sr = x /\ \A b, st : Changed(n, b, st) = Changed(w, b, st)
    BY <1>1, <1>5, ChangedOnce
  <2>5. ICPU!And(r.a, v) = And(r.a, v)
    BY SharedBits
  <2> DEFINE m == And(r.a, v)
  <2> HIDE DEF m
  <2>6. [n EXCEPT !.a = m] = Changed(n, m, x)
    BY <2>4, ChangesAgain
  <2>7. [n EXCEPT !.a = ICPU!And(@, v)] = [n EXCEPT !.a = m]
    BY <2>4, <2>5 DEF m
  <2>8. ICPU!ExecHdlr(r) = Changed(w, m, x)
    BY <1>2, <1>7, <2>2, <2>4, <2>6, <2>7
  <2> QED  BY <2>3, <2>8 DEF v, w, m
<1>8. CASE i = "RRA"
  <2>1. v = ICPU!RotatedRight(r) /\ c = (r.rv % 2 = 1)
    BY <1>8 DEF ShiftValue, ShiftCarry, ICPU!RotatedRight, ICPU!Bit, Bit, C, ICPU!C
  <2>2. ICPU!RRAExecHdlr(r) = ICPU!Add(n, v)
    <3> HIDE DEF v, c
    <3> QED  BY <1>1, <1>3, <2>1 DEF ICPU!RRAExecHdlr, ICPU!Shift, ICPU!Modify, ICPU!C, C
  <2>3. /\ ShiftedA(i, r.a, r.sr, r.rv) = SumA(r.a, x, v)
        /\ ShiftedSr(i, r.a, r.sr, r.rv) = SumSr(r.a, x, v)
    BY <1>8 DEF ShiftedA, ShiftedSr
  <2> HIDE DEF v, x, w, n
  <2>4. Registers(n) /\ n.a = r.a /\ n.sr = x /\ \A b, st : Changed(n, b, st) = Changed(w, b, st)
    BY <1>1, <1>5, ChangedOnce
  <2>5. ICPU!Add(n, v) = Changed(n, SumA(n.a, n.sr, v), SumSr(n.a, n.sr, v))
    BY <1>5, <2>4, ChangesSums
  <2>6. ICPU!ExecHdlr(r) = Changed(w, SumA(r.a, x, v), SumSr(r.a, x, v))
    BY <1>2, <1>8, <2>2, <2>4, <2>5
  <2> QED  BY <2>3, <2>6 DEF v, w
<1> QED  BY <1>6, <1>7, <1>8 DEF Shifting

-----------------------------------------------------------------------------
(* Both ways to modify memory.                                             *)

Modified(i, b, sr) == IF i \in Counting THEN NewCount(i, b) ELSE ShiftValue(i, b, sr)
ModifiedA(i, a, sr, b) == IF i \in Counting THEN CountedA(i, a, sr, b) ELSE ShiftedA(i, a, sr, b)
ModifiedSr(i, a, sr, b) == IF i \in Counting THEN CountedSr(i, a, sr, b) ELSE ShiftedSr(i, a, sr, b)

\* r after it has been executed on the byte b.
Modifying(r, b) ==
  LET i == r.code[1]
  IN  Changed(Stored(Stored(r, r.opAdr, b), r.opAdr, Modified(i, b, r.sr)),
              ModifiedA(i, r.a, r.sr, b), ModifiedSr(i, r.a, r.sr, b))

\* What an instruction that modifies memory leaves is bytes.
LEMMA ModifyBytes ==
  ASSUME NEW i \in Counting \cup Shifting,
         NEW a, IsByte(a), NEW sr, IsByte(sr), NEW b, IsByte(b)
  PROVE  /\ IsByte(Modified(i, b, sr)) /\ IsByte(ModifiedA(i, a, sr, b))
         /\ IsByte(ModifiedSr(i, a, sr, b))
BY CountBytes, ShiftBytes DEF Modified, ModifiedA, ModifiedSr

\* What the table says of instructions that modify memory.
LEMMA ModifyKind ==
  ASSUME NEW o, MarkedWell(o), Modifies(o)
  PROVE  /\ o[1] \in Counting \cup Shifting /\ Steps(o) = 3 /\ o[1] # "JSR" /\ ~ Plain(o)
         /\ ReadsMem(o) /\ WritesMem(o) /\ o[2] # "Accumulator"
<1>1. /\ o[2] \notin NoMemory /\ o[1] \in Shifts \cup Counts \cup Combined
      /\ o[1] \notin {"SLO", "SRE"}
  BY DEF Modifies, WritesMem, MarkedWell
<1>2. o[1] \in Counting \cup Shifting
  BY <1>1 DEF Counting, Shifting, Combined
<1>3. ReadsMem(o) /\ WritesMem(o) /\ o[1] # "JSR"
  BY <1>1, <1>2 DEF ReadsMem, Stores, Modifies, Shifts, Counts, Combined
<1> QED  BY <1>1, <1>2, <1>3 DEF Steps, Plain, NoMemory

\* The path of DEC, INC, DCP and ISC: the old value is written, then the new one.
LEMMA CountPath ==
  ASSUME NEW e, NEW r, Beside(e, r, e, r, 0), e.code = r.code, e.code[1] \in Counting,
         e.exec = "EXECUTE", e.opAdr = r.opAdr, IsWord(r.opAdr), IsByte(e.rv)
  PROVE  \E s : Leads(ExecHdlr(e), Done(s)) /\ Beside(s, Modifying(r, e.rv), e, r, 2)
<1> DEFINE i == e.code[1]
           adr == r.opAdr
           b == e.rv
           v == NewCount(i, b)
           a == CountedA(i, r.a, r.sr, b)
           sr == CountedSr(i, r.a, r.sr, b)
           p == prepMemWrite(NextEx(e), adr, b)
           t == Access(p)
           u == Stored(r, adr, b)
           o == prepMemWrite(NextEx(t), adr, v)
           m == Access(o)
           w == Stored(u, adr, v)
<1>1. /\ Whole(r) /\ IsByte(r.a) /\ IsByte(r.sr) /\ e.ex = 0 /\ Registers(e) /\ e.a = r.a
      /\ e.sr = r.sr
  BY DEF Beside, Typed, Agree, Micro
<1>2. IsByte(v) /\ IsByte(a) /\ IsByte(sr)
  BY <1>1, CountBytes
<1>3. ExecHdlr(e) = p
  BY <1>1, CountCycles
<1> HIDE DEF v, a, sr
<1>4. p.exec = "EXECUTE" /\ Beside(t, u, e, r, 0 + 1) /\ t.rv = b
  BY WriteCycle
<1>5. /\ Whole(w) /\ w.a = r.a /\ w.sr = r.sr
  BY <1>1, WrittenChanged
<1>6. IsByte(u.a) /\ IsByte(u.sr) /\ Registers(t) /\ t.a = u.a /\ t.sr = u.sr
  BY <1>4 DEF Beside, Typed, Agree, Micro
<1> HIDE DEF p, t, u
<1>7. t.code = e.code /\ t.ex = 1 /\ t.opAdr = adr
  BY <1>4 DEF Beside
<1>8. ExecHdlr(t) = o
  BY <1>4, <1>6, <1>7, CountCycles DEF v
<1>9. Beside(t, u, e, r, 1)
  BY <1>4
<1>10. o.exec = "EXECUTE" /\ Beside(m, w, e, r, 1 + 1) /\ m.rv = b
  BY <1>2, <1>4, <1>9, WriteCycle
<1> HIDE DEF o, m, w
<1>11. m.code = e.code /\ m.ex = 2 /\ Registers(m) /\ m.a = w.a /\ m.sr = w.sr
  BY <1>10 DEF Beside, Agree, Micro
<1> DEFINE s == Changed(m, a, sr)
<1>12. ExecHdlr(m) = Done(s)
  BY <1>1, <1>5, <1>10, <1>11, CountCycles DEF a, sr
<1>13. Beside(s, Changed(w, a, sr), e, r, 2)
  BY <1>2, <1>10, BesideChanged
<1> HIDE DEF s
<1>14. Leads(ExecHdlr(m), Done(s))
  BY <1>12, LeadsNowhere
<1>15. Leads(ExecHdlr(t), Done(s))
  BY <1>8, <1>10, <1>14, ExecutesOn DEF m
<1>16. Leads(ExecHdlr(e), Done(s))
  BY <1>3, <1>4, <1>15, ExecutesOn DEF t
<1>17. Modifying(r, b) = Changed(w, a, sr)
  BY DEF Modifying, Modified, ModifiedA, ModifiedSr, w, u, a, sr, v
<1> QED  BY <1>13, <1>16, <1>17

\* The path of the shifts: the old value is written, then the new one.
LEMMA ShiftPath ==
  ASSUME NEW e, NEW r, Beside(e, r, e, r, 0), e.code = r.code, e.code[1] \in Shifting,
         WritesMem(e.code),
         e.exec = "EXECUTE", e.opAdr = r.opAdr, IsWord(r.opAdr), e.data = e.rv, IsByte(e.rv)
  PROVE  \E s : Leads(ExecHdlr(e), Done(s)) /\ Beside(s, Modifying(r, e.rv), e, r, 2)
<1> DEFINE i == e.code[1]
           adr == r.opAdr
           b == e.rv
           v == ShiftValue(i, b, r.sr)
           a == ShiftedA(i, r.a, r.sr, b)
           sr == ShiftedSr(i, r.a, r.sr, b)
           p == ExecHdlr(e)
           q == Changed(r, a, sr)
           t == Access(p)
           u == Stored(q, adr, b)
           o == prepMemWrite(NextEx(t), adr, v)
           m == Access(o)
           w == Stored(u, adr, v)
<1>1. Whole(r) /\ IsByte(r.a) /\ IsByte(r.sr) /\ e.ex = 0 /\ Micro(e) /\ e.a = r.a /\ e.sr = r.sr
  BY DEF Beside, Typed, Agree
<1>2. IsByte(v) /\ IsByte(a) /\ IsByte(sr)
  BY <1>1, ShiftBytes
<1>3. Begun(p, e, a, sr, v)
  BY <1>1, FirstShift
<1> HIDE DEF v, a, sr, p
<1>4. Beside(p, q, e, r, 1)
  BY <1>2, <1>3, BegunBeside
<1>5. p.rw = "write" /\ p.data = b /\ p.adr = adr /\ p.calc = v /\ p.exec = "EXECUTE"
  <2>1. Address(e.opAdr) = adr
    BY DEF Address, IsWord
  <2> QED  BY <1>3, <2>1 DEF Begun
<1>6. Beside(t, u, e, r, 1) /\ t.calc = v
  BY <1>4, <1>5, PreparedWrite
<1>7. w = Changed(Stored(Stored(r, adr, b), adr, v), a, sr)
  BY <1>1, WrittenChanged
<1> HIDE DEF q, t, u
<1>8. t.code = e.code /\ t.ex = 1 /\ t.opAdr = adr
  BY <1>6 DEF Beside
<1>9. ExecHdlr(t) = o
  BY <1>6, <1>8, LaterShifts, SMTT(30)
<1>10. o.exec = "EXECUTE" /\ Beside(m, w, e, r, 1 + 1)
  BY <1>2, <1>6, WriteCycle
<1> HIDE DEF o, m, w
<1>11. m.code = e.code /\ m.ex = 2
  BY <1>10 DEF Beside
<1>12. ExecHdlr(m) = Done(m)
  BY <1>11, LaterShifts
<1>14. Leads(ExecHdlr(m), Done(m))
  BY <1>12, LeadsNowhere
<1>15. Leads(ExecHdlr(t), Done(m))
  BY <1>9, <1>10, <1>14, ExecutesOn DEF m
<1>16. Leads(ExecHdlr(e), Done(m))
  BY <1>5, <1>15, ExecutesOn DEF t, p
<1>17. Modifying(r, b) = w
  <2>1. i \notin Counting
    BY DEF Counting, Shifting, Counts, Shifts
  <2> QED  BY <1>7, <2>1 DEF Modifying, Modified, ModifiedA, ModifiedSr, a, sr, v
<1>18. Beside(m, w, e, r, 2)
  BY <1>10
<1> QED  BY <1>16, <1>17, <1>18

\* The code of the instruction is left alone, however far the other processor gets.
HasCode(s, o) == "code" \in DOMAIN s /\ s.code = o

\* Writing leaves the opcode.
LEMMA CodeLeft ==
  ASSUME NEW s, NEW o, HasCode(s, o)
  PROVE  /\ \A v : HasCode([s EXCEPT !.a = v], o) /\ HasCode([s EXCEPT !.sr = v], o)
         /\ \A adr, v : HasCode(ICPU!Stored(s, adr, v), o)
<1>1. \A v : HasCode([s EXCEPT !.a = v], o) /\ HasCode([s EXCEPT !.sr = v], o)
  BY DEF HasCode
<1>2. \A adr, v : HasCode(ICPU!Stored(s, adr, v), o)
  BY DEF HasCode, ICPU!Stored
<1> QED  BY <1>1, <1>2

\* So does setting flags.
LEMMA CodeLeftByFlags ==
  ASSUME NEW s, NEW o, HasCode(s, o)
  PROVE  /\ \A v : HasCode(ICPU!setNZflags(s, v), o)
         /\ \A v, c : HasCode(ICPU!setNZCflags(s, v, c), o)
         /\ \A n, z, c, v : HasCode(ICPU!setNZCVflags(s, n, z, c, v), o)
<1>1. \A v : HasCode(ICPU!setNZflags(s, v), o)
  BY CodeLeft DEF ICPU!setNZflags
<1>2. \A v, c : HasCode(ICPU!setNZCflags(s, v, c), o)
  BY <1>1, CodeLeft DEF ICPU!setNZCflags
<1>3. \A n, z, v : HasCode(ICPU!setNZVflags(s, n, z, v), o)
  BY CodeLeft DEF ICPU!setNZVflags
<1>4. \A n, z, c, v : HasCode(ICPU!setNZCVflags(s, n, z, c, v), o)
  BY <1>3, CodeLeft DEF ICPU!setNZCVflags
<1> QED  BY <1>1, <1>2, <1>4

\* So do sums.
LEMMA CodeLeftBySums ==
  ASSUME NEW s, NEW o, HasCode(s, o), NEW v
  PROVE  HasCode(ICPU!Add(s, v), o) /\ HasCode(ICPU!Subtract(s, v), o)
<1>1. \A n : HasCode([s EXCEPT !.a = n], o)
  BY CodeLeft
<1>2. \A n, x, y, z, k : HasCode(ICPU!setNZCVflags([s EXCEPT !.a = n], x, y, z, k), o)
  BY <1>1, CodeLeftByFlags
<1> QED  BY <1>2 DEF ICPU!Add, ICPU!Subtract

\* So does modifying memory.
LEMMA CodeLeftByModifying ==
  ASSUME NEW r, Registers(r), MarkedWell(r.code), Modifies(r.code)
  PROVE  (ICPU!ExecHdlr(r)).code = r.code
<1> DEFINE i == r.code[1]
           o == r.code
           f == HasCode(ICPU!ExecHdlr(r), o)
<1>1. HasCode(r, o)
  BY DEF HasCode, Registers
<1>2. /\ i \in Counting \cup Shifting
      /\ \A s : HasCode(s, o) => ICPU!WritesMem(s.code)
  <2>1. ICPU!WritesMem(o)
    BY DEF Modifies, WritesMem, ICPU!WritesMem, NoMemory, ICPU!NoMemory, Stores, ICPU!Stores,
           Shifts, ICPU!Shifts, Counts, ICPU!Counts, Combined, ICPU!Combined
  <2> QED  BY <2>1, ModifyKind DEF HasCode
<1>3. ASSUME NEW s, HasCode(s, o), NEW adr, NEW b, NEW v
      PROVE  LET u == ICPU!Stored(ICPU!Stored(s, adr, b), adr, v)
             IN  /\ HasCode(ICPU!Stored(s, adr, b), o) /\ HasCode(u, o)
                 /\ HasCode(ICPU!setNZflags(u, v), o) /\ HasCode(ICPU!Subtract(u, v), o)
                 /\ \A n, c : HasCode(ICPU!setNZCflags(u, n, c), o)
  <2> DEFINE t == ICPU!Stored(s, adr, b)
             u == ICPU!Stored(t, adr, v)
  <2>1. HasCode(t, o)
    BY <1>3, CodeLeft
  <2> HIDE DEF t
  <2>2. HasCode(u, o)
    BY <2>1, CodeLeft
  <2> HIDE DEF u
  <2>3. HasCode(ICPU!setNZflags(u, v), o) /\ \A n, c : HasCode(ICPU!setNZCflags(u, n, c), o)
    BY <2>2, CodeLeftByFlags
  <2>4. HasCode(ICPU!Subtract(u, v), o)
    BY <2>2, CodeLeftBySums
  <2> QED  BY <2>1, <2>2, <2>3, <2>4 DEF t, u
<1>4. CASE i \in Counting
  <2>1. /\ i = "DEC" => ICPU!ExecHdlr(r) = ICPU!DECExecHdlr(r)
        /\ i = "INC" => ICPU!ExecHdlr(r) = ICPU!INCExecHdlr(r)
        /\ i = "ISC" => ICPU!ExecHdlr(r) = ICPU!ISCExecHdlr(r)
        /\ i = "DCP" => ICPU!ExecHdlr(r) = ICPU!DCPExecHdlr(r)
    BY Zenon DEF ICPU!ExecHdlr
  <2>2. HasCode(ICPU!DECExecHdlr(r), o) /\ HasCode(ICPU!INCExecHdlr(r), o)
    <3> DEFINE x == ICPU!Byte(r.rv - 1)
               y == ICPU!Byte(r.rv + 1)
    <3> HIDE DEF x, y
    <3>1. HasCode(ICPU!DECExecHdlr(r), o)
      BY <1>1, <1>3 DEF ICPU!DECExecHdlr, ICPU!Modify, x
    <3>2. HasCode(ICPU!INCExecHdlr(r), o)
      BY <1>1, <1>3 DEF ICPU!INCExecHdlr, ICPU!Modify, y
    <3> QED  BY <3>1, <3>2
  <2>3. HasCode(ICPU!ISCExecHdlr(r), o) /\ HasCode(ICPU!DCPExecHdlr(r), o)
    <3>1. HasCode(ICPU!ISCExecHdlr(r), o)
      BY <1>1, <1>3 DEF ICPU!ISCExecHdlr, ICPU!Modify
    <3>2. HasCode(ICPU!DCPExecHdlr(r), o)
      BY <1>1, <1>3 DEF ICPU!DCPExecHdlr, ICPU!Modify
    <3> QED  BY <3>1, <3>2
  <2> QED  BY <1>4, <2>1, <2>2, <2>3 DEF Counting, Counts, HasCode
<1>5. CASE i \in Shifting
  <2>1. /\ i = "ASL" => ICPU!ExecHdlr(r) = ICPU!ASLExecHdlr(r)
        /\ i = "LSR" => ICPU!ExecHdlr(r) = ICPU!LSRExecHdlr(r)
        /\ i = "ROL" => ICPU!ExecHdlr(r) = ICPU!ROLExecHdlr(r)
        /\ i = "ROR" => ICPU!ExecHdlr(r) = ICPU!RORExecHdlr(r)
        /\ i = "RLA" => ICPU!ExecHdlr(r) = ICPU!RLAExecHdlr(r)
        /\ i = "RRA" => ICPU!ExecHdlr(r) = ICPU!RRAExecHdlr(r)
    BY Zenon DEF ICPU!ExecHdlr
  <2>2. ASSUME NEW v, NEW c
        PROVE  LET t == [r EXCEPT !.sr = ICPU!SetFlag(@, ICPU!C, c)]
                   u == ICPU!Stored(ICPU!Stored(t, t.opAdr, t.rv), t.opAdr, v)
                   n == ICPU!setNZflags(u, v)
               IN  /\ ICPU!WritesMem(r.code)
                   /\ HasCode(ICPU!Stored(t, t.opAdr, t.rv), o) /\ HasCode(n, o)
                   /\ \A w : HasCode([n EXCEPT !.a = w], o)
                   /\ \A w : HasCode(ICPU!Add(n, w), o)
    <3> DEFINE x == ICPU!SetFlag(r.sr, ICPU!C, c)
               t == [r EXCEPT !.sr = x]
               u == ICPU!Stored(ICPU!Stored(t, t.opAdr, t.rv), t.opAdr, v)
               n == ICPU!setNZflags(u, v)
    <3> HIDE DEF x
    <3>1. HasCode(t, o)
      BY <1>1, CodeLeft
    <3> HIDE DEF t
    <3>2. HasCode(ICPU!Stored(t, t.opAdr, t.rv), o) /\ HasCode(n, o)
      BY <1>3, <3>1
    <3> HIDE DEF u, n
    <3>3. (\A w : HasCode([n EXCEPT !.a = w], o)) /\ \A w : HasCode(ICPU!Add(n, w), o)
      BY <3>2, CodeLeft, CodeLeftBySums
    <3>4. ICPU!WritesMem(r.code)
      BY <1>1, <1>2
    <3> QED  BY <3>2, <3>3, <3>4 DEF x, t, u, n
  <2>3. ASSUME NEW v, NEW c
        PROVE  HasCode(ICPU!Shift(r, v, c, ICPU!Same), o)
    BY <2>2 DEF ICPU!Shift, ICPU!Modify, ICPU!Same
  <2>4. /\ HasCode(ICPU!ASLExecHdlr(r), o) /\ HasCode(ICPU!LSRExecHdlr(r), o)
        /\ HasCode(ICPU!ROLExecHdlr(r), o) /\ HasCode(ICPU!RORExecHdlr(r), o)
    BY <2>3 DEF ICPU!ASLExecHdlr, ICPU!LSRExecHdlr, ICPU!ROLExecHdlr, ICPU!RORExecHdlr
  <2>5. HasCode(ICPU!RLAExecHdlr(r), o)
    <3> DEFINE v == ICPU!RotatedLeft(r)
               c == r.rv >= 128
    <3> HIDE DEF v, c
    <3> QED  BY <2>2 DEF ICPU!RLAExecHdlr, ICPU!Shift, ICPU!Modify, v, c
  <2>6. HasCode(ICPU!RRAExecHdlr(r), o)
    <3> DEFINE v == ICPU!RotatedRight(r)
               c == r.rv % 2 = 1
    <3> HIDE DEF v, c
    <3> QED  BY <2>2 DEF ICPU!RRAExecHdlr, ICPU!Shift, ICPU!Modify, v, c
  <2> QED  BY <1>5, <2>1, <2>4, <2>5, <2>6 DEF Shifting, Shifts, HasCode
<1> QED  BY <1>2, <1>4, <1>5

\* Followed to the end where both processors read and write the operand in the same place.
LEMMA ModifyExecuted ==
  ASSUME NEW e, NEW r, NEW c, Ready(e, r, c), MarkedWell(e.code), Modifies(e.code)
  PROVE  Executed(e, r, c)
<1> DEFINE n == [r EXCEPT !.reads = e.reads]
           i == e.code[1]
<1>1. /\ i \in Counting \cup Shifting /\ Steps(e.code) = 3 /\ i # "JSR" /\ ~ Plain(e.code)
      /\ ReadsMem(e.code) /\ WritesMem(e.code) /\ e.code[2] # "Accumulator"
  BY ModifyKind
<1>2. /\ e.opAdr = r.opAdr /\ IsWord(r.opAdr) /\ e.data = e.rv /\ IsByte(e.rv) /\ e.code = r.code
      /\ e.exec = "EXECUTE" /\ Whole(r) /\ Registers(r)
  BY <1>1 DEF Ready, Whole
<1>3. ASSUME NEW q, Beside(e, q, e, q, 0), q.code = e.code, q.opAdr = r.opAdr
      PROVE  \E s : Leads(ExecHdlr(e), Done(s)) /\ Beside(s, Modifying(q, e.rv), e, q, 2)
  BY <1>1, <1>2, <1>3, CountPath, ShiftPath
<1>4. CASE Elsewhere(e)
  <2>1. Beside(e, n, e, n, 0) /\ n.code = e.code /\ n.opAdr = r.opAdr
    <3>1. /\ Whole(n) /\ Agree(n, r) /\ n.pc = r.pc /\ Typed(n) /\ n.reads = e.reads
          /\ n.code = r.code
          /\ n.cycles = r.cycles /\ n.opAdr = r.opAdr
      BY DEF Ready, Whole, Registers, Agree, Typed, TypedMemory
    <3> HIDE DEF n
    <3>2. Agree(e, n)
      BY <3>1 DEF Ready, Agree
    <3> QED  BY <3>1, <3>2 DEF Ready, Beside, Seen
  <2> HIDE DEF n
  <2>2. PICK s : Leads(ExecHdlr(e), Done(s)) /\ Beside(s, Modifying(n, e.rv), e, n, 2)
    BY <1>3, <2>1
  <2> DEFINE f == Done(s)
             u == ICPU!ExecHdlr(r)
  <2>3. Micro(s) /\ s.code = e.code /\ s.opAdr = e.opAdr /\ s.op16 = e.op16
    BY <2>2 DEF Beside
  <2>4. f.exec = "FETCH_OPCODE" /\ f.code = e.code /\ f.opAdr = e.opAdr /\ f.op16 = e.op16
    BY <2>3 DEF Done, initFetch, prepMemRead, NextEx, Micro, Registers
  <2>5. u.code = e.code
    BY <1>2, CodeLeftByModifying
  <2> HIDE DEF f, u
  <2>6. Finished(f, u, c, e.code)
    BY <1>4, <2>4, <2>5 DEF Finished, Elsewhere
  <2> QED  BY <2>2, <2>6 DEF Executed, f, u
<1>5. CASE ~ Elsewhere(e)
  <2>1. r.rv = e.rv /\ Seen(e.reads, r.reads) /\ Writable(r.opAdr) /\ IsByte(r.a) /\ IsByte(r.sr)
    BY <1>1, <1>2, <1>5 DEF Ready, Uses, Unread, Elsewhere, Apart, Typed
  <2>2. Beside(e, r, e, r, 0)
    BY <2>1, BesideItself
  <2>3. PICK s : Leads(ExecHdlr(e), Done(s)) /\ Beside(s, Modifying(r, e.rv), e, r, 2)
    BY <1>2, <1>3, <2>2
  <2>4. ICPU!ExecHdlr(r) = Modifying(r, e.rv)
    <3>1. CASE i \in Counting
      BY <1>2, <2>1, <3>1, ICCounts DEF Modifying, Modified, ModifiedA, ModifiedSr
    <3>2. CASE i \in Shifting
      <4>1. i \notin Counting
        BY <3>2 DEF Counting, Shifting, Counts, Shifts
      <4> QED  BY <1>1, <1>2, <2>1, <3>2, <4>1, ICShifts DEF Modifying, Modified, ModifiedA,
         ModifiedSr
    <3> QED  BY <1>1, <3>1, <3>2
  <2>5. Finished(Done(s), Modifying(r, e.rv), c, e.code)
    BY <1>1, <2>3, EndsIdly
  <2> QED  BY <2>3, <2>4, <2>5 DEF Executed
<1> QED  BY <1>4, <1>5

-----------------------------------------------------------------------------
(* Shifts of A.                                                            *)

\* What the table says of shifts of A.
LEMMA AccumulatorKind ==
  ASSUME NEW o, MarkedWell(o), o[2] = "Accumulator"
  PROVE  /\ o[1] \in Shifts /\ Steps(o) = 1 /\ ~ WritesMem(o) /\ ~ Modifies(o) /\ o[1] # "JSR"
<1>1. o[1] \in Instructions /\ o[2] \in ModesOf(o[1])
  BY Opcode DEF MarkedWell
<1>2. o[1] \in Shifts
  BY <1>1 DEF ModesOf, Instructions, FullModes, Stores, Reads, Counts, Combined, Branches,
              ByteImmediates, OneByte
<1> QED  BY <1>2, NoMemoryKinds DEF Steps, NoMemory, Shifts

\* A is shifted, and the status set, by one.
LEMMA ShiftOfA ==
  ASSUME NEW e, Micro(e), e.ex = 0, e.code[1] \in Shifts, ~ WritesMem(e.code)
  PROVE  LET i == e.code[1]
             v == ShiftValue(i, e.a, e.sr)
         IN  ExecHdlr(e) = Done(Changed([e EXCEPT !.rv = e.a, !.calc = v], v, ShiftSr(i, e.a, e.sr)))
<1> DEFINE i == e.code[1]
           v == ShiftValue(i, e.a, e.sr)
           c == ShiftCarry(i, e.a)
           x == ShiftSr(i, e.a, e.sr)
           n == [NextEx(e) EXCEPT !.rv = e.a, !.calc = v]
           m == [e EXCEPT !.rv = e.a, !.calc = v]
           t == setNZCflags(n, v, c)
<1>1. ExecHdlr(e) = Shift(e, e.a, v, c)
  <2>1. /\ i = "ASL" => ExecHdlr(e) = ASLExecHdlr(e)
        /\ i = "LSR" => ExecHdlr(e) = LSRExecHdlr(e)
        /\ i = "ROL" => ExecHdlr(e) = ROLExecHdlr(e)
        /\ i = "ROR" => ExecHdlr(e) = RORExecHdlr(e)
    BY Zenon DEF ExecHdlr
  <2>2. CASE i = "ASL"
    <3>1. v = Byte(2 * e.a) /\ c = (e.a >= 128)
      BY <2>2 DEF ShiftValue, ShiftCarry
    <3> QED  BY <2>1, <2>2, <3>1 DEF ASLExecHdlr, MemoryOrA
  <2>3. CASE i = "LSR"
    <3>1. v = e.a \div 2 /\ c = (e.a % 2 = 1)
      BY <2>3 DEF ShiftValue, ShiftCarry
    <3> QED  BY <2>1, <2>3, <3>1 DEF LSRExecHdlr, MemoryOrA
  <2>4. CASE i = "ROL"
    <3>1. v = RotatedLeft(e, e.a) /\ c = (e.a >= 128)
      BY <2>4 DEF ShiftValue, ShiftCarry, RotatedLeft
    <3> QED  BY <2>1, <2>4, <3>1 DEF ROLExecHdlr, MemoryOrA
  <2>5. CASE i = "ROR"
    <3>1. v = RotatedRight(e, e.a) /\ c = (e.a % 2 = 1)
      BY <2>5 DEF ShiftValue, ShiftCarry, RotatedRight
    <3> QED  BY <2>1, <2>5, <3>1 DEF RORExecHdlr, MemoryOrA
  <2> QED  BY <2>2, <2>3, <2>4, <2>5 DEF Shifts
<1>2. Shift(e, e.a, v, c) = initFetch([t EXCEPT !.a = v])
  <2> HIDE DEF v, c
  <2> QED  BY DEF Shift
<1>3. Registers(n) /\ n.a = e.a /\ n.sr = e.sr
  <2> HIDE DEF v
  <2> QED  BY DEF NextEx, Micro, Registers
<1>4. t = Changed(n, e.a, x)
  <2> HIDE DEF n, v, c
  <2> QED  BY <1>3, ChangesFlags DEF ShiftSr, v, c
<1>5. [t EXCEPT !.a = v] = Changed(n, v, x)
  <2> HIDE DEF n, v, x, t
  <2>1. Registers(t) /\ t.sr = x /\ Changed(t, v, x) = Changed(n, v, x)
    BY <1>3, <1>4, ChangedOnce
  <2> QED  BY <2>1, ChangesAgain
<1>6. NextEx(Changed(m, v, x)) = Changed(n, v, x)
  <2> HIDE DEF v, x
  <2>1. "ex" \in DOMAIN e /\ "a" \in DOMAIN e /\ "sr" \in DOMAIN e /\ "rv" \in DOMAIN e
        /\ "calc" \in DOMAIN e
    BY DEF Micro, Registers
  <2> QED  BY <2>1 DEF NextEx, Changed
<1> HIDE DEF n, m, t, v, x
<1> QED  BY <1>1, <1>2, <1>5, <1>6 DEF Done, m, v, x

\* P6502IC: a shift of A.
LEMMA ICShiftOfA ==
  ASSUME NEW r, Whole(r), r.code[1] \in Shifts, ~ WritesMem(r.code), r.rv = r.a, IsByte(r.sr)
  PROVE  LET i == r.code[1]
         IN  ICPU!ExecHdlr(r) = Changed(r, ShiftValue(i, r.a, r.sr), ShiftSr(i, r.a, r.sr))
<1> DEFINE i == r.code[1]
           v == ShiftValue(i, r.a, r.sr)
           c == ShiftCarry(i, r.a)
           k == AsBit(c)
           x == With(r.sr, C, k)
<1>1. ICPU!ExecHdlr(r) = ICPU!Shift(r, v, c, ICPU!Same)
  <2>1. /\ i = "ASL" => ICPU!ExecHdlr(r) = ICPU!ASLExecHdlr(r)
        /\ i = "LSR" => ICPU!ExecHdlr(r) = ICPU!LSRExecHdlr(r)
        /\ i = "ROL" => ICPU!ExecHdlr(r) = ICPU!ROLExecHdlr(r)
        /\ i = "ROR" => ICPU!ExecHdlr(r) = ICPU!RORExecHdlr(r)
    BY Zenon DEF ICPU!ExecHdlr
  <2>2. CASE i = "ASL"
    <3>1. v = ICPU!Byte(2 * r.rv) /\ c = (r.rv >= 128)
      BY <2>2 DEF ShiftValue, ShiftCarry, ICPU!Byte, Byte
    <3> QED  BY <2>1, <2>2, <3>1 DEF ICPU!ASLExecHdlr
  <2>3. CASE i = "LSR"
    <3>1. v = r.rv \div 2 /\ c = (r.rv % 2 = 1)
      BY <2>3 DEF ShiftValue, ShiftCarry
    <3> QED  BY <2>1, <2>3, <3>1 DEF ICPU!LSRExecHdlr
  <2>4. CASE i = "ROL"
    <3>1. v = ICPU!RotatedLeft(r) /\ c = (r.rv >= 128)
      BY <2>4 DEF ShiftValue, ShiftCarry, ICPU!RotatedLeft, ICPU!Byte, Byte, ICPU!Bit, Bit, C,
         ICPU!C
    <3> QED  BY <2>1, <2>4, <3>1 DEF ICPU!ROLExecHdlr
  <2>5. CASE i = "ROR"
    <3>1. v = ICPU!RotatedRight(r) /\ c = (r.rv % 2 = 1)
      BY <2>5 DEF ShiftValue, ShiftCarry, ICPU!RotatedRight, ICPU!Bit, Bit, C, ICPU!C
    <3> QED  BY <2>1, <2>5, <3>1 DEF ICPU!RORExecHdlr
  <2> QED  BY <2>2, <2>3, <2>4, <2>5 DEF Shifts
<1>2. ICPU!SetFlag(r.sr, ICPU!C, c) = x
  BY DEF ICPU!SetFlag, ICPU!Bit, Bit, With, AsBit, ICPU!C, C
<1>3. ~ ICPU!WritesMem(r.code)
  BY DEF WritesMem, ICPU!WritesMem, NoMemory, ICPU!NoMemory, Stores, ICPU!Stores, Shifts,
     ICPU!Shifts,
         Counts, ICPU!Counts, Combined, ICPU!Combined
<1>4. k \in {0, 1}
  BY DEF AsBit
<1>5. "a" \in DOMAIN r /\ "sr" \in DOMAIN r /\ Registers(r)
  BY DEF Whole, Registers
<1> HIDE DEF v, c, k, x
<1> DEFINE t == Changed(r, v, x)
<1>6. ICPU!ExecHdlr(r) = ICPU!setNZflags(t, v)
  <2>1. ICPU!Shift(r, v, c, ICPU!Same) = ICPU!setNZflags([[r EXCEPT !.sr = x] EXCEPT !.a = v], v)
    BY <1>2, <1>3 DEF ICPU!Shift
  <2>2. [[r EXCEPT !.sr = x] EXCEPT !.a = v] = t
    BY <1>5 DEF Changed
  <2> QED  BY <1>1, <2>1, <2>2
<1>7. Registers(t) /\ t.a = v /\ t.sr = x /\ \A st : Changed(t, v, st) = Changed(r, v, st)
  BY <1>5, ChangedOnce
<1> HIDE DEF t
<1>8. ICPU!setNZflags(t, v) = Changed(r, v, NZ(x, v))
  BY <1>7, ChangesFlags
<1>9. NZ(x, v) = NZC(r.sr, v, k)
  BY <1>4, FlagsCommute DEF x
<1> QED  BY <1>6, <1>8, <1>9 DEF ShiftSr, v, k, c

\* The shifts of A.
LEMMA AccumulatorExecuted ==
  ASSUME NEW e, NEW r, NEW c, Ready(e, r, c), MarkedWell(e.code), e.code[2] = "Accumulator"
  PROVE  Executed(e, r, c)
<1> DEFINE i == e.code[1]
           v == ShiftValue(i, r.a, r.sr)
           x == ShiftSr(i, r.a, r.sr)
           n == [e EXCEPT !.rv = e.a, !.calc = v]
           t == Changed(n, v, x)
           u == Changed(r, v, x)
<1>1. /\ i \in Shifts /\ Steps(e.code) = 1 /\ ~ WritesMem(e.code) /\ ~ Modifies(e.code) /\ i # "JSR"
  BY AccumulatorKind
<1>2. /\ Micro(e) /\ e.ex = 0 /\ e.a = r.a /\ e.sr = r.sr /\ Whole(r) /\ r.code = e.code
      /\ r.rv = r.a
      /\ IsByte(r.a) /\ IsByte(r.sr)
  BY DEF Ready, Agree, Typed
<1>3. ExecHdlr(e) = Done(t)
  BY <1>1, <1>2, ShiftOfA
<1>4. ICPU!ExecHdlr(r) = u
  BY <1>1, <1>2, ICShiftOfA
<1>5. IsByte(v) /\ IsByte(x)
  BY <1>1, <1>2, ShiftBytes DEF Shifting
<1> HIDE DEF v, x
<1>6. /\ Micro(t) /\ Rest(t, e) /\ t.op = e.op /\ t.ex = e.ex /\ t.inter = e.inter
      /\ t.a = v /\ t.sr = x /\ t.x = e.x /\ t.y = e.y /\ t.sp = e.sp /\ t.pc = e.pc
  BY <1>2 DEF Changed, Micro, Registers, Rest
<1>7. /\ Whole(u) /\ Rest(u, r)
      /\ u.a = v /\ u.sr = x /\ u.x = r.x /\ u.y = r.y /\ u.sp = r.sp /\ u.pc = r.pc
  BY <1>2 DEF Changed, Whole, Registers, Rest
<1> HIDE DEF t, u
<1>8. Worked(t, u, e, r)
  BY <1>5, <1>6, <1>7 DEF Worked, Ready, Agree, Typed
<1> QED  BY <1>1, <1>3, <1>4, <1>7, <1>8, EndsAtOnce

-----------------------------------------------------------------------------
(* Every instruction but JSR.                                              *)

\* Every instruction but JSR, once its operand is there.
LEMMA EveryExecuted ==
  ASSUME NEW e, NEW r, NEW c, Ready(e, r, c), MarkedWell(e.code), e.code[1] # "JSR"
  PROVE  Executed(e, r, c)
<1> DEFINE i == e.code[1]
<1>1. i \in Instructions /\ e.code[2] \in ModesOf(i)
  BY Opcode DEF MarkedWell
<1>2. CASE Modifies(e.code)
  BY <1>2, ModifyExecuted
<1>3. CASE e.code[2] = "Accumulator"
  BY <1>3, AccumulatorExecuted
<1>4. CASE ~ Modifies(e.code) /\ e.code[2] # "Accumulator"
  <2>1. i \in Shifts \cup Counts \cup Combined => e.code[2] \notin NoMemory
    BY <1>1, <1>4 DEF ModesOf, NoMemory, FullModes, Reads, Stores, Shifts, Counts, Combined,
                      Branches, ByteImmediates, OneByte
  <2>2. i \notin Shifts \cup Counts \cup Combined
    BY <1>4, <2>1 DEF Modifies, WritesMem, Stores, Shifts, Counts, Combined
  <2>3. i \in Users \cup Inner \cup {"JMP"} \cup Branches \cup Stores
             \cup {"PHA", "PHP", "PLA", "PLP", "RTS", "RTI", "BRK"}
    BY <1>1, <2>2 DEF MarkedWell, Instructions, Users, Inner, Reads, ByteImmediates, OneByte
  <2> QED  BY <2>3, AtOnceExecuted, BranchExecuted, StoreExecuted, PushExecuted, PullExecuted,
              RTSExecuted, RTIExecuted, BRKExecuted
<1> QED  BY <1>2, <1>3, <1>4

\* The code is left alone by addressing.
LEMMA CodeLeftByReads ==
  ASSUME NEW s, NEW o, HasCode(s, o)
  PROVE  /\ \A adr : HasCode(ICPU!Touch(s, adr), o) /\ HasCode(ICPU!Load(s, adr), o)
         /\ \A n : HasCode(ICPU!tick(s, n), o)
         /\ HasCode(ICPU!PastByte(s), o)
         /\ \A v : /\ HasCode([s EXCEPT !.rv = v], o) /\ HasCode([s EXCEPT !.op16 = v], o)
                   /\ HasCode([s EXCEPT !.opAdr = v], o)
<1>1. \A adr : HasCode(ICPU!Touch(s, adr), o)
  BY DEF HasCode, ICPU!Touch
<1>2. \A adr : HasCode(ICPU!Load(s, adr), o)
  BY <1>1 DEF HasCode, ICPU!Load
<1>3. HasCode(ICPU!PastByte(s), o)
  BY <1>1 DEF HasCode, ICPU!PastByte
<1>4. \A n : HasCode(ICPU!tick(s, n), o)
  BY DEF HasCode, ICPU!tick
<1>5. \A v : /\ HasCode([s EXCEPT !.rv = v], o) /\ HasCode([s EXCEPT !.op16 = v], o)
             /\ HasCode([s EXCEPT !.opAdr = v], o)
  BY DEF HasCode
<1> QED  BY <1>1, <1>2, <1>3, <1>4, <1>5

\* Setting the operand leaves the opcode.
LEMMA CodeLeftByBothSet ==
  ASSUME NEW s, NEW o, HasCode(s, o), NEW v, NEW w
  PROVE  /\ HasCode([s EXCEPT !.rv = v, !.op16 = w], o)
         /\ HasCode([s EXCEPT !.op16 = v, !.opAdr = w], o)
BY DEF HasCode

\* So does indexing.
LEMMA CodeLeftByIndexing ==
  ASSUME NEW s, NEW o, HasCode(s, o), NEW base, NEW index
  PROVE  HasCode(ICPU!Indexed16(s, base, index), o)
<1> DEFINE a == ICPU!Load(s, ICPU!SamePage(base, base + index))
           t == [a EXCEPT !.opAdr = (base + index) % 65536]
           l == ICPU!Load(t, t.opAdr)
           n == ICPU!tick(l, 1)
<1>1. HasCode(a, o)
  BY CodeLeftByReads
<1> HIDE DEF a
<1>2. HasCode(t, o)
  <2> DEFINE m == (base + index) % 65536
  <2> HIDE DEF m
  <2>1. HasCode([a EXCEPT !.opAdr = m], o)
    BY <1>1, CodeLeftByReads
  <2> QED  BY <2>1 DEF m
<1> HIDE DEF t
<1>3. HasCode(l, o)
  BY <1>2, CodeLeftByReads
<1> HIDE DEF l
<1>4. HasCode(n, o)
  BY <1>3, CodeLeftByReads
<1> HIDE DEF n
<1>5. ICPU!Indexed16(s, base, index) \in {t, n}
  BY DEF ICPU!Indexed16, n, l, t, a
<1> QED  BY <1>2, <1>4, <1>5

\* So does every addressing handler.
LEMMA CodeLeftByAddressing ==
  ASSUME NEW q, Registers(q),
         q.code[2] \in {"Implied", "Accumulator", "Immediate", "Relative", "Indirect"}
           \cup FullModes \cup {"ZeroPage_Y"}
  PROVE  (ICPU!AddrHdlr(q)).code = q.code
<1> DEFINE o == q.code
           m == q.code[2]
<1>1. HasCode(q, o)
  BY DEF HasCode, Registers
<1>2. /\ m = "Implied" => ICPU!AddrHdlr(q) = ICPU!impliedAdrHdlr(q)
      /\ m = "Accumulator" => ICPU!AddrHdlr(q) = ICPU!accAdrHdlr(q)
      /\ m = "Immediate" => ICPU!AddrHdlr(q) = ICPU!immediateAdrHdlr(q)
      /\ m = "Relative" => ICPU!AddrHdlr(q) = ICPU!relativeAdrHdlr(q)
      /\ m = "Indirect" => ICPU!AddrHdlr(q) = ICPU!indirectAdrHdlr(q)
      /\ m = "ZeroPage" => ICPU!AddrHdlr(q) = ICPU!zeroPageAdrHdlr(q)
      /\ m = "ZeroPage_X" => ICPU!AddrHdlr(q) = ICPU!zeroPageXAdrHdlr(q)
      /\ m = "ZeroPage_Y" => ICPU!AddrHdlr(q) = ICPU!zeroPageYAdrHdlr(q)
      /\ m = "Absolute" => ICPU!AddrHdlr(q) = ICPU!absoluteAdrHdlr(q)
      /\ m = "Absolute_X" => ICPU!AddrHdlr(q) = ICPU!absoluteXAdrHdlr(q)
      /\ m = "Absolute_Y" => ICPU!AddrHdlr(q) = ICPU!absoluteYAdrHdlr(q)
      /\ m = "PreInd_X" => ICPU!AddrHdlr(q) = ICPU!preIndXAdrHdlr(q)
      /\ m = "PostInd_Y" => ICPU!AddrHdlr(q) = ICPU!postIndYAdrHdlr(q)
  BY Zenon DEF ICPU!AddrHdlr
<1>3. ASSUME NEW s, HasCode(s, o) PROVE HasCode(ICPU!ReadIfRead(s), o)
  BY <1>3, CodeLeftByReads DEF ICPU!ReadIfRead
<1>4. HasCode(ICPU!impliedAdrHdlr(q), o) /\ HasCode(ICPU!accAdrHdlr(q), o)
  BY <1>1, CodeLeftByReads DEF ICPU!impliedAdrHdlr, ICPU!accAdrHdlr
<1> DEFINE n == ICPU!PastByte(q)
           k == ICPU!PastByte(n)
<1>5. HasCode(n, o) /\ HasCode(k, o)
  <2>1. HasCode(n, o)
    BY <1>1, CodeLeftByReads
  <2> HIDE DEF n
  <2> QED  BY <2>1, CodeLeftByReads
<1>6. HasCode(ICPU!immediateAdrHdlr(q), o) /\ HasCode(ICPU!relativeAdrHdlr(q), o)
  <2> DEFINE b == ICPU!NextByte(q)
             v == ICPU!Signed(b)
             x == (v + q.pc + 1) % 65536
  <2> HIDE DEF n, b, v, x
  <2>1. /\ HasCode([n EXCEPT !.rv = b, !.op16 = b], o)
        /\ HasCode([n EXCEPT !.op16 = v, !.opAdr = x], o)
    BY <1>5, CodeLeftByBothSet, Zenon
  <2> QED  BY <2>1 DEF ICPU!immediateAdrHdlr, ICPU!relativeAdrHdlr, n, b, v, x
<1>7. ASSUME NEW index PROVE HasCode(ICPU!ZeroPageIndexed(q, index), o)
  <2> DEFINE b == ICPU!NextByte(q)
             t == ICPU!Touch(n, b)
             x == ICPU!Byte(b + index)
             u == [t EXCEPT !.op16 = b, !.opAdr = x]
  <2> HIDE DEF n, b, x
  <2>1. HasCode(t, o)
    BY <1>5, CodeLeftByReads
  <2> HIDE DEF t
  <2>2. HasCode(u, o)
    BY <2>1, CodeLeftByBothSet, Zenon
  <2> HIDE DEF u
  <2>3. HasCode(ICPU!ReadIfRead(u), o)
    BY <1>3, <2>2
  <2> QED  BY <2>3 DEF ICPU!ZeroPageIndexed, u, t, b, x, n
<1> DEFINE w == ICPU!Operand16(q)
<1>8. HasCode(w, o)
  <2> DEFINE b == ICPU!Word(ICPU!NextByte(n), ICPU!NextByte(q))
  <2> HIDE DEF k, b
  <2>1. HasCode([k EXCEPT !.op16 = b], o)
    BY <1>5, CodeLeftByReads
  <2> QED  BY <2>1 DEF ICPU!Operand16, k, b, n
<1> HIDE DEF n, k
<1>9. HasCode(ICPU!absoluteAdrHdlr(q), o)
  <2> HIDE DEF w
  <2>1. HasCode([w EXCEPT !.opAdr = w.op16], o)
    BY <1>8, CodeLeftByReads
  <2> QED  BY <1>3, <2>1 DEF ICPU!absoluteAdrHdlr, w
<1>10. HasCode(ICPU!absoluteXAdrHdlr(q), o) /\ HasCode(ICPU!absoluteYAdrHdlr(q), o)
  <2> HIDE DEF w
  <2> QED  BY <1>8, CodeLeftByIndexing DEF ICPU!absoluteXAdrHdlr, ICPU!absoluteYAdrHdlr, w
<1>11. HasCode(ICPU!indirectAdrHdlr(q), o)
  <2> DEFINE next == ICPU!SamePage(w.op16, w.op16 + 1)
             t == ICPU!Touch(w, w.op16)
             u == ICPU!Touch(t, next)
             a == ICPU!Word(ICPU!Content(w, next), ICPU!Content(w, w.op16))
  <2> HIDE DEF w, next, a
  <2>1. HasCode(t, o)
    BY <1>8, CodeLeftByReads
  <2> HIDE DEF t
  <2>2. HasCode(u, o)
    BY <2>1, CodeLeftByReads
  <2> HIDE DEF u
  <2>3. HasCode([u EXCEPT !.opAdr = a], o)
    BY <2>2, CodeLeftByReads
  <2> QED  BY <2>3 DEF ICPU!indirectAdrHdlr, u, t, a, next, w
<1>12. HasCode(ICPU!preIndXAdrHdlr(q), o)
  <2> DEFINE b == ICPU!NextByte(q)
             l == ICPU!Byte(b + q.x)
             p1 == ICPU!Touch(n, b)
             p2 == ICPU!Touch(p1, l)
             p3 == ICPU!Touch(p2, ICPU!Byte(l + 1))
             a == ICPU!Word(ICPU!Content(q, ICPU!Byte(l + 1)), ICPU!Content(q, l))
             u == [p3 EXCEPT !.op16 = b, !.opAdr = a]
  <2> HIDE DEF b, l, a
  <2>1. HasCode(p1, o)
    BY <1>5, CodeLeftByReads
  <2> HIDE DEF p1
  <2>2. HasCode(p2, o)
    BY <2>1, CodeLeftByReads
  <2> HIDE DEF p2
  <2>3. HasCode(p3, o)
    BY <2>2, CodeLeftByReads
  <2> HIDE DEF p3
  <2>4. HasCode(u, o)
    BY <2>3, CodeLeftByBothSet, Zenon
  <2> HIDE DEF u
  <2>5. HasCode(ICPU!ReadIfRead(u), o)
    BY <1>3, <2>4
  <2> QED  BY <2>5 DEF ICPU!preIndXAdrHdlr, u, p3, p2, p1, n, a, l, b
<1>13. HasCode(ICPU!postIndYAdrHdlr(q), o)
  <2> DEFINE b == ICPU!NextByte(q)
             p1 == ICPU!Touch(n, b)
             p2 == ICPU!Touch(p1, ICPU!Byte(b + 1))
             t == [p2 EXCEPT !.op16 = b]
             a == ICPU!Word(ICPU!Content(q, ICPU!Byte(b + 1)), ICPU!Content(q, b))
  <2> HIDE DEF b, a
  <2>1. HasCode(p1, o)
    BY <1>5, CodeLeftByReads
  <2> HIDE DEF p1
  <2>2. HasCode(p2, o)
    BY <2>1, CodeLeftByReads
  <2> HIDE DEF p2
  <2>3. HasCode(t, o)
    BY <2>2, CodeLeftByReads
  <2> HIDE DEF t
  <2>4. HasCode(ICPU!Indexed16(t, a, q.y), o)
    BY <2>3, CodeLeftByIndexing
  <2> QED  BY <2>4 DEF ICPU!postIndYAdrHdlr, t, p2, p1, n, a, b
<1>14. /\ HasCode(ICPU!zeroPageAdrHdlr(q), o) /\ HasCode(ICPU!zeroPageXAdrHdlr(q), o)
       /\ HasCode(ICPU!zeroPageYAdrHdlr(q), o)
  BY <1>7 DEF ICPU!zeroPageAdrHdlr, ICPU!zeroPageXAdrHdlr, ICPU!zeroPageYAdrHdlr
<1>15. HasCode(ICPU!AddrHdlr(q), o)
  BY <1>2, <1>4, <1>6, <1>9, <1>10, <1>11, <1>12, <1>13, <1>14 DEF FullModes
<1> QED  BY <1>15 DEF HasCode

\* It is followed from its opcode to the next one, q being the other processor before it.
Ends(s, q) == \E f : Leads(AddrHdlr(s), f) /\ Finished(f, ICPU!executeInstr(q), q.cycles, q.code)

\* Every instruction but JSR, from the cycle after its opcode to its end.
LEMMA EveryEnds ==
  ASSUME NEW s, NEW q, Fetched(s, q), MarkedWell(q.code), q.code[1] # "JSR", Aligned(q)
  PROVE  Ends(s, q)
<1> DEFINE r == ICPU!AddrHdlr(q)
<1>1. PICK t : /\ Leads(AddrHdlr(s), t) /\ t.exec \in {"EXECUTE", "EXECUTE_DIRECTLY"}
               /\ Ready(Prepared(t), r, q.cycles)
  BY ModeReadied DEF Readied
<1> DEFINE e == Prepared(t)
<1>2. Going(t) /\ Continued(t) = ExecHdlr(e)
  BY <1>1 DEF Going, Continued, step, Taken, Prepared
<1>3. e.code = r.code /\ e.code = q.code
  <2>1. q.code[2] \in {"Implied", "Accumulator", "Immediate", "Relative", "Indirect"}
          \cup FullModes \cup {"ZeroPage_Y"}
    BY MemoryKinds, Opcode DEF MarkedWell, NoMemory, ModesOf, FullModes
  <2>2. r.code = q.code
    BY <2>1, CodeLeftByAddressing DEF Fetched, Whole
  <2> QED  BY <1>1, <2>2 DEF Ready
<1> HIDE DEF e, r
<1>4. Executed(e, r, q.cycles)
  BY <1>1, <1>3, EveryExecuted DEF e
<1>5. PICK f : Leads(ExecHdlr(e), f) /\ Finished(f, ICPU!ExecHdlr(r), q.cycles, q.code)
  BY <1>3, <1>4 DEF Executed
<1>6. Leads(t, f)
  BY <1>2, <1>5, LeadsOn
<1>7. Leads(AddrHdlr(s), f)
  BY <1>1, <1>6, LeadsVia
<1> QED  BY <1>5, <1>7 DEF Ends, ICPU!executeInstr, r

-----------------------------------------------------------------------------
(* JSR.                                                                    *)

\* What a push leaves alone, and what it does alike in records that agree.
LEMMA PushLeaves ==
  ASSUME NEW q, Whole(q), NEW v
  PROVE  LET u == ICPU!push(q, v)
         IN  /\ Whole(u) /\ u.pc = q.pc /\ u.code = q.code /\ u.cycles = q.cycles
             /\ u.reads = q.reads /\ u.opAdr = q.opAdr /\ u.opcodePC = q.opcodePC
<1> DEFINE n == ICPU!Byte(q.sp - 1)
           adr == 256 + q.sp
           w == ICPU!Stored(q, adr, v)
<1>1. ICPU!push(q, v) = [w EXCEPT !.sp = n]
  <2>1. w.sp = q.sp
    BY DEF ICPU!Stored, Whole, Registers
  <2> HIDE DEF w, adr
  <2> QED  BY <2>1 DEF ICPU!push, w, adr
<1>2. w = Stored(q, adr, v)
  BY Writes DEF Whole
<1>3. /\ Whole(w) /\ w.pc = q.pc /\ w.code = q.code /\ w.cycles = q.cycles
      /\ w.reads = q.reads /\ w.opAdr = q.opAdr /\ w.opcodePC = q.opcodePC
  BY <1>2, Writes DEF Whole, Wrote
<1> HIDE DEF w, n
<1> QED  BY <1>1, <1>3 DEF Whole, Registers

\* A push of both leaves them alike.
LEMMA PushAlike ==
  ASSUME NEW s, Whole(s), NEW q, Whole(q), Agree(s, q), NEW v
  PROVE  Agree(ICPU!push(s, v), ICPU!push(q, v))
<1> DEFINE n == ICPU!Byte(q.sp - 1)
           adr == 256 + q.sp
           w == ICPU!Stored(q, adr, v)
           t == ICPU!Stored(s, adr, v)
<1>1. ICPU!push(q, v) = [w EXCEPT !.sp = n] /\ ICPU!push(s, v) = [t EXCEPT !.sp = n]
  <2>1. w.sp = q.sp /\ t.sp = q.sp /\ s.sp = q.sp
    BY DEF ICPU!Stored, Whole, Registers, Agree
  <2> HIDE DEF w, t
  <2> QED  BY <2>1 DEF ICPU!push, w, t
<1>2. Agree(t, w) /\ Whole(w) /\ Whole(t)
  BY DEF ICPU!Stored, Agree, Whole, Registers
<1> HIDE DEF w, t, n
<1> QED  BY <1>1, <1>2 DEF Agree, Whole, Registers

\* An addressing handler that reads goes on with the next cycle.
LEMMA AddressesOn ==
  ASSUME NEW e, NEW p, AddrHdlr(e) = p, p.exec = "FETCH_OPERAND", NEW f,
         Leads(AddrHdlr(Access(p)), f)
  PROVE  Leads(AddrHdlr(e), f)
<1>1. Going(p) /\ Continued(p) = AddrHdlr(Access(p))
  BY DEF Going, Continued, step, Taken
<1> QED  BY <1>1, LeadsOn

\* P6502CC: the cycles of JSR.
LEMMA JSRCycles ==
  ASSUME NEW n, n.code[1] = "JSR", n.code[2] = "Absolute"
  PROVE  /\ n.ex = 0 => AddrHdlr(n) = initOperandByteRead(NextEx(n))
         /\ n.ex = 1 => AddrHdlr(n) = ReadStack([NextEx(n) EXCEPT !.opAdr = n.data])
         /\ n.ex = 2 => AddrHdlr(n) = SavesHigh(n)
         /\ n.ex = 3 => AddrHdlr(n) = SavesLow(n)
         /\ n.ex = 4 => AddrHdlr(n) = initOperandByteRead(NextEx(n))
         /\ n.ex = 5 => AddrHdlr(n) =
              Done([n EXCEPT !.opAdr = Word(n.data, @), !.pc = Word(n.data, n.opAdr)])
<1>1. AddrHdlr(n) = JSRExecHdlr(n)
  BY Zenon DEF AddrHdlr
<1> DEFINE x0 == initOperandByteRead(NextEx(n))
           x1 == ReadStack([NextEx(n) EXCEPT !.opAdr = n.data])
           x2 == SavesHigh(n)
           x3 == SavesLow(n)
           x5 == Done([n EXCEPT !.opAdr = Word(n.data, @), !.pc = Word(n.data, n.opAdr)])
<1>2. JSRExecHdlr(n) =
        CASE n.ex = 0 -> x0 [] n.ex = 1 -> x1 [] n.ex = 2 -> x2 [] n.ex = 3 -> x3
          [] n.ex = 4 -> x0 [] n.ex = 5 -> x5
  BY DEF JSRExecHdlr, SavesHigh, SavesLow, Page
<1> HIDE DEF x0, x1, x2, x3, x5
<1>3. /\ n.ex = 0 => AddrHdlr(n) = x0
      /\ n.ex = 1 => AddrHdlr(n) = x1
      /\ n.ex = 2 => AddrHdlr(n) = x2
      /\ n.ex = 3 => AddrHdlr(n) = x3
      /\ n.ex = 4 => AddrHdlr(n) = x0
      /\ n.ex = 5 => AddrHdlr(n) = x5
  BY <1>1, <1>2
<1> QED  BY <1>3 DEF x0, x1, x2, x3, x5

\* The operand is kept in the cycle that reads the stack.
LEMMA OperandKept ==
  ASSUME NEW s, NEW q, NEW e, NEW r, Beside(s, q, e, r, 1), NEW v,
         NEW n, n = [NextEx(s) EXCEPT !.opAdr = v], NEW k, k = [e EXCEPT !.opAdr = v],
         "opAdr" \in DOMAIN e
  PROVE  Beside(n, q, k, r, 2) /\ n.opAdr = v
<1> DEFINE t == NextEx(s)
<1>1. Beside(t, q, e, r, 2)
  <2>1. 1 \in Nat /\ 1 + 1 = 2
    OBVIOUS
  <2>2. Beside(t, q, e, r, 1 + 1)
    BY <2>1, BesideNext
  <2> QED  BY <2>1, <2>2
<1> HIDE DEF t
<1>2. n = [t EXCEPT !.opAdr = v]
  BY DEF t
<1>3. Micro(n) /\ Agree(n, t) /\ n.opAdr = v /\ n.pc = t.pc /\ n.reads = t.reads /\ n.code = t.code
  BY <1>1, <1>2 DEF Beside, Micro, Registers, Agree
<1>4. /\ n.op16 = t.op16 /\ n.op = t.op /\ n.cycles = t.cycles /\ n.inter = t.inter
      /\ n.exec = t.exec
      /\ n.ex = t.ex
  BY <1>1, <1>2 DEF Beside, Micro, Registers
<1>5. /\ k.opAdr = v /\ k.code = e.code /\ k.op16 = e.op16 /\ k.op = e.op /\ k.cycles = e.cycles
      /\ k.inter = e.inter /\ k.exec = e.exec
  OBVIOUS
<1>6. Agree(n, q)
  BY <1>1, <1>3 DEF Beside, Agree
<1> QED  BY <1>1, <1>3, <1>4, <1>5, <1>6 DEF Beside

\* What JSR leaves in the other processor.
LEMMA ICJumps ==
  ASSUME NEW q, Whole(q), Typed(q), q.code = <<"JSR", "Absolute">>,
         q.pc = Past(q.opcodePC), IsWord(q.opcodePC)
  PROVE  LET q1 == ICPU!PastByte(q)
             w == ICPU!pushWord(q1, q1.pc)
             u == ICPU!executeInstr(q)
         IN  /\ Whole(u) /\ Agree(u, w) /\ u.code = q.code /\ u.cycles = q.cycles
             /\ u.pc = Word(Content(q, Past(q.pc)), Content(q, q.pc))
             /\ Seen(u.reads, w.reads \cup {Past(q.pc)})
<1> DEFINE r == ICPU!AddrHdlr(q)
           k == ICPU!Touch(r, r.sp)
           q1 == ICPU!PastByte(q)
           x == Past(q.pc)
           adr == Word(Content(q, x), Content(q, q.pc))
           reads == (q.reads \cup {q.pc}) \cup {x}
           hi == ICPU!Byte(x \div 256)
           lo == ICPU!Byte(x)
           k1 == ICPU!push(k, hi)
           k2 == ICPU!push(k1, lo)
           w1 == ICPU!push(q1, hi)
           w2 == ICPU!push(w1, lo)
           u == ICPU!executeInstr(q)
<1>1. r = ICPU!absoluteAdrHdlr(q) /\ ~ ReadsMem(q.code)
  BY ICSelects DEF ReadsMem
<1>2. Result(r, q, adr, Past(x), reads, 0)
  BY <1>1, AbsoluteResult
<1>3. IsByte(r.sp) /\ q.cycles + 0 = q.cycles
  BY <1>2 DEF Result, Carried, Agree, Typed
<1>4. IsWord(r.sp) /\ ~ Device(r.sp)
  BY <1>3 DEF IsByte, IsWord, Device
<1> HIDE DEF r, adr, x, reads
<1>5. /\ Carried(r, q) /\ r.opAdr = adr /\ r.reads = reads /\ r.cycles = q.cycles
  BY <1>2, <1>3 DEF Result
<1>6. Carried(k, q) /\ k.reads = reads \cup {r.sp} /\ k.opAdr = adr /\ k.cycles = q.cycles
  BY <1>4, <1>5, TouchesOne
<1> HIDE DEF k
<1>7. /\ Carried(q1, q) /\ q1.reads = q.reads \cup {q.pc} /\ q1.pc = x /\ q1.cycles = q.cycles
  <2>1. Carried(q, q) /\ IsWord(q.pc)
    BY CarriedItself DEF Typed
  <2> QED  BY <2>1, ReadsByte DEF x
<1> HIDE DEF q1
<1>8. Whole(k) /\ Whole(q1) /\ Agree(k, q1) /\ k.code = q.code
  BY <1>6, <1>7 DEF Carried, Agree
<1>9. /\ Whole(k1) /\ k1.code = k.code /\ k1.cycles = k.cycles /\ k1.reads = k.reads
      /\ Whole(w1) /\ w1.reads = q1.reads /\ Agree(k1, w1)
  BY <1>8, PushLeaves, PushAlike
<1> HIDE DEF k1, w1, hi, lo
<1>10. /\ Whole(k2) /\ k2.code = k1.code /\ k2.cycles = k1.cycles /\ k2.reads = k1.reads
       /\ Whole(w2) /\ w2.reads = w1.reads /\ Agree(k2, w2)
  BY <1>9, PushLeaves, PushAlike
<1>11. w2 = ICPU!pushWord(q1, q1.pc)
  BY <1>7 DEF ICPU!pushWord, w1, hi, lo
<1>12. u = [k2 EXCEPT !.pc = adr]
  <2>1. u = ICPU!JSRExecHdlr(r)
    <3>1. r.code[1] = "JSR"
      BY <1>5 DEF Carried
    <3> QED  BY <3>1, Zenon DEF ICPU!ExecHdlr, ICPU!executeInstr, r
  <2>2. x = (r.opcodePC + 2) % 65536
    <3>1. r.opcodePC = q.opcodePC /\ q.opcodePC \in Int
      BY <1>5 DEF Carried, IsWord
    <3> QED  BY <3>1, PastPast DEF Address, x
  <2>3. ICPU!JSRExecHdlr(r) = [ICPU!pushWord(k, x) EXCEPT !.pc = r.opAdr]
    BY <2>2 DEF ICPU!JSRExecHdlr, k
  <2> QED  BY <1>5, <2>1, <2>3 DEF ICPU!pushWord, k1, hi, lo
<1> HIDE DEF k2, w2, u
<1>13. /\ Whole(u) /\ u.pc = adr /\ u.code = q.code /\ u.cycles = q.cycles /\ u.reads = k.reads
       /\ Agree(u, k2)
  BY <1>6, <1>8, <1>9, <1>10, <1>12 DEF Whole, Registers, Agree
<1>14. Agree(u, w2)
  BY <1>10, <1>13 DEF Agree
<1>15. Seen(u.reads, w2.reads \cup {x})
  BY <1>4, <1>6, <1>7, <1>9, <1>10, <1>13 DEF Seen, reads
<1> QED  BY <1>11, <1>13, <1>14, <1>15 DEF u, x, adr, q1

OnStack(adr) == adr >= 256 /\ adr < 512

\* A push leaves what is not on the stack.
LEMMA ContentLeft ==
  ASSUME NEW q, Whole(q), IsByte(q.sp), NEW v, NEW adr \in Int, ~ OnStack(adr)
  PROVE  Content(ICPU!push(q, v), adr) = Content(q, adr)
<1> DEFINE at == 256 + q.sp
           w == ICPU!Stored(q, at, v)
           u == ICPU!push(q, v)
<1>1. adr # at
  BY DEF OnStack, IsByte
<1>2. /\ u.b1 = q.b1 /\ u.b2 = q.b2 /\ u.seed = q.seed
      /\ \/ u.ram = q.ram
         \/ u.ram = [n \in {at} \cup DOMAIN q.ram |-> IF n = at THEN v ELSE q.ram[n]]
  BY DEF ICPU!push, ICPU!Stored, Whole, Registers
<1> HIDE DEF u, at
<1>3. (adr \in DOMAIN u.ram <=> adr \in DOMAIN q.ram) /\ (adr \in DOMAIN q.ram => u.ram[adr] = q.ram[adr])
  <2>1. CASE u.ram = q.ram
    BY <2>1
  <2>2. CASE u.ram = [n \in {at} \cup DOMAIN q.ram |-> IF n = at THEN v ELSE q.ram[n]]
    BY <1>1, <2>2
  <2> QED  BY <1>2, <2>1, <2>2
<1> QED  BY <1>2, <1>3 DEF Content, u

\* JSR, when the high byte of the address it calls is not on the stack.
LEMMA JSREnds ==
  ASSUME NEW s, NEW q, Fetched(s, q), q.code = <<"JSR", "Absolute">>,
         q.pc = Past(q.opcodePC), IsWord(q.opcodePC), ~ OnStack(Past(q.pc))
  PROVE  Ends(s, q)
<1> DEFINE x == Past(q.pc)
           lo == Content(q, q.pc)
           hi == Content(q, x)
           adr == Word(hi, lo)
           q1 == ICPU!PastByte(q)
           w1 == ICPU!push(q1, Page(x))
           w2 == ICPU!push(w1, Byte(x))
           q5 == ICPU!PastByte(w2)
           u == ICPU!executeInstr(q)
           n1 == NextEx(s)
           p1 == initOperandByteRead(n1)
           t1 == Access(p1)
           n2 == [NextEx(t1) EXCEPT !.opAdr = lo]
           e == [s EXCEPT !.opAdr = lo]
           p2 == ReadStack(n2)
           t2 == Access(p2)
           p3 == SavesHigh(t2)
           t3 == Access(p3)
           p4 == SavesLow(t3)
           t4 == Access(p4)
           n5 == NextEx(t4)
           p5 == initOperandByteRead(n5)
           t5 == Access(p5)
           g == [t5 EXCEPT !.opAdr = Word(t5.data, @), !.pc = Word(t5.data, t5.opAdr)]
<1>1. /\ Micro(s) /\ Agree(s, q) /\ s.code = q.code /\ s.cycles = q.cycles
      /\ s.exec = "FETCH_OPERAND"
      /\ s.op = 0 /\ s.ex = 0 /\ s.inter = "none" /\ s.pc = q.pc /\ Seen(s.reads, q.reads)
      /\ Whole(q) /\ Typed(q)
  BY DEF Fetched, Addressing, Kept
<1>2. /\ IsWord(q.pc) /\ IsWord(x) /\ IsByte(lo) /\ IsByte(hi) /\ IsWord(adr) /\ IsByte(Page(x))
      /\ IsByte(Byte(x))
  <2>1. IsWord(q.pc) /\ IsWord(x) /\ TypedMemory(q)
    BY <1>1, PastIsWord DEF Typed
  <2>2. IsByte(lo) /\ IsByte(hi)
    BY <2>1, ContentIsByte DEF IsWord
  <2>3. IsByte(Page(x)) /\ IsByte(Byte(x))
    BY <2>1, PageAndPlace DEF Page, Byte
  <2> QED  BY <2>1, <2>2, <2>3, WordOfBytes
<1>3. Beside(s, q, s, q, 0)
  BY <1>1 DEF Beside
<1>4. Beside(n1, q, s, q, 1)
  <2>1. 0 \in Nat /\ 0 + 1 = 1
    OBVIOUS
  <2>2. Beside(n1, q, s, q, 0 + 1)
    BY <1>3, <2>1, BesideNext
  <2> QED  BY <2>1, <2>2
<1> HIDE DEF n1
<1>5. p1.exec = s.exec /\ Beside(t1, q1, s, q, 1) /\ t1.data = lo
  BY <1>4, ByteCycle
<1>6. q1.pc = x /\ Whole(q1)
  <2>1. Carried(q, q)
    BY <1>1, CarriedItself
  <2> QED  BY <1>2, <2>1, ReadsByte DEF Carried
<1> HIDE DEF t1, p1, q1, lo, hi, x, adr
<1>7. Beside(n2, q1, e, q, 2) /\ n2.opAdr = lo
  <2>1. "opAdr" \in DOMAIN s
    BY <1>1 DEF Micro, Registers
  <2> QED  BY <1>5, <2>1, OperandKept
<1>8. /\ e.exec = s.exec /\ e.code = s.code /\ e.opAdr = lo /\ e.op = 0 /\ e.cycles = q.cycles
      /\ e.inter = "none"
  BY <1>1 DEF Micro, Registers
<1> HIDE DEF n2, e
<1>9. p2.exec = e.exec /\ Beside(t2, q1, e, q, 2)
  BY <1>7, ReadStackCycle
<1> HIDE DEF t2, p2
<1>10. t2.pc = x
  BY <1>6, <1>9 DEF Beside
<1>11. p3.exec = e.exec /\ Beside(t3, w1, e, q, 3) /\ w1.pc = x
  <2> DEFINE p0 == Push(NextEx(t2), Page(x))
  <2>1. p3 = p0
    BY <1>10 DEF SavesHigh
  <2>2. 2 \in Nat /\ 2 + 1 = 3
    OBVIOUS
  <2> HIDE DEF p3
  <2>3. p0.exec = e.exec /\ Beside(Access(p0), w1, e, q, 2 + 1) /\ w1.pc = q1.pc
    BY <1>2, <1>9, <2>2, PushCycle
  <2> QED  BY <1>6, <2>1, <2>2, <2>3
<1> HIDE DEF t3, p3, w1
<1>12. t3.pc = x
  BY <1>11 DEF Beside
<1>13. p4.exec = e.exec /\ Beside(t4, w2, e, q, 4) /\ w2.pc = x
  <2> DEFINE b == Byte(x)
             p0 == Push(NextEx(t3), b)
  <2>1. p4 = p0 /\ IsByte(b) /\ w2 = ICPU!push(w1, b)
    BY <1>2, <1>12 DEF SavesLow
  <2>2. 3 \in Nat /\ 3 + 1 = 4
    OBVIOUS
  <2> HIDE DEF p4, b, w2
  <2>3. /\ p0.exec = e.exec /\ Beside(Access(p0), ICPU!push(w1, b), e, q, 3 + 1)
        /\ ICPU!push(w1, b).pc = w1.pc
    BY <1>11, <2>1, <2>2, PushCycle
  <2> HIDE DEF p0
  <2> QED  BY <1>11, <2>1, <2>2, <2>3
<1> HIDE DEF t4, p4
<1>14. Beside(n5, w2, e, q, 5)
  <2>1. 4 \in Nat /\ 4 + 1 = 5
    OBVIOUS
  <2>2. Beside(n5, w2, e, q, 4 + 1)
    BY <1>13, <2>1, BesideNext
  <2> QED  BY <2>1, <2>2
<1>15. Content(w2, x) = hi
  <2>1. IsByte(q1.sp) /\ x \in Int /\ ~ OnStack(x)
    BY <1>2, <1>5 DEF Beside, Typed, IsWord, x
  <2>2. Content(w1, x) = Content(q1, x)
    BY <1>6, <2>1, ContentLeft DEF w1
  <2>3. IsByte(w1.sp) /\ Whole(w1)
    BY <1>11 DEF Beside, Typed
  <2>4. Content(w2, x) = Content(w1, x)
    BY <2>1, <2>3, ContentLeft
  <2>5. Content(q1, x) = Content(q, x)
    <3>1. Agree(q1, q)
      <4>1. Carried(q, q)
        BY <1>1, CarriedItself
      <4> QED  BY <1>2, <4>1, ReadsByte DEF Carried, q1
    <3> QED  BY <3>1, ContentSame DEF Agree
  <2> QED  BY <2>2, <2>4, <2>5 DEF hi
<1> HIDE DEF n5, w2
<1>16. p5.exec = e.exec /\ Beside(t5, q5, e, q, 5) /\ t5.data = hi
  <2>1. p5.exec = e.exec /\ Beside(t5, q5, e, q, 5) /\ t5.data = Content(w2, w2.pc)
    BY <1>14, ByteCycle
  <2> QED  BY <1>13, <1>15, <2>1
<1>17. q5.reads = w2.reads \cup {x} /\ Agree(q5, w2)
  <2>1. Carried(w2, w2)
    BY <1>14, CarriedItself DEF Beside
  <2> QED  BY <1>2, <1>13, <2>1, ReadsByte DEF Carried
<1> HIDE DEF t5, p5, q5
<1>18. /\ t5.exec = e.exec /\ t5.ex = 5 /\ t5.inter = "none" /\ t5.code = e.code /\ Micro(t5)
       /\ t5.opAdr = lo
       /\ t5.op = 0 /\ t5.cycles = q.cycles /\ Agree(t5, q5) /\ Seen(t5.reads, q5.reads)
       /\ Typed(q5)
  BY <1>8, <1>16 DEF Beside
<1>19. /\ Micro(g) /\ Agree(g, t5) /\ g.pc = adr /\ g.code = t5.code /\ g.cycles = t5.cycles
       /\ g.op = 0 /\ g.ex = 5 /\ g.inter = "none" /\ g.reads = t5.reads
  <2> DEFINE m == Word(hi, lo)
  <2>1. g = [t5 EXCEPT !.opAdr = m, !.pc = m]
    BY <1>16, <1>18
  <2>2. m = adr
    BY DEF adr
  <2> HIDE DEF m, g
  <2> QED  BY <1>18, <2>1, <2>2 DEF Micro, Registers, Agree
<1>20. /\ Whole(u) /\ Agree(u, w2) /\ u.code = q.code /\ u.cycles = q.cycles /\ u.pc = adr
       /\ Seen(u.reads, w2.reads \cup {x})
  <2>1. w2 = ICPU!pushWord(q1, q1.pc)
    <3>1. ICPU!Byte(x \div 256) = Page(x) /\ ICPU!Byte(x) = Byte(x)
      <4>1. Byte(Page(x)) = Page(x)
        BY <1>2, Wrapped DEF IsByte
      <4> QED  BY <4>1, SharedMemory DEF Page
    <3> QED  BY <1>6, <3>1 DEF ICPU!pushWord, w2, w1
  <2> HIDE DEF u
  <2>2. LET k == ICPU!PastByte(q)
            w == ICPU!pushWord(k, k.pc)
            v == ICPU!executeInstr(q)
        IN  /\ Whole(v) /\ Agree(v, w) /\ v.code = q.code /\ v.cycles = q.cycles
            /\ v.pc = Word(Content(q, Past(q.pc)), Content(q, q.pc))
            /\ Seen(v.reads, w.reads \cup {Past(q.pc)})
    BY <1>1, ICJumps
  <2> QED  BY <2>1, <2>2 DEF u, q1, x, hi, lo, adr
<1> HIDE DEF g, u
<1>21. Finished(Done(g), u, q.cycles, q.code)
  <2> DEFINE f == Done(g)
  <2>1. /\ Micro(f) /\ f.exec = "FETCH_OPCODE" /\ f.code = g.code /\ f.inter = g.inter
        /\ f.rw = "read" /\ f.adr = Address(g.pc) /\ f.pc = Past(g.pc)
        /\ f.reads = g.reads /\ f.cycles = g.cycles + g.op + (g.ex + 1) /\ Agree(f, g)
    BY <1>19 DEF Micro, Registers, Done, NextEx, initFetch, prepMemRead, Past, Address, Agree
  <2> HIDE DEF f
  <2>2. Address(adr) = adr
    <3>1. adr \in Int
      BY <1>2 DEF IsWord
    <3> QED  BY <1>2, <3>1, Wrapped DEF Address
  <2>3. q.cycles \in Nat /\ Cycles(f.code) = 6 /\ ~ AddCycleAtPageBoundary(f.code)
    <3>1. f.code = <<"JSR", "Absolute">>
      BY <1>1, <1>8, <1>18, <1>19, <2>1
    <3>2. q.cycles \in Nat
      BY <1>1 DEF Typed
    <3> QED  BY <3>1, <3>2 DEF Cycles, AddCycleAtPageBoundary, Indexed, NoMemory, Stores, Shifts,
                               Counts, Combined
  <2>4. f.cycles = q.cycles + 6
    BY <1>18, <1>19, <2>1, <2>3
  <2>5. Agree(f, u) /\ Typed(u)
    <3>1. Agree(u, q5)
      BY <1>17, <1>20 DEF Agree
    <3>2. Agree(f, u)
      BY <1>18, <1>19, <2>1, <3>1 DEF Agree
    <3>3. Typed(u)
      BY <1>2, <1>18, <1>20, <2>3, <3>1 DEF Typed, TypedMemory, Agree
    <3> QED  BY <3>2, <3>3
  <2>6. Seen(f.reads, u.reads)
    BY <1>17, <1>18, <1>19, <1>20, <2>1 DEF Seen
  <2>7. f.code = q.code
    BY <1>1, <1>8, <1>18, <1>19, <1>20, <2>1
  <2>8. u.cycles - q.cycles = 0
    BY <1>20, <2>3
  <2> HIDE DEF x, adr
  <2> QED  BY <1>19, <1>20, <2>1, <2>2, <2>3, <2>4, <2>5, <2>6, <2>7, <2>8 DEF Finished, f
<1>22. ASSUME NEW n, n.code = e.code PROVE n.code[1] = "JSR" /\ n.code[2] = "Absolute"
  BY <1>1, <1>8, <1>22
<1>23. AddrHdlr(t5) = Done(g)
  BY <1>18, <1>22, JSRCycles DEF g
<1>24. /\ t4.code = e.code /\ t4.ex = 4 /\ t3.code = e.code /\ t3.ex = 3 /\ t2.code = e.code
       /\ t2.ex = 2
       /\ t1.code = e.code /\ t1.ex = 1 /\ t1.data = lo
  BY <1>5, <1>8, <1>9, <1>11, <1>13 DEF Beside
<1>25. AddrHdlr(t4) = p5 /\ AddrHdlr(t3) = p4 /\ AddrHdlr(t2) = p3
  BY <1>22, <1>24, JSRCycles DEF p5, n5, p4, p3
<1>26. AddrHdlr(t1) = p2
  BY <1>22, <1>24, JSRCycles DEF p2, n2
<1>27. AddrHdlr(s) = p1
  BY <1>1, <1>8, <1>22, JSRCycles DEF p1, n1
<1>28. e.exec = "FETCH_OPERAND"
  BY <1>1, <1>8
<1>29. Leads(AddrHdlr(t5), Done(g))
  BY <1>23, LeadsNowhere
<1>30. Leads(AddrHdlr(t4), Done(g))
  BY <1>16, <1>25, <1>28, <1>29, AddressesOn DEF t5
<1>31. Leads(AddrHdlr(t3), Done(g))
  BY <1>13, <1>25, <1>28, <1>30, AddressesOn DEF t4
<1>32. Leads(AddrHdlr(t2), Done(g))
  BY <1>11, <1>25, <1>28, <1>31, AddressesOn DEF t3
<1>33. Leads(AddrHdlr(t1), Done(g))
  BY <1>9, <1>26, <1>28, <1>32, AddressesOn DEF t2
<1>34. Leads(AddrHdlr(s), Done(g))
  BY <1>1, <1>5, <1>27, <1>33, AddressesOn DEF t1
<1> QED  BY <1>21, <1>34 DEF Ends, u

-----------------------------------------------------------------------------
(* Before an opcode is read.                                               *)

Start(s, q) ==
  /\ Micro(s) /\ Whole(q) /\ Agree(s, q) /\ Typed(q)
  /\ s.exec = "FETCH_OPCODE" /\ s.inter = "none" /\ s.rw = "read"
  /\ s.adr = q.pc /\ s.pc = Past(q.pc) /\ s.cycles = q.cycles /\ Seen(s.reads, q.reads)

\* The opcode that is read, in the other processor.
Opened(q, code) == ICPU!PastByte([q EXCEPT !.code = code])

\* Reading the opcode.
LEMMA OpenedAs ==
  ASSUME NEW q, Whole(q), Typed(q), NEW code
  PROVE  LET k == Opened(q, code)
         IN  /\ Whole(k) /\ Typed(k) /\ Agree(k, q) /\ k.code = code /\ k.pc = Past(q.pc)
             /\ k.cycles = q.cycles /\ k.opcodePC = q.opcodePC /\ k.reads = q.reads \cup {q.pc}
<1> DEFINE n == [q EXCEPT !.code = code]
           k == Opened(q, code)
<1>1. /\ Whole(n) /\ n.pc = q.pc /\ n.code = code /\ n.cycles = q.cycles /\ n.opcodePC = q.opcodePC
      /\ n.reads = q.reads /\ Agree(n, q)
  BY DEF Whole, Registers, Agree
<1>2. k = ICPU!PastByte(n)
  BY DEF Opened
<1> HIDE DEF n, k
<1>3. Carried(n, n) /\ IsWord(n.pc)
  BY <1>1, CarriedItself DEF Typed
<1>4. /\ Carried(k, n) /\ k.reads = n.reads \cup {n.pc} /\ k.pc = Past(n.pc) /\ k.cycles = n.cycles
  BY <1>2, <1>3, ReadsByte
<1>5. Agree(k, q) /\ Whole(k) /\ k.code = code /\ k.opcodePC = q.opcodePC
  BY <1>1, <1>4 DEF Carried, Agree
<1>6. Typed(k)
  <2>1. IsWord(k.pc)
    BY <1>1, <1>4, PastIsWord DEF Typed
  <2> QED  BY <1>1, <1>4, <1>5, <2>1 DEF Typed, TypedMemory, Agree
<1> QED  BY <1>1, <1>4, <1>5, <1>6 DEF k

\* A step from where an opcode is read, no interrupt taken.
LEMMA StartFetches ==
  ASSUME NEW s, NEW q, Start(s, q), NEW code, NEW request, ~ Taken(s, request)
  PROVE  \E t : step(s, code, request) = AddrHdlr(t) /\ Fetched(t, Opened(q, code))
<1> DEFINE t0 == completeFetch(Access(s), code)
           t == [t0 EXCEPT !.exec = "FETCH_OPERAND"]
           k == Opened(q, code)
<1>1. step(s, code, request) = AddrHdlr(t)
  BY DEF step, Start
<1>2. /\ Micro(t) /\ Agree(t, s) /\ t.code = code /\ t.cycles = s.cycles /\ t.exec = "FETCH_OPERAND"
      /\ t.op = 0 /\ t.ex = 0 /\ t.inter = "none" /\ t.rw = "read" /\ t.pc = s.pc
      /\ t.reads = s.reads \cup {s.adr}
  BY DEF Start, completeFetch, Access, Micro, Registers, Agree
<1> HIDE DEF t
<1>3. /\ Whole(k) /\ Typed(k) /\ Agree(k, q) /\ k.code = code /\ k.pc = Past(q.pc)
      /\ k.cycles = q.cycles /\ k.reads = q.reads \cup {q.pc}
  BY OpenedAs DEF Start
<1> HIDE DEF k
<1>4. Agree(t, k)
  BY <1>2, <1>3 DEF Start, Agree
<1>5. Seen(t.reads, k.reads)
  BY <1>2, <1>3 DEF Start, Seen
<1>6. Fetched(t, k)
  BY <1>2, <1>3, <1>4, <1>5 DEF Start, Fetched, Addressing, Kept
<1> QED  BY <1>1, <1>6 DEF k

-----------------------------------------------------------------------------
(* The sequence of an interrupt.                                           *)

InSequence(s) == s.exec \in {"IN_IRQ", "IN_NMI"}
Sequenced(s) == BRKExecHdlr(Access(s))

\* A step within the sequence of an interrupt.
LEMMA SequenceSteps ==
  ASSUME NEW s, InSequence(s), NEW code, NEW request
  PROVE  step(s, code, request) = Sequenced(s) /\ ~ Taken(s, request)
BY DEF InSequence, Sequenced, step, Taken

\* The program counter of the cycle-accurate processor is one ahead when an interrupt is taken.
LEMMA BackAtOpcode ==
  ASSUME NEW pc, IsWord(pc) PROVE (Past(pc) - 1) % 65536 = pc
<1> DEFINE m == 65536
<1>1. m \in Nat \ {0} /\ pc \in Nat /\ pc < m
  BY DEF IsWord
<1>2. Past(pc) = (pc + 1) % m
  BY DEF Past
<1> HIDE DEF m
<1>3. CASE pc + 1 < m
  <2>1. (pc + 1) % m = pc + 1
    BY <1>1, <1>3, Remainder
  <2>2. (pc + 1) - 1 = pc
    BY <1>1
  <2>3. pc % m = pc
    BY <1>1, Remainder
  <2> QED  BY <1>2, <2>1, <2>2, <2>3 DEF m
<1>4. CASE ~ (pc + 1 < m)
  <2>1. pc + 1 = m /\ pc = m - 1
    BY <1>1, <1>4
  <2>2. m % m = 0
    BY <1>1
  <2>3. (0 - 1) % m = m - 1
    BY <1>1
  <2> QED  BY <1>2, <2>1, <2>2, <2>3 DEF m
<1> QED  BY <1>3, <1>4

\* The first cycle reads the byte after the opcode, and the program counter goes back.
LEMMA DummyCycle ==
  ASSUME NEW s, Micro(s), s.ex = 0, s.inter # "none"
  PROVE  BRKExecHdlr(s) = [initDummyOperandRead(NextEx(s)) EXCEPT !.pc = (@ - 1) % 65536]
<1> DEFINE brk == s.inter = "none"
           cycle == IF s.ex = 0 /\ brk THEN 1 ELSE s.ex
           past == IF s.ex = 0 /\ brk THEN (s.pc + 1) % 65536 ELSE s.pc
           n == [s EXCEPT !.ex = cycle + 1, !.pc = past]
           x0 == [initDummyOperandRead(n) EXCEPT !.pc = (@ - 1) % 65536]
           x1 == Push(n, n.pc \div 256)
           x2 == Push(n, Byte(n.pc))
           x3 == Push(n, IF s.exec \in {"IN_IRQ", "IN_NMI"} THEN s.sr ELSE Or(s.sr, B))
           x4 == prepMemRead([n EXCEPT !.sr = IF brk THEN @ ELSE SetFlag(@, I, TRUE)], VectorOf(s))
           x5 == prepMemRead([n EXCEPT !.tmp = s.data], VectorOf(s) + 1)
           x6 == initFetch([n EXCEPT !.pc = Word(s.data, s.tmp), !.inter = "none",
                                     !.ex = IF brk THEN @ - 1 ELSE @])
<1>1. BRKExecHdlr(s) =
        CASE cycle = 0 -> x0 [] cycle = 1 -> x1 [] cycle = 2 -> x2 [] cycle = 3 -> x3
          [] cycle = 4 -> x4 [] cycle = 5 -> x5 [] cycle = 6 -> x6
  BY DEF BRKExecHdlr, VectorOf
<1>2. cycle = 0 /\ past = s.pc /\ cycle + 1 = 1 /\ s.ex + 1 = 1
  OBVIOUS
<1> HIDE DEF cycle, past
<1>3. n = NextEx(s)
  BY <1>2 DEF Micro, Registers, NextEx
<1> HIDE DEF x0, x1, x2, x3, x4, x5, x6, n
<1>4. BRKExecHdlr(s) = x0
  BY <1>1, <1>2
<1> QED  BY <1>3, <1>4 DEF x0

\* A step from where an opcode is read, an interrupt taken.
LEMMA SequenceStarts ==
  ASSUME NEW s, NEW q, Start(s, q), NEW code, NEW request \in {"IRQ", "NMI"}, Taken(s, request),
         ~ Device(q.pc), ~ Device(Past(q.pc))
  PROVE  LET c == step(s, code, request)
             t == Access(c)
         IN  /\ InSequence(c) /\ InSequence(t) /\ Beside(t, q, t, q, 1) /\ t.inter = request
             /\ t.op = 0 /\ t.cycles = q.cycles
<1> DEFINE exec == IF request = "NMI" THEN "IN_NMI" ELSE "IN_IRQ"
           t0 == completeFetch(Access(s), <<"BRK", "Implied">>)
           t1 == [t0 EXCEPT !.inter = request, !.exec = exec]
           n == NextEx(t1)
           p == initDummyOperandRead(n)
           m == (p.pc - 1) % 65536
           c == [p EXCEPT !.pc = m]
           t == Access(c)
<1>1. step(s, code, request) = BRKExecHdlr(t1)
  <2>1. s.exec = "FETCH_OPCODE"
    BY DEF Start
  <2> HIDE DEF t0
  <2> QED  BY <2>1 DEF step, t0
<1>2. exec \in {"IN_IRQ", "IN_NMI"}
  OBVIOUS
<1> HIDE DEF exec
<1>3. /\ Micro(t0) /\ Agree(t0, s) /\ t0.cycles = s.cycles /\ t0.op = 0 /\ t0.ex = 0
      /\ t0.rw = "read"
      /\ t0.pc = s.pc /\ t0.reads = s.reads \cup {s.adr}
  BY DEF Start, completeFetch, Access, Micro, Registers, Agree
<1> HIDE DEF t0
<1>4. /\ Micro(t1) /\ Agree(t1, t0) /\ t1.cycles = t0.cycles /\ t1.op = 0 /\ t1.ex = 0
      /\ t1.rw = "read"
      /\ t1.pc = t0.pc /\ t1.reads = t0.reads /\ t1.inter = request /\ t1.exec = exec
  BY <1>3 DEF Micro, Registers, Agree
<1> HIDE DEF t1
<1>5. BRKExecHdlr(t1) = c
  <2>1. BRKExecHdlr(t1) = [initDummyOperandRead(NextEx(t1)) EXCEPT !.pc = (@ - 1) % 65536]
    BY <1>4, DummyCycle
  <2> QED  BY <2>1
<1>6. /\ Micro(n) /\ Agree(n, t1) /\ n.cycles = t1.cycles /\ n.op = 0 /\ n.ex = 1
      /\ n.pc = t1.pc /\ n.reads = t1.reads /\ n.inter = request /\ n.exec = exec
  BY <1>4 DEF NextEx, Micro, Registers, Agree
<1> HIDE DEF n
<1>7. /\ Micro(p) /\ Agree(p, n) /\ p.cycles = n.cycles /\ p.op = 0 /\ p.ex = 1 /\ p.rw = "read"
      /\ p.pc = n.pc /\ p.reads = n.reads /\ p.inter = request /\ p.exec = exec
      /\ p.adr = Address(n.pc)
  BY <1>6 DEF initDummyOperandRead, prepMemRead, Micro, Registers, Agree, Address
<1> HIDE DEF p
<1>8. IsWord(q.pc) /\ s.pc = Past(q.pc) /\ s.adr = q.pc /\ s.cycles = q.cycles /\ Agree(s, q)
  BY DEF Start, Typed
<1>9. m = q.pc /\ p.adr = Past(q.pc)
  <2>1. p.pc = Past(q.pc)
    BY <1>3, <1>4, <1>6, <1>7, <1>8
  <2>2. IsWord(Past(q.pc))
    BY <1>8, PastIsWord
  <2>3. Address(Past(q.pc)) = Past(q.pc)
    <3>1. Past(q.pc) \in Int
      BY <2>2 DEF IsWord
    <3> QED  BY <2>2, <3>1, Wrapped DEF Address
  <2>4. n.pc = Past(q.pc)
    BY <1>7, <2>1
  <2> QED  BY <1>7, <1>8, <2>1, <2>3, <2>4, BackAtOpcode
<1> HIDE DEF m
<1>10. /\ Micro(c) /\ Agree(c, p) /\ c.cycles = p.cycles /\ c.op = 0 /\ c.ex = 1 /\ c.rw = "read"
       /\ c.pc = m /\ c.reads = p.reads /\ c.inter = request /\ c.exec = exec /\ c.adr = p.adr
  BY <1>7 DEF Micro, Registers, Agree
<1> HIDE DEF c
<1>11. /\ Micro(t) /\ Agree(t, c) /\ t.cycles = c.cycles /\ t.op = 0 /\ t.ex = 1
       /\ t.pc = c.pc /\ t.reads = c.reads \cup {c.adr} /\ t.inter = request /\ t.exec = exec
  BY <1>10 DEF Access, Micro, Registers, Agree
<1> HIDE DEF t
<1>12. Agree(t, q)
  BY <1>3, <1>4, <1>6, <1>7, <1>8, <1>10, <1>11 DEF Agree
<1>13. Seen(t.reads, q.reads)
  <2>1. t.reads = (s.reads \cup {q.pc}) \cup {Past(q.pc)}
    BY <1>3, <1>4, <1>6, <1>7, <1>8, <1>9, <1>10, <1>11
  <2>2. Seen(s.reads, q.reads)
    BY DEF Start
  <2> QED  BY <2>1, <2>2 DEF Seen
<1>14. t.pc = q.pc /\ t.cycles = q.cycles
  BY <1>3, <1>4, <1>6, <1>7, <1>8, <1>9, <1>10, <1>11
<1>15. Beside(t, q, t, q, 1)
  BY <1>11, <1>12, <1>13, <1>14 DEF Beside, Start
<1>16. InSequence(c) /\ InSequence(t)
  BY <1>2, <1>10, <1>11 DEF InSequence
<1> QED  BY <1>1, <1>5, <1>11, <1>14, <1>15, <1>16 DEF t

\* Which request is served.
Enabled(q, request) == request = "NMI" \/ (request = "IRQ" /\ ~ Flag(q.sr, I))
VectorAt(request) == IF request = "NMI" THEN 65530 ELSE 65534
Disabled(sr) == SetFlag(sr, I, TRUE)

\* The status register in a handler.
LEMMA DisabledIsByte ==
  ASSUME NEW sr, IsByte(sr)
  PROVE  IsByte(Disabled(sr)) /\ (~ Flag(sr, B) => SetFlag(sr, B, FALSE) = sr)
<1>1. Disabled(sr) = With(sr, I, 1)
  BY DEF Disabled, SetFlag, With
<1>2. IsByte(Disabled(sr))
  BY <1>1, WithIsByte
<1>3. ~ Flag(sr, B) => SetFlag(sr, B, FALSE) = sr
  <2> SUFFICES ASSUME ~ Flag(sr, B) PROVE SetFlag(sr, B, FALSE) = sr
    OBVIOUS
  <2> DEFINE b == Bit(sr, B)
             m == SetFlag(sr, B, FALSE)
  <2>1. b = 0
    <3>1. Bit(sr, B) \in {0, 1}
      BY DEF Bit, IsByte, B
    <3> QED  BY <3>1 DEF Flag
  <2>2. m = sr + B * (0 - b)
    BY DEF SetFlag
  <2>3. sr \in Nat
    BY DEF IsByte
  <2> HIDE DEF m, b
  <2>4. m = sr
    BY <2>1, <2>2, <2>3 DEF B
  <2> QED  BY <2>4 DEF m
<1> QED  BY <1>2, <1>3

Serves(q, v, request) ==
  ICPU!Served(q, request) =
    ICPU!tick(ICPU!Vector([Saved(q, v) EXCEPT !.sr = Disabled(v)], VectorAt(request)), 7)

\* serveNMI() and serveIRQ() as the sequence that P6502CC goes through.
LEMMA ServedAs ==
  ASSUME NEW q, NEW v, v = q.sr, Saved(q, v).sr = v, NEW request,
         request = "IRQ" \/ request = "NMI",
         Enabled(q, request), request = "IRQ" => SetFlag(v, B, FALSE) = v
  PROVE  Serves(q, v, request)
<1> DEFINE w == Saved(q, v)
           k == [w EXCEPT !.sr = Disabled(v)]
<1>1. \A sr, m, b : ICPU!SetFlag(sr, m, b) = SetFlag(sr, m, b)
  BY DEF ICPU!SetFlag, SetFlag, ICPU!Bit, Bit
<1>2. ICPU!I = I /\ ICPU!B = B /\ (ICPU!Flag(q.sr, I) <=> Flag(q.sr, I))
  BY DEF ICPU!I, I, ICPU!B, B, ICPU!Flag, Flag, ICPU!Bit, Bit
<1>3. ICPU!push(ICPU!pushWord(q, q.pc), v) = w /\ ICPU!SetFlag(w.sr, ICPU!I, TRUE) = Disabled(v)
  BY <1>1, <1>2 DEF Saved, Disabled
<1> HIDE DEF w
<1>4. CASE request = "NMI"
  <2>1. ICPU!Served(q, request) = ICPU!serveNMI(q)
    BY <1>4 DEF ICPU!Served
  <2>2. ICPU!serveNMI(q) = ICPU!tick(ICPU!Vector(k, 65530), 7)
    <3> DEFINE a == ICPU!push(ICPU!pushWord(q, q.pc), q.sr)
               z == ICPU!SetFlag(a.sr, ICPU!I, TRUE)
    <3>1. ICPU!serveNMI(q) =
            ICPU!tick(ICPU!Vector([a EXCEPT !.sr = z], 65530), 7)
      BY DEF ICPU!serveNMI
    <3>2. a = w /\ z = Disabled(v)
      BY <1>3
    <3> HIDE DEF a, z
    <3> QED  BY <1>3, <3>1, <3>2
  <2>7. VectorAt(request) = 65530
    BY <1>4 DEF VectorAt
  <2> HIDE DEF k
  <2>8. ICPU!Served(q, request) = ICPU!tick(ICPU!Vector(k, VectorAt(request)), 7)
    BY <2>1, <2>2, <2>7
  <2> QED  BY <2>8, Zenon DEF Serves, k, w
<1>5. CASE request = "IRQ"
  <2>1. ICPU!Served(q, request) = ICPU!serveIRQ(q)
    BY <1>2, <1>5 DEF ICPU!Served, Enabled
  <2>2. ICPU!SetFlag(q.sr, ICPU!B, FALSE) = v
    BY <1>1, <1>2, <1>5
  <2>3. ICPU!serveIRQ(q) = ICPU!tick(ICPU!Vector(k, 65534), 7)
    <3> DEFINE a == ICPU!push(ICPU!pushWord(q, q.pc), ICPU!SetFlag(q.sr, ICPU!B, FALSE))
               z == ICPU!SetFlag(a.sr, ICPU!I, TRUE)
    <3>1. ICPU!serveIRQ(q) =
            ICPU!tick(ICPU!Vector([a EXCEPT !.sr = z], 65534), 7)
      BY DEF ICPU!serveIRQ
    <3>2. a = w /\ z = Disabled(v)
      BY <1>3, <2>2
    <3> HIDE DEF a, z
    <3> QED  BY <1>3, <3>1, <3>2
  <2>7. VectorAt(request) = 65534
    BY <1>5 DEF VectorAt
  <2> HIDE DEF k
  <2>8. ICPU!Served(q, request) = ICPU!tick(ICPU!Vector(k, VectorAt(request)), 7)
    BY <2>1, <2>3, <2>7
  <2> QED  BY <2>8, Zenon DEF Serves, k, w
<1>6. request = "NMI" \/ request = "IRQ"
  OBVIOUS
<1> QED  BY <1>4, <1>5, <1>6

\* The sequence ends where the next opcode is read.
LEMMA SequenceCloses ==
  ASSUME NEW t, NEW u, NEW e, NEW r, Beside(t, u, e, r, 6), InSequence(t), t.inter # "none",
         t.op = 0,
         t.cycles = r.cycles, NEW pc, pc = Word(t.data, t.tmp), IsWord(pc)
  PROVE  Start(BRKExecHdlr(t), ICPU!tick([u EXCEPT !.pc = pc], 7))
<1> DEFINE n == NextEx(t)
           m == [n EXCEPT !.pc = pc, !.inter = "none"]
           f == initFetch(m)
           k == [u EXCEPT !.pc = pc]
           w == ICPU!tick(k, 7)
<1>1. BRKExecHdlr(t) = f
  <2>1. t.ex = 6 /\ Micro(t)
    BY DEF Beside
  <2> QED  BY <2>1, SequenceEnds
<1>2. /\ Micro(t) /\ Whole(u) /\ Agree(t, u) /\ Typed(u) /\ Seen(t.reads, u.reads) /\ t.ex = 6
      /\ u.cycles = r.cycles /\ u.cycles \in Nat
  BY DEF Beside, Typed
<1>3. /\ Micro(n) /\ Agree(n, t) /\ n.ex = 7 /\ n.op = 0 /\ n.cycles = t.cycles /\ n.reads = t.reads
  <2>1. t.ex + 1 = 7
    BY <1>2
  <2> QED  BY <1>2, <2>1 DEF NextEx, Micro, Registers, Agree
<1> HIDE DEF n
<1>4. /\ Micro(m) /\ Agree(m, n) /\ m.ex = 7 /\ m.op = 0 /\ m.cycles = n.cycles /\ m.reads = n.reads
      /\ m.pc = pc /\ m.inter = "none"
  BY <1>3 DEF Micro, Registers, Agree
<1> HIDE DEF m
<1>5. /\ Micro(f) /\ Agree(f, m) /\ f.exec = "FETCH_OPCODE" /\ f.inter = "none" /\ f.rw = "read"
      /\ f.adr = Address(pc) /\ f.pc = Past(pc) /\ f.reads = m.reads
      /\ f.cycles = m.cycles + m.op + m.ex
  BY <1>4 DEF initFetch, prepMemRead, Micro, Registers, Agree, Address, Past
<1> HIDE DEF f
<1>6. Address(pc) = pc
  <2>1. pc \in Int
    BY DEF IsWord
  <2> QED  BY <2>1, Wrapped DEF Address
<1>7. Whole(k) /\ Agree(k, u) /\ k.pc = pc /\ k.cycles = u.cycles /\ k.reads = u.reads
  BY <1>2 DEF Whole, Registers, Agree
<1> HIDE DEF k
<1>8. Whole(w) /\ Agree(w, k) /\ w.pc = pc /\ w.cycles = u.cycles + 7 /\ w.reads = u.reads
  BY <1>7 DEF ICPU!tick, Whole, Registers, Agree
<1> HIDE DEF w
<1>9. f.cycles = w.cycles /\ w.cycles \in Nat
  BY <1>2, <1>3, <1>4, <1>5, <1>8
<1>10. Agree(f, w) /\ Agree(w, u)
  BY <1>2, <1>3, <1>4, <1>5, <1>7, <1>8 DEF Agree
<1>11. Typed(w)
  BY <1>2, <1>8, <1>9, <1>10 DEF Typed, TypedMemory, Agree
<1>12. Seen(f.reads, w.reads)
  BY <1>2, <1>3, <1>4, <1>5, <1>8
<1>13. Start(f, w)
  BY <1>5, <1>6, <1>8, <1>9, <1>10, <1>11, <1>12 DEF Start
<1> QED  BY <1>1, <1>13 DEF w, k

\* In so many cycles of the sequence the opcode of the handler is about to be read.
Within1(c, q) == InSequence(c) /\ Start(Sequenced(c), q)
Within2(c, q) == InSequence(c) /\ Within1(Sequenced(c), q)
Within3(c, q) == InSequence(c) /\ Within2(Sequenced(c), q)
Within4(c, q) == InSequence(c) /\ Within3(Sequenced(c), q)
Within5(c, q) == InSequence(c) /\ Within4(Sequenced(c), q)
Within6(c, q) == InSequence(c) /\ Within5(Sequenced(c), q)

Within(c, q) ==
  Within1(c, q) \/ Within2(c, q) \/ Within3(c, q) \/ Within4(c, q) \/ Within5(c, q) \/ Within6(c, q)

\* A step within the sequence stays in it or ends it.
LEMMA WithinStill ==
  ASSUME NEW c, NEW q, Within(c, q)
  PROVE  InSequence(c) /\ (Start(Sequenced(c), q) \/ Within(Sequenced(c), q))
<1>1. InSequence(c)
  BY Zenon DEF Within, Within1, Within2, Within3, Within4, Within5, Within6
<1>2. Start(Sequenced(c), q) \/ Within(Sequenced(c), q)
  <2> DEFINE n == Sequenced(c)
  <2>1. \/ Start(n, q) \/ Within1(n, q) \/ Within2(n, q) \/ Within3(n, q) \/ Within4(n, q)
        \/ Within5(n, q)
    <3>1. /\ Within1(c, q) => Start(n, q)
          /\ Within2(c, q) => Within1(n, q)
          /\ Within3(c, q) => Within2(n, q)
          /\ Within4(c, q) => Within3(n, q)
          /\ Within5(c, q) => Within4(n, q)
          /\ Within6(c, q) => Within5(n, q)
      <4>1. Within1(c, q) => Start(n, q)
        BY Zenon DEF Within1
      <4>2. Within2(c, q) => Within1(n, q)
        BY Zenon DEF Within2
      <4>3. Within3(c, q) => Within2(n, q)
        BY Zenon DEF Within3
      <4>4. Within4(c, q) => Within3(n, q)
        BY Zenon DEF Within4
      <4>5. Within5(c, q) => Within4(n, q)
        BY Zenon DEF Within5
      <4>6. Within6(c, q) => Within5(n, q)
        BY Zenon DEF Within6
      <4> QED  BY <4>1, <4>2, <4>3, <4>4, <4>5, <4>6, Zenon
    <3> QED  BY <3>1, Zenon DEF Within
  <2> QED  BY <2>1, Zenon DEF Within
<1> QED  BY <1>1, <1>2

\* The sequence from its second cycle to the handler's first opcode.
LEMMA SequenceServes ==
  ASSUME NEW c, NEW t, t = Access(c), InSequence(c), InSequence(t), NEW q, Beside(t, q, t, q, 1),
         NEW request \in {"IRQ", "NMI"}, t.inter = request, t.op = 0, t.cycles = q.cycles,
         Enabled(q, request), request = "IRQ" => ~ Flag(q.sr, B)
  PROVE  Within6(c, ICPU!Served(q, request)) /\ ICPU!Served(q, request).cycles = q.cycles + 7
<1> DEFINE v == q.sr
           z == Disabled(v)
           adr == VectorAt(request)
           p1 == SavesHigh(t)
           t1 == Access(p1)
           p2 == SavesLow(t1)
           t2 == Access(p2)
           p3 == SavesStatus(t2, v)
           t3 == Access(p3)
           w == Saved(q, v)
           n4 == [NextEx(t3) EXCEPT !.sr = z]
           k == [w EXCEPT !.sr = z]
           p4 == ReadsLow(t3, z, adr)
           t4 == Access(p4)
           p5 == ReadsHigh(t4, adr)
           t5 == Access(p5)
           y == ICPU!Touch(ICPU!Touch(k, adr), adr + 1)
           pc == Word(t5.data, t5.tmp)
           u == ICPU!Served(q, request)
<1>1. /\ IsByte(v) /\ IsByte(z) /\ Micro(t) /\ t.ex = 1 /\ t.sr = v
      /\ request = "IRQ" => SetFlag(v, B, FALSE) = v
  <2>1. IsByte(v)
    BY DEF Beside, Typed
  <2>2. IsByte(z) /\ (~ Flag(v, B) => SetFlag(v, B, FALSE) = v)
    BY <2>1, DisabledIsByte
  <2>3. Micro(t) /\ t.ex = 1 /\ t.sr = v
    BY DEF Beside, Agree
  <2>4. request = "IRQ" => ~ Flag(v, B)
    OBVIOUS
  <2> HIDE DEF v, z
  <2> QED  BY <2>1, <2>2, <2>3, <2>4
<1>2. adr \in {65530, 65534} /\ request # "none"
  BY DEF VectorAt
<1> HIDE DEF v, z, adr
<1>3. /\ p1.exec = t.exec /\ t1.exec = t.exec /\ t1.ex = 2 /\ t1.inter = t.inter
      /\ p2.exec = t.exec /\ t2.exec = t.exec /\ t2.ex = 3 /\ t2.inter = t.inter
      /\ t2.sr = v /\ Micro(t1) /\ Micro(t2)
      /\ p3.exec = t.exec /\ Beside(t3, w, t, q, 4)
      /\ w.sr = v
  <2>1. v = q.sr
    BY DEF v
  <2>2. /\ p1.exec = t.exec /\ t1.exec = t.exec /\ t1.ex = 2 /\ t1.inter = t.inter
        /\ p2.exec = t.exec /\ t2.exec = t.exec /\ t2.ex = 3 /\ t2.inter = t.inter
        /\ t2.sr = q.sr /\ Micro(t1) /\ Micro(t2)
        /\ p3.exec = t.exec /\ Beside(t3, w, t, q, 4)
        /\ w.sr = q.sr
    BY <1>1, SavesState
  <2> QED  BY <2>1, <2>2
<1> HIDE DEF p1, t1, p2, t2, p3, t3, w
<1>4. Beside(n4, k, t, q, 5)
  <2>1. 4 \in Nat /\ 4 + 1 = 5
    OBVIOUS
  <2>2. Beside(n4, k, t, q, 4 + 1)
    BY <1>1, <1>3, <2>1, BesideKept
  <2> QED  BY <2>1, <2>2
<1> HIDE DEF k
<1>5. Vectored(t3, k, z, t, q, adr)
  BY <1>2, <1>4, Vectors
<1>6. /\ p4.exec = t.exec /\ t4.exec = t.exec /\ t4.ex = 5 /\ t4.inter = t.inter /\ Micro(t4)
      /\ p5.exec = t.exec /\ Beside(t5, y, t, q, 6) /\ IsWord(pc)
      /\ ICPU!Vector(k, adr) = [y EXCEPT !.pc = pc]
  BY <1>5 DEF Vectored
<1> HIDE DEF n4, p4, t4, p5, t5, y, pc
<1>7. /\ t3.exec = t.exec /\ t3.ex = 4 /\ t3.inter = t.inter /\ Micro(t3) /\ t3.sr = v
  BY <1>3 DEF Beside, Agree
<1>8. BRKExecHdlr(t) = p1 /\ BRKExecHdlr(t1) = p2
  <2>1. t.ex \in 1 .. 6 /\ t1.ex \in 1 .. 6
    BY <1>1, <1>3
  <2>2. BRKExecHdlr(t) = p1
    BY <1>1, <2>1, SequenceCycles, Zenon DEF p1
  <2>3. BRKExecHdlr(t1) = p2
    BY <1>3, <2>1, SequenceCycles, Zenon DEF p2
  <2> QED  BY <2>2, <2>3
<1>9. BRKExecHdlr(t2) = p3
  <2>1. t2.ex \in 1 .. 6 /\ t2.exec \in {"IN_IRQ", "IN_NMI"}
    BY <1>3 DEF InSequence
  <2>2. BRKExecHdlr(t2) =
          SavesStatus(t2, IF t2.exec \in {"IN_IRQ", "IN_NMI"} THEN t2.sr ELSE Or(t2.sr, B))
    BY <1>3, <2>1, SequenceCycles, Zenon
  <2>3. (IF t2.exec \in {"IN_IRQ", "IN_NMI"} THEN t2.sr ELSE Or(t2.sr, B)) = v
    BY <1>3, <2>1
  <2> QED  BY <2>2, <2>3, Zenon DEF p3
<1>10. BRKExecHdlr(t3) = p4
  <2>1. t3.ex \in 1 .. 6
    BY <1>7
  <2>2. BRKExecHdlr(t3) =
          ReadsLow(t3, IF t3.inter = "none" THEN t3.sr ELSE SetFlag(t3.sr, I, TRUE), VectorOf(t3))
    BY <1>7, <2>1, SequenceCycles, Zenon
  <2>3. VectorOf(t3) = adr
    BY <1>7 DEF VectorOf, VectorAt, adr
  <2>4. (IF t3.inter = "none" THEN t3.sr ELSE SetFlag(t3.sr, I, TRUE)) = z
    BY <1>2, <1>7 DEF z, Disabled
  <2> QED  BY <2>2, <2>3, <2>4, Zenon DEF p4
<1>11. BRKExecHdlr(t4) = p5
  <2>1. t4.ex \in 1 .. 6
    BY <1>6
  <2>2. BRKExecHdlr(t4) = ReadsHigh(t4, VectorOf(t4))
    BY <1>6, <2>1, SequenceCycles, Zenon
  <2>3. VectorOf(t4) = adr
    BY <1>6 DEF VectorOf, VectorAt, adr
  <2> QED  BY <2>2, <2>3, Zenon DEF p5
<1>12. Start(BRKExecHdlr(t5), ICPU!tick([y EXCEPT !.pc = pc], 7))
  <2>1. t5.exec = t.exec /\ t5.inter = t.inter /\ t5.op = t.op /\ t5.cycles = t.cycles
    BY <1>6 DEF Beside
  <2>2. InSequence(t5) /\ t5.inter # "none" /\ t5.op = 0 /\ t5.cycles = q.cycles
    BY <1>2, <2>1 DEF InSequence
  <2> QED  BY <1>6, <2>2, SequenceCloses DEF pc
<1>13. u = ICPU!tick([y EXCEPT !.pc = pc], 7)
  <2>1. u = ICPU!tick(ICPU!Vector(k, adr), 7)
    <3>1. v = q.sr /\ Saved(q, v).sr = v
      BY <1>3 DEF v, w
    <3>2. /\ v = q.sr /\ Saved(q, v).sr = v /\ (request = "IRQ" \/ request = "NMI")
          /\ Enabled(q, request)
          /\ request = "IRQ" => SetFlag(v, B, FALSE) = v
      BY <1>1, <3>1
    <3>3. Serves(q, v, request)
      BY <3>2, ServedAs
    <3> QED  BY <3>3, Zenon DEF Serves, w, k, z, adr, u
  <2> QED  BY <1>6, <2>1
<1>21. u.cycles = q.cycles + 7
  <2> DEFINE k5 == [y EXCEPT !.pc = pc]
  <2>1. k5.cycles = q.cycles /\ Registers(k5)
    BY <1>6 DEF Beside, Whole, Registers
  <2> HIDE DEF k5, u
  <2>2. u = ICPU!tick(k5, 7)
    BY <1>13 DEF k5
  <2> QED  BY <2>1, <2>2 DEF ICPU!tick, Registers
<1> HIDE DEF u
<1>14. /\ Sequenced(c) = p1 /\ Sequenced(p1) = p2 /\ Sequenced(p2) = p3 /\ Sequenced(p3) = p4
       /\ Sequenced(p4) = p5 /\ Sequenced(p5) = BRKExecHdlr(t5)
  BY <1>8, <1>9, <1>10, <1>11 DEF Sequenced, t1, t2, t3, t4, t5
<1>15. InSequence(p1) /\ InSequence(p2) /\ InSequence(p3) /\ InSequence(p4) /\ InSequence(p5)
  BY <1>3, <1>6 DEF InSequence
<1>16. Start(Sequenced(p5), u)
  BY <1>12, <1>13, <1>14
<1>17. Within1(p5, u) /\ Within2(p4, u)
  BY <1>14, <1>15, <1>16 DEF Within1, Within2
<1>18. Within3(p3, u) /\ Within4(p2, u)
  BY <1>14, <1>15, <1>17 DEF Within3, Within4
<1>19. Within5(p1, u)
  BY <1>14, <1>15, <1>18 DEF Within5
<1>20. Within6(c, u)
  BY <1>14, <1>19 DEF Within6
<1> QED  BY <1>20, <1>21 DEF u

-----------------------------------------------------------------------------
(* One instruction, from its opcode to the next.                           *)

\* A path from where nothing goes on is empty.
LEMMA LeadsEnd ==
  ASSUME NEW s, NEW e, Leads(s, e), ~ Going(s) PROVE s = e
<1>1. PICK n, p : /\ n \in Nat
                  /\ p[0] = s /\ p[n] = e
                  /\ \A i \in 0 .. n - 1 : Going(p[i]) /\ p[i + 1] = Continued(p[i])
  BY DEF Leads
<1>2. n = 0
  <2> SUFFICES ASSUME n # 0 PROVE FALSE
    OBVIOUS
  <2>1. 0 \in 0 .. n - 1
    BY <1>1
  <2> QED  BY <1>1, <2>1
<1> QED  BY <1>1, <1>2

\* What is executed from s on: the other processor is q before it reads the opcode.
Runs(s, q, code) ==
  \E f : Leads(s, f) /\ Finished(f, ICPU!executeInstr(Opened(q, code)), q.cycles, code)

\* mOpcodePC is what the instructions that use it take it for, and JSR finds its operand.
InStep(q, code) ==
  /\ code[1] \in Branches \cup {"JSR", "BRK"} => q.opcodePC = q.pc
  /\ code[1] = "JSR" => ~ OnStack(Past(Past(q.pc)))

\* A step that starts an instruction is at the start of its path.
LEMMA Launch ==
  ASSUME NEW s, NEW q, Start(s, q), NEW code, MarkedWell(code), InStep(q, code),
         NEW request, ~ Taken(s, request)
  PROVE  Runs(step(s, code, request), q, code)
<1> DEFINE k == Opened(q, code)
<1>1. PICK t : step(s, code, request) = AddrHdlr(t) /\ Fetched(t, k)
  BY StartFetches
<1>2. k.code = code /\ k.pc = Past(q.pc) /\ k.cycles = q.cycles /\ k.opcodePC = q.opcodePC
  BY OpenedAs DEF Start
<1>3. IsWord(q.pc)
  BY DEF Start, Typed
<1> HIDE DEF k
<1>4. Ends(t, k)
  <2>1. CASE code[1] # "JSR"
    <3>1. Aligned(k)
      BY <1>2, <1>3, <2>1 DEF Aligned, InStep
    <3> QED  BY <1>1, <1>2, <2>1, <3>1, EveryEnds
  <2>2. CASE code[1] = "JSR"
    <3>1. code = <<"JSR", "Absolute">>
      <4>1. code[2] \in ModesOf(code[1]) /\ code = <<code[1], code[2]>>
        BY Opcode DEF MarkedWell
      <4>2. ModesOf("JSR") = {"Absolute"}
        BY DEF ModesOf, Branches, Reads, Combined, Stores, Shifts, Counts, FullModes,
           ByteImmediates, OneByte
      <4> QED  BY <2>2, <4>1, <4>2
    <3>2. k.pc = Past(k.opcodePC) /\ IsWord(k.opcodePC) /\ ~ OnStack(Past(k.pc))
      BY <1>2, <1>3, <2>2 DEF InStep
    <3> QED  BY <1>1, <1>2, <3>1, <3>2, JSREnds
  <2> QED  BY <2>1, <2>2
<1>5. PICK f : Leads(AddrHdlr(t), f) /\ Finished(f, ICPU!executeInstr(k), k.cycles, k.code)
  BY <1>4 DEF Ends
<1> QED  BY <1>1, <1>2, <1>5 DEF Runs, k

\* A micro cycle further, or at the end.
LEMMA RunsOn ==
  ASSUME NEW s, NEW q, NEW code, Runs(s, q, code)
  PROVE  \/ /\ Going(s) /\ s.exec \notin {"FETCH_OPCODE", "IN_IRQ", "IN_NMI"}
            /\ Runs(Continued(s), q, code)
         \/ /\ s.exec = "FETCH_OPCODE"
            /\ Finished(s, ICPU!executeInstr(Opened(q, code)), q.cycles, code)
<1>1. PICK f : Leads(s, f) /\ Finished(f, ICPU!executeInstr(Opened(q, code)), q.cycles, code)
  BY DEF Runs
<1>2. f.exec = "FETCH_OPCODE"
  BY <1>1 DEF Finished
<1>3. ~ Going(f)
  BY <1>2 DEF Going
<1>4. CASE Going(s)
  <2>1. Leads(Continued(s), f)
    BY <1>1, <1>3, <1>4, LeadsStill
  <2>2. Runs(Continued(s), q, code)
    BY <1>1, <2>1 DEF Runs
  <2> QED  BY <1>4, <2>2 DEF Going
<1>5. CASE ~ Going(s)
  <2>1. s = f
    BY <1>1, <1>5, LeadsEnd
  <2> QED  BY <1>1, <1>2, <2>1
<1> QED  BY <1>4, <1>5

\* The address of JSR's second operand byte.
LEMMA PastTwice ==
  ASSUME NEW n, IsWord(n)
  PROVE  /\ Past(Past(n)) = (n + 2) % 65536
         /\ OnStack(Past(Past(n))) <=> (n + 2) % 65536 \in 256 .. 511
<1> DEFINE m == 65536
           x == Past(Past(n))
<1>1. m \in Nat \ {0} /\ n \in Nat /\ n < m /\ m > 2
  BY DEF IsWord
<1>2. Past(n) = (n + 1) % m /\ x = (Past(n) + 1) % m
  BY DEF Past
<1>3. IsWord(x)
  BY PastIsWord
<1> HIDE DEF m, x
<1>4. ASSUME n + 1 < m PROVE x = (n + 2) % m
  <2>1. Past(n) = n + 1
    BY <1>1, <1>2, <1>4, Remainder
  <2>2. (n + 1) + 1 = n + 2
    BY <1>1
  <2> QED  BY <1>2, <2>1, <2>2
<1>5. ASSUME ~ (n + 1 < m) PROVE x = (n + 2) % m
  <2>1. n + 1 = m
    BY <1>1, <1>5
  <2>2. (n + 1) % m = 0
    BY <1>1, <2>1
  <2>3. (0 + 1) % m = 0 + 1
    <3>1. 0 + 1 < m
      BY <1>1
    <3> QED  BY <1>1, <3>1, Remainder
  <2>4. (n + 2) % m = 1
    <3>1. n + 2 = 1 + m
      BY <1>1, <2>1
    <3>2. (1 + m) % m = 1 % m
      BY <1>1
    <3> QED  BY <2>3, <3>1, <3>2
  <2> QED  BY <1>2, <2>2, <2>3, <2>4
<1>6. x = (n + 2) % m
  BY <1>4, <1>5
<1>7. x \in Nat
  BY <1>3 DEF IsWord
<1> QED  BY <1>6, <1>7 DEF OnStack, x, m

-----------------------------------------------------------------------------
(* The invariant.                                                          *)

Known == MarkedWrongly \/ OperandOnStack \/ StaleOpcodePC
Cost == IF Interrupted THEN 7 ELSE 0

\* The instruction-accurate processor where the opcode is read, and past it.
Handler == ICPU!Served(ic, run.request)
Charged(u, code) == LET k == ICPU!tick(u, Cycles(code)) IN [k EXCEPT !.opcodePC = k.pc]

Fields == {"code", "request", "pin", "turn", "count", "first", "old", "from", "at"}

History ==
  /\ Fields \subseteq DOMAIN run
  /\ run.turn \in {"cc", "ic", "compare"} /\ run.code \in Opcodes /\ run.first \in Opcodes
  /\ run.old \in Tests
  /\ run.count \in Nat \ {0}
  /\ run.count = 1 => run.request = run.old.request /\ run.code = run.first
  /\ run.count = 1 /\ ~ Compared => ic = InstructionAccurate(run.old)
  /\ run.count # 1 => run.request = "none"

\* What the instruction-accurate processor has executed, in the first two instructions.
After(q, code, request) == ICPU!advanceInstr(q, code, request)
First == After(InstructionAccurate(run.old), run.first, run.old.request)

Recorded ==
  /\ run.count = 1 /\ Compared => ic = First
  /\ run.count = 2 /\ ~ Compared => ic = Fresh(First)
  /\ run.count = 2 /\ Compared => ic = After(Fresh(First), run.code, "none")

\* At the opcode of an instruction.
Opens == ~ Known /\ ~ Compared => ic.cycles = 0 /\ ic.opcodePC = ic.pc /\ run.at = ic.pc

Executing ==
  \/ Start(cc, ic) /\ run.pin = run.request
  \/ /\ Within(cc, Handler) \/ Start(cc, Handler)
     /\ run.pin = "none" /\ Interrupted /\ Handler.cycles = 7
  \/ Going(cc) /\ Runs(cc, Handler, run.code) /\ Handler.cycles = Cost

Joint ==
  ~ Known =>
    /\ run.turn = "cc" => Executing
    /\ run.turn = "ic" => Finished(cc, ICPU!executeInstr(Opened(Handler, run.code)), Cost, run.code)
    /\ Compared => \E u : Finished(cc, u, Cost, run.code) /\ ic = Charged(u, run.code)

IInv == History /\ Recorded /\ Opens /\ Joint

\* The bytes of a test, as the lemmas know them.
LEMMA ByteOfInterval ==
  ASSUME NEW n, n \in 0 .. 255
  PROVE  IsByte(n)
BY DEF IsByte

\* The processors as a test starts them.
LEMMA TestIsTyped ==
  ASSUME NEW t \in Tests
  PROVE  LET c == CycleAccurate(t)
             q == InstructionAccurate(t)
         IN  /\ Start(c, q) /\ q.sr = t.sr /\ q.pc = CodeStart /\ q.opcodePC = CodeStart
             /\ q.cycles = 0
<1> DEFINE c == CycleAccurate(t)
           q == InstructionAccurate(t)
<1>1. IsTest(t)
  BY InstrAssumption
<1>2. /\ IsByte(t.a) /\ IsByte(t.x) /\ IsByte(t.y) /\ IsByte(t.sp) /\ IsByte(t.sr)
      /\ IsByte(t.b1) /\ IsByte(t.b2) /\ t.seed \in Nat
  BY <1>1, ByteOfInterval DEF IsTest
<1>3. /\ Micro(c) /\ c.exec = "FETCH_OPCODE" /\ c.inter = "none" /\ c.rw = "read"
      /\ c.adr = CodeStart /\ c.pc = CodeStart + 1 /\ c.cycles = 0 /\ c.reads = {}
  BY DEF CycleAccurate, Micro, Registers
<1>4. /\ Whole(q) /\ q.pc = CodeStart /\ q.opcodePC = CodeStart /\ q.cycles = 0 /\ q.reads = {}
      /\ q.sr = t.sr
  BY DEF InstructionAccurate, Whole, Registers
<1>5. Agree(c, q)
  BY DEF CycleAccurate, InstructionAccurate, Agree
<1>6. /\ q.a = t.a /\ q.x = t.x /\ q.y = t.y /\ q.sp = t.sp /\ q.b1 = t.b1 /\ q.b2 = t.b2
      /\ q.seed = t.seed /\ q.ram = <<>>
  BY DEF InstructionAccurate
<1> HIDE DEF c, q
<1>7. IsWord(CodeStart) /\ Past(CodeStart) = CodeStart + 1
  BY DEF IsWord, CodeStart, Past
<1>8. Typed(q)
  <2>1. DOMAIN q.ram = {}
    BY <1>6
  <2> QED  BY <1>2, <1>4, <1>6, <1>7, <2>1 DEF Typed, TypedMemory
<1>9. Start(c, q)
  BY <1>3, <1>4, <1>5, <1>7, <1>8 DEF Start, Seen
<1> QED  BY <1>4, <1>9 DEF c, q

\* The invariant holds at the start.
LEMMA InitInv == Init => IInv
<1> SUFFICES ASSUME Init PROVE IInv
  OBVIOUS
<1>1. PICK t \in Tests :
        /\ cc = CycleAccurate(t)
        /\ ic = InstructionAccurate(t)
        /\ run = [code |-> t.code, request |-> t.request, pin |-> t.request, turn |-> "cc",
                  count |-> 1, first |-> t.code, old |-> t, from |-> CodeStart, at |-> CodeStart]
  BY DEF Init
<1>2. /\ Start(cc, ic) /\ ic.pc = CodeStart /\ ic.opcodePC = CodeStart /\ ic.cycles = 0
  BY <1>1, TestIsTyped
<1>3. /\ Fields \subseteq DOMAIN run /\ run.turn = "cc" /\ run.code = t.code /\ run.old = t
      /\ run.count = 1 /\ run.request = t.request /\ run.first = t.code /\ run.at = CodeStart
      /\ run.pin = t.request
  BY <1>1 DEF Fields
<1>4. run.code \in Opcodes /\ run.first \in Opcodes
  BY <1>3, InstrAssumption DEF IsTest
<1>5. History
  <2> HIDE DEF Fields
  <2> QED  BY <1>1, <1>3, <1>4 DEF History
<1>6. Opens
  BY <1>2, <1>3 DEF Opens
<1>7. Joint
  BY <1>2, <1>3 DEF Joint, Executing, Compared
<1>8. Recorded
  BY <1>3 DEF Recorded, Compared
<1> QED  BY <1>5, <1>6, <1>7, <1>8 DEF IInv

\* What the instruction finds when its opcode is read without an interrupt before it, or
\* after the sequence of one.
LEMMA FindsInStep ==
  ASSUME History, Opens, ~ Known, ~ Compared, Start(cc, ic)
  PROVE  MarkedWell(run.code) /\ InStep(ic, run.code)
<1>1. ic.opcodePC = ic.pc /\ run.at = ic.pc
  BY DEF Opens
<1>2. MarkedWell(run.code)
  BY DEF History, Known, MarkedWrongly, MarkedWell
<1>3. IsWord(ic.pc)
  BY DEF Start, Typed
<1>4. run.code[1] = "JSR" => ~ OnStack(Past(Past(ic.pc)))
  <2>1. run.code[1] = "JSR" => ~ ((ic.pc + 2) % 65536 \in 256 .. 511)
    BY <1>1 DEF Known, OperandOnStack
  <2> QED  BY <1>3, <2>1, PastTwice
<1> QED  BY <1>1, <1>2, <1>4 DEF InStep

\* The first instruction of a handler, the stale mOpcodePC's cases apart.
LEMMA HandlerInStep ==
  ASSUME History, ~ Known, Interrupted, NEW q
  PROVE  MarkedWell(run.code) /\ InStep(q, run.code)
<1>1. MarkedWell(run.code)
  BY DEF History, Known, MarkedWrongly, MarkedWell
<1>2. Entered /\ run.code = run.first
  BY DEF Interrupted, History
<1>3. run.code[1] \notin Branches \cup {"JSR", "BRK"}
  BY <1>2 DEF Known, StaleOpcodePC
<1> QED  BY <1>1, <1>3 DEF InStep

\* An interrupt is taken by both or by none.
LEMMA Requesting ==
  ASSUME History, ~ Compared, Start(cc, ic)
  PROVE  /\ Taken(cc, run.request) <=> Interrupted
         /\ ~ Interrupted => Handler = ic
         /\ Interrupted => /\ run.request \in {"IRQ", "NMI"} /\ Enabled(ic, run.request)
                           /\ run.request = "IRQ" => ~ Flag(ic.sr, B)
                           /\ ~ Device(ic.pc) /\ ~ Device(Past(ic.pc))
<1>1. cc.exec = "FETCH_OPCODE" /\ cc.sr = ic.sr
  BY DEF Start, Agree
<1>2. Taken(cc, run.request) <=> run.request = "NMI" \/ (run.request = "IRQ" /\ ~ Flag(ic.sr, I))
  BY <1>1 DEF Taken
<1>3. CASE run.count = 1
  <2>1. run.request = run.old.request /\ ic = InstructionAccurate(run.old) /\ run.old \in Tests
    BY <1>3 DEF History
  <2>2. ic.sr = run.old.sr /\ ic.pc = CodeStart
    BY <2>1, TestIsTyped
  <2>3. Taken(cc, run.request) <=> Interrupted
    BY <1>2, <1>3, <2>1, <2>2 DEF Interrupted, Entered
  <2>4. ~ Interrupted => Handler = ic
    <3>1. ICPU!I = I /\ (ICPU!Flag(ic.sr, I) <=> Flag(ic.sr, I))
      BY DEF ICPU!I, I, ICPU!Flag, Flag, ICPU!Bit, Bit
    <3>2. ~ Interrupted => run.request # "NMI" /\ ~ (run.request = "IRQ" /\ ~ Flag(ic.sr, I))
      BY <1>2, <2>3
    <3> QED  BY <3>1, <3>2 DEF Handler, ICPU!Served
  <2>5. ~ Flag(ic.sr, B)
    BY <2>1, <2>2, InstrAssumption DEF IsTest
  <2>6. ~ Device(CodeStart) /\ ~ Device(Past(CodeStart))
    BY DEF Device, Past, CodeStart
  <2>7. Interrupted => run.request \in {"IRQ", "NMI"} /\ Enabled(ic, run.request)
    BY <1>2, <2>3 DEF Enabled
  <2> QED  BY <2>2, <2>3, <2>4, <2>5, <2>6, <2>7
<1>4. CASE run.count # 1
  <2>1. run.request = "none" /\ ~ Interrupted
    BY <1>4 DEF History, Interrupted
  <2>2. Handler = ic
    BY <2>1 DEF Handler, ICPU!Served
  <2> QED  BY <1>2, <2>1, <2>2
<1> QED  BY <1>3, <1>4

\* What a step does to the cycle-accurate processor.
LEMMA Stepping ==
  ASSUME History, Opens, ~ Known, run.turn = "cc", Executing,
         NEW n, n = step(cc, run.code, run.pin)
  PROVE  \/ /\ Within(n, Handler) \/ (Start(n, Handler) /\ InSequence(cc))
            /\ n.exec \in {"IN_IRQ", "IN_NMI"} \/ InSequence(cc)
            /\ (IF Taken(cc, run.pin) THEN "none" ELSE run.pin) = "none"
            /\ Interrupted /\ Handler.cycles = 7
         \/ /\ Runs(n, Handler, run.code) /\ Handler.cycles = Cost /\ ~ InSequence(cc)
<1>1. ~ Compared
  BY DEF Compared
<1>2. CASE Start(cc, ic) /\ run.pin = run.request /\ Interrupted
  <2> DEFINE request == run.request
             t == Access(n)
  <2>1. /\ Taken(cc, request) /\ request \in {"IRQ", "NMI"} /\ Enabled(ic, request)
        /\ request = "IRQ" => ~ Flag(ic.sr, B)
        /\ ~ Device(ic.pc) /\ ~ Device(Past(ic.pc))
    BY <1>1, <1>2, Requesting
  <2>2. n = step(cc, run.code, request)
    BY <1>2
  <2>3. ic.cycles = 0
    BY <1>1 DEF Opens
  <2> HIDE DEF request
  <2>4. /\ InSequence(n) /\ InSequence(t) /\ Beside(t, ic, t, ic, 1) /\ t.inter = request
        /\ t.op = 0 /\ t.cycles = ic.cycles
    BY <1>2, <2>1, <2>2, SequenceStarts
  <2>5. t = Access(n)
    OBVIOUS
  <2> HIDE DEF t
  <2>6. Within6(n, ICPU!Served(ic, request)) /\ ICPU!Served(ic, request).cycles = ic.cycles + 7
    BY <2>1, <2>4, <2>5, SequenceServes
  <2>7. Within(n, Handler) /\ Handler.cycles = 7
    BY <2>3, <2>6 DEF Within, Handler, request
  <2>8. Taken(cc, run.pin)
    BY <1>2, <2>1 DEF request
  <2>9. n.exec \in {"IN_IRQ", "IN_NMI"}
    BY <2>4 DEF InSequence
  <2> QED  BY <1>2, <2>7, <2>8, <2>9
<1>3. CASE Start(cc, ic) /\ run.pin = run.request /\ ~ Interrupted
  <2>1. ~ Taken(cc, run.pin) /\ Handler = ic
    BY <1>1, <1>3, Requesting
  <2>2. MarkedWell(run.code) /\ InStep(ic, run.code)
    BY <1>1, <1>3, FindsInStep
  <2>3. Runs(n, ic, run.code)
    BY <1>3, <2>1, <2>2, Launch
  <2>4. ic.cycles = Cost
    BY <1>1, <1>3 DEF Opens, Cost
  <2>5. ~ InSequence(cc)
    BY <1>3 DEF Start, InSequence
  <2> QED  BY <2>1, <2>3, <2>4, <2>5
<1>4. CASE Within(cc, Handler) /\ run.pin = "none" /\ Interrupted /\ Handler.cycles = 7
  <2>1. InSequence(cc) /\ (Start(Sequenced(cc), Handler) \/ Within(Sequenced(cc), Handler))
    BY <1>4, WithinStill
  <2>2. n = Sequenced(cc) /\ ~ Taken(cc, run.pin)
    BY <2>1, SequenceSteps
  <2> QED  BY <1>4, <2>1, <2>2
<1>5. CASE Start(cc, Handler) /\ run.pin = "none" /\ Interrupted /\ Handler.cycles = 7
  <2>1. ~ Taken(cc, run.pin)
    BY <1>5 DEF Taken
  <2>2. MarkedWell(run.code) /\ InStep(Handler, run.code)
    BY <1>5, HandlerInStep
  <2>3. Runs(n, Handler, run.code)
    BY <1>5, <2>1, <2>2, Launch
  <2>4. Handler.cycles = Cost
    BY <1>5 DEF Cost
  <2>5. ~ InSequence(cc)
    BY <1>5 DEF Start, InSequence
  <2> QED  BY <2>3, <2>4, <2>5
<1>6. CASE Going(cc) /\ Runs(cc, Handler, run.code) /\ Handler.cycles = Cost
  <2>1. n = Continued(cc)
    BY <1>6 DEF Going, Continued, step, Taken
  <2>2. Runs(n, Handler, run.code)
    <3>1. cc.exec # "FETCH_OPCODE"
      BY <1>6 DEF Going
    <3> QED  BY <1>6, <2>1, <3>1, RunsOn
  <2>3. ~ InSequence(cc)
    BY <1>6 DEF Going, InSequence
  <2> QED  BY <1>6, <2>2, <2>3
<1> QED  BY <1>2, <1>3, <1>4, <1>5, <1>6 DEF Executing

\* A step of the cycle-accurate processor keeps the invariant.
LEMMA StepCCInv ==
  ASSUME IInv, StepCC
  PROVE  IInv'
<1> DEFINE n == cc'
           sequence == InSequence(cc)
           pin == IF Taken(cc, run.pin) THEN "none" ELSE run.pin
<1>1. /\ n = step(cc, run.code, run.pin) /\ ic' = ic /\ run.turn = "cc"
      /\ Fields \subseteq DOMAIN run' /\ run'.code = run.code /\ run'.request = run.request
      /\ run'.count = run.count /\ run'.first = run.first /\ run'.old = run.old /\ run'.at = run.at
      /\ run'.pin = pin
      /\ run'.turn = IF n.exec = "FETCH_OPCODE" /\ ~ sequence THEN "ic" ELSE "cc"
  BY DEF StepCC, IInv, History, Fields, InSequence
<1>2. ~ Compared /\ ~ Compared' /\ run'.turn \in {"cc", "ic"}
  BY <1>1 DEF Compared
<1>3. /\ Known' <=> Known
      /\ Interrupted' <=> Interrupted
      /\ Cost' = Cost /\ Handler' = Handler
  BY <1>1 DEF Known, MarkedWrongly, OperandOnStack, StaleOpcodePC, Entered, Interrupted, Cost,
     Handler
<1>4. History'
  BY <1>1, <1>2 DEF IInv, History
<1>5. Opens'
  BY <1>1, <1>2, <1>3 DEF IInv, Opens
<1>6. Joint'
  <2> SUFFICES ASSUME ~ Known
               PROVE  /\ run'.turn = "cc" => Executing'
                      /\ run'.turn = "ic" =>
                           Finished(n, ICPU!executeInstr(Opened(Handler, run.code)), Cost, run.code)
    BY <1>1, <1>2, <1>3 DEF Joint
  <2>1. Executing
    BY <1>1 DEF IInv, Joint
  <2>2. \/ /\ Within(n, Handler) \/ (Start(n, Handler) /\ sequence)
           /\ n.exec \in {"IN_IRQ", "IN_NMI"} \/ sequence
           /\ pin = "none"
           /\ Interrupted /\ Handler.cycles = 7
        \/ /\ Runs(n, Handler, run.code) /\ Handler.cycles = Cost /\ ~ sequence
    BY <1>1, <2>1, Stepping DEF IInv
  <2> HIDE DEF n, sequence, pin
  <2>3. CASE /\ Within(n, Handler) \/ (Start(n, Handler) /\ sequence)
             /\ n.exec \in {"IN_IRQ", "IN_NMI"} \/ sequence
             /\ pin = "none"
             /\ Interrupted /\ Handler.cycles = 7
    <3>1. run'.turn = "cc"
      BY <1>1, <2>3
    <3>2. Executing'
      BY <1>1, <1>3, <2>3 DEF Executing, n
    <3> QED  BY <3>1, <3>2
  <2>4. CASE Runs(n, Handler, run.code) /\ Handler.cycles = Cost /\ ~ sequence
    <3>1. \/ Going(n) /\ n.exec # "FETCH_OPCODE"
          \/ /\ n.exec = "FETCH_OPCODE"
             /\ Finished(n, ICPU!executeInstr(Opened(Handler, run.code)), Cost, run.code)
      BY <2>4, RunsOn
    <3>2. CASE Going(n) /\ n.exec # "FETCH_OPCODE"
      <4>1. Executing'
        BY <1>1, <1>3, <2>4, <3>2 DEF Executing, n
      <4> QED  BY <1>1, <3>2, <4>1
    <3>3. CASE /\ n.exec = "FETCH_OPCODE"
               /\ Finished(n, ICPU!executeInstr(Opened(Handler, run.code)), Cost, run.code)
      BY <1>1, <2>4, <3>3
    <3> QED  BY <3>1, <3>2, <3>3
  <2> QED  BY <2>2, <2>3, <2>4
<1>7. Recorded'
  BY <1>1, <1>2 DEF IInv, Recorded, Compared, First
<1> QED  BY <1>4, <1>5, <1>6, <1>7 DEF IInv

\* The two modules' tables are the same.
LEMMA SameCycles ==
  ASSUME NEW o PROVE ICPU!Cycles(o) = Cycles(o)
BY DEF Cycles, OneByteCycles, ReadCycles, FullModes, Indexed, NoMemory, Stores, Shifts, Counts,
   Combined,
   ICPU!Cycles, ICPU!OneByteCycles, ICPU!ReadCycles, ICPU!FullModes, ICPU!Indexed, ICPU!NoMemory,
   ICPU!Stores, ICPU!Shifts, ICPU!Counts, ICPU!Combined

\* An instruction of the instruction-accurate processor keeps the invariant.
LEMMA AdvanceICInv ==
  ASSUME IInv, AdvanceIC
  PROVE  IInv'
<1> DEFINE u == ICPU!executeInstr(Opened(Handler, run.code))
<1>1. /\ cc' = cc /\ run.turn = "ic" /\ ic' = ICPU!advanceInstr(ic, run.code, run.request)
      /\ Fields \subseteq DOMAIN run' /\ run'.code = run.code /\ run'.request = run.request
      /\ run'.count = run.count /\ run'.first = run.first /\ run'.old = run.old /\ run'.at = run.at
      /\ run'.turn = "compare"
  BY DEF AdvanceIC, IInv, History, Fields
<1>2. Compared'
  BY <1>1 DEF Compared
<1>3. (Known' <=> Known) /\ Cost' = Cost
  BY <1>1 DEF Known, MarkedWrongly, OperandOnStack, StaleOpcodePC, Entered, Interrupted, Cost
<1>4. History'
  BY <1>1, <1>2 DEF IInv, History
<1>5. Opens'
  BY <1>2 DEF Opens
<1>6. ic' = Charged(u, run.code)
  <2> DEFINE k == ICPU!tick(u, Cycles(run.code))
  <2>1. ic' = LET t == ICPU!tick(u, ICPU!Cycles(run.code)) IN [t EXCEPT !.opcodePC = t.pc]
    BY <1>1 DEF ICPU!advanceInstr, Handler, Opened
  <2> HIDE DEF u
  <2>2. ic' = [k EXCEPT !.opcodePC = k.pc]
    BY <2>1, SameCycles
  <2> QED  BY <2>2 DEF Charged
<1>7. Joint'
  <2> SUFFICES ASSUME ~ Known
               PROVE  \E v : Finished(cc, v, Cost, run.code) /\ ic' = Charged(v, run.code)
    BY <1>1, <1>2, <1>3 DEF Joint
  <2>1. Finished(cc, u, Cost, run.code)
    BY <1>1 DEF IInv, Joint
  <2> HIDE DEF u
  <2> QED  BY <1>6, <2>1
<1>8. Recorded'
  <2>1. run.count = 1 \/ run.count = 2 => ~ Compared
    BY <1>1 DEF Compared
  <2>2. First' = First
    BY <1>1 DEF First
  <2>3. run.count = 1 => ic' = First
    BY <1>1, <2>1 DEF IInv, History, First, After
  <2>4. run.count = 2 => ic' = After(Fresh(First), run.code, "none")
    BY <1>1, <2>1 DEF IInv, History, Recorded, After
  <2> QED  BY <1>1, <1>2, <2>2, <2>3, <2>4 DEF Recorded
<1> QED  BY <1>4, <1>5, <1>7, <1>8 DEF IInv

\* Cycles are numbers.
LEMMA CyclesAreInt ==
  ASSUME NEW o, MarkedWell(o)
  PROVE  Cycles(o) \in Int
<1>1. CASE o[1] # "JSR"
  BY <1>1, StepsAndCycles
<1>2. CASE o[1] = "JSR"
  <2>1. o[2] \in ModesOf("JSR") /\ o = <<o[1], o[2]>>
    BY <1>2, Opcode DEF MarkedWell
  <2>2. ModesOf("JSR") = {"Absolute"}
    BY DEF ModesOf, Branches, Reads, Combined, Stores, Shifts, Counts, FullModes, ByteImmediates,
       OneByte
  <2>3. o = <<"JSR", "Absolute">>
    BY <1>2, <2>1, <2>2
  <2> HIDE DEF MarkedWell
  <2>4. o[2] = "Absolute" /\ o[1] = "JSR"
    BY <2>3
  <2> QED  BY <2>3, <2>4 DEF Cycles, NoMemory, Stores, Shifts, Counts, Combined
<1> QED  BY <1>1, <1>2

\* What the processors agree on after an instruction.
LEMMA Finishing ==
  ASSUME NEW f, NEW u, NEW c \in Nat, NEW o, MarkedWell(o), Finished(f, u, c, o), ~ Elsewhere(f),
         NEW q, q = Charged(u, o)
  PROVE  /\ Micro(f) /\ Whole(q) /\ Agree(f, q) /\ Typed(q)
         /\ f.exec = "FETCH_OPCODE" /\ f.inter = "none" /\ f.rw = "read"
         /\ f.adr = q.pc /\ f.pc = Past(q.pc) /\ q.opcodePC = q.pc /\ f.cycles = q.cycles
         /\ f.cycles - Cycles(o) - c \in IF AddCycleAtPageBoundary(o) THEN 0 .. 2 ELSE {0}
         /\ Unread(o, q.pc) \/ Seen(f.reads, q.reads)
<1> DEFINE k == ICPU!tick(u, Cycles(o))
<1>1. /\ Micro(f) /\ Whole(u) /\ Agree(f, u) /\ Typed(u) /\ f.exec = "FETCH_OPCODE" /\ f.code = o
      /\ f.inter = "none" /\ f.rw = "read" /\ f.adr = u.pc /\ f.pc = Past(u.pc)
      /\ f.cycles \in Nat /\ f.cycles = u.cycles + Cycles(o)
      /\ u.cycles - c \in IF AddCycleAtPageBoundary(o) THEN 0 .. 2 ELSE {0}
      /\ Unread(o, u.pc) \/ Seen(f.reads, u.reads)
  BY DEF Finished
<1>2. /\ Whole(k) /\ Agree(k, u) /\ k.pc = u.pc /\ k.reads = u.reads
      /\ k.cycles = u.cycles + Cycles(o)
  BY <1>1 DEF ICPU!tick, Whole, Registers, Agree
<1> HIDE DEF k
<1>3. q = [k EXCEPT !.opcodePC = k.pc]
  BY DEF Charged, k
<1>4. /\ Whole(q) /\ Agree(q, k) /\ q.pc = k.pc /\ q.reads = k.reads /\ q.cycles = k.cycles
      /\ q.opcodePC = k.pc
  BY <1>2, <1>3 DEF Whole, Registers, Agree
<1>5. Agree(f, q) /\ Agree(q, u)
  BY <1>1, <1>2, <1>4 DEF Agree
<1>6. q.cycles = f.cycles /\ q.cycles \in Nat
  BY <1>1, <1>2, <1>4
<1>7. Typed(q)
  BY <1>1, <1>2, <1>4, <1>5, <1>6 DEF Typed, TypedMemory, Agree
<1>8. f.cycles - Cycles(o) - c \in IF AddCycleAtPageBoundary(o) THEN 0 .. 2 ELSE {0}
  <2>1. u.cycles \in Nat
    BY <1>1 DEF Typed
  <2>2. Cycles(o) \in Int
    BY CyclesAreInt
  <2>3. f.cycles - Cycles(o) - c = u.cycles - c
    BY <1>1, <2>1, <2>2
  <2> QED  BY <1>1, <2>3
<1> QED  BY <1>1, <1>2, <1>4, <1>5, <1>6, <1>7, <1>8

\* The lemmas' condition on modified operands is the property's.
LEMMA Elsewheres ==
  ASSUME cc.code = run.code
  PROVE  Elsewhere(cc) <=> ModifiesElsewhere
BY DEF Elsewhere, Apart, Modifies, Page, ModifiesElsewhere, CrossesPage, PageBoundaryCrossed

\* What the invariant says when the two are compared.
LEMMA Agreement ==
  ASSUME IInv, Compared, ~ Known, ~ ModifiesElsewhere
  PROVE  /\ Micro(cc) /\ Whole(ic) /\ Agree(cc, ic) /\ Typed(ic)
         /\ cc.exec = "FETCH_OPCODE" /\ cc.inter = "none" /\ cc.rw = "read"
         /\ cc.adr = ic.pc /\ cc.pc = Past(ic.pc) /\ ic.opcodePC = ic.pc /\ cc.cycles = ic.cycles
         /\ cc.cycles - Cycles(run.code) - Cost
              \in IF AddCycleAtPageBoundary(run.code) THEN 0 .. 2 ELSE {0}
         /\ Unread(run.code, ic.pc) \/ Seen(cc.reads, ic.reads)
<1>1. PICK u : Finished(cc, u, Cost, run.code) /\ ic = Charged(u, run.code)
  BY DEF IInv, Joint
<1>2. cc.code = run.code /\ MarkedWell(run.code) /\ Cost \in Nat
  BY <1>1 DEF Finished, IInv, History, Cost, Known, MarkedWrongly, MarkedWell
<1>3. ~ Elsewhere(cc)
  BY <1>2, Elsewheres
<1> QED  BY <1>1, <1>2, <1>3, Finishing

\* Both are at an opcode again after they have been compared.
LEMMA FreshStarts ==
  ASSUME NEW f, NEW q, Micro(f), Whole(q), Agree(f, q), Typed(q),
         f.exec = "FETCH_OPCODE", f.inter = "none", f.rw = "read",
         f.adr = q.pc, f.pc = Past(q.pc), q.opcodePC = q.pc
  PROVE  /\ Start(Fresh(f), Fresh(q)) /\ Fresh(q).pc = q.pc /\ Fresh(q).opcodePC = q.pc
         /\ Fresh(q).cycles = 0
<1> DEFINE n == Fresh(f)
           k == Fresh(q)
<1>1. /\ Micro(n) /\ n.exec = f.exec /\ n.inter = f.inter /\ n.rw = f.rw /\ n.adr = f.adr
      /\ n.pc = f.pc
      /\ n.cycles = 0 /\ n.reads = {} /\ n.writes = <<>>
      /\ n.a = f.a /\ n.x = f.x /\ n.y = f.y /\ n.sp = f.sp /\ n.sr = f.sr /\ n.ram = f.ram
      /\ n.b1 = f.b1 /\ n.b2 = f.b2 /\ n.seed = f.seed
  BY DEF Fresh, Micro, Registers
<1>2. /\ Whole(k) /\ k.pc = q.pc /\ k.opcodePC = q.opcodePC
      /\ k.cycles = 0 /\ k.reads = {} /\ k.writes = <<>>
      /\ k.a = q.a /\ k.x = q.x /\ k.y = q.y /\ k.sp = q.sp /\ k.sr = q.sr /\ k.ram = q.ram
      /\ k.b1 = q.b1 /\ k.b2 = q.b2 /\ k.seed = q.seed
  BY DEF Fresh, Whole, Registers
<1> HIDE DEF n, k
<1>3. Agree(n, k)
  BY <1>1, <1>2 DEF Agree
<1>4. Typed(k)
  BY <1>2 DEF Typed, TypedMemory
<1>5. Start(n, k)
  BY <1>1, <1>2, <1>3, <1>4 DEF Start, Seen
<1> QED  BY <1>2, <1>5 DEF n, k

\* Going on with another instruction keeps the invariant.
LEMMA NextInstructionInv ==
  ASSUME IInv, NEW code \in Opcodes, NextInstruction(code)
  PROVE  IInv'
<1>1. /\ Compared /\ ~ Parted /\ cc' = Fresh(cc) /\ ic' = Fresh(ic)
      /\ Fields \subseteq DOMAIN run' /\ run'.code = code /\ run'.request = "none"
      /\ run'.pin = "none"
      /\ run'.count = run.count + 1 /\ run'.first = run.first /\ run'.old = run.old
      /\ run'.at = ic.pc
      /\ run'.turn = "cc"
  BY DEF NextInstruction, IInv, History, Fields
<1>2. ~ Compared' /\ run.count + 1 \in Nat \ {0} /\ run.count + 1 # 1
  BY <1>1 DEF Compared, IInv, History
<1>3. History'
  BY <1>1, <1>2 DEF IInv, History
<1>4. ~ Known' => ~ Known /\ ~ ModifiesElsewhere
  BY <1>1 DEF Known, Parted, StaleOpcodePC, Entered
<1>5. ~ Known' => Start(cc', ic') /\ ic'.pc = ic.pc /\ ic'.opcodePC = ic.pc /\ ic'.cycles = 0
  <2> SUFFICES ASSUME ~ Known'
               PROVE  Start(cc', ic') /\ ic'.pc = ic.pc /\ ic'.opcodePC = ic.pc /\ ic'.cycles = 0
    OBVIOUS
  <2>1. /\ Micro(cc) /\ Whole(ic) /\ Agree(cc, ic) /\ Typed(ic)
        /\ cc.exec = "FETCH_OPCODE" /\ cc.inter = "none" /\ cc.rw = "read"
        /\ cc.adr = ic.pc /\ cc.pc = Past(ic.pc) /\ ic.opcodePC = ic.pc
    BY <1>1, <1>4, Agreement
  <2>2. /\ Start(Fresh(cc), Fresh(ic)) /\ Fresh(ic).pc = ic.pc /\ Fresh(ic).opcodePC = ic.pc
        /\ Fresh(ic).cycles = 0
    BY <2>1, FreshStarts
  <2> QED  BY <1>1, <2>2
<1>6. Opens'
  BY <1>1, <1>5 DEF Opens
<1>7. Joint'
  BY <1>1, <1>2, <1>5 DEF Joint, Executing
<1>8. Recorded'
  <2>1. First' = First
    BY <1>1 DEF First
  <2>2. run.count = 1 => ic' = Fresh(First)
    BY <1>1 DEF IInv, Recorded
  <2>3. run'.count = 2 => run.count = 1
    BY <1>1 DEF IInv, History
  <2>4. run'.count # 1
    BY <1>1, <1>2
  <2> QED  BY <1>2, <2>1, <2>2, <2>3, <2>4 DEF Recorded
<1> QED  BY <1>3, <1>6, <1>7, <1>8 DEF IInv

\* The invariant of the comparison, for every test: while an instruction is executed the
\* cycle-accurate processor is on a path to where the other processor's functions lead.
THEOREM Invariance == Spec => []IInv
<1>1. IInv /\ [Next]_vars => IInv'
  <2> SUFFICES ASSUME IInv, [Next]_vars PROVE IInv'
    OBVIOUS
  <2>1. CASE StepCC
    BY <2>1, StepCCInv
  <2>2. CASE AdvanceIC
    BY <2>2, AdvanceICInv
  <2>3. ASSUME NEW code \in Opcodes, NextInstruction(code) PROVE IInv'
    BY <2>3, NextInstructionInv
  <2>4. CASE UNCHANGED vars
    <3>1. cc' = cc /\ ic' = ic /\ run' = run
      BY <2>4 DEF vars
    <3>2. Known' = Known /\ Handler' = Handler /\ Cost' = Cost
      BY <3>1 DEF Known, MarkedWrongly, OperandOnStack, StaleOpcodePC, Entered, Compared,
         Interrupted, Cost, Handler
    <3>3. History' = History /\ Recorded' = Recorded
      BY <3>1 DEF History, Recorded, First, Compared
    <3>4. Opens' = Opens
      BY <3>1, <3>2 DEF Opens, Entered, Compared, Interrupted
    <3>5. Joint' = Joint
      BY <3>1, <3>2 DEF Joint, Executing, Entered, Compared, Interrupted
    <3> QED  BY <3>3, <3>4, <3>5 DEF IInv
  <2> QED  BY <2>1, <2>2, <2>3, <2>4 DEF Next
<1> QED  BY InitInv, <1>1, PTL DEF Spec

\* What the properties compare.
LEMMA Agreed ==
  ASSUME IInv, Compared, Agreeing
  PROVE  /\ Agree(cc, ic) /\ cc.adr = ic.pc /\ cc.cycles = ic.cycles
         /\ cc.cycles - Cycles(run.code) - Cost
              \in IF AddCycleAtPageBoundary(run.code) THEN 0 .. 2 ELSE {0}
         /\ Unread(run.code, ic.pc) \/ Seen(cc.reads, ic.reads)
<1>1. ~ Known /\ ~ ModifiesElsewhere
  BY DEF Agreeing, Parted, Known
<1> QED  BY <1>1, Agreement

\* The same registers, flags, memory, writes in their order and next address, for every
\* opcode, register, operand, content of memory and interrupt request.
THEOREM ResultsAgree == Spec => []SameResult
<1>1. IInv => SameResult
  <2> SUFFICES ASSUME IInv, Compared, Agreeing
               PROVE  /\ <<cc.a, cc.x, cc.y, cc.sp, cc.sr, cc.adr>>
                           = <<ic.a, ic.x, ic.y, ic.sp, ic.sr, ic.pc>>
                      /\ cc.writes = ic.writes /\ cc.ram = ic.ram
    BY DEF SameResult
  <2>1. Agree(cc, ic) /\ cc.adr = ic.pc
    BY Agreed
  <2> QED  BY <2>1 DEF Agree
<1> QED  BY Invariance, <1>1, PTL

\* Both processors read the same registers of devices (how often is not compared).
THEOREM ReadsAgree == Spec => []SameReads
<1>1. IInv => SameReads
  <2> SUFFICES ASSUME IInv, Compared, Agreeing, ~ ReadAfterShift
               PROVE  DeviceReads(cc) = DeviceReads(ic)
    BY DEF SameReads
  <2>1. Unread(run.code, ic.pc) \/ Seen(cc.reads, ic.reads)
    BY Agreed
  <2>2. Seen(cc.reads, ic.reads)
    BY <2>1 DEF Unread, ReadAfterShift, Device, IsDevice
  <2> QED  BY <2>2 DEF Seen, Device, DeviceReads, IsDevice
<1> QED  BY Invariance, <1>1, PTL

\* Both charge the same time, that of the table and what a page boundary or a branch adds.
THEOREM TimesAgree == Spec => []SameTime
<1>1. IInv => SameTime
  <2> SUFFICES ASSUME IInv, Compared, Agreeing
               PROVE  /\ cc.cycles = ic.cycles
                      /\ cc.cycles - Cycles(run.code) - (IF Interrupted THEN 7 ELSE 0)
                           \in IF AddCycleAtPageBoundary(run.code) THEN 0 .. 2 ELSE {0}
    BY DEF SameTime
  <2>1. /\ cc.cycles = ic.cycles
        /\ cc.cycles - Cycles(run.code) - Cost
             \in IF AddCycleAtPageBoundary(run.code) THEN 0 .. 2 ELSE {0}
    BY Agreed
  <2> QED  BY <2>1 DEF Cost
<1> QED  BY Invariance, <1>1, PTL

-----------------------------------------------------------------------------
(* Decimal arithmetic.                                                     *)

\* A byte of two digits.
TwoDigits(n, h, l) == h \in 0 .. 9 /\ l \in 0 .. 9 /\ n = 16 * h + l

\* The digits of a decimal byte.
LEMMA DigitsOf ==
  ASSUME NEW n, IsByte(n), IsDecimal(n)
  PROVE  /\ TwoDigits(n, n \div 16, n % 16) /\ Decimal(n) = 10 * (n \div 16) + (n % 16)
         /\ High(n) = 16 * (n \div 16)
<1>1. n \div 16 \in Int /\ n \div 16 >= 0 /\ n % 16 \in Int /\ n % 16 >= 0
      /\ n = 16 * (n \div 16) + (n % 16)
  BY DEF IsByte
<1>2. n \div 16 \in 0 .. 9 /\ n % 16 \in 0 .. 9
  <2> DEFINE h == n \div 16
             l == n % 16
  <2>1. h \in Int /\ h >= 0 /\ h <= 9 /\ l \in Int /\ l >= 0 /\ l <= 9
    BY <1>1 DEF IsDecimal
  <2> HIDE DEF h, l
  <2>2. h \in 0 .. 9 /\ l \in 0 .. 9
    BY <2>1
  <2> QED  BY <2>2 DEF h, l
<1> QED  BY <1>1, <1>2 DEF TwoDigits, Decimal, High

\* Two digits are a decimal byte.
LEMMA OfDigits ==
  ASSUME NEW h \in 0 .. 9, NEW l \in 0 .. 9
  PROVE  IsDecimal(16 * h + l) /\ Decimal(16 * h + l) = 10 * h + l
<1>1. (16 * h + l) \div 16 = h /\ (16 * h + l) % 16 = l
  OBVIOUS
<1> QED  BY <1>1 DEF IsDecimal, Decimal

\* What is left of a number below two hundred, and of one below zero.
LEMMA Hundreds ==
  ASSUME NEW h \in Int, NEW d \in 0 .. 9
  PROVE  /\ h \in 0 .. 9 => (10 * h + d) % 100 = 10 * h + d
         /\ h \in 10 .. 19 => (10 * h + d) % 100 = 10 * (h - 10) + d
         /\ h \in -10 .. -1 => (10 * h + d) % 100 = 10 * (h + 10) + d
         /\ h \in 0 .. 19 => ((10 * h + d > 99) <=> (h >= 10))
         /\ (10 * h + d >= 0) <=> (h >= 0)
OBVIOUS

\* The digits of a sum.
SumRight(ah, al, bh, bl, carry) ==
  LET low == al + bl + carry
      half == IF low >= 10 THEN 16 ELSE 0
      digit == IF low >= 10 THEN (low + 6) % 16 ELSE low
      high == 16 * ah + 16 * bh + half
      adjusted == IF high >= 160 THEN high + 96 ELSE high
      a == Byte(High(adjusted)) + digit
      sum == (10 * ah + al) + (10 * bh + bl) + carry
  IN  IsDecimal(a) /\ Decimal(a) = sum % 100 /\ ((high >= 160) <=> (sum > 99))

\* The digits that ADC gives are those of the decimal sum.
LEMMA SumOfDigits ==
  ASSUME NEW ah \in 0 .. 9, NEW al \in 0 .. 9, NEW bh \in 0 .. 9, NEW bl \in 0 .. 9,
         NEW carry \in {0, 1}
  PROVE  SumRight(ah, al, bh, bl, carry)
<1> DEFINE low == al + bl + carry
           half == IF low >= 10 THEN 16 ELSE 0
           digit == IF low >= 10 THEN (low + 6) % 16 ELSE low
           high == 16 * ah + 16 * bh + half
           adjusted == IF high >= 160 THEN high + 96 ELSE high
           a == Byte(High(adjusted)) + digit
           sum == (10 * ah + al) + (10 * bh + bl) + carry
           h == ah + bh + (IF low >= 10 THEN 1 ELSE 0)
           k == IF h >= 10 THEN h - 10 ELSE h
<1>1. low \in 0 .. 19
  OBVIOUS
<1>2. digit \in 0 .. 9 /\ digit = low - (IF low >= 10 THEN 10 ELSE 0)
  <2> HIDE DEF low
  <2>1. low \in 10 .. 19 => (low + 6) % 16 = low - 10
    OBVIOUS
  <2> QED  BY <1>1, <2>1
<1>3. h \in 0 .. 19 /\ high = 16 * h /\ sum = 10 * h + digit
  <2>1. sum = 10 * (ah + bh) + low
    BY <1>1
  <2> HIDE DEF low, digit, sum
  <2> QED  BY <1>1, <1>2, <2>1
<1> HIDE DEF low, digit, sum, h, high
<1>4. k \in 0 .. 9 /\ a = 16 * k + digit
  <2>1. adjusted = IF h >= 10 THEN 16 * (h + 6) ELSE 16 * h
    BY <1>3
  <2> HIDE DEF adjusted
  <2>2. High(adjusted) = adjusted
    <3>1. \A n \in Int : 16 * ((16 * n) \div 16) = 16 * n
      OBVIOUS
    <3>2. h \in Int /\ h + 6 \in Int
      BY <1>3
    <3> QED  BY <2>1, <3>1, <3>2 DEF High
  <2>3. Byte(adjusted) = 16 * k
    BY <1>3, <2>1 DEF Byte
  <2> QED  BY <1>3, <2>2, <2>3
<1> HIDE DEF k, a
<1>5. IsDecimal(a) /\ Decimal(a) = 10 * k + digit
  BY <1>2, <1>4, OfDigits
<1>6. sum % 100 = 10 * k + digit /\ ((sum > 99) <=> (h >= 10))
  BY <1>2, <1>3, Hundreds DEF k
<1>7. (high >= 160) <=> (h >= 10)
  BY <1>3
<1> QED  BY <1>5, <1>6, <1>7 DEF SumRight, a, high, sum, low, digit

\* The digits of a difference.
DifferenceRight(ah, al, bh, bl, carry) ==
  LET low == al - bl - (1 - carry)
      borrow == IF low < 0 THEN 16 ELSE 0
      digit == (IF low < 0 THEN low + 10 ELSE low) % 16
      high == 16 * ah - 16 * bh - borrow
      adjusted == IF high < 0 THEN high + 160 ELSE high
      a == Byte(adjusted + digit)
      diff == (10 * ah + al) - (10 * bh + bl) - (1 - carry)
  IN  IsDecimal(a) /\ Decimal(a) = diff % 100 /\ ((high >= 0) <=> (diff >= 0))

\* The digits that SBC gives are those of the decimal difference.
LEMMA DifferenceOfDigits ==
  ASSUME NEW ah \in 0 .. 9, NEW al \in 0 .. 9, NEW bh \in 0 .. 9, NEW bl \in 0 .. 9,
         NEW carry \in {0, 1}
  PROVE  DifferenceRight(ah, al, bh, bl, carry)
<1> DEFINE low == al - bl - (1 - carry)
           borrow == IF low < 0 THEN 16 ELSE 0
           digit == (IF low < 0 THEN low + 10 ELSE low) % 16
           high == 16 * ah - 16 * bh - borrow
           adjusted == IF high < 0 THEN high + 160 ELSE high
           a == Byte(adjusted + digit)
           diff == (10 * ah + al) - (10 * bh + bl) - (1 - carry)
           h == ah - bh - (IF low < 0 THEN 1 ELSE 0)
           k == IF h < 0 THEN h + 10 ELSE h
<1>1. low \in -10 .. 9
  OBVIOUS
<1>2. digit \in 0 .. 9 /\ digit = low + (IF low < 0 THEN 10 ELSE 0)
  <2> HIDE DEF low
  <2> QED  BY <1>1
<1>3. h \in -10 .. 9 /\ high = 16 * h /\ diff = 10 * h + digit
  <2>1. diff = 10 * (ah - bh) + low
    BY <1>1
  <2> HIDE DEF low, digit, diff
  <2> QED  BY <1>1, <1>2, <2>1
<1> HIDE DEF low, digit, diff, h, high
<1>4. k \in 0 .. 9 /\ a = 16 * k + digit
  <2>1. k \in 0 .. 9 /\ adjusted = 16 * k
    BY <1>3
  <2> HIDE DEF adjusted, k
  <2> QED  BY <1>2, <2>1 DEF Byte
<1> HIDE DEF a
<1>5. IsDecimal(a) /\ Decimal(a) = 10 * k + digit
  BY <1>2, <1>4, OfDigits
<1>6. diff % 100 = 10 * k + digit /\ ((diff >= 0) <=> (h >= 0))
  BY <1>2, <1>3, Hundreds
<1>7. (high >= 0) <=> (h >= 0)
  BY <1>3
<1> QED  BY <1>5, <1>6, <1>7 DEF DifferenceRight, a, high, diff, low, digit

\* C set in a status register.
LEMMA CarryLeft ==
  ASSUME NEW sr, IsByte(sr), NEW c PROVE Flag(With(sr, C, AsBit(c)), C) <=> c
<1> DEFINE x == AsBit(c)
<1>1. x \in {0, 1} /\ (x = 1 <=> c)
  BY DEF AsBit
<1> HIDE DEF x
<1>2. Bit(With(sr, C, x), C) = x
  <2>1. sr \in Int /\ sr \div 1 = sr
    BY DEF IsByte
  <2> DEFINE n == sr + (x - (sr % 2))
  <2>2. n \in Int /\ n \div 1 = n /\ n % 2 = x
    BY <1>1, <2>1
  <2>3. With(sr, C, x) = n
    BY <1>1, <2>1 DEF With, Bit, C
  <2> HIDE DEF n
  <2> QED  BY <2>2, <2>3 DEF Bit, C
<1> QED  BY <1>1, <1>2 DEF Flag, x

\* ADC and SBC of decimal numbers.
LEMMA DecimalLeft ==
  ASSUME NEW r, Whole(r), IsByte(r.a), IsByte(r.rv), IsByte(r.sr),
         IsDecimal(r.a), IsDecimal(r.rv)
  PROVE  LET carry == Bit(r.sr, C)
             sum == Decimal(r.a) + Decimal(r.rv) + carry
             diff == Decimal(r.a) - Decimal(r.rv) - (1 - carry)
             t == ICPU!ADCDecimal(r)
             u == ICPU!SBCDecimal(r)
         IN  /\ Registers(t) /\ Registers(u)
             /\ IsDecimal(t.a) /\ Decimal(t.a) = sum % 100 /\ (Flag(t.sr, C) <=> sum > 99)
             /\ IsDecimal(u.a) /\ Decimal(u.a) = diff % 100 /\ (Flag(u.sr, C) <=> diff >= 0)
<1> DEFINE ah == r.a \div 16
           al == r.a % 16
           bh == r.rv \div 16
           bl == r.rv % 16
           x == Bit(r.sr, C)
           sum == Decimal(r.a) + Decimal(r.rv) + x
           diff == Decimal(r.a) - Decimal(r.rv) - (1 - x)
<1>1. x \in {0, 1}
  BY DEF Bit, C, IsByte
<1>2. /\ ah \in 0 .. 9 /\ al \in 0 .. 9 /\ bh \in 0 .. 9 /\ bl \in 0 .. 9
      /\ Decimal(r.a) = 10 * ah + al /\ Decimal(r.rv) = 10 * bh + bl
      /\ High(r.a) = 16 * ah /\ High(r.rv) = 16 * bh
  BY DigitsOf DEF TwoDigits
<1>3. LET t == ICPU!ADCDecimal(r)
      IN  /\ Registers(t)
          /\ IsDecimal(t.a) /\ Decimal(t.a) = sum % 100 /\ (Flag(t.sr, C) <=> sum > 99)
  <2> DEFINE low == al + bl + x
             half == IF low >= 10 THEN 16 ELSE 0
             digit == IF low >= 10 THEN (low + 6) % 16 ELSE low
             signed == Signed(High(r.a)) + Signed(High(r.rv)) + half + digit
             high == High(r.a) + High(r.rv) + half
             adjusted == IF high >= 160 THEN high + 96 ELSE high
             a == Byte(High(adjusted)) + digit
             n == Byte(signed) >= 128
             z == Byte(r.a + r.rv + Bit(r.sr, C)) = 0
             c == high >= 160
             over == OutOfRange(signed)
             nzv == NZV(r.sr, n, z, over)
             s == [r EXCEPT !.a = a]
  <2>1. ICPU!ADCDecimal(r) = ICPU!setNZCVflags(s, n, z, c, over)
    BY DEF ICPU!ADCDecimal, ICPU!Bit, Bit, ICPU!C, C, ICPU!High, High,
       ICPU!Byte, Byte, ICPU!Signed, Signed, ICPU!OutOfRange, OutOfRange
  <2>2. IsDecimal(a) /\ Decimal(a) = sum % 100 /\ (c <=> sum > 99)
    <3> HIDE DEF ah, al, bh, bl, x
    <3>1. LET h == 16 * ah + 16 * bh + half
              j == IF h >= 160 THEN h + 96 ELSE h
              b == Byte(High(j)) + digit
              m == (10 * ah + al) + (10 * bh + bl) + x
          IN  IsDecimal(b) /\ Decimal(b) = m % 100 /\ ((h >= 160) <=> (m > 99))
      <4>1. SumRight(ah, al, bh, bl, x)
        BY <1>1, <1>2, SumOfDigits, Zenon
      <4> HIDE DEF half, digit, high, adjusted, a, n, z, c, over, signed, s, sum, diff
      <4> QED  BY <4>1 DEF SumRight, half, digit, low
    <3>2. high = 16 * ah + 16 * bh + half /\ sum = (10 * ah + al) + (10 * bh + bl) + x
      BY <1>2
    <3> HIDE DEF half, digit, high, sum
    <3> QED  BY <3>1, <3>2
  <2> HIDE DEF a, n, z, c, over
  <2>3. Registers(s) /\ s.sr = r.sr /\ s.a = a
    BY DEF Whole, Registers
  <2> HIDE DEF s
  <2>4. ICPU!ADCDecimal(r) = Status(Status(s, nzv), NZCV(r.sr, n, z, c, over))
    BY <2>1, <2>3, OverflowSet
  <2> DEFINE new == NZCV(r.sr, n, z, c, over)
  <2>5. IsByte(nzv) /\ new = With(nzv, C, AsBit(c))
    BY OverflowIsByte DEF NZCV
  <2>6. Flag(new, C) <=> c
    BY <2>5, CarryLeft
  <2> HIDE DEF new, nzv
  <2>7. /\ ICPU!ADCDecimal(r).a = a /\ ICPU!ADCDecimal(r).sr = new
        /\ Registers(ICPU!ADCDecimal(r))
    BY <2>3, <2>4 DEF Status, Registers, new
  <2> QED  BY <2>2, <2>6, <2>7
<1>4. LET u == ICPU!SBCDecimal(r)
      IN  /\ Registers(u)
          /\ IsDecimal(u.a) /\ Decimal(u.a) = diff % 100 /\ (Flag(u.sr, C) <=> diff >= 0)
  <2> DEFINE borrowIn == 1 - Bit(r.sr, C)
             signed == Signed(r.a) - Signed(r.rv) - borrowIn
             low == al - bl - borrowIn
             borrow == IF low < 0 THEN 16 ELSE 0
             digit == (IF low < 0 THEN low + 10 ELSE low) % 16
             high == High(r.a) - High(r.rv) - borrow
             adjusted == IF high < 0 THEN high + 160 ELSE high
             a == Byte(adjusted + digit)
             n == Byte(signed) >= 128
             z == Byte(signed) = 0
             c == high >= 0
             over == OutOfRange(signed)
             nzv == NZV(r.sr, n, z, over)
             s == ICPU!setNZVflags(r, n, z, over)
  <2>1. ICPU!SBCDecimal(r) = [[s EXCEPT !.a = a] EXCEPT !.sr = SetFlag(s.sr, C, c)]
    BY DEF ICPU!SBCDecimal, ICPU!SetFlag, SetFlag, ICPU!Bit, Bit, ICPU!C, C, ICPU!High, High,
       ICPU!Byte, Byte, ICPU!Signed, Signed, ICPU!OutOfRange, OutOfRange
  <2>2. IsDecimal(a) /\ Decimal(a) = diff % 100 /\ (c <=> diff >= 0)
    <3> HIDE DEF ah, al, bh, bl, x
    <3>1. LET l == al - bl - (1 - x)
              b == IF l < 0 THEN 16 ELSE 0
              d == (IF l < 0 THEN l + 10 ELSE l) % 16
              h == 16 * ah - 16 * bh - b
              j == IF h < 0 THEN h + 160 ELSE h
              v == Byte(j + d)
              m == (10 * ah + al) - (10 * bh + bl) - (1 - x)
          IN  IsDecimal(v) /\ Decimal(v) = m % 100 /\ ((h >= 0) <=> (m >= 0))
      <4>1. DifferenceRight(ah, al, bh, bl, x)
        BY <1>1, <1>2, DifferenceOfDigits
      <4> HIDE DEF borrow, digit, high, adjusted, a, n, z, c, over, signed, s, sum, diff, low
      <4> QED  BY <4>1 DEF DifferenceRight
    <3>2. high = 16 * ah - 16 * bh - borrow /\ diff = (10 * ah + al) - (10 * bh + bl) - (1 - x)
      BY <1>2
    <3>3. low = al - bl - (1 - x)
      BY DEF x
    <3> HIDE DEF low, high, diff
    <3> QED  BY <3>1, <3>2, <3>3
  <2> HIDE DEF a, n, z, c, over
  <2>3. Registers(r) /\ s = Status(r, nzv)
    BY OverflowSet DEF Whole
  <2> HIDE DEF s, nzv
  <2>4. /\ ICPU!SBCDecimal(r) = [[s EXCEPT !.a = a] EXCEPT !.sr = SetFlag(s.sr, C, c)]
        /\ s.sr = nzv /\ "a" \in DOMAIN s /\ "sr" \in DOMAIN s
    BY <2>1, <2>3 DEF Status, Registers
  <2>5. IsByte(nzv) /\ SetFlag(nzv, C, c) = With(nzv, C, AsBit(c))
    BY OverflowIsByte DEF nzv, SetFlag, With, AsBit
  <2> DEFINE new == With(nzv, C, AsBit(c))
  <2>6. Flag(new, C) <=> c
    BY <2>5, CarryLeft
  <2> HIDE DEF new
  <2>7. ICPU!SBCDecimal(r).a = a /\ ICPU!SBCDecimal(r).sr = new
    BY <2>4, <2>5 DEF new
  <2>8. Registers(s)
    BY <2>3 DEF Status, Registers
  <2>9. Registers(ICPU!SBCDecimal(r))
    BY <2>4, <2>8 DEF Registers
  <2> QED  BY <2>2, <2>6, <2>7, <2>9
<1> QED  BY <1>3, <1>4

-----------------------------------------------------------------------------
(* The first instruction of a test.                                        *)

\* What advanceInstr() does in terms of the steps the lemmas are about.
LEMMA AfterIs ==
  ASSUME NEW q, NEW code, NEW request
  PROVE  After(q, code, request)
           = Charged(ICPU!executeInstr(Opened(ICPU!Served(q, request), code)), code)
<1> DEFINE u == ICPU!executeInstr(Opened(ICPU!Served(q, request), code))
           k == ICPU!tick(u, Cycles(code))
<1>1. After(q, code, request)
        = LET t == ICPU!tick(u, ICPU!Cycles(code)) IN [t EXCEPT !.opcodePC = t.pc]
  BY DEF After, ICPU!advanceInstr, Opened
<1> HIDE DEF u
<1>2. After(q, code, request) = [k EXCEPT !.opcodePC = k.pc]
  BY <1>1, SameCycles
<1> QED  BY <1>2 DEF Charged, u

\* A request that is not there, or that I disables, is not served.
LEMMA NotServed ==
  ASSUME NEW q, NEW request, request = "none" \/ (request = "IRQ" /\ Flag(q.sr, I))
  PROVE  ICPU!Served(q, request) = q
<1>1. ICPU!I = I /\ (ICPU!Flag(q.sr, I) <=> Flag(q.sr, I))
  BY DEF ICPU!I, I, ICPU!Flag, Flag, ICPU!Bit, Bit
<1> QED  BY <1>1 DEF ICPU!Served

\* Time and mOpcodePC aside an instruction that has been charged is what it was.
LEMMA ChargedAs ==
  ASSUME NEW u, Registers(u), NEW code
  PROVE  LET q == Charged(u, code) IN Registers(q) /\ Agree(q, u) /\ q.pc = u.pc
<1> DEFINE k == ICPU!tick(u, Cycles(code))
<1>1. Registers(k) /\ Agree(k, u) /\ k.pc = u.pc
  BY DEF ICPU!tick, Registers, Agree
<1> HIDE DEF k
<1>2. LET q == [k EXCEPT !.opcodePC = k.pc] IN Registers(q) /\ Agree(q, k) /\ q.pc = k.pc
  BY <1>1 DEF Registers, Agree
<1>3. Charged(u, code) = [k EXCEPT !.opcodePC = k.pc]
  BY DEF Charged, k
<1> QED  BY <1>1, <1>2, <1>3 DEF Agree

\* What a test starts with.
LEMMA TestHolds ==
  ASSUME NEW t \in Tests
  PROVE  LET q == InstructionAccurate(t)
         IN  /\ Whole(q) /\ Typed(q) /\ q.pc = CodeStart /\ q.opcodePC = CodeStart
             /\ q.a = t.a /\ q.sp = t.sp /\ q.sr = t.sr /\ q.b1 = t.b1 /\ q.b2 = t.b2
             /\ q.ram = <<>> /\ IsByte(t.a) /\ IsByte(t.sp) /\ IsByte(t.sr) /\ ~ Flag(t.sr, B)
             /\ t.request \in {"none", "IRQ", "NMI"}
<1> DEFINE q == InstructionAccurate(t)
<1>1. q.a = t.a /\ q.sp = t.sp /\ q.sr = t.sr /\ q.b1 = t.b1 /\ q.b2 = t.b2 /\ q.ram = <<>>
  BY DEF InstructionAccurate
<1>2. Whole(q) /\ Typed(q) /\ q.pc = CodeStart /\ q.opcodePC = CodeStart
  BY TestIsTyped DEF Start
<1>3. ~ Flag(t.sr, B) /\ t.request \in {"none", "IRQ", "NMI"}
  BY InstrAssumption DEF IsTest
<1> HIDE DEF q
<1> QED  BY <1>1, <1>2, <1>3 DEF Typed, q

\* The first instruction of a test without an interrupt before it.
LEMMA FirstIs ==
  ASSUME IInv, ~ Entered
  PROVE  LET q == InstructionAccurate(run.old)
         IN  First = Charged(ICPU!executeInstr(Opened(q, run.first)), run.first)
<1> DEFINE q == InstructionAccurate(run.old)
           request == run.old.request
<1>1. run.old \in Tests
  BY DEF IInv, History
<1>2. q.sr = run.old.sr /\ request \in {"none", "IRQ", "NMI"}
  BY <1>1, TestHolds
<1>3. request = "none" \/ (request = "IRQ" /\ Flag(q.sr, I))
  BY <1>2 DEF Entered
<1> HIDE DEF q
<1>4. ICPU!Served(q, request) = q
  BY <1>3, NotServed
<1>5. First = After(q, run.first, request)
  BY DEF First, q
<1> QED  BY <1>4, <1>5, AfterIs DEF q

-----------------------------------------------------------------------------
(* The property of decimal arithmetic.                                     *)

\* What the property says of the outcome s of the test t.
Adds(s, t, code) ==
  LET carry == Bit(t.sr, C)
      sum   == Decimal(t.a) + Decimal(t.b1) + carry
      diff  == Decimal(t.a) - Decimal(t.b1) - (1 - carry)
  IN  IF code[1] = "ADC"
      THEN IsDecimal(s.a) /\ Decimal(s.a) = sum % 100 /\ Flag(s.sr, C) = (sum > 99)
      ELSE IsDecimal(s.a) /\ Decimal(s.a) = diff % 100 /\ Flag(s.sr, C) = (diff >= 0)

DecimalCodes == {<<"ADC", "Immediate">>, <<"SBC", "Immediate">>}

\* The operand of a test's first instruction.
LEMMA OperandRead ==
  ASSUME NEW t \in Tests, NEW code, code[2] = "Immediate"
  PROVE  LET k == Opened(InstructionAccurate(t), code)
             r == ICPU!AddrHdlr(k)
         IN  Whole(r) /\ r.a = t.a /\ r.sr = t.sr /\ r.code = code /\ r.rv = t.b1
<1> DEFINE q == InstructionAccurate(t)
           k == Opened(q, code)
           r == ICPU!AddrHdlr(k)
<1>1. /\ Whole(q) /\ Typed(q) /\ q.pc = CodeStart /\ q.a = t.a /\ q.sr = t.sr /\ q.b1 = t.b1
      /\ q.ram = <<>>
  BY TestHolds
<1> HIDE DEF q
<1>2. /\ Whole(k) /\ Typed(k) /\ Agree(k, q) /\ k.code = code /\ k.pc = Past(q.pc)
  BY <1>1, OpenedAs
<1> HIDE DEF k
<1>3. r = ICPU!immediateAdrHdlr(k)
  BY <1>2, ICSelects
<1> HIDE DEF r
<1>4. Result(r, k, k.opAdr, Past(k.pc), k.reads \cup {k.pc}, 0) /\ r.rv = Content(k, k.pc)
  BY <1>2, <1>3, ImmediateResult
<1>5. Whole(r) /\ r.a = t.a /\ r.sr = t.sr /\ r.code = code
  BY <1>1, <1>2, <1>4 DEF Result, Carried, Agree
<1>6. Content(k, k.pc) = t.b1
  <2>1. k.pc = CodeStart + 1
    BY <1>1, <1>2 DEF Past, CodeStart
  <2>2. DOMAIN k.ram = {} /\ k.b1 = t.b1
    BY <1>1, <1>2 DEF Agree
  <2>3. k.pc \notin DOMAIN k.ram
    BY <2>2
  <2>4. k.pc # CodeStart + 2
    BY <2>1 DEF CodeStart
  <2>5. Content(k, k.pc) = k.b1
    BY <2>1, <2>3, <2>4, Zenon DEF Content
  <2> QED  BY <2>2, <2>5
<1> QED  BY <1>4, <1>5, <1>6 DEF r, k, q

\* With D set ADC and SBC are decimal.
LEMMA DecimalSelects ==
  ASSUME NEW r, r.code[1] \in {"ADC", "SBC"}, Flag(r.sr, D)
  PROVE  ICPU!ExecHdlr(r) = IF r.code[1] = "ADC" THEN ICPU!ADCDecimal(r) ELSE ICPU!SBCDecimal(r)
<1>1. /\ r.code[1] = "ADC" => ICPU!ExecHdlr(r) = ICPU!ADCExecHdlr(r)
      /\ r.code[1] = "SBC" => ICPU!ExecHdlr(r) = ICPU!SBCExecHdlr(r)
  BY ZenonT(30) DEF ICPU!ExecHdlr
<1>2. ICPU!D = D /\ (ICPU!Flag(r.sr, D) <=> Flag(r.sr, D))
  BY DEF ICPU!D, D, ICPU!Flag, Flag, ICPU!Bit, Bit
<1> QED  BY <1>1, <1>2 DEF ICPU!ADCExecHdlr, ICPU!ADCCalc, ICPU!SBCExecHdlr, ICPU!SBCCalc

\* A test's first instruction, ADC or SBC of decimal numbers.
LEMMA DecimalFirst ==
  ASSUME NEW t \in Tests, NEW code \in DecimalCodes, Flag(t.sr, D), IsDecimal(t.a), IsDecimal(t.b1)
  PROVE  Adds(Charged(ICPU!executeInstr(Opened(InstructionAccurate(t), code)), code), t, code)
<1> DEFINE k == Opened(InstructionAccurate(t), code)
           r == ICPU!AddrHdlr(k)
           u == ICPU!ExecHdlr(r)
           q == Charged(u, code)
           carry == Bit(t.sr, C)
           sum   == Decimal(t.a) + Decimal(t.b1) + carry
           diff  == Decimal(t.a) - Decimal(t.b1) - (1 - carry)
<1>1. code[1] \in {"ADC", "SBC"} /\ code[2] = "Immediate"
  BY DEF DecimalCodes
<1>2. Whole(r) /\ r.a = t.a /\ r.sr = t.sr /\ r.code = code /\ r.rv = t.b1
  BY <1>1, OperandRead
<1>3. IsByte(t.a) /\ IsByte(t.b1) /\ IsByte(t.sr)
  BY InstrAssumption, ByteOfInterval DEF IsTest
<1> HIDE DEF r, k
<1>4. u = IF code[1] = "ADC" THEN ICPU!ADCDecimal(r) ELSE ICPU!SBCDecimal(r)
  BY <1>1, <1>2, DecimalSelects
<1> DEFINE v == ICPU!ADCDecimal(r)
           w == ICPU!SBCDecimal(r)
<1>5. /\ Registers(v) /\ Registers(w)
      /\ IsDecimal(v.a) /\ Decimal(v.a) = sum % 100 /\ (Flag(v.sr, C) <=> sum > 99)
      /\ IsDecimal(w.a) /\ Decimal(w.a) = diff % 100 /\ (Flag(w.sr, C) <=> diff >= 0)
  BY <1>2, <1>3, DecimalLeft
<1> HIDE DEF u, v, w
<1>6. Registers(u)
  BY <1>4, <1>5 DEF v, w
<1>7. q.a = u.a /\ q.sr = u.sr
  BY <1>6, ChargedAs DEF Agree
<1>8. u = IF code[1] = "ADC" THEN v ELSE w
  BY <1>4 DEF v, w
<1> HIDE DEF q, sum, diff
<1>9. IF code[1] = "ADC"
      THEN IsDecimal(q.a) /\ Decimal(q.a) = sum % 100 /\ (Flag(q.sr, C) <=> sum > 99)
      ELSE IsDecimal(q.a) /\ Decimal(q.a) = diff % 100 /\ (Flag(q.sr, C) <=> diff >= 0)
  BY <1>5, <1>7, <1>8
<1>10. Adds(q, t, code)
  <2>1. /\ \A x, y : (Flag(x, C) = (y > 99)) <=> (Flag(x, C) <=> y > 99)
        /\ \A x, y : (Flag(x, C) = (y >= 0)) <=> (Flag(x, C) <=> y >= 0)
    BY DEF Flag
  <2>2. IF code[1] = "ADC"
        THEN IsDecimal(q.a) /\ Decimal(q.a) = sum % 100 /\ Flag(q.sr, C) = (sum > 99)
        ELSE IsDecimal(q.a) /\ Decimal(q.a) = diff % 100 /\ Flag(q.sr, C) = (diff >= 0)
    BY <1>9, <2>1, Zenon
  <2> QED  BY <2>2, Zenon DEF Adds, sum, diff
<1> QED  BY <1>10 DEF q, u, r, k, ICPU!executeInstr

\* In both processors ADC and SBC, with D set, give the decimal sum and difference of
\* two-digit decimal numbers and their carry: ADC() and SBC() of P6502.cpp.
THEOREM DecimalsRight == Spec => []DecimalArithmetic
<1>1. IInv => DecimalArithmetic
  <2> SUFFICES ASSUME IInv, Compared, run.count = 1, run.code \in DecimalCodes, ~ Interrupted,
                      Flag(run.old.sr, D), IsDecimal(run.old.a), IsDecimal(run.old.b1)
               PROVE  /\ Adds(Outcome(cc), run.old, run.code)
                      /\ Adds(Outcome(ic), run.old, run.code)
    BY Zenon DEF DecimalArithmetic, Adds, DecimalCodes
  <2>1. run.old \in Tests /\ run.code = run.first /\ ~ Entered /\ ic = First
    BY DEF IInv, History, Recorded, Interrupted
  <2>2. Adds(ic, run.old, run.code)
    BY <2>1, FirstIs, DecimalFirst, Zenon
  <2>3. ~ Known /\ ~ ModifiesElsewhere
    <3>1. run.code[1] \in {"ADC", "SBC"} /\ run.code[2] = "Immediate"
      BY DEF DecimalCodes
    <3> QED  BY <2>1, <3>1 DEF Known, MarkedWrongly, OperandOnStack, StaleOpcodePC,
                ModifiesElsewhere, WritesMem, NoMemory
  <2>4. cc.a = ic.a /\ cc.sr = ic.sr
    BY <2>3, Agreement DEF Agree
  <2>5. /\ Outcome(cc).a = ic.a /\ Outcome(cc).sr = ic.sr
        /\ Outcome(ic).a = ic.a /\ Outcome(ic).sr = ic.sr
    BY <2>4 DEF Outcome
  <2> QED  BY <2>2, <2>5, Zenon DEF Adds
<1> QED  BY Invariance, <1>1, PTL

-----------------------------------------------------------------------------
(* The bits of the status.                                                 *)

\* The byte with these bits.
OfBits(a, b, c, d, e, f, g, h) == 128 * a + 64 * b + 32 * c + 16 * d + 8 * e + 4 * f + 2 * g + h

\* The bits of a byte made of bits.
LEMMA BitsOf ==
  ASSUME NEW a \in {0, 1}, NEW b \in {0, 1}, NEW c \in {0, 1}, NEW d \in {0, 1},
         NEW e \in {0, 1}, NEW f \in {0, 1}, NEW g \in {0, 1}, NEW h \in {0, 1},
         NEW n, n = OfBits(a, b, c, d, e, f, g, h)
  PROVE  /\ Bit(n, 128) = a /\ Bit(n, 64) = b /\ Bit(n, 32) = c /\ Bit(n, 16) = d
         /\ Bit(n, 8) = e /\ Bit(n, 4) = f /\ Bit(n, 2) = g /\ Bit(n, 1) = h
<1>1. n = 128 * a + 64 * b + 32 * c + 16 * d + 8 * e + 4 * f + 2 * g + h
  BY DEF OfBits
<1>2. Bit(n, 128) = a
  <2>1. n \div 128 = a
    BY <1>1
  <2> QED  BY <2>1 DEF Bit
<1>3. Bit(n, 64) = b
  <2>1. n \div 64 = 2 * a + b
    BY <1>1
  <2> QED  BY <2>1 DEF Bit
<1>4. Bit(n, 32) = c
  <2>1. n \div 32 = 2 * (2 * a + b) + c
    BY <1>1
  <2> QED  BY <2>1 DEF Bit
<1>5. Bit(n, 16) = d
  <2>1. n \div 16 = 2 * (4 * a + 2 * b + c) + d
    BY <1>1
  <2> QED  BY <2>1 DEF Bit
<1>6. Bit(n, 8) = e
  <2>1. n \div 8 = 2 * (8 * a + 4 * b + 2 * c + d) + e
    BY <1>1
  <2> QED  BY <2>1 DEF Bit
<1>7. Bit(n, 4) = f
  <2>1. n \div 4 = 2 * (16 * a + 8 * b + 4 * c + 2 * d + e) + f
    BY <1>1
  <2> QED  BY <2>1 DEF Bit
<1>8. Bit(n, 2) = g
  <2>1. n \div 2 = 2 * (32 * a + 16 * b + 8 * c + 4 * d + 2 * e + f) + g
    BY <1>1
  <2> QED  BY <2>1 DEF Bit
<1>9. Bit(n, 1) = h
  <2>1. n \div 1 = 2 * (64 * a + 32 * b + 16 * c + 8 * d + 4 * e + 2 * f + g) + h
    BY <1>1
  <2> QED  BY <2>1 DEF Bit
<1> QED  BY <1>2, <1>3, <1>4, <1>5, <1>6, <1>7, <1>8, <1>9

\* A byte is what its bits make.
LEMMA OfItsBits ==
  ASSUME NEW n, IsByte(n)
  PROVE  /\ n = OfBits(Bit(n, 128), Bit(n, 64), Bit(n, 32), Bit(n, 16),
                       Bit(n, 8), Bit(n, 4), Bit(n, 2), Bit(n, 1))
         /\ \A m \in {128, 64, 32, 16, 8, 4, 2, 1} : Bit(n, m) \in {0, 1}
<1>1. n \in Nat /\ n < 256
  BY DEF IsByte
<1>2. \A m \in {128, 64, 32, 16, 8, 4, 2, 1} : Bit(n, m) \in {0, 1}
  BY <1>1 DEF Bit
<1> DEFINE n1 == n \div 2
           n2 == n \div 4
           n3 == n \div 8
           n4 == n \div 16
           n5 == n \div 32
           n6 == n \div 64
           n7 == n \div 128
<1>3. n = 2 * n1 + Bit(n, 1) /\ n1 = 2 * n2 + Bit(n, 2)
  BY <1>1 DEF Bit
<1>4. n2 = 2 * n3 + Bit(n, 4) /\ n3 = 2 * n4 + Bit(n, 8)
  BY <1>1 DEF Bit
<1>5. n4 = 2 * n5 + Bit(n, 16) /\ n5 = 2 * n6 + Bit(n, 32)
  BY <1>1 DEF Bit
<1>6. n6 = 2 * n7 + Bit(n, 64) /\ n7 = Bit(n, 128)
  BY <1>1 DEF Bit
<1>7. n1 \in Int /\ n2 \in Int /\ n3 \in Int /\ n4 \in Int /\ n5 \in Int /\ n6 \in Int /\ n7 \in Int
  BY <1>1
<1> HIDE DEF n1, n2, n3, n4, n5, n6, n7
<1>8. n = OfBits(Bit(n, 128), Bit(n, 64), Bit(n, 32), Bit(n, 16),
                 Bit(n, 8), Bit(n, 4), Bit(n, 2), Bit(n, 1))
  <2> DEFINE a == Bit(n, 128)
             b == Bit(n, 64)
             c == Bit(n, 32)
             d == Bit(n, 16)
             e == Bit(n, 8)
             f == Bit(n, 4)
             g == Bit(n, 2)
             h == Bit(n, 1)
  <2>1. /\ a \in Int /\ b \in Int /\ c \in Int /\ d \in Int
        /\ e \in Int /\ f \in Int /\ g \in Int /\ h \in Int
    BY <1>2
  <2> HIDE DEF a, b, c, d, e, f, g, h
  <2>2. n = 2 * (2 * (2 * (2 * (2 * (2 * (2 * a + b) + c) + d) + e) + f) + g) + h
    BY <1>3, <1>4, <1>5, <1>6 DEF a, b, c, d, e, f, g, h
  <2>3. n = 128 * a + 64 * b + 32 * c + 16 * d + 8 * e + 4 * f + 2 * g + h
    BY <2>1, <2>2
  <2> QED  BY <2>3 DEF OfBits, a, b, c, d, e, f, g, h
<1> QED  BY <1>2, <1>8

\* A status is restored from one that has b5 and B of it and one that has the rest.
LEMMA RestoresBits ==
  ASSUME NEW n, IsByte(n), NEW s, NEW p,
         \A m \in {32, 16} : Flag(s, m) <=> Flag(n, m),
         \A m \in {128, 64, 8, 4, 2, 1} : Flag(p, m) <=> Flag(n, m)
  PROVE  Restored(s, p) = n
<1> DEFINE a == Bit(n, 128)
           b == Bit(n, 64)
           c == Bit(n, 32)
           d == Bit(n, 16)
           e == Bit(n, 8)
           f == Bit(n, 4)
           g == Bit(n, 2)
           h == Bit(n, 1)
<1>1. n = OfBits(a, b, c, d, e, f, g, h)
  BY OfItsBits
<1>2. /\ a \in {0, 1} /\ b \in {0, 1} /\ c \in {0, 1} /\ d \in {0, 1}
      /\ e \in {0, 1} /\ f \in {0, 1} /\ g \in {0, 1} /\ h \in {0, 1}
  BY OfItsBits
<1>3. And(s, B5) = 32 * c + 16 * d
  <2>1. /\ ~ Flag(B5, 128) /\ ~ Flag(B5, 64) /\ Flag(B5, 32) /\ Flag(B5, 16)
        /\ ~ Flag(B5, 8) /\ ~ Flag(B5, 4) /\ ~ Flag(B5, 2) /\ ~ Flag(B5, 1)
    BY DEF Flag, Bit, B5
  <2>2. (Flag(s, 32) <=> c = 1) /\ (Flag(s, 16) <=> d = 1)
    BY DEF Flag
  <2> HIDE DEF a, b, c, d, e, f, g, h
  <2> QED  BY <1>2, <2>1, <2>2 DEF And, Bitwise
<1>4. And(p, 255 - B5) = 128 * a + 64 * b + 8 * e + 4 * f + 2 * g + h
  <2> DEFINE w == 255 - B5
  <2>1. /\ Flag(w, 128) /\ Flag(w, 64) /\ ~ Flag(w, 32) /\ ~ Flag(w, 16)
        /\ Flag(w, 8) /\ Flag(w, 4) /\ Flag(w, 2) /\ Flag(w, 1)
    BY DEF Flag, Bit, B5
  <2>2. /\ (Flag(p, 128) <=> a = 1) /\ (Flag(p, 64) <=> b = 1)
        /\ (Flag(p, 8) <=> e = 1) /\ (Flag(p, 4) <=> f = 1)
        /\ (Flag(p, 2) <=> g = 1) /\ (Flag(p, 1) <=> h = 1)
    BY DEF Flag
  <2> HIDE DEF a, b, c, d, e, f, g, h, w
  <2>3. And(p, w) = 128 * a + 64 * b + 8 * e + 4 * f + 2 * g + h
    BY <1>2, <2>1, <2>2 DEF And, Bitwise
  <2> QED  BY <2>3 DEF w
<1> HIDE DEF a, b, c, d, e, f, g, h
<1> QED  BY <1>1, <1>2, <1>3, <1>4 DEF Restored, OfBits

\* The status that BRK and PHP push is restored from, B and b5 or not.
LEMMA RestoredAgain ==
  ASSUME NEW n, IsByte(n)
  PROVE  Restored(n, Or(n, B)) = n /\ Restored(n, Or(n, Or(B, B5))) = n
<1> DEFINE M == {128, 64, 8, 4, 2, 1}
<1>1. ASSUME NEW w, \A m \in M : ~ Flag(w, m)
      PROVE  Restored(n, Or(n, w)) = n
  <2> DEFINE bit(m) == IF Flag(n, m) \/ Flag(w, m) THEN 1 ELSE 0
  <2>1. Or(n, w) = OfBits(bit(128), bit(64), bit(32), bit(16), bit(8), bit(4), bit(2), bit(1))
    BY DEF Or, Bitwise, OfBits
  <2>2. \A m \in M : Bit(Or(n, w), m) = bit(m)
    <3> DEFINE a == bit(128)
               b == bit(64)
               c == bit(32)
               d == bit(16)
               e == bit(8)
               f == bit(4)
               g == bit(2)
               h == bit(1)
               o == Or(n, w)
    <3>1. /\ a \in {0, 1} /\ b \in {0, 1} /\ c \in {0, 1} /\ d \in {0, 1}
          /\ e \in {0, 1} /\ f \in {0, 1} /\ g \in {0, 1} /\ h \in {0, 1}
      OBVIOUS
    <3>2. o = OfBits(a, b, c, d, e, f, g, h)
      BY <2>1
    <3> HIDE DEF a, b, c, d, e, f, g, h, o
    <3>3. /\ Bit(o, 128) = a /\ Bit(o, 64) = b /\ Bit(o, 8) = e /\ Bit(o, 4) = f
          /\ Bit(o, 2) = g /\ Bit(o, 1) = h
      BY <3>1, <3>2, BitsOf
    <3> QED  BY <3>3 DEF a, b, c, d, e, f, g, h, o
  <2>3. \A m \in M : Flag(Or(n, w), m) <=> Flag(n, m)
    BY <1>1, <2>2 DEF Flag
  <2> HIDE DEF bit
  <2> QED  BY <2>3, RestoresBits
<1>2. \A m \in M : ~ Flag(B, m)
  BY DEF Flag, Bit, B
<1>3. Or(B, B5) = 48
  <2>1. /\ ~ Flag(B, 128) /\ ~ Flag(B, 64) /\ ~ Flag(B, 32) /\ Flag(B, 16)
        /\ ~ Flag(B, 8) /\ ~ Flag(B, 4) /\ ~ Flag(B, 2) /\ ~ Flag(B, 1)
    BY DEF Flag, Bit, B
  <2>2. /\ ~ Flag(B5, 128) /\ ~ Flag(B5, 64) /\ Flag(B5, 32) /\ Flag(B5, 16)
        /\ ~ Flag(B5, 8) /\ ~ Flag(B5, 4) /\ ~ Flag(B5, 2) /\ ~ Flag(B5, 1)
    BY DEF Flag, Bit, B5
  <2> QED  BY <2>1, <2>2 DEF Or, Bitwise
<1>4. \A m \in M : ~ Flag(48, m)
  BY DEF Flag, Bit
<1> QED  BY <1>1, <1>2, <1>3, <1>4

\* So is the one that an interrupt pushes, with I set when it is restored.
LEMMA RestoredEnabled ==
  ASSUME NEW n, IsByte(n)
  PROVE  Restored(Disabled(n), n) = n
<1> DEFINE a == Bit(n, 128)
           b == Bit(n, 64)
           c == Bit(n, 32)
           d == Bit(n, 16)
           e == Bit(n, 8)
           f == Bit(n, 4)
           g == Bit(n, 2)
           h == Bit(n, 1)
           s == Disabled(n)
<1>1. n = OfBits(a, b, c, d, e, f, g, h)
  BY OfItsBits
<1>2. /\ a \in {0, 1} /\ b \in {0, 1} /\ c \in {0, 1} /\ d \in {0, 1}
      /\ e \in {0, 1} /\ f \in {0, 1} /\ g \in {0, 1} /\ h \in {0, 1}
  BY OfItsBits
<1>3. s = n + 4 * (1 - f)
  BY DEF Disabled, SetFlag, I
<1> HIDE DEF a, b, c, d, e, f, g, h, s
<1>4. s = OfBits(a, b, c, d, e, 1, g, h)
  BY <1>1, <1>2, <1>3 DEF OfBits
<1>5. Bit(s, 32) = c /\ Bit(s, 16) = d
  <2> DEFINE one == 1
  <2>1. one \in {0, 1}
    OBVIOUS
  <2>2. s = OfBits(a, b, c, d, e, one, g, h)
    BY <1>4
  <2> HIDE DEF one
  <2> QED  BY <1>2, <2>1, <2>2, BitsOf
<1>6. \A m \in {32, 16} : Flag(s, m) <=> Flag(n, m)
  BY <1>5 DEF Flag, c, d
<1> QED  BY <1>6, RestoresBits DEF s

-----------------------------------------------------------------------------
(* What the stack holds.                                                   *)

\* The registers and the memory of s as they matter to what has been pushed.
Retains(t, s) ==
  /\ Whole(t) /\ t.a = s.a /\ t.sp = s.sp /\ t.sr = s.sr
  /\ t.ram = s.ram /\ t.b1 = s.b1 /\ t.b2 = s.b2 /\ t.seed = s.seed

\* The same is pulled when registers and memory are kept.
LEMMA RetainsPulled ==
  ASSUME NEW t, NEW s, Retains(t, s)
  PROVE  \A k : Pulled(t, k) = Pulled(s, k)
BY ContentSame DEF Retains, Pulled

\* Keeping registers and memory is transitive.
LEMMA RetainsOn ==
  ASSUME NEW u, NEW t, NEW s, Retains(u, t), Retains(t, s)
  PROVE  Retains(u, s)
BY DEF Retains

\* Reading an opcode, an implied operand, being charged and starting afresh retain it.
LEMMA OpenedRetains ==
  ASSUME NEW q, Whole(q), NEW code
  PROVE  LET k == Opened(q, code)
         IN  Retains(k, q) /\ k.code = code /\ k.opcodePC = q.opcodePC
<1> DEFINE n == [q EXCEPT !.code = code]
<1>1. Retains(n, q) /\ n.code = code /\ n.opcodePC = q.opcodePC
  BY DEF Retains, Whole, Registers
<1> HIDE DEF n
<1>2. LET k == ICPU!PastByte(n)
      IN  Retains(k, n) /\ k.code = n.code /\ k.opcodePC = n.opcodePC
  BY <1>1 DEF ICPU!PastByte, ICPU!Touch, Retains, Whole, Registers
<1>3. Opened(q, code) = ICPU!PastByte(n)
  BY DEF Opened, n
<1> QED  BY <1>1, <1>2, <1>3, RetainsOn

\* The implied mode keeps them.
LEMMA ImpliedRetains ==
  ASSUME NEW q, Whole(q), q.code[2] = "Implied"
  PROVE  LET r == ICPU!AddrHdlr(q)
         IN  Retains(r, q) /\ r.code = q.code /\ r.opcodePC = q.opcodePC
<1>1. ICPU!AddrHdlr(q) = ICPU!impliedAdrHdlr(q)
  BY ICSelects
<1>2. LET r == ICPU!impliedAdrHdlr(q)
      IN  Retains(r, q) /\ r.code = q.code /\ r.opcodePC = q.opcodePC
  BY DEF ICPU!impliedAdrHdlr, ICPU!Touch, Retains, Whole, Registers
<1> QED  BY <1>1, <1>2

\* Charging time keeps them.
LEMMA ChargedRetains ==
  ASSUME NEW u, Whole(u), NEW code
  PROVE  LET q == Charged(u, code) IN Retains(q, u) /\ q.pc = u.pc
<1>1. LET q == Charged(u, code) IN Registers(q) /\ Agree(q, u) /\ q.pc = u.pc
  BY ChargedAs DEF Whole
<1> DEFINE k == ICPU!tick(u, Cycles(code))
<1>2. "opcodePC" \in DOMAIN k
  BY DEF ICPU!tick, Whole
<1> HIDE DEF k
<1>3. "opcodePC" \in DOMAIN [k EXCEPT !.opcodePC = k.pc]
  BY <1>2
<1>4. "opcodePC" \in DOMAIN Charged(u, code)
  BY <1>3 DEF Charged, k
<1> QED  BY <1>1, <1>4 DEF Retains, Agree, Whole

\* Going on with another instruction keeps them.
LEMMA FreshRetains ==
  ASSUME NEW q, Whole(q) PROVE Retains(Fresh(q), q)
BY DEF Fresh, Retains, Whole, Registers

\* The instruction executed is one without operand: r is what its handler is given.
LEMMA ImpliedGiven ==
  ASSUME NEW q, Whole(q), NEW code, code[2] = "Implied"
  PROVE  \E r : /\ Retains(r, q) /\ r.code = code /\ r.opcodePC = q.opcodePC
                /\ ICPU!executeInstr(Opened(q, code)) = ICPU!ExecHdlr(r)
<1> DEFINE k == Opened(q, code)
           r == ICPU!AddrHdlr(k)
<1>1. Retains(k, q) /\ k.code = code /\ k.opcodePC = q.opcodePC
  BY OpenedRetains
<1> HIDE DEF k
<1>2. Retains(r, k) /\ r.code = k.code /\ r.opcodePC = k.opcodePC
  <2>1. Whole(k) /\ k.code[2] = "Implied"
    BY <1>1 DEF Retains
  <2> QED  BY <2>1, ImpliedRetains
<1>3. ICPU!executeInstr(k) = ICPU!ExecHdlr(r)
  BY DEF ICPU!executeInstr
<1> HIDE DEF r
<1>4. Retains(r, q) /\ r.code = code /\ r.opcodePC = q.opcodePC
  BY <1>1, <1>2, RetainsOn
<1> QED  BY <1>3, <1>4 DEF k

\* Or it is JSR.
LEMMA CallGiven ==
  ASSUME NEW q, Whole(q), Typed(q), NEW code, code[1] = "JSR", code[2] = "Absolute"
  PROVE  \E r : /\ Retains(r, q) /\ r.code = code /\ r.opcodePC = q.opcodePC
                /\ ICPU!executeInstr(Opened(q, code)) = ICPU!ExecHdlr(r)
<1> DEFINE k == Opened(q, code)
           r == ICPU!AddrHdlr(k)
<1>1. Whole(k) /\ Typed(k) /\ Agree(k, q) /\ k.code = code /\ k.opcodePC = q.opcodePC
  BY OpenedAs
<1> HIDE DEF k
<1>2. r = ICPU!absoluteAdrHdlr(k)
  BY <1>1, ICSelects
<1> HIDE DEF r
<1>3. Carried(r, k)
  BY <1>1, <1>2, AbsoluteResult DEF Result
<1>4. Retains(r, q) /\ r.code = code /\ r.opcodePC = q.opcodePC
  BY <1>1, <1>3 DEF Carried, Agree, Retains
<1> QED  BY <1>4 DEF r, k, ICPU!executeInstr

-----------------------------------------------------------------------------
(* Pushes.                                                                 *)

\* Places of the stack.
LEMMA Places256 ==
  ASSUME NEW sp, IsByte(sp)
  PROVE  /\ Byte(Byte(sp - 1) + 1) = sp /\ Byte(Byte(sp - 1) + 2) = Byte(sp + 1)
         /\ Byte(Byte(sp - 1) + 3) = Byte(sp + 2)
         /\ Byte(sp + 1) # sp /\ Byte(sp + 2) # sp
         /\ IsByte(Byte(sp - 1)) /\ IsByte(Byte(sp + 1)) /\ IsByte(Byte(sp + 2))
<1>1. sp \in Int /\ sp - 1 \in Int /\ sp + 1 \in Int /\ sp + 2 \in Int
  BY DEF IsByte
<1>2. /\ Byte(Byte(sp - 1) + 1) = Byte((sp - 1) + 1) /\ Byte(Byte(sp - 1) + 2) = Byte((sp - 1) + 2)
      /\ Byte(Byte(sp - 1) + 3) = Byte((sp - 1) + 3)
  <2> DEFINE m == sp - 1
  <2>1. m \in Int
    BY <1>1
  <2> HIDE DEF m
  <2>2. \A n \in Int : Byte(Byte(m) + n) = Byte(m + n)
    BY <2>1, ByteOfByte
  <2>3. /\ Byte(Byte(m) + 1) = Byte(m + 1) /\ Byte(Byte(m) + 2) = Byte(m + 2)
        /\ Byte(Byte(m) + 3) = Byte(m + 3)
    BY <2>2
  <2> QED  BY <2>3 DEF m
<1>3. (sp - 1) + 1 = sp /\ (sp - 1) + 2 = sp + 1 /\ (sp - 1) + 3 = sp + 2
  BY <1>1
<1>4. Byte(sp) = sp /\ IsByte(Byte(sp - 1)) /\ IsByte(Byte(sp + 1)) /\ IsByte(Byte(sp + 2))
  BY <1>1, Wrapped
<1>5. Byte(sp + 1) # sp /\ Byte(sp + 2) # sp
  BY DEF Byte, IsByte
<1> QED  BY <1>2, <1>3, <1>4, <1>5

\* u is q with v on top of the stack.
OnTop(u, q, v) ==
  /\ Whole(u) /\ u.a = q.a /\ u.sr = q.sr /\ u.sp = Byte(q.sp - 1)
  /\ Pulled(u, 1) = v /\ Pulled(u, 2) = Pulled(q, 1) /\ Pulled(u, 3) = Pulled(q, 2)

\* push() puts a byte on top of the stack.
LEMMA PushOnTop ==
  ASSUME NEW q, Whole(q), IsByte(q.sp), NEW v
  PROVE  OnTop(ICPU!push(q, v), q, v)
<1> DEFINE at == 256 + q.sp
           w == Stored(q, at, v)
           n == Byte(q.sp - 1)
           u == [w EXCEPT !.sp = n]
<1>1. at \in Int /\ Writable(at)
  BY DEF IsByte, Writable, RomStart
<1>2. /\ Whole(w) /\ w.a = q.a /\ w.sr = q.sr /\ w.sp = q.sp
      /\ w.b1 = q.b1 /\ w.b2 = q.b2 /\ w.seed = q.seed
      /\ w.ram = [m \in {at} \cup DOMAIN q.ram |-> IF m = at THEN v ELSE q.ram[m]]
  <2> HIDE DEF at
  <2> QED  BY <1>1 DEF Stored, Whole, Registers
<1>3. ICPU!push(q, v) = u
  <2>1. ICPU!Stored(q, at, v) = w
    BY Writes DEF Whole
  <2>2. ICPU!Byte(q.sp - 1) = n
    BY SharedMemory
  <2> HIDE DEF w, n
  <2> QED  BY <1>2, <2>1, <2>2 DEF ICPU!push
<1> HIDE DEF w, n, at
<1>4. /\ Whole(u) /\ u.a = q.a /\ u.sr = q.sr /\ u.sp = n
      /\ u.b1 = q.b1 /\ u.b2 = q.b2 /\ u.seed = q.seed
      /\ u.ram = [m \in {at} \cup DOMAIN q.ram |-> IF m = at THEN v ELSE q.ram[m]]
  BY <1>2 DEF Whole, Registers
<1> HIDE DEF u
<1>5. Content(u, at) = v
  <2>1. at \in DOMAIN u.ram /\ u.ram[at] = v
    BY <1>4
  <2> QED  BY <2>1 DEF Content
<1>6. ASSUME NEW m \in Int, m # at PROVE Content(u, m) = Content(q, m)
  <2>1. (m \in DOMAIN u.ram <=> m \in DOMAIN q.ram) /\ (m \in DOMAIN q.ram => u.ram[m] = q.ram[m])
    BY <1>4, <1>6
  <2> QED  BY <1>4, <2>1 DEF Content
<1>7. /\ Byte(n + 1) = q.sp /\ Byte(n + 2) = Byte(q.sp + 1) /\ Byte(n + 3) = Byte(q.sp + 2)
      /\ Byte(q.sp + 1) # q.sp /\ Byte(q.sp + 2) # q.sp
      /\ Byte(q.sp + 1) \in Int /\ Byte(q.sp + 2) \in Int /\ q.sp \in Int
  BY Places256 DEF n, IsByte
<1>8. Pulled(u, 1) = v
  BY <1>4, <1>5, <1>7 DEF Pulled, at
<1>9. Pulled(u, 2) = Pulled(q, 1) /\ Pulled(u, 3) = Pulled(q, 2)
  <2>1. 256 + Byte(q.sp + 1) # at /\ 256 + Byte(q.sp + 2) # at
    BY <1>7 DEF at
  <2>2. 256 + Byte(q.sp + 1) \in Int /\ 256 + Byte(q.sp + 2) \in Int
    BY <1>7
  <2>3. /\ Content(u, 256 + Byte(q.sp + 1)) = Content(q, 256 + Byte(q.sp + 1))
        /\ Content(u, 256 + Byte(q.sp + 2)) = Content(q, 256 + Byte(q.sp + 2))
    BY <1>6, <2>1, <2>2
  <2> QED  BY <1>4, <1>7, <2>3 DEF Pulled
<1> QED  BY <1>3, <1>4, <1>8, <1>9 DEF OnTop, n, u

\* u is q with the address w on top of the stack, and with v on top of that.
AddressOnTop(u, q, w) ==
  /\ Whole(u) /\ u.a = q.a /\ u.sr = q.sr /\ u.sp = Byte(q.sp - 2)
  /\ Pulled(u, 1) = Byte(w) /\ Pulled(u, 2) = Byte(w \div 256)
AllOnTop(u, q, w, v) ==
  /\ Whole(u) /\ u.a = q.a /\ u.sr = q.sr /\ u.sp = Byte(q.sp - 3)
  /\ Pulled(u, 1) = v /\ Pulled(u, 2) = Byte(w) /\ Pulled(u, 3) = Byte(w \div 256)

\* pushWord() puts an address there, and push() the status register on top of it.
LEMMA AddressPushed ==
  ASSUME NEW q, Whole(q), IsByte(q.sp), NEW w, NEW v
  PROVE  /\ AddressOnTop(ICPU!pushWord(q, w), q, w)
         /\ AllOnTop(ICPU!push(ICPU!pushWord(q, w), v), q, w, v)
<1> DEFINE h == ICPU!push(q, Byte(w \div 256))
           l == ICPU!push(h, Byte(w))
           u == ICPU!push(l, v)
           sp == q.sp
<1>1. ICPU!pushWord(q, w) = l
  BY SharedMemory DEF ICPU!pushWord
<1>2. OnTop(h, q, Byte(w \div 256))
  BY PushOnTop
<1>3. Whole(h) /\ h.sp = Byte(sp - 1)
  BY <1>2 DEF OnTop
<1>4. sp \in Int /\ sp - 1 \in Int /\ sp - 2 \in Int
  BY DEF IsByte
<1>5. IsByte(h.sp)
  BY <1>3, <1>4, Wrapped
<1> HIDE DEF h
<1>6. OnTop(l, h, Byte(w))
  BY <1>3, <1>5, PushOnTop
<1> HIDE DEF l
<1>7. l.sp = Byte(sp - 2)
  <2>1. l.sp = Byte(Byte(sp - 1) + (-1))
    <3>1. l.sp = Byte(h.sp - 1) /\ h.sp \in Int
      BY <1>5, <1>6 DEF OnTop, IsByte
    <3>2. h.sp - 1 = h.sp + (-1)
      BY <3>1
    <3> QED  BY <1>3, <3>1, <3>2
  <2>2. Byte(Byte(sp - 1) + (-1)) = Byte((sp - 1) + (-1))
    <3> DEFINE m == sp - 1
               n == -1
    <3>1. m \in Int /\ n \in Int
      BY <1>4
    <3> HIDE DEF m, n
    <3>2. Byte(Byte(m) + n) = Byte(m + n)
      BY <3>1, ByteOfByte
    <3> QED  BY <3>2 DEF m, n
  <2>3. (sp - 1) + (-1) = sp - 2
    BY <1>4
  <2> QED  BY <2>1, <2>2, <2>3
<1>8. IsByte(l.sp) /\ Whole(l)
  BY <1>4, <1>6, <1>7, Wrapped DEF OnTop
<1>9. OnTop(u, l, v)
  BY <1>8, PushOnTop
<1> HIDE DEF u
<1>10. u.sp = Byte(sp - 3)
  <2>1. u.sp = Byte(Byte(sp - 2) + (-1))
    <3>1. u.sp = Byte(l.sp - 1) /\ l.sp \in Int
      BY <1>8, <1>9 DEF OnTop, IsByte
    <3>2. l.sp - 1 = l.sp + (-1)
      BY <3>1
    <3> QED  BY <1>7, <3>1, <3>2
  <2>2. Byte(Byte(sp - 2) + (-1)) = Byte((sp - 2) + (-1))
    <3> DEFINE m == sp - 2
               n == -1
    <3>1. m \in Int /\ n \in Int
      BY <1>4
    <3> HIDE DEF m, n
    <3>2. Byte(Byte(m) + n) = Byte(m + n)
      BY <3>1, ByteOfByte
    <3> QED  BY <3>2 DEF m, n
  <2>3. (sp - 2) + (-1) = sp - 3
    BY <1>4
  <2> QED  BY <2>1, <2>2, <2>3
<1>11. AddressOnTop(l, q, w)
  BY <1>2, <1>6, <1>7 DEF OnTop, AddressOnTop
<1>12. AllOnTop(u, q, w, v)
  BY <1>2, <1>6, <1>9, <1>10 DEF OnTop, AllOnTop
<1> QED  BY <1>1, <1>11, <1>12 DEF u

-----------------------------------------------------------------------------
\* What the stack holds is not changed by what retains it.
LEMMA OnTopStill ==
  ASSUME NEW t, NEW u, NEW r, NEW q, Retains(t, u), Retains(r, q)
  PROVE  /\ \A v : OnTop(u, r, v) => OnTop(t, q, v)
         /\ \A w : AddressOnTop(u, r, w) => AddressOnTop(t, q, w)
         /\ \A w, v : AllOnTop(u, r, w, v) => AllOnTop(t, q, w, v)
<1>1. /\ Whole(t) /\ t.a = u.a /\ t.sr = u.sr /\ t.sp = u.sp
      /\ r.a = q.a /\ r.sr = q.sr /\ r.sp = q.sp
  BY DEF Retains
<1>2. \A k : Pulled(t, k) = Pulled(u, k) /\ Pulled(r, k) = Pulled(q, k)
  BY RetainsPulled
<1>3. /\ \A v : OnTop(u, r, v) => OnTop(t, q, v)
      /\ \A w : AddressOnTop(u, r, w) => AddressOnTop(t, q, w)
  BY <1>1, <1>2 DEF OnTop, AddressOnTop
<1>4. \A w, v : AllOnTop(u, r, w, v) => AllOnTop(t, q, w, v)
  BY <1>1, <1>2 DEF AllOnTop
<1> QED  BY <1>3, <1>4

\* Nothing has changed yet.
LEMMA RetainsItself ==
  ASSUME NEW q, Whole(q) PROVE Retains(q, q)
BY DEF Retains

\* A read, a jump and time keep registers and memory.
LEMMA TouchRetains ==
  ASSUME NEW q, Whole(q), NEW adr, NEW x
  PROVE  /\ Retains(ICPU!Touch(q, adr), q) /\ ICPU!Touch(q, adr).opcodePC = q.opcodePC
         /\ Retains([q EXCEPT !.pc = x], q)
         /\ Retains(ICPU!tick(q, x), q)
<1>1. Retains(ICPU!Touch(q, adr), q) /\ ICPU!Touch(q, adr).opcodePC = q.opcodePC
  BY DEF ICPU!Touch, Retains, Whole, Registers
<1>2. Retains([q EXCEPT !.pc = x], q)
  BY DEF Retains, Whole, Registers
<1>3. Retains(ICPU!tick(q, x), q)
  BY DEF ICPU!tick, Retains, Whole, Registers
<1> QED  BY <1>1, <1>2, <1>3

\* So does loading a vector.
LEMMA VectorRetains ==
  ASSUME NEW q, Whole(q), NEW adr
  PROVE  Retains(ICPU!Vector(q, adr), q)
<1> DEFINE t == ICPU!Touch(q, adr)
           u == ICPU!Touch(t, adr + 1)
           x == ICPU!Word(ICPU!Content(q, adr + 1), ICPU!Content(q, adr))
<1>1. Retains(t, q)
  BY TouchRetains
<1> HIDE DEF t
<1>2. Retains(u, t)
  <2>1. Whole(t)
    BY <1>1 DEF Retains
  <2> QED  BY <2>1, TouchRetains
<1>3. ICPU!Vector(q, adr) = [u EXCEPT !.pc = x]
  BY DEF ICPU!Vector, t
<1> HIDE DEF u, x
<1>4. Retains([u EXCEPT !.pc = x], u)
  <2>1. Whole(u)
    BY <1>2 DEF Retains
  <2> QED  BY <2>1, TouchRetains
<1> QED  BY <1>1, <1>2, <1>3, <1>4, RetainsOn

\* The instruction is over, and another one follows.
LEMMA FollowingRetains ==
  ASSUME NEW u, Whole(u), NEW code
  PROVE  Retains(Fresh(Charged(u, code)), u)
<1> DEFINE q == Charged(u, code)
<1>1. Retains(q, u)
  BY ChargedRetains
<1> HIDE DEF q
<1>2. Retains(Fresh(q), q)
  BY <1>1, FreshRetains DEF Retains
<1> QED  BY <1>1, <1>2, RetainsOn DEF q

\* The handlers of the instructions that use the stack.
LEMMA StackSelects ==
  ASSUME NEW r
  PROVE  /\ r.code[1] = "JSR" => ICPU!ExecHdlr(r) = ICPU!JSRExecHdlr(r)
         /\ r.code[1] = "BRK" => ICPU!ExecHdlr(r) = ICPU!BRKExecHdlr(r)
         /\ r.code[1] = "PHA" => ICPU!ExecHdlr(r) = ICPU!PHAExecHdlr(r)
         /\ r.code[1] = "PHP" => ICPU!ExecHdlr(r) = ICPU!PHPExecHdlr(r)
         /\ r.code[1] = "NOP" => ICPU!ExecHdlr(r) = ICPU!NOPExecHdlr(r)
         /\ r.code[1] = "RTS" => ICPU!ExecHdlr(r) = ICPU!RTSExecHdlr(r)
         /\ r.code[1] = "RTI" => ICPU!ExecHdlr(r) = ICPU!RTIExecHdlr(r)
         /\ r.code[1] = "PLA" => ICPU!ExecHdlr(r) = ICPU!PLAExecHdlr(r)
         /\ r.code[1] = "PLP" => ICPU!ExecHdlr(r) = ICPU!PLPExecHdlr(r)
<1>1. /\ r.code[1] = "JSR" => ICPU!ExecHdlr(r) = ICPU!JSRExecHdlr(r)
      /\ r.code[1] = "BRK" => ICPU!ExecHdlr(r) = ICPU!BRKExecHdlr(r)
      /\ r.code[1] = "PHA" => ICPU!ExecHdlr(r) = ICPU!PHAExecHdlr(r)
      /\ r.code[1] = "PHP" => ICPU!ExecHdlr(r) = ICPU!PHPExecHdlr(r)
      /\ r.code[1] = "NOP" => ICPU!ExecHdlr(r) = ICPU!NOPExecHdlr(r)
  BY ZenonT(30) DEF ICPU!ExecHdlr
<1>2. /\ r.code[1] = "RTS" => ICPU!ExecHdlr(r) = ICPU!RTSExecHdlr(r)
      /\ r.code[1] = "RTI" => ICPU!ExecHdlr(r) = ICPU!RTIExecHdlr(r)
      /\ r.code[1] = "PLA" => ICPU!ExecHdlr(r) = ICPU!PLAExecHdlr(r)
      /\ r.code[1] = "PLP" => ICPU!ExecHdlr(r) = ICPU!PLPExecHdlr(r)
  BY ZenonT(30) DEF ICPU!ExecHdlr
<1> QED  BY <1>1, <1>2

\* What the handlers of the instructions that push leave on the stack of r.
LEMMA HandlersPush ==
  ASSUME NEW r, Whole(r), IsByte(r.sp)
  PROVE  LET u == ICPU!ExecHdlr(r)
             w == (r.opcodePC + 2) % 65536
         IN  /\ r.code[1] = "JSR" => AddressOnTop(u, r, w)
             /\ r.code[1] = "BRK" => AllOnTop(u, r, w, Or(r.sr, B))
             /\ r.code[1] = "PHA" => OnTop(u, r, r.a)
             /\ r.code[1] = "PHP" => OnTop(u, r, Or(r.sr, Or(B, B5)))
             /\ r.code[1] = "NOP" => u = r
<1> DEFINE u == ICPU!ExecHdlr(r)
           w == (r.opcodePC + 2) % 65536
           t == ICPU!Touch(r, r.sp)
<1>1. CASE r.code[1] = "JSR"
  <2> DEFINE k == ICPU!pushWord(t, w)
             x == r.opAdr
  <2>1. Retains(t, r) /\ t.opcodePC = r.opcodePC
    BY TouchRetains
  <2>2. u = [k EXCEPT !.pc = x]
    BY <1>1, StackSelects DEF ICPU!JSRExecHdlr
  <2> HIDE DEF t, w
  <2>3. AddressOnTop(k, t, w)
    BY <2>1, AddressPushed DEF Retains
  <2> HIDE DEF k, x
  <2>4. Retains([k EXCEPT !.pc = x], k)
    BY <2>3, TouchRetains DEF AddressOnTop
  <2>5. AddressOnTop(u, r, w)
    BY <2>1, <2>2, <2>3, <2>4, OnTopStill
  <2> QED  BY <1>1, <2>5 DEF w
<1>2. CASE r.code[1] = "BRK"
  <2> DEFINE v == Or(r.sr, B)
             k == ICPU!push(ICPU!pushWord(r, w), v)
  <2>1. u = ICPU!Vector(k, 65534)
    BY <1>2, StackSelects, SharedBits DEF ICPU!BRKExecHdlr, ICPU!B, B
  <2> HIDE DEF w, v
  <2>2. AllOnTop(k, r, w, v)
    BY AddressPushed
  <2> HIDE DEF k
  <2>3. Retains(u, k)
    BY <2>1, <2>2, VectorRetains DEF AllOnTop
  <2>4. AllOnTop(u, r, w, v)
    BY <2>2, <2>3, OnTopStill, RetainsItself
  <2> QED  BY <1>2, <2>4 DEF w, v
<1>3. CASE r.code[1] = "PHA"
  <2>1. u = ICPU!push(r, r.a)
    BY <1>3, StackSelects DEF ICPU!PHAExecHdlr
  <2> QED  BY <1>3, <2>1, PushOnTop
<1>4. CASE r.code[1] = "PHP"
  <2> DEFINE v == Or(r.sr, Or(B, B5))
  <2>1. u = ICPU!push(r, v)
    BY <1>4, StackSelects, SharedBits DEF ICPU!PHPExecHdlr, ICPU!B, B, ICPU!B5, B5
  <2> QED  BY <1>4, <2>1, PushOnTop
<1>5. CASE r.code[1] = "NOP"
  BY <1>5, StackSelects DEF ICPU!NOPExecHdlr
<1> QED  BY <1>1, <1>2, <1>3, <1>4, <1>5

\* What those of the instructions that pull make of the stack of r.
LEMMA HandlersPull ==
  ASSUME NEW r, Whole(r)
  PROVE  LET u == ICPU!ExecHdlr(r)
         IN  /\ r.code[1] = "PLA" => Whole(u) /\ u.a = Pulled(r, 1) /\ u.sp = Byte(r.sp + 1)
             /\ r.code[1] = "PLP" =>
                  Whole(u) /\ u.sr = Restored(r.sr, Pulled(r, 1)) /\ u.sp = Byte(r.sp + 1)
             /\ r.code[1] = "RTS" =>
                  /\ Whole(u) /\ u.sp = Byte(r.sp + 2)
                  /\ u.pc = Past(Word(Pulled(r, 2), Pulled(r, 1)))
             /\ r.code[1] = "RTI" =>
                  /\ Whole(u) /\ u.sr = Restored(r.sr, Pulled(r, 1)) /\ u.sp = Byte(r.sp + 3)
                  /\ u.pc = Word(Pulled(r, 3), Pulled(r, 2))
<1> DEFINE u == ICPU!ExecHdlr(r)
<1>1. \A q, n : ICPU!Top(q, n) = Pulled(q, n)
  BY SharedMemory DEF ICPU!Top, Pulled
<1>2. ASSUME NEW q, Whole(q), NEW n
      PROVE  LET k == ICPU!pull(q, n)
             IN  Whole(k) /\ k.a = q.a /\ k.sr = q.sr /\ k.sp = Byte(q.sp + n) /\ k.pc = q.pc
  BY <1>2, SharedMemory DEF ICPU!pull, Whole, Registers
<1>3. CASE r.code[1] = "PLA"
  <2> DEFINE v == Pulled(r, 1)
             k == ICPU!pull(r, 1)
             s == [k EXCEPT !.a = v]
  <2>1. Whole(k) /\ k.sp = Byte(r.sp + 1)
    BY <1>2
  <2>2. u = ICPU!setNZflags(s, v)
    BY <1>1, <1>3, StackSelects DEF ICPU!PLAExecHdlr, ICPU!LoadA
  <2> HIDE DEF k, v
  <2>3. Whole(s) /\ s.a = v /\ s.sp = k.sp
    BY <2>1 DEF Whole, Registers
  <2> HIDE DEF s
  <2> DEFINE x == NZ(s.sr, v)
  <2>4. u = [s EXCEPT !.sr = x]
    BY <2>2, <2>3, FlagsSet DEF Whole
  <2> HIDE DEF x, u
  <2>5. Whole(u) /\ u.a = s.a /\ u.sp = s.sp
    BY <2>3, <2>4 DEF Whole, Registers
  <2> QED  BY <1>3, <2>1, <2>3, <2>5 DEF v, u
<1>4. CASE r.code[1] = "PLP"
  <2> DEFINE v == Pulled(r, 1)
             k == ICPU!pull(r, 1)
             x == Restored(k.sr, v)
  <2>1. Whole(k) /\ k.sp = Byte(r.sp + 1) /\ k.sr = r.sr
    BY <1>2
  <2>2. u = [k EXCEPT !.sr = x]
    <3>1. u = [k EXCEPT !.sr = ICPU!Restored(@, v)]
      BY <1>1, <1>4, StackSelects DEF ICPU!PLPExecHdlr
    <3> HIDE DEF k, v, u
    <3> QED  BY <2>1, <3>1, SharedBits
  <2>3. x = Restored(r.sr, v)
    BY <2>1
  <2> HIDE DEF k, v, x, u
  <2>4. Whole(u) /\ u.sr = x /\ u.sp = k.sp
    BY <2>1, <2>2 DEF Whole, Registers
  <2> QED  BY <1>4, <2>1, <2>3, <2>4 DEF v, u
<1>5. CASE r.code[1] = "RTS"
  <2> DEFINE t == ICPU!Touch(r, r.sp)
             k == ICPU!pull(t, 2)
             x == Word(Pulled(r, 2), Pulled(r, 1))
             s == [k EXCEPT !.pc = x]
  <2>1. Retains(t, r)
    BY TouchRetains
  <2>2. u = ICPU!PastByte(s)
    BY <1>1, <1>5, StackSelects, SharedMemory DEF ICPU!RTSExecHdlr
  <2> HIDE DEF t
  <2>3. Whole(k) /\ k.sp = Byte(r.sp + 2)
    BY <1>2, <2>1 DEF Retains
  <2> HIDE DEF k, x
  <2>4. Whole(s) /\ s.sp = k.sp /\ s.pc = x
    BY <2>3 DEF Whole, Registers
  <2> HIDE DEF s, u
  <2>5. Whole(u) /\ u.sp = s.sp /\ u.pc = Past(s.pc)
    BY <2>2, <2>4 DEF ICPU!PastByte, ICPU!Touch, Whole, Registers, Past
  <2> QED  BY <1>5, <2>3, <2>4, <2>5 DEF u, x
<1>6. CASE r.code[1] = "RTI"
  <2> DEFINE t == ICPU!Touch(r, r.sp)
             k == ICPU!pull(t, 3)
             v == Pulled(r, 1)
             x == Word(Pulled(r, 3), Pulled(r, 2))
             y == Restored(k.sr, v)
             s == [k EXCEPT !.sr = y]
  <2>1. Retains(t, r)
    BY TouchRetains
  <2>2. u = [k EXCEPT !.sr = ICPU!Restored(@, v), !.pc = x]
    <3>1. u = ICPU!RTIExecHdlr(r)
      BY <1>6, StackSelects
    <3> QED  BY <1>1, <3>1, SharedMemory, Zenon DEF ICPU!RTIExecHdlr
  <2> HIDE DEF t
  <2>3. Whole(k) /\ k.sp = Byte(r.sp + 3) /\ k.sr = r.sr
    BY <1>2, <2>1 DEF Retains
  <2>4. y = Restored(r.sr, v)
    BY <2>3
  <2> HIDE DEF k, x, v
  <2>5. u = [s EXCEPT !.pc = x]
    BY <2>2, <2>3, SharedBits
  <2> HIDE DEF y
  <2>6. Whole(s) /\ s.sp = k.sp /\ s.sr = y
    BY <2>3 DEF Whole, Registers
  <2> HIDE DEF s, u
  <2>7. Whole(u) /\ u.sp = s.sp /\ u.sr = s.sr /\ u.pc = x
    BY <2>5, <2>6 DEF Whole, Registers
  <2> QED  BY <1>6, <2>3, <2>4, <2>6, <2>7 DEF u, x, v
<1> QED  BY <1>3, <1>4, <1>5, <1>6

-----------------------------------------------------------------------------
(* An instruction that saves and one that restores.                        *)

\* Executing one instruction, and starting on the next.
Done1(q, code) == Charged(ICPU!executeInstr(Opened(q, code)), code)
Then(q, code) == Fresh(Done1(q, code))

Implied(i) == <<i, "Implied">>

\* What JSR, BRK, PHA and PHP leave on the stack for the next instruction.
LEMMA Pushing ==
  ASSUME NEW q, Whole(q), IsByte(q.sp), NEW code
  PROVE  LET m == Then(q, code)
             w == (q.opcodePC + 2) % 65536
         IN  /\ code = Implied("BRK") => AllOnTop(m, q, w, Or(q.sr, B))
             /\ code = Implied("PHA") => OnTop(m, q, q.a)
             /\ code = Implied("PHP") => OnTop(m, q, Or(q.sr, Or(B, B5)))
             /\ code = Implied("NOP") => Retains(m, q)
             /\ code = <<"JSR", "Absolute">> /\ Typed(q) => AddressOnTop(m, q, w)
<1> DEFINE w == (q.opcodePC + 2) % 65536
           m == Then(q, code)
           e == ICPU!executeInstr(Opened(q, code))
<1>1. ASSUME NEW u, u = e, Whole(u) PROVE Retains(m, u)
  BY <1>1, FollowingRetains DEF Then, Done1
<1> HIDE DEF m
<1>2. ASSUME code[2] = "Implied" \/ (code = <<"JSR", "Absolute">> /\ Typed(q))
      PROVE  /\ code[1] = "JSR" => AddressOnTop(m, q, w)
             /\ code[1] = "BRK" => AllOnTop(m, q, w, Or(q.sr, B))
             /\ code[1] = "PHA" => OnTop(m, q, q.a)
             /\ code[1] = "PHP" => OnTop(m, q, Or(q.sr, Or(B, B5)))
             /\ code[1] = "NOP" => Retains(m, q)
  <2>1. PICK r : /\ Retains(r, q) /\ r.code = code /\ r.opcodePC = q.opcodePC
                 /\ e = ICPU!ExecHdlr(r)
    <3>1. CASE code[2] = "Implied"
      BY <3>1, ImpliedGiven
    <3>2. CASE code = <<"JSR", "Absolute">> /\ Typed(q)
      <4>1. code[1] = "JSR" /\ code[2] = "Absolute"
        BY <3>2
      <4> QED  BY <3>2, <4>1, CallGiven
    <3> QED  BY <1>2, <3>1, <3>2
  <2> DEFINE u == ICPU!ExecHdlr(r)
  <2>2. Whole(r) /\ r.sp = q.sp /\ r.a = q.a /\ r.sr = q.sr /\ (r.opcodePC + 2) % 65536 = w
    BY <2>1 DEF Retains
  <2>3. /\ r.code[1] = "JSR" => AddressOnTop(u, r, w)
        /\ r.code[1] = "BRK" => AllOnTop(u, r, w, Or(r.sr, B))
        /\ r.code[1] = "PHA" => OnTop(u, r, r.a)
        /\ r.code[1] = "PHP" => OnTop(u, r, Or(r.sr, Or(B, B5)))
        /\ r.code[1] = "NOP" => u = r
    BY <2>2, HandlersPush
  <2> HIDE DEF u, w, e
  <2>4. u = e
    BY <2>1 DEF u
  <2>5. code[1] \in {"JSR", "BRK", "PHA", "PHP", "NOP"} => Retains(m, u)
    <3>1. code[1] \in {"JSR", "BRK", "PHA", "PHP", "NOP"} => Whole(u)
      BY <2>1, <2>2, <2>3 DEF AddressOnTop, AllOnTop, OnTop
    <3> QED  BY <1>1, <2>4, <3>1
  <2>6. /\ code[1] = "JSR" => AddressOnTop(m, q, w)
        /\ code[1] = "BRK" => AllOnTop(m, q, w, Or(q.sr, B))
    BY <2>1, <2>2, <2>3, <2>5, OnTopStill
  <2>7. /\ code[1] = "PHA" => OnTop(m, q, q.a)
        /\ code[1] = "PHP" => OnTop(m, q, Or(q.sr, Or(B, B5)))
    BY <2>1, <2>2, <2>3, <2>5, OnTopStill
  <2>8. code[1] = "NOP" => Retains(m, q)
    BY <2>1, <2>3, <2>5, RetainsOn
  <2> QED  BY <2>6, <2>7, <2>8
<1> HIDE DEF w, e
<1>3. \A i : code = Implied(i) => code[1] = i /\ code[2] = "Implied"
  BY DEF Implied
<1>4. code = <<"JSR", "Absolute">> => code[1] = "JSR"
  OBVIOUS
<1>5. /\ code = Implied("BRK") => AllOnTop(m, q, w, Or(q.sr, B))
      /\ code = Implied("PHA") => OnTop(m, q, q.a)
      /\ code = Implied("PHP") => OnTop(m, q, Or(q.sr, Or(B, B5)))
      /\ code = Implied("NOP") => Retains(m, q)
      /\ code = <<"JSR", "Absolute">> /\ Typed(q) => AddressOnTop(m, q, w)
  BY <1>2, <1>3, <1>4
<1> QED  BY <1>5 DEF m, w

\* What RTS, RTI, PLA and PLP take from it.
LEMMA Pulling ==
  ASSUME NEW m, Whole(m), NEW code
  PROVE  LET n == Done1(m, code)
         IN  /\ code = Implied("PLA") => n.a = Pulled(m, 1) /\ n.sp = Byte(m.sp + 1)
             /\ code = Implied("PLP") =>
                  n.sr = Restored(m.sr, Pulled(m, 1)) /\ n.sp = Byte(m.sp + 1)
             /\ code = Implied("RTS") =>
                  n.sp = Byte(m.sp + 2) /\ n.pc = Past(Word(Pulled(m, 2), Pulled(m, 1)))
             /\ code = Implied("RTI") =>
                  /\ n.sr = Restored(m.sr, Pulled(m, 1)) /\ n.sp = Byte(m.sp + 3)
                  /\ n.pc = Word(Pulled(m, 3), Pulled(m, 2))
<1> DEFINE e == ICPU!executeInstr(Opened(m, code))
           n == Done1(m, code)
<1>1. ASSUME NEW u, u = e, Whole(u)
      PROVE  n.a = u.a /\ n.sr = u.sr /\ n.sp = u.sp /\ n.pc = u.pc
  BY <1>1, ChargedRetains DEF Done1, Retains
<1>2. \A i : code = Implied(i) => code[1] = i /\ code[2] = "Implied"
  BY DEF Implied
<1> HIDE DEF n
<1>3. ASSUME code[2] = "Implied"
      PROVE  /\ code[1] = "PLA" => n.a = Pulled(m, 1) /\ n.sp = Byte(m.sp + 1)
             /\ code[1] = "PLP" =>
                  n.sr = Restored(m.sr, Pulled(m, 1)) /\ n.sp = Byte(m.sp + 1)
             /\ code[1] = "RTS" =>
                  n.sp = Byte(m.sp + 2) /\ n.pc = Past(Word(Pulled(m, 2), Pulled(m, 1)))
             /\ code[1] = "RTI" =>
                  /\ n.sr = Restored(m.sr, Pulled(m, 1)) /\ n.sp = Byte(m.sp + 3)
                  /\ n.pc = Word(Pulled(m, 3), Pulled(m, 2))
  <2>1. PICK r : Retains(r, m) /\ r.code = code /\ e = ICPU!ExecHdlr(r)
    BY <1>3, ImpliedGiven
  <2> DEFINE u == ICPU!ExecHdlr(r)
  <2>2. Whole(r) /\ r.sp = m.sp /\ r.sr = m.sr
    BY <2>1 DEF Retains
  <2>3. Pulled(r, 1) = Pulled(m, 1) /\ Pulled(r, 2) = Pulled(m, 2) /\ Pulled(r, 3) = Pulled(m, 3)
    BY <2>1, RetainsPulled
  <2>4. /\ r.code[1] = "PLA" => Whole(u) /\ u.a = Pulled(r, 1) /\ u.sp = Byte(r.sp + 1)
        /\ r.code[1] = "PLP" =>
             Whole(u) /\ u.sr = Restored(r.sr, Pulled(r, 1)) /\ u.sp = Byte(r.sp + 1)
        /\ r.code[1] = "RTS" =>
             /\ Whole(u) /\ u.sp = Byte(r.sp + 2)
             /\ u.pc = Past(Word(Pulled(r, 2), Pulled(r, 1)))
        /\ r.code[1] = "RTI" =>
             /\ Whole(u) /\ u.sr = Restored(r.sr, Pulled(r, 1)) /\ u.sp = Byte(r.sp + 3)
             /\ u.pc = Word(Pulled(r, 3), Pulled(r, 2))
    BY <2>2, HandlersPull
  <2> HIDE DEF u, e
  <2>5. u = e
    BY <2>1 DEF u
  <2>6. code[1] \in {"PLA", "PLP", "RTS", "RTI"} =>
          n.a = u.a /\ n.sr = u.sr /\ n.sp = u.sp /\ n.pc = u.pc
    BY <1>1, <2>1, <2>4, <2>5
  <2> QED  BY <2>1, <2>2, <2>3, <2>4, <2>6
<1>4. /\ code = Implied("PLA") => n.a = Pulled(m, 1) /\ n.sp = Byte(m.sp + 1)
      /\ code = Implied("PLP") =>
           n.sr = Restored(m.sr, Pulled(m, 1)) /\ n.sp = Byte(m.sp + 1)
      /\ code = Implied("RTS") =>
           n.sp = Byte(m.sp + 2) /\ n.pc = Past(Word(Pulled(m, 2), Pulled(m, 1)))
      /\ code = Implied("RTI") =>
           /\ n.sr = Restored(m.sr, Pulled(m, 1)) /\ n.sp = Byte(m.sp + 3)
           /\ n.pc = Word(Pulled(m, 3), Pulled(m, 2))
  BY <1>2, <1>3
<1> QED  BY <1>4 DEF n

\* The stack pointer comes back.
LEMMA PointerBack ==
  ASSUME NEW sp, IsByte(sp)
  PROVE  /\ Byte(Byte(sp - 1) + 1) = sp /\ Byte(Byte(sp - 2) + 2) = sp
         /\ Byte(Byte(sp - 3) + 3) = sp
<1>1. ASSUME NEW k \in Int PROVE Byte(Byte(sp - k) + k) = sp
  <2> DEFINE m == sp - k
  <2>1. m \in Int /\ m + k = sp /\ sp \in Int
    BY DEF IsByte
  <2> HIDE DEF m
  <2>2. Byte(Byte(m) + k) = Byte(m + k)
    BY <2>1, ByteOfByte
  <2>3. Byte(sp) = sp
    BY <2>1, Wrapped
  <2> QED  BY <2>1, <2>2, <2>3 DEF m
<1> QED  BY <1>1

\* The addresses that are pushed in a test.
LEMMA CodeAddresses ==
  /\ (CodeStart + 2) % 65536 = CodeStart + 2
  /\ Word(Byte((CodeStart + 2) \div 256), Byte(CodeStart + 2)) = CodeStart + 2
  /\ Past(CodeStart + 2) = CodeStart + 3
  /\ Word(Byte(CodeStart \div 256), Byte(CodeStart)) = CodeStart
BY DEF CodeStart, Word, Byte, Past

\* What a test's first two instructions restore when there is no interrupt.
LEMMA RestoresPlainly ==
  ASSUME NEW q, Whole(q), Typed(q), q.opcodePC = CodeStart, NEW first, NEW last,
         NEW n, n = Done1(Then(q, first), last)
  PROVE  /\ first = <<"JSR", "Absolute">> /\ last = Implied("RTS") =>
              n.sp = q.sp /\ n.pc = CodeStart + 3
         /\ first = Implied("BRK") /\ last = Implied("RTI") =>
              n.sp = q.sp /\ n.pc = CodeStart + 2 /\ n.sr = q.sr
         /\ first = Implied("PHA") /\ last = Implied("PLA") => n.sp = q.sp /\ n.a = q.a
         /\ first = Implied("PHP") /\ last = Implied("PLP") => n.sp = q.sp /\ n.sr = q.sr
<1> DEFINE m == Then(q, first)
           w == CodeStart + 2
<1>1. IsByte(q.sp) /\ IsByte(q.sr) /\ (q.opcodePC + 2) % 65536 = w
  BY CodeAddresses DEF Typed
<1>2. /\ first = Implied("BRK") => AllOnTop(m, q, w, Or(q.sr, B))
      /\ first = Implied("PHA") => OnTop(m, q, q.a)
      /\ first = Implied("PHP") => OnTop(m, q, Or(q.sr, Or(B, B5)))
      /\ first = <<"JSR", "Absolute">> => AddressOnTop(m, q, w)
  BY <1>1, Pushing
<1> HIDE DEF m
<1>3. ASSUME Whole(m)
      PROVE  /\ last = Implied("PLA") => n.a = Pulled(m, 1) /\ n.sp = Byte(m.sp + 1)
             /\ last = Implied("PLP") =>
                  n.sr = Restored(m.sr, Pulled(m, 1)) /\ n.sp = Byte(m.sp + 1)
             /\ last = Implied("RTS") =>
                  n.sp = Byte(m.sp + 2) /\ n.pc = Past(Word(Pulled(m, 2), Pulled(m, 1)))
             /\ last = Implied("RTI") =>
                  /\ n.sr = Restored(m.sr, Pulled(m, 1)) /\ n.sp = Byte(m.sp + 3)
                  /\ n.pc = Word(Pulled(m, 3), Pulled(m, 2))
  BY <1>3, Pulling DEF m
<1>4. /\ Word(Byte(w \div 256), Byte(w)) = w /\ Past(w) = CodeStart + 3
  BY CodeAddresses
<1>5. /\ Byte(Byte(q.sp - 1) + 1) = q.sp /\ Byte(Byte(q.sp - 2) + 2) = q.sp
      /\ Byte(Byte(q.sp - 3) + 3) = q.sp
  BY <1>1, PointerBack
<1>6. Restored(q.sr, Or(q.sr, B)) = q.sr /\ Restored(q.sr, Or(q.sr, Or(B, B5))) = q.sr
  BY <1>1, RestoredAgain
<1> HIDE DEF w
<1>7. first = <<"JSR", "Absolute">> /\ last = Implied("RTS") => n.sp = q.sp /\ n.pc = CodeStart + 3
  BY <1>2, <1>3, <1>4, <1>5 DEF AddressOnTop
<1>8. first = Implied("BRK") /\ last = Implied("RTI") => n.sp = q.sp /\ n.pc = w /\ n.sr = q.sr
  BY <1>2, <1>3, <1>4, <1>5, <1>6 DEF AllOnTop
<1>9. first = Implied("PHA") /\ last = Implied("PLA") => n.sp = q.sp /\ n.a = q.a
  BY <1>2, <1>3, <1>5 DEF OnTop
<1>10. first = Implied("PHP") /\ last = Implied("PLP") => n.sp = q.sp /\ n.sr = q.sr
  BY <1>2, <1>3, <1>5, <1>6 DEF OnTop
<1> QED  BY <1>7, <1>8, <1>9, <1>10 DEF w

\* What an interrupt leaves on the stack.
LEMMA ServedSaves ==
  ASSUME NEW q, Whole(q), IsByte(q.sp), IsByte(q.sr), ~ Flag(q.sr, B), NEW request,
         request = "IRQ" \/ request = "NMI", Enabled(q, request)
  PROVE  LET h == ICPU!Served(q, request)
         IN  /\ Whole(h) /\ h.a = q.a /\ h.sp = Byte(q.sp - 3) /\ h.sr = Disabled(q.sr)
             /\ Pulled(h, 1) = q.sr /\ Pulled(h, 2) = Byte(q.pc)
             /\ Pulled(h, 3) = Byte(q.pc \div 256)
<1> DEFINE v == q.sr
           w == q.pc
           k == Saved(q, v)
           x == Disabled(v)
           t == [k EXCEPT !.sr = x]
           z == ICPU!Vector(t, VectorAt(request))
           h == ICPU!tick(z, 7)
<1>1. AllOnTop(k, q, w, v)
  BY AddressPushed DEF Saved
<1>2. k.sr = v /\ SetFlag(v, B, FALSE) = v
  BY <1>1, DisabledIsByte DEF AllOnTop
<1>3. ICPU!Served(q, request) = h
  <2>1. Serves(q, v, request)
    <3> HIDE DEF k
    <3>1. Saved(q, v).sr = v
      BY <1>2 DEF k
    <3> QED  BY <1>2, <3>1, ServedAs
  <2> QED  BY <2>1 DEF Serves
<1> HIDE DEF k, x
<1>4. /\ Whole(t) /\ t.sr = x /\ t.a = k.a /\ t.sp = k.sp /\ t.ram = k.ram
      /\ t.b1 = k.b1 /\ t.b2 = k.b2 /\ t.seed = k.seed
  BY <1>1 DEF AllOnTop, Whole, Registers
<1> HIDE DEF t
<1>5. Pulled(t, 1) = Pulled(k, 1) /\ Pulled(t, 2) = Pulled(k, 2) /\ Pulled(t, 3) = Pulled(k, 3)
  BY <1>4, ContentSame DEF Pulled
<1>6. Retains(z, t)
  BY <1>4, VectorRetains
<1> HIDE DEF z
<1>7. Retains(h, z)
  <2>1. Whole(z)
    BY <1>6 DEF Retains
  <2> QED  BY <2>1, TouchRetains
<1> HIDE DEF h
<1>8. Retains(h, t)
  BY <1>6, <1>7, RetainsOn
<1>9. Pulled(h, 1) = Pulled(t, 1) /\ Pulled(h, 2) = Pulled(t, 2) /\ Pulled(h, 3) = Pulled(t, 3)
  BY <1>8, RetainsPulled
<1>10. Whole(h) /\ h.a = q.a /\ h.sp = Byte(q.sp - 3) /\ h.sr = x
  BY <1>1, <1>4, <1>8 DEF Retains, AllOnTop
<1> QED  BY <1>1, <1>3, <1>5, <1>9, <1>10 DEF AllOnTop, x

\* What the first two instructions of an interrupt handler restore.
LEMMA RestoresInHandler ==
  ASSUME NEW q, Whole(q), IsByte(q.sp), IsByte(q.sr), ~ Flag(q.sr, B), q.pc = CodeStart,
         NEW request, request = "IRQ" \/ request = "NMI", Enabled(q, request),
         NEW first, NEW last, NEW n, n = Done1(Then(ICPU!Served(q, request), first), last)
  PROVE  /\ first = Implied("PHA") /\ last = Implied("PLA") => n.a = q.a
         /\ first = Implied("NOP") /\ last = Implied("RTI") =>
              n.sp = q.sp /\ n.pc = CodeStart /\ n.sr = q.sr
<1> DEFINE h == ICPU!Served(q, request)
           m == Then(h, first)
<1>1. /\ Whole(h) /\ h.a = q.a /\ h.sp = Byte(q.sp - 3) /\ h.sr = Disabled(q.sr)
      /\ Pulled(h, 1) = q.sr /\ Pulled(h, 2) = Byte(CodeStart)
      /\ Pulled(h, 3) = Byte(CodeStart \div 256)
  BY ServedSaves
<1> HIDE DEF h
<1>2. IsByte(h.sp)
  <2>1. q.sp - 3 \in Int
    BY DEF IsByte
  <2> QED  BY <1>1, <2>1, Wrapped
<1>3. /\ first = Implied("PHA") => OnTop(m, h, h.a)
      /\ first = Implied("NOP") => Retains(m, h)
  BY <1>1, <1>2, Pushing
<1> HIDE DEF m
<1>4. ASSUME Whole(m)
      PROVE  /\ last = Implied("PLA") => n.a = Pulled(m, 1)
             /\ last = Implied("RTI") =>
                  /\ n.sr = Restored(m.sr, Pulled(m, 1)) /\ n.sp = Byte(m.sp + 3)
                  /\ n.pc = Word(Pulled(m, 3), Pulled(m, 2))
  BY <1>4, Pulling DEF m, h
<1>5. first = Implied("PHA") /\ last = Implied("PLA") => n.a = q.a
  BY <1>1, <1>3, <1>4 DEF OnTop
<1>6. first = Implied("NOP") /\ last = Implied("RTI") =>
        n.sp = q.sp /\ n.pc = CodeStart /\ n.sr = q.sr
  <2>1. Byte(Byte(q.sp - 3) + 3) = q.sp /\ Restored(Disabled(q.sr), q.sr) = q.sr
    BY PointerBack, RestoredEnabled
  <2>2. Word(Byte(CodeStart \div 256), Byte(CodeStart)) = CodeStart
    BY CodeAddresses
  <2>3. first = Implied("NOP") =>
          /\ Whole(m) /\ m.sp = h.sp /\ m.sr = h.sr /\ Pulled(m, 1) = Pulled(h, 1)
          /\ Pulled(m, 2) = Pulled(h, 2) /\ Pulled(m, 3) = Pulled(h, 3)
    BY <1>3, RetainsPulled DEF Retains
  <2> QED  BY <1>1, <1>4, <2>1, <2>2, <2>3
<1> QED  BY <1>5, <1>6

-----------------------------------------------------------------------------
(* The property of what is saved and restored.                             *)

\* The only way in which the table has these instructions.
LEMMA OnlyMode ==
  ASSUME NEW o \in Opcodes
  PROVE  /\ o[1] = "JSR" => o = <<"JSR", "Absolute">>
         /\ \A i \in {"RTS", "BRK", "RTI", "PHA", "PLA", "PHP", "PLP", "NOP"} :
              o[1] = i => o = Implied(i)
<1>1. o[2] \in ModesOf(o[1]) /\ o = <<o[1], o[2]>>
  BY Opcode
<1>2. ModesOf("JSR") = {"Absolute"}
  BY DEF ModesOf, Branches, Reads, Combined, Stores, Shifts, Counts, FullModes, ByteImmediates,
     OneByte
<1>3. \A i \in {"RTS", "BRK", "RTI", "PHA", "PLA", "PHP", "PLP", "NOP"} : ModesOf(i) = {"Implied"}
  BY DEF ModesOf, Branches, Reads, Combined, Stores, Shifts, Counts, FullModes, ByteImmediates,
     OneByte
<1>4. o[1] = "JSR" => o = <<"JSR", "Absolute">>
  BY <1>1, <1>2
<1>5. ASSUME NEW i \in {"RTS", "BRK", "RTI", "PHA", "PLA", "PHP", "PLP", "NOP"}, o[1] = i
      PROVE  o = Implied(i)
  <2>1. o[2] = "Implied"
    BY <1>1, <1>3, <1>5
  <2> QED  BY <1>1, <1>5, <2>1 DEF Implied
<1> QED  BY <1>4, <1>5

\* The two instructions in the instruction-accurate processor.
LEMMA TwoInstructions ==
  ASSUME IInv, Compared, run.count = 2
  PROVE  LET q == InstructionAccurate(run.old)
             h == ICPU!Served(q, run.old.request)
         IN  ic = Done1(Then(h, run.first), run.code) /\ (~ Entered => h = q)
<1> DEFINE q == InstructionAccurate(run.old)
           request == run.old.request
           h == ICPU!Served(q, request)
           m == Fresh(First)
<1>1. run.old \in Tests /\ ic = After(m, run.code, "none")
  BY DEF IInv, History, Recorded
<1>2. q.sr = run.old.sr /\ request \in {"none", "IRQ", "NMI"}
  BY <1>1, TestHolds
<1>3. First = After(q, run.first, request)
  BY DEF First
<1> HIDE DEF q, request
<1>4. ~ Entered => h = q
  <2>1. ~ Entered => request = "none" \/ (request = "IRQ" /\ Flag(q.sr, I))
    BY <1>2 DEF Entered, request
  <2> QED  BY <2>1, NotServed
<1>5. First = Charged(ICPU!executeInstr(Opened(h, run.first)), run.first)
  BY <1>3, AfterIs
<1>6. m = Then(h, run.first)
  BY <1>5 DEF Then, Done1
<1> HIDE DEF h, m
<1>7. ICPU!Served(m, "none") = m
  BY NotServed
<1>8. ic = Charged(ICPU!executeInstr(Opened(m, run.code)), run.code)
  BY <1>1, <1>7, AfterIs
<1> QED  BY <1>4, <1>6, <1>8 DEF Done1, h, q, request

\* Nothing that the two processors do differently is in the way of restoring.
LEMMA RestoringAgrees ==
  ASSUME IInv, Compared, run.code[2] = "Implied",
         ~ Entered \/ (run.first[2] = "Implied" /\ run.first[1] # "BRK"),
         run.code[1] \in {"RTS", "RTI", "PLA", "PLP"}
  PROVE  cc.a = ic.a /\ cc.sr = ic.sr /\ cc.sp = ic.sp /\ cc.adr = ic.pc
<1>1. run.first[2] = "Implied" => run.first[1] \notin Branches \cup {"JSR"}
  <2>1. run.first[2] \in ModesOf(run.first[1])
    BY Opcode DEF IInv, History
  <2>2. ModesOf("JSR") = {"Absolute"}
    BY DEF ModesOf, Branches, Reads, Combined, Stores, Shifts, Counts, FullModes, ByteImmediates,
       OneByte
  <2>3. \A i \in Branches : ModesOf(i) = {"Relative"}
    BY DEF ModesOf, Branches, Reads, Combined, Stores, Shifts, Counts, FullModes, ByteImmediates,
       OneByte
  <2> QED  BY <2>1, <2>2, <2>3
<1>2. ~ Known
  BY <1>1 DEF Known, MarkedWrongly, OperandOnStack, StaleOpcodePC
<1>3. ~ ModifiesElsewhere
  BY DEF ModifiesElsewhere, WritesMem, NoMemory
<1>4. Agree(cc, ic) /\ cc.adr = ic.pc
  BY <1>2, <1>3, Agreement
<1> QED  BY <1>4 DEF Agree

\* What a call, BRK, an interrupt or a push saved is what the instruction that matches it
\* restores, in both processors: the stack pointer, the status register and the address or
\* the register, for any stack pointer and any content of memory.
THEOREM SavedIsRestored == Spec => []Returns
<1>1. IInv => Returns
  <2> SUFFICES ASSUME IInv, Compared, run.count = 2
               PROVE  /\ Restores(Outcome(cc), cc.adr, run.first[1], run.code[1])
                      /\ Restores(Outcome(ic), ic.pc, run.first[1], run.code[1])
    BY DEF Returns
  <2> DEFINE first == run.first
             last == run.code
             t == run.old
             q == InstructionAccurate(t)
             h == ICPU!Served(q, t.request)
             Right(s, next) == Restores(s, next, first[1], last[1])
             Matched == \/ first = <<"JSR", "Absolute">> /\ last = Implied("RTS") /\ ~ Entered
                        \/ first = Implied("BRK") /\ last = Implied("RTI") /\ ~ Entered
                        \/ first = Implied("PHA") /\ last = Implied("PLA")
                        \/ first = Implied("PHP") /\ last = Implied("PLP") /\ ~ Entered
                        \/ first = Implied("NOP") /\ last = Implied("RTI") /\ Entered
  <2>1. /\ first \in Opcodes /\ last \in Opcodes /\ t \in Tests
    BY DEF IInv, History
  <2>2. ~ Matched => \A s, next : Right(s, next)
    <3> HIDE DEF first, last
    <3>1. /\ first[1] = "JSR" => first = <<"JSR", "Absolute">>
          /\ first[1] = "BRK" => first = Implied("BRK")
          /\ first[1] = "PHA" => first = Implied("PHA")
          /\ first[1] = "PHP" => first = Implied("PHP")
          /\ first[1] = "NOP" => first = Implied("NOP")
          /\ last[1] = "RTS" => last = Implied("RTS")
          /\ last[1] = "RTI" => last = Implied("RTI")
          /\ last[1] = "PLA" => last = Implied("PLA")
          /\ last[1] = "PLP" => last = Implied("PLP")
      BY <2>1, OnlyMode
    <3> QED  BY <3>1 DEF Restores, Saves
  <2>3. ASSUME Matched
        PROVE  cc.a = ic.a /\ cc.sr = ic.sr /\ cc.sp = ic.sp /\ cc.adr = ic.pc
    <3>1. last[2] = "Implied" /\ last[1] \in {"RTS", "RTI", "PLA", "PLP"}
      BY <2>3 DEF Implied
    <3>2. ~ Entered \/ (first[2] = "Implied" /\ first[1] # "BRK")
      BY <2>3 DEF Implied
    <3> QED  BY <3>1, <3>2, RestoringAgrees
  <2>4. ASSUME Matched
        PROVE  \A s : s.a = ic.a /\ s.sr = ic.sr /\ s.sp = ic.sp => Right(s, ic.pc)
    <3>1. /\ Whole(q) /\ Typed(q) /\ q.pc = CodeStart /\ q.opcodePC = CodeStart
          /\ q.a = t.a /\ q.sp = t.sp /\ q.sr = t.sr /\ IsByte(t.sp) /\ IsByte(t.sr)
          /\ ~ Flag(t.sr, B)
      BY <2>1, TestHolds
    <3>2. ic = Done1(Then(h, first), last) /\ (~ Entered => h = q)
      BY TwoInstructions
    <3> HIDE DEF first, last, h, q
    <3>3. CASE ~ Entered
      <4>1. ic = Done1(Then(q, first), last)
        BY <3>2, <3>3
      <4>2. /\ first = <<"JSR", "Absolute">> /\ last = Implied("RTS") =>
                 ic.sp = q.sp /\ ic.pc = CodeStart + 3
            /\ first = Implied("BRK") /\ last = Implied("RTI") =>
                 ic.sp = q.sp /\ ic.pc = CodeStart + 2 /\ ic.sr = q.sr
            /\ first = Implied("PHA") /\ last = Implied("PLA") => ic.sp = q.sp /\ ic.a = q.a
            /\ first = Implied("PHP") /\ last = Implied("PLP") => ic.sp = q.sp /\ ic.sr = q.sr
        BY <3>1, <4>1, RestoresPlainly
      <4> QED  BY <2>4, <3>1, <3>3, <4>2 DEF Restores, Saves, Implied
    <3>4. CASE Entered
      <4>1. (t.request = "IRQ" \/ t.request = "NMI") /\ Enabled(q, t.request)
        BY <3>1, <3>4 DEF Entered, Enabled
      <4>2. /\ first = Implied("PHA") /\ last = Implied("PLA") => ic.a = q.a
            /\ first = Implied("NOP") /\ last = Implied("RTI") =>
                 ic.sp = q.sp /\ ic.pc = CodeStart /\ ic.sr = q.sr
        <5> DEFINE r == t.request
        <5>1. IsByte(q.sp) /\ IsByte(q.sr) /\ ~ Flag(q.sr, B)
          BY <3>1
        <5>2. ic = Done1(Then(ICPU!Served(q, r), first), last) /\ Enabled(q, r)
              /\ (r = "IRQ" \/ r = "NMI")
          BY <3>2, <4>1 DEF h
        <5> HIDE DEF r
        <5> QED  BY <3>1, <5>1, <5>2, RestoresInHandler
      <4> QED  BY <2>4, <3>1, <3>4, <4>2 DEF Restores, Saves, Implied
    <3> QED  BY <3>3, <3>4
  <2>5. ASSUME Matched PROVE Right(Outcome(cc), cc.adr) /\ Right(Outcome(ic), ic.pc)
    <3>1. /\ Outcome(cc).a = ic.a /\ Outcome(cc).sr = ic.sr /\ Outcome(cc).sp = ic.sp
          /\ Outcome(ic).a = ic.a /\ Outcome(ic).sr = ic.sr /\ Outcome(ic).sp = ic.sp
          /\ cc.adr = ic.pc
      BY <2>3, <2>5 DEF Outcome
    <3> HIDE DEF Right, Matched
    <3>2. Right(Outcome(cc), ic.pc) /\ Right(Outcome(ic), ic.pc)
      BY <2>4, <2>5, <3>1
    <3> QED  BY <3>1, <3>2
  <2> HIDE DEF Matched
  <2> QED  BY <2>2, <2>5
<1> QED  BY Invariance, <1>1, PTL

=============================================================================

------------------------------ MODULE CPUProofs ------------------------------
(***************************************************************************)
(* Proofs about the 6502 emulated cycle by cycle: for every ratio of the   *)
(* clocks, every program and every movement of the pins, interrupts come   *)
(* before the next instruction, save the right address, and instructions   *)
(* take the cycles and make the writes they should.                        *)
(***************************************************************************)
EXTENDS CPUProperties, TLAPS

\* The numbers of micro cycles and addresses the handlers count with.
LEMMA Counters ==
  /\ \A n \in MicroCycles : n \in Int /\ (n # 7 => n + 1 \in MicroCycles)
  /\ \A n \in {0, 1, 2, 3, 4, 5, 6, 7} : n \in MicroCycles
  /\ \A n \in {0, 1, 2, 3} : n \in Distances
  BY DEF MicroCycles, Distances

-----------------------------------------------------------------------------
(* What a micro cycle does.                                                *)

\* The pins seen, the requests and the instruction are as they were.
Keeps(s, t) ==
  /\ t.pRESET = s.pRESET /\ t.pNMI = s.pNMI /\ t.instr = s.instr
  /\ t.pendingNMI = s.pendingNMI /\ t.pendingIRQ = s.pendingIRQ /\ t.inter = s.inter

\* The instruction is over and the next opcode is read.
Fetches(s, t) ==
  /\ t \in CpuType /\ Keeps(s, t)
  /\ t.exec = "FETCH_OPCODE" /\ t.rw = "read" /\ t.at = "opcode" /\ t.pc = 1
  /\ t.op = s.op /\ t.ex = s.ex

\* The writes of an instruction from its start to its end.
Total(instr) == CASE instr = "STA" -> 1 [] instr = "INC" -> 2 [] instr = "BRK" -> 3 [] OTHER -> 0

\* The machine stands where it may, an instruction that is over has been charged its
\* cycles and has made its writes, and no request is lost.
Moved(s, t) ==
  /\ t \in CpuType /\ MicroState(t) /\ PendingInv(t)
  /\ t.pRESET = s.pRESET /\ t.pNMI = s.pNMI
  /\ s.pendingNMI => t.pendingNMI \/ s.exec = "IN_NMI"
  /\ t.exec \in Sequences \cup {"IN_RESET"} => s.exec = t.exec
  /\ s.exec \in Sequences => t.exec = s.exec \/ (t.exec = "FETCH_OPCODE" /\ s.ex = 6)
  /\ s.exec = "IN_RESET" => t.exec = s.exec \/ (t.exec = "FETCH_OPCODE" /\ s.op = 6)
  /\ t.exec = "IN_RESET" => t.rw = "read" /\ (s.op = 0 => t.op = 1)
  /\ s.exec = "FETCH_OPCODE" => t.exec # "FETCH_OPCODE"
  /\ t.exec = "FETCH_OPCODE" => Charged(t) = DocumentedCycles[s.instr]
  /\ s.exec # "IN_RESET" =>
       WritesSoFar(s) + (IF s.rw = "write" THEN 1 ELSE 0)
         = IF t.exec = "FETCH_OPCODE" THEN Total(s.instr) ELSE WritesSoFar(t)

\* initFetch() prepares a read where the program counter is.
LEMMA InitFetchShape ==
  ASSUME NEW s \in CpuType
  PROVE  Fetches(s, InitFetch(s))
<1> DEFINE phase == (s.phase + (s.op + s.ex)) % AccessRatio
<1>1. phase \in Phases
  <2>1. s.phase + (s.op + s.ex) \in Int /\ AccessRatio \in Nat \ {0}
    BY CPUAssumption DEF CpuType, Phases, MicroCycles
  <2> QED
    BY <2>1 DEF Phases
<1> HIDE DEF phase
<1>2. InitFetch(s) = [s EXCEPT !.rw = "read", !.at = "opcode", !.exec = "FETCH_OPCODE",
                               !.phase = phase, !.pc = 1]
  BY DEF InitFetch, ReadFrom, Charged, phase, CpuType
<1> QED
  BY <1>1, <1>2, Counters DEF CpuType, States, Places, Fetches, Keeps

\* Preparing an access changes the bus only.
Prepares(s, t, what) ==
  /\ t \in CpuType /\ Keeps(s, t) /\ t.at = what
  /\ t.exec = s.exec /\ t.op = s.op /\ t.ex = s.ex /\ t.pc = s.pc /\ t.iFlag = s.iFlag

\* A read or a write is prepared, and nothing else changes.
LEMMA BusShape ==
  ASSUME NEW s \in CpuType, NEW what \in Places
  PROVE  /\ Prepares(s, ReadFrom(s, what), what) /\ ReadFrom(s, what).rw = "read"
         /\ Prepares(s, WriteTo(s, what), what) /\ WriteTo(s, what).rw = "write"
  BY DEF Prepares, Keeps, ReadFrom, WriteTo, CpuType

\* So does setting the I flag.
Flags(s, t) ==
  /\ t \in CpuType /\ Keeps(s, t) /\ t.at = s.at /\ t.rw = s.rw
  /\ t.exec = s.exec /\ t.op = s.op /\ t.ex = s.ex /\ t.pc = s.pc

\* Setting I changes nothing else.
LEMMA FlagShape ==
  ASSUME NEW s \in CpuType, NEW flag \in BOOLEAN
  PROVE  Flags(s, [s EXCEPT !.iFlag = flag])
  BY DEF Flags, Keeps, CpuType

\* RESET.
LEMMA ResetMoves ==
  ASSUME NEW s \in CpuType, s.exec = "IN_RESET", MicroState(s), PendingInv(s)
  PROVE  Moved(s, ResetHdlr(s))
<1> DEFINE t == [s EXCEPT !.op = @ + 1]
           r == ResetHdlr(s)
<1>1. s.op \in {0, 1, 2, 3, 4, 5, 6} /\ s.op + 1 \in MicroCycles /\ s.instr = "BRK" /\ s.ex = 0
  BY Counters DEF CpuType, MicroState, MicroCycles
<1>2. t \in CpuType /\ Keeps(s, t) /\ t.op = s.op + 1 /\ t.ex = 0 /\ t.exec = "IN_RESET"
  BY <1>1 DEF CpuType, Keeps
<1>3. CASE s.op = 6
  <2>1. r = InitFetch(t)
    BY <1>3 DEF ResetHdlr
  <2> HIDE DEF t, r
  <2>2. Fetches(t, r)
    BY <1>2, <2>1, InitFetchShape
  <2>3. Charged(r) = 7 /\ DocumentedCycles["BRK"] = 7
    BY <1>2, <1>3, <2>2 DEF Fetches, Charged, DocumentedCycles, Instructions
  <2>4. MicroState(r) /\ PendingInv(r) /\ Keeps(s, r)
    BY <1>2, <2>2 DEF Fetches, Keeps, MicroState, PendingInv, Sequences
  <2> QED
    BY <1>1, <1>3, <2>2, <2>3, <2>4 DEF Fetches, Keeps, Moved, Sequences, r
<1>4. CASE s.op # 6
  <2>1. PICK at \in {"stack", "vector"} : r = [t EXCEPT !.rw = "read", !.at = at]
    BY <1>1, <1>4 DEF ResetHdlr, ReadFrom, CpuType
  <2> HIDE DEF t, r
  <2>2. r \in CpuType /\ Keeps(s, r) /\ r.op = s.op + 1 /\ r.ex = 0 /\ r.exec = "IN_RESET" /\ r.rw = "read"
    BY <1>2, <2>1 DEF CpuType, Places, Keeps
  <2>3. r.op # 7
    BY <1>1, <1>4, <2>2
  <2> QED
    BY <1>1, <2>2, <2>3 DEF Keeps, Moved, MicroState, PendingInv, Sequences, r
<1> QED
  BY <1>3, <1>4

\* BRK and the sequences, cycle by cycle: the counter of a sequence is the cycle, BRK leaves
\* out the first one.
LEMMA BRKCycles ==
  ASSUME NEW s \in CpuType, s.ex \in {0, 1, 2, 3, 4, 5, 6}, s.op \in {0, 1}, s.instr = "BRK",
         s.inter = "none" => s.ex # 1,
         s.pc = IF s.ex = 0 THEN 1 ELSE IF s.inter = "none" THEN 2 ELSE 0,
         NEW r, r = BRKExecHdlr(s)
  PROVE  /\ r \in CpuType /\ r.pRESET = s.pRESET /\ r.pNMI = s.pNMI /\ r.instr = s.instr
         /\ s.ex # 6 =>
              /\ Keeps(s, r) /\ r.exec = s.exec /\ r.op = s.op
              /\ r.ex = (IF s.ex = 0 /\ s.inter = "none" THEN 2 ELSE s.ex + 1)
              /\ r.pc = (IF s.inter = "none" THEN 2 ELSE 0)
              /\ r.rw = IF r.ex \in {2, 3, 4} THEN "write" ELSE "read"
         /\ s.ex = 6 =>
              /\ r.exec = "FETCH_OPCODE" /\ r.at = "opcode" /\ r.rw = "read" /\ r.pc = 1
              /\ r.op = s.op /\ r.ex = (IF s.inter = "none" THEN 6 ELSE 7) /\ r.inter = "none"
              /\ s.inter # "NMI" => r.pendingNMI = s.pendingNMI
              /\ s.inter # "IRQ" => r.pendingIRQ = s.pendingIRQ
<1> DEFINE brk == s.inter = "none"
           cycle == IF s.ex = 0 /\ brk THEN 1 ELSE s.ex
           next == cycle + 1
           pc == IF s.ex = 0 /\ brk THEN s.pc + 1 ELSE s.pc
           t == [s EXCEPT !.ex = next, !.pc = pc]
           nmi == t.pendingNMI /\ s.inter # "NMI"
           irq == t.pendingIRQ /\ s.inter # "IRQ"
           total == IF brk THEN t.ex - 1 ELSE t.ex
           u == [t EXCEPT !.pendingIRQ = irq, !.pendingNMI = nmi, !.ex = total, !.inter = "none"]
           code == ReadFrom(t, "code")
           vector == ReadFrom(t, "vector")
           flag == vector.iFlag \/ ~brk
           back == code.pc - 1
<1>1. /\ cycle \in {0, 1, 2, 3, 4, 5, 6} /\ next = cycle + 1 /\ next \in MicroCycles
      /\ cycle = 0 => s.ex = 0 /\ ~brk
      /\ cycle # 0 => next = IF s.ex = 0 /\ brk THEN 2 ELSE s.ex + 1
      /\ cycle = 6 <=> s.ex = 6
      /\ pc \in {0, 1, 2} /\ (cycle # 0 => pc = IF brk THEN 2 ELSE 0) /\ (cycle = 0 => pc = 1)
  BY DEF MicroCycles
<1>2. /\ cycle = 0 => r = [code EXCEPT !.pc = back]
      /\ cycle \in {1, 2, 3} => r = WriteTo(t, "stack")
      /\ cycle = 4 => r = [vector EXCEPT !.iFlag = flag]
      /\ cycle = 5 => r = vector
      /\ cycle = 6 => r = InitFetch(u)
  BY DEF BRKExecHdlr
<1> HIDE DEF cycle, next, pc
<1>3. t \in CpuType /\ Keeps(s, t) /\ t.ex = next /\ t.exec = s.exec /\ t.op = s.op /\ t.pc = pc
  BY <1>1, Counters DEF CpuType, Keeps
<1> HIDE DEF t
<1>4. /\ Prepares(t, code, "code") /\ code.rw = "read"
      /\ Prepares(t, vector, "vector") /\ vector.rw = "read"
      /\ Prepares(t, WriteTo(t, "stack"), "stack") /\ WriteTo(t, "stack").rw = "write"
  BY <1>3, BusShape DEF Places
<1> HIDE DEF code, vector
<1>5. CASE cycle = 6
  <2>1. /\ nmi \in BOOLEAN /\ (s.inter # "NMI" => nmi = s.pendingNMI)
        /\ irq \in BOOLEAN /\ (s.inter # "IRQ" => irq = s.pendingIRQ)
    BY <1>3 DEF Keeps, CpuType
  <2>2. total \in MicroCycles /\ total = IF brk THEN 6 ELSE 7
    <3>1. t.ex = 7 /\ 7 - 1 = 6 /\ 6 \in MicroCycles /\ 7 \in MicroCycles
      BY <1>1, <1>3, <1>5 DEF MicroCycles
    <3> QED
      BY <3>1
  <2> HIDE DEF nmi, irq, total
  <2>3. /\ u \in CpuType /\ u.pRESET = t.pRESET /\ u.pNMI = t.pNMI /\ u.instr = t.instr /\ u.op = t.op
        /\ u.ex = total /\ u.inter = "none" /\ u.pendingNMI = nmi /\ u.pendingIRQ = irq
    <3>1. t \in CpuType /\ total \in MicroCycles /\ nmi \in BOOLEAN /\ irq \in BOOLEAN
      BY <1>3, <2>1, <2>2
    <3> QED
      BY ONLY <3>1 DEF CpuType, u
  <2> HIDE DEF u
  <2>4. Fetches(u, r)
    BY <1>2, <1>5, <2>3, InitFetchShape
  <2> QED
    BY <1>1, <1>3, <1>5, <2>1, <2>2, <2>3, <2>4 DEF Fetches, Keeps
<1>6. CASE cycle = 0
  <2>1. back = 0 /\ 0 \in Distances
    BY <1>1, <1>3, <1>4, <1>6, Counters DEF Prepares
  <2>2. r = [code EXCEPT !.pc = 0] /\ code \in CpuType
    BY <1>2, <1>4, <1>6, <2>1 DEF Prepares
  <2>3. /\ r \in CpuType /\ Keeps(code, r) /\ r.exec = code.exec /\ r.op = code.op
        /\ r.ex = code.ex /\ r.pc = 0 /\ r.rw = code.rw
    BY ONLY <2>1, <2>2 DEF CpuType, Keeps
  <2>4. next = 1 /\ s.ex = 0 /\ ~brk
    BY <1>1, <1>6
  <2> QED
    BY <1>3, <1>4, <2>3, <2>4 DEF Keeps, Prepares
<1>7. CASE cycle \in {1, 2, 3, 4, 5}
  <2>1. /\ r \in CpuType /\ Keeps(t, r) /\ r.exec = t.exec /\ r.op = t.op /\ r.ex = t.ex /\ r.pc = t.pc
        /\ r.rw = IF cycle \in {1, 2, 3} THEN "write" ELSE "read"
    <3>1. CASE cycle \in {1, 2, 3}
      BY <1>2, <1>4, <3>1 DEF Prepares
    <3>2. CASE cycle = 5
      BY <1>2, <1>4, <3>2 DEF Prepares
    <3>3. CASE cycle = 4
      <4>1. flag \in BOOLEAN /\ vector \in CpuType /\ r = [vector EXCEPT !.iFlag = flag]
        BY <1>2, <1>4, <3>3 DEF Prepares, CpuType
      <4>2. Flags(vector, r)
        BY ONLY <4>1, FlagShape
      <4> QED
        BY <1>4, <3>3, <4>2 DEF Flags, Prepares, Keeps
    <3> QED
      BY <1>7, <3>1, <3>2, <3>3
  <2>2. s.ex # 6 /\ cycle # 0
    BY <1>1, <1>7
  <2>3. next \in {2, 3, 4} <=> cycle \in {1, 2, 3}
    BY <1>1, <1>7
  <2> QED
    BY <1>1, <1>3, <2>1, <2>2, <2>3 DEF Keeps
<1> QED
  BY <1>1, <1>5, <1>6, <1>7

-----------------------------------------------------------------------------
(* Interrupt sequences.                                                    *)

\* The writes made so far, cycle by cycle.
LEMMA WritesByCycle ==
  ASSUME NEW s \in CpuType
  PROVE  /\ s.exec \in Sequences \cup {"EXECUTE"} /\ s.instr = "BRK" =>
              /\ s.ex \in {0, 1, 2} => WritesSoFar(s) = 0
              /\ s.ex = 3 => WritesSoFar(s) = 1
              /\ s.ex = 4 => WritesSoFar(s) = 2
              /\ s.ex \in {5, 6} => WritesSoFar(s) = 3
         /\ s.exec = "EXECUTE" /\ s.instr = "INC" =>
              /\ s.ex \in {0, 1} => WritesSoFar(s) = 0
              /\ s.ex = 2 => WritesSoFar(s) = 1
         /\ s.exec = "EXECUTE" /\ s.instr \notin {"BRK", "INC"} => WritesSoFar(s) = 0
         /\ s.exec \notin Sequences \cup {"EXECUTE"} => WritesSoFar(s) = 0
  BY DEF WritesSoFar, Sequences

\* The cycles of the table.
LEMMA Documented ==
  /\ \A i \in {"NOP", "LDI", "CLI", "SEI"} : DocumentedCycles[i] = 2
  /\ \A i \in {"LDA", "STA", "PLP"} : DocumentedCycles[i] = 4
  /\ \A i \in {"INC", "RTI"} : DocumentedCycles[i] = 6
  /\ DocumentedCycles["BRK"] = 7
  BY DEF DocumentedCycles, Instructions

\* IRQ and NMI.
LEMMA SequenceMoves ==
  ASSUME NEW s \in CpuType, s.exec \in Sequences, MicroState(s), PendingInv(s),
         NEW kind, kind = (IF s.exec = "IN_NMI" THEN "NMI" ELSE "IRQ"),
         NEW r, r = BRKExecHdlr([s EXCEPT !.inter = kind])
  PROVE  Moved(s, r)
<1> DEFINE v == [s EXCEPT !.inter = kind]
<1>1. /\ v \in CpuType /\ v.pRESET = s.pRESET /\ v.pNMI = s.pNMI /\ v.instr = s.instr
      /\ v.pendingNMI = s.pendingNMI /\ v.pendingIRQ = s.pendingIRQ /\ v.inter = kind
      /\ v.exec = s.exec /\ v.op = s.op /\ v.ex = s.ex /\ v.pc = s.pc /\ v.rw = s.rw
  <2>1. kind \in {"none", "NMI", "IRQ"}
    OBVIOUS
  <2> QED
    BY <2>1 DEF CpuType
<1>2. r = BRKExecHdlr(v)
  OBVIOUS
<1> HIDE DEF v
<1>3. /\ s.ex \in {0, 1, 2, 3, 4, 5, 6} /\ s.op = 0 /\ s.instr = "BRK" /\ kind # "none"
      /\ s.pc = (IF s.ex = 0 THEN 1 ELSE 0) /\ s.rw = IF s.ex \in {2, 3, 4} THEN "write" ELSE "read"
      /\ kind = "NMI" => s.exec = "IN_NMI" /\ s.pendingNMI
      /\ kind = "IRQ" => s.exec = "IN_IRQ" /\ s.pendingIRQ
  BY DEF MicroState, PendingInv, Sequences
<1>4. /\ r \in CpuType /\ r.pRESET = s.pRESET /\ r.pNMI = s.pNMI /\ r.instr = s.instr
      /\ s.ex # 6 =>
           /\ Keeps(v, r) /\ r.exec = s.exec /\ r.op = 0 /\ r.ex = s.ex + 1 /\ r.pc = 0
           /\ r.rw = IF r.ex \in {2, 3, 4} THEN "write" ELSE "read"
      /\ s.ex = 6 =>
           /\ r.exec = "FETCH_OPCODE" /\ r.at = "opcode" /\ r.rw = "read" /\ r.pc = 1
           /\ r.op = 0 /\ r.ex = 7 /\ r.inter = "none"
           /\ kind # "NMI" => r.pendingNMI = s.pendingNMI
           /\ kind # "IRQ" => r.pendingIRQ = s.pendingIRQ
  <2>1. /\ v \in CpuType /\ v.ex \in {0, 1, 2, 3, 4, 5, 6} /\ v.op \in {0, 1} /\ v.instr = "BRK"
        /\ v.inter # "none" /\ v.pc = IF v.ex = 0 THEN 1 ELSE 0
    BY <1>1, <1>3
  <2>2. /\ r \in CpuType /\ r.pRESET = v.pRESET /\ r.pNMI = v.pNMI /\ r.instr = v.instr
        /\ v.ex # 6 =>
             /\ Keeps(v, r) /\ r.exec = v.exec /\ r.op = v.op /\ r.ex = v.ex + 1 /\ r.pc = 0
             /\ r.rw = IF r.ex \in {2, 3, 4} THEN "write" ELSE "read"
        /\ v.ex = 6 =>
             /\ r.exec = "FETCH_OPCODE" /\ r.at = "opcode" /\ r.rw = "read" /\ r.pc = 1
             /\ r.op = v.op /\ r.ex = 7 /\ r.inter = "none"
             /\ v.inter # "NMI" => r.pendingNMI = v.pendingNMI
             /\ v.inter # "IRQ" => r.pendingIRQ = v.pendingIRQ
    BY ONLY <1>2, <2>1, BRKCycles
  <2> QED
    BY <1>1, <1>3, <2>2
<1>5. CASE s.ex = 6
  <2>1. Charged(r) = 7 /\ WritesSoFar(s) = 3 /\ Total(s.instr) = 3
    BY <1>3, <1>4, <1>5, WritesByCycle DEF Charged, Total
  <2> QED
    BY <1>3, <1>4, <1>5, <2>1, Documented DEF Moved, MicroState, PendingInv, Sequences
<1>6. CASE s.ex # 6
  <2>1. r.ex \in {1, 2, 3, 4, 5, 6} /\ r.ex = s.ex + 1
    BY <1>3, <1>4, <1>6
  <2>2. MicroState(r)
    BY <1>3, <1>4, <1>6, <2>1 DEF MicroState, Sequences
  <2>3. PendingInv(r)
    BY <1>1, <1>3, <1>4, <1>6, <2>1 DEF PendingInv, Sequences, Keeps
  <2>4. WritesSoFar(s) + (IF s.rw = "write" THEN 1 ELSE 0) = WritesSoFar(r)
    <3>1. s.ex \in {0, 1} \/ s.ex = 2 \/ s.ex = 3 \/ s.ex = 4 \/ s.ex = 5
      BY <1>3, <1>6
    <3>2. r.exec \in Sequences \cup {"EXECUTE"} /\ r.instr = "BRK"
      BY <1>3, <1>4, <1>6
    <3> QED
      BY <1>3, <1>4, <2>1, <3>1, <3>2, WritesByCycle
  <2> QED
    BY <1>1, <1>3, <1>4, <1>6, <2>2, <2>3, <2>4 DEF Moved, Keeps, Sequences
<1> QED
  BY <1>5, <1>6

-----------------------------------------------------------------------------
(* Operands and instructions.                                              *)

\* The counter of execution cycles goes up, and nothing else but I changes.
Advances(s, t) ==
  /\ t \in CpuType /\ Keeps(s, t)
  /\ t.exec = s.exec /\ t.op = s.op /\ t.ex = s.ex + 1 /\ t.pc = s.pc /\ t.rw = s.rw /\ t.at = s.at

\* Counting the cycle changes nothing else.
LEMMA NextCycleShape ==
  ASSUME NEW s \in CpuType, s.ex # 7
  PROVE  Advances(s, NextCycle(s))
<1>1. s.ex + 1 \in MicroCycles
  BY Counters DEF CpuType
<1> QED
  BY <1>1 DEF Advances, Keeps, NextCycle, CpuType

\* An instruction that comes to its end in the cycles of the table, with its writes made.
LEMMA LastCycle ==
  ASSUME NEW s \in CpuType, s.exec = "EXECUTE", PendingInv(s),
         NEW u, Advances(s, u), NEW r, Fetches(u, r),
         s.op + s.ex + 1 = DocumentedCycles[s.instr],
         WritesSoFar(s) + (IF s.rw = "write" THEN 1 ELSE 0) = Total(s.instr)
  PROVE  Moved(s, r)
<1>1. s.op \in Int /\ s.ex \in Int
  BY Counters DEF CpuType
<1>2. Charged(r) = DocumentedCycles[s.instr]
  BY <1>1 DEF Charged, Fetches, Advances
<1>3. r.inter = "none" /\ Keeps(s, r)
  BY DEF PendingInv, Sequences, Fetches, Advances, Keeps
<1> QED
  BY <1>2, <1>3 DEF Moved, Fetches, MicroState, PendingInv, Sequences, Keeps

\* An instruction that goes on.
LEMMA NotLastCycle ==
  ASSUME NEW s \in CpuType, s.exec \notin Sequences \cup {"IN_RESET", "FETCH_OPCODE"}, PendingInv(s),
         NEW r \in CpuType, Keeps(s, r),
         r.exec \in {"FETCH_OPERAND", "EXECUTE_DIRECTLY", "EXECUTE"}, MicroState(r),
         WritesSoFar(s) + (IF s.rw = "write" THEN 1 ELSE 0) = WritesSoFar(r)
  PROVE  Moved(s, r)
<1>1. s.inter = "none"
  BY DEF PendingInv
<1> QED
  BY <1>1 DEF Moved, PendingInv, Sequences, Keeps

\* The instructions of one execution cycle.
LEMMA OneCycleMoves ==
  ASSUME NEW s \in CpuType, s.exec = "EXECUTE", MicroState(s), PendingInv(s),
         s.instr \in {"NOP", "LDI", "LDA", "CLI", "SEI"}, NEW operand, NEW pulled
  PROVE  Moved(s, ExecHdlr(s, operand, pulled))
<1> DEFINE u == NextCycle(s)
           w == IF s.instr = "CLI" THEN [u EXCEPT !.iFlag = FALSE]
                ELSE IF s.instr = "SEI" THEN [u EXCEPT !.iFlag = TRUE] ELSE u
           r == ExecHdlr(s, operand, pulled)
<1>1. s.ex = 0 /\ s.rw = "read" /\ s.op = IF s.instr = "LDA" THEN 3 ELSE 1
  BY DEF MicroState
<1>2. r = InitFetch(w)
  BY DEF ExecHdlr, LDAExecHdlr, CLIExecHdlr, SEIExecHdlr
<1>3. Advances(s, u)
  BY <1>1, NextCycleShape
<1> HIDE DEF u
<1>4. Advances(s, w)
  <2>1. u \in CpuType /\ TRUE \in BOOLEAN /\ FALSE \in BOOLEAN
    BY <1>3 DEF Advances
  <2>2. CASE s.instr = "CLI"
    <3>1. Flags(u, w)
      BY <2>1, <2>2, FlagShape
    <3> QED
      BY <1>3, <3>1 DEF Flags, Advances, Keeps
  <2>3. CASE s.instr = "SEI"
    <3>1. Flags(u, w)
      BY <2>1, <2>3, FlagShape
    <3> QED
      BY <1>3, <3>1 DEF Flags, Advances, Keeps
  <2> QED
    BY <1>3, <2>2, <2>3
<1> HIDE DEF w, r
<1>5. Fetches(w, r)
  BY <1>2, <1>4, InitFetchShape DEF Advances
<1>6. WritesSoFar(s) = 0 /\ Total(s.instr) = 0
  BY WritesByCycle DEF Total
<1>7. s.op + s.ex + 1 = DocumentedCycles[s.instr]
  BY <1>1, Documented
<1>8. WritesSoFar(s) + (IF s.rw = "write" THEN 1 ELSE 0) = Total(s.instr)
  BY <1>1, <1>6
<1> QED
  BY <1>4, <1>5, <1>7, <1>8, LastCycle DEF r

\* STA.
LEMMA STAMoves ==
  ASSUME NEW s \in CpuType, s.exec = "EXECUTE", MicroState(s), PendingInv(s), s.instr = "STA",
         NEW operand \in {"operand", "slow"}, NEW pulled
  PROVE  Moved(s, ExecHdlr(s, operand, pulled))
<1> DEFINE u == NextCycle(s)
           r == ExecHdlr(s, operand, pulled)
<1>1. /\ s.op = 2
      /\ (s.ex = 0 /\ s.rw = "read") \/ (s.ex = 1 /\ s.rw = "write")
      /\ s.exec \notin Sequences \cup {"IN_RESET", "FETCH_OPCODE"}
  BY DEF MicroState, Sequences
<1>2. r = IF s.ex = 0 THEN WriteTo(u, operand) ELSE InitFetch(u)
  BY DEF ExecHdlr, STAExecHdlr
<1>3. Advances(s, u)
  BY <1>1, NextCycleShape
<1> HIDE DEF u, r
<1>4. WritesSoFar(s) = 0 /\ Total(s.instr) = 1
  BY WritesByCycle DEF Total
<1>5. CASE s.ex = 0
  <2>1. Prepares(u, r, operand) /\ r.rw = "write"
    BY <1>2, <1>3, <1>5, BusShape DEF Advances, Places
  <2>2. /\ r \in CpuType /\ Keeps(s, r) /\ r.exec = "EXECUTE" /\ r.instr = "STA" /\ r.op = 2 /\ r.ex = 1
        /\ r.at # "stack"
    BY <1>1, <1>3, <1>5, <2>1 DEF Prepares, Advances, Keeps
  <2>3. MicroState(r) /\ WritesSoFar(r) = 0
    BY <2>1, <2>2, WritesByCycle DEF MicroState, Sequences
  <2> QED
    BY <1>1, <1>4, <1>5, <2>2, <2>3, NotLastCycle DEF r
<1>6. CASE s.ex = 1
  <2>1. Fetches(u, r)
    BY <1>2, <1>3, <1>6, InitFetchShape DEF Advances
  <2>2. s.op + s.ex + 1 = DocumentedCycles[s.instr]
    BY <1>1, <1>6, Documented
  <2>3. WritesSoFar(s) + (IF s.rw = "write" THEN 1 ELSE 0) = Total(s.instr)
    BY <1>1, <1>4, <1>6
  <2> QED
    BY <1>3, <2>1, <2>2, <2>3, LastCycle DEF r
<1> QED
  BY <1>1, <1>5, <1>6

\* INC writes what it has read back, and then the result.
LEMMA INCMoves ==
  ASSUME NEW s \in CpuType, s.exec = "EXECUTE", MicroState(s), PendingInv(s), s.instr = "INC",
         NEW operand, NEW pulled
  PROVE  Moved(s, ExecHdlr(s, operand, pulled))
<1> DEFINE u == NextCycle(s)
           r == ExecHdlr(s, operand, pulled)
<1>1. /\ s.op = 3 /\ s.ex \in {0, 1, 2} /\ s.at # "stack" /\ s.rw = (IF s.ex = 0 THEN "read" ELSE "write")
      /\ s.exec \notin Sequences \cup {"IN_RESET", "FETCH_OPCODE"}
  BY DEF MicroState, Sequences
<1>2. r = IF s.ex \in {0, 1} THEN WriteTo(u, s.at) ELSE InitFetch(u)
  BY DEF ExecHdlr, INCExecHdlr
<1>3. Advances(s, u) /\ s.at \in Places
  BY <1>1, NextCycleShape DEF CpuType
<1> HIDE DEF u, r
<1>4. WritesSoFar(s) = (IF s.ex = 2 THEN 1 ELSE 0) /\ Total(s.instr) = 2
  BY <1>1, WritesByCycle DEF Total
<1>5. CASE s.ex \in {0, 1}
  <2>1. Prepares(u, r, s.at) /\ r.rw = "write"
    BY <1>2, <1>3, <1>5, BusShape DEF Advances
  <2>2. /\ r \in CpuType /\ Keeps(s, r) /\ r.exec = "EXECUTE" /\ r.instr = "INC" /\ r.op = 3
        /\ r.at # "stack" /\ r.ex = s.ex + 1
    BY <1>1, <1>3, <1>5, <2>1 DEF Prepares, Advances, Keeps
  <2>3. r.ex = IF s.ex = 0 THEN 1 ELSE 2
    BY <1>5, <2>2
  <2>4. MicroState(r) /\ WritesSoFar(r) = s.ex
    BY <1>5, <2>1, <2>2, <2>3, WritesByCycle DEF MicroState, Sequences
  <2>5. WritesSoFar(s) + (IF s.rw = "write" THEN 1 ELSE 0) = WritesSoFar(r)
    BY <1>1, <1>4, <1>5, <2>4
  <2> QED
    BY <1>1, <2>2, <2>4, <2>5, NotLastCycle DEF r
<1>6. CASE s.ex = 2
  <2>1. Fetches(u, r)
    BY <1>2, <1>3, <1>6, InitFetchShape DEF Advances
  <2>2. s.op + s.ex + 1 = DocumentedCycles[s.instr]
    BY <1>1, <1>6, Documented
  <2>3. WritesSoFar(s) + (IF s.rw = "write" THEN 1 ELSE 0) = Total(s.instr)
    BY <1>1, <1>4, <1>6
  <2> QED
    BY <1>3, <2>1, <2>2, <2>3, LastCycle DEF r
<1> QED
  BY <1>1, <1>5, <1>6

\* PLP and RTI read the stack, and take the I flag from it in one of their cycles.
LEMMA PullMoves ==
  ASSUME NEW s \in CpuType, s.exec = "EXECUTE", MicroState(s), PendingInv(s), s.instr \in {"PLP", "RTI"},
         NEW operand, NEW pulled \in BOOLEAN
  PROVE  Moved(s, ExecHdlr(s, operand, pulled))
<1> DEFINE u == NextCycle(s)
           last == IF s.instr = "PLP" THEN 2 ELSE 4
           v == [u EXCEPT !.iFlag = pulled]
           pull == ReadFrom(u, "stack")
           r == ExecHdlr(s, operand, pulled)
<1>1. /\ s.op = 1 /\ s.ex \in {0, 1, 2, 3, 4} /\ s.rw = "read" /\ (s.instr = "PLP" => s.ex \in {0, 1, 2})
      /\ s.exec \notin Sequences \cup {"IN_RESET", "FETCH_OPCODE"}
  BY DEF MicroState, Sequences
<1>2. /\ s.ex = last => r = InitFetch(u) \/ r = InitFetch(v)
      /\ s.ex # last => r = pull \/ r = [pull EXCEPT !.iFlag = pulled]
  <2>1. CASE s.instr = "PLP"
    BY <1>1, <2>1 DEF ExecHdlr, PLPExecHdlr
  <2>2. CASE s.instr = "RTI"
    <3>1. r = RTIExecHdlr(s, pulled)
      BY <2>2 DEF ExecHdlr
    <3> QED
      BY <1>1, <2>2, <3>1 DEF RTIExecHdlr
  <2> QED
    BY <2>1, <2>2
<1>3. Advances(s, u)
  BY <1>1, NextCycleShape
<1> HIDE DEF u
<1>4. Advances(s, v)
  <2>1. Flags(u, v)
    BY <1>3, FlagShape DEF Advances
  <2> QED
    BY <1>3, <2>1 DEF Flags, Advances, Keeps
<1>5. Prepares(u, pull, "stack") /\ pull.rw = "read"
  BY <1>3, BusShape DEF Advances, Places
<1> HIDE DEF v, pull, r
<1>6. WritesSoFar(s) = 0 /\ Total(s.instr) = 0
  BY WritesByCycle DEF Total
<1>7. CASE s.ex = last
  <2>1. PICK w \in {u, v} : Advances(s, w) /\ r = InitFetch(w)
    BY <1>2, <1>3, <1>4, <1>7
  <2>2. Fetches(w, r)
    BY <2>1, InitFetchShape DEF Advances
  <2>3. s.op + s.ex + 1 = DocumentedCycles[s.instr]
    BY <1>1, <1>7, Documented
  <2>4. WritesSoFar(s) + (IF s.rw = "write" THEN 1 ELSE 0) = Total(s.instr)
    BY <1>1, <1>6
  <2> QED
    BY <2>1, <2>2, <2>3, <2>4, LastCycle DEF r, Fetches
<1>8. CASE s.ex # last
  <2>1. Flags(pull, r)
    <3>1. pull \in CpuType
      BY <1>5 DEF Prepares
    <3>2. CASE r = pull
      BY <3>1, <3>2 DEF Flags, Keeps
    <3>3. CASE r = [pull EXCEPT !.iFlag = pulled]
      BY <3>1, <3>3, FlagShape
    <3> QED
      BY <1>2, <1>8, <3>2, <3>3
  <2>2. /\ r \in CpuType /\ Keeps(s, r) /\ r.exec = "EXECUTE" /\ r.instr = s.instr /\ r.op = 1
        /\ r.rw = "read" /\ r.ex = s.ex + 1
    BY <1>1, <1>3, <1>5, <2>1 DEF Flags, Prepares, Advances, Keeps
  <2>3. r.ex \in {1, 2, 3, 4} /\ (s.instr = "PLP" => r.ex \in {1, 2})
    BY <1>1, <1>8, <2>2
  <2>4. MicroState(r) /\ WritesSoFar(r) = 0
    BY <2>2, <2>3, WritesByCycle DEF MicroState, Sequences
  <2>5. WritesSoFar(s) + (IF s.rw = "write" THEN 1 ELSE 0) = WritesSoFar(r)
    BY <1>1, <1>6, <2>4
  <2> QED
    BY <1>1, <2>2, <2>4, <2>5, NotLastCycle DEF r
<1> QED
  BY <1>7, <1>8

\* BRK.
LEMMA BRKMoves ==
  ASSUME NEW s \in CpuType, s.exec = "EXECUTE", MicroState(s), PendingInv(s), s.instr = "BRK",
         NEW operand, NEW pulled
  PROVE  Moved(s, ExecHdlr(s, operand, pulled))
<1> DEFINE r == ExecHdlr(s, operand, pulled)
<1>1. /\ s.op = 1 /\ s.ex \in {0, 2, 3, 4, 5, 6} /\ s.pc = (IF s.ex = 0 THEN 1 ELSE 2)
      /\ s.rw = (IF s.ex \in {2, 3, 4} THEN "write" ELSE "read") /\ s.inter = "none"
      /\ s.exec \notin Sequences \cup {"IN_RESET", "FETCH_OPCODE"}
  BY DEF MicroState, PendingInv, Sequences
<1>2. r = BRKExecHdlr(s)
  BY DEF ExecHdlr
<1> HIDE DEF r
<1>3. /\ r \in CpuType /\ r.pRESET = s.pRESET /\ r.pNMI = s.pNMI /\ r.instr = s.instr
      /\ s.ex # 6 =>
           /\ Keeps(s, r) /\ r.exec = s.exec /\ r.op = s.op /\ r.ex = (IF s.ex = 0 THEN 2 ELSE s.ex + 1)
           /\ r.pc = 2 /\ r.rw = IF r.ex \in {2, 3, 4} THEN "write" ELSE "read"
      /\ s.ex = 6 =>
           /\ r.exec = "FETCH_OPCODE" /\ r.at = "opcode" /\ r.rw = "read" /\ r.pc = 1
           /\ r.op = s.op /\ r.ex = 6 /\ r.inter = "none"
           /\ r.pendingNMI = s.pendingNMI /\ r.pendingIRQ = s.pendingIRQ
  <2>1. s.ex \in {0, 1, 2, 3, 4, 5, 6} /\ s.op \in {0, 1} /\ s.ex # 1
    BY <1>1
  <2> QED
    BY <1>1, <1>2, <2>1, BRKCycles
<1>4. CASE s.ex = 6
  <2>1. Charged(r) = 7 /\ WritesSoFar(s) = 3 /\ Total(s.instr) = 3
    BY <1>1, <1>3, <1>4, WritesByCycle DEF Charged, Total
  <2> QED
    BY <1>1, <1>3, <1>4, <2>1, Documented DEF Moved, MicroState, PendingInv, Sequences, r
<1>5. CASE s.ex # 6
  <2>1. r.ex \in {2, 3, 4, 5, 6} /\ r.instr = "BRK" /\ r.op = 1 /\ r.exec = "EXECUTE" /\ Keeps(s, r)
    BY <1>1, <1>3, <1>5
  <2>2. MicroState(r)
    BY <1>1, <1>3, <1>5, <2>1 DEF MicroState, Sequences
  <2>3. WritesSoFar(s) + (IF s.rw = "write" THEN 1 ELSE 0) = WritesSoFar(r)
    <3>1. s.ex = 0 \/ s.ex = 2 \/ s.ex = 3 \/ s.ex = 4 \/ s.ex = 5
      BY <1>1, <1>5
    <3> QED
      BY <1>1, <1>3, <2>1, <3>1, WritesByCycle
  <2> QED
    BY <1>1, <1>3, <1>5, <2>1, <2>2, <2>3, NotLastCycle DEF r
<1> QED
  BY <1>4, <1>5

\* The micro program of an instruction.
LEMMA ExecMoves ==
  ASSUME NEW s \in CpuType, s.exec = "EXECUTE", MicroState(s), PendingInv(s),
         NEW operand \in {"operand", "slow"}, NEW pulled \in BOOLEAN
  PROVE  Moved(s, ExecHdlr(s, operand, pulled))
<1>1. s.instr \in {"NOP", "LDI", "LDA", "CLI", "SEI", "STA", "INC", "PLP", "RTI", "BRK"}
  BY DEF CpuType, Instructions
<1> QED
  BY <1>1, OneCycleMoves, STAMoves, INCMoves, PullMoves, BRKMoves

\* What the modes do with the cycles in which operands are read.
LEMMA AddrShape ==
  ASSUME NEW s \in CpuType, s.exec = "FETCH_OPERAND", s.ex = 0, s.rw = "read",
         s.op \in {0, 1, 2, 3}, s.instr \notin Absolute => s.op = 0,
         s.pc = IF s.op = 0 THEN 1 ELSE IF s.op = 1 THEN 2 ELSE 3,
         s.op = 3 => s.instr # "STA" /\ s.at \in {"operand", "slow"},
         NEW operand \in {"operand", "slow"}, NEW r, r = AddrHdlr(s, operand)
  PROVE  /\ r \in CpuType /\ Keeps(s, r) /\ MicroState(r) /\ WritesSoFar(r) = 0
         /\ r.exec \in {"FETCH_OPERAND", "EXECUTE_DIRECTLY", "EXECUTE"}
<1> DEFINE t == [s EXCEPT !.op = @ + 1]
           next == s.op + 1
           mode(v, e, n, p) == /\ v \in CpuType /\ Keeps(s, v) /\ v.op = n /\ v.ex = 0 /\ v.rw = "read"
                               /\ v.exec = e /\ v.pc = p
<1>1. next \in {1, 2, 3, 4} /\ next \in MicroCycles /\ next = s.op + 1
  BY Counters
<1> HIDE DEF next
<1>2. mode(t, "FETCH_OPERAND", next, s.pc) /\ t.at = s.at
  <2>1. t = [s EXCEPT !.op = next]
    BY <1>1
  <2> QED
    BY <1>1, <2>1 DEF CpuType, Keeps
<1> HIDE DEF t
<1>3. CASE s.instr \in Absolute /\ s.op \in {0, 1}
  <2> DEFINE code == ReadFrom(t, "code")
             pc == code.pc + 1
  <2>1. r = [code EXCEPT !.pc = pc]
    <3>1. r = AbsoluteAdrHdlr(s, operand)
      BY <1>3 DEF AddrHdlr, Absolute
    <3> QED
      BY <1>3, <3>1 DEF AbsoluteAdrHdlr, t
  <2>2. Prepares(t, code, "code") /\ code.rw = "read"
    BY <1>2, BusShape DEF Places
  <2> HIDE DEF code
  <2>3. pc = (IF s.op = 0 THEN 2 ELSE 3) /\ pc \in Distances /\ code \in CpuType
    BY <1>2, <1>3, <2>2 DEF Prepares, Distances
  <2> HIDE DEF pc
  <2>4. /\ r \in CpuType /\ Keeps(code, r) /\ r.op = code.op /\ r.ex = code.ex /\ r.rw = code.rw
        /\ r.exec = code.exec /\ r.pc = pc
    BY ONLY <2>1, <2>3 DEF CpuType, Keeps
  <2>5. mode(r, "FETCH_OPERAND", next, pc) /\ r.instr \in Absolute
    BY <1>2, <1>3, <2>2, <2>4 DEF Prepares, Keeps
  <2>6. next = (IF s.op = 0 THEN 1 ELSE 2) /\ pc = (IF s.op = 0 THEN 2 ELSE 3)
    BY <1>1, <1>3, <2>3
  <2>7. MicroState(r)
    BY <1>3, <2>5, <2>6 DEF MicroState, Sequences
  <2> QED
    BY <2>5, <2>7, WritesByCycle DEF Sequences
<1>4. CASE s.instr \in Absolute /\ s.op = 2 /\ s.instr # "STA"
  <2>1. r = ReadFrom(t, operand)
    <3>1. r = AbsoluteAdrHdlr(s, operand)
      BY <1>4 DEF AddrHdlr, Absolute
    <3> QED
      BY <1>4, <3>1 DEF AbsoluteAdrHdlr, t
  <2>2. Prepares(t, r, operand) /\ r.rw = "read"
    BY <1>2, <2>1, BusShape DEF Places
  <2>3. mode(r, "FETCH_OPERAND", 3, 3) /\ r.instr = s.instr /\ r.at \in {"operand", "slow"}
    BY <1>1, <1>2, <1>4, <2>2 DEF Prepares, Keeps
  <2>4. MicroState(r)
    BY <1>4, <2>3 DEF MicroState, Sequences
  <2> QED
    BY <2>3, <2>4, WritesByCycle DEF Sequences
<1>5. CASE s.instr \in Absolute /\ (s.op = 3 \/ (s.op = 2 /\ s.instr = "STA"))
  <2>1. r = [t EXCEPT !.exec = "EXECUTE_DIRECTLY"]
    <3>1. r = AbsoluteAdrHdlr(s, operand)
      BY <1>5 DEF AddrHdlr, Absolute
    <3> QED
      BY <1>5, <3>1 DEF AbsoluteAdrHdlr, t
  <2>2. mode(r, "EXECUTE_DIRECTLY", next, s.pc) /\ r.at = s.at /\ r.instr = s.instr
    BY <1>2, <2>1 DEF CpuType, States, Keeps
  <2>3. next = IF s.instr = "STA" THEN 3 ELSE 4
    BY <1>1, <1>5
  <2>4. MicroState(r)
    BY <1>5, <2>2, <2>3 DEF MicroState, Sequences, Absolute
  <2> QED
    BY <2>2, <2>4, WritesByCycle DEF Sequences
<1>6. CASE s.instr \notin Absolute
  <2> DEFINE code == ReadFrom(s, "code")
  <2>1. Prepares(s, code, "code") /\ code.rw = "read" /\ code.op = 0 /\ s.op = 0 /\ s.pc = 1
    BY <1>6, BusShape DEF Places, Prepares
  <2>2. r = IF s.instr = "LDI" THEN [code EXCEPT !.op = code.op + 1, !.pc = code.pc + 1, !.exec = "EXECUTE"]
            ELSE [code EXCEPT !.op = code.op + 1, !.exec = "EXECUTE"]
    BY <1>6 DEF AddrHdlr, ImmediateAdrHdlr, ImpliedAdrHdlr
  <2> HIDE DEF code
  <2>3. /\ code.op + 1 = 1 /\ code.pc + 1 = 2 /\ code.pc = 1
        /\ 1 \in MicroCycles /\ 2 \in Distances /\ 1 \in Distances /\ code \in CpuType
    BY <2>1, Counters DEF Prepares
  <2>4. /\ r \in CpuType /\ Keeps(code, r) /\ r.op = 1 /\ r.ex = code.ex /\ r.rw = code.rw
        /\ r.exec = "EXECUTE" /\ r.pc = IF s.instr = "LDI" THEN 2 ELSE 1
    BY ONLY <2>2, <2>3 DEF CpuType, Keeps, States
  <2>5. mode(r, "EXECUTE", 1, IF s.instr = "LDI" THEN 2 ELSE 1) /\ r.instr = s.instr
    BY <2>1, <2>4 DEF Prepares, Keeps
  <2>6. MicroState(r)
    BY <1>6, <2>5 DEF MicroState, Sequences, Absolute
  <2>7. WritesSoFar(r) = 0
    BY <2>5, <1>6, WritesByCycle DEF Absolute
  <2> QED
    BY <2>5, <2>6, <2>7
<1> QED
  BY <1>3, <1>4, <1>5, <1>6

-----------------------------------------------------------------------------
(* executeInstrMicroCycle.                                                 *)

\* A micro cycle, when the interrupts have been looked at.
LEMMA DispatchMoves ==
  ASSUME NEW s \in CpuType, MicroState(s), PendingInv(s),
         s.exec = "FETCH_OPCODE" => ~s.pendingNMI /\ ~s.pendingIRQ,
         NEW opcode \in Instructions, NEW operand \in {"operand", "slow"}, NEW pulled \in BOOLEAN
  PROVE  Moved(s, Dispatch(s, opcode, operand, pulled))
<1> DEFINE r == Dispatch(s, opcode, operand, pulled)
<1>1. CASE s.exec = "IN_RESET"
  <2>1. r = ResetHdlr(s)
    BY <1>1 DEF Dispatch
  <2> QED
    BY <1>1, <2>1, ResetMoves
<1>2. CASE s.exec = "IN_NMI"
  <2>1. r = BRKExecHdlr([s EXCEPT !.inter = "NMI"])
    BY <1>2 DEF Dispatch
  <2> QED
    BY <1>2, <2>1, SequenceMoves DEF Sequences
<1>3. CASE s.exec = "IN_IRQ"
  <2>1. r = BRKExecHdlr([s EXCEPT !.inter = "IRQ"])
    BY <1>3 DEF Dispatch
  <2> QED
    BY <1>3, <2>1, SequenceMoves DEF Sequences
<1>4. CASE s.exec = "FETCH_OPCODE"
  <2> DEFINE v == [CompleteFetch(s, opcode) EXCEPT !.exec = "FETCH_OPERAND"]
  <2>1. r = AddrHdlr(v, operand)
    BY <1>4 DEF Dispatch
  <2>2. /\ v \in CpuType /\ v.pRESET = s.pRESET /\ v.pNMI = s.pNMI /\ v.inter = s.inter
        /\ v.pendingNMI = s.pendingNMI /\ v.pendingIRQ = s.pendingIRQ
        /\ v.exec = "FETCH_OPERAND" /\ v.op = 0 /\ v.ex = 0 /\ v.rw = s.rw /\ v.pc = s.pc
    BY Counters DEF CompleteFetch, CpuType, States
  <2> HIDE DEF v, r
  <2>3. s.rw = "read" /\ s.pc = 1 /\ s.inter = "none"
    BY <1>4 DEF MicroState, PendingInv, CpuType
  <2>4. v.rw = "read" /\ v.pc = 1 /\ v.op \in {0, 1, 2, 3}
    BY <2>2, <2>3
  <2>5. /\ r \in CpuType /\ Keeps(v, r) /\ MicroState(r) /\ WritesSoFar(r) = 0
        /\ r.exec \in {"FETCH_OPERAND", "EXECUTE_DIRECTLY", "EXECUTE"}
    BY ONLY <2>1, <2>2, <2>4, AddrShape, operand \in {"operand", "slow"}
  <2>6. PendingInv(r) /\ WritesSoFar(s) = 0
    BY <1>4, <2>2, <2>3, <2>5, WritesByCycle DEF PendingInv, Sequences, Keeps
  <2> QED
    BY <1>4, <2>2, <2>3, <2>5, <2>6 DEF Moved, Sequences, Keeps, r
<1>5. CASE s.exec = "FETCH_OPERAND"
  <2>1. r = AddrHdlr(s, operand)
    BY <1>5 DEF Dispatch
  <2>2. /\ s.instr \in Absolute /\ s.ex = 0 /\ s.rw = "read"
        /\ s.op \in {1, 2, 3} /\ s.pc = (IF s.op = 1 THEN 2 ELSE 3)
        /\ s.op = 3 => s.instr # "STA" /\ s.at \in {"operand", "slow"}
    BY <1>5 DEF MicroState
  <2>3. s.op \in {0, 1, 2, 3} /\ s.op # 0
    BY <2>2
  <2>4. WritesSoFar(s) = 0
    BY <1>5, WritesByCycle DEF Sequences
  <2> HIDE DEF r
  <2>5. /\ r \in CpuType /\ Keeps(s, r) /\ MicroState(r) /\ WritesSoFar(r) = 0
        /\ r.exec \in {"FETCH_OPERAND", "EXECUTE_DIRECTLY", "EXECUTE"}
    BY ONLY <1>5, <2>1, <2>2, <2>3, AddrShape, s \in CpuType, operand \in {"operand", "slow"}
  <2> QED
    BY <1>5, <2>2, <2>4, <2>5, NotLastCycle DEF Sequences, r
<1>6. CASE s.exec = "EXECUTE_DIRECTLY"
  <2> DEFINE op == s.op - 1
             v == [s EXCEPT !.exec = "EXECUTE", !.op = op]
  <2>1. r = ExecHdlr(v, operand, pulled)
    BY <1>6 DEF Dispatch
  <2>2. /\ s.instr \in Absolute /\ s.ex = 0 /\ s.rw = "read" /\ op = IF s.instr = "STA" THEN 2 ELSE 3
        /\ s.instr = "INC" => s.at \in {"operand", "slow"}
    BY <1>6 DEF MicroState
  <2>3. op \in MicroCycles
    BY <2>2, Counters
  <2> HIDE DEF op, r
  <2>4. /\ v \in CpuType /\ Keeps(s, v) /\ v.exec = "EXECUTE" /\ v.op = op
        /\ v.ex = 0 /\ v.rw = "read" /\ v.at = s.at
    BY <2>2, <2>3 DEF CpuType, States, Keeps
  <2> HIDE DEF v
  <2>5. MicroState(v) /\ PendingInv(v) /\ WritesSoFar(v) = 0 /\ WritesSoFar(s) = 0
    <3>1. MicroState(v)
      BY <2>2, <2>4 DEF MicroState, Sequences, Keeps, Absolute
    <3>2. PendingInv(v)
      BY <1>6, <2>4 DEF PendingInv, Sequences, Keeps
    <3>3. WritesSoFar(v) = 0
      BY <2>2, <2>4, WritesByCycle DEF Keeps, Absolute
    <3>4. WritesSoFar(s) = 0
      BY <1>6, WritesByCycle DEF Sequences
    <3> QED
      BY <3>1, <3>2, <3>3, <3>4
  <2>6. Moved(v, r)
    BY <2>1, <2>4, <2>5, ExecMoves
  <2> QED
    BY <1>6, <2>2, <2>4, <2>5, <2>6 DEF Moved, Keeps, Sequences, r
<1>7. CASE s.exec = "EXECUTE"
  <2>1. r = ExecHdlr(s, operand, pulled)
    BY <1>7 DEF Dispatch
  <2> QED
    BY <1>7, <2>1, ExecMoves
<1>8. s.exec \in States
  BY DEF CpuType
<1> QED
  BY <1>1, <1>2, <1>3, <1>4, <1>5, <1>6, <1>7, <1>8 DEF States

\* Interrupting forces a BRK in, and leaves the rest as it was.
LEMMA InterruptedShape ==
  ASSUME NEW s \in CpuType, NEW state \in States
  PROVE  LET t == Interrupted(s, state)
         IN  /\ t \in CpuType /\ t.exec = state /\ t.instr = "BRK" /\ t.op = 0 /\ t.ex = 0
             /\ t.pRESET = s.pRESET /\ t.pNMI = s.pNMI /\ t.rw = s.rw /\ t.pc = s.pc /\ t.iFlag = s.iFlag
             /\ t.pendingNMI = s.pendingNMI /\ t.pendingIRQ = s.pendingIRQ /\ t.inter = s.inter
  BY Counters DEF Interrupted, FakeBRKFetch, CpuType, Instructions

\* A sequence begins with a BRK in its first cycle, in place of an instruction.
LEMMA SequenceBegins ==
  ASSUME NEW s \in CpuType, s.exec = "FETCH_OPCODE", MicroState(s), PendingInv(s),
         NEW state \in Sequences, IF state = "IN_NMI" THEN s.pendingNMI ELSE s.pendingIRQ
  PROVE  MicroState(Interrupted(s, state)) /\ PendingInv(Interrupted(s, state))
<1> DEFINE t == Interrupted(s, state)
<1>1. s.rw = "read" /\ s.pc = 1 /\ state \in {"IN_IRQ", "IN_NMI"} /\ state \in States
  BY DEF MicroState, Sequences, States
<1>2. /\ t.exec = state /\ t.instr = "BRK" /\ t.op = 0 /\ t.ex = 0 /\ t.rw = s.rw /\ t.pc = s.pc
      /\ t.pendingNMI = s.pendingNMI /\ t.pendingIRQ = s.pendingIRQ /\ t.inter = s.inter
  BY <1>1, InterruptedShape
<1> HIDE DEF t
<1>3. MicroState(t)
  BY <1>1, <1>2 DEF MicroState
<1>4. PendingInv(t)
  BY <1>1, <1>2 DEF PendingInv, Sequences
<1> QED
  BY <1>3, <1>4 DEF t

\* IRQ and NMI are looked at before the micro cycle: no instruction starts over a request.
LEMMA TakeShape ==
  ASSUME NEW s \in CpuType, MicroState(s), PendingInv(s), NEW edge \in BOOLEAN,
         NEW t, t = TakeNMI(TakeIRQ(s), edge)
  PROVE  /\ t \in CpuType /\ MicroState(t) /\ PendingInv(t)
         /\ t.pRESET = s.pRESET /\ t.pNMI = s.pNMI /\ t.rw = s.rw
         /\ s.pendingNMI \/ edge => t.pendingNMI
         /\ t.exec = "FETCH_OPCODE" =>
              /\ s.exec = "FETCH_OPCODE" /\ ~t.pendingNMI /\ ~t.pendingIRQ
              /\ "IRQ" \in in \/ s.iFlag
         /\ \/ t.exec = s.exec /\ t.instr = s.instr /\ t.op = s.op /\ WritesSoFar(t) = WritesSoFar(s)
            \/ s.exec = "FETCH_OPCODE" /\ t.exec \in Sequences /\ t.ex = 0
<1> DEFINE irq == s.pendingIRQ \/ ("IRQ" \notin in /\ ~s.iFlag)
           \* What each of the two leaves.
           shape(u, v) ==
             /\ v \in CpuType /\ MicroState(v) /\ PendingInv(v)
             /\ v.pRESET = u.pRESET /\ v.pNMI = u.pNMI /\ v.rw = u.rw
             /\ \/ /\ v.exec = u.exec /\ v.instr = u.instr /\ v.op = u.op /\ v.ex = u.ex
                   /\ WritesSoFar(v) = WritesSoFar(u)
                \/ u.exec = "FETCH_OPCODE" /\ v.exec \in Sequences /\ v.ex = 0
           a == [s EXCEPT !.pendingIRQ = irq]
           b == TakeIRQ(s)
           nmi == b.pendingNMI \/ edge
           c == [b EXCEPT !.pendingNMI = nmi]
<1>0. \A state \in Sequences : state \in States
  BY DEF Sequences, States
<1>1. /\ shape(s, a) /\ a.exec = s.exec
      /\ a.pendingNMI = s.pendingNMI /\ a.pendingIRQ = irq
  <2>1. irq \in BOOLEAN /\ (s.pendingIRQ => irq)
    BY DEF CpuType
  <2> HIDE DEF irq
  <2>2. /\ a \in CpuType /\ a.pRESET = s.pRESET /\ a.pNMI = s.pNMI /\ a.rw = s.rw
        /\ a.exec = s.exec /\ a.instr = s.instr /\ a.op = s.op /\ a.ex = s.ex /\ a.pc = s.pc /\ a.at = s.at
        /\ a.inter = s.inter /\ a.pendingNMI = s.pendingNMI /\ a.pendingIRQ = irq
    BY <2>1 DEF CpuType
  <2> HIDE DEF a
  <2>3. MicroState(a)
    BY <2>2 DEF MicroState
  <2>4. PendingInv(a)
    BY <2>1, <2>2 DEF PendingInv
  <2>5. WritesSoFar(a) = WritesSoFar(s)
    BY <2>2 DEF WritesSoFar
  <2> QED
    BY <2>2, <2>3, <2>4, <2>5
<1>2. b = IF a.pendingIRQ /\ a.exec = "FETCH_OPCODE" THEN Interrupted(a, "IN_IRQ") ELSE a
  BY DEF TakeIRQ
<1> HIDE DEF a
<1>3. /\ shape(s, b) /\ b.pendingNMI = s.pendingNMI
      /\ b.exec = "FETCH_OPCODE" => s.exec = "FETCH_OPCODE" /\ ~b.pendingIRQ /\ ~irq
  <2>1. CASE a.pendingIRQ /\ a.exec = "FETCH_OPCODE"
    <3>1. b = Interrupted(a, "IN_IRQ") /\ "IN_IRQ" \in Sequences /\ "IN_IRQ" \in States
      BY <1>2, <2>1 DEF Sequences, States
    <3>2. MicroState(b) /\ PendingInv(b)
      BY <1>1, <2>1, <3>1, SequenceBegins
    <3>3. /\ b \in CpuType /\ b.exec = "IN_IRQ" /\ b.ex = 0 /\ b.pendingNMI = a.pendingNMI
          /\ b.pRESET = a.pRESET /\ b.pNMI = a.pNMI /\ b.rw = a.rw
      BY <1>1, <3>1, InterruptedShape
    <3> QED
      BY <1>1, <2>1, <3>1, <3>2, <3>3
  <2>2. CASE ~(a.pendingIRQ /\ a.exec = "FETCH_OPCODE")
    <3>1. b = a
      BY <1>2, <2>2
    <3> QED
      BY <1>1, <2>2, <3>1
  <2> QED
    BY <2>1, <2>2
<1> HIDE DEF b
<1>4. /\ shape(b, c) /\ c.exec = b.exec
      /\ c.pendingNMI = nmi /\ c.pendingIRQ = b.pendingIRQ
  <2>1. nmi \in BOOLEAN /\ (b.pendingNMI => nmi) /\ b \in CpuType
    BY <1>3 DEF CpuType
  <2> HIDE DEF nmi
  <2>2. /\ c \in CpuType /\ c.pRESET = b.pRESET /\ c.pNMI = b.pNMI /\ c.rw = b.rw
        /\ c.exec = b.exec /\ c.instr = b.instr /\ c.op = b.op /\ c.ex = b.ex /\ c.pc = b.pc /\ c.at = b.at
        /\ c.inter = b.inter /\ c.pendingNMI = nmi /\ c.pendingIRQ = b.pendingIRQ
    BY ONLY <2>1 DEF CpuType, c
  <2> HIDE DEF c
  <2>3. MicroState(c)
    BY <1>3, <2>2 DEF MicroState
  <2>4. PendingInv(c)
    BY <1>3, <2>1, <2>2 DEF PendingInv
  <2>5. WritesSoFar(c) = WritesSoFar(b)
    BY <2>2 DEF WritesSoFar
  <2> QED
    BY <2>2, <2>3, <2>4, <2>5
<1>5. t = IF c.pendingNMI /\ c.exec = "FETCH_OPCODE" THEN Interrupted(c, "IN_NMI") ELSE c
  BY DEF TakeNMI, b, c, nmi
<1> HIDE DEF c, nmi
<1>6. /\ shape(b, t) /\ t.pendingNMI = c.pendingNMI
      /\ t.exec = "FETCH_OPCODE" => b.exec = "FETCH_OPCODE" /\ ~t.pendingNMI /\ t.pendingIRQ = b.pendingIRQ
  <2>1. CASE c.pendingNMI /\ c.exec = "FETCH_OPCODE"
    <3>1. t = Interrupted(c, "IN_NMI") /\ "IN_NMI" \in Sequences /\ "IN_NMI" \in States
      BY <1>5, <2>1 DEF Sequences, States
    <3>2. MicroState(t) /\ PendingInv(t)
      BY <1>4, <2>1, <3>1, SequenceBegins
    <3>3. /\ t \in CpuType /\ t.exec = "IN_NMI" /\ t.ex = 0 /\ t.pendingNMI = c.pendingNMI
          /\ t.pRESET = c.pRESET /\ t.pNMI = c.pNMI /\ t.rw = c.rw
      BY <1>4, <3>1, InterruptedShape
    <3> QED
      BY <1>4, <2>1, <3>1, <3>2, <3>3
  <2>2. CASE ~(c.pendingNMI /\ c.exec = "FETCH_OPCODE")
    <3>1. t = c
      BY <1>5, <2>2
    <3> QED
      BY <1>4, <2>2, <3>1
  <2> QED
    BY <2>1, <2>2
<1>7. s.pendingNMI \/ edge => t.pendingNMI
  BY <1>3, <1>4, <1>6 DEF nmi
<1>8. t.exec = "FETCH_OPCODE" => "IRQ" \in in \/ s.iFlag
  BY <1>3, <1>6
<1> QED
  <2>1. /\ t \in CpuType /\ MicroState(t) /\ PendingInv(t)
        /\ t.pRESET = s.pRESET /\ t.pNMI = s.pNMI /\ t.rw = s.rw
    BY <1>3, <1>6
  <2>2. \/ t.exec = s.exec /\ t.instr = s.instr /\ t.op = s.op /\ WritesSoFar(t) = WritesSoFar(s)
        \/ s.exec = "FETCH_OPCODE" /\ t.exec \in Sequences /\ t.ex = 0
    BY <1>3, <1>6 DEF Sequences
  <2>3. t.exec = "FETCH_OPCODE" => s.exec = "FETCH_OPCODE" /\ ~t.pendingNMI /\ ~t.pendingIRQ
    BY <1>3, <1>6
  <2> QED
    BY <1>7, <1>8, <2>1, <2>2, <2>3

-----------------------------------------------------------------------------
(* A step.                                                                 *)

\* The CPU stands where it did: only what it has seen of the pins and the wait change.
Stands(s, t) ==
  /\ t \in CpuType /\ t.exec = s.exec /\ t.op = s.op /\ t.ex = s.ex /\ t.instr = s.instr /\ t.pc = s.pc
  /\ t.rw = s.rw /\ t.at = s.at /\ t.iFlag = s.iFlag /\ t.inter = s.inter
  /\ t.pendingNMI = s.pendingNMI /\ t.pendingIRQ = s.pendingIRQ

\* What depends on the micro state alone is kept.
LEMMA StandsKept ==
  ASSUME NEW s, NEW t, Stands(s, t), MicroState(s), PendingInv(s)
  PROVE  MicroState(t) /\ PendingInv(t) /\ WritesSoFar(t) = WritesSoFar(s)
<1>1. MicroState(t)
  BY DEF Stands, MicroState
<1>2. PendingInv(t)
  BY DEF Stands, PendingInv
<1>3. WritesSoFar(t) = WritesSoFar(s)
  BY DEF Stands, WritesSoFar
<1> QED
  BY <1>1, <1>2, <1>3

\* s is the state in which the micro cycle after c starts, when the pins have been looked at.
Considers(c, s) ==
  /\ s \in CpuType /\ s.rw = c.rw
  /\ c.pendingNMI \/ ("NMI" \notin in /\ c.pNMI) => s.pendingNMI
  /\ s.exec = "FETCH_OPCODE" => ~s.pendingNMI /\ ("IRQ" \in in \/ c.iFlag)
  /\ \/ /\ c.pRESET /\ s.exec = c.exec /\ s.instr = c.instr /\ s.op = c.op
        /\ WritesSoFar(s) = WritesSoFar(c)
     \/ c.pRESET /\ c.exec = "FETCH_OPCODE" /\ s.exec \in Sequences /\ s.ex = 0
     \/ ~c.pRESET /\ s.exec = "IN_RESET" /\ s.op = 0

\* A step that makes its access either leaves the CPU where it stands, held in reset or
\* halted, or runs a micro cycle.
LEMMA AccessCases ==
  ASSUME cpu \in CpuType, MicroState(cpu), PendingInv(cpu), Access
  PROVE  /\ cpu'.pRESET <=> "RESET" \in in
         /\ cpu'.pNMI <=> IF "RESET" \in in THEN "NMI" \in in ELSE cpu.pNMI
         /\ \/ /\ Stands(cpu, cpu')
               /\ "RESET" \notin in \/ (cpu.rw = "read" /\ "RDY" \notin in /\ cpu.pRESET)
            \/ "RESET" \in in /\ \E s \in CpuType : Considers(cpu, s) /\ Moved(s, cpu')
<1>1. PICK opcode \in Instructions, operand \in {"operand", "slow"}, pulled \in BOOLEAN :
        cpu' = MicroCycle([cpu EXCEPT !.pendingAccess = FALSE], opcode, operand, pulled)
  <2>1. Opcodes \subseteq Instructions /\ Operands \subseteq {"operand", "slow"} /\ Statuses \subseteq BOOLEAN
    BY DEF Opcodes, Operands, Statuses, CpuType
  <2> QED
    BY <2>1 DEF Access
<1> DEFINE c == [cpu EXCEPT !.pendingAccess = FALSE]
           reset == "RESET" \in in
           nmi == IF reset THEN "NMI" \in in ELSE c.pNMI
           released == reset /\ ~c.pRESET
           edge == "NMI" \notin in /\ c.pNMI
           t == [c EXCEPT !.pRESET = reset, !.pNMI = nmi]
           u == IF released THEN Interrupted(t, "IN_RESET") ELSE t
           s == TakeNMI(TakeIRQ(u), edge)
<1>2. cpu' = IF ~reset \/ (c.rw = "read" /\ "RDY" \notin in /\ ~released) THEN t
             ELSE Dispatch(s, opcode, operand, pulled)
  BY <1>1 DEF MicroCycle, Halts
<1>3. Stands(cpu, c) /\ c.pRESET = cpu.pRESET /\ c.pNMI = cpu.pNMI /\ c \in CpuType
  BY DEF Stands, CpuType
<1> HIDE DEF c
<1>4. reset \in BOOLEAN /\ nmi \in BOOLEAN /\ edge \in BOOLEAN /\ released \in BOOLEAN
  <2>1. c.pNMI \in BOOLEAN
    BY <1>3 DEF CpuType
  <2>2. reset \in BOOLEAN /\ edge \in BOOLEAN /\ released \in BOOLEAN
    OBVIOUS
  <2>3. nmi \in BOOLEAN
    <3> DEFINE high == "NMI" \in in
    <3>1. high \in BOOLEAN /\ nmi = IF reset THEN high ELSE c.pNMI
      OBVIOUS
    <3> HIDE DEF high, nmi, reset
    <3> QED
      BY <2>1, <3>1
  <2> QED
    BY <2>2, <2>3
<1>5. Stands(c, t) /\ t.pRESET = reset /\ t.pNMI = nmi
  <2>1. c \in CpuType /\ reset \in BOOLEAN /\ nmi \in BOOLEAN
    BY <1>3, <1>4
  <2> HIDE DEF reset, nmi
  <2> QED
    BY ONLY <2>1 DEF Stands, CpuType, t
<1> HIDE DEF t
<1>6. Stands(cpu, t) /\ MicroState(t) /\ PendingInv(t) /\ WritesSoFar(t) = WritesSoFar(cpu)
  <2>1. Stands(cpu, t)
    BY <1>3, <1>5 DEF Stands
  <2> QED
    BY <2>1, StandsKept
<1>7. /\ nmi = (IF reset THEN "NMI" \in in ELSE cpu.pNMI)
      /\ released = (reset /\ ~cpu.pRESET)
      /\ edge = ("NMI" \notin in /\ cpu.pNMI)
  BY <1>3
<1>8. CASE ~reset \/ (c.rw = "read" /\ "RDY" \notin in /\ ~released)
  <2>1. cpu' = t
    BY <1>2, <1>8
  <2>2. c.rw = cpu.rw
    BY <1>3 DEF Stands
  <2> QED
    BY <1>4, <1>5, <1>6, <1>7, <1>8, <2>1, <2>2
<1>9. CASE ~(~reset \/ (c.rw = "read" /\ "RDY" \notin in /\ ~released))
  <2>1. cpu' = Dispatch(s, opcode, operand, pulled)
    BY <1>2, <1>9
  <2>2. /\ u \in CpuType /\ MicroState(u) /\ PendingInv(u)
        /\ u.pRESET = reset /\ u.pNMI = nmi /\ u.rw = cpu.rw /\ u.iFlag = cpu.iFlag
        /\ u.pendingNMI = cpu.pendingNMI
        /\ ~released => /\ u.exec = cpu.exec /\ u.instr = cpu.instr /\ u.op = cpu.op
                        /\ WritesSoFar(u) = WritesSoFar(cpu)
        /\ released => u.exec = "IN_RESET" /\ u.op = 0
    <3>1. CASE released
      <4>1. u = Interrupted(t, "IN_RESET") /\ "IN_RESET" \in States /\ t \in CpuType
        BY <1>6, <3>1 DEF States, Stands
      <4>2. /\ u \in CpuType /\ u.exec = "IN_RESET" /\ u.instr = "BRK" /\ u.op = 0 /\ u.ex = 0
            /\ u.pRESET = t.pRESET /\ u.pNMI = t.pNMI /\ u.rw = t.rw /\ u.pc = t.pc /\ u.iFlag = t.iFlag
            /\ u.pendingNMI = t.pendingNMI /\ u.pendingIRQ = t.pendingIRQ /\ u.inter = t.inter
        BY <4>1, InterruptedShape
      <4> HIDE DEF u
      <4>3. MicroState(u)
        BY <4>2 DEF MicroState, Sequences
      <4>4. PendingInv(u)
        BY <1>6, <4>2 DEF PendingInv, Sequences
      <4> QED
        BY <1>5, <1>6, <3>1, <4>2, <4>3, <4>4 DEF Stands
    <3>2. CASE ~released
      <4>1. u = t
        BY <3>2
      <4> QED
        BY <1>5, <1>6, <3>2, <4>1 DEF Stands
    <3> QED
      BY <1>4, <3>1, <3>2
  <2> HIDE DEF u
  <2>3. /\ s \in CpuType /\ MicroState(s) /\ PendingInv(s)
        /\ s.pRESET = u.pRESET /\ s.pNMI = u.pNMI /\ s.rw = u.rw
        /\ u.pendingNMI \/ edge => s.pendingNMI
        /\ s.exec = "FETCH_OPCODE" =>
             /\ u.exec = "FETCH_OPCODE" /\ ~s.pendingNMI /\ ~s.pendingIRQ
             /\ "IRQ" \in in \/ u.iFlag
        /\ \/ s.exec = u.exec /\ s.instr = u.instr /\ s.op = u.op /\ WritesSoFar(s) = WritesSoFar(u)
           \/ u.exec = "FETCH_OPCODE" /\ s.exec \in Sequences /\ s.ex = 0
    <3>1. u \in CpuType /\ MicroState(u) /\ PendingInv(u) /\ edge \in BOOLEAN
      BY <1>4, <2>2
    <3> HIDE DEF edge
    <3> QED
      BY ONLY <3>1, TakeShape DEF s
  <2> HIDE DEF s, edge, nmi, released, reset
  <2>4. Moved(s, cpu')
    BY <2>1, <2>3, DispatchMoves
  <2>5. cpu'.pRESET = reset /\ cpu'.pNMI = nmi
    BY <2>2, <2>3, <2>4 DEF Moved
  <2>6. reset /\ (released <=> ~cpu.pRESET)
    BY <1>7, <1>9
  <2>7. cpu.pendingNMI \/ ("NMI" \notin in /\ cpu.pNMI) => s.pendingNMI
    BY <1>7, <2>2, <2>3
  <2>8. Considers(cpu, s)
    BY <2>2, <2>3, <2>6, <2>7 DEF Considers, CpuType
  <2> QED
    BY <1>4, <1>7, <2>3, <2>4, <2>5, <2>6, <2>8 DEF reset
<1> QED
  BY <1>8, <1>9

\* The count of writes after an access.
LEMMA CountShape ==
  ASSUME NEW h \in HistType, NEW s, NEW t
  PROVE  LET after == AfterAccess(h, s, t)
         IN  /\ after \in HistType
             /\ after.owed => h.owed /\ t.exec # "IN_NMI"
             /\ t.exec = "FETCH_OPCODE" => after.writes = 0
             /\ t.exec = "IN_RESET" /\ t.op = 1 => after.writes = 0
             /\ after.writes = 0 \/ after.writes = Written(h, s)
             /\ h.writes \in {0, 1, 2, 3} => Written(h, s) = h.writes + IF s.rw = "write" THEN 1 ELSE 0
<1> DEFINE fresh == t.exec = "FETCH_OPCODE" \/ (t.exec = "IN_RESET" /\ t.op = 1)
           writes == IF fresh THEN 0 ELSE Written(h, s)
           owed == h.owed /\ t.exec # "IN_NMI"
           after == AfterAccess(h, s, t)
<1>1. h.writes \in 0 .. 4 /\ h.owed \in BOOLEAN
  BY DEF HistType, AccessesSeen
<1>2. /\ Written(h, s) \in 0 .. 4
      /\ h.writes \in {0, 1, 2, 3} => Written(h, s) = h.writes + IF s.rw = "write" THEN 1 ELSE 0
  BY <1>1 DEF Written, Counted, AccessesSeen
<1>3. after = [h EXCEPT !.writes = writes, !.owed = owed] /\ writes \in 0 .. 4 /\ owed \in BOOLEAN
  BY <1>1, <1>2 DEF AfterAccess
<1>4. (fresh => writes = 0) /\ (writes = 0 \/ writes = Written(h, s)) /\ (owed => h.owed /\ t.exec # "IN_NMI")
  BY <1>1
<1> HIDE DEF writes, owed, after
<1>5. after \in HistType /\ after.writes = writes /\ after.owed = owed
  BY <1>3 DEF HistType, AccessesSeen
<1> QED
  BY <1>2, <1>4, <1>5 DEF after

\* The writes so far are few.
LEMMA FewWrites ==
  ASSUME NEW s \in CpuType, MicroState(s)
  PROVE  WritesSoFar(s) \in {0, 1, 2, 3}
<1>1. CASE s.exec \in Sequences \cup {"EXECUTE"} /\ s.instr = "BRK"
  <2>1. s.ex \in {0, 1, 2, 3, 4, 5, 6}
    BY <1>1 DEF MicroState, Sequences
  <2> QED
    BY <1>1, <2>1, WritesByCycle
<1>2. CASE s.exec = "EXECUTE" /\ s.instr = "INC"
  <2>1. s.ex \in {0, 1, 2}
    BY <1>2 DEF MicroState
  <2> QED
    BY <1>2, <2>1, WritesByCycle
<1>3. s.exec \in Sequences => s.instr = "BRK"
  BY DEF MicroState
<1> QED
  BY <1>1, <1>2, <1>3, WritesByCycle

\* The invariant is kept by the accesses.
LEMMA AccessKept ==
  ASSUME IInv, Access
  PROVE  IInv'
<1>1. cpu \in CpuType /\ MicroState(cpu) /\ PendingInv(cpu) /\ hist \in HistType /\ in \subseteq Pins
  BY DEF IInv, TypeOK
<1>2. /\ cpu'.pRESET <=> "RESET" \in in
      /\ cpu'.pNMI <=> IF "RESET" \in in THEN "NMI" \in in ELSE cpu.pNMI
      /\ \/ /\ Stands(cpu, cpu')
            /\ "RESET" \notin in \/ (cpu.rw = "read" /\ "RDY" \notin in /\ cpu.pRESET)
         \/ "RESET" \in in /\ \E s \in CpuType : Considers(cpu, s) /\ Moved(s, cpu')
  BY <1>1, AccessCases
<1>3. /\ hist' \in HistType /\ in' = in
      /\ hist'.owed => hist.owed /\ cpu'.exec # "IN_NMI"
      /\ cpu'.exec = "FETCH_OPCODE" => hist'.writes = 0
      /\ cpu'.exec = "IN_RESET" /\ cpu'.op = 1 => hist'.writes = 0
      /\ hist'.writes = 0 \/ hist'.writes = Written(hist, cpu)
      /\ hist.writes \in {0, 1, 2, 3} => Written(hist, cpu) = hist.writes + IF cpu.rw = "write" THEN 1 ELSE 0
  <2>1. hist' = AfterAccess(hist, cpu, cpu') /\ in' = in
    BY DEF Access
  <2> QED
    BY ONLY <1>1, <2>1, CountShape
<1>4. /\ hist.owed => /\ cpu.exec # "IN_NMI"
                      /\ cpu.pendingNMI \/ (cpu.pNMI /\ "NMI" \notin in /\ {"RDY", "RESET"} \subseteq in)
      /\ cpu.pRESET => hist.writes = WritesSoFar(cpu)
      /\ cpu.exec = "IN_RESET" => cpu.rw = "read"
  BY DEF IInv, OwedInv, WritesInv, ResetInv
<1>5. CASE /\ Stands(cpu, cpu')
           /\ "RESET" \notin in \/ (cpu.rw = "read" /\ "RDY" \notin in /\ cpu.pRESET)
  <2>1. MicroState(cpu') /\ PendingInv(cpu') /\ WritesSoFar(cpu') = WritesSoFar(cpu) /\ cpu' \in CpuType
    BY <1>1, <1>5, StandsKept DEF Stands
  <2>2. cpu'.pendingNMI = cpu.pendingNMI /\ cpu'.exec = cpu.exec /\ cpu'.rw = cpu.rw
    BY <1>5 DEF Stands
  <2>3. TypeOK'
    BY <1>1, <1>3, <2>1 DEF TypeOK
  <2>4. OwedInv'
    BY <1>3, <1>4, <1>5, <2>2 DEF OwedInv
  <2>5. WritesInv'
    <3>1. SUFFICES ASSUME "RESET" \in in PROVE hist'.writes = WritesSoFar(cpu')
      BY <1>2 DEF WritesInv
    <3>2. cpu.rw = "read" /\ hist.writes = WritesSoFar(cpu)
      BY <1>4, <1>5, <3>1
    <3>3. WritesSoFar(cpu) \in {0, 1, 2, 3}
      BY <1>1, FewWrites
    <3>4. Written(hist, cpu) = WritesSoFar(cpu)
      BY <1>3, <3>2, <3>3
    <3>5. CASE cpu'.exec = "FETCH_OPCODE" \/ cpu'.exec = "IN_RESET"
      <4>1. WritesSoFar(cpu') = 0
        BY <2>1, <3>5, WritesByCycle DEF Sequences
      <4> QED
        BY <1>3, <2>1, <3>4, <4>1
    <3>6. CASE ~(cpu'.exec = "FETCH_OPCODE" \/ cpu'.exec = "IN_RESET")
      <4>1. hist'.writes = Written(hist, cpu)
        BY <3>6 DEF Access, AfterAccess, HistType
      <4> QED
        BY <2>1, <3>4, <4>1
    <3> QED
      BY <3>5, <3>6
  <2>6. ResetInv'
    BY <1>4, <2>2 DEF ResetInv
  <2> QED
    BY <2>1, <2>3, <2>4, <2>5, <2>6 DEF IInv
<1>6. CASE "RESET" \in in /\ \E s \in CpuType : Considers(cpu, s) /\ Moved(s, cpu')
  <2>1. PICK s \in CpuType : Considers(cpu, s) /\ Moved(s, cpu')
    BY <1>6
  <2>2. TypeOK'
    BY <1>1, <1>3, <2>1 DEF TypeOK, Moved
  <2>3. MicroState(cpu') /\ PendingInv(cpu') /\ cpu' \in CpuType
    BY <2>1 DEF Moved
  <2>4. OwedInv'
    <3>1. SUFFICES ASSUME hist'.owed PROVE cpu'.exec # "IN_NMI" /\ cpu'.pendingNMI
      BY DEF OwedInv
    <3>2. /\ cpu'.exec # "IN_NMI" /\ cpu.exec # "IN_NMI"
          /\ cpu.pendingNMI \/ ("NMI" \notin in /\ cpu.pNMI)
      BY <1>3, <1>4, <3>1
    <3>3. s.pendingNMI
      BY <2>1, <3>2 DEF Considers
    <3>4. s.exec # "IN_NMI"
      <4>1. ASSUME s.exec = "IN_NMI" PROVE FALSE
        <5>1. s.exec \in Sequences /\ s.ex = 0
          BY <2>1, <3>2, <4>1 DEF Considers, Sequences
        <5>2. cpu'.exec = "IN_NMI"
          BY <2>1, <4>1, <5>1 DEF Moved
        <5> QED
          BY <3>2, <5>2
      <4> QED
        BY <4>1
    <3> QED
      BY <2>1, <3>2, <3>3, <3>4 DEF Moved
  <2>5. WritesInv'
    <3>1. SUFFICES hist'.writes = WritesSoFar(cpu')
      BY DEF WritesInv
    <3>2. CASE cpu'.exec = "FETCH_OPCODE"
      <4>1. WritesSoFar(cpu') = 0
        BY <2>3, <3>2, WritesByCycle DEF Sequences
      <4> QED
        BY <1>3, <3>2, <4>1
    <3>3. CASE cpu'.exec # "FETCH_OPCODE" /\ ~cpu.pRESET
      <4>1. s.exec = "IN_RESET" /\ s.op = 0
        BY <2>1, <3>3 DEF Considers
      <4>2. cpu'.exec = "IN_RESET" /\ cpu'.op = 1
        BY <2>1, <3>3, <4>1 DEF Moved
      <4>3. WritesSoFar(cpu') = 0
        BY <2>3, <4>2, WritesByCycle DEF Sequences
      <4> QED
        BY <1>3, <4>2, <4>3
    <3>4. CASE cpu'.exec # "FETCH_OPCODE" /\ cpu.pRESET
      <4>1. hist.writes = WritesSoFar(cpu) /\ WritesSoFar(cpu) \in {0, 1, 2, 3}
        BY <1>1, <1>4, <3>4, FewWrites
      <4>2. Written(hist, cpu) = WritesSoFar(cpu) + IF cpu.rw = "write" THEN 1 ELSE 0
        BY <1>3, <4>1
      <4>3. CASE s.exec = "IN_RESET"
        <5>1. cpu'.exec = "IN_RESET"
          BY <2>1, <3>4, <4>3 DEF Moved
        <5>2. cpu.exec = "IN_RESET"
          BY <2>1, <3>4, <4>3 DEF Considers, Sequences
        <5>3. WritesSoFar(cpu') = 0 /\ WritesSoFar(cpu) = 0
          BY <1>1, <2>3, <5>1, <5>2, WritesByCycle DEF Sequences
        <5> QED
          BY <1>3, <1>4, <4>2, <5>2, <5>3
      <4>4. CASE s.exec # "IN_RESET"
        <5>1. WritesSoFar(s) + (IF s.rw = "write" THEN 1 ELSE 0) = WritesSoFar(cpu') /\ s.rw = cpu.rw
          BY <2>1, <3>4, <4>4 DEF Moved, Considers
        <5>2. WritesSoFar(s) = WritesSoFar(cpu)
          <6>1. CASE cpu.exec = "FETCH_OPCODE" /\ s.exec \in Sequences /\ s.ex = 0
            <7>1. WritesSoFar(cpu) = 0
              BY <1>1, <6>1, WritesByCycle DEF Sequences
            <7>2. WritesSoFar(s) = 0
              BY <6>1 DEF WritesSoFar
            <7> QED
              BY <7>1, <7>2
          <6> QED
            BY <2>1, <3>4, <6>1 DEF Considers
        <5>3. Written(hist, cpu) = WritesSoFar(cpu')
          BY <4>2, <5>1, <5>2
        <5>4. cpu'.exec # "IN_RESET"
          BY <2>1, <4>4 DEF Moved
        <5>5. hist'.writes = Written(hist, cpu)
          BY <3>4, <5>4 DEF Access, AfterAccess, HistType
        <5> QED
          BY <5>3, <5>5
      <4> QED
        BY <4>3, <4>4
    <3> QED
      BY <3>2, <3>3, <3>4
  <2>6. ResetInv'
    BY <2>1 DEF Moved, ResetInv
  <2> QED
    BY <2>2, <2>3, <2>4, <2>5, <2>6 DEF IInv
<1> QED
  BY <1>2, <1>5, <1>6

\* A stretched clock leaves everything but the wait as it is.
LEMMA StretchShape ==
  ASSUME cpu \in CpuType, StretchClock
  PROVE  Stands(cpu, cpu') /\ cpu'.pRESET = cpu.pRESET /\ cpu'.pNMI = cpu.pNMI
<1> DEFINE wait == Stretch(cpu) - 1
<1>1. wait \in Waits
  <2>1. /\ cpu.stretched \in Waits /\ cpu.phase \in Phases
        /\ AccessRatio \in Nat \ {0} /\ Stretch(cpu) > 0
    BY CPUAssumption DEF CpuType, StretchClock
  <2>2. Stretch(cpu) \in {cpu.stretched, cpu.phase + AccessRatio - 1, 0}
    BY DEF Stretch
  <2> QED
    BY <2>1, <2>2 DEF Waits, Phases
<1>2. cpu' = [cpu EXCEPT !.stretched = wait, !.pendingAccess = TRUE]
  BY DEF StretchClock
<1> HIDE DEF wait
<1> QED
  BY <1>1, <1>2 DEF CpuType, Stands

\* Stretching the clock keeps the invariant.
LEMMA StretchKept ==
  ASSUME IInv, StretchClock
  PROVE  IInv'
<1>1. cpu \in CpuType /\ MicroState(cpu) /\ PendingInv(cpu)
  BY DEF IInv, TypeOK
<1>2. Stands(cpu, cpu') /\ cpu'.pRESET = cpu.pRESET /\ cpu'.pNMI = cpu.pNMI /\ in' = in /\ hist' = hist
  BY <1>1, StretchShape DEF StretchClock
<1>3. MicroState(cpu') /\ PendingInv(cpu') /\ WritesSoFar(cpu') = WritesSoFar(cpu)
  BY <1>1, <1>2, StandsKept
<1>4. TypeOK' /\ OwedInv' /\ WritesInv' /\ ResetInv'
  BY <1>2, <1>3 DEF IInv, TypeOK, OwedInv, WritesInv, ResetInv, Stands
<1> QED
  BY <1>3, <1>4 DEF IInv

\* A pin moves: an NMI becomes owed by its edge, and stays so while the CPU can see it.
LEMMA InputKept ==
  ASSUME IInv, NEW p \in Pins, Input(p)
  PROVE  IInv'
<1> DEFINE owed == IF p = "NMI" /\ p \in in
                   THEN hist.owed \/ (cpu.pNMI /\ {"RDY", "RESET"} \subseteq in /\ cpu.exec # "IN_NMI")
                   ELSE IF (p = "NMI" \/ p \in in) /\ p # "IRQ" THEN hist.owed /\ ~cpu.pNMI ELSE hist.owed
<1>1. /\ cpu' = cpu /\ in' = (IF p \in in THEN in \ {p} ELSE in \cup {p})
      /\ hist' = [hist EXCEPT !.owed = owed]
  BY DEF Input
<1>2. hist.owed \in BOOLEAN /\ cpu.pNMI \in BOOLEAN /\ hist \in HistType /\ cpu \in CpuType /\ in \subseteq Pins
  BY DEF IInv, TypeOK, HistType, CpuType
<1>3. owed \in BOOLEAN
  BY <1>2
<1>4. /\ owed => cpu.exec # "IN_NMI"
      /\ owed => cpu.pendingNMI \/ (cpu.pNMI /\ "NMI" \notin in' /\ {"RDY", "RESET"} \subseteq in')
  <2>1. hist.owed => /\ cpu.exec # "IN_NMI"
                     /\ cpu.pendingNMI \/ (cpu.pNMI /\ "NMI" \notin in /\ {"RDY", "RESET"} \subseteq in)
    BY DEF IInv, OwedInv
  <2> QED
    BY <1>1, <1>2, <2>1
<1> HIDE DEF owed
<1>5. hist' \in HistType /\ hist'.writes = hist.writes /\ hist'.owed = owed
  BY <1>1, <1>2, <1>3 DEF HistType
<1>6. TypeOK' /\ OwedInv' /\ WritesInv' /\ ResetInv'
  BY <1>1, <1>2, <1>4, <1>5 DEF IInv, TypeOK, OwedInv, WritesInv, ResetInv
<1> QED
  BY <1>1, <1>6 DEF IInv

\* The invariant holds at the start.
LEMMA InitInv == Init => IInv
<1> SUFFICES ASSUME Init PROVE IInv
  OBVIOUS
<1>1. /\ cpu.exec = "IN_RESET" /\ cpu.op = 0 /\ cpu.ex = 0 /\ cpu.instr = "BRK" /\ cpu.rw = "read"
      /\ cpu.inter = "none" /\ ~hist.owed /\ hist.writes = 0
  BY DEF Init
<1>2. 0 \in Waits /\ 0 \in Phases /\ 0 \in MicroCycles /\ 1 \in Distances
  BY CPUAssumption DEF Waits, Phases, MicroCycles, Distances
<1>3. cpu \in CpuType
  BY <1>2 DEF Init, CpuType, States, Places, Instructions
<1>4. TypeOK
  BY <1>3 DEF Init, TypeOK, HistType, AccessesSeen
<1>5. MicroState(cpu) /\ PendingInv(cpu)
  BY <1>1 DEF MicroState, PendingInv, Sequences
<1>6. OwedInv /\ WritesInv /\ ResetInv
  BY <1>1, <1>3, WritesByCycle DEF OwedInv, WritesInv, ResetInv, Sequences
<1> QED
  BY <1>4, <1>5, <1>6 DEF IInv

\* Every step keeps the invariant.
LEMMA NextInv == IInv /\ [Next]_vars => IInv'
<1> SUFFICES ASSUME IInv, [Next]_vars PROVE IInv'
  OBVIOUS
<1>1. CASE Access
  BY <1>1, AccessKept
<1>2. CASE StretchClock
  BY <1>2, StretchKept
<1>3. ASSUME NEW p \in Pins, Input(p) PROVE IInv'
  BY <1>3, InputKept
<1>4. CASE UNCHANGED vars
  <2>1. cpu' = cpu /\ in' = in /\ hist' = hist
    BY <1>4 DEF vars
  <2> QED
    BY <2>1 DEF IInv, TypeOK, OwedInv, WritesInv, ResetInv
<1> QED
  BY <1>1, <1>2, <1>3, <1>4 DEF Next, Step

\* Where the CPU stands, what is pending and what the bus has seen agree in every state:
\* step() never runs a micro cycle for which it has no case, and never one instruction's
\* cycles on another's counters.
THEOREM MachineConsistent == Spec => []IInv
  BY InitInv, NextInv, PTL DEF Spec

-----------------------------------------------------------------------------
(* What a step may never do.                                               *)

\* Steps that do not run a micro cycle start and end nothing.
LEMMA OnlyMicroCycles ==
  ASSUME IInv, [Next]_vars, cpu'.exec # cpu.exec
  PROVE  Access /\ "RESET" \in in /\ \E s \in CpuType : Considers(cpu, s) /\ Moved(s, cpu')
<1>1. cpu \in CpuType /\ MicroState(cpu) /\ PendingInv(cpu)
  BY DEF IInv, TypeOK
<1>2. Access
  <2>1. ~StretchClock
    BY <1>1, StretchShape DEF Stands
  <2> QED
    BY <2>1 DEF Next, Step, Input, vars
<1> QED
  BY <1>1, <1>2, AccessCases DEF Stands

\* NMI: what is owed is remembered, and what is remembered is taken before an instruction.
THEOREM NmiInTime == Spec => NmiBeforeInstruction
<1>1. IInv /\ [Next]_vars => (Starts(cpu, cpu') => ~hist.owed)
  <2> SUFFICES ASSUME IInv, [Next]_vars, Starts(cpu, cpu'), hist.owed PROVE FALSE
    OBVIOUS
  <2>1. cpu.exec = "FETCH_OPCODE" /\ cpu'.exec \in {"FETCH_OPERAND", "EXECUTE"}
    BY DEF Starts
  <2>2. PICK s \in CpuType : Considers(cpu, s) /\ Moved(s, cpu')
    BY <2>1, OnlyMicroCycles
  <2>3. s.pendingNMI
    BY <2>2 DEF IInv, OwedInv, Considers
  <2>4. s.exec \in Sequences \cup {"IN_RESET"}
    BY <2>1, <2>2, <2>3 DEF Considers
  <2> QED
    BY <2>1, <2>2, <2>4 DEF Moved, Sequences
<1> QED
  BY <1>1, MachineConsistent, PTL DEF Spec, NmiBeforeInstruction

\* IRQ: it is looked at between the last cycle of an instruction and the first of the next.
THEOREM IrqInTime == Spec => IrqBeforeInstruction
<1>1. IInv /\ [Next]_vars => (Starts(cpu, cpu') => "IRQ" \in in \/ cpu.iFlag)
  <2> SUFFICES ASSUME IInv, [Next]_vars, Starts(cpu, cpu') PROVE "IRQ" \in in \/ cpu.iFlag
    OBVIOUS
  <2>1. cpu.exec = "FETCH_OPCODE" /\ cpu'.exec \in {"FETCH_OPERAND", "EXECUTE"}
    BY DEF Starts
  <2>2. PICK s \in CpuType : Considers(cpu, s) /\ Moved(s, cpu')
    BY <2>1, OnlyMicroCycles
  <2>3. s.exec \notin Sequences \cup {"IN_RESET"}
    BY <2>1, <2>2 DEF Moved, Sequences
  <2>4. s.exec = "FETCH_OPCODE"
    BY <2>1, <2>2, <2>3 DEF Considers
  <2> QED
    BY <2>2, <2>4 DEF Considers
<1> QED
  BY <1>1, MachineConsistent, PTL DEF Spec, IrqBeforeInstruction

\* Return addresses: only sequences and BRK prepare a write to the stack, with the program
\* counter where the cycle has it.
THEOREM ReturnAddressSaved == Spec => SavesReturnAddress
<1> DEFINE saved == cpu.at = "stack" /\ cpu.rw = "write" =>
                      cpu.pc = IF cpu.exec \in {"IN_IRQ", "IN_NMI"} THEN 0 ELSE 2
<1>1. IInv => saved
  <2> SUFFICES ASSUME IInv, cpu.at = "stack", cpu.rw = "write"
               PROVE  cpu.pc = IF cpu.exec \in {"IN_IRQ", "IN_NMI"} THEN 0 ELSE 2
    OBVIOUS
  <2>1. cpu \in CpuType /\ MicroState(cpu) /\ cpu.exec # "IN_RESET"
    BY DEF IInv, TypeOK, ResetInv
  <2>2. CASE cpu.exec \in Sequences
    <3>1. cpu.ex \in {2, 3, 4}
      BY <2>1, <2>2 DEF MicroState
    <3> QED
      BY <2>1, <2>2, <3>1 DEF MicroState, Sequences
  <2>3. CASE cpu.exec = "EXECUTE"
    <3>1. cpu.instr \notin {"NOP", "CLI", "SEI", "LDI", "LDA", "PLP", "RTI", "INC"}
      BY <2>1, <2>3 DEF MicroState
    <3>2. cpu.instr # "STA"
      BY <2>1, <2>3 DEF MicroState
    <3>3. cpu.instr = "BRK"
      BY <2>1, <3>1, <3>2 DEF CpuType, Instructions
    <3> QED
      BY <2>1, <2>3, <3>3 DEF MicroState
  <2>4. cpu.exec \in Sequences \cup {"EXECUTE"}
    BY <2>1 DEF MicroState, CpuType, States, Sequences
  <2> QED
    BY <2>2, <2>3, <2>4
<1>2. saved' => ((cpu' # cpu /\ cpu'.at = "stack" /\ cpu'.rw = "write") =>
                   cpu'.pc = IF cpu'.exec \in {"IN_IRQ", "IN_NMI"} THEN 0 ELSE 2)
  OBVIOUS
<1> HIDE DEF saved
<1> QED
  BY <1>1, <1>2, MachineConsistent, PTL DEF SavesReturnAddress

\* Time: an instruction that ends has been charged what the table says.
THEOREM TimeCharged == Spec => CyclesCharged
<1>1. IInv /\ [Next]_vars => (Ends(cpu, cpu') => Charged(cpu') = DocumentedCycles[cpu.instr])
  <2> SUFFICES ASSUME IInv, [Next]_vars, Ends(cpu, cpu')
               PROVE  Charged(cpu') = DocumentedCycles[cpu.instr]
    OBVIOUS
  <2>1. cpu.exec # "FETCH_OPCODE" /\ cpu'.exec = "FETCH_OPCODE"
    BY DEF Ends
  <2>2. PICK s \in CpuType : Considers(cpu, s) /\ Moved(s, cpu')
    BY <2>1, OnlyMicroCycles
  <2>3. ~(s.exec = "IN_RESET" /\ s.op = 0)
    BY <2>1, <2>2 DEF Moved
  <2>4. s.instr = cpu.instr
    BY <2>1, <2>2, <2>3 DEF Considers
  <2> QED
    BY <2>1, <2>2, <2>4 DEF Moved
<1> QED
  BY <1>1, MachineConsistent, PTL DEF Spec, CyclesCharged

\* Writes: an instruction that ends has made each of its writes once.
THEOREM WritesMadeOnce == Spec => WritesExact
<1>1. IInv /\ [Next]_vars =>
        (Ends(cpu, cpu') /\ cpu.exec # "IN_RESET" =>
           Written(hist, cpu) = CASE cpu.instr = "STA" -> 1
                                  [] cpu.instr = "INC" -> 2
                                  [] cpu.instr = "BRK" -> 3
                                  [] OTHER             -> 0)
  <2> SUFFICES ASSUME IInv, [Next]_vars, Ends(cpu, cpu'), cpu.exec # "IN_RESET"
               PROVE  Written(hist, cpu) = Total(cpu.instr)
    BY DEF Total
  <2>1. cpu.exec # "FETCH_OPCODE" /\ cpu'.exec = "FETCH_OPCODE"
    BY DEF Ends
  <2>2. PICK s \in CpuType : Considers(cpu, s) /\ Moved(s, cpu')
    BY <2>1, OnlyMicroCycles
  <2>3. ~(s.exec = "IN_RESET" /\ s.op = 0)
    BY <2>1, <2>2 DEF Moved
  <2>4. /\ cpu.pRESET /\ s.exec = cpu.exec /\ s.instr = cpu.instr /\ s.rw = cpu.rw
        /\ WritesSoFar(s) = WritesSoFar(cpu)
    BY <2>1, <2>2, <2>3 DEF Considers
  <2>5. WritesSoFar(cpu) + (IF cpu.rw = "write" THEN 1 ELSE 0) = Total(cpu.instr)
    BY <2>1, <2>2, <2>4 DEF Moved
  <2>6. hist \in HistType /\ hist.writes = WritesSoFar(cpu) /\ WritesSoFar(cpu) \in {0, 1, 2, 3}
    BY <2>4, FewWrites DEF IInv, TypeOK, WritesInv
  <2>7. Written(hist, cpu) = hist.writes + IF cpu.rw = "write" THEN 1 ELSE 0
    BY <2>6, CountShape
  <2> QED
    BY <2>5, <2>6, <2>7
<1> QED
  BY <1>1, MachineConsistent, PTL DEF Spec, WritesExact

=============================================================================

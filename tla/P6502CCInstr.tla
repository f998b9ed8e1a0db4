---------------------------- MODULE P6502CCInstr ----------------------------
(***************************************************************************)
(* The instructions of the cycle-accurate 6502 (shared/P6502CC.cpp) with   *)
(* their data: the micro programs of the addressing modes and of the       *)
(* instructions.  A call of step() makes the memory access the previous    *)
(* one prepared and executes one micro cycle.  RESET, RDY and a stretched  *)
(* clock are in P6502CC, which leaves the data out.                        *)
(*                                                                         *)
(* Of the record s, `op' and `ex' are the micro cycle counters, `code' the *)
(* instruction and its mode, `rw', `adr' and `data' the bus.  Each handler *)
(* keeps the name it has in the code; one with a suffix is a plausible     *)
(* error in the handler it is named after.                                 *)
(***************************************************************************)
EXTENDS P6502

-----------------------------------------------------------------------------
(* The bus.                                                                *)

prepMemRead(s, adr) == [s EXCEPT !.rw = "read", !.adr = adr % 65536]
prepMemWrite(s, adr, v) == [s EXCEPT !.rw = "write", !.adr = adr % 65536, !.data = v]

initOperandByteRead(s) == [prepMemRead(s, s.pc) EXCEPT !.pc = (@ + 1) % 65536]
initDummyOperandRead(s) == prepMemRead(s, s.pc)

Push(s, v) == [prepMemWrite(s, 256 + s.sp, v) EXCEPT !.sp = Byte(@ - 1)]
ReadStack(s) == prepMemRead(s, 256 + s.sp)
Pull(s) == [ReadStack(s) EXCEPT !.sp = Byte(@ + 1)]

\* The cycles of the instruction are charged, and its opcode is read next.
initFetch(s) ==
  [prepMemRead(s, s.pc) EXCEPT !.exec = "FETCH_OPCODE", !.pc = (@ + 1) % 65536,
                               !.cycles = @ + s.op + s.ex]

completeFetch(s, code) == [s EXCEPT !.code = code, !.op = 0, !.ex = 0]

-----------------------------------------------------------------------------
(* Addressing modes.                                                       *)

NextOp(s) == [s EXCEPT !.op = @ + 1]
Directly(s) == [s EXCEPT !.exec = "EXECUTE_DIRECTLY"]
HandOver(s) == [Directly(s) EXCEPT !.rv = s.data]

ReadOrWrite(s) == IF ReadsMem(s.code) THEN prepMemRead(s, s.opAdr) ELSE Directly(s)

impliedAdrHdlr(s) == [initDummyOperandRead(NextOp(s)) EXCEPT !.exec = "EXECUTE"]
accAdrHdlr(s) == impliedAdrHdlr(s)
immediateAdrHdlr(s) == [initOperandByteRead(NextOp(s)) EXCEPT !.exec = "EXECUTE"]

relativeAdrHdlr(s) ==
  IF s.op = 0 THEN initOperandByteRead(NextOp(s))
  ELSE [HandOver(NextOp(s)) EXCEPT !.opAdr = (Signed(s.data) + s.pc) % 65536]

zeroPageAdrHdlr(s) ==
  CASE s.op = 0 -> initOperandByteRead(NextOp(s))
    [] s.op = 1 -> ReadOrWrite([NextOp(s) EXCEPT !.opAdr = s.data])
    [] s.op = 2 -> HandOver(NextOp(s))

ZeroPageIndexed(s, index) ==
  CASE s.op = 0 -> initOperandByteRead(NextOp(s))
    [] s.op = 1 -> prepMemRead([NextOp(s) EXCEPT !.opAdr = s.data], s.data)
    [] s.op = 2 -> ReadOrWrite([NextOp(s) EXCEPT !.opAdr = Byte(@ + index)])
    [] s.op = 3 -> HandOver(NextOp(s))

zeroPageXAdrHdlr(s) == ZeroPageIndexed(s, s.x)
zeroPageYAdrHdlr(s) == ZeroPageIndexed(s, s.y)

absoluteAdrHdlr(s) ==
  CASE s.op = 0 -> initOperandByteRead(NextOp(s))
    [] s.op = 1 -> initOperandByteRead([NextOp(s) EXCEPT !.opAdr = s.data])
    [] s.op = 2 -> ReadOrWrite([NextOp(s) EXCEPT !.opAdr = Word(s.data, @)])
    [] s.op = 3 -> HandOver(NextOp(s))

SamePage(base, adr) == 256 * (base \div 256) + (adr % 256)

\* The read before the carry into the high byte; then the right place, unless the
\* instruction only writes, or only reads and no page boundary is crossed.
AbsoluteIndexed(s, index) ==
  LET operand == Word(s.data, s.opAdr)
      adr     == (operand + index) % 65536
      only    == ReadsMem(s.code) /\ ~WritesMem(s.code) /\ ~PageBoundaryCrossed(s.opAdr, s.op16)
      writes  == ~ReadsMem(s.code) /\ WritesMem(s.code)
  IN  CASE s.op = 0 -> initOperandByteRead(NextOp(s))
        [] s.op = 1 -> initOperandByteRead([NextOp(s) EXCEPT !.opAdr = s.data])
        [] s.op = 2 -> prepMemRead([NextOp(s) EXCEPT !.op16 = operand, !.opAdr = adr], SamePage(operand, adr))
        [] s.op = 3 -> IF only \/ writes THEN HandOver(NextOp(s)) ELSE prepMemRead(NextOp(s), s.opAdr)
        [] s.op = 4 -> HandOver(NextOp(s))

absoluteXAdrHdlr(s) == AbsoluteIndexed(s, s.x)
absoluteYAdrHdlr(s) == AbsoluteIndexed(s, s.y)

\* JMP ($12FF) takes its high byte from $1200.
indirectAdrHdlr(s) ==
  CASE s.op = 0 -> initOperandByteRead(NextOp(s))
    [] s.op = 1 -> initOperandByteRead([NextOp(s) EXCEPT !.opAdr = s.data])
    [] s.op = 2 -> prepMemRead([NextOp(s) EXCEPT !.opAdr = Word(s.data, @)], Word(s.data, s.opAdr))
    [] s.op = 3 -> prepMemRead([NextOp(s) EXCEPT !.opAdr = s.data], SamePage(s.opAdr, s.opAdr + 1))
    [] s.op = 4 -> Directly([NextOp(s) EXCEPT !.opAdr = Word(s.data, @)])

preIndXAdrHdlr(s) ==
  CASE s.op = 0 -> initOperandByteRead(NextOp(s))
    [] s.op = 1 -> prepMemRead([NextOp(s) EXCEPT !.look = s.data], s.data)
    [] s.op = 2 -> prepMemRead([NextOp(s) EXCEPT !.look = Byte(@ + s.x)], Byte(s.look + s.x))
    [] s.op = 3 -> prepMemRead([NextOp(s) EXCEPT !.eff = s.data], Byte(s.look + 1))
    [] s.op = 4 -> ReadOrWrite([NextOp(s) EXCEPT !.opAdr = Word(s.data, s.eff)])
    [] s.op = 5 -> HandOver(NextOp(s))

postIndYAdrHdlr(s) ==
  LET base == Word(s.data, s.eff)
      again == ReadsMem(s.code) /\ (WritesMem(s.code) \/ PageBoundaryCrossed(s.opAdr, s.op16))
  IN  CASE s.op = 0 -> initOperandByteRead(NextOp(s))
        [] s.op = 1 -> prepMemRead([NextOp(s) EXCEPT !.look = s.data], s.data)
        [] s.op = 2 -> prepMemRead([NextOp(s) EXCEPT !.eff = s.data], Byte(s.look + 1))
        [] s.op = 3 -> prepMemRead([NextOp(s) EXCEPT !.opAdr = (base + s.y) % 65536,
                                                     !.op16 = SamePage(base, base + s.y)],
                                   SamePage(base, base + s.y))
        [] s.op = 4 -> IF again THEN prepMemRead(NextOp(s), s.opAdr) ELSE HandOver(NextOp(s))
        [] s.op = 5 -> HandOver(NextOp(s))

-----------------------------------------------------------------------------
(* Instructions that end in their first execution cycle.                   *)

NextEx(s) == [s EXCEPT !.ex = @ + 1]
Done(s) == initFetch(NextEx(s))

LoadA(s, v) == Done(setNZflags([s EXCEPT !.a = v], v))
LoadX(s, v) == Done(setNZflags([s EXCEPT !.x = v], v))
LoadY(s, v) == Done(setNZflags([s EXCEPT !.y = v], v))

ADCExecHdlr(s) == Done(ADCCalc(s))
SBCExecHdlr(s) == Done(SBCCalc(s))
ANDExecHdlr(s) == LoadA(s, And(s.a, s.rv))
EORExecHdlr(s) == LoadA(s, Xor(s.a, s.rv))
ORAExecHdlr(s) == LoadA(s, Or(s.a, s.rv))
LDAExecHdlr(s) == LoadA(s, s.rv)
LDXExecHdlr(s) == LoadX(s, s.rv)
LDYExecHdlr(s) == LoadY(s, s.rv)
TAXExecHdlr(s) == LoadX(s, s.a)
TAYExecHdlr(s) == LoadY(s, s.a)
TSXExecHdlr(s) == LoadX(s, s.sp)
TXAExecHdlr(s) == LoadA(s, s.x)
TYAExecHdlr(s) == LoadA(s, s.y)
TXSExecHdlr(s) == Done([s EXCEPT !.sp = s.x])
DEXExecHdlr(s) == LoadX(s, Byte(s.x - 1))
DEYExecHdlr(s) == LoadY(s, Byte(s.y - 1))
INXExecHdlr(s) == LoadX(s, Byte(s.x + 1))
INYExecHdlr(s) == LoadY(s, Byte(s.y + 1))
NOPExecHdlr(s) == Done(s)
JMPExecHdlr(s) == Done([s EXCEPT !.pc = s.opAdr])
CLCExecHdlr(s) == Done([s EXCEPT !.sr = SetFlag(@, C, FALSE)])
CLDExecHdlr(s) == Done([s EXCEPT !.sr = SetFlag(@, D, FALSE)])
CLIExecHdlr(s) == Done([s EXCEPT !.sr = SetFlag(@, I, FALSE)])
CLVExecHdlr(s) == Done([s EXCEPT !.sr = SetFlag(@, V, FALSE)])
SECExecHdlr(s) == Done([s EXCEPT !.sr = SetFlag(@, C, TRUE)])
SEDExecHdlr(s) == Done([s EXCEPT !.sr = SetFlag(@, D, TRUE)])
SEIExecHdlr(s) == Done([s EXCEPT !.sr = SetFlag(@, I, TRUE)])

Compare(s, register) == Done(setNZCflags(s, Byte(register - s.rv), register >= s.rv))
CMPExecHdlr(s) == Compare(s, s.a)
CPXExecHdlr(s) == Compare(s, s.x)
CPYExecHdlr(s) == Compare(s, s.y)

BITExecHdlr(s) == Done(setNZVflags(s, Flag(s.rv, N), And(s.a, s.rv) = 0, Flag(s.rv, V)))

\* The flags are those of A before it is shifted.
ALRExecHdlr(s) ==
  LET v == And(s.a, s.rv) IN Done(setNZCflags([s EXCEPT !.a = v \div 2], v, v % 2 = 1))

ARRExecHdlr(s) ==
  LET v == And(s.a, s.rv)
  IN  Done(setNZCflags([s EXCEPT !.a = v \div 2 + 128 * Bit(s.sr, C)], v, v % 2 = 1))

\* C is cleared unless b7 is set, and never set.
ANCExecHdlr(s) ==
  LET v == And(s.a, s.rv)
  IN  Done(setNZCflags([s EXCEPT !.a = v], v, Flag(s.sr, C) /\ v >= 128))

ANC2ExecHdlr(s) == ANCExecHdlr(s)

LASExecHdlr(s) == LET v == And(s.rv, s.sp) IN LoadA([s EXCEPT !.x = v, !.sp = v], v)
LAXExecHdlr(s) == LoadA([s EXCEPT !.x = s.rv], s.rv)

SBXExecHdlr(s) ==
  LET v == Byte(And(s.a, s.x) - s.rv) IN Done(setNZCflags([s EXCEPT !.x = v], v, v >= s.rv))

-----------------------------------------------------------------------------
(* Branches: one cycle if not taken, one more if taken, and one more if    *)
(* the target is in another page.                                          *)

BranchNoPenalty(s, taken) ==
  CASE ~taken                -> Done(s)
    [] taken /\ s.ex = 0     -> NextEx(s)
    [] OTHER                 -> Done([s EXCEPT !.pc = s.opAdr])

Branch(s, taken) ==
  CASE ~taken                -> Done(s)
    [] taken /\ s.ex = 0     -> NextEx(s)
    [] taken /\ s.ex = 1 /\ PageBoundaryCrossed(s.pc, s.opAdr) -> initDummyOperandRead(NextEx(s))
    [] OTHER                 -> Done([s EXCEPT !.pc = s.opAdr])

BCCExecHdlr(s) == Branch(s, ~Flag(s.sr, C))
BCSExecHdlr(s) == Branch(s, Flag(s.sr, C))
BEQExecHdlr(s) == Branch(s, Flag(s.sr, Z))
BMIExecHdlr(s) == Branch(s, Flag(s.sr, N))
BNEExecHdlr(s) == Branch(s, ~Flag(s.sr, Z))
BPLExecHdlr(s) == Branch(s, ~Flag(s.sr, N))
BVCExecHdlr(s) == Branch(s, ~Flag(s.sr, V))
BVSExecHdlr(s) == Branch(s, Flag(s.sr, V))

-----------------------------------------------------------------------------
(* Instructions that write.                                                *)

Write(s, v) == IF s.ex = 0 THEN prepMemWrite(NextEx(s), s.opAdr, v) ELSE Done(s)

STAExecHdlr(s) == Write(s, s.a)
STXExecHdlr(s) == Write(s, s.x)
STYExecHdlr(s) == Write(s, s.y)
SAXExecHdlr(s) == Write(s, And(s.x, s.a))

\* The old value is written back before the new one; the flags come last.
Modify(s, v, last) ==
  CASE s.ex = 0 -> prepMemWrite(NextEx(s), s.opAdr, s.rv)
    [] s.ex = 1 -> prepMemWrite(NextEx(s), s.opAdr, v)
    [] s.ex = 2 -> Done(last)

DECExecHdlr(s) == LET v == Byte(s.rv - 1) IN Modify(s, v, setNZflags(s, v))
INCExecHdlr(s) == LET v == Byte(s.rv + 1) IN Modify(s, v, setNZflags(s, v))
ISCExecHdlr(s) == LET v == Byte(s.rv + 1) IN Modify(s, v, Subtract(s, v))

\* Compares A with the value before it is decremented.
DCPExecHdlr(s) == Modify(s, Byte(s.rv - 1), setNZCflags(s, Byte(s.a - s.rv), s.a >= s.rv))

\* A shift of A ends at once; a shift of memory writes twice.
Shift(s, old, new, carry) ==
  LET t == setNZCflags([NextEx(s) EXCEPT !.rv = old, !.calc = new], new, carry)
  IN  CASE s.ex = 0 /\ ~WritesMem(s.code) -> initFetch([t EXCEPT !.a = new])
        [] s.ex = 0 /\ WritesMem(s.code)  -> prepMemWrite(t, s.opAdr, old)
        [] s.ex = 1 -> prepMemWrite(NextEx(s), s.opAdr, s.calc)
        [] s.ex = 2 -> Done(s)

MemoryOrA(s, memory) == IF WritesMem(s.code) THEN memory ELSE s.a
RotatedLeft(s, v)  == Byte(2 * v) + Bit(s.sr, C)
RotatedRight(s, v) == v \div 2 + 128 * Bit(s.sr, C)

ASLExecHdlr(s) == LET v == MemoryOrA(s, s.rv)   IN Shift(s, v, Byte(2 * v), v >= 128)
LSRExecHdlr(s) == LET v == MemoryOrA(s, s.data) IN Shift(s, v, v \div 2, v % 2 = 1)
ROLExecHdlr(s) == LET v == MemoryOrA(s, s.data) IN Shift(s, v, RotatedLeft(s, v), v >= 128)
RORExecHdlr(s) == LET v == MemoryOrA(s, s.data) IN Shift(s, v, RotatedRight(s, v), v % 2 = 1)

SLOExecHdlr(s) ==
  LET t == Shift(s, s.rv, Byte(2 * s.rv), s.rv >= 128) IN IF s.ex = 0 THEN [t EXCEPT !.a = Or(@, t.calc)] ELSE t

SREExecHdlr(s) ==
  LET t == Shift(s, s.data, s.data \div 2, s.data % 2 = 1) IN IF s.ex = 0 THEN [t EXCEPT !.a = Xor(@, t.calc)] ELSE t

RLAExecHdlr(s) ==
  LET t == Shift(s, s.data, RotatedLeft(s, s.data), s.data >= 128)
  IN  IF s.ex = 0 THEN [t EXCEPT !.a = And(@, t.calc)] ELSE t

RRAExecHdlr(s) ==
  LET t == Shift(s, s.data, RotatedRight(s, s.data), s.data % 2 = 1)
  IN  IF s.ex = 0 THEN Add(t, t.calc) ELSE t

-----------------------------------------------------------------------------
(* The stack.                                                              *)

PHAExecHdlr(s) == IF s.ex = 0 THEN Push(NextEx(s), s.a) ELSE Done(s)
PHPExecHdlr(s) == IF s.ex = 0 THEN Push(NextEx(s), Or(s.sr, Or(B, B5))) ELSE Done(s)

PLAExecHdlr(s) ==
  CASE s.ex = 0 -> Pull(NextEx(s))
    [] s.ex = 1 -> ReadStack(NextEx(s))
    [] s.ex = 2 -> LoadA(s, s.data)

PLPExecHdlr(s) ==
  CASE s.ex = 0 -> Pull(NextEx(s))
    [] s.ex = 1 -> ReadStack(NextEx(s))
    [] s.ex = 2 -> Done([s EXCEPT !.sr = Restored(@, s.data)])

\* JSR reads its operand bytes itself, one before and one after it has pushed PC.
JSRExecHdlr(s) ==
  CASE s.ex = 0 -> initOperandByteRead(NextEx(s))
    [] s.ex = 1 -> ReadStack([NextEx(s) EXCEPT !.opAdr = s.data])
    [] s.ex = 2 -> Push(NextEx(s), s.pc \div 256)
    [] s.ex = 3 -> Push(NextEx(s), Byte(s.pc))
    [] s.ex = 4 -> initOperandByteRead(NextEx(s))
    [] s.ex = 5 -> Done([s EXCEPT !.opAdr = Word(s.data, @), !.pc = Word(s.data, s.opAdr)])

RTSExecHdlr(s) ==
  CASE s.ex \in {0, 1} -> Pull(NextEx(s))
    [] s.ex = 2 -> ReadStack([NextEx(s) EXCEPT !.tmp = s.data])
    [] s.ex = 3 -> initOperandByteRead([NextEx(s) EXCEPT !.pc = Word(s.data, s.tmp)])
    [] s.ex = 4 -> Done(s)

RTIExecHdlr(s) ==
  CASE s.ex \in {0, 1} -> Pull(NextEx(s))
    [] s.ex = 2 -> Pull([NextEx(s) EXCEPT !.sr = Restored(@, s.data)])
    [] s.ex = 3 -> ReadStack([NextEx(s) EXCEPT !.tmp = s.data])
    [] s.ex = 4 -> Done([s EXCEPT !.pc = Word(s.data, s.tmp)])

\* BRK, and the sequences of IRQ and NMI, which have a dummy read more; the program
\* counter is then put back to the opcode that is not executed.
BRKExecHdlr(s) ==
  LET brk == s.inter = "none"
      cycle == IF s.ex = 0 /\ brk THEN 1 ELSE s.ex
      t == [s EXCEPT !.ex = cycle + 1, !.pc = IF s.ex = 0 /\ brk THEN (@ + 1) % 65536 ELSE @]
      vector == IF s.inter = "NMI" THEN 65530 ELSE 65534
  IN  CASE cycle = 0 -> [initDummyOperandRead(t) EXCEPT !.pc = (@ - 1) % 65536]
        [] cycle = 1 -> Push(t, t.pc \div 256)
        [] cycle = 2 -> Push(t, Byte(t.pc))
        [] cycle = 3 -> Push(t, IF s.exec \in {"IN_IRQ", "IN_NMI"} THEN s.sr ELSE Or(s.sr, B))
        [] cycle = 4 -> prepMemRead([t EXCEPT !.sr = IF brk THEN @ ELSE SetFlag(@, I, TRUE)], vector)
        [] cycle = 5 -> prepMemRead([t EXCEPT !.tmp = s.data], vector + 1)
        [] cycle = 6 -> initFetch([t EXCEPT !.pc = Word(s.data, s.tmp), !.inter = "none",
                                            !.ex = IF brk THEN @ - 1 ELSE @])

-----------------------------------------------------------------------------
(* A call of step().                                                       *)

AddrHdlr(s) ==
  CASE s.code[1] = "JSR"          -> JSRExecHdlr(s)
    [] s.code[1] # "JSR" /\ s.code[2] = "Absolute" -> absoluteAdrHdlr(s)
    [] s.code[2] = "Implied"      -> impliedAdrHdlr(s)
    [] s.code[2] = "Accumulator"  -> accAdrHdlr(s)
    [] s.code[2] = "Immediate"    -> immediateAdrHdlr(s)
    [] s.code[2] = "Relative"     -> relativeAdrHdlr(s)
    [] s.code[2] = "ZeroPage"     -> zeroPageAdrHdlr(s)
    [] s.code[2] = "ZeroPage_X"   -> zeroPageXAdrHdlr(s)
    [] s.code[2] = "ZeroPage_Y"   -> zeroPageYAdrHdlr(s)
    [] s.code[2] = "Absolute_X"   -> absoluteXAdrHdlr(s)
    [] s.code[2] = "Absolute_Y"   -> absoluteYAdrHdlr(s)
    [] s.code[2] = "Indirect"     -> indirectAdrHdlr(s)
    [] s.code[2] = "PreInd_X"     -> preIndXAdrHdlr(s)
    [] s.code[2] = "PostInd_Y"    -> postIndYAdrHdlr(s)

ExecHdlr(s) ==
  LET i == s.code[1]
  IN
      CASE i = "ADC" -> ADCExecHdlr(s) [] i = "AND" -> ANDExecHdlr(s) [] i = "ASL" -> ASLExecHdlr(s)
        [] i = "BCC" -> BCCExecHdlr(s) [] i = "BCS" -> BCSExecHdlr(s) [] i = "BEQ" -> BEQExecHdlr(s)
        [] i = "BIT" -> BITExecHdlr(s) [] i = "BMI" -> BMIExecHdlr(s) [] i = "BNE" -> BNEExecHdlr(s)
        [] i = "BPL" -> BPLExecHdlr(s) [] i = "BRK" -> BRKExecHdlr(s) [] i = "BVC" -> BVCExecHdlr(s)
        [] i = "BVS" -> BVSExecHdlr(s) [] i = "CLC" -> CLCExecHdlr(s) [] i = "CLD" -> CLDExecHdlr(s)
        [] i = "CLI" -> CLIExecHdlr(s) [] i = "CLV" -> CLVExecHdlr(s) [] i = "CMP" -> CMPExecHdlr(s)
        [] i = "CPX" -> CPXExecHdlr(s) [] i = "CPY" -> CPYExecHdlr(s) [] i = "DEC" -> DECExecHdlr(s)
        [] i = "DEX" -> DEXExecHdlr(s) [] i = "DEY" -> DEYExecHdlr(s) [] i = "EOR" -> EORExecHdlr(s)
        [] i = "INC" -> INCExecHdlr(s) [] i = "INX" -> INXExecHdlr(s) [] i = "INY" -> INYExecHdlr(s)
        [] i = "JMP" -> JMPExecHdlr(s) [] i = "LDA" -> LDAExecHdlr(s) [] i = "LDX" -> LDXExecHdlr(s)
        [] i = "LDY" -> LDYExecHdlr(s) [] i = "LSR" -> LSRExecHdlr(s) [] i = "NOP" -> NOPExecHdlr(s)
        [] i = "ORA" -> ORAExecHdlr(s) [] i = "PHA" -> PHAExecHdlr(s) [] i = "PHP" -> PHPExecHdlr(s)
        [] i = "PLA" -> PLAExecHdlr(s) [] i = "PLP" -> PLPExecHdlr(s) [] i = "ROL" -> ROLExecHdlr(s)
        [] i = "ROR" -> RORExecHdlr(s) [] i = "RTI" -> RTIExecHdlr(s) [] i = "RTS" -> RTSExecHdlr(s)
        [] i = "SBC" -> SBCExecHdlr(s) [] i = "SEC" -> SECExecHdlr(s) [] i = "SED" -> SEDExecHdlr(s)
        [] i = "SEI" -> SEIExecHdlr(s) [] i = "STA" -> STAExecHdlr(s) [] i = "STX" -> STXExecHdlr(s)
        [] i = "STY" -> STYExecHdlr(s) [] i = "TAX" -> TAXExecHdlr(s) [] i = "TAY" -> TAYExecHdlr(s)
        [] i = "TSX" -> TSXExecHdlr(s) [] i = "TXA" -> TXAExecHdlr(s) [] i = "TXS" -> TXSExecHdlr(s)
        [] i = "TYA" -> TYAExecHdlr(s) [] i = "ALR" -> ALRExecHdlr(s) [] i = "ANC" -> ANCExecHdlr(s)
        [] i = "ANC2" -> ANC2ExecHdlr(s) [] i = "ARR" -> ARRExecHdlr(s) [] i = "DCP" -> DCPExecHdlr(s)
        [] i = "ISC" -> ISCExecHdlr(s) [] i = "LAS" -> LASExecHdlr(s) [] i = "LAX" -> LAXExecHdlr(s)
        [] i = "RLA" -> RLAExecHdlr(s) [] i = "RRA" -> RRAExecHdlr(s) [] i = "SAX" -> SAXExecHdlr(s)
        [] i = "SBX" -> SBXExecHdlr(s) [] i = "SLO" -> SLOExecHdlr(s) [] i = "SRE" -> SREExecHdlr(s)

\* The access that was prepared.  What is read becomes mReadVal unless it is an opcode.
Access(s) ==
  LET v == Content(s, s.adr)
  IN  IF s.rw = "write" THEN Stored(s, s.adr, s.data)
      ELSE [s EXCEPT !.data = v, !.reads = @ \cup {s.adr},
                     !.rv = IF s.exec = "FETCH_OPCODE" THEN @ ELSE v]

\* An interrupt `request' that is enabled replaces the instruction `code'.
Taken(s, request) ==
  s.exec = "FETCH_OPCODE" /\ (request = "NMI" \/ (request = "IRQ" /\ ~Flag(s.sr, I)))

step(s, code, request) ==
  LET t == Access(s)
  IN  CASE Taken(s, request) ->
             BRKExecHdlr([completeFetch(t, <<"BRK", "Implied">>)
                          EXCEPT !.inter = request,
                                 !.exec = IF request = "NMI" THEN "IN_NMI" ELSE "IN_IRQ"])
        [] s.exec = "FETCH_OPCODE" /\ ~Taken(s, request) ->
             AddrHdlr([completeFetch(t, code) EXCEPT !.exec = "FETCH_OPERAND"])
        [] s.exec \in {"IN_IRQ", "IN_NMI"} -> BRKExecHdlr(t)
        [] s.exec = "FETCH_OPERAND" -> AddrHdlr(t)
        [] s.exec = "EXECUTE_DIRECTLY" -> ExecHdlr([t EXCEPT !.exec = "EXECUTE", !.op = @ - 1])
        [] s.exec = "EXECUTE" -> ExecHdlr(t)

=============================================================================

---------------------------- MODULE P6502ICInstr ----------------------------
(***************************************************************************)
(* The instructions of the instruction-accurate 6502 (shared/P6502IC.cpp): *)
(* advanceInstr() serves a pending interrupt and then fetches, decodes and *)
(* executes a whole instruction.                                           *)
(*                                                                         *)
(* Of the record q, `opcodePC' is mOpcodePC, `opAdr' mOperandAddress and   *)
(* `op16' mOperand16.  Each handler keeps the name it has in the code; one *)
(* with a suffix is a plausible error in the handler it is named after.    *)
(***************************************************************************)
EXTENDS P6502

-----------------------------------------------------------------------------
(* Memory, the stack and time.                                             *)

Touch(q, adr) == [q EXCEPT !.reads = @ \cup {adr % 65536}]
Load(q, adr)  == [Touch(q, adr) EXCEPT !.rv = Content(q, adr % 65536)]
tick(q, n)    == [q EXCEPT !.cycles = @ + n]

push(q, v) == [Stored(q, 256 + q.sp, v) EXCEPT !.sp = Byte(@ - 1)]
pushWord(q, w) == push(push(q, Byte(w \div 256)), Byte(w))

Top(q, n) == Content(q, 256 + Byte(q.sp + n))
pull(q, n) ==
  [q EXCEPT !.sp = Byte(@ + n), !.reads = @ \cup {256 + Byte(q.sp + k) : k \in 1 .. n}]

\* An operand byte.
NextByte(q) == Content(q, q.pc)
PastByte(q) == [Touch(q, q.pc) EXCEPT !.pc = (@ + 1) % 65536]

Vector(q, adr) ==
  [Touch(Touch(q, adr), adr + 1) EXCEPT !.pc = Word(Content(q, adr + 1), Content(q, adr))]

-----------------------------------------------------------------------------
(* Addressing modes.                                                       *)

accAdrHdlr(q) == [q EXCEPT !.rv = q.a]
impliedAdrHdlr(q) == Touch(q, q.pc)
immediateAdrHdlr(q) == [PastByte(q) EXCEPT !.rv = NextByte(q), !.op16 = NextByte(q)]

relativeAdrHdlr(q) ==
  LET offset == Signed(NextByte(q))
  IN  [PastByte(q) EXCEPT !.op16 = offset, !.opAdr = (offset + q.pc + 1) % 65536]

ReadIfRead(q) == IF ReadsMem(q.code) THEN Load(q, q.opAdr) ELSE q

ZeroPageIndexed(q, index) ==
  LET base == NextByte(q)
  IN  ReadIfRead([Touch(PastByte(q), base) EXCEPT !.op16 = base, !.opAdr = Byte(base + index)])

zeroPageAdrHdlr(q)  == ZeroPageIndexed(q, 0)
zeroPageXAdrHdlr(q) == ZeroPageIndexed(q, q.x)
zeroPageYAdrHdlr(q) == ZeroPageIndexed(q, q.y)

Operand16(q) == [PastByte(PastByte(q)) EXCEPT !.op16 = Word(NextByte(PastByte(q)), NextByte(q))]

absoluteAdrHdlr(q) == LET t == Operand16(q) IN ReadIfRead([t EXCEPT !.opAdr = t.op16])

SamePage(base, adr) == 256 * (base \div 256) + (adr % 256)

Indexed16OnlyTarget(q, base, index) ==
  LET adr == (base + index) % 65536
      t == [Load(q, adr) EXCEPT !.opAdr = adr]
  IN  IF AddCycleAtPageBoundary(q.code) /\ PageBoundaryCrossed(base, adr) THEN tick(t, 1) ELSE t

\* Reads before the carry into the high byte, whatever the instruction does, and again
\* only for the instructions that the table gives one cycle more.
Indexed16(q, base, index) ==
  LET t == [Load(q, SamePage(base, base + index)) EXCEPT !.opAdr = (base + index) % 65536]
  IN  IF AddCycleAtPageBoundary(q.code) /\ PageBoundaryCrossed(base, t.opAdr)
      THEN tick(Load(t, t.opAdr), 1) ELSE t

absoluteXAdrHdlr(q) == LET t == Operand16(q) IN Indexed16(t, t.op16, t.x)
absoluteYAdrHdlr(q) == LET t == Operand16(q) IN Indexed16(t, t.op16, t.y)

indirectAdrHdlr(q) ==
  LET t == Operand16(q)
      next == SamePage(t.op16, t.op16 + 1)
  IN  [Touch(Touch(t, t.op16), next) EXCEPT !.opAdr = Word(Content(t, next), Content(t, t.op16))]

preIndXAdrHdlr(q) ==
  LET base == NextByte(q)
      look == Byte(base + q.x)
      t == Touch(Touch(Touch(PastByte(q), base), look), Byte(look + 1))
  IN  ReadIfRead([t EXCEPT !.op16 = base, !.opAdr = Word(Content(q, Byte(look + 1)), Content(q, look))])

postIndYAdrHdlr(q) ==
  LET base == NextByte(q)
      t == [Touch(Touch(PastByte(q), base), Byte(base + 1)) EXCEPT !.op16 = base]
  IN  Indexed16(t, Word(Content(q, Byte(base + 1)), Content(q, base)), q.y)

-----------------------------------------------------------------------------
(* Instructions that work on registers and what has been read.             *)

LoadA(q, v) == setNZflags([q EXCEPT !.a = v], v)
LoadX(q, v) == setNZflags([q EXCEPT !.x = v], v)
LoadY(q, v) == setNZflags([q EXCEPT !.y = v], v)

ADCExecHdlr(q) == ADCCalc(q)
SBCExecHdlr(q) == SBCCalc(q)
ANDExecHdlr(q) == LoadA(q, And(q.a, q.rv))
EORExecHdlr(q) == LoadA(q, Xor(q.a, q.rv))
ORAExecHdlr(q) == LoadA(q, Or(q.a, q.rv))
LDAExecHdlr(q) == LoadA(q, q.rv)
LDXExecHdlr(q) == LoadX(q, q.rv)
LDYExecHdlr(q) == LoadY(q, q.rv)
TAXExecHdlr(q) == LoadX(q, q.a)
TAYExecHdlr(q) == LoadY(q, q.a)
TSXExecHdlr(q) == LoadX(q, q.sp)
TXAExecHdlr(q) == LoadA(q, q.x)
TYAExecHdlr(q) == LoadA(q, q.y)
TXSExecHdlr(q) == [q EXCEPT !.sp = q.x]
DEXExecHdlr(q) == LoadX(q, Byte(q.x - 1))
DEYExecHdlr(q) == LoadY(q, Byte(q.y - 1))
INXExecHdlr(q) == LoadX(q, Byte(q.x + 1))
INYExecHdlr(q) == LoadY(q, Byte(q.y + 1))
NOPExecHdlr(q) == q
JMPExecHdlr(q) == [q EXCEPT !.pc = q.opAdr]
CLCExecHdlr(q) == [q EXCEPT !.sr = SetFlag(@, C, FALSE)]
CLDExecHdlr(q) == [q EXCEPT !.sr = SetFlag(@, D, FALSE)]
CLIExecHdlr(q) == [q EXCEPT !.sr = SetFlag(@, I, FALSE)]
CLVExecHdlr(q) == [q EXCEPT !.sr = SetFlag(@, V, FALSE)]
SECExecHdlr(q) == [q EXCEPT !.sr = SetFlag(@, C, TRUE)]
SEDExecHdlr(q) == [q EXCEPT !.sr = SetFlag(@, D, TRUE)]
SEIExecHdlr(q) == [q EXCEPT !.sr = SetFlag(@, I, TRUE)]

CMPExecHdlr(q) == setNZCflags(q, Byte(q.a - q.rv), q.a >= q.rv)
CPXExecHdlr(q) == setNZCflags(q, Byte(q.x - q.rv), q.x >= q.rv)
CPYExecHdlr(q) == setNZCflags(q, Byte(q.y - q.rv), q.y >= q.rv)

BITExecHdlr(q) == setNZVflags(q, Flag(q.rv, N), And(q.a, q.rv) = 0, Flag(q.rv, V))

ALRExecHdlr(q) == LET v == And(q.a, q.rv) IN setNZCflags([q EXCEPT !.a = v \div 2], v, v % 2 = 1)

ARRExecHdlr(q) ==
  LET v == And(q.a, q.rv) IN setNZCflags([q EXCEPT !.a = v \div 2 + 128 * Bit(q.sr, C)], v, v % 2 = 1)

ANCExecHdlr(q) ==
  LET v == And(q.a, q.rv) IN setNZCflags([q EXCEPT !.a = v], v, Flag(q.sr, C) /\ v >= 128)

ANC2ExecHdlr(q) == ANCExecHdlr(q)

LASExecHdlr(q) == LET v == And(q.rv, q.sp) IN LoadA([q EXCEPT !.x = v, !.sp = v], v)
LAXExecHdlr(q) == LoadA([q EXCEPT !.x = q.rv], q.rv)

SBXExecHdlr(q) ==
  LET v == Byte(And(q.a, q.x) - q.rv) IN setNZCflags([q EXCEPT !.x = v], v, v >= q.rv)

-----------------------------------------------------------------------------
(* Branches: the target is counted from mOpcodePC, the penalty from the    *)
(* program counter.                                                        *)

addBranchTakenCycles(q) ==
  IF AddCycleAtPageBoundary(q.code) /\ PageBoundaryCrossed(q.pc, q.opAdr)
  THEN tick(Touch(q, q.pc), 2) ELSE tick(q, 1)

Branch(q, taken) ==
  IF taken THEN [addBranchTakenCycles(q) EXCEPT !.pc = (q.opcodePC + 2 + q.op16) % 65536] ELSE q

BCCExecHdlr(q) == Branch(q, ~Flag(q.sr, C))
BCSExecHdlr(q) == Branch(q, Flag(q.sr, C))
BEQExecHdlr(q) == Branch(q, Flag(q.sr, Z))
BMIExecHdlr(q) == Branch(q, Flag(q.sr, N))
BNEExecHdlr(q) == Branch(q, ~Flag(q.sr, Z))
BPLExecHdlr(q) == Branch(q, ~Flag(q.sr, N))
BVCExecHdlr(q) == Branch(q, ~Flag(q.sr, V))
BVSExecHdlr(q) == Branch(q, Flag(q.sr, V))

-----------------------------------------------------------------------------
(* Instructions that write.                                                *)

STAExecHdlr(q) == Stored(q, q.opAdr, q.a)
STXExecHdlr(q) == Stored(q, q.opAdr, q.x)
STYExecHdlr(q) == Stored(q, q.opAdr, q.y)
SAXExecHdlr(q) == Stored(q, q.opAdr, q.a)

\* Writes the old value and then v, and goes on with `after', unless a write is
\* refused: the instruction then stops where it is.
Modify(q, v, after(_)) ==
  IF Writable(q.opAdr) THEN after(Stored(Stored(q, q.opAdr, q.rv), q.opAdr, v))
  ELSE Stored(q, q.opAdr, q.rv)

DECExecHdlr(q) == LET v == Byte(q.rv - 1) IN Modify(q, v, LAMBDA t : setNZflags(t, v))
INCExecHdlr(q) == LET v == Byte(q.rv + 1) IN Modify(q, v, LAMBDA t : setNZflags(t, v))
ISCExecHdlr(q) == LET v == Byte(q.rv + 1) IN Modify(q, v, LAMBDA t : Subtract(t, v))
DCPExecHdlr(q) == Modify(q, Byte(q.rv - 1), LAMBDA t : setNZCflags(t, Byte(t.a - t.rv), t.a >= t.rv))

\* C is set before the memory is written, N and Z after it.
Shift(q, v, carry, after(_)) ==
  LET t == [q EXCEPT !.sr = SetFlag(@, C, carry)]
  IN  IF WritesMem(q.code) THEN Modify(t, v, LAMBDA u : after(setNZflags(u, v)))
      ELSE setNZflags([t EXCEPT !.a = v], v)

Same(t) == t
RotatedLeft(q)  == Byte(2 * q.rv) + Bit(q.sr, C)
RotatedRight(q) == q.rv \div 2 + 128 * Bit(q.sr, C)

ASLExecHdlr(q) == Shift(q, Byte(2 * q.rv), q.rv >= 128, Same)
LSRExecHdlr(q) == Shift(q, q.rv \div 2, q.rv % 2 = 1, Same)
ROLExecHdlr(q) == Shift(q, RotatedLeft(q), q.rv >= 128, Same)
RORExecHdlrUsesNewCarry(q) == Shift(q, q.rv \div 2 + 128 * (q.rv % 2), q.rv % 2 = 1, Same)

RORExecHdlr(q) == Shift(q, RotatedRight(q), q.rv % 2 = 1, Same)

SLOExecHdlr(q) ==
  LET v == Byte(2 * q.rv) IN Shift(q, v, q.rv >= 128, LAMBDA t : [t EXCEPT !.a = Or(@, v)])
SREExecHdlr(q) ==
  LET v == q.rv \div 2 IN Shift(q, v, q.rv % 2 = 1, LAMBDA t : [t EXCEPT !.a = Xor(@, v)])
RLAExecHdlr(q) ==
  LET v == RotatedLeft(q) IN Shift(q, v, q.rv >= 128, LAMBDA t : [t EXCEPT !.a = And(@, v)])
RRAExecHdlr(q) ==
  LET v == RotatedRight(q) IN Shift(q, v, q.rv % 2 = 1, LAMBDA t : Add(t, v))

-----------------------------------------------------------------------------
(* The stack.                                                              *)

PHAExecHdlr(q) == push(q, q.a)
PHPExecHdlr(q) == push(q, Or(q.sr, Or(B, B5)))
PLAExecHdlr(q) == LoadA(pull(q, 1), Top(q, 1))
PLPExecHdlr(q) == [pull(q, 1) EXCEPT !.sr = Restored(@, Top(q, 1))]

JSRExecHdlr(q) == [pushWord(Touch(q, q.sp), (q.opcodePC + 2) % 65536) EXCEPT !.pc = q.opAdr]

RTSExecHdlr(q) ==
  LET t == [pull(Touch(q, q.sp), 2) EXCEPT !.pc = Word(Top(q, 2), Top(q, 1))] IN PastByte(t)

RTIExecHdlrKeepsI(q) ==
  [pull(Touch(q, q.sp), 3) EXCEPT !.sr = SetFlag(Restored(@, Top(q, 1)), I, Flag(@, I)),
                                  !.pc = Word(Top(q, 3), Top(q, 2))]

RTIExecHdlr(q) ==
  [pull(Touch(q, q.sp), 3) EXCEPT !.sr = Restored(@, Top(q, 1)), !.pc = Word(Top(q, 3), Top(q, 2))]

BRKExecHdlr(q) == Vector(push(pushWord(q, (q.opcodePC + 2) % 65536), Or(q.sr, B)), 65534)

\* The program counter is pushed, mOpcodePC is left.
serveNMI(q) ==
  tick(Vector([push(pushWord(q, q.pc), q.sr) EXCEPT !.sr = SetFlag(@, I, TRUE)], 65530), 7)

serveIRQ(q) ==
  tick(Vector([push(pushWord(q, q.pc), SetFlag(q.sr, B, FALSE)) EXCEPT !.sr = SetFlag(@, I, TRUE)], 65534), 7)

-----------------------------------------------------------------------------
(* advanceInstr.                                                           *)

AddrHdlr(q) ==
  CASE q.code[2] = "Implied"      -> impliedAdrHdlr(q)
    [] q.code[2] = "Accumulator"  -> accAdrHdlr(q)
    [] q.code[2] = "Immediate"    -> immediateAdrHdlr(q)
    [] q.code[2] = "Relative"     -> relativeAdrHdlr(q)
    [] q.code[2] = "ZeroPage"     -> zeroPageAdrHdlr(q)
    [] q.code[2] = "ZeroPage_X"   -> zeroPageXAdrHdlr(q)
    [] q.code[2] = "ZeroPage_Y"   -> zeroPageYAdrHdlr(q)
    [] q.code[2] = "Absolute"     -> absoluteAdrHdlr(q)
    [] q.code[2] = "Absolute_X"   -> absoluteXAdrHdlr(q)
    [] q.code[2] = "Absolute_Y"   -> absoluteYAdrHdlr(q)
    [] q.code[2] = "Indirect"     -> indirectAdrHdlr(q)
    [] q.code[2] = "PreInd_X"     -> preIndXAdrHdlr(q)
    [] q.code[2] = "PostInd_Y"    -> postIndYAdrHdlr(q)

ExecHdlr(q) ==
  LET i == q.code[1]
  IN
      CASE i = "ADC" -> ADCExecHdlr(q) [] i = "AND" -> ANDExecHdlr(q) [] i = "ASL" -> ASLExecHdlr(q)
        [] i = "BCC" -> BCCExecHdlr(q) [] i = "BCS" -> BCSExecHdlr(q) [] i = "BEQ" -> BEQExecHdlr(q)
        [] i = "BIT" -> BITExecHdlr(q) [] i = "BMI" -> BMIExecHdlr(q) [] i = "BNE" -> BNEExecHdlr(q)
        [] i = "BPL" -> BPLExecHdlr(q) [] i = "BRK" -> BRKExecHdlr(q) [] i = "BVC" -> BVCExecHdlr(q)
        [] i = "BVS" -> BVSExecHdlr(q) [] i = "CLC" -> CLCExecHdlr(q) [] i = "CLD" -> CLDExecHdlr(q)
        [] i = "CLI" -> CLIExecHdlr(q) [] i = "CLV" -> CLVExecHdlr(q) [] i = "CMP" -> CMPExecHdlr(q)
        [] i = "CPX" -> CPXExecHdlr(q) [] i = "CPY" -> CPYExecHdlr(q) [] i = "DEC" -> DECExecHdlr(q)
        [] i = "DEX" -> DEXExecHdlr(q) [] i = "DEY" -> DEYExecHdlr(q) [] i = "EOR" -> EORExecHdlr(q)
        [] i = "INC" -> INCExecHdlr(q) [] i = "INX" -> INXExecHdlr(q) [] i = "INY" -> INYExecHdlr(q)
        [] i = "JMP" -> JMPExecHdlr(q) [] i = "JSR" -> JSRExecHdlr(q) [] i = "LDA" -> LDAExecHdlr(q)
        [] i = "LDX" -> LDXExecHdlr(q) [] i = "LDY" -> LDYExecHdlr(q) [] i = "LSR" -> LSRExecHdlr(q)
        [] i = "NOP" -> NOPExecHdlr(q) [] i = "ORA" -> ORAExecHdlr(q) [] i = "PHA" -> PHAExecHdlr(q)
        [] i = "PHP" -> PHPExecHdlr(q) [] i = "PLA" -> PLAExecHdlr(q) [] i = "PLP" -> PLPExecHdlr(q)
        [] i = "ROL" -> ROLExecHdlr(q) [] i = "ROR" -> RORExecHdlr(q) [] i = "RTI" -> RTIExecHdlr(q)
        [] i = "RTS" -> RTSExecHdlr(q) [] i = "SBC" -> SBCExecHdlr(q) [] i = "SEC" -> SECExecHdlr(q)
        [] i = "SED" -> SEDExecHdlr(q) [] i = "SEI" -> SEIExecHdlr(q) [] i = "STA" -> STAExecHdlr(q)
        [] i = "STX" -> STXExecHdlr(q) [] i = "STY" -> STYExecHdlr(q) [] i = "TAX" -> TAXExecHdlr(q)
        [] i = "TAY" -> TAYExecHdlr(q) [] i = "TSX" -> TSXExecHdlr(q) [] i = "TXA" -> TXAExecHdlr(q)
        [] i = "TXS" -> TXSExecHdlr(q) [] i = "TYA" -> TYAExecHdlr(q) [] i = "ALR" -> ALRExecHdlr(q)
        [] i = "ANC" -> ANCExecHdlr(q) [] i = "ANC2" -> ANC2ExecHdlr(q) [] i = "ARR" -> ARRExecHdlr(q)
        [] i = "DCP" -> DCPExecHdlr(q) [] i = "ISC" -> ISCExecHdlr(q) [] i = "LAS" -> LASExecHdlr(q)
        [] i = "LAX" -> LAXExecHdlr(q) [] i = "RLA" -> RLAExecHdlr(q) [] i = "RRA" -> RRAExecHdlr(q)
        [] i = "SAX" -> SAXExecHdlr(q) [] i = "SBX" -> SBXExecHdlr(q) [] i = "SLO" -> SLOExecHdlr(q)
        [] i = "SRE" -> SREExecHdlr(q)

Served(q, request) ==
  CASE request = "NMI"                       -> serveNMI(q)
    [] request = "IRQ" /\ ~Flag(q.sr, I)     -> serveIRQ(q)
    [] OTHER                                 -> q

executeInstr(q) == ExecHdlr(AddrHdlr(q))

advanceInstr(q, code, request) ==
  LET t == PastByte([Served(q, request) EXCEPT !.code = code])
      u == tick(executeInstr(t), Cycles(code))
  IN  [u EXCEPT !.opcodePC = u.pc]

=============================================================================

--------------------------- MODULE InstrProperties ---------------------------
(***************************************************************************)
(* The two 6502 processors side by side.  Both start with the same         *)
(* registers, memory and interrupt request; the cycle-accurate one         *)
(* executes its micro cycles, then the instruction-accurate one executes   *)
(* the instruction, and what they did is compared before another           *)
(* instruction follows.                                                    *)
(***************************************************************************)
EXTENDS P6502CCInstr

CONSTANTS
  Tests,    \* what is executed first: an opcode, a request, registers and operand bytes
  Follow,   \* pairs of opcodes: after the first the second may be executed
  Length    \* bound: instructions executed

\* Before an instruction: B is only set in the copies of the status register on the stack.
IsTest(t) ==
  /\ t.code \in Opcodes /\ t.request \in {"none", "IRQ", "NMI"} /\ t.seed \in Nat
  /\ t.a \in 0 .. 255 /\ t.x \in 0 .. 255 /\ t.y \in 0 .. 255 /\ t.sp \in 0 .. 255
  /\ t.b1 \in 0 .. 255 /\ t.b2 \in 0 .. 255
  /\ t.sr \in 0 .. 255 /\ ~Flag(t.sr, B)

ASSUME InstrAssumption ==
  /\ \A t \in Tests : IsTest(t)
  /\ Follow \subseteq Opcodes \X Opcodes
  /\ Length \in Nat \ {0}

VARIABLES
  cc,     \* the cycle-accurate processor
  ic,     \* the instruction-accurate one
  run     \* the instruction, what was executed before it, and which processor goes on

ICPU == INSTANCE P6502ICInstr

vars == <<cc, ic, run>>

\* The processors as they are before an opcode is read.
CycleAccurate(t) ==
  [a |-> t.a, x |-> t.x, y |-> t.y, sp |-> t.sp, sr |-> t.sr, pc |-> CodeStart + 1, rv |-> 0,
   opAdr |-> 0, op16 |-> 0, cycles |-> 0, code |-> t.code,
   ram |-> <<>>, reads |-> {}, writes |-> <<>>, b1 |-> t.b1, b2 |-> t.b2, seed |-> t.seed,
   exec |-> "FETCH_OPCODE", op |-> 0, ex |-> 0, inter |-> "none", data |-> 0, rw |-> "read",
   adr |-> CodeStart, look |-> 0, eff |-> 0, calc |-> 0, tmp |-> 0]

InstructionAccurate(t) ==
  [a |-> t.a, x |-> t.x, y |-> t.y, sp |-> t.sp, sr |-> t.sr, pc |-> CodeStart, rv |-> 0,
   opAdr |-> 0, op16 |-> 0, cycles |-> 0, code |-> t.code,
   ram |-> <<>>, reads |-> {}, writes |-> <<>>, b1 |-> t.b1, b2 |-> t.b2, seed |-> t.seed,
   opcodePC |-> CodeStart]

Init ==
  \E t \in Tests :
    /\ cc = CycleAccurate(t)
    /\ ic = InstructionAccurate(t)
    /\ run = [code |-> t.code, request |-> t.request, pin |-> t.request, turn |-> "cc", count |-> 1,
              first |-> t.code, old |-> t, from |-> CodeStart, at |-> CodeStart]

\* One call of step(); the turn passes when the next opcode is to be read, after the
\* sequence of an interrupt when the first opcode of its handler has been executed too.
StepCC ==
  LET sequence == cc.exec \in {"IN_IRQ", "IN_NMI"}
  IN  /\ run.turn = "cc"
      /\ cc' = step(cc, run.code, run.pin)
      /\ run' = [run EXCEPT !.pin = IF Taken(cc, @) THEN "none" ELSE @,
                            !.from = IF sequence THEN cc'.adr ELSE @,
                            !.turn = IF cc'.exec = "FETCH_OPCODE" /\ ~sequence THEN "ic" ELSE @]
      /\ UNCHANGED ic

AdvanceIC ==
  /\ run.turn = "ic"
  /\ ic' = ICPU!advanceInstr(ic, run.code, run.request)
  /\ run' = [run EXCEPT !.turn = "compare"]
  /\ UNCHANGED cc

Compared == run.turn = "compare"
Entered == run.old.request = "NMI" \/ (run.old.request = "IRQ" /\ ~Flag(run.old.sr, I))
Interrupted == Entered /\ run.count = 1
CrossesPage == run.code[2] \in Indexed /\ PageBoundaryCrossed(cc.op16, cc.opAdr)

\* Where the two are known to differ.  SAX, SLO and SRE are marked wrongly in the table;
\* a modified operand is read and written in different places; the high byte of the
\* address JSR calls, when it is on the stack, is read after the call or before it.
MarkedWrongly == run.code[1] \in {"SAX", "SLO", "SRE"}
ModifiesElsewhere == WritesMem(run.code) /\ run.code[1] \notin Stores /\ (CrossesPage \/ ~Writable(cc.opAdr))
OperandOnStack == run.code[1] = "JSR" /\ (run.at + 2) % 65536 \in 256 .. 511
Parted == MarkedWrongly \/ ModifiesElsewhere \/ OperandOnStack

Fresh(s) == [s EXCEPT !.cycles = 0, !.reads = {}, !.writes = <<>>]

NextInstruction(code) ==
  /\ Compared /\ ~Parted /\ run.count < Length /\ <<run.code, code>> \in Follow
  /\ cc' = Fresh(cc) /\ ic' = Fresh(ic)
  /\ run' = [run EXCEPT !.code = code, !.request = "none", !.pin = "none", !.turn = "cc", !.count = @ + 1,
                         !.at = ic.pc]

Next == StepCC \/ AdvanceIC \/ \E code \in Opcodes : NextInstruction(code)

Spec == Init /\ [][Next]_vars

-----------------------------------------------------------------------------
\* mOpcodePC is not that of an interrupt handler's first instruction.
StaleOpcodePC == Entered /\ run.first[1] \in Branches \cup {"JSR", "BRK"}
Agreeing == ~Parted /\ ~StaleOpcodePC

\* An instruction leaves the same registers, flags, memory and next address, and has
\* made the same writes in the same order, in both processors: one spreads it over
\* micro cycles that share a bus and scratch registers, the other does it at once.
SameResult ==
  Compared /\ Agreeing =>
    /\ <<cc.a, cc.x, cc.y, cc.sp, cc.sr, cc.adr>> = <<ic.a, ic.x, ic.y, ic.sp, ic.sr, ic.pc>>
    /\ cc.writes = ic.writes /\ cc.ram = ic.ram

\* The same registers of devices are read: neither processor leaves out, or adds, an address,
\* such as that of the read before the carry into the high byte.  How often each is read is
\* not compared: the cycle-accurate one reads an absolute operand twice.  Only one of
\* them reads the byte after a shift of A.
IsDevice(r) == r >= 512 /\ r \notin CodeStart .. CodeStart + 3
DeviceReads(s) == {r \in s.reads : IsDevice(r)}
ReadAfterShift == run.code[2] = "Accumulator" /\ IsDevice(ic.pc)
SameReads == Compared /\ Agreeing /\ ~ReadAfterShift => DeviceReads(cc) = DeviceReads(ic)

\* Both charge the time the table gives, and the page boundary and branch cycles on top.
SameTime ==
  Compared /\ Agreeing =>
    /\ cc.cycles = ic.cycles
    /\ cc.cycles - Cycles(run.code) - (IF Interrupted THEN 7 ELSE 0)
         \in IF AddCycleAtPageBoundary(run.code) THEN 0 .. 2 ELSE {0}

\* What is said of either of them.
Outcome(s) == [a |-> s.a, sr |-> s.sr, sp |-> s.sp]

Decimal(b) == 10 * (b \div 16) + (b % 16)
IsDecimal(b) == b \div 16 <= 9 /\ b % 16 <= 9

\* With D set ADC and SBC of two-digit decimal numbers give the decimal sum and
\* difference and their carry.
DecimalArithmetic ==
  Compared /\ run.count = 1 /\ run.code \in {<<"ADC", "Immediate">>, <<"SBC", "Immediate">>}
    /\ ~Interrupted /\ Flag(run.old.sr, D) /\ IsDecimal(run.old.a) /\ IsDecimal(run.old.b1) =>
      LET carry == Bit(run.old.sr, C)
          sum   == Decimal(run.old.a) + Decimal(run.old.b1) + carry
          diff  == Decimal(run.old.a) - Decimal(run.old.b1) - (1 - carry)
      IN  \A s \in {Outcome(cc), Outcome(ic)} :
            IF run.code[1] = "ADC"
            THEN IsDecimal(s.a) /\ Decimal(s.a) = sum % 100 /\ Flag(s.sr, C) = (sum > 99)
            ELSE IsDecimal(s.a) /\ Decimal(s.a) = diff % 100 /\ Flag(s.sr, C) = (diff >= 0)

Saves == {<<"JSR", "RTS">>, <<"BRK", "RTI">>, <<"PHA", "PLA">>, <<"PHP", "PLP">>}

\* What `last' restores of what `first' saved, next being the next opcode's address.
Restores(s, next, first, last) ==
  /\ <<first, last>> \in Saves /\ ~Entered => s.sp = run.old.sp
  /\ <<first, last>> = <<"JSR", "RTS">> /\ ~Entered => next = CodeStart + 3
  /\ <<first, last>> = <<"BRK", "RTI">> /\ ~Entered => next = CodeStart + 2 /\ s.sr = run.old.sr
  /\ <<first, last>> = <<"PHA", "PLA">> => s.a = run.old.a
  /\ <<first, last>> = <<"PHP", "PLP">> /\ ~Entered => s.sr = run.old.sr
  /\ <<first, last>> = <<"NOP", "RTI">> /\ Entered =>
       next = CodeStart /\ s.sr = run.old.sr /\ s.sp = run.old.sp

\* What a call, an interrupt or a push saved is what the matching instruction restores
\* in both processors, at any stack pointer, wrapping included.
Returns ==
  Compared /\ run.count = 2 =>
    /\ Restores(Outcome(cc), cc.adr, run.first[1], run.code[1])
    /\ Restores(Outcome(ic), ic.pc, run.first[1], run.code[1])

-----------------------------------------------------------------------------
(* What comments of P6502IC say.                                           *)

\* "this is the same as PC after the opcode has been read + 2": so a handler whose
\* first instruction is JSR gets back to what follows it.
HandlerReturns ==
  Compared /\ run.count = 2 /\ Entered /\ run.first[1] = "JSR" /\ run.code[1] = "RTS" => ic.pc = run.from + 3


=============================================================================

------------------------------ MODULE P6502CC ------------------------------
(***************************************************************************)
(* The 6502 emulated clock cycle by clock cycle (shared/P6502CC.cpp): how  *)
(* instructions, RESET, NMI, IRQ and BRK share one machine of micro cycles *)
(* and one bus.                                                            *)
(*                                                                         *)
(* A call of step() makes the memory access the previous one prepared,     *)
(* unless the clock is stretched for a slow device, and then executes one  *)
(* micro cycle, which prepares the next access.  The CPU is one record,    *)
(* `cpu', and each function of the code maps it to the next one.           *)
(*                                                                         *)
(* One instruction stands for each shape a micro program can have.         *)
(* Addresses are kept as far as they matter: `pc' is the distance of the   *)
(* program counter from the opcode last fetched (mOpcodePC), `at' says     *)
(* what the address bus points to.  Of the status register only I is kept; *)
(* what a program has put on its stack is any value.                       *)
(*                                                                         *)
(* A definition named after another one with a suffix is a plausible error *)
(* in it, against which the properties are tested.                         *)
(***************************************************************************)
EXTENDS Integers

CONSTANT
  AccessRatio   \* CPU cycles per cycle of a slow device (getAccessRatio)

ASSUME CPUAssumption == AccessRatio \in Nat \ {0}

\* NOP stands for the implied and accumulator modes, LDI for immediate ones, LDA, STA
\* and INC for reading, writing and doing both at an absolute address.
Instructions == {"NOP", "LDI", "LDA", "STA", "INC", "CLI", "SEI", "PLP", "RTI", "BRK"}
Absolute == {"LDA", "STA", "INC"}
Pins == {"RESET", "NMI", "IRQ", "RDY"}

VARIABLES
  cpu,   \* the processor
  in,    \* the input pins that are high
  hist   \* history: what the pins and the bus have seen

vars == <<cpu, in, hist>>

-----------------------------------------------------------------------------
(* The bus.                                                                *)

ReadFrom(s, what) == [s EXCEPT !.rw = "read", !.at = what]
WriteTo(s, what)  == [s EXCEPT !.rw = "write", !.at = what]

Charged(s) == s.op + s.ex

\* initFetch: the instruction is over, its cycles are charged, and the opcode at the
\* program counter is read next.
InitFetch(s) ==
  [ReadFrom(s, "opcode") EXCEPT !.exec = "FETCH_OPCODE",
                                !.phase = (@ + Charged(s)) % AccessRatio, !.pc = 1]

CompleteFetch(s, opcode) == [s EXCEPT !.instr = opcode, !.op = 0, !.ex = 0]

FakeBRKFetchKeepsCycles(s) == [s EXCEPT !.instr = "BRK"]

FakeBRKFetch(s) == [s EXCEPT !.instr = "BRK", !.op = 0, !.ex = 0]

\* The cycles by which the access in preparation is stretched, computed when it is
\* first met: to the phase of the slow device and by its cycle.
Stretch(s) ==
  IF s.stretched > 0 \/ s.pendingAccess THEN s.stretched
  ELSE IF s.at = "slow" THEN s.phase + AccessRatio - 1 ELSE 0

-----------------------------------------------------------------------------
(* Operand micro cycles.                                                   *)

\* The last cycle of an absolute mode hands over to the instruction; `operand' is
\* what the address points to, a fast or a slow device.
AbsoluteAdrHdlr(s, operand) ==
  LET t == [s EXCEPT !.op = @ + 1]
  IN  CASE s.op \in {0, 1} -> [ReadFrom(t, "code") EXCEPT !.pc = @ + 1]
        [] s.op = 2 /\ s.instr # "STA" -> ReadFrom(t, operand)
        [] OTHER -> [t EXCEPT !.exec = "EXECUTE_DIRECTLY"]

ImmediateAdrHdlr(s) == [ReadFrom(s, "code") EXCEPT !.op = @ + 1, !.pc = @ + 1, !.exec = "EXECUTE"]

ImpliedAdrHdlr(s) == [ReadFrom(s, "code") EXCEPT !.op = @ + 1, !.exec = "EXECUTE"]

AddrHdlr(s, operand) ==
  CASE s.instr \in Absolute -> AbsoluteAdrHdlr(s, operand)
    [] s.instr = "LDI"      -> ImmediateAdrHdlr(s)
    [] OTHER                -> ImpliedAdrHdlr(s)

-----------------------------------------------------------------------------
(* Execution micro cycles.                                                 *)

\* BRK, and the sequences of IRQ and NMI, which have one cycle more of their own:
\* the dummy read in which the program counter is put back to the opcode.
BRKExecHdlrKeepsPC(s) ==
  LET brk == s.inter = "none"
      cycle == IF s.ex = 0 /\ brk THEN 1 ELSE s.ex
      t == [s EXCEPT !.ex = cycle + 1, !.pc = IF s.ex = 0 /\ brk THEN @ + 1 ELSE @]
  IN  CASE cycle = 0       -> ReadFrom(t, "code")
        [] cycle \in 1 .. 3 -> WriteTo(t, "stack")
        [] cycle = 4       -> [ReadFrom(t, "vector") EXCEPT !.iFlag = @ \/ ~brk]
        [] cycle = 5       -> ReadFrom(t, "vector")
        [] OTHER           -> InitFetch([t EXCEPT !.pendingIRQ = @ /\ s.inter # "IRQ",
                                                  !.pendingNMI = @ /\ s.inter # "NMI",
                                                  !.ex = IF brk THEN @ - 1 ELSE @, !.inter = "none"])

BRKExecHdlr(s) ==
  LET brk == s.inter = "none"
      cycle == IF s.ex = 0 /\ brk THEN 1 ELSE s.ex
      t == [s EXCEPT !.ex = cycle + 1, !.pc = IF s.ex = 0 /\ brk THEN @ + 1 ELSE @]
  IN  CASE cycle = 0       -> [ReadFrom(t, "code") EXCEPT !.pc = @ - 1]
        [] cycle \in 1 .. 3 -> WriteTo(t, "stack")
        [] cycle = 4       -> [ReadFrom(t, "vector") EXCEPT !.iFlag = @ \/ ~brk]
        [] cycle = 5       -> ReadFrom(t, "vector")
        [] cycle = 6       -> InitFetch([t EXCEPT !.pendingIRQ = @ /\ s.inter # "IRQ",
                                                  !.pendingNMI = @ /\ s.inter # "NMI",
                                                  !.ex = IF brk THEN @ - 1 ELSE @, !.inter = "none"])
        [] OTHER           -> s

NextCycle(s) == [s EXCEPT !.ex = @ + 1]

\* The only cycle of the instructions that work on what has been read.
LDAExecHdlr(s) == InitFetch(NextCycle(s))
CLIExecHdlr(s) == InitFetch([NextCycle(s) EXCEPT !.iFlag = FALSE])
SEIExecHdlr(s) == InitFetch([NextCycle(s) EXCEPT !.iFlag = TRUE])

STAExecHdlr(s, operand) ==
  IF s.ex = 0 THEN WriteTo(NextCycle(s), operand) ELSE InitFetch(NextCycle(s))

INCExecHdlr(s) ==
  IF s.ex \in {0, 1} THEN WriteTo(NextCycle(s), s.at) ELSE InitFetch(NextCycle(s))

\* `pulled' is the I flag of the status that is pulled.
PLPExecHdlr(s, pulled) ==
  IF s.ex \in {0, 1} THEN ReadFrom(NextCycle(s), "stack")
  ELSE InitFetch([NextCycle(s) EXCEPT !.iFlag = pulled])

RTIExecHdlr(s, pulled) ==
  CASE s.ex = 4 -> InitFetch(NextCycle(s))
    [] s.ex = 2 -> [ReadFrom(NextCycle(s), "stack") EXCEPT !.iFlag = pulled]
    [] OTHER    -> ReadFrom(NextCycle(s), "stack")

ExecHdlr(s, operand, pulled) ==
  CASE s.instr \in {"NOP", "LDI", "LDA"} -> LDAExecHdlr(s)
    [] s.instr = "CLI" -> CLIExecHdlr(s)
    [] s.instr = "SEI" -> SEIExecHdlr(s)
    [] s.instr = "STA" -> STAExecHdlr(s, operand)
    [] s.instr = "INC" -> INCExecHdlr(s)
    [] s.instr = "PLP" -> PLPExecHdlr(s, pulled)
    [] s.instr = "RTI" -> RTIExecHdlr(s, pulled)
    [] s.instr = "BRK" -> BRKExecHdlr(s)

ResetHdlr(s) ==
  LET t == [s EXCEPT !.op = @ + 1]
  IN  CASE s.op \in 0 .. 3 -> ReadFrom(t, "stack")
        [] s.op \in 4 .. 5 -> ReadFrom(t, "vector")
        [] s.op = 6        -> InitFetch(t)
        [] OTHER           -> s

-----------------------------------------------------------------------------
(* executeInstrMicroCycle and step.                                        *)

Interrupted(s, state) == [FakeBRKFetch(s) EXCEPT !.exec = state]

TakeIRQLate(s) ==
  LET t == [s EXCEPT !.pendingIRQ = @ \/ ("IRQ" \notin in /\ ~s.iFlag)]
  IN  IF s.pendingIRQ /\ t.exec = "FETCH_OPCODE" THEN Interrupted(t, "IN_IRQ") ELSE t

\* A request is remembered until the instruction is over.
TakeIRQ(s) ==
  LET t == [s EXCEPT !.pendingIRQ = @ \/ ("IRQ" \notin in /\ ~s.iFlag)]
  IN  IF t.pendingIRQ /\ t.exec = "FETCH_OPCODE" THEN Interrupted(t, "IN_IRQ") ELSE t

TakeNMIUnlatched(s, edge) ==
  LET t == [s EXCEPT !.pendingNMI = edge]
  IN  IF t.pendingNMI /\ t.exec = "FETCH_OPCODE" THEN Interrupted(t, "IN_NMI") ELSE t

TakeNMI(s, edge) ==
  LET t == [s EXCEPT !.pendingNMI = @ \/ edge]
  IN  IF t.pendingNMI /\ t.exec = "FETCH_OPCODE" THEN Interrupted(t, "IN_NMI") ELSE t

DispatchCountsTwice(s, opcode, operand, pulled) ==
  CASE s.exec = "IN_RESET"     -> ResetHdlr(s)
    [] s.exec = "IN_NMI"       -> BRKExecHdlr([s EXCEPT !.inter = "NMI"])
    [] s.exec = "IN_IRQ"       -> BRKExecHdlr([s EXCEPT !.inter = "IRQ"])
    [] s.exec = "FETCH_OPCODE" ->
         AddrHdlr([CompleteFetch(s, opcode) EXCEPT !.exec = "FETCH_OPERAND"], operand)
    [] s.exec = "FETCH_OPERAND" -> AddrHdlr(s, operand)
    [] OTHER -> ExecHdlr([s EXCEPT !.exec = "EXECUTE"], operand, pulled)

Dispatch(s, opcode, operand, pulled) ==
  CASE s.exec = "IN_RESET"     -> ResetHdlr(s)
    [] s.exec = "IN_NMI"       -> BRKExecHdlr([s EXCEPT !.inter = "NMI"])
    [] s.exec = "IN_IRQ"       -> BRKExecHdlr([s EXCEPT !.inter = "IRQ"])
    [] s.exec = "FETCH_OPCODE" ->
         AddrHdlr([CompleteFetch(s, opcode) EXCEPT !.exec = "FETCH_OPERAND"], operand)
    [] s.exec = "FETCH_OPERAND" -> AddrHdlr(s, operand)
    [] s.exec = "EXECUTE_DIRECTLY" -> ExecHdlr([s EXCEPT !.exec = "EXECUTE", !.op = @ - 1], operand, pulled)
    [] s.exec = "EXECUTE" -> ExecHdlr(s, operand, pulled)

\* RDY halts reads only.
HaltsAlways(s, released) == "RDY" \notin in /\ ~released

Halts(s, released) == s.rw = "read" /\ "RDY" \notin in /\ ~released

MicroCycle(s, opcode, operand, pulled) ==
  LET released == "RESET" \in in /\ ~s.pRESET
      edge == "NMI" \notin in /\ s.pNMI
      t == [s EXCEPT !.pRESET = "RESET" \in in, !.pNMI = IF "RESET" \in in THEN "NMI" \in in ELSE @]
      u == IF released THEN Interrupted(t, "IN_RESET") ELSE t
  IN  IF "RESET" \notin in \/ Halts(s, released) THEN t
      ELSE Dispatch(TakeNMI(TakeIRQ(u), edge), opcode, operand, pulled)

-----------------------------------------------------------------------------
(* Actions.                                                                *)

Starts(s, t) == s.exec = "FETCH_OPCODE" /\ t.exec \in {"FETCH_OPERAND", "EXECUTE"}
Ends(s, t)   == s.exec # "FETCH_OPCODE" /\ t.exec = "FETCH_OPCODE"

\* Bound: accesses are counted up to AccessesSeen.
AccessesSeen == 4
Counted(n, one) == IF one /\ n < AccessesSeen THEN n + 1 ELSE n

Written(h, s) == Counted(h.writes, s.rw = "write")

\* What has been seen after a step that made the access of s.
AfterAccess(h, s, t) ==
  LET fresh == t.exec = "FETCH_OPCODE" \/ (t.exec = "IN_RESET" /\ t.op = 1)
  IN  [h EXCEPT !.writes = IF fresh THEN 0 ELSE Written(h, s),
                !.owed = @ /\ t.exec # "IN_NMI"]

\* What the access may have read, where it matters: an opcode, an address, a status.
Opcodes  == IF cpu.exec = "FETCH_OPCODE" THEN Instructions ELSE {cpu.instr}
Operands == IF cpu.instr \in Absolute THEN {"operand", "slow"} ELSE {"operand"}
Statuses == IF cpu.instr \in {"PLP", "RTI"} THEN BOOLEAN ELSE {cpu.iFlag}

Access ==
  /\ Stretch(cpu) = 0
  /\ \E opcode \in Opcodes, operand \in Operands, pulled \in Statuses :
       cpu' = MicroCycle([cpu EXCEPT !.pendingAccess = FALSE], opcode, operand, pulled)
  /\ hist' = AfterAccess(hist, cpu, cpu')
  /\ UNCHANGED in

StretchClock ==
  /\ Stretch(cpu) > 0
  /\ cpu' = [cpu EXCEPT !.stretched = Stretch(cpu) - 1, !.pendingAccess = TRUE]
  /\ UNCHANGED <<in, hist>>

Step == Access \/ StretchClock

\* A device moves an input pin between two steps.  An NMI is owed from an edge the
\* CPU is free to see, unless the pin goes back before the CPU has seen it.
Input(p) ==
  /\ in' = IF p \in in THEN in \ {p} ELSE in \cup {p}
  /\ hist' = [hist EXCEPT !.owed =
                IF p = "NMI" /\ p \in in
                THEN @ \/ (cpu.pNMI /\ {"RDY", "RESET"} \subseteq in /\ cpu.exec # "IN_NMI")
                ELSE IF (p = "NMI" \/ p \in in) /\ p # "IRQ" THEN @ /\ ~cpu.pNMI ELSE @]
  /\ UNCHANGED cpu

Init ==
  /\ cpu = [exec |-> "IN_RESET", op |-> 0, ex |-> 0, instr |-> "BRK", pc |-> 1, iFlag |-> FALSE,
            pendingNMI |-> FALSE, pendingIRQ |-> FALSE, inter |-> "none",
            pRESET |-> TRUE, pNMI |-> TRUE, rw |-> "read", at |-> "code",
            stretched |-> 0, pendingAccess |-> FALSE, phase |-> 0]
  /\ in = Pins
  /\ hist = [writes |-> 0, owed |-> FALSE]

Next == Step \/ \E p \in Pins : Input(p)

\* The engine thread goes on calling step().
Spec == Init /\ [][Next]_vars /\ WF_vars(Step)

=============================================================================

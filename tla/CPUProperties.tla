---------------------------- MODULE CPUProperties ----------------------------
(***************************************************************************)
(* What the cycle-by-cycle CPU promises to its programs and devices.       *)
(***************************************************************************)
EXTENDS P6502CC

States == {"IN_RESET", "IN_IRQ", "IN_NMI", "FETCH_OPCODE", "FETCH_OPERAND", "EXECUTE", "EXECUTE_DIRECTLY"}
Places == {"opcode", "code", "operand", "slow", "stack", "vector"}
MicroCycles == 0 .. 7
Distances == 0 .. 3
Waits == 0 .. 2 * AccessRatio
Phases == 0 .. AccessRatio - 1

CpuType ==
  [exec : States, op : MicroCycles, ex : MicroCycles, instr : Instructions, pc : Distances,
   iFlag : BOOLEAN, pendingNMI : BOOLEAN, pendingIRQ : BOOLEAN, inter : {"none", "NMI", "IRQ"},
   pRESET : BOOLEAN, pNMI : BOOLEAN, rw : {"read", "write"}, at : Places,
   stretched : Waits, pendingAccess : BOOLEAN, phase : Phases]

HistType == [writes : 0 .. AccessesSeen, owed : BOOLEAN]

TypeOK == cpu \in CpuType /\ in \subseteq Pins /\ hist \in HistType

\* An NMI whose edge falls at any cycle of an instruction, of an IRQ sequence or of a
\* stretched access is served before the next instruction starts, however short the
\* pulse, once the CPU has seen it.
NmiBeforeInstruction == [][Starts(cpu, cpu') => ~hist.owed]_vars

\* No instruction starts while an interrupt is requested and enabled, whatever the
\* instruction or sequence before did to the I flag in its last cycle.
IrqBeforeInstruction == [][Starts(cpu, cpu') => "IRQ" \in in \/ cpu.iFlag]_vars

\* A sequence saves the address of the instruction it interrupts, and BRK the address
\* of its opcode + 2, in each of the cycles that push it: the two share their micro
\* program though the program counter starts one further in one of them.
SavesReturnAddress ==
  [][(cpu' # cpu /\ cpu'.at = "stack" /\ cpu'.rw = "write") =>
       cpu'.pc = IF cpu'.exec \in {"IN_IRQ", "IN_NMI"} THEN 0 ELSE 2]_vars

\* The cycles Codec6502's table gives for the instructions, and 7 for the sequences.
DocumentedCycles ==
  [i \in Instructions |-> CASE i \in {"NOP", "LDI", "CLI", "SEI"} -> 2
                            [] i \in {"LDA", "STA", "PLP"}        -> 4
                            [] i \in {"INC", "RTI"}               -> 6
                            [] OTHER                              -> 7]

\* Time is charged at the end of an instruction, from two counters that are shared,
\* corrected and restarted on the way; it is what the table says, however the
\* instruction was halted, stretched or preceded by an interrupt.
CyclesCharged ==
  [][Ends(cpu, cpu') => Charged(cpu') = DocumentedCycles[cpu.instr]]_vars

\* A write reaches its device once, though accesses are repeated while the CPU is
\* halted: one by STA, two by INC, three by the sequences and BRK.
WritesExact ==
  [][Ends(cpu, cpu') /\ cpu.exec # "IN_RESET" =>
       Written(hist, cpu) = CASE cpu.instr = "STA" -> 1
                              [] cpu.instr = "INC" -> 2
                              [] cpu.instr = "BRK" -> 3
                              [] OTHER             -> 0]_vars

\* If the CPU is neither held in reset nor halted for ever, it fetches instructions for
\* ever: no order of resets and interrupts leaves it in a micro cycle that has no
\* successor.
NeverStuck == <>[]({"RESET", "RDY"} \subseteq in) => []<>(cpu.exec = "FETCH_OPCODE")

-----------------------------------------------------------------------------
(* The inductive invariant behind the safety properties.                   *)

Sequences == {"IN_IRQ", "IN_NMI"}

\* Where the machine may stand when executeInstrMicroCycle has chosen what to do next: the
\* counters of cycles, the program counter and the bus determine each other.
MicroState(s) ==
  /\ s.exec = "FETCH_OPCODE" => s.at = "opcode" /\ s.rw = "read" /\ s.pc = 1
  /\ s.exec = "FETCH_OPERAND" =>
       /\ s.instr \in Absolute /\ s.ex = 0 /\ s.rw = "read"
       /\ s.op \in {1, 2, 3} /\ s.pc = (IF s.op = 1 THEN 2 ELSE 3)
       /\ s.op = 3 => s.instr # "STA" /\ s.at \in {"operand", "slow"}
  /\ s.exec = "EXECUTE_DIRECTLY" =>
       /\ s.instr \in Absolute /\ s.ex = 0 /\ s.rw = "read"
       /\ s.op = IF s.instr = "STA" THEN 3 ELSE 4
       /\ s.instr = "INC" => s.at \in {"operand", "slow"}
  /\ s.exec = "EXECUTE" =>
       /\ s.op = CASE s.instr = "STA" -> 2 [] s.instr \in {"LDA", "INC"} -> 3 [] OTHER -> 1
       /\ s.instr \in {"NOP", "CLI", "SEI", "LDI", "LDA"} => s.ex = 0 /\ s.rw = "read"
       /\ s.instr = "PLP" => s.ex \in {0, 1, 2} /\ s.rw = "read"
       /\ s.instr = "RTI" => s.ex \in {0, 1, 2, 3, 4} /\ s.rw = "read"
       /\ s.instr = "STA" => \/ s.ex = 0 /\ s.rw = "read"
                             \/ s.ex = 1 /\ s.rw = "write" /\ s.at # "stack"
       /\ s.instr = "INC" => /\ s.ex \in {0, 1, 2} /\ s.at # "stack"
                             /\ s.rw = IF s.ex = 0 THEN "read" ELSE "write"
       /\ s.instr = "BRK" => \/ s.ex = 0 /\ s.pc = 1 /\ s.rw = "read"
                             \/ s.ex \in {2, 3, 4} /\ s.pc = 2 /\ s.rw = "write"
                             \/ s.ex \in {5, 6} /\ s.pc = 2 /\ s.rw = "read"
  /\ s.exec \in Sequences =>
       /\ s.instr = "BRK" /\ s.op = 0 /\ s.ex \in {0, 1, 2, 3, 4, 5, 6}
       /\ s.pc = (IF s.ex = 0 THEN 1 ELSE 0)
       /\ s.rw = IF s.ex \in {2, 3, 4} THEN "write" ELSE "read"
  /\ s.exec = "IN_RESET" => s.instr = "BRK" /\ s.ex = 0 /\ s.op # 7 /\ (s.op # 0 => s.rw = "read")

\* A sequence that a reset has cut short leaves its kind behind, but then its request is
\* still pending, and it starts anew before an instruction can take the kind for its own.
PendingInv(s) ==
  /\ s.inter = "NMI" \/ s.exec = "IN_NMI" => s.pendingNMI
  /\ s.inter = "IRQ" \/ s.exec = "IN_IRQ" => s.pendingIRQ
  /\ s.inter # "none" => s.exec \in Sequences \cup {"IN_RESET", "FETCH_OPCODE"}
  /\ s.exec \in Sequences /\ s.ex # 0 => s.inter = IF s.exec = "IN_NMI" THEN "NMI" ELSE "IRQ"

\* An NMI that is owed is remembered, or the CPU will see its edge in its next access.
OwedInv ==
  hist.owed =>
    /\ cpu.exec # "IN_NMI"
    /\ cpu.pendingNMI \/ (cpu.pNMI /\ "NMI" \notin in /\ {"RDY", "RESET"} \subseteq in)

\* The writes an instruction has made so far; while the CPU is held in reset it may repeat one.
WritesSoFar(s) ==
  CASE s.exec \in Sequences \cup {"EXECUTE"} /\ s.instr = "BRK" /\ s.ex >= 3 ->
         IF s.ex >= 5 THEN 3 ELSE s.ex - 2
    [] s.exec = "EXECUTE" /\ s.instr = "INC" /\ s.ex = 2 -> 1
    [] OTHER -> 0

WritesInv == cpu.pRESET => hist.writes = WritesSoFar(cpu)

\* The cycles of a reset only read.
ResetInv == cpu.exec = "IN_RESET" => cpu.rw = "read"

\* Where the CPU stands, what is pending and what the bus has seen always agree.
IInv == TypeOK /\ MicroState(cpu) /\ PendingInv(cpu) /\ OwedInv /\ WritesInv /\ ResetInv

=============================================================================

---------------------------- MODULE EngineProofs ----------------------------
(***************************************************************************)
(* Proofs about the run control: in whatever order the two threads move,   *)
(* registers are changed between steps of the processor only, a step       *)
(* command executes what it promises, a reported breakpoint has been       *)
(* matched, and a skip command of P6502IC comes back to where it began.    *)
(***************************************************************************)
EXTENDS EngineProperties, TLAPS

\* Where the engine thread holds the mutex, and where it has left its loop.
Critical == {"locked", "exec", "check", "write"}
Exiting  == {"exit", "exitClr", "exitCont", "exitPoll", "returned"}

\* The engine thread's own variables: a period has steps left while one is made, what is
\* written is a run state and an instruction has ended, calls of exit are left while one
\* is made.
LocalsInv ==
  /\ ePC \in {"locked", "exec"} => eLeft > 0
  /\ ePC = "write" => eWrite # "match"
  /\ ePC = "write" /\ eWrite # "none" => cycle = 0
  /\ ePC \in Exiting \ {"returned"} => eExits > 0

MutexInv == mExecMutex = "engine" <=> ePC \in Critical

\* The writes the debugger thread makes without the mutex only start the processor:
\* what TestRunning has found, and a step over a JSR, stay true; and what rset has
\* found stays true as long as the engine thread's loop runs.  A processor that does not
\* run has been stopped between instructions, or by halt.
RunningInv ==
  /\ ePC \in {"exec", "check"} => CPURunning(mState)
  /\ ePC = "write" /\ eWrite = "WAIT_ON_RET" => CPURunning(mState)
  /\ ~CPURunning(mState) => cycle = 0 \/ midway
  /\ dPC = "rset" => /\ ~CPURunning(mState) \/ ePC \in Exiting
                     /\ cycle = 0 \/ midway

\* The instruction that has been executed but not been counted yet.
Uncounted == IF (ePC = "check" /\ cycle = 0) \/ (ePC = "write" /\ eWrite = "HALT") THEN 1 ELSE 0

\* During a step command the instructions executed and those left add up to the argument,
\* unless a step executed nothing, and only the end of the program takes the processor out
\* of the step command.
StepInv ==
  /\ mState = "STEP" => Stepping /\ mSteps > 0
  /\ dPC = "stepEnd" /\ mState = "STEP" => ~mWaitingEnabled
  /\ Stepping =>
       /\ mState \in {"STEP", "HALT", "RUN", "BRK_WAIT"}
       /\ mState = "STEP" =>
            /\ executed + mSteps <= dArg + Uncounted
            /\ "idle" \notin odd => executed + mSteps = dArg + Uncounted
            /\ ePC = "write" => eWrite \in {"none", "HALT"}
            /\ ePC = "write" /\ eWrite = "HALT" => mSteps = 1
       /\ mState = "HALT" => /\ executed <= dArg /\ ("idle" \notin odd => executed = dArg)
                             /\ cycle = 0 /\ ePC # "write"
       /\ mState \in {"RUN", "BRK_WAIT"} => ePC \in Exiting

\* During a break command a match on its way to the debugger thread is this command's.
Matched == hit \/ "idle" \in odd
BreakInv ==
  /\ dPC = "brkPoll" =>
       /\ ~dTriggered
       /\ mState = "BRK_DET" => Matched
       /\ ePC = "check" /\ cycle = 0 /\ eWrite = "match" => Matched
       /\ ePC = "write" /\ eWrite = "BRK_DET" => Matched
  /\ dPC = "brkEnd" /\ dTriggered => Matched

IInv == TypeOK /\ LocalsInv /\ MutexInv /\ RunningInv /\ StepInv /\ BreakInv

-----------------------------------------------------------------------------
(* The types, in three parts: Booleans, counters and program counters, sequences. *)

Flags ==
  /\ mBreakPoint \in BOOLEAN /\ mRecurring \in BOOLEAN
  /\ mWaitingEnabled \in BOOLEAN /\ mDebuggerWaiting \in BOOLEAN /\ mQuit \in BOOLEAN
  /\ dTriggered \in BOOLEAN /\ hit \in BOOLEAN /\ midway \in BOOLEAN /\ microCycles \in BOOLEAN

Ranges ==
  /\ mState \in RunStates
  /\ mSteps \in 0 .. MaxSteps
  /\ mRetAdr \in Nat /\ mCPURetAdr \in Nat
  /\ mExecMutex \in {"free", "engine"}
  /\ ePC \in EnginePCs /\ eLeft \in 0 .. PeriodSteps /\ eExits \in 0 .. 2
  /\ eWrite \in {"none", "match", "HALT", "BRK_DET", "WAIT_ON_RET"}
  /\ dPC \in DebuggerPCs /\ dArg \in 0 .. MaxSteps
  /\ executed \in 0 .. MaxSteps + 1
  /\ cycle \in 0 .. MaxCycles - 1 /\ (~microCycles => cycle = 0)

Processor ==
  /\ pc \in Addresses /\ mOpcode \in {"JSR", "other"} /\ calls \in Seq(Addresses)
  /\ base \in Seq(Addresses) /\ from \in Addresses \cup {0}
  /\ odd \subseteq {"idle", "interrupt", "jump", "recursion"}

\* The three parts are the type invariant.
LEMMA TypeParts == TypeOK <=> Flags /\ Ranges /\ Processor
BY DEF TypeOK, Flags, Ranges, Processor

-----------------------------------------------------------------------------
(* What one step of the processor does.                                    *)

\* An instruction goes from addresses to addresses.
LEMMA InstructionType ==
  ASSUME NEW p \in Addresses, NEW c \in Seq(Addresses), NEW o \in Instructions(p, c)
  PROVE  /\ o.pc \in Addresses /\ o.calls \in Seq(Addresses)
         /\ o.kind \in {"plain", "return", "jsr"}
<1>1. CASE o \in {[kind |-> "plain", pc |-> a, calls |-> c] : a \in Addresses}
  BY <1>1
<1>2. CASE c # <<>> /\ o = [kind |-> "return", pc |-> Head(c), calls |-> Tail(c)]
  <2>1. Head(c) \in Addresses /\ Tail(c) \in Seq(Addresses)
    BY <1>2
  <2> QED  BY <1>2, <2>1
<1>3. ASSUME p + 3 \in Addresses, NEW a \in Addresses,
             o = [kind |-> "jsr", pc |-> a, calls |-> <<p + 3>> \o c]
      PROVE  o.pc \in Addresses /\ o.calls \in Seq(Addresses) /\ o.kind = "jsr"
  <2>1. <<p + 3>> \in Seq(Addresses)
    BY <1>3
  <2>2. <<p + 3>> \o c \in Seq(Addresses)
    BY <2>1
  <2> QED  BY <1>3, <2>2
<1> QED  BY <1>1, <1>2, <1>3 DEF Instructions

\* So does the entry of an interrupt handler.
LEMMA InterruptType ==
  ASSUME NEW p \in Addresses, NEW c \in Seq(Addresses), NEW e \in Interrupts(p, c)
  PROVE  e.pc \in Addresses /\ e.calls = <<p>> \o c /\ e.calls \in Seq(Addresses)
<1>1. PICK a \in Addresses : e = [kind |-> "interrupt", pc |-> a, calls |-> <<p>> \o c]
  BY DEF Interrupts
<1>2. <<p>> \in Seq(Addresses)
  OBVIOUS
<1>3. <<p>> \o c \in Seq(Addresses)
  BY <1>2
<1> QED  BY <1>1, <1>3

\* The end of an instruction: the variables but pc, calls, mOpcode.
EndsInstruction ==
  /\ cycle' = 0
  /\ executed' = IF (Stepping \/ Skipping) /\ executed <= MaxSteps THEN executed + 1 ELSE executed
  /\ eWrite' \in {"none", "match"}
  /\ hit' = (hit \/ (eWrite' = "match" /\ Breaking))
  /\ odd' = IF Skipping THEN odd' ELSE odd

\* An instruction, the interrupt sequences included, keeps the types of the processor.
LEMMA InstructionEffect ==
  ASSUME Processor, Instruction, base' = base, from' = from  PROVE Processor' /\ EndsInstruction
<1>1. pc \in Addresses /\ calls \in Seq(Addresses)
  BY DEF Processor
<1>2. EndsInstruction
  <2>1. odd' = IF Skipping THEN odd' ELSE odd
    BY DEF Instruction, Skipping
  <2>2. cycle' = 0
    BY DEF Instruction, Completed
  <2>3. PICK match \in BOOLEAN : /\ eWrite' = IF match THEN "match" ELSE "none"
                                 /\ hit' = (hit \/ (match /\ Breaking))
    BY DEF Instruction
  <2>4. executed' = IF (Stepping \/ Skipping) /\ executed <= MaxSteps THEN executed + 1 ELSE executed
    BY DEF Instruction
  <2>5. eWrite' \in {"none", "match"} /\ (match <=> eWrite' = "match")
    BY <2>3
  <2>6. hit' = (hit \/ (eWrite' = "match" /\ Breaking))
    BY Zenon, <2>3, <2>5
  <2> QED  BY <2>1, <2>2, <2>4, <2>5, <2>6 DEF EndsInstruction
<1>3. ASSUME NEW o, Completed(o), o.pc \in Addresses, o.calls \in Seq(Addresses)
      PROVE  pc' \in Addresses /\ calls' \in Seq(Addresses) /\ mOpcode' \in {"JSR", "other"}
  BY <1>3 DEF Completed
<1>4. pc' \in Addresses /\ calls' \in Seq(Addresses) /\ mOpcode' \in {"JSR", "other"}
  <2>1. ASSUME NEW o \in Instructions(pc, calls), Completed(o)
        PROVE  pc' \in Addresses /\ calls' \in Seq(Addresses) /\ mOpcode' \in {"JSR", "other"}
    <3>1. o.pc \in Addresses /\ o.calls \in Seq(Addresses)
      BY <1>1, <2>1, InstructionType
    <3> QED  BY <1>3, <2>1, <3>1
  <2>2. ASSUME NEW e \in Interrupts(pc, calls), Completed(e)
        PROVE  pc' \in Addresses /\ calls' \in Seq(Addresses) /\ mOpcode' \in {"JSR", "other"}
    <3>1. e.pc \in Addresses /\ e.calls \in Seq(Addresses)
      BY <1>1, <2>2, InterruptType
    <3> QED  BY <1>3, <2>2, <3>1
  <2>3. ASSUME NEW e \in Interrupts(pc, calls), NEW o \in Instructions(e.pc, e.calls), Completed(o)
        PROVE  pc' \in Addresses /\ calls' \in Seq(Addresses) /\ mOpcode' \in {"JSR", "other"}
    <3>1. e.pc \in Addresses /\ e.calls \in Seq(Addresses)
      BY <1>1, <2>3, InterruptType
    <3>2. o.pc \in Addresses /\ o.calls \in Seq(Addresses)
      BY <2>3, <3>1, InstructionType
    <3> QED  BY <1>3, <2>3, <3>2
  <2> QED  BY <2>1, <2>2, <2>3 DEF Instruction
<1>5. odd' \subseteq odd \cup {"interrupt", "jump", "recursion"}
  BY DEF Instruction, Oddities
<1> QED  BY <1>2, <1>4, <1>5 DEF Processor

\* What a step that ends no instruction leaves alone.
LEMMA NoInstructionEffect ==
  ASSUME Processor, MicroCycle \/ IdleStep, base' = base, from' = from  PROVE Processor'
BY DEF Processor, MicroCycle, IdleStep

-----------------------------------------------------------------------------
\* Flags of the debugger are only ever set, cleared and combined.
LEMMA FlagsKept == Flags /\ [Next]_vars => Flags'
<1> SUFFICES ASSUME Flags, [Next]_vars PROVE Flags'
  OBVIOUS
<1> USE DEF Flags, debugVars, breakVars, cpuVars, histVars, engineLoc, dbgLoc
<1>1. CASE Execute
  <2>1. hit' \in BOOLEAN
    BY Zenon, <1>1 DEF Execute, Instruction, MicroCycle, IdleStep
  <2>2. midway' \in BOOLEAN /\ microCycles' \in BOOLEAN
    BY Zenon, <1>1 DEF Execute
  <2>3. UNCHANGED <<debugVars, breakVars, dTriggered>>
    BY Zenon, <1>1 DEF Execute
  <2> QED  BY Zenon, <2>1, <2>2, <2>3
<1>2. CASE EngineMoves /\ ~Execute
  BY Zenon, <1>2 DEF EngineMoves, StartPeriod, TestRunning, ReadForCheck,
     WriteAndUnlock, EndPeriod, ExitMarks, ExitClears
<1>3. CASE EngineLocks
  BY Zenon, <1>3 DEF EngineLocks, LockForStep, ExitContinues, ExitPolls
<1>4. CASE NoEvent \/ UserEvents
  BY Zenon, <1>4 DEF NoEvent, UserEvents, StopWaiting, StartDebugger, Quit
<1>5. CASE DebuggerMoves
  <2>1. UNCHANGED <<midway, microCycles>>
    BY <1>5 DEF DebuggerMoves, Starting, LoopHead, EnableWaiting, EndStep, EndBreak, Cont,
       EndSetReg, EngineUntouched
  <2>2. CASE Starting \/ LoopHead \/ EnableWaiting \/ Cont \/ EndSetReg
    BY ZenonT(30), <2>1, <2>2 DEF Starting, LoopHead, EnableWaiting, Cont, EndSetReg
  <2>3. CASE EndStep \/ EndBreak
    BY ZenonT(30), <2>1, <2>3 DEF EndStep, EndBreak, EndHistory
  <2> QED  BY <1>5, <2>2, <2>3 DEF DebuggerMoves
<1>6. CASE DebuggerLocks \/ PollGivesUp
  <2>1. UNCHANGED <<midway, microCycles>>
    BY <1>6 DEF DebuggerLocks, SetStep, RefuseStep, PollStep, SetBreak, PollRecurs,
       PollDetects, PollGivesUp, EngineUntouched
  <2>2. CASE SetStep \/ RefuseStep \/ SetBreak
    BY ZenonT(30), <2>1, <2>2 DEF SetStep, RefuseStep, SetBreak, BeginHistory
  <2>3. CASE PollStep \/ PollRecurs \/ PollDetects \/ PollGivesUp
    BY ZenonT(30), <2>1, <2>3 DEF PollStep, PollRecurs, PollDetects, PollGivesUp
  <2> QED  BY <1>6, <2>2, <2>3 DEF DebuggerLocks
<1>7. CASE UserCommands
  <2>1. microCycles' = microCycles /\ midway' \in BOOLEAN
    <3>1. CASE HaltCmd
      <4>1. microCycles' = microCycles /\ (midway' = TRUE \/ midway' = FALSE)
        BY <3>1 DEF HaltCmd
      <4> QED  BY Zenon, <4>1
    <3>2. CASE UserCommands /\ ~HaltCmd
      BY <3>2 DEF UserCommands, StepCmd, SkipCmd, ContCmd, ClearBreakCmd, SetRegCmd, ExitCmd,
         BreakCmd, EngineUntouched
    <3> QED  BY <1>7, <3>1, <3>2
  <2>2. CASE HaltCmd
    BY ZenonT(30), <2>1, <2>2 DEF HaltCmd
  <2>3. CASE UserCommands /\ ~HaltCmd
    BY ZenonT(30), <2>1, <2>3 DEF UserCommands, StepCmd, SkipCmd, ContCmd, ClearBreakCmd, SetRegCmd,
       ExitCmd, BreakCmd
  <2> QED  BY <1>7, <2>2, <2>3
<1>8. CASE UNCHANGED vars
  BY <1>8 DEF vars
<1> QED BY <1>1, <1>2, <1>3, <1>4, <1>5, <1>6, <1>7, <1>8 DEF Next

\* The processor stays at its addresses, a command remembers one of them.
LEMMA ProcessorKept == Processor /\ [Next]_vars => Processor'
<1> SUFFICES ASSUME Processor, [Next]_vars PROVE Processor'
  OBVIOUS
<1>1. CASE Execute
  <2>1. (Instruction \/ MicroCycle \/ IdleStep) /\ base' = base /\ from' = from
    BY <1>1 DEF Execute
  <2> QED BY <2>1, InstructionEffect, NoInstructionEffect
<1>2. CASE EngineMoves /\ ~Execute
  BY <1>2 DEF EngineMoves, StartPeriod, TestRunning, ReadForCheck, WriteAndUnlock,
     EndPeriod, ExitMarks, ExitClears, Processor, cpuVars, histVars
<1>3. CASE EngineLocks \/ NoEvent \/ UserEvents
  BY <1>3 DEF EngineLocks, LockForStep, ExitContinues, ExitPolls, NoEvent, UserEvents,
     StopWaiting, StartDebugger, Quit, Processor, cpuVars, histVars
<1>4. CASE DebuggerMoves
  <2>1. /\ pc' \in Addresses /\ mOpcode' = mOpcode /\ calls' = calls
        /\ UNCHANGED <<base, from, odd>> \/ EndHistory
    BY <1>4 DEF DebuggerMoves, Starting, LoopHead, EnableWaiting, EndStep, EndBreak, Cont,
       EndSetReg, EngineUntouched, cpuVars, histVars, Processor
  <2>2. <<>> \in Seq(Addresses)
    OBVIOUS
  <2> QED BY <2>1, <2>2 DEF Processor, EndHistory
<1>5. CASE DebuggerLocks \/ PollGivesUp
  BY <1>5 DEF DebuggerLocks, SetStep, RefuseStep, PollStep, SetBreak, PollRecurs,
     PollDetects, PollGivesUp, BeginHistory, EngineUntouched, Processor, cpuVars, histVars
<1>6. CASE UserCommands
  BY <1>6 DEF UserCommands, StepCmd, SkipCmd, ContCmd, ClearBreakCmd, HaltCmd, SetRegCmd,
     ExitCmd, BreakCmd, EngineUntouched, Processor, cpuVars, histVars
<1>7. CASE UNCHANGED vars
  BY <1>7 DEF vars, cpuVars, histVars, Processor
<1> QED BY <1>1, <1>2, <1>3, <1>4, <1>5, <1>6, <1>7 DEF Next

\* The counters stay in their ranges.
LEMMA RangesKept == IInv /\ [Next]_vars => Ranges'
<1> SUFFICES ASSUME IInv, [Next]_vars PROVE Ranges'
  OBVIOUS
<1> USE EngineAssumption DEF IInv, TypeOK, LocalsInv, StepInv, Stepping, Exiting, Ranges, RunStates,
        EnginePCs, DebuggerPCs, retVars, debugVars, breakVars, cpuVars, histVars, engineLoc, dbgLoc
<1>1. CASE StartPeriod
  BY <1>1 DEF StartPeriod
<1>2. CASE LockForStep
  BY <1>2 DEF LockForStep
<1>3. CASE TestRunning
  BY <1>3 DEF TestRunning
<1>4. CASE Execute
  <2>1. /\ cycle' \in 0 .. MaxCycles - 1 /\ (~microCycles => cycle' = 0)
        /\ executed' \in 0 .. MaxSteps + 1 /\ eWrite' \in {"none", "match"}
    <3>1. CASE Instruction
      BY <1>4, <3>1, InstructionEffect, TypeParts DEF Execute, EndsInstruction
    <3>2. CASE MicroCycle \/ IdleStep
      BY <3>2 DEF MicroCycle, IdleStep
    <3> QED  BY <1>4, <3>1, <3>2 DEF Execute
  <2>2. mCPURetAdr' \in Nat
    <3>1. mCPURetAdr' = GetPC + 3 /\ pc \in Nat
      BY <1>4 DEF Execute
    <3> QED  BY <3>1 DEF GetPC
  <2>3. eLeft' \in 0 .. PeriodSteps
    <3>1. ePC = "exec" /\ (eLeft' = eLeft - 1 \/ eLeft' = eLeft)
      BY <1>4 DEF Execute, TimePasses, TimeStands
    <3> QED  BY <3>1
  <2>4. /\ ePC' = "check" /\ microCycles' = microCycles
        /\ UNCHANGED <<mState, mSteps, mRetAdr, mExecMutex, eExits, dPC, dArg>>
    BY <1>4 DEF Execute
  <2> QED  BY <2>1, <2>2, <2>3, <2>4
<1>5. CASE ReadForCheck
  <2>1. /\ ePC' = "write" /\ mCPURetAdr' = 0
        /\ UNCHANGED <<mState, mExecMutex, eLeft, eExits, dPC, dArg, executed, cycle, microCycles>>
    BY <1>5 DEF ReadForCheck
  <2>2. CASE FetchingOpcode
    <3>1. eWrite' = Decision /\ mRetAdr' \in Nat
      BY <1>5, <2>2 DEF ReadForCheck
    <3>2. eWrite' \in {"none", "HALT", "BRK_DET", "WAIT_ON_RET"}
      BY <3>1 DEF Decision
    <3>3. mSteps' \in 0 .. MaxSteps
      <4>1. mState = "STEP" => mSteps > 0
        OBVIOUS
      <4> QED  BY <1>5, <2>2, <4>1 DEF ReadForCheck
    <3> QED  BY <2>1, <3>1, <3>2, <3>3
  <2>3. CASE ~FetchingOpcode
    BY <1>5, <2>1, <2>3 DEF ReadForCheck
  <2> QED  BY <2>2, <2>3
<1>6. CASE WriteAndUnlock
  BY <1>6 DEF WriteAndUnlock
<1>7. CASE EndPeriod
  BY <1>7 DEF EndPeriod
<1>8. CASE NoEvent
  BY <1>8 DEF NoEvent
<1>9. CASE StopWaiting
  BY <1>9 DEF StopWaiting
<1>10. CASE StartDebugger
  BY <1>10 DEF StartDebugger
<1>11. CASE Quit
  BY <1>11 DEF Quit
<1>12. CASE ExitMarks
  BY <1>12 DEF ExitMarks
<1>13. CASE ExitClears
  BY <1>13 DEF ExitClears
<1>14. CASE ExitContinues
  BY <1>14 DEF ExitContinues, AfterExit
<1>15. CASE ExitPolls
  BY <1>15 DEF ExitPolls, AfterExit
<1>16. CASE Starting
  BY <1>16 DEF Starting, EngineUntouched
<1>17. CASE LoopHead
  BY <1>17 DEF LoopHead, EngineUntouched
<1>18. CASE EnableWaiting
  BY <1>18 DEF EnableWaiting, EngineUntouched
<1>19. CASE \E n \in 0 .. MaxSteps : StepCmd(n)
  BY <1>19 DEF StepCmd, Typed, EngineUntouched
<1>20. CASE SkipCmd
  BY <1>20 DEF SkipCmd, Typed, EngineUntouched
<1>21. CASE SetStep
  BY <1>21 DEF SetStep, BeginHistory
<1>22. CASE RefuseStep
  BY <1>22 DEF RefuseStep
<1>23. CASE PollStep
  BY <1>23 DEF PollStep, EngineUntouched
<1>24. CASE EndStep
  BY <1>24 DEF EndStep, EndHistory, EngineUntouched
<1>25. CASE \E recurring \in BOOLEAN : BreakCmd(recurring)
  BY <1>25 DEF BreakCmd, Typed, EngineUntouched
<1>26. CASE SetBreak
  BY <1>26 DEF SetBreak, BeginHistory, EngineUntouched
<1>27. CASE PollRecurs
  BY <1>27 DEF PollRecurs, EngineUntouched
<1>28. CASE PollDetects
  BY <1>28 DEF PollDetects, EngineUntouched
<1>29. CASE PollGivesUp
  BY <1>29 DEF PollGivesUp, EngineUntouched
<1>30. CASE EndBreak
  BY <1>30 DEF EndBreak, EndHistory, EngineUntouched
<1>31. CASE ClearBreakCmd
  BY <1>31 DEF ClearBreakCmd, Typed, EngineUntouched
<1>32. CASE ContCmd
  BY <1>32 DEF ContCmd, Typed, EngineUntouched
<1>33. CASE Cont
  BY <1>33 DEF Cont, EngineUntouched
<1>34. CASE HaltCmd
  BY <1>34 DEF HaltCmd, Typed
<1>35. CASE SetRegCmd
  BY <1>35 DEF SetRegCmd, Typed, EngineUntouched
<1>36. CASE EndSetReg
  BY <1>36 DEF EndSetReg
<1>37. CASE ExitCmd
  BY <1>37 DEF ExitCmd, Typed, EngineUntouched
<1>38. CASE UNCHANGED vars
  BY <1>38 DEF vars
<1> QED BY <1>1, <1>2, <1>3, <1>4, <1>5, <1>6, <1>7, <1>8, <1>9, <1>10, <1>11, <1>12, <1>13,
           <1>14, <1>15, <1>16, <1>17, <1>18, <1>19, <1>20, <1>21, <1>22, <1>23, <1>24,
           <1>25, <1>26, <1>27, <1>28, <1>29, <1>30, <1>31, <1>32, <1>33, <1>34, <1>35,
           <1>36, <1>37, <1>38
     DEF Next, EngineMoves, EngineLocks, UserEvents, DebuggerMoves, DebuggerLocks,
            UserCommands

-----------------------------------------------------------------------------
\* The control part of the invariant.
ControlInv == LocalsInv /\ MutexInv /\ RunningInv /\ StepInv /\ BreakInv

\* Every step of either thread keeps the control part.
LEMMA ControlKept == IInv /\ [Next]_vars => ControlInv'
<1> SUFFICES ASSUME IInv, [Next]_vars PROVE ControlInv'
  OBVIOUS
<1> USE EngineAssumption DEF IInv, TypeOK, ControlInv, LocalsInv, MutexInv, RunningInv, StepInv,
        BreakInv, Matched, Critical, Exiting, Stepping, Uncounted, CPURunning, EnginePCs, DebuggerPCs,
        RunStates, retVars, debugVars, breakVars, cpuVars, histVars, engineLoc, dbgLoc
<1>1. CASE StartPeriod
  BY <1>1 DEF StartPeriod
<1>2. CASE LockForStep
  BY <1>2 DEF LockForStep
<1>3. CASE TestRunning
  BY <1>3 DEF TestRunning
<1>4. CASE Execute
  <2>1. /\ ePC = "exec" /\ ePC' = "check" /\ midway' = (midway /\ cycle' # 0)
        /\ UNCHANGED <<mState, mSteps, mExecMutex, mWaitingEnabled, dPC, dArg, dTriggered>>
    BY <1>4 DEF Execute
  <2>2. CPURunning(mState)
    BY <2>1
  <2>3. CASE Instruction
    <3>1. EndsInstruction
      BY <1>4, <2>3, InstructionEffect, TypeParts DEF Execute
    <3>2. LocalsInv' /\ MutexInv' /\ RunningInv'
      BY <2>1, <2>2, <3>1 DEF EndsInstruction
    <3>3. StepInv'
      <4>1. CASE Stepping /\ mState = "STEP"
        <5>1. executed' = executed + 1 /\ odd' = odd /\ cycle' = 0
          BY <3>1, <4>1 DEF EndsInstruction, Skipping
        <5> QED  BY <2>1, <2>2, <4>1, <5>1
      <4>2. CASE ~Stepping \/ mState # "STEP"
        BY <2>1, <2>2, <4>2
      <4> QED  BY <4>1, <4>2
    <3>4. BreakInv'
      BY <2>1, <2>2, <3>1 DEF EndsInstruction, Skipping, Breaking
    <3> QED  BY <3>2, <3>3, <3>4
  <2>4. CASE MicroCycle
    BY <2>1, <2>2, <2>4 DEF MicroCycle
  <2>5. CASE IdleStep
    BY <2>1, <2>2, <2>5 DEF IdleStep, Breaking
  <2> QED  BY <1>4, <2>3, <2>4, <2>5 DEF Execute
<1>5. CASE ReadForCheck
  <2>1. LocalsInv' /\ MutexInv'
    BY <1>5 DEF ReadForCheck, Decision, FetchingOpcode
  <2>2. RunningInv'
    BY <1>5 DEF ReadForCheck, Decision, FetchingOpcode
  <2>3. StepInv'
    <3>1. CASE mState = "STEP" /\ cycle = 0
      <4>1. eWrite' = IF mSteps = 1 THEN "HALT" ELSE "none"
        BY <1>5, <3>1 DEF ReadForCheck, Decision, FetchingOpcode
      <4>2. mSteps' = IF mSteps = 1 THEN mSteps ELSE mSteps - 1
        BY <1>5, <3>1, <4>1 DEF ReadForCheck, FetchingOpcode
      <4> QED BY <1>5, <3>1, <4>1, <4>2 DEF ReadForCheck
    <3>2. CASE cycle # 0
      BY <1>5, <3>2 DEF ReadForCheck, FetchingOpcode
    <3>3. CASE mState # "STEP"
      BY <1>5, <3>3 DEF ReadForCheck
    <3> QED BY <3>1, <3>2, <3>3
  <2>4. BreakInv'
    BY <1>5 DEF ReadForCheck, Decision, FetchingOpcode
  <2> QED BY <2>1, <2>2, <2>3, <2>4
<1>6. CASE WriteAndUnlock
  BY <1>6 DEF WriteAndUnlock
<1>7. CASE EndPeriod
  BY <1>7 DEF EndPeriod
<1>8. CASE NoEvent
  BY <1>8 DEF NoEvent
<1>9. CASE StopWaiting
  BY <1>9 DEF StopWaiting
<1>10. CASE StartDebugger
  BY <1>10 DEF StartDebugger
<1>11. CASE Quit
  BY <1>11 DEF Quit
<1>12. CASE ExitMarks
  BY <1>12 DEF ExitMarks
<1>13. CASE ExitClears
  BY <1>13 DEF ExitClears
<1>14. CASE ExitContinues
  BY <1>14 DEF ExitContinues, AfterExit
<1>15. CASE ExitPolls
  BY <1>15 DEF ExitPolls, AfterExit
<1>16. CASE Starting
  BY <1>16 DEF Starting, EngineUntouched
<1>17. CASE LoopHead
  BY <1>17 DEF LoopHead, EngineUntouched
<1>18. CASE EnableWaiting
  BY <1>18 DEF EnableWaiting, EngineUntouched
<1>19. CASE \E n \in 0 .. MaxSteps : StepCmd(n)
  BY <1>19 DEF StepCmd, Typed, EngineUntouched
<1>20. CASE SkipCmd
  BY <1>20 DEF SkipCmd, Typed, EngineUntouched
<1>21. CASE SetStep
  BY <1>21 DEF SetStep, BeginHistory
<1>22. CASE RefuseStep
  BY <1>22 DEF RefuseStep
<1>23. CASE PollStep
  BY <1>23 DEF PollStep, EngineUntouched
<1>24. CASE EndStep
  BY <1>24 DEF EndStep, EndHistory, EngineUntouched
<1>25. CASE \E recurring \in BOOLEAN : BreakCmd(recurring)
  BY <1>25 DEF BreakCmd, Typed, EngineUntouched
<1>26. CASE SetBreak
  BY <1>26 DEF SetBreak, BeginHistory, EngineUntouched
<1>27. CASE PollRecurs
  BY <1>27 DEF PollRecurs, EngineUntouched
<1>28. CASE PollDetects
  BY <1>28 DEF PollDetects, EngineUntouched
<1>29. CASE PollGivesUp
  BY <1>29 DEF PollGivesUp, EngineUntouched
<1>30. CASE EndBreak
  BY <1>30 DEF EndBreak, EndHistory, EngineUntouched
<1>31. CASE ClearBreakCmd
  BY <1>31 DEF ClearBreakCmd, Typed, EngineUntouched
<1>32. CASE ContCmd
  BY <1>32 DEF ContCmd, Typed, EngineUntouched
<1>33. CASE Cont
  BY <1>33 DEF Cont, EngineUntouched
<1>34. CASE HaltCmd
  BY <1>34 DEF HaltCmd, Typed
<1>35. CASE SetRegCmd
  BY <1>35 DEF SetRegCmd, Typed, EngineUntouched
<1>36. CASE EndSetReg
  BY <1>36 DEF EndSetReg
<1>37. CASE ExitCmd
  BY <1>37 DEF ExitCmd, Typed, EngineUntouched
<1>38. CASE UNCHANGED vars
  BY <1>38 DEF vars
<1> QED BY <1>1, <1>2, <1>3, <1>4, <1>5, <1>6, <1>7, <1>8, <1>9, <1>10, <1>11, <1>12, <1>13,
           <1>14, <1>15, <1>16, <1>17, <1>18, <1>19, <1>20, <1>21, <1>22, <1>23, <1>24,
           <1>25, <1>26, <1>27, <1>28, <1>29, <1>30, <1>31, <1>32, <1>33, <1>34, <1>35,
           <1>36, <1>37, <1>38
     DEF Next, EngineMoves, EngineLocks, UserEvents, DebuggerMoves, DebuggerLocks,
            UserCommands

-----------------------------------------------------------------------------
\* The invariant holds at the start ...
LEMMA InitInv == Init => IInv
<1> SUFFICES ASSUME Init PROVE IInv
  OBVIOUS
<1>1. Flags
  BY Zenon DEF Init, Flags
<1>2. Ranges
  BY EngineAssumption DEF Init, Ranges, RunStates, EnginePCs, DebuggerPCs
<1>3. Processor
  BY DEF Init, Processor
<1>4. ControlInv
  BY DEF Init, ControlInv, LocalsInv, MutexInv, RunningInv, StepInv, BreakInv, Matched,
         Critical, Exiting, Stepping, Uncounted, CPURunning
<1> QED BY <1>1, <1>2, <1>3, <1>4, TypeParts DEF IInv, ControlInv

\* ... and in every step.
LEMMA NextInv == IInv /\ [Next]_vars => IInv'
<1> SUFFICES ASSUME IInv, [Next]_vars PROVE IInv'
  OBVIOUS
<1>1. Flags' /\ Processor'
  BY TypeParts, FlagsKept, ProcessorKept DEF IInv
<1>2. Ranges' /\ ControlInv'
  BY RangesKept, ControlKept
<1>3. TypeOK'
  BY <1>1, <1>2 DEF TypeOK, Flags, Ranges, Processor
<1> QED BY <1>2, <1>3 DEF IInv, ControlInv

\* The invariant holds in every state.
LEMMA SpecInv == Spec => []IInv
BY InitInv, NextInv, PTL DEF Spec

\* The run state, the two program counters and the counters of the step command stay in
\* their ranges.
THEOREM TypeCorrect == Spec => []TypeOK
<1>1. IInv => TypeOK
  BY DEF IInv
<1> QED BY SpecInv, <1>1, PTL

\* The debugger changes registers only between two calls of step(), and within an instruction
\* only after halt: Debugger tests isRunning() and writes the registers without mExecMutex,
\* and only Engine::run, holding it, executes; checkForBreakPoint stops at opcode fetches.
THEOREM RegistersCorrect == Spec => []RegistersSafe
<1>1. IInv => RegistersSafe
  BY DEF IInv, RunningInv, Exiting, RegistersSafe
<1> QED BY SpecInv, <1>1, PTL

\* A step command that ends with the processor halted has executed as many instructions as
\* asked for, less the steps at an opcode fetch that executed nothing, and has ended at an
\* opcode fetch: Engine::step sets mSteps, Engine::checkForBreakPoint counts it down.
THEOREM StepCorrect == Spec => []StepExact
<1>1. IInv => StepExact
  BY DEF IInv, StepInv, Stepping, StepExact, FetchingOpcode
<1> QED BY SpecInv, <1>1, PTL

\* A breakpoint that setBreakPointAndWait reports has been matched by an instruction
\* executed since the command was given, unless a step of this command executed nothing.
THEOREM BreakCorrect == Spec => []BreakGenuine
<1>1. IInv => BreakGenuine
  BY DEF IInv, BreakInv, Matched, BreakGenuine
<1> QED BY SpecInv, <1>1, PTL

-----------------------------------------------------------------------------
(* A skip command of P6502IC comes back to where it began.                 *)

\* The call that will return to r, made from where the command began (calls b), has not
\* returned yet, and nothing above it on the stack returns to r.
Inside(c, b, r) ==
  LET n == Len(c) - Len(b)
  IN  /\ n > 0 /\ c[n] = r
      /\ \A k \in 1 .. n - 1 : c[k] # r
      /\ \A k \in DOMAIN b : c[n + k] = b[k]

\* The subroutine is still being executed, if nothing odd has happened; ...
Within == odd = {} => Inside(calls, base, from + 3) /\ pc # from + 3

\* ... or the command is where it promises to end.
Returned == pc = from + 3 /\ (odd = {} => calls = base)

\* During a skip command only the engine thread writes the run state: one instruction is
\* executed, or the call is followed down to the return to mRetAdr.
SkipInv ==
  Skipping /\ ~microCycles =>
    /\ mState \in {"STEP_OVER", "WAIT_ON_RET", "HALT", "RUN", "BRK_WAIT"}
    /\ mState = "STEP_OVER" =>
         /\ ePC \notin {"check", "write"} => executed = 0 /\ calls = base /\ pc = from /\ odd = {}
         /\ ePC = "check" => /\ executed <= 1 /\ mCPURetAdr = from + 3
                             /\ mOpcode = "JSR" => Within
         /\ ePC = "write" => /\ executed <= 1 /\ eWrite \in {"HALT", "WAIT_ON_RET"}
                             /\ eWrite = "WAIT_ON_RET" => mRetAdr = from + 3 /\ Within
    /\ mState = "WAIT_ON_RET" =>
         /\ mRetAdr = from + 3
         /\ ePC \notin {"check", "write"} => Within
         /\ ePC = "check" => Within \/ Returned
         /\ ePC = "write" => \/ eWrite = "none" /\ Within
                             \/ eWrite = "HALT" /\ Returned
    /\ mState = "HALT" => (executed <= 1 \/ Returned) /\ ePC \notin {"check", "write"}
    /\ mState \in {"RUN", "BRK_WAIT"} => ePC \in Exiting

\* Pushing another return address stays inside.
LEMMA PushInside ==
  ASSUME NEW c \in Seq(Addresses), NEW b \in Seq(Addresses), NEW r \in Nat, NEW x \in Addresses,
         x # r, Inside(c, b, r)
  PROVE  Inside(<<x>> \o c, b, r)
<1> DEFINE d == <<x>> \o c
           n == Len(c) - Len(b)
<1>1. /\ Len(c) \in Nat /\ Len(b) \in Nat /\ DOMAIN b = 1 .. Len(b) /\ DOMAIN c = 1 .. Len(c)
      /\ n \in Nat \ {0} /\ n + Len(b) = Len(c)
  BY DEF Inside
<1>2. /\ c[n] = r /\ \A k \in 1 .. n - 1 : c[k] # r
      /\ \A k \in 1 .. Len(b) : c[n + k] = b[k]
  BY <1>1 DEF Inside
<1>3. <<x>> \in Seq(Addresses) /\ d \in Seq(Addresses) /\ Len(d) = Len(c) + 1 /\ d[1] = x
  OBVIOUS
<1>4. \A i \in 1 .. Len(c) : d[i + 1] = c[i]
  OBVIOUS
<1> HIDE DEF d, n
<1>5. n \in 1 .. Len(c) /\ Len(d) - Len(b) = n + 1
  BY <1>1, <1>3
<1>6. d[n + 1] = r
  BY <1>2, <1>4, <1>5
<1>7. ASSUME NEW k \in 1 .. n  PROVE d[k] # r
  <2>1. CASE k = 1
    BY <1>3, <2>1
  <2>2. CASE k # 1
    <3>1. k - 1 \in 1 .. n - 1 /\ k - 1 \in 1 .. Len(c) /\ (k - 1) + 1 = k
      BY <1>1, <2>2
    <3>2. d[(k - 1) + 1] = c[k - 1]
      BY <1>4, <3>1
    <3> QED  BY <1>2, <3>1, <3>2
  <2> QED  BY <2>1, <2>2
<1>8. ASSUME NEW k \in 1 .. Len(b)  PROVE d[(n + 1) + k] = b[k]
  <2>1. n + k \in 1 .. Len(c) /\ (n + k) + 1 = (n + 1) + k
    BY <1>1
  <2>2. d[(n + k) + 1] = c[n + k]
    BY <1>4, <2>1
  <2> QED  BY <1>2, <2>1, <2>2
<1>9. (n + 1) - 1 = n /\ n + 1 > 0
  BY <1>1
<1>10. Inside(d, b, r)
  <2>1. \A k \in 1 .. (n + 1) - 1 : d[k] # r
    BY <1>7, <1>9
  <2>2. \A k \in DOMAIN b : d[(n + 1) + k] = b[k]
    BY <1>1, <1>8
  <2> QED  BY <1>5, <1>6, <1>9, <2>1, <2>2 DEF Inside
<1> QED  BY <1>10 DEF d

\* A return comes out of the subroutine at r, or stays inside and goes elsewhere.
LEMMA PopInside ==
  ASSUME NEW c \in Seq(Addresses), NEW b \in Seq(Addresses), NEW r \in Nat, Inside(c, b, r)
  PROVE  /\ c # <<>>
         /\ \/ c[1] = r /\ Tail(c) = b
            \/ c[1] # r /\ Inside(Tail(c), b, r)
<1> DEFINE d == Tail(c)
           l == Len(c)
           m == Len(b)
           n == Len(c) - Len(b)
<1>1. /\ l \in Nat /\ m \in Nat /\ DOMAIN b = 1 .. m /\ n \in Nat \ {0} /\ n + m = l
  BY DEF Inside
<1>2. /\ c[n] = r /\ \A k \in 1 .. n - 1 : c[k] # r
      /\ \A k \in 1 .. m : c[n + k] = b[k]
  BY <1>1 DEF Inside
<1>5. Len(b) = m
  OBVIOUS
<1> HIDE DEF n, m
<1>3. c # <<>>
  <2>1. l # 0
    <3> HIDE DEF l
    <3> QED  BY <1>1
  <2> QED  BY <2>1
<1>4. d \in Seq(Addresses) /\ Len(d) = l - 1 /\ \A i \in 1 .. l - 1 : d[i] = c[i + 1]
  BY <1>3
<1> HIDE DEF d, l
<1>6. CASE n = 1
  <2>1. c[1] = r /\ Len(d) = m
    BY <1>1, <1>2, <1>4, <1>6
  <2>2. ASSUME NEW k \in 1 .. m  PROVE d[k] = b[k]
    <3>1. k \in 1 .. l - 1 /\ k + 1 = n + k
      BY <1>1, <1>6
    <3>2. d[k] = c[k + 1]
      BY <1>4, <3>1
    <3> QED  BY <1>2, <3>1, <3>2
  <2>3. d = b
    BY <1>4, <1>5, <2>1, <2>2
  <2> QED  BY <1>3, <2>1, <2>3 DEF d
<1>7. CASE n # 1
  <2>1. /\ 1 \in 1 .. n - 1 /\ n - 1 \in 1 .. l - 1 /\ (n - 1) + 1 = n /\ n - 1 > 0
        /\ Len(d) - Len(b) = n - 1
    BY <1>1, <1>4, <1>5, <1>7
  <2>2. c[1] # r
    BY <1>2, <2>1
  <2>3. d[n - 1] = r
    <3>1. d[n - 1] = c[(n - 1) + 1]
      BY <1>4, <2>1
    <3> QED  BY <1>2, <2>1, <3>1
  <2>4. ASSUME NEW k \in 1 .. (n - 1) - 1  PROVE d[k] # r
    <3>1. k \in 1 .. l - 1 /\ k + 1 \in 1 .. n - 1
      BY <1>1
    <3>2. d[k] = c[k + 1]
      BY <1>4, <3>1
    <3> QED  BY <1>2, <3>1, <3>2
  <2>5. ASSUME NEW k \in 1 .. m  PROVE d[(n - 1) + k] = b[k]
    <3>1. (n - 1) + k \in 1 .. l - 1 /\ ((n - 1) + k) + 1 = n + k
      BY <1>1
    <3>2. d[(n - 1) + k] = c[((n - 1) + k) + 1]
      BY <1>4, <3>1
    <3> QED  BY <1>2, <3>1, <3>2
  <2>6. \A k \in DOMAIN b : d[(n - 1) + k] = b[k]
    BY <1>1, <2>5
  <2>7. Inside(d, b, r)
    BY <1>5, <2>1, <2>3, <2>4, <2>6 DEF Inside
  <2> QED  BY <1>3, <2>2, <2>7 DEF d
<1> QED  BY <1>6, <1>7

\* An instruction inside the subroutine stays there or is its return, unless it is odd.
LEMMA InstructionInside ==
  ASSUME NEW p \in Addresses, NEW c \in Seq(Addresses), NEW b \in Seq(Addresses), NEW r \in Nat,
         Inside(c, b, r), NEW o \in Instructions(p, c),
         o.kind # "return" => o.pc # r, o.kind = "jsr" => Head(o.calls) # r
  PROVE  \/ o.pc = r /\ o.calls = b
         \/ o.pc # r /\ Inside(o.calls, b, r)
<1>1. CASE o \in {[kind |-> "plain", pc |-> a, calls |-> c] : a \in Addresses}
  BY <1>1
<1>2. CASE c # <<>> /\ o = [kind |-> "return", pc |-> Head(c), calls |-> Tail(c)]
  <2>1. o.pc = c[1] /\ o.calls = Tail(c)
    BY <1>2
  <2> QED  BY <2>1, PopInside
<1>3. ASSUME p + 3 \in Addresses, NEW a \in Addresses,
             o = [kind |-> "jsr", pc |-> a, calls |-> <<p + 3>> \o c]
      PROVE  o.pc # r /\ Inside(o.calls, b, r)
  <2>1. o.kind = "jsr" /\ o.pc = a /\ o.calls = <<p + 3>> \o c
    BY <1>3
  <2>2. Head(<<p + 3>> \o c) = p + 3
    BY <1>3
  <2>3. p + 3 # r
    BY <2>1, <2>2
  <2>4. Inside(<<p + 3>> \o c, b, r)
    BY <1>3, <2>3, PushInside
  <2> QED  BY <2>1, <2>4
<1> QED  BY <1>1, <1>2, <1>3 DEF Instructions

\* A JSR executed where the command began goes inside.
LEMMA CallEnters ==
  ASSUME NEW b \in Seq(Addresses), NEW p \in Addresses, NEW o \in Instructions(p, b),
         o.kind = "jsr"
  PROVE  Inside(o.calls, b, p + 3)
<1>1. p + 3 \in Addresses /\ o.calls = <<p + 3>> \o b
  BY DEF Instructions
<1> DEFINE c == <<p + 3>> \o b
<1>2. /\ Len(b) \in Nat /\ DOMAIN b = 1 .. Len(b) /\ Len(c) = Len(b) + 1 /\ c[1] = p + 3
      /\ \A k \in 1 .. Len(b) : c[k + 1] = b[k]
  BY <1>1
<1> HIDE DEF c
<1>3. Len(c) - Len(b) = 1 /\ \A k \in DOMAIN b : c[1 + k] = b[k]
  BY <1>2
<1>4. Inside(c, b, p + 3)
  BY <1>2, <1>3 DEF Inside
<1> QED  BY <1>1, <1>4 DEF c

\* A step that touches nothing of the command, and leaves the loop for good or not at all.
LEMMA SkipStays ==
  ASSUME SkipInv, Skipping' => Skipping,
         UNCHANGED <<mState, executed, calls, base, from, odd, pc, microCycles, mOpcode, eWrite,
                     mRetAdr, mCPURetAdr>>,
         ePC' = ePC \/ {ePC, ePC'} \cap {"check", "write"} = {}, ePC \in Exiting => ePC' \in Exiting
  PROVE  SkipInv'
<1>1. ePC' \notin {"check", "write"} <=> ePC \notin {"check", "write"}
  OBVIOUS
<1>2. ePC' \in {"check", "write"} => ePC' = ePC
  OBVIOUS
<1>3. Within' = Within /\ Returned' = Returned
  BY DEF Within, Returned
<1> QED  BY <1>1, <1>2, <1>3 DEF SkipInv

\* What a step of P6502IC does during a skip command.
LEMMA StepOfSkip ==
  ASSUME IInv, Execute, Skipping, ~microCycles
  PROVE  /\ ePC = "exec" /\ ePC' = "check" /\ mCPURetAdr' = pc + 3
         /\ UNCHANGED <<mState, mRetAdr, base, from, dPC, microCycles>>
         /\ executed \in Nat /\ executed' \in Nat /\ executed' <= executed + 1
         /\ odd \subseteq odd'
         /\ odd' = {} => odd = {} /\ Instruction
<1>1. /\ ePC = "exec" /\ ePC' = "check" /\ mCPURetAdr' = pc + 3
      /\ UNCHANGED <<mState, mRetAdr, base, from, dPC, microCycles>>
      /\ Instruction \/ MicroCycle \/ IdleStep
  BY DEF Execute, dbgLoc, GetPC
<1>2. executed \in Nat /\ cycle = 0
  BY DEF IInv, TypeOK
<1>3. CASE Instruction
  BY <1>1, <1>2, <1>3 DEF Instruction
<1>4. CASE IdleStep
  BY <1>1, <1>2, <1>4 DEF IdleStep
<1>5. ~MicroCycle
  BY DEF MicroCycle
<1> QED  BY <1>1, <1>3, <1>4, <1>5

\* The first instruction of the command, if nothing odd happens: a JSR goes inside.
LEMMA SkipBegins ==
  ASSUME IInv, Execute, Skipping, ~microCycles, mState = "STEP_OVER", calls = base, pc = from,
         odd' = {}, mOpcode' = "JSR"
  PROVE  Within'
<1>1. /\ Instruction /\ UNCHANGED <<base, from>> /\ odd = {}
      /\ pc \in Addresses /\ calls \in Seq(Addresses)
  BY StepOfSkip, TypeParts DEF IInv, Processor
<1>2. PICK o \in Instructions(pc, calls) : Completed(o) /\ odd' = odd \cup Oddities(o)
  BY <1>1 DEF Instruction
<1>3. o.kind = "jsr" /\ pc' = o.pc /\ calls' = o.calls
  BY <1>2 DEF Completed
<1>4. Inside(o.calls, base, from + 3)
  BY <1>1, <1>3, CallEnters
<1>5. o.pc # from + 3
  BY <1>2, <1>3 DEF Oddities
<1> QED  BY <1>1, <1>3, <1>4, <1>5 DEF Within

\* Any further one stays inside or returns; an interrupt handler is entered and left inside.
LEMMA SkipGoesOn ==
  ASSUME IInv, Execute, Skipping, ~microCycles, mState = "WAIT_ON_RET", Within, odd' = {}
  PROVE  Within' \/ Returned'
<1> DEFINE r == from + 3
<1>1. /\ Instruction /\ UNCHANGED <<base, from>> /\ odd = {}
      /\ pc \in Addresses /\ calls \in Seq(Addresses) /\ base \in Seq(Addresses)
      /\ r \in Nat
  <2>1. Instruction /\ UNCHANGED <<base, from>> /\ odd = {}
    BY StepOfSkip
  <2>2. Processor
    BY TypeParts DEF IInv
  <2>3. pc \in Addresses /\ calls \in Seq(Addresses) /\ base \in Seq(Addresses) /\ from \in Nat
    BY <2>2, EngineAssumption DEF Processor
  <2> QED  BY <2>1, <2>3
<1>2. Inside(calls, base, r) /\ pc # r
  BY <1>1 DEF Within
<1>3. Len(calls) > Len(base)
  BY <1>1, <1>2 DEF Inside
<1> DEFINE Even(o) == /\ o.kind # "return" => o.pc # r
                      /\ o.kind = "jsr" => Head(o.calls) # r
<1>4. ASSUME NEW o, Completed(o), Oddities(o) = {}
      PROVE  pc' = o.pc /\ calls' = o.calls /\ Even(o)
  BY <1>3, <1>4 DEF Completed, Oddities
<1> HIDE DEF r, Even
<1>5. ASSUME NEW o, Completed(o), Oddities(o) = {},
             (o.pc = r /\ o.calls = base) \/ (o.pc # r /\ Inside(o.calls, base, r))
      PROVE  Within' \/ Returned'
  BY <1>1, <1>4, <1>5 DEF Within, Returned, r
<1>6. ASSUME NEW o \in Instructions(pc, calls), Completed(o), odd' = odd \cup Oddities(o)
      PROVE  Within' \/ Returned'
  <2>1. Oddities(o) = {}
    BY <1>6
  <2>2. Even(o)
    BY <1>4, <1>6, <2>1
  <2>3. (o.pc = r /\ o.calls = base) \/ (o.pc # r /\ Inside(o.calls, base, r))
    BY <1>1, <1>2, <1>6, <2>2, InstructionInside DEF Even
  <2> QED  BY <1>5, <1>6, <2>1, <2>3
<1>7. ASSUME NEW e \in Interrupts(pc, calls), NEW o \in Instructions(e.pc, e.calls), Completed(o),
             Oddities(o) = {}
      PROVE  Within' \/ Returned'
  <2>1. e.pc \in Addresses /\ e.calls = <<pc>> \o calls /\ e.calls \in Seq(Addresses)
    BY <1>1, <1>7, InterruptType
  <2>2. Inside(e.calls, base, r)
    <3>1. Inside(<<pc>> \o calls, base, r)
      BY <1>1, <1>2, PushInside
    <3> QED  BY <2>1, <3>1
  <2>3. Even(o)
    BY <1>4, <1>7
  <2>4. (o.pc = r /\ o.calls = base) \/ (o.pc # r /\ Inside(o.calls, base, r))
    BY <1>1, <1>7, <2>1, <2>2, <2>3, InstructionInside DEF Even
  <2> QED  BY <1>5, <1>7, <2>4
<1>8. \/ \E o \in Instructions(pc, calls) : Completed(o) /\ odd' = odd \cup Oddities(o)
      \/ \E e \in Interrupts(pc, calls) : \E o \in Instructions(e.pc, e.calls) :
            Completed(o) /\ Oddities(o) = {}
  BY <1>1 DEF Instruction
<1> QED  BY <1>6, <1>7, <1>8

\* An instruction of a skip command: the first one, or one inside the subroutine.
LEMMA SkipExecutes == IInv /\ SkipInv /\ Execute => SkipInv'
<1> SUFFICES ASSUME IInv, SkipInv, Execute, Skipping, ~microCycles  PROVE SkipInv'
  BY DEF Execute, dbgLoc, Skipping, SkipInv
<1>1. /\ ePC = "exec" /\ ePC' = "check" /\ mCPURetAdr' = pc + 3
      /\ UNCHANGED <<mState, mRetAdr, base, from, dPC, microCycles>>
      /\ executed \in Nat /\ executed' \in Nat /\ executed' <= executed + 1
      /\ odd \subseteq odd'
  BY StepOfSkip
<1>2. mState \in {"STEP_OVER", "WAIT_ON_RET"}
  BY <1>1 DEF IInv, RunningInv, CPURunning, SkipInv, Exiting
<1>3. CASE mState = "STEP_OVER"
  <2>1. executed = 0 /\ calls = base /\ pc = from
    BY <1>1, <1>3 DEF SkipInv
  <2>2. mOpcode' = "JSR" => Within'
    <3>1. CASE odd' = {}
      BY <1>3, <2>1, <3>1, SkipBegins
    <3>2. CASE odd' # {}
      BY <3>2 DEF Within
    <3> QED  BY <3>1, <3>2
  <2>3. executed' <= 1 /\ mCPURetAdr' = from' + 3
    BY <1>1, <2>1
  <2> QED  BY <1>1, <1>3, <2>2, <2>3 DEF SkipInv
<1>4. CASE mState = "WAIT_ON_RET"
  <2>1. mRetAdr = from + 3 /\ Within
    BY <1>1, <1>4 DEF SkipInv
  <2>2. Within' \/ Returned'
    <3>1. CASE odd' = {}
      BY <1>4, <2>1, <3>1, SkipGoesOn
    <3>2. CASE odd' # {}
      BY <3>2 DEF Within
    <3> QED  BY <3>1, <3>2
  <2> QED  BY <1>1, <1>4, <2>1, <2>2 DEF SkipInv
<1> QED  BY <1>2, <1>3, <1>4

\* What checkForBreakPoint decides about it, and writes.
LEMMA SkipDecides == IInv /\ SkipInv /\ ReadForCheck => SkipInv'
<1> SUFFICES ASSUME IInv, SkipInv, ReadForCheck, Skipping, ~microCycles  PROVE SkipInv'
  BY DEF ReadForCheck, dbgLoc, cpuVars, Skipping, SkipInv
<1>1. /\ ePC = "check" /\ ePC' = "write" /\ mState' = mState /\ executed' = executed
      /\ UNCHANGED <<base, from, odd, pc, calls, microCycles>> /\ FetchingOpcode
      /\ eWrite' = Decision
      /\ mRetAdr' = IF eWrite' = "WAIT_ON_RET" THEN mCPURetAdr ELSE mRetAdr
  BY DEF ReadForCheck, histVars, cpuVars, FetchingOpcode, IInv, TypeOK
<1>2. Within' = Within /\ Returned' = Returned
  BY <1>1 DEF Within, Returned
<1>3. mState \in {"STEP_OVER", "WAIT_ON_RET"}
  BY <1>1 DEF IInv, RunningInv, CPURunning, SkipInv, Exiting
<1>4. CASE mState = "STEP_OVER"
  <2>1. eWrite' = IF mOpcode = "JSR" THEN "WAIT_ON_RET" ELSE "HALT"
    BY <1>1, <1>4 DEF Decision
  <2> QED  BY <1>1, <1>2, <1>4, <2>1 DEF SkipInv
<1>5. CASE mState = "WAIT_ON_RET"
  <2>1. eWrite' = IF pc = mRetAdr THEN "HALT" ELSE "none"
    BY <1>1, <1>5 DEF Decision, GetPC
  <2>2. mRetAdr = from + 3 /\ (Within \/ Returned)
    BY <1>1, <1>5 DEF SkipInv
  <2>3. CASE pc = from + 3
    <3>1. Returned
      BY <2>2, <2>3 DEF Within, Returned
    <3> QED  BY <1>1, <1>2, <1>5, <2>1, <2>2, <2>3, <3>1 DEF SkipInv
  <2>4. CASE pc # from + 3
    <3>1. Within
      BY <2>2, <2>4 DEF Returned
    <3> QED  BY <1>1, <1>2, <1>5, <2>1, <2>2, <2>4, <3>1 DEF SkipInv
  <2> QED  BY <2>3, <2>4
<1> QED  BY <1>3, <1>4, <1>5

\* What the engine thread writes after an instruction keeps the invariant of a skip.
LEMMA SkipWrites == SkipInv /\ WriteAndUnlock => SkipInv'
<1> SUFFICES ASSUME SkipInv, WriteAndUnlock  PROVE SkipInv'
  OBVIOUS
<1>1. Within' = Within /\ Returned' = Returned
  BY DEF WriteAndUnlock, Within, Returned, cpuVars, histVars
<1> QED  BY <1>1 DEF SkipInv, WriteAndUnlock, Skipping, Exiting, cpuVars, retVars, histVars, dbgLoc

\* Every other step leaves the command alone, begins it or ends it.
LEMMA SkipKept == IInv /\ SkipInv /\ [Next]_vars => SkipInv'
<1> SUFFICES ASSUME IInv, SkipInv, [Next]_vars  PROVE SkipInv'
  OBVIOUS
<1> USE DEF retVars, debugVars, breakVars, cpuVars, histVars, engineLoc, dbgLoc
<1>1. CASE Execute \/ ReadForCheck \/ WriteAndUnlock
  BY <1>1, SkipExecutes, SkipDecides, SkipWrites
<1>2. CASE StartPeriod \/ TestRunning \/ EndPeriod \/ LockForStep \/ NoEvent \/ UNCHANGED vars
  BY <1>2, SkipStays DEF StartPeriod, TestRunning, EndPeriod, LockForStep, NoEvent, vars,
     Exiting, Skipping
<1>3. CASE StopWaiting \/ Quit \/ ExitMarks
  BY <1>3, SkipStays DEF StopWaiting, Quit, ExitMarks, Exiting, Skipping
<1>4. CASE ExitClears \/ PollStep
  BY <1>4, SkipStays DEF ExitClears, PollStep, EngineUntouched, Exiting, Skipping
<1>5. CASE ExitContinues
  <2>1. Within' = Within /\ Returned' = Returned
    BY <1>5 DEF ExitContinues, Within, Returned
  <2> QED  BY <1>5, <2>1 DEF ExitContinues, AfterExit, SkipInv, Exiting, Skipping
<1>6. CASE ExitPolls
  <2>1. Within' = Within /\ Returned' = Returned
    BY <1>6 DEF ExitPolls, Within, Returned
  <2> QED  BY <1>6, <2>1 DEF ExitPolls, AfterExit, SkipInv, Exiting, Skipping
<1>7. CASE SetStep
  BY <1>7 DEF SetStep, BeginHistory, SkipInv, Skipping, IInv, MutexInv, Critical
<1>8. CASE StartDebugger \/ DebuggerMoves
  <2>1. ~ Skipping'
    BY <1>8 DEF StartDebugger, DebuggerMoves, Starting, LoopHead, EnableWaiting, EndStep, EndBreak,
       Cont, EndSetReg, Skipping
  <2> QED  BY <2>1 DEF SkipInv
<1>9. CASE RefuseStep \/ SetBreak \/ PollRecurs \/ PollDetects \/ PollGivesUp
  <2>1. ~ Skipping'
    BY <1>9 DEF RefuseStep, SetBreak, PollRecurs, PollDetects, PollGivesUp, Skipping
  <2> QED  BY <2>1 DEF SkipInv
<1>10. CASE UserCommands
  <2>1. ~ Skipping'
    BY <1>10 DEF UserCommands, StepCmd, SkipCmd, ContCmd, ClearBreakCmd, HaltCmd, SetRegCmd,
       ExitCmd, BreakCmd, Typed, Skipping
  <2> QED  BY <2>1 DEF SkipInv
<1> QED  BY <1>1, <1>2, <1>3, <1>4, <1>5, <1>6, <1>7, <1>8, <1>9, <1>10
         DEF Next, EngineMoves, EngineLocks, UserEvents, DebuggerLocks

\* With P6502IC, whatever the program, the interrupts and the pins do: a skip command that
\* ends with the processor halted has executed one instruction at most, or stands behind the
\* one it began with; and the calls made since have returned, unless the program jumped
\* there, called itself from there, or a disturbance came with the first step.  Engine::run
\* records the address before each step, Engine::checkForBreakPoint compares it.
THEOREM SkipCorrect == Spec => []SkipReturns
<1>1. Init => SkipInv
  BY DEF Init, SkipInv, Skipping
<1>2. IInv /\ SkipInv /\ [Next]_vars => SkipInv'
  BY SkipKept
<1>3. IInv /\ SkipInv => SkipReturns
  <2> SUFFICES ASSUME IInv, SkipInv, ~microCycles  PROVE SkipReturns
    BY DEF SkipReturns
  <2>1. StepsOver
    <3> SUFFICES ASSUME dPC = "skipPoll", mState = "WAIT_ON_RET", ePC = "inner", odd = {}
                 PROVE  calls # base
      BY DEF StepsOver
    <3>1. Inside(calls, base, from + 3)
      BY DEF SkipInv, Skipping, Within
    <3>2. calls \in Seq(Addresses) /\ base \in Seq(Addresses)
      BY DEF IInv, TypeOK
    <3> QED  BY <3>1, <3>2 DEF Inside
  <2>2. dPC = "skipEnd" /\ mState = "HALT" => executed <= 1 \/ Returned
    BY DEF SkipInv, Skipping
  <2> QED  BY <2>1, <2>2 DEF SkipReturns, Returned
<1> QED  BY <1>1, <1>2, <1>3, SpecInv, PTL DEF Spec
=============================================================================

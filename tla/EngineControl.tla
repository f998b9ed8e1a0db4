--------------------------- MODULE EngineControl ---------------------------
(***************************************************************************)
(* The two threads of the emulator and the run state they share.           *)
(*                                                                         *)
(* The engine thread (Engine::run) executes the processor one step at a    *)
(* time under mExecMutex and, once per emulation period, serves the menu   *)
(* (GUI::itemSelected).  A step is an instruction with P6502IC and a clock *)
(* cycle with P6502CC; checkForBreakPoint looks at the processor after     *)
(* every step and acts only where an opcode is about to be fetched.        *)
(*                                                                         *)
(* The debugger thread (Debugger::run) reads one command after the other;  *)
(* step, skip, cont and break change mState and then poll it under the     *)
(* mutex until the processor has stopped or the user has chosen "Stop      *)
(* waiting".  Some writes of mState are made without the mutex             *)
(* (Engine::cont and the ends of Engine::step and setBreakPointAndWait),   *)
(* as are the reads of isRunning(); each is a step of its own here.        *)
(*                                                                         *)
(* Abstracted: of the program only calls, returns and where it goes are    *)
(* kept, of a breakpoint (of seven kinds) only whether a step matches it;  *)
(* a cycle of P6502CC knows how far the instruction is, not what it does.  *)
(*                                                                         *)
(* A definition named after another one with a suffix (HaltUnlocked, ...)  *)
(* is a plausible error in it, against which the properties are tested;    *)
(* the specification does not use it.                                      *)
(***************************************************************************)
EXTENDS Integers, Sequences

CONSTANTS
  PeriodSteps,  \* steps of the processor in one low-rate emulation period
  MaxSteps,     \* largest argument of the step command
  Processors,   \* the processors in use: "IC" (P6502IC) and "CC" (P6502CC)
  MaxCycles,    \* bound: cycles of an instruction of P6502CC
  Addresses,    \* where instructions begin
  MaxDepth,     \* bound: depth of calls and interrupts
  Disturbances, \* "idle": RESET, RDY, stretched cycles; "interrupt": IRQ, NMI
  UserMayQuit,  \* may the window be closed?
  Commands      \* the commands the user types

ASSUME EngineAssumption ==
  /\ PeriodSteps \in Nat \ {0}
  /\ MaxSteps \in Nat \ {0}
  /\ Processors \subseteq {"IC", "CC"}
  /\ MaxCycles \in Nat \ {0, 1}
  /\ Addresses \subseteq Nat
  /\ MaxDepth \in Nat
  /\ Disturbances \subseteq {"idle", "interrupt"}
  /\ UserMayQuit \in BOOLEAN
  /\ Commands \subseteq {"step", "skip", "cont", "break", "clr", "halt", "rset", "exit"}

VARIABLES
  mState,           \* Engine::mState
  mSteps,           \* Engine::mSteps
  mRetAdr,          \* Engine::mRetAdr
  mCPURetAdr,       \* Engine::mCPURetAdr, until it has been used (0 otherwise)
  mBreakPoint,      \* Engine::mBreakPoint
  mRecurring,       \* Engine::mRecurringTracing
  mExecMutex,       \* holder of Engine::mExecMutex
  mWaitingEnabled,  \* Debugger::mWaitingEnabled
  mDebuggerWaiting, \* Debugger::mDebuggerWaiting
  mQuit,            \* Debugger::mQuit
  ePC,              \* where the engine thread is
  eLeft,            \* steps left in the period
  eWrite,           \* checkForBreakPoint: the new run state it has decided on
  eExits,           \* calls of Debugger::exit the engine thread has yet to make
  dPC,              \* where the debugger thread is
  dArg,             \* argument of the step command being executed
  dTriggered,       \* setBreakPointAndWait: the local variable triggered
  microCycles,      \* the processor: is it P6502CC?
  pc,               \* the processor: address of the instruction in progress, or the next one
  cycle,            \* the processor: cycles done of it (0: its opcode is about to be fetched)
  mOpcode,          \* P6502::mOpcode of the last instruction: "JSR" or "other"
  calls,            \* the processor: the return addresses on the stack
  executed,         \* history: instructions since the command began (up to MaxSteps + 1)
  hit,              \* history: the breakpoint was matched since the command began
  base,             \* history: calls when the skip command began (<<>> without one)
  from,             \* history: pc when the skip command began (0 without one)
  odd,              \* history: what else happened since the command began
  midway            \* history: has halt stopped the processor within an instruction?

debugVars  == <<mWaitingEnabled, mDebuggerWaiting, mQuit>>
breakVars  == <<mBreakPoint, mRecurring>>
cpuVars    == <<microCycles, pc, cycle, mOpcode, calls, midway>>
retVars    == <<mRetAdr, mCPURetAdr>>
histVars   == <<executed, hit, base, from, odd>>
engineLoc  == <<ePC, eLeft, eWrite, eExits>>
dbgLoc     == <<dPC, dArg, dTriggered>>
vars == <<mState, mSteps, retVars, mExecMutex, debugVars, breakVars, cpuVars, histVars,
          engineLoc, dbgLoc>>

\* _CPU_RUNNING: the run states with bit 0x800 set.
CPURunningUnlessStepping(s) == s \in {"RUN", "STEP_OVER", "WAIT_ON_RET", "BRK_WAIT"}
CPURunning(s) == s \in {"RUN", "STEP", "STEP_OVER", "WAIT_ON_RET", "BRK_WAIT"}

-----------------------------------------------------------------------------
(* The engine thread: Engine::run.                                         *)

\* Top of the period: mState is read without the mutex.
StartPeriod ==
  /\ ePC = "top"
  /\ IF CPURunning(mState) THEN ePC' = "inner" /\ eLeft' = PeriodSteps
                           ELSE ePC' = "events" /\ UNCHANGED eLeft
  /\ UNCHANGED <<mState, mSteps, retVars, mExecMutex, debugVars, breakVars, cpuVars,
                 histVars, eWrite, eExits, dbgLoc>>

LockForStep ==
  /\ ePC = "inner"
  /\ eLeft > 0
  /\ mExecMutex = "free"
  /\ mExecMutex' = "engine"
  /\ ePC' = "locked"
  /\ UNCHANGED <<mState, mSteps, retVars, debugVars, breakVars, cpuVars, histVars,
                 eLeft, eWrite, eExits, dbgLoc>>

\* A stopped processor neither runs nor lets time pass: the loop spins.
TestRunning ==
  /\ ePC = "locked"
  /\ IF CPURunning(mState) THEN ePC' = "exec" /\ UNCHANGED mExecMutex
                           ELSE ePC' = "inner" /\ mExecMutex' = "free"
  /\ UNCHANGED <<mState, mSteps, retVars, debugVars, breakVars, cpuVars, histVars,
                 eLeft, eWrite, eExits, dbgLoc>>

\* The commands that wait for the processor to stop.
Stepping  == dPC \in {"stepPoll", "stepEnd"}
Skipping  == dPC \in {"skipPoll", "skipEnd"}
Breaking  == dPC \in {"brkPoll", "brkEnd"}

\* P6502::getPC: P6502CC has counted the opcode's byte already, and all three bytes of a
\* JSR when its last cycle begins.
GetPC == IF ~microCycles THEN pc ELSE IF cycle = 0 THEN pc + 1 ELSE pc + 3

\* What an instruction at address p does, the calls being c: a JSR, a return (RTS or RTI),
\* or none of them; ...
Instructions(p, c) ==
  {[kind |-> "plain", pc |-> a, calls |-> c] : a \in Addresses}
  \cup (IF c # <<>> THEN {[kind |-> "return", pc |-> Head(c), calls |-> Tail(c)]} ELSE {})
  \cup (IF p + 3 \in Addresses /\ Len(c) < MaxDepth
        THEN {[kind |-> "jsr", pc |-> a, calls |-> <<p + 3>> \o c] : a \in Addresses} ELSE {})

\* ... and the entry of an interrupt handler before it.
Interrupts(p, c) ==
  IF "interrupt" \in Disturbances /\ Len(c) < MaxDepth
  THEN {[kind |-> "interrupt", pc |-> a, calls |-> <<p>> \o c] : a \in Addresses} ELSE {}

\* Ways to come to the address behind the instruction a command began with, other than
\* the return from the subroutine it calls.
Oddities(o) ==
  {s \in {"jump"} : o.kind # "return" /\ o.pc = from + 3}
  \cup {s \in {"recursion"} : o.kind = "jsr" /\ Head(o.calls) = from + 3 /\ Len(calls) > Len(base)}

\* The end of an instruction, or of an interrupt sequence of P6502CC, which counts as one.
Completed(o) ==
  /\ pc' = o.pc
  /\ calls' = o.calls
  /\ cycle' = 0
  /\ mOpcode' = IF o.kind = "jsr" THEN "JSR" ELSE "other"

\* P6502IC enters the handler and executes its first instruction in one step.
Instruction ==
  /\ microCycles => cycle > 0
  /\ \/ \E o \in Instructions(pc, calls) :
           Completed(o) /\ odd' = IF Skipping THEN odd \cup Oddities(o) ELSE odd
     \/ \E e \in Interrupts(pc, calls) :
           \/ microCycles /\ Completed(e) /\ odd' = odd
           \/ /\ ~microCycles
              /\ \E o \in Instructions(e.pc, e.calls) :
                   /\ Completed(o)
                   /\ odd' = IF Skipping
                             THEN odd \cup Oddities(o)
                                      \cup {s \in {"interrupt"} : mState = "STEP_OVER"}
                             ELSE odd
  /\ executed' = IF (Stepping \/ Skipping) /\ executed <= MaxSteps THEN executed + 1 ELSE executed
  /\ \E match \in BOOLEAN : /\ eWrite' = IF match THEN "match" ELSE "none"
                            /\ hit' = (hit \/ (match /\ Breaking))

\* A cycle of P6502CC that does not end the instruction.
MicroCycle ==
  /\ microCycles
  /\ cycle + 1 < MaxCycles
  /\ cycle' = cycle + 1
  /\ eWrite' = "none"
  /\ UNCHANGED <<pc, mOpcode, calls, executed, hit, odd>>

\* A step in which nothing is executed: RESET or RDY low, or (P6502CC) a stretched cycle.
\* P6502IC loads the reset vector in each.  What is found out about the last instruction is
\* found again.
IdleStep ==
  /\ "idle" \in Disturbances
  /\ IF microCycles THEN pc' = pc ELSE pc' \in Addresses
  /\ eWrite' \in {"none", "match"}
  /\ odd' = IF (Stepping \/ Skipping \/ Breaking) /\ cycle = 0 THEN odd \cup {"idle"} ELSE odd
  /\ UNCHANGED <<cycle, mOpcode, calls, executed, hit>>

\* Only P6502IC with RDY low does not let time pass.
TimePasses == eLeft' = eLeft - 1
TimeStands == eLeft' = eLeft

ExecuteWithoutTime ==
  /\ ePC = "exec"
  /\ Instruction \/ MicroCycle \/ IdleStep
  /\ TimeStands
  /\ mCPURetAdr' = GetPC + 3
  /\ midway' = (midway /\ cycle' # 0)
  /\ ePC' = "check"
  /\ UNCHANGED <<mState, mSteps, mRetAdr, mExecMutex, debugVars, breakVars, microCycles, base,
                 from, eExits, dbgLoc>>

\* One call of step(), and what Engine::run does around it.
Execute ==
  /\ ePC = "exec"
  /\ \/ (Instruction \/ MicroCycle \/ IdleStep) /\ TimePasses
     \/ ~microCycles /\ IdleStep /\ pc' = pc /\ TimeStands
  /\ mCPURetAdr' = GetPC + 3
  /\ midway' = (midway /\ cycle' # 0)
  /\ ePC' = "check"
  /\ UNCHANGED <<mState, mSteps, mRetAdr, mExecMutex, debugVars, breakVars, microCycles, base,
                 from, eExits, dbgLoc>>

\* checkForBreakPoint reads mState and decides what to write into it.
DecisionOnAnyStep ==
  CASE mState = "BRK_WAIT"                               -> "BRK_DET"
    [] mState = "STEP" /\ mSteps = 1                      -> "HALT"
    [] mState = "STEP_OVER"                              -> IF mOpcode = "JSR" THEN "WAIT_ON_RET" ELSE "HALT"
    [] mState = "WAIT_ON_RET" /\ GetPC = mRetAdr          -> "HALT"
    [] OTHER                                             -> "none"

Decision ==
  CASE mState = "BRK_WAIT" /\ eWrite = "match"           -> "BRK_DET"
    [] mState = "STEP" /\ mSteps = 1                      -> "HALT"
    [] mState = "STEP_OVER"                              -> IF mOpcode = "JSR" THEN "WAIT_ON_RET" ELSE "HALT"
    [] mState = "WAIT_ON_RET" /\ GetPC = mRetAdr          -> "HALT"
    [] OTHER                                             -> "none"

\* P6502::fetchingOpcode: always true of P6502IC, whose cycle is 0.
FetchingOpcode == cycle = 0

ReadForCheckEveryCycle ==
  /\ ePC = "check"
  /\ eWrite' = Decision
  /\ mSteps' = IF mState = "STEP" /\ eWrite' # "HALT" THEN mSteps - 1 ELSE mSteps
  /\ mRetAdr' = IF eWrite' = "WAIT_ON_RET" THEN mCPURetAdr ELSE mRetAdr
  /\ mCPURetAdr' = 0
  /\ ePC' = "write"
  /\ UNCHANGED <<mState, mExecMutex, debugVars, breakVars, cpuVars, histVars, eLeft, eExits,
                 dbgLoc>>

ReadForCheckLate ==
  /\ ePC = "check"
  /\ IF FetchingOpcode
     THEN /\ eWrite' = Decision
          /\ mSteps' = IF mState = "STEP" /\ eWrite' # "HALT" THEN mSteps - 1 ELSE mSteps
          /\ mRetAdr' = IF eWrite' = "WAIT_ON_RET" THEN GetPC + 3 ELSE mRetAdr
     ELSE eWrite' = "none" /\ UNCHANGED <<mSteps, mRetAdr>>
  /\ mCPURetAdr' = 0
  /\ ePC' = "write"
  /\ UNCHANGED <<mState, mExecMutex, debugVars, breakVars, cpuVars, histVars, eLeft, eExits,
                 dbgLoc>>

ReadForCheck ==
  /\ ePC = "check"
  /\ IF FetchingOpcode
     THEN /\ eWrite' = Decision
          /\ mSteps' = IF mState = "STEP" /\ eWrite' # "HALT" THEN mSteps - 1 ELSE mSteps
          /\ mRetAdr' = IF eWrite' = "WAIT_ON_RET" THEN mCPURetAdr ELSE mRetAdr
     ELSE eWrite' = "none" /\ UNCHANGED <<mSteps, mRetAdr>>
  /\ mCPURetAdr' = 0
  /\ ePC' = "write"
  /\ UNCHANGED <<mState, mExecMutex, debugVars, breakVars, cpuVars, histVars, eLeft, eExits,
                 dbgLoc>>

\* The write, in the meantime of which the debugger thread may have written, and
\* the release of the mutex.
WriteAndUnlock ==
  /\ ePC = "write"
  /\ mState' = IF eWrite = "none" THEN mState ELSE eWrite
  /\ eWrite' = "none"
  /\ mExecMutex' = "free"
  /\ ePC' = "inner"
  /\ UNCHANGED <<mSteps, retVars, debugVars, breakVars, cpuVars, histVars, eLeft, eExits, dbgLoc>>

EndPeriod ==
  /\ ePC = "inner"
  /\ eLeft = 0
  /\ ePC' = "events"
  /\ UNCHANGED <<mState, mSteps, retVars, mExecMutex, debugVars, breakVars, cpuVars,
                 histVars, eLeft, eWrite, eExits, dbgLoc>>

-----------------------------------------------------------------------------
(* The events served once per period.                                      *)

\* The timer event and menu items that do not concern the debugger.
NoEvent ==
  /\ ePC = "events"
  /\ ePC' = "top"
  /\ UNCHANGED <<mState, mSteps, retVars, mExecMutex, debugVars, breakVars, cpuVars,
                 histVars, eLeft, eWrite, eExits, dbgLoc>>

\* "Stop waiting", enabled in the menu while the debugger waits.
StopWaiting ==
  /\ ePC = "events"
  /\ mDebuggerWaiting
  /\ mWaitingEnabled' = FALSE
  /\ ePC' = "top"
  /\ UNCHANGED <<mState, mSteps, retVars, mExecMutex, mDebuggerWaiting, mQuit, breakVars,
                 cpuVars, histVars, eLeft, eWrite, eExits, dbgLoc>>

\* "Start" debugger, enabled when no debugger runs: the old thread is joined.
StartDebugger ==
  /\ ePC = "events"
  /\ dPC = "ended"
  /\ mWaitingEnabled' = FALSE
  /\ dPC' = "starting"
  /\ ePC' = "top"
  /\ UNCHANGED <<mState, mSteps, retVars, mExecMutex, mDebuggerWaiting, mQuit, breakVars,
                 cpuVars, histVars, eLeft, eWrite, eExits, dArg, dTriggered>>

\* The window is closed (Debugger::exit at once and again after the loop), or
\* the "Exit" menu item, after which GUI::running() ends the loop.
Quit ==
  /\ UserMayQuit
  /\ ePC = "events"
  /\ \/ eExits' = 2 /\ UNCHANGED mWaitingEnabled
     \/ eExits' = 1 /\ mWaitingEnabled' = FALSE
  /\ ePC' = "exit"
  /\ UNCHANGED <<mState, mSteps, retVars, mExecMutex, mDebuggerWaiting, mQuit, breakVars,
                 cpuVars, histVars, eLeft, eWrite, dbgLoc>>

\* Debugger::exit on the engine thread, statement by statement.
ExitMarks ==
  /\ ePC = "exit"
  /\ mQuit' = TRUE
  /\ mWaitingEnabled' = FALSE
  /\ ePC' = "exitClr"
  /\ UNCHANGED <<mState, mSteps, retVars, mExecMutex, mDebuggerWaiting, breakVars, cpuVars,
                 histVars, eLeft, eWrite, eExits, dbgLoc>>

ExitClears ==
  /\ ePC = "exitClr"
  /\ mBreakPoint' = FALSE
  /\ ePC' = "exitCont"
  /\ UNCHANGED <<mState, mSteps, retVars, mExecMutex, debugVars, mRecurring, cpuVars,
                 histVars, eLeft, eWrite, eExits, dbgLoc>>

AfterExit == IF eExits > 1 THEN "exit" ELSE "returned"

\* Engine::cont on the engine thread: a breakpoint set in the meantime makes
\* the engine thread itself wait for it.
ExitContinues ==
  /\ ePC = "exitCont"
  /\ \/ /\ ~mBreakPoint
        /\ mState' = "RUN"
        /\ ePC' = AfterExit
        /\ eExits' = eExits - 1
     \/ /\ mBreakPoint
        /\ mExecMutex = "free"
        /\ mState' = "BRK_WAIT"
        /\ ePC' = "exitPoll"
        /\ UNCHANGED eExits
  /\ UNCHANGED <<mSteps, retVars, mExecMutex, debugVars, breakVars, cpuVars,
                 histVars, eLeft, eWrite, dbgLoc>>

ExitPolls ==
  /\ ePC = "exitPoll"
  /\ mExecMutex = "free"
  /\ IF mState \in {"HALT", "BRK_DET"}
     THEN IF mRecurring
          THEN mState' = "BRK_WAIT" /\ UNCHANGED <<ePC, eExits, mBreakPoint>>
          ELSE /\ mState' = IF mWaitingEnabled THEN "HALT" ELSE "RUN"
               /\ mBreakPoint' = (mBreakPoint /\ mState # "BRK_DET")
               /\ ePC' = AfterExit
               /\ eExits' = eExits - 1
     ELSE /\ ~mWaitingEnabled
          /\ mState' = "RUN"
          /\ ePC' = AfterExit
          /\ eExits' = eExits - 1
          /\ UNCHANGED mBreakPoint
  /\ UNCHANGED <<mSteps, retVars, mExecMutex, debugVars, mRecurring, cpuVars,
                 histVars, eLeft, eWrite, dbgLoc>>

-----------------------------------------------------------------------------
(* The debugger thread: Debugger::run and the commands that use the engine.*)

EngineUntouched == UNCHANGED <<mSteps, retVars, mExecMutex, cpuVars, engineLoc>>

Starting ==
  /\ dPC = "starting"
  /\ mQuit' = FALSE
  /\ dPC' = "head"
  /\ EngineUntouched
  /\ UNCHANGED <<mState, mWaitingEnabled, mDebuggerWaiting, breakVars, histVars, dArg, dTriggered>>

LoopHead ==
  /\ dPC = "head"
  /\ dPC' = IF mQuit THEN "ended" ELSE "enable"
  /\ EngineUntouched
  /\ UNCHANGED <<mState, debugVars, breakVars, histVars, dArg, dTriggered>>

EnableWaiting ==
  /\ dPC = "enable"
  /\ mWaitingEnabled' = TRUE
  /\ dPC' = "prompt"
  /\ EngineUntouched
  /\ UNCHANGED <<mState, mDebuggerWaiting, mQuit, breakVars, histVars, dArg, dTriggered>>

Typed(cmd) == dPC = "prompt" /\ cmd \in Commands

BeginHistory == /\ executed' = 0 /\ hit' = FALSE /\ odd' = {}
                /\ IF dPC = "skipSet" THEN base' = calls /\ from' = pc ELSE UNCHANGED <<base, from>>
EndHistory   == executed' = 0 /\ hit' = FALSE /\ base' = <<>> /\ from' = 0 /\ odd' = {}

\* step n and skip, refused while the processor runs.
StepCmd(n) ==
  /\ Typed("step")
  /\ ~CPURunning(mState)
  /\ mDebuggerWaiting' = TRUE
  /\ dPC' = "stepSet"
  /\ dArg' = n
  /\ EngineUntouched
  /\ UNCHANGED <<mState, mWaitingEnabled, mQuit, breakVars, histVars, dTriggered>>

SkipCmd ==
  /\ Typed("skip")
  /\ ~CPURunning(mState)
  /\ mDebuggerWaiting' = TRUE
  /\ dPC' = "skipSet"
  /\ dArg' = 1
  /\ EngineUntouched
  /\ UNCHANGED <<mState, mWaitingEnabled, mQuit, breakVars, histVars, dTriggered>>

\* Engine::step: the run state is set under the mutex; step 0 only stores mSteps.
SetStep ==
  /\ mExecMutex = "free"
  /\ \/ dPC = "skipSet" /\ mState' = "STEP_OVER" /\ dPC' = "skipPoll"
     \/ dPC = "stepSet" /\ dArg > 0 /\ mState' = "STEP" /\ dPC' = "stepPoll"
  /\ mSteps' = dArg
  /\ BeginHistory
  /\ UNCHANGED <<retVars, mExecMutex, debugVars, breakVars, cpuVars, engineLoc,
                 dArg, dTriggered>>

RefuseStep ==
  /\ mExecMutex = "free"
  /\ dPC = "stepSet" /\ dArg = 0
  /\ mSteps' = dArg
  /\ mDebuggerWaiting' = FALSE
  /\ dPC' = "head"
  /\ UNCHANGED <<mState, retVars, mExecMutex, mWaitingEnabled, mQuit, breakVars, cpuVars,
                 histVars, engineLoc, dArg, dTriggered>>

\* One round of the polling loop that ends the wait (a round that does not is a
\* stuttering step).
PollStep ==
  /\ dPC \in {"stepPoll", "skipPoll"}
  /\ mExecMutex = "free"
  /\ mState = "HALT" \/ ~mWaitingEnabled
  /\ dPC' = IF dPC = "stepPoll" THEN "stepEnd" ELSE "skipEnd"
  /\ EngineUntouched
  /\ UNCHANGED <<mState, debugVars, breakVars, histVars, dArg, dTriggered>>

\* After the wait, without the mutex.
EndStep ==
  /\ dPC \in {"stepEnd", "skipEnd"}
  /\ mState' = IF mWaitingEnabled THEN mState ELSE "RUN"
  /\ mDebuggerWaiting' = FALSE
  /\ dPC' = "head"
  /\ dArg' = 0
  /\ EndHistory
  /\ EngineUntouched
  /\ UNCHANGED <<mWaitingEnabled, mQuit, breakVars, dTriggered>>

\* break and cbreak: the breakpoint is noted without the mutex.
BreakCmd(recurring) ==
  /\ Typed("break")
  /\ mDebuggerWaiting' = TRUE
  /\ mBreakPoint' = TRUE
  /\ mRecurring' = recurring
  /\ dPC' = "brkSet"
  /\ EngineUntouched
  /\ UNCHANGED <<mState, mWaitingEnabled, mQuit, histVars, dArg, dTriggered>>

SetBreak ==
  /\ dPC = "brkSet"
  /\ mExecMutex = "free"
  /\ mState' = "BRK_WAIT"
  /\ BeginHistory
  /\ dTriggered' = FALSE
  /\ dPC' = "brkPoll"
  /\ EngineUntouched
  /\ UNCHANGED <<debugVars, breakVars, dArg>>

\* Rounds of the polling loop of setBreakPointAndWait.  A recurring breakpoint
\* restores the waiting state, whatever mWaitingEnabled says; ...
PollRecurs ==
  /\ dPC = "brkPoll"
  /\ mExecMutex = "free"
  /\ mState \in {"HALT", "BRK_DET"} /\ mRecurring
  /\ mState' = "BRK_WAIT"
  /\ EngineUntouched
  /\ UNCHANGED <<debugVars, breakVars, histVars, dbgLoc>>

\* ... any other one leaves the processor halted; ...
PollDetects ==
  /\ dPC = "brkPoll"
  /\ mExecMutex = "free"
  /\ mState \in {"HALT", "BRK_DET"} /\ ~mRecurring
  /\ mState' = "HALT"
  /\ dTriggered' = (mState = "BRK_DET")
  /\ dPC' = "brkEnd"
  /\ EngineUntouched
  /\ UNCHANGED <<debugVars, breakVars, histVars, dArg>>

\* ... and "Stop waiting" ends the loop in a round that finds it running.
PollGivesUpWhenHalted ==
  /\ dPC = "brkPoll"
  /\ mExecMutex = "free"
  /\ mState = "HALT" /\ ~mWaitingEnabled
  /\ dPC' = "brkEnd"
  /\ EngineUntouched
  /\ UNCHANGED <<mState, debugVars, breakVars, histVars, dArg, dTriggered>>

PollGivesUp ==
  /\ dPC = "brkPoll"
  /\ mExecMutex = "free"
  /\ mState \notin {"HALT", "BRK_DET"} /\ ~mWaitingEnabled
  /\ dPC' = "brkEnd"
  /\ EngineUntouched
  /\ UNCHANGED <<mState, debugVars, breakVars, histVars, dArg, dTriggered>>

\* After the wait, without the mutex.
EndBreak ==
  /\ dPC = "brkEnd"
  /\ mBreakPoint' = (mBreakPoint /\ ~dTriggered)
  /\ mState' = IF mWaitingEnabled THEN mState ELSE "RUN"
  /\ mDebuggerWaiting' = FALSE
  /\ dPC' = "head"
  /\ dTriggered' = FALSE
  /\ EndHistory
  /\ EngineUntouched
  /\ UNCHANGED <<mWaitingEnabled, mQuit, mRecurring, dArg>>

ClearBreakCmd ==
  /\ Typed("clr")
  /\ mBreakPoint' = FALSE
  /\ dPC' = "head"
  /\ EngineUntouched
  /\ UNCHANGED <<mState, debugVars, mRecurring, histVars, dArg, dTriggered>>

ContCmd ==
  /\ Typed("cont")
  /\ mDebuggerWaiting' = TRUE
  /\ dPC' = "cont"
  /\ EngineUntouched
  /\ UNCHANGED <<mState, mWaitingEnabled, mQuit, breakVars, histVars, dArg, dTriggered>>

\* Engine::cont: without a breakpoint the state is written without the mutex.
Cont ==
  /\ dPC = "cont"
  /\ \/ mBreakPoint /\ dPC' = "brkSet" /\ UNCHANGED <<mState, mDebuggerWaiting>>
     \/ ~mBreakPoint /\ dPC' = "head" /\ mState' = "RUN" /\ mDebuggerWaiting' = FALSE
  /\ EngineUntouched
  /\ UNCHANGED <<mWaitingEnabled, mQuit, breakVars, histVars, dArg, dTriggered>>

HaltUnlocked ==
  /\ Typed("halt")
  /\ mState' = "HALT"
  /\ midway' = (cycle > 0)
  /\ dPC' = "head"
  /\ UNCHANGED <<mSteps, retVars, mExecMutex, microCycles, pc, cycle, mOpcode, calls, engineLoc,
                 debugVars, breakVars, histVars, dArg, dTriggered>>

\* halt: P6502CC may stop within an instruction.
HaltCmd ==
  /\ Typed("halt")
  /\ mExecMutex = "free"
  /\ mState' = "HALT"
  /\ midway' = (cycle > 0)
  /\ dPC' = "head"
  /\ UNCHANGED <<mSteps, retVars, mExecMutex, microCycles, pc, cycle, mOpcode, calls, engineLoc,
                 debugVars, breakVars, histVars, dArg, dTriggered>>

\* rset: the registers are changed without the mutex, if isRunning() says no.  Of them
\* only the program counter of P6502IC matters here.
SetRegCmd ==
  /\ Typed("rset")
  /\ ~CPURunning(mState)
  /\ dPC' = "rset"
  /\ EngineUntouched
  /\ UNCHANGED <<mState, debugVars, breakVars, histVars, dArg, dTriggered>>

EndSetReg ==
  /\ dPC = "rset"
  /\ dPC' = "head"
  /\ IF microCycles THEN pc' = pc ELSE pc' \in Addresses
  /\ UNCHANGED <<mSteps, retVars, mExecMutex, microCycles, cycle, mOpcode, calls, midway,
                 engineLoc>>
  /\ UNCHANGED <<mState, debugVars, breakVars, histVars, dArg, dTriggered>>

\* exit on the debugger thread; the breakpoint is cleared before cont.
ExitCmd ==
  /\ Typed("exit")
  /\ mQuit' = TRUE
  /\ mWaitingEnabled' = FALSE
  /\ mBreakPoint' = FALSE
  /\ dPC' = "cont"
  /\ EngineUntouched
  /\ UNCHANGED <<mState, mDebuggerWaiting, mRecurring, histVars, dArg, dTriggered>>

-----------------------------------------------------------------------------
Init ==
  /\ \/ mState = "RUN" /\ dPC = "ended"      \* no debugger has been started
     \/ mState = "HALT" /\ dPC = "starting"  \* headless, or -halt was given
  /\ mSteps = 0
  /\ mRetAdr = 0 /\ mCPURetAdr = 0
  /\ mBreakPoint = FALSE
  /\ mRecurring = FALSE
  /\ mExecMutex = "free"
  /\ mWaitingEnabled = TRUE
  /\ mDebuggerWaiting = FALSE
  /\ mQuit = FALSE
  /\ ePC = "top" /\ eLeft = 0 /\ eWrite = "none" /\ eExits = 0
  /\ dArg = 0 /\ dTriggered = FALSE
  /\ \E p \in Processors : microCycles = (p = "CC")
  /\ pc \in Addresses /\ cycle = 0 /\ mOpcode = "other" /\ calls = <<>>
  /\ executed = 0 /\ hit = FALSE /\ base = <<>> /\ from = 0 /\ odd = {} /\ midway = FALSE

\* Steps of the engine thread that need no mutex and no user.
EngineMoves == \/ StartPeriod \/ TestRunning \/ Execute \/ ReadForCheck \/ WriteAndUnlock
               \/ EndPeriod \/ ExitMarks \/ ExitClears

EngineLocks == LockForStep \/ ExitContinues \/ ExitPolls

UserEvents == StopWaiting \/ StartDebugger \/ Quit

DebuggerMoves == \/ Starting \/ LoopHead \/ EnableWaiting \/ EndStep \/ EndBreak
                 \/ Cont \/ EndSetReg

DebuggerLocks == \/ SetStep \/ RefuseStep \/ PollStep \/ SetBreak
                 \/ PollRecurs \/ PollDetects

UserCommands ==
  \/ \E n \in 0 .. MaxSteps : StepCmd(n)
  \/ SkipCmd \/ ContCmd \/ ClearBreakCmd \/ HaltCmd \/ SetRegCmd \/ ExitCmd
  \/ \E recurring \in BOOLEAN : BreakCmd(recurring)

Next == \/ EngineMoves \/ EngineLocks \/ NoEvent \/ UserEvents
        \/ DebuggerMoves \/ DebuggerLocks \/ PollGivesUp \/ UserCommands

\* Both threads are scheduled and the timer keeps ticking.  std::mutex promises no
\* order, but the engine thread releases it once per step and sleeps without
\* it once per period: a thread that tries again and again gets it some time (SF),
\* and not only at the moments a recurring breakpoint has just been matched (SF of
\* PollGivesUp on its own).  Nothing is assumed of the user.
Fairness == /\ WF_vars(EngineMoves) /\ SF_vars(EngineLocks) /\ WF_vars(NoEvent)
            /\ WF_vars(DebuggerMoves) /\ SF_vars(DebuggerLocks) /\ SF_vars(PollGivesUp)

Spec == Init /\ [][Next]_vars /\ Fairness

=============================================================================

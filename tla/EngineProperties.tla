-------------------------- MODULE EngineProperties --------------------------
(***************************************************************************)
(* What the run control of the debugger promises.                          *)
(***************************************************************************)
EXTENDS EngineControl

RunStates == {"HALT", "BRK_DET", "RUN", "STEP", "STEP_OVER", "WAIT_ON_RET", "BRK_WAIT"}
EnginePCs == {"top", "inner", "locked", "exec", "check", "write", "events", "exit", "exitClr",
              "exitCont", "exitPoll", "returned"}
DebuggerPCs == {"starting", "head", "enable", "prompt", "stepSet", "stepPoll", "stepEnd",
                "skipSet", "skipPoll", "skipEnd", "brkSet", "brkPoll", "brkEnd", "cont",
                "rset", "ended"}

TypeOK ==
  /\ mState \in RunStates
  /\ mSteps \in 0 .. MaxSteps
  /\ mRetAdr \in Nat /\ mCPURetAdr \in Nat
  /\ mBreakPoint \in BOOLEAN /\ mRecurring \in BOOLEAN
  /\ mExecMutex \in {"free", "engine"}
  /\ mWaitingEnabled \in BOOLEAN /\ mDebuggerWaiting \in BOOLEAN /\ mQuit \in BOOLEAN
  /\ ePC \in EnginePCs /\ eLeft \in 0 .. PeriodSteps /\ eExits \in 0 .. 2
  /\ eWrite \in {"none", "match", "HALT", "BRK_DET", "WAIT_ON_RET"}
  /\ dPC \in DebuggerPCs /\ dArg \in 0 .. MaxSteps /\ dTriggered \in BOOLEAN
  /\ microCycles \in BOOLEAN /\ pc \in Addresses
  /\ cycle \in 0 .. MaxCycles - 1 /\ (~microCycles => cycle = 0)
  /\ mOpcode \in {"JSR", "other"} /\ calls \in Seq(Addresses)
  /\ executed \in 0 .. MaxSteps + 1 /\ hit \in BOOLEAN /\ base \in Seq(Addresses)
  /\ from \in Addresses \cup {0} /\ midway \in BOOLEAN
  /\ odd \subseteq {"idle", "interrupt", "jump", "recursion"}

\* The debugger changes registers only while no step() of the processor is in progress,
\* although it tests isRunning() and writes without the mutex; and nothing but halt makes
\* it meet P6502CC within an instruction.
RegistersSafe == dPC = "rset" => ePC # "exec" /\ (cycle = 0 \/ midway)

\* A step command that ends with the processor halted has executed exactly the number of
\* instructions asked for (interrupt sequences of P6502CC are instructions, and so is the
\* rest of one within which halt had stopped it) and stands where an opcode is fetched.
\* A step() that executes nothing there is counted too: then there are fewer.
StepExact ==
  (dPC = "stepEnd" /\ mState = "HALT") =>
     /\ FetchingOpcode
     /\ executed <= dArg
     /\ "idle" \notin odd => executed = dArg

\* While a skip command waits for the return from a subroutine, it has not returned yet.
\* (Of P6502IC this is part of SkipReturns, of P6502CC it is false.)
StepsOver ==
  (dPC = "skipPoll" /\ mState = "WAIT_ON_RET" /\ ePC = "inner" /\ odd = {}) => calls # base

\* With P6502IC, a skip command that ends with the processor halted has executed one
\* instruction at most, or stands behind the one it began with; and unless it got there
\* by a jump or by the return from a recursive call, all calls made have returned.  It
\* does not miss that moment either.
SkipReturns ==
  ~microCycles =>
     /\ StepsOver
     /\ (dPC = "skipEnd" /\ mState = "HALT") =>
          \/ executed <= 1
          \/ pc = from + 3 /\ (odd = {} => calls = base)

\* A breakpoint is reported only if an instruction executed since the command was given
\* matched it (a step() that executes nothing finds the last match again).
BreakGenuine == (dPC = "brkEnd" /\ dTriggered) => hit \/ "idle" \in odd

\* A step command ends: no order of the polling loop, the engine's loop and "Stop
\* waiting" leaves the debugger waiting for a processor that waits for it.
StepEnds == dPC = "stepPoll" ~> dPC = "prompt" \/ dPC = "ended"

\* "Stop waiting" frees the debugger from any wait.
StopWaitingWorks ==
  (dPC \in {"stepPoll", "skipPoll", "brkPoll"} /\ ~mWaitingEnabled)
     ~> dPC \in {"prompt", "ended"}

\* As long as the processor runs, the menu is served again and again.
MenuServed == []<>(ePC \in {"events", "returned"} \/ ~CPURunning(mState))


=============================================================================

SPECIFICATION Spec
CONSTANTS
  PeriodSteps = 2
  MaxSteps = 2
  Processors <- BothProcessors
  MaxCycles = 2
  Addresses <- OneCall
  MaxDepth = 2
  Disturbances = {"idle", "interrupt"}
  UserMayQuit = TRUE
  Commands <- AllCommands
INVARIANTS
  
  StepExact
  SkipReturns
  BreakGenuine
CHECK_DEADLOCK FALSE

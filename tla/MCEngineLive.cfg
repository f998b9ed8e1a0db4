SPECIFICATION Spec
CONSTANTS
  PeriodSteps = 2
  MaxSteps = 1
  Processors <- BothProcessors
  MaxCycles = 2
  Addresses <- OneCall
  MaxDepth = 1
  Disturbances = {}
  UserMayQuit = FALSE
  Commands <- AllCommands
PROPERTIES
  StepEnds
  StopWaitingWorks
  MenuServed

SPECIFICATION Spec
CONSTANTS
  PeriodSteps = 2
  MaxSteps = 1
  Processors = {"CC"}
  MaxCycles = 2
  Addresses <- OneCall
  MaxDepth = 2
  Disturbances = {}
  UserMayQuit = FALSE
  Commands = {"skip", "halt"}
INVARIANT StepsOver
CHECK_DEADLOCK FALSE

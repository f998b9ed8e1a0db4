SPECIFICATION Spec
CONSTANTS
  LowPeriod = 9
  HighPeriod = 6
  Cycles = {1, 3}
  MaxReads = 1
  ViaCycle = 2
  Refreshes = {4, 9, 15}
  Modes <- FastAndSlow
  Fetches <- AllOrEverySecond
  LineChars = 4
  HSync = 3
  FieldLines = 2
  IntRange = 4096
  LongRange = 1000000
  SumsWiden = FALSE
  Horizon = 20
INVARIANTS
  LowRateInTime
  InstrInTime
  HighServed
CHECK_DEADLOCK FALSE

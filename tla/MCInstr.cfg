SPECIFICATION Spec
CONSTANTS
  Tests <- AllTests
  Follow <- Pairs
  Length = 2
INVARIANTS
  SameResult
  SameReads
  SameTime
  DecimalArithmetic
  Returns
CHECK_DEADLOCK FALSE

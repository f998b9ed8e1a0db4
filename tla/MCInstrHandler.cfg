SPECIFICATION Spec
CONSTANTS
  Tests <- HandlerTests
  Follow <- Pairs
  Length = 2
INVARIANTS
  HandlerReturns
CHECK_DEADLOCK FALSE

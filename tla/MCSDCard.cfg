SPECIFICATION Spec
CONSTANTS
  Base = 4
  Addresses <- TwoAddresses
  Blocks <- BlockPair
  OtherCommands <- SomeCommands
  None = None
  MaxPolls = 12
INVARIANTS
  Answered
PROPERTIES
  IsBlockStore
  RequestsEnd
CHECK_DEADLOCK FALSE

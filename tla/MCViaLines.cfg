SPECIFICATION Spec
CONSTANTS
  Base = 1
  Width = 2
  Setups <- LineSetups
INVARIANTS
  IrqFollowsFlags
  LatchedAtEdge
PROPERTIES
  FlagNeedsEdge
  TransitionsDetected
  ShiftAnswered
  ShiftOnTime

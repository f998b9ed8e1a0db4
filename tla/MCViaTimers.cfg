SPECIFICATION Spec
CONSTANTS
  Base = 2
  Width = 1
  Setups <- TimerSetups
INVARIANTS
  IInv
  PB7Pulse
PROPERTIES
  T1OnTime

SPECIFICATION Spec
CONSTANTS
  AccessRatio = 2
PROPERTIES
  NmiBeforeInstruction
  IrqBeforeInstruction
  SavesReturnAddress
  CyclesCharged
  WritesExact
  NeverStuck

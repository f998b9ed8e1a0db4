SPECIFICATION Spec
CONSTANTS
  TickRate = 200000
  TapeTickRate = 200000
  SampleRate = 44100
  MinCarrier = 40
  Data = {82, 255}
  Messages = 2
  Batches = {2, 3}
  Plans <- AllPlans
  Formats = {5, 6}
  Gaps = {0, 1300}
  Latency = 300
  Leader = 2200
  Trail = 800
  Pause = 120
INVARIANTS
  Delivered
  NoLostInterrupt
PROPERTIES
  IsChannel
CHECK_DEADLOCK FALSE

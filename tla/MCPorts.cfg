SPECIFICATION Spec
CONSTANTS
  PortWidth = 2
  Ports <- MCPorts
  Dir <- MCDir
  Mask <- MCMask
  Routes <- MCRoutes
  Reacts <- MCReacts
  Rank <- MCRank
  Line = "CPU:IRQ"
INVARIANTS
  ArbitratedIsAnd
  LinesSettled
PROPERTIES
  LineIsWiredAnd

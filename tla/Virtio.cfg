SPECIFICATION MCSpec
CONSTANTS
  Topology <- MCTopology
  MaxBus = 5
  MaxDevice = 8
  Harts = {h1, h2}
  Boot = h1
  QSize = 4
  SectorSize = 2
  NumSectors = 2
  Ranges <- MCRanges
  RingBytes = 4
  EventBytes = 2
  MaxCalls = 3
  MaxEvents = 5
CHECK_DEADLOCK FALSE
INVARIANTS BarsReachable  EventsOnceInOrder
  

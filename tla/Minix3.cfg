SPECIFICATION Spec
CONSTANTS
  BlockSize = 4
  ZONE_INDIR = 2
  FirstData = 2
  NumZones = 36
  NumInodes = 6
  MAX_FD_ENTRIES = 2
  Paths <- PathsUsed
  Counts = {4, 22, 70}
  Holes = FALSE
  MaxCalls = 5
  MaxSize = 96
INVARIANTS
  ZonesExclusive
  MountFindsTheCache
  ReadReturnsTheLog
CHECK_DEADLOCK FALSE

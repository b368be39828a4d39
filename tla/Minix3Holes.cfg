\* An image with a file whose zone follows a free one.
SPECIFICATION Spec
CONSTANTS
  BlockSize = 4
  ZONE_INDIR = 2
  FirstData = 2
  NumZones = 36
  NumInodes = 6
  MAX_FD_ENTRIES = 2
  Paths <- PathsUsed
  Counts = {4}
  Holes = TRUE
  MaxCalls = 2
  MaxSize = 96
INVARIANT
  NoZoneShared
CHECK_DEADLOCK FALSE

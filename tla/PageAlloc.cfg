\* Two harts; 6 pages of which 1 holds bookkeeping; requests of 1 to 3 pages:
\* enough for fragmentation, exhaustion and interior frees.
SPECIFICATION FairSpec
CONSTANTS
  Harts = {h1, h2}
  NumPages = 6
  PageSize = 2
  MaxRequest = 3
INVARIANTS
  TypeOK
  ChunksDisjoint
  BitsDescribeChunks
  FreeIsExact
  
  CountIsExact
PROPERTIES
  RefinesRunAllocator
  LockReleased

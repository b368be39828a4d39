\* Twelve bytes in blocks of two or four, four descriptors: splitting, growing
\* and shrinking at the top, merging, and running out of either.
SPECIFICATION Spec
CONSTANTS
  HeapLimit = 12
  MaxBlocks = 4
  SplitThresh = 4
  Alignment = 2
  Requests = {1, 3, 4, 6}
INVARIANTS
  BlocksTile
  FreeListCompact
  BlockHoldsRequest
  NullMeansFull
PROPERTIES
  RefinesRunAllocator

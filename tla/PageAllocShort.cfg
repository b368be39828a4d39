\* A caller that asks for two pages when only separated single pages are free.
SPECIFICATION Spec
CONSTANTS
  Harts = {h1}
  NumPages = 6
  PageSize = 2
  MaxRequest = 2
INVARIANTS
  ChunkHoldsRequest

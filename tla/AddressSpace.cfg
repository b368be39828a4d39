SPECIFICATION Spec
CONSTANTS
  Radix = 8
  NumPages = 60
  Users = {u1, u2}
  Segments <- MCSegments
  Requests = {1, 3}
  Buffers <- MCBuffers
  Sizes = {9}
  MaxCalls = 4
CHECK_DEADLOCK FALSE
SYMMETRY UserSymmetry
INVARIANTS
  TableIsTheMap
  EveryPageHasOneHolder
  CopyIsUserAccess

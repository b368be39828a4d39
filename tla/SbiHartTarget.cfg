\* One hart starts another that has only just published that it is stopped.
SPECIFICATION Spec
CONSTANTS
  Harts = {h0, h1}
  Boot = h0
  Requests = {r1}
  Zero = Zero
  MaxCalls = 1
INVARIANTS
  StartsWhereAsked
CHECK_DEADLOCK FALSE

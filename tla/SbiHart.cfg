\* Three harts, two different requests, three calls: enough for two harts to
\* race for the third, for a stop racing a start and for a restart.
SPECIFICATION FairSpec
CONSTANTS
  Harts = {h0, h1, h2}
  Boot = h0
  Requests = {r1, r2}
  Zero = Zero
  MaxCalls = 3
INVARIANTS
  StatusIsTrue
  NoLostStart
  StartsWithItsFrame
PROPERTIES
  StartTakesEffect
CHECK_DEADLOCK FALSE

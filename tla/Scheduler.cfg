\* The console and the idle process; sleeps up to and beyond one quantum.
SPECIFICATION FairSpec
CONSTANTS
  console = console
  Procs <- MCProcs
  Idle = Idle
  ListHead = ListHead
  Null = Null
  Quantum = 3
  MaxSleep = 5
INVARIANTS
  HartIsTrue
  ResumesItself
  NeverLost
  TimerArmed
PROPERTIES
  SleeperWakes

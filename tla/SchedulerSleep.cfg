\* The console goes to sleep and nothing else can run.
SPECIFICATION Spec
CONSTANTS
  console = console
  Procs <- MCProcs
  Idle = Idle
  ListHead = ListHead
  Null = Null
  Quantum = 2
  MaxSleep = 3
INVARIANTS
  SleepersDoNotRun

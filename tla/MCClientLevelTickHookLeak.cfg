SPECIFICATION Spec
CONSTANTS
  t1 = t1
  t2 = t2
  Threads <- MCThreads
  CounterMod = 4
  MaxFaults = 2
  MaxForeign = 0
  MaxInstalls = 1
INVARIANT
  UnloadLeavesNoTrampoline
CHECK_DEADLOCK FALSE

SPECIFICATION FairSpec
CONSTANTS
  t1 = t1
  t2 = t2
  Threads <- MCThreads
  CounterMod = 8
  MaxEntries = 3
  MaxInstalls = 2
  MaxUninstalls = 2
INVARIANTS
  HooksAccounted
  CountersTrackCallbacks
  UnloadLeavesOnlyForgotten
PROPERTIES
  UninstallReturns
\* unload() ends the life of the module.
CHECK_DEADLOCK FALSE

SPECIFICATION FairSpec
CONSTANTS
  t1 = t1
  t2 = t2
  Threads <- MCThreads
  CounterMod = 4
  MaxFaults = 3
  MaxForeign = 1
  MaxInstalls = 2
INVARIANTS
  TypeOK
  TrampolineAccounted
  ExclusiveSlotWrite
  CounterTracksCallbacks
  RestAccounted
PROPERTIES
  UninstallReturns
\* unload() ends the life of the module.
CHECK_DEADLOCK FALSE

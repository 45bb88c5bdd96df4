SPECIFICATION Spec
CONSTANTS
  overworld = overworld
  nether = nether
  Levels <- MCLevels
  NoLevel = NoLevel
  InitialHeight = 10000000
  Gravity <- MCGravity
  FixedStep = 50
  SleepSpeed = 500000
  RestitutionNumerator = 35
  RestitutionDenominator = 100
  TestCycleTicks = 200
  MaxEvents = 420
  MaxNullEvents = 1
  MaxGenerations = 2
  MaxStarts = 2
INVARIANTS
  TypeOK
  SleepsAndWakes
  SnapshotMatchesBody
  WorldsAccounted
  EveryCycleSettles
PROPERTIES
  PairsJoin
\* The bounds end the run.
CHECK_DEADLOCK FALSE

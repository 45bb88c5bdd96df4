\* Base mass is 14: LiftPerEngine lets one more hull block be too heavy.
CONSTANTS
  p1 = p1
  None = None
  Players <- MCPlayers
  Cells <- MCCells
  InitialBlocks <- MCInitialBlocks
  MaximumBlockCount = 4
  MaximumSpan = 3
  LiftPerEngine = 15
  PreviewUpdates = 1
  MaxTaps = 5
  MaxEdits = 1
  EditKinds <- MCEditKinds
  MaxJoins = 1
SPECIFICATION Spec
INVARIANTS FlightIsConfirmed EachTapCountsOnce
PROPERTIES SessionsEnd
CHECK_DEADLOCK FALSE

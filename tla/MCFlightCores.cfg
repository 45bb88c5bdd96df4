CONSTANTS
  None = None
  Cells <- MCCells
  MaximumBlockCount = 3
  MaximumSpan = 2
  Masses <- MCMasses
  Engines = {0, 1}
  FlightStates <- MCFlightStates
  Controls <- MCControls
  Speeds <- MCSpeeds
  Deltas <- MCDeltas
  handoffMillis = 200
  MaxUpdates = 4
  Worlds <- MCWorlds
  Starts <- MCStarts
SPECIFICATION CoresSpec
INVARIANTS FliesOnlyWithLift FlightIsBounded TakeoverIsSmooth CorrectsWhateverTheHistory SearchesAgree
PROPERTIES HandoffAdvances
CHECK_DEADLOCK FALSE

SPECIFICATION FairSpec
CONSTANTS
  renderThread = renderThread
  position = position
  worldGeneration = worldGeneration
  Readers <- MCReaders
  Fields <- MCFields
  MaxAttempts = 4
  LoadsOrdered = TRUE
  MaxPublications = 4
  MaxRestarts = 1
INVARIANTS
  TypeOK
  NoTornSnapshot
PROPERTIES
  ReadReturns
  RegisterSpec
\* The game may stop ticking.
CHECK_DEADLOCK FALSE

SPECIFICATION Spec
CONSTANTS
  renderThread = renderThread
  position = position
  worldGeneration = worldGeneration
  Readers <- MCReaders
  Fields <- MCFields
  MaxAttempts = 4
  LoadsOrdered = FALSE
  MaxPublications = 4
  MaxRestarts = 1
INVARIANTS
  NoTornSnapshot
\* The game may stop ticking.
CHECK_DEADLOCK FALSE

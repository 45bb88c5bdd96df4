\* The claim that the sequence is odd exactly during a publication.
CONSTANTS
  CounterMod = 4
  MaxBeats = 1
  MaxCalls = 3
SPECIFICATION Spec
INVARIANT SequenceParity
CHECK_DEADLOCK FALSE

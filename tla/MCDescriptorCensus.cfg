SPECIFICATION Spec
CONSTANTS
  t1 = t1
  t2 = t2
  d1 = d1
  d2 = d2
  Threads <- MCThreads
  Descriptors <- MCDescriptors
  Capacity = 2
  MaxNesting = 2
  MaxCalls = 4
SYMMETRY MCSymmetry
INVARIANTS
  OneWriterPerSlot
  CountsAddUp
\* The bound on calls ends the run.
CHECK_DEADLOCK FALSE

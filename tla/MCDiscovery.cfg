CONSTANTS
  t1 = t1
  t2 = t2
  i1 = i1
  i2 = i2
  Kinds <- MCKinds
  Threads <- MCThreads
  Instances <- MCInstances
  Stability = 3
  MaxStall = 1
  Delay = 1
  Timeout = 2
  Attempts = 2
  Slices = 1
  CounterMod = 8
  MaxTime <- MCMaxTime
  MaxCalls = 3
  MaxSamples = 1
  MaxFaults = 2
  MaxForeign = 1
  Regions <- MCRegions
  Memories <- MCMemories
  Target = 72
  ImmediateBits = 4
  SmallScalars = 16
  MaxRecorded = 2
  MaxCandidates = 2
  MaxWalk = 2
  Window = 2
  Radius = 1
  Stride = 16
SPECIFICATION DiscoverySpec
SYMMETRY MCSymmetry
INVARIANTS ScanIsFaithful StopIsPrompt ProbeCallsAddUp ProbeIsAccounted
PROPERTIES PatchIsJustified
CHECK_DEADLOCK FALSE

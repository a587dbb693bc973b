SPECIFICATION FairSpec
CONSTANTS
  Coverages <- TwoCoverages
  Outcomes <- PassOrFail
  HeapNames <- ZeroedHeap
  Patient = FALSE
  MaxCases = 2
  MaxQueue = 3
  MaxStarts = 3
  MaxFaults = 0
  MaxResets = 0
INVARIANTS
  IdleMeansNoTests
  AnalysedIsQueued
  QuietIsClean
PROPERTY
  RunningEnds

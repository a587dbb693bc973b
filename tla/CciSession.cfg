SPECIFICATION FairSpec
CONSTANTS
  Coverages <- OneCoverage
  Outcomes <- PassOrFail
  HeapNames <- ZeroedHeap
  Patient = TRUE
  MaxCases = 1
  MaxQueue = 2
  MaxStarts = 3
  MaxFaults = 0
  MaxResets = 0
PROPERTY
  ImplementsSession

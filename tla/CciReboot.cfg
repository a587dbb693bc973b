SPECIFICATION FairSpec
CONSTANTS
  Coverages <- OneCoverage
  Outcomes <- EveryOutcome
  HeapNames <- UsedHeap
  Patient = FALSE
  MaxCases = 2
  MaxQueue = 3
  MaxStarts = 2
  MaxFaults = 1
  MaxResets = 1
INVARIANT
  PausedIsSaved
PROPERTY
  CrashHasCause
CHECK_DEADLOCK FALSE

SPECIFICATION Spec
CONSTANTS
  N = 3
  Kinds <- PlainKinds
  Forks <- ForkOrNot
  Time = 2
  Width = 4
  MaxFrames = 1
  MaxFaults = 0
INVARIANTS
  DoneMeansExecuted
  DoneMeansFinished
  SearchReturns

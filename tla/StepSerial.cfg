SPECIFICATION FairSpec
CONSTANTS
  N = 3
  Kinds <- PlainKinds
  Forks <- NoFork
  Time = 2
  Width = 4
  MaxFrames = 1
  MaxFaults = 0
INVARIANTS
  ExecutedAtMostOnce
PROPERTIES
  ImplementsSerialTest
  Ends

SPECIFICATION FairSpec
CONSTANTS
  N = 2
  Kinds <- PlainKinds
  Forks <- NoFork
  Time = 2
  Width = 4
  MaxFrames = 1
  MaxFaults = 0
PROPERTY
  TriggerExecutes

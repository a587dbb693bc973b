SPECIFICATION Spec
CONSTANTS
  N = 3
  Kinds <- StoppableKinds
  Forks <- NoFork
  Time = 2
  Width = 4
  MaxFrames = 0
  MaxFaults = 1
INVARIANTS
  StopStops
  FailHasCause

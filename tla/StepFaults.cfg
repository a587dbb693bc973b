SPECIFICATION Spec
CONSTANTS
  N = 2
  Kinds <- StepClasses
  Forks <- ForkOrNot
  Time = 2
  Width = 4
  MaxFrames = 1
  MaxFaults = 1
INVARIANTS
  SerialExclusive
  NoDanglingSubscription

SPECIFICATION Spec
CONSTANTS
  N = 2
  Plans <- TestCases
  Time = 2
  NDevs = 1
  NClients = 4
  MaxCases = 3
  MaxEvents = 2
  MaxFaults = 1
  Faults = {"http", "execute", "thread"}
  DeviceKeeps = FALSE
  Patient = {"tick", "case"}
INVARIANTS
  ResultsAreOwn
  OnlyThisCase
  DocumentsArrive
  AgentsAreKnown
PROPERTIES
  DeletesOnlyEnded
  FinishedIsDelivered
  Ends

SPECIFICATION Spec
CONSTANTS
  Plans <- MCPlans
  Faults = {"config", "file", "step", "pause"}
  MaxRequests = 2
  MaxFaults = 2
  MaxBoots = 4
INVARIANTS
  AcceptedIsRunnable
  InputIsOwn
  OnlyLogsRunAgain
  CompleteMeansExecuted
  LogsAreResumed
  RestartIsHarmless
PROPERTY Ends

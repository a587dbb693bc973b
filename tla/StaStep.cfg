SPECIFICATION Spec
CONSTANTS
  N = 2
  Configs <- StaConfigs
  NDevices = 3
  Base = 2
  MaxCases = 2
  MaxFrames = 2
  MaxFaults = 1
INVARIANTS
  StationsOnBusyDevices
  RemovalIsOwn
  EndedIsDisconnected
  NothingLeaked
PROPERTY
  Ends

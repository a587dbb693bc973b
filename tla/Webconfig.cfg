SPECIFICATION Spec
CONSTANTS
  ElementLists <- MCElements
  Events <- MCEvents
  Faults = {"open", "register", "subscribe", "get", "init", "store", "decode",
            "file", "send", "reject", "write"}
  MaxFaults = 1
  Plans <- MCPlans
  OwnChanges = {"mesh", "wifi_config", "dml"}
  Start <- MCStart
  Time = 2
  MaxCases = 2
  MaxChanges = 2
INVARIANTS
  Served
  CacheIsCurrent
  StationConfig
  AclOwned

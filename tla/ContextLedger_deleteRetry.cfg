CONSTANTS
  Proc = {p1}
  NoProc = NoProc
  Request <- RetryRequests
  Key = {"k1", "k2", "k3", "k4", "k5", "k6"}
  EntityType <- Types
  EntityId <- Ids
  EventName = {"none", "n1"}
  NoName = "none"
  RunType = "run"
  MaxMinted = 3
  Mortal = {p1}
  Faults = {}
SPECIFICATION Spec
PROPERTY DeleteRetriesReplay
CHECK_DEADLOCK FALSE

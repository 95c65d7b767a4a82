CONSTANTS
  Proc = {p1, p2}
  NoProc = NoProc
  Request <- AuthorityRequests
  Key = {"k1", "k2", "k3", "k4", "k5", "k6"}
  EntityType <- Types
  EntityId <- Ids
  EventName = {"none", "n1"}
  NoName = "none"
  RunType = "run"
  MaxMinted = 3
  Mortal = {}
  Faults = {"bodySync", "commitSync", "marker"}
SPECIFICATION Spec
INVARIANT Authority
PROPERTY ImplementsAbstract
CHECK_DEADLOCK FALSE

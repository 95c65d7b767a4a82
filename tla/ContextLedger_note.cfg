CONSTANTS
  Proc = {p1, p2}
  NoProc = NoProc
  Request <- NoteRequests
  Key = {"k1", "k2", "k3", "k4", "k5", "k6"}
  EntityType <- Types
  EntityId <- Ids
  EventName = {"none", "n1"}
  NoName = "none"
  RunType = "run"
  MaxMinted = 4
  Mortal = {p1, p2}
  Faults = {"body", "commit"}
SPECIFICATION Spec
INVARIANT TypeOK Lineage BodiesKept
PROPERTY ErasureIsComplete ChangeRetriesReplay

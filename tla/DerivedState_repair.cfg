CONSTANTS
  p1 = p1
  p2 = p2
  Nobody = Nobody
  Actors = {p1, p2}
  Entities = {1}
  Expiring = {}
  Ops <- RepairOps
  Faults = {"death", "busy", "write", "receipt"}
  MaxFaults = 1
  MaxLog = 2
  Orphans = TRUE
SPECIFICATION FairSpec
PROPERTY DeletedTextGoes

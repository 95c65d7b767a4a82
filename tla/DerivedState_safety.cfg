CONSTANTS
  p1 = p1
  p2 = p2
  Nobody = Nobody
  Actors = {p1, p2}
  Entities = {1}
  Expiring = {1}
  Ops <- WriteOps
  Faults = {"death", "busy", "write", "receipt", "sqlite"}
  MaxFaults = 1
  MaxLog = 2
  Orphans = FALSE
SPECIFICATION Spec
SYMMETRY Symmetry
INVARIANT ClearedStaysClear ViewsAreCurrent

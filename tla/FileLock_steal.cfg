CONSTANTS
  p1 = p1
  p2 = p2
  Proc = {p1, p2, p3}
  Ino = {i1, i2, i3}
  NoIno = NoIno
  MaxAttempts <- OneEach
  Mortal = {p1}
  SlowOwners = FALSE
  Faults = {}
SPECIFICATION Spec
PROPERTY RecoverySparesLiveOwners
CHECK_DEADLOCK FALSE

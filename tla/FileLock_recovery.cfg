CONSTANTS
  p1 = p1
  p2 = p2
  Proc = {p1, p2}
  Ino = {i1, i2}
  NoIno = NoIno
  MaxAttempts <- OneThenThree
  Mortal = {p1}
  SlowOwners = FALSE
  Faults <- SomeFail
SPECIFICATION FairSpec
INVARIANT TypeOK MutualExclusion
PROPERTY ImplementsMutex AbandonedLockIsRecovered
CHECK_DEADLOCK FALSE

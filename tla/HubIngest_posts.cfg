CONSTANTS
  Call <- Calls
  ConnOf <- Conns
  KeyOf <- Keys
  BodyOf <- Bodies
  EventId <- Uuid
  Id <- Uuids
  Malformed = {"b5"}
  Worker = {w1, w2}
  NoPost = NoPost
  Window = 1
  Crowd <- Crowds
  MaxNow <- Clocks
  Tries <- Posts
  MaxTries = 3
  MaxFaults = 1
SPECIFICATION FairSpec
INVARIANT AnswersAreTrue
PROPERTY ImplementsEventStore NonceWindow EnvelopesGetIn
CHECK_DEADLOCK FALSE

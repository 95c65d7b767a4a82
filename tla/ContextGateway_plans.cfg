CONSTANTS
  p = p
  q = q
  owner = owner
  system = system
  writer = writer
  reader = reader
  NoRole = NoRole
  Agents = {p, q}
  Owner = owner
  System = system
  Runs = {11, 12, 13}
  Entities = {1, 2, 3, 4, 5, 6}
  Roles = {writer, reader}
  RolesOf <- MCRolesOf
  Plans <- MCPlans
  MinBatch = 2
  MaxBatch = 4
  MaxTtl = 2
  MaxSkew = 1
  RawLimit <- MCRawLimit
  FewestItems = 2
  MostItems = 3
  TokensPerItem = 1
  CharsPerToken = 2
SPECIFICATION Spec
INVARIANT RolesHold PacksAreSound CompletionIsOnce ChangesComplete
CHECK_DEADLOCK FALSE

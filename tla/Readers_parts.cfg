CONSTANTS
  Absent = Nil
  Nil = Nil
  Torn = Torn
  r1 = r1
  r2 = r2
  Texts = {"a", "b"}
  Paths = {"article.md", "post.md"}
  FirstTexts <- PieceTexts
  RunnerKeyOf <- RunnerKeys
  AppKeyOf <- AppKeys
  Manifests <- PieceManifests
  Words = {"x", "y"}
  Slots = 3
  MaxEdits = 2
  MaxRenders = 1
  MaxMarks = 2
  MaxPages = 3
  Agent = {"a1", "a2"}
  Input <- ShelfInputs
  ItemId = {"x", "y"}
  Origin = Nil
  MaxRecords = 3
  MaxDeaths = 1
  Processes = {r1, r2}
  MaxRuns = 3
  MaxThreads = 2
  MaxTurns = 2
  MaxEnds = 1
  Feeds = {"x", "history"}
  Rows <- FeedRows
  ReceiptIds = {1, 2}
  CueIds = {1}
  TTL <- Day
  CueTTL = 1
  Tolerance = 1
  MaxClock = 2
  MaxSaves = 2
  MaxSpoils = 1
  Run = {r1, r2}
  Item = {"f1"}
  Source = {"s1"}
  Kind = {"feedback.recorded", "action.proposed", "run.completed", "unknown"}
  Times = {0, 1}
  MaxSent = 3
  MaxRead = 3
  Visitors = {"v", "w"}
  IpOf <- OneAddress
  Typed <- TypedWords
  MaxAttempts = 1
  Window = 1
  MaxRequests = 2
  MaxNow = 3
  MaxLeaves = 1
  Procs = {"p", "q", "r"}
  OwnerOf <- Owners
  MaxCrashes = 3
  MaxSealed = 2
  MaxLosses = 1
SPECIFICATION SetSpec
INVARIANT OnlySignedWords ReadersAgree SavedInOrder CuesStandOnReceipts ArrivalOrderIsIrrelevant
INVARIANT ListKeepsItsWord OneKey
PROPERTY PagesKept RevisionsNeverRegress
SYMMETRY Symmetry
CHECK_DEADLOCK FALSE

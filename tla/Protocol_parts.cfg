CONSTANTS
  Absent = Absent
  Owner <- Tony
  Copies = {1, 2}
  Intents <- LedgerIntents
  MaxEvents = 4
  MaxBuilt = 5
  MaxRestores = 1
  Requests <- AllRequests
  MaxHeld = 4
  PageSize = 2
  MaxExports = 1
  Posts <- AllPosts
  Me <- Ours
  MaxPosts = 4
  MaxSlips = 1
  Proposer = "agent"
  Asked <- Revised
  Answers <- Answered
  Reports <- Reported
  MaxNow = 3
  MaxReceipts = 3
SPECIFICATION SetSpec
INVARIANT OwnersWordBehindIt OnlyOwnHistoriesReplay ExportsHold
INVARIANT ReplaysAgree ProofsStand
PROPERTY ExportsContinue
CHECK_DEADLOCK FALSE

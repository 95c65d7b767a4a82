CONSTANTS
  Nil = Nil
  Torn = Torn
  u1 = u1
  u2 = u2
  Urls = {u1, u2}
  Unknown = "unknown"
  Slugs = {1}
  Outputs <- DaysOutputs
  FirstSources <- DaysSources
  FirstCaptures <- DaysCaptures
  Commands <- DaysCommands
  MinSources = 2
  Ceiling = 1
  MaxCalls = 4
  MaxRecords = 3
  MaxEdits = 1
  MaxDeaths = 1
SPECIFICATION FairSpec
INVARIANT NothingWithoutTheGates
PROPERTY HumanWordsSurvive AppIsNeverStuck
CHECK_DEADLOCK FALSE

CONSTANTS
  NJobs = 2
  NFiles = 1
  Answers = {"append", "update"}
  Retries = 1
  Kills = TRUE
  MaxDepth = 3
SPECIFICATION FairSpec
INVARIANTS Consistent
PROPERTIES CallsAnsweredOnce JobsEnd

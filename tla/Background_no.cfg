CONSTANTS
  NJobs = 2
  NFiles = 1
  Answers = {"yes", "no"}
  Retries = 1
  Kills = FALSE
  MaxDepth = 3
SPECIFICATION Spec
INVARIANTS NoSkips

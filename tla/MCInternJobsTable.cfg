CONSTANTS
  c1 = c1
  Callers = {c1}
  Isolations = {"thread", "process"}
  MaxActive = 1
  MaxRetained = 1
  MaxJobs = 2
  NoJob = NoJob
SPECIFICATION FairSpec
INVARIANTS CountersAreTrue
PROPERTIES AnswerIsStable JobsEnd
CHECK_DEADLOCK FALSE

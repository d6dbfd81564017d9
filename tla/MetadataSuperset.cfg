SPECIFICATION Spec
CONSTANTS
  Scenario <- OneRefresh
  t1 = t1  t2 = t2
  Token = {t1, t2}
  w1 = w1
  Worker = {w1}
  NoJob = NoJob
  Slice = 1
  MaxJobs = 2
  Attempts = 2
  MaxStalls = 1
INVARIANT SourceOfTruth
CHECK_DEADLOCK FALSE

SPECIFICATION FairSpec
CONSTANTS
  j1 = j1  j2 = j2  j3 = j3
  w1 = w1  w2 = w2
  Jobs = {j1}
  Workers = {w1}
  max_workers = 4
  Calls <- OneCall
  MaxId = 2
  NoJob = NoJob
PROPERTY UnPausedJobsRun
CHECK_DEADLOCK FALSE

SPECIFICATION QSpec
CONSTANTS
  Jobs = {j1, j2}
  Workers = {w1}
  max_workers = 5
  Calls = {}
  MaxId = 2
  NoJob = NoJob
  m_jobsAtOnce = 1
  m_priority = 1
  m_lifo = FALSE
PROPERTY NotPerformedAfterCancelJobs
CHECK_DEADLOCK FALSE

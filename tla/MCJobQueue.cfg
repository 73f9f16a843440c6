SPECIFICATION QSpec
CONSTANTS
  Jobs = {j1, j2, j3, j4}
  Workers = {w1, w2}
  max_workers = 5
  Calls = {}
  MaxId = 4
  NoJob = NoJob
  m_jobsAtOnce = 2
  m_priority = 0
  m_lifo = FALSE
SYMMETRY MCSymmetry
INVARIANTS QTypeOK AtOnce SlotsComeBack NoIdleSlot
PROPERTY CancelJobsClears
CHECK_DEADLOCK FALSE

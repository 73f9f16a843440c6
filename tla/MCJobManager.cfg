SPECIFICATION FairSpec
CONSTANTS
  j1 = j1  j2 = j2  j3 = j3
  w1 = w1  w2 = w2
  Jobs = {j1, j2, j3}
  Workers = {w1, w2}
  max_workers = 4
  Calls <- MCCalls
  MaxId = 3
  NoJob = NoJob
INVARIANTS NoUseAfterFree WorkLimits QueuedJobHasWorker ShutdownComplete IInv
PROPERTIES NoNewCallbackAfterCancel ImplementsService JobsFinish StopReturns
CHECK_DEADLOCK FALSE

SPECIFICATION FairSpec
CONSTANTS
  Job = {j1}
  Worker = {w1, w2}
  LeaseTTL = 1
  RetryBase = 1
  RetryCap = 2
  MaxAttempts = 3
  Concurrency = 1
  MaxFence = 3
  MaxFaults = 1
  None = None
PROPERTIES
  JobsSettle
  DispatchesResolve

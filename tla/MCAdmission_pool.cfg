SPECIFICATION PoolFairSpec
CONSTANTS
  Caller = {c1, c2, c3, c4, c5}
  TenantId = {t1, t2}
  NoTenant = NoTenant
  MaxActive = 2
  MaxQueued = 2
  PerTenant = 3
  MaxCount = 3
CHECK_DEADLOCK FALSE
INVARIANTS
  SlotsConserved
PROPERTIES
  Fifo
  WaitersServed

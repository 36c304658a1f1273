SPECIFICATION FairSpec
CONSTANTS
  r1 = r1
  r2 = r2
  r3 = r3
  Tenant = tenant
  Reservation = {r1, r2}
  Streams = {r2}
  Bounds = {2}
  Charges = {0, 3}
  MaxPermits = 1
  Flaky = {r1}
  Crashes = TRUE
  Payer <- TenantPays
  Keys <- NoKeys
  Budgets <- TenantLimit
  Period = 2
  MaxNow = 1
CHECK_DEADLOCK FALSE
INVARIANTS
  SentIsLiable
  SentResolves
PROPERTIES
  KeepsLedger
  CallsReturn

SPECIFICATION FairSpec
CONSTANTS
  r1 = r1
  r2 = r2
  r3 = r3
  key1 = key1
  key2 = key2
  Tenant = tenant
  Reservation = {r1, r2, r3}
  Payer <- TwoKeys
  Keys <- NoKeys
  Budgets <- Limits
  Bounds = {2}
  Charges = {0, 3}
  Period = 2
  MaxNow = 2
INVARIANTS
  NoOverAdmission
PROPERTIES
  LiabilityRetained
  ReservesEnd

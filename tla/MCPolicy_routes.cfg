CONSTANTS
  plain = plain
  tin = tin
  sdk = sdk
  NEndpoints = 2
  Config = {tin, sdk}
  Protocol <- MCProtocol
  Serves <- MCServes
  Capability = {"chat", "vision"}
  Restriction <- MCRestriction
  Asking <- MCAsking
  Call = {c1, c2}
  Edit = {x1}
  Seed <- MCSeed
  None = None
  MaxStamps = 2
  MaxChanges = 2
SPECIFICATION Spec
SYMMETRY MCSymmetry
CHECK_DEADLOCK FALSE
INVARIANTS
  StampIsProof
  SentIsAssured
  AuthorityHolds

CONSTANTS
  Request = {r1}
  Worker = {w1, w2}
  Place = {p1, p2}
  Collection = {c1, c2}
  Checkpoints <- MCCheckpoints
  MaxDocs = 2
  MaxContents = 2
  Limit = 1
  MaxJobs = 2
  MaxLeases = 1
  MaxWindows = 2
  MaxFields = 1
  MaxPosts = 2
  MaxEdits = 1
  MaxFaults = 1
SPECIFICATION Spec
SYMMETRY MCSymmetry
INVARIANTS
  CursorCovered
  HashedWasUploaded
  SyncRestores
CHECK_DEADLOCK FALSE

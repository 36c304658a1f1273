CONSTANTS
  Request = {r1, r2}
  Worker = {w1, w2}
  Structured = {2}
  MaxObjects = 2
  MaxVersions = 2
  MaxGenerations = 2
  MaxLeases = 2
  MaxWrites = 3
  MaxFaults = 1
SPECIFICATION Spec
SYMMETRY MCSymmetry
CHECK_DEADLOCK FALSE
INVARIANTS
  PublishedIsIndexed
  OneAuthor
  PublishedRowsIndexed
  DeletedNotServed

SPECIFICATION Spec
CONSTANTS
  Artifact = {a1}
  Process = {p1, p2}
  TTL = 1
  MaxNow = 2
  None = None
SYMMETRY Symmetry
INVARIANTS
  LeaseProtects
  PassClears
PROPERTIES
  FencedStaysFenced

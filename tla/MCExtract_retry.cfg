SPECIFICATION Spec
CONSTANTS
  None = None
  Template = {t1}
  Shipped = {t1}
  Model = {m1}
  Vision = {m1}
  Content = {x1, x2}
  Given = {k1}
  Actor = {a, d}
  May <- MCMay
  Call = {c1, c2}
  Worker = {w1}
  Edit = {e1}
  Row <- MCRow
  MaxArtifacts = 3
  MaxCalls = 2
  MaxChanges = 1
INVARIANT RetryGetsItsJob
CHECK_DEADLOCK FALSE

SPECIFICATION Spec
CONSTANTS
  None = None
  h1 = h1
  h2 = h2
  h3 = h3
  s1 = s1
  k2 = k2
  z1 = z1
  f1 = f1
  v0 = v0
  admins = admins
  a = a
  d = d
  b1 = b1
  b2 = b2
  alias = alias
  p1 = p1
  t1 = t1
  m1 = m1
  n1 = n1
  n2 = n2
  i1 = i1
  i2 = i2
  i3 = i3
  i4 = i4
  u1 = u1
  u2 = u2
  Actor = {a, d}
  Edit = {e1}
  Request = {r1, r2}
  MaxChanges = 1
  User = {h1, h2, h3}
  Role = {admins, others}
  Account = {s1, s2}
  ApiKey = {k2, k3}
  Session = {z1, z2}
  Flow = {f1, x1, x2}
  Subject = {v0}
  Email <- MCEmail
  Scope = {"platform.admin", "rag", "*"}
  Grant <- MCGrant
  Tenant <- MCTenant
  MaxStarts = 3
  Endpoint = {n1, n2}
  Delegator <- MCDelegator
  Public = {i1, i2, i3, i4}
  Bindings <- MCBindings
  Response = {u1, u2}
  Item = {v1}
  References <- MCReferences
  MaxRequests = 2
  Bot = {b1, b2}
  Alias = {alias}
  Prompt = {p1}
  Conversation = {x1, x2}
  Administrator = {d}
  MayChat <- MCMayChat
  Seed <- MCSeed
  BotRows <- MCBotRows
  Length = {2}
  MaxCompletions = 2
  Extraction = {t1}
  Shipped = {t1}
  Model = {m1, m2}
  Vision = {m2}
  Content = {x1, x2}
  MaxArtifacts = 3
  IdempotencyKey = {k1}
  MayExtract <- MCMayExtract
  Worker = {w1}
  TemplateRows <- MCTemplateRows
  MaxCalls = 2
SYMMETRY Symmetry
CHECK_DEADLOCK FALSE
INVARIANTS
  RevocationHolds
  BoundByItsHolder
  ScopesAreInherited
  NamesAreDurable
  SentToItsOrigin
  RetiredIsGone
  AnsweredIsKept
  WithdrawnNotServed
  JobsAreReadable
  AcceptedIsOwn
  WithdrawnNotSent

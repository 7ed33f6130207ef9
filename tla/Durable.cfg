SPECIFICATION DurableSpec
CONSTANTS
  p1 = p1
  v1 = v1
  v2 = v2
  s1 = s1
  s2 = s2
  u1 = u1
  u2 = u2
  everyone = everyone
  None = None
  Policies = {p1}
  Versions = {v1, v2}
  Sources = {s1, s2}
  Units = {u1}
  Scopes = {everyone}
  PolicyOf <- OnePolicy
  PrepareByPage = TRUE
  RollbackByPage = TRUE
  AtomicFlush = TRUE
  MaxRestarts = 1
  MaxFlushFailures = 1
SYMMETRY Symmetry
INVARIANT DurableTypeOK PersistedActiveIsPublished
PROPERTY RestartKeepsServed
CHECK_DEADLOCK FALSE
CONSTRAINT Bound

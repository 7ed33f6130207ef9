SPECIFICATION Spec
CONSTANTS
  p1 = p1
  v1 = v1
  v2 = v2
  s1 = s1
  s2 = s2
  u1 = u1
  everyone = everyone
  restricted = restricted
  None = None
  Policies = {p1}
  Versions = {v1, v2}
  Sources = {s1, s2}
  Units = {u1}
  Scopes = {everyone}
  PolicyOf <- OnePolicy
  PrepareByPage = FALSE
  RollbackByPage = FALSE
SYMMETRY Symmetry
INVARIANT TypeOK PublishedIsActive IndexedContentIsCurrent DocumentsAreOwned
PROPERTY FrozenContent

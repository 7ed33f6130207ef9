SPECIFICATION Spec
CONSTANTS
  p1 = p1
  v1 = v1
  v2 = v2
  s1 = s1
  s2 = s2
  u1 = u1
  everyone = everyone
  restricted = restricted
  None = None
  Policies = {p1}
  Versions = {v1, v2}
  Sources = {s1, s2}
  Units = {u1}
  Scopes = {everyone, restricted}
  PolicyOf <- OnePolicy
  PrepareByPage = TRUE
  RollbackByPage = TRUE
SYMMETRY Symmetry
INVARIANT ReadyIsFresh ServedIsSearchable ActiveVersionIsPublished ReaderAgreesWithSearch ShownIsApproved
PROPERTY ImplementsPublishedKnowledge

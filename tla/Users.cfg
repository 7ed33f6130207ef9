SPECIFICATION Spec
CONSTANTS
  u1 = u1
  u2 = u2
  e1 = e1
  e2 = e2
  Users = {u1, u2}
  Emails = {e1, e2}
  Keys = {k1}
  Items = {i1}
  Founders <- MCFounders
  FromPage = TRUE
  MaxVersion = 3
  MaxFailures = 2
  None = None
CHECK_DEADLOCK FALSE
INVARIANT UserTypeOK
INVARIANT AdminRemains
INVARIANT KeyHasItsUser
INVARIANT AgreesAtRest
INVARIANT FailedCreateIsUndone
INVARIANT ActiveUsersUseActiveItems
 

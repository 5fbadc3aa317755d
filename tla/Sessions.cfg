\* Two requests to every endpoint, and a database that may fail.
CONSTANTS
  Requests = {r1, r2}
  First = first
  Names = {n1, n2}
  Passwords = {p1, p2}
  Providers = {facebook}
  Ids = {i1}
  FirstName = n1
  FirstPassword = p1
  None = None
  QueriesMayFail = TRUE
SPECIFICATION Spec
INVARIANTS
  UniqueAccounts
  LogoutEnds
SYMMETRY
  RequestSymmetry
PROPERTIES
  LogoutConfined
  TokensDelivered
  NoLostUpdates
CHECK_DEADLOCK FALSE

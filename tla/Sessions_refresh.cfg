\* Two requests to exchange a refresh token; the database does not fail.
CONSTANTS
  Requests = {r1, r2}
  First = first
  Names = {n1, n2}
  Passwords = {p1, p2}
  Providers = {facebook}
  Ids = {i1}
  FirstName = n1
  FirstPassword = p1
  None = None
  QueriesMayFail = FALSE
SPECIFICATION Spec
INVARIANTS
  RefreshTokenExchangedOnce
CHECK_DEADLOCK FALSE

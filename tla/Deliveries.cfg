\* A notification to at most two Android devices and an iPhone, and two more
\* calls in all: of requests to the server or of send().
CONSTANTS
  Requests = {r1, r2}
  Users = {u1, u2}
  Tokens = {a1, a2, i1}
  Ios = {i1}
  None = None
  Rows = {w1, w2, w3, w4, w5}
  Today = 1
  Notifications = {n1}
  RetryCount = 2
  MaxSends = 2
  MaxCalls = 2
  a1 = a1
  a2 = a2
  i1 = i1
  n1 = n1
  u1 = u1
  CallIds <- MCCallIds
  FirstOwners <- MCFirstOwners
  Patches <- MCPatches
SPECIFICATION FairSpec
INVARIANTS
  OneRowPerDevice
  DeliveredAsAnswered
  ExpiredLeave
PROPERTIES
  LegalDates
  SendsEnd
CHECK_DEADLOCK FALSE

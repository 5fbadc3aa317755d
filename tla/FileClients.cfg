SPECIFICATION Spec
CONSTANTS
  Callers = {c1, c2}
  Paths = {p1, p2}
  Contents = {v1, v2}
  None = None
  Torn = Torn
  Unknown = Unknown
  MaxCalls = 3
INVARIANTS
  ExistingKept
PROPERTY ReadsAsAnswered
CHECK_DEADLOCK FALSE

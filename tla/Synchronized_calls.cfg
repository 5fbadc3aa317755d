CONSTANTS
  Callers = {c1, c2, c3}
  Keys = {k1, k2}
  None = None
  MaxRuns = 4
SPECIFICATION Spec
INVARIANTS
  SharedRuns
  MutexReleased
PROPERTIES
  CallersReturn
CHECK_DEADLOCK FALSE

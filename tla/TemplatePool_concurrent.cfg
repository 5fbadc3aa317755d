\* Two users at once, creations may fail.
CONSTANTS
  Callers = {c1, c2}
  None = None
  Prebuffer = 2
  MaxCalls = 3
  DestroyOnSwitch = TRUE
  CreationMayFail = TRUE
SPECIFICATION FairSpec
INVARIANTS
  NoDatabaseHandedOutTwice
  PoolLevel
  OnlyUsedDatabasesEnd
PROPERTIES
  CallsEnd
CHECK_DEADLOCK FALSE

\* One user, databases always get created, the smallest pool.
CONSTANTS
  Callers = {c1}
  None = None
  Prebuffer = 1
  MaxCalls = 5
  DestroyOnSwitch = TRUE
  CreationMayFail = FALSE
SPECIFICATION FairSpec
INVARIANTS
  ProcessSurvives
  StorageOnLiveSlave
PROPERTIES
  ImplementsIsolation
  SwitchConnects
CHECK_DEADLOCK FALSE

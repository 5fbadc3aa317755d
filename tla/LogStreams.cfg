\* Unhandled errors end the process some ticks after the mail's time window.
CONSTANTS
  Modules = {m1, m2}
  None = None
  Followup = 2
  ExitDelay = 5
  MaxFatals = 3
  MaxPosts = 3
SPECIFICATION FairSpec
INVARIANTS
  EveryErrorOnce
  MailedBeforeExit
PROPERTIES
  ErrorsHandedOver
CHECK_DEADLOCK FALSE

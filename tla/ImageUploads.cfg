SPECIFICATION UploadSpec
CONSTANTS
  Callers = {f1, f2}
  Paths <- MCPaths
  Contents <- MCContents
  None = None
  Torn = Torn
  Unknown = Unknown
INVARIANTS
  ImagesAsAnswered
  TemporaryFilesLeave
CHECK_DEADLOCK FALSE

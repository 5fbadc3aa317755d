\* Two files with two versions each; processes end anywhere.
CONSTANTS
  Files = {f1, f2}
  Versions = {v1, v2}
  None = None
  MaxTries = 2
  EditsWhileStarting = FALSE
SPECIFICATION Spec
INVARIANTS
  CacheSound
  TestsMigrated
  CacheWithoutFixtures
  NothingMissing

CONSTANTS
  Event = {e1, e2, e3, e4}
  Threads = 2
  CacheSize = 2
  MaxId = 4
  MaxCrashes = 1
  MaxErrors = 1
SYMMETRY Symmetry
SPECIFICATION Spec
INVARIANTS QueuedDurable PageAgrees SearchComplete
PROPERTY FilesImmutable
CHECK_DEADLOCK FALSE

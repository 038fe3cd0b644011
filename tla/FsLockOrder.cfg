\* Two processes that create and remove the same file.
CONSTANTS
  Threads = {1, 2}
  Procs = {1, 2}
  process <- oneEach
  ninodes = 3
  NINODE = 3
  Names = {"a"}
  Calls <- createAndRemove
SPECIFICATION Spec
INVARIANT NoLockCycle
CHECK_DEADLOCK FALSE

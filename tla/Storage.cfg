\* Three threads that write two blocks, with a crash after any step; the instances of the
\* other layers are in MCStorage.
CONSTANTS
  Ops = {p1, p2, p3}
  Blocks = {b1, b2}
  Vals = {0, 1}
  InitVal = 0
  MAXOPBLOCKS = 2
  LOGSIZE = 6
  logsize = 6
SPECIFICATION SSpec
SYMMETRY Symmetry
INVARIANTS
  SleepersWillWake
  SleepersAreServed
  FsNoPanic
  
  LinksCovered
PROPERTIES
  LogImplements
  BufImplements
\* the disk may be full, and a kernel that has panicked stops
CHECK_DEADLOCK FALSE

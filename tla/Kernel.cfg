\* Two writers and a reader of a pipe of two bytes, messages shorter and longer than it,
\* counters that wrap around, and a writer that may be killed; the other instances are
\* in MCKernel.
CONSTANTS
  Writers = {1, 2}
  Readers = {3}
  PIPESIZE = 2
  M = 4
  Lens = {1, 3}
  Killable = {1}
  c1 = c1
  c2 = c2
  t1 = t1
  t2 = t2
SPECIFICATION KSpec
INVARIANTS
  SleepersHaveReason
  FreedUnused
  SchedNoPanic
  OnOneCpu
  NoLostWakeup
  
  
  InputIntact
  EveryByteOnce
  BlocksOwned
PROPERTY PipeImplements
\* both ends of a pipe may be closed for good, and a kernel that has panicked stops
CHECK_DEADLOCK FALSE

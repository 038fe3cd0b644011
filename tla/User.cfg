\* Four threads at a ticket lock whose counters wrap around as soon as they can; the
\* other instances are in MCUser.
CONSTANTS
  Threads = {t1, t2, t3, t4}
  M = 4
  s1 = s1
SPECIFICATION USpec
INVARIANTS
  TicketsInUse
  WakeupSpentOnce
  WiredAsTyped
  NoneStuck
  PromptComesLast
  HeapTiled
PROPERTIES
  Implements
  NoStarvation
  SemImplements
\* the threads may all wait for a semaphore
CHECK_DEADLOCK FALSE

\* The log at its limit, with the ratio of param.h (LOGSIZE = 3 * MAXOPBLOCKS) and
\* the log that mkfs makes (nlog = LOGSIZE): three operations that write all they may.
CONSTANTS
  Ops = {p1, p2, p3}
  Blocks = {b1, b2, b3}
  Vals = {0}
  InitVal = 0
  MAXOPBLOCKS = 1
  LOGSIZE = 3
  logsize = 3
SPECIFICATION Spec
INVARIANT ReservationSuffices

\* Progress: killed threads end, exec and join return, init reaps.
CONSTANTS
  NPROC = 3
  MaxPid = 4
  Calls = {"clone", "join", "exit", "exec", "kill", "fault"}
  Chans = {}
  Rules = {"one_joiner", "kill_known"}
SPECIFICATION FairSpec
INVARIANT JoinKeepsTarget
PROPERTIES
  KilledTerminates
  ExecGetsAlone
  JoinReturns
  InitReaps
\* a kernel that has panicked stops
CHECK_DEADLOCK FALSE

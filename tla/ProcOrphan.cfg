\* The leader of a process exits before another thread of it.
CONSTANTS
  NPROC = 4
  MaxPid = 4
  Calls = {"fork", "clone", "exit"}
  Chans = {}
  Rules = {"fork_wait", "one_joiner", "leader_exec", "kill_known"}
SPECIFICATION Spec
INVARIANT ParentIsAlive
CHECK_DEADLOCK FALSE

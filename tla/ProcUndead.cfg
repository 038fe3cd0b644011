\* A thread forks while another thread of the process is in wait.
CONSTANTS
  NPROC = 4
  MaxPid = 4
  Calls = {"fork", "clone", "wait"}
  Chans = {}
  Rules = {"one_joiner", "leader_last", "leader_exec", "kill_known"}
SPECIFICATION Spec
INVARIANT NoUndead
CHECK_DEADLOCK FALSE

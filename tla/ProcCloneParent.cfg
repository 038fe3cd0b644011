\* A thread clones while the parent of its process exits.
CONSTANTS
  NPROC = 4
  MaxPid = 4
  Calls = {"fork", "clone", "exit"}
  Chans = {}
  Rules = {"fork_wait", "one_joiner", "leader_exec", "kill_known"}
SPECIFICATION FairSpec
PROPERTY InitReaps
CHECK_DEADLOCK FALSE

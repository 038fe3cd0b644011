\* exec waits for a thread that goes to sleep in park after it was marked.
CONSTANTS
  NPROC = 4
  MaxPid = 4
  Calls = {"clone", "exec", "park"}
  Chans = {c1}
  Rules = {"fork_wait", "one_joiner", "leader_last", "leader_exec", "kill_known"}
SPECIFICATION FairSpec
PROPERTY ExecGetsAlone
CHECK_DEADLOCK FALSE

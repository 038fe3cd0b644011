\* A family of processes with threads, whose programs keep all the rules.
CONSTANTS
  NPROC = 4
  MaxPid = 4
  Calls = {"fork", "clone", "wait", "exit", "exec"}
  Chans = {}
  Rules = {"fork_wait", "one_joiner", "leader_last", "leader_exec", "kill_known"}
SPECIFICATION Spec
INVARIANTS
  NoUndead
  ParentIsAlive
  NothingLeaked
\* a kernel that has panicked stops
CHECK_DEADLOCK FALSE

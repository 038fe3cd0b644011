\* One process with threads: clone, exit, exec, park and unpark in every
\* interleaving, with programs that promise nothing.
CONSTANTS
  NPROC = 4
  MaxPid = 4
  Calls = {"clone", "exit", "exec", "park", "unpark"}
  Chans = {c1}
  Rules = {}
SPECIFICATION Spec
INVARIANTS
  ThreadCountOK
  ExecIsAlone
  ExecMarksAll
  LastThreadDropsCwd
  
\* a kernel that has panicked stops
CHECK_DEADLOCK FALSE

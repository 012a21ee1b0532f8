SPECIFICATION MCSpec
CONSTANTS
  NPROC = 3
  NTHREAD = 2
  CPU = {c1, c2}
  NoCPU = NoCPU
  Calls = {"fork", "exit", "wait", "kill", "exec", "kthread_create", "kthread_exit", "kthread_join"}
  InitCalls = {"fork", "wait", "exit"}
  Victims = {2}
  OutOfMemory = TRUE
  Mixes = {"threads", "family"}
SYMMETRY Symmetry
INVARIANTS
  SchedLocks
  LastThreadExits
CHECK_DEADLOCK FALSE

SPECIFICATION MCSpec
CONSTANTS
  NPROC = 2
  NTHREAD = 2
  CPU = {c1, c2}
  NoCPU = NoCPU
  Calls = {"kthread_create", "kthread_exit", "kthread_join"}
  InitCalls = {"fork", "wait"}
  Victims = {}
  OutOfMemory = FALSE
  Mixes = {"any"}
SYMMETRY Symmetry
INVARIANTS
  NoMissedDeath
CHECK_DEADLOCK FALSE

SPECIFICATION MCSpec
CONSTANTS
  NPROC = 3
  NTHREAD = 1
  CPU = {c1, c2}
  NoCPU = NoCPU
  Calls = {"fork", "exit", "wait", "kill"}
  InitCalls = {"fork", "wait"}
  Victims = {2, 3}
  OutOfMemory = TRUE
  Mixes = {"any"}
SYMMETRY Symmetry
INVARIANTS
  NoMissedExit
  StackInUse
  DeadMeansDead
  ZombieHasParent

SPECIFICATION MCFairSpec
CONSTANTS
  NPROC = 3
  NTHREAD = 1
  CPU = {c1}
  NoCPU = NoCPU
  Calls = {"fork", "exit", "wait", "kill"}
  InitCalls = {"fork", "wait"}
  Victims = {2}
  OutOfMemory = FALSE
  Mixes = {"any"}
PROPERTIES
  InitReaps
  KilledAwakeExits

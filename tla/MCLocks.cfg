SPECIFICATION LocksSpec
CONSTANTS
  Thread = {t1, t2, t3}
  NoThread = NoThread
  MAX_MUTEXES = 2
  MaxId = 2
  Mortal = {t1, t2, t3}
  CPUs = {c1, c2}
  Threads = {s1}
  NoCPU = NoCPU
  Locks = {ptable, other}
  ptable = ptable
  ncpu = 3
  Low = 4
  Pages = 6
SYMMETRY Symmetry
INVARIANTS
  NoLostWakeup
  MutualExclusion
  WaitsForItsMutex
  LocksSafe
  StartsSafely
PROPERTY ImplementsTable
CHECK_DEADLOCK FALSE

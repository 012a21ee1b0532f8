SPECIFICATION LogSpec
CONSTANTS
  Thread = {t1, t2, t3}
  Block = {b1, b2, b3}
  Val = {v0, v1}
  Writes <- Anything
  MAXOPBLOCKS = 2
  LOGSIZE = 6
  nlog = 6
SYMMETRY Symmetry
INVARIANTS
  NoLogPanic
  NoLostWakeup
  DurableWhenQuiet
PROPERTY AtomicTransactions
CHECK_DEADLOCK FALSE

SPECIFICATION Spec
CONSTANTS
  Thread = {t1, t2}
  NoThread = NoThread
  Block = {k1, k2, k3, k4}
  NoBlock = NoBlock
  Val = {u, v}
  NBUF = 3
  MaxPinned = 1
  DiskErrors = FALSE
SYMMETRY Symmetry
INVARIANT OneBufferNoSleeper
PROPERTY ImplementsStore

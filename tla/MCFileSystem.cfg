SPECIFICATION FsSpec
CONSTANTS
  a = a
  b = b
  t1 = t1
  t2 = t2
  u1 = u1
  u2 = u2
  parent = parent
  child = child
  f1 = f1
  f2 = f2
  Thread = {t1, t2}
  Name = {a, b}
  NINUM = 3
  NINODE = 4
  Calls <- CallsOfTwo
  FullTable = FALSE
SYMMETRY Symmetry
VIEW InUse
INVARIANTS
  SlotsExact
  LinksExact
  CountsExact
  FilesExact

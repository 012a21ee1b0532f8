SPECIFICATION Spec
CONSTANTS
  Proc = {p1, p2, p3}
  initproc = p1
  Page = {a1, a2, a3, a4}
  NPTENTRIES = 2
  MaxSize = 2
  Programs <- Mixed
INVARIANT OnlyHolder
CHECK_DEADLOCK FALSE

SPECIFICATION Spec
CONSTANTS
  Proc = {p1, p2, p3}
  initproc = p1
  Page = {a1, a2, a3, a4, a5}
  NPTENTRIES = 2
  MaxSize = 3
  Programs <- CowOrPlain
SYMMETRY Symmetry
INVARIANTS
  PagesExact
  OnlyHolder
PROPERTY PrivateMemory
CHECK_DEADLOCK FALSE

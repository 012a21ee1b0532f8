SPECIFICATION StreamsSpec
CONSTANTS
  Sleeper = {c1, c2}
  UINT = 3
  Writer = {w1, w2}
  Reader = {r1, r2}
  Byte = {a, b}
  PIPESIZE = 2
  UINT_MAX1 = 4
  MaxBytes = 3
  SharedFiles = FALSE
  ConsoleReader = {c1, c2}
  Char = {x, Newline, EOF}
  Newline = Newline
  EOF = EOF
  INPUT_BUF = 3
  INPUT_UINT = 6
  MaxRead = 2
SYMMETRY Symmetry
INVARIANTS
  NoSleeperForgotten
  SleepsLongEnough
PROPERTIES
  ImplementsStream
  ImplementsTerminal
CHECK_DEADLOCK FALSE

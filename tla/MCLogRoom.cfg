CONSTANTS
  Op = {o1, o2, o3}
  Block = {a, b, c, d, e, f}
  Val = {u}
  MAXOPBLOCKS = 3
  LOGSIZE = 6
  nlog = 6
  OpBlocks = 2
  NULL = NULL
SPECIFICATION Spec
SYMMETRY Symmetry
INVARIANTS
  LogFits
  NoPanic
  SleepJustified
  WakerExists

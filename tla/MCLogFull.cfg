CONSTANTS
  Op = {o1, o2}
  Block = {a, b, c}
  Val = {u}
  MAXOPBLOCKS = 2
  LOGSIZE = 4
  nlog = 4
  OpBlocks = 2
  NULL = NULL
SPECIFICATION Spec
INVARIANTS
  NoPanic

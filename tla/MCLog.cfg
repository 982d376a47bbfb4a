CONSTANTS
  Op = {o1, o2}
  Block = {a, b, c, d}
  Val = {u, v}
  MAXOPBLOCKS = 3
  LOGSIZE = 6
  nlog = 6
  OpBlocks = 2
  NULL = NULL
SPECIFICATION Spec
SYMMETRY Symmetry
INVARIANTS
  TypeOK
  Durable
PROPERTIES
  CrashAtomic

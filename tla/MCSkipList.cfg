CONSTANTS
  Proc = {p1, p2, p3}
  LEVELS = 3
  Deadline = {1, 2, 3}
  Stray = {}
  NULL = NULL
SPECIFICATION Spec
SYMMETRY Symmetry
INVARIANTS
  TypeOK
  LinksConsistent
  LevelsNested
  NoNodeLeaked
  NoPanic
  HeadIsEarliest
PROPERTIES
  ImplementsRunQueue

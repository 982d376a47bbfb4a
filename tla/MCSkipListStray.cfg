CONSTANTS
  Proc = {p1, p2, p3}
  LEVELS = 3
  Deadline = {1, 2, 3}
  Stray = {"match", "fault"}
  NULL = NULL
SPECIFICATION Spec
INVARIANTS
  NoPanic

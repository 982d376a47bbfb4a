CONSTANTS
  NICE_FIRST_LEVEL <- MCNiceFirst
  NICE_LAST_LEVEL = 1
  BFS_DEFAULT_QUANTUM = 1
  NPROC = 4
  NIO = 0
  NiceArg = {0}
  SleepArg = {}
  MaxPid = 5
  MaxTicks = 0
SPECIFICATION Spec
CHECK_DEADLOCK FALSE
INVARIANTS
  NoOrphan
  ParentsLive
  NoLostExit

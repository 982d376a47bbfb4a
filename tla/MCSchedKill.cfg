CONSTANTS
  NICE_FIRST_LEVEL <- MCNiceFirst
  NICE_LAST_LEVEL = 1
  BFS_DEFAULT_QUANTUM = 1
  NPROC = 2
  NIO = 1
  NiceArg <- MCNiceArg
  SleepArg = {1}
  MaxPid = 3
  MaxTicks = 1
SPECIFICATION Spec
CHECK_DEADLOCK FALSE
PROPERTIES
  BornAlive

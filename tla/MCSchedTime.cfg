CONSTANTS
  NICE_FIRST_LEVEL <- MCNiceFirst
  NICE_LAST_LEVEL = 1
  BFS_DEFAULT_QUANTUM = 2
  NPROC = 2
  NIO = 1
  NiceArg <- MCNiceArg
  SleepArg = {1, 2}
  MaxPid = 3
  MaxTicks = 4
SPECIFICATION Spec
CHECK_DEADLOCK FALSE
INVARIANTS
  NoLostTick
  QuantumBounded

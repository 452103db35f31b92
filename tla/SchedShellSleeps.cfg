SPECIFICATION Spec
CONSTANTS
  TASK_MAX = 4
  Priorities = {9, 10, 11}
  Stacks = {k1, k2, k3}
  NoStack = NoStack
  CounterRange = 8
  MaxPid = 4
  MaxTick = 1
  ShellMayStop = TRUE
INVARIANT StatsExact

SPECIFICATION MCSpec
CONSTANTS
  c1 = c1
  c2 = c2
  c3 = c3
  w1 = w1
  w2 = w2
  r1 = r1
  v1 = v1
  v2 = v2
  CPUs = {c1, c2, c3}
  TicketRange = 3
  Permits = 1
  MaxSignals = 2
  DoneMax = 4
  MaxCompletes = 3
  CompleteAfterAll = FALSE
  ConditionRange = 3
  Writers = {w1, w2}
  Readers = {r1}
  Values = {v1, v2}
  SequenceRange = 6
  TASK_MAX = 3
  Priorities = {9, 10, 11}
  Stacks = {k1, k2}
  NoStack = NoStack
  CounterRange = 8
  MaxPid = 4
  MaxTick = 1
  ShellMayStop = FALSE
INVARIANTS
  Exclusion
  ReadersCounted
  TicketMutualExclusion
  TokensConserved
  NoTornRead
  TicketFifo
  StatsExact
  TasksSound
PROPERTIES
  WaitersServed
  PriorityRespected
  NoStarvation
CHECK_DEADLOCK FALSE

SPECIFICATION FairSpec
CONSTANTS
  Firmware = {1, 2, 3}
  APs = {1, 2}
  SMP_MAX_CPUS = 3
  CounterRange = 16
  MaxRequests = 2
  SlowProcessors = FALSE
INVARIANTS StartupSound ShootdownComplete
PROPERTY EveryCallReturns
CHECK_DEADLOCK FALSE

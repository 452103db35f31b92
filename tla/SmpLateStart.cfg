SPECIFICATION Spec
CONSTANTS
  Firmware = {1, 2}
  APs = {1, 2}
  SMP_MAX_CPUS = 3
  CounterRange = 16
  MaxRequests = 1
  SlowProcessors = TRUE
INVARIANT OwnStackAndRecord
CHECK_DEADLOCK FALSE

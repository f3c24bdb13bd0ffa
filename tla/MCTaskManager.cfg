CONSTANTS
  Task = {t1, t2}
  Client = {c1}
  Run = {r1, r2}
  MaxRetry = 1
  MaxWorkers = 3
  CoSerializes = TRUE
  MaxCrashes = 2
  MaxShutdowns = 1
SPECIFICATION Spec
SYMMETRY Symmetry
INVARIANTS TypeOK OneExecution CountsOnlyFailures RunningIsEngaged

CONSTANTS
  Task = {t1}
  Client = {c1, c2}
  Run = {r1, r2}
  MaxRetry = 1
  MaxWorkers = 2
  CoSerializes = TRUE
  MaxCrashes = 0
  MaxShutdowns = 1
SPECIFICATION FairSpec
INVARIANT BoundedExecutions
PROPERTIES RemovesOnlyIdle ImplementsLifecycle EventuallySettled ShutdownCompletes

CONSTANTS
  Task = {t1}
  Client = {c1}
  Run = {r1, r2}
  MaxRetry = 1
  MaxWorkers = 3
  CoSerializes = TRUE
  MaxCrashes = 1
  MaxShutdowns = 0
SPECIFICATION FairSpec
PROPERTY EventuallySettled

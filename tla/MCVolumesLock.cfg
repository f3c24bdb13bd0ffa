CONSTANTS
  r1 = r1
  w1 = w1
  s1 = s1
  Rpc = {r1}
  Worker = {w1}
  Thread <- AllThreads
  Snap = {s1}
  Clone = {}
  Orderly = TRUE
  ClearOnRelease = TRUE
  GiveUp = FALSE
  MaxFaults = 0

SPECIFICATION Spec

INVARIANTS Exclusive

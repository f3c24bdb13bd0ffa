CONSTANTS
  r1 = r1
  w1 = w1
  s1 = s1
  k1 = k1
  Rpc = {r1}
  Worker = {w1}
  Thread <- AllThreads
  Snap = {s1}
  Clone = {k1}
  Orderly = TRUE
  ClearOnRelease = TRUE
  GiveUp = TRUE
  MaxFaults = 1

SPECIFICATION Spec

INVARIANTS TypeOK ReadyHasImage NoOrphanSnapshot CloneIsWhole
PROPERTIES KeepsAttachedImage

CONSTANTS
  v1 = v1
  v2 = v2
  v3 = v3
  Value = {v1, v2, v3}
  NoFile = NoFile
  TornFile = TornFile

SPECIFICATION FileSpec

INVARIANTS TypeOK
PROPERTIES ImplementsAtomicFile

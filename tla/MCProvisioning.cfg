\* A volume and a copy made from its snapshot; three kinds of reserve.
CONSTANTS
  Volume = {"v1", "v2"}
  Clones = {}
  Restores = {"v2"}
  Source <- MCSource
  Size <- MCSize
  MaxSize = 2
  MaxOther = 1
  MaxChecks = 1
  Total = 3
  Reserve <- MCReserve
SPECIFICATION Spec
CHECK_DEADLOCK FALSE
INVARIANTS TypeOK AllowedFits

CONSTANTS
  Loop = {l1, l2}
  MaxFaults = 1
  MaxReboots = 1

SPECIFICATION FairSpec

PROPERTIES TeardownCompletes

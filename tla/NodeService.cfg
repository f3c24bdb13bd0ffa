CONSTANTS
  Loop = {l1, l2}
  MaxFaults = 2
  MaxReboots = 1

SPECIFICATION FairSpec

INVARIANTS TypeOK OwnDevice AnswersAreTrue UnstagedIsClean ExpandReachesFs
PROPERTIES MountTeardownCompletes MountSetupCompletes

CONSTANTS
  Pod = {1, 2, 3}
  Node = {"n1", "n2"}
  PodNode <- MCPodNode
  IP = {"a", "b"}
  MaxLag = 1
  Home = "n1"
  OldSignature = {1}
  Parallel = 1
  MaxSize = 3

SPECIFICATION FairSpec
CHECK_DEADLOCK FALSE

INVARIANTS TypeOK GrantedIsGrown AccurateWhenCaughtUp
PROPERTIES MappingCatchesUp RequestsEnd ExpandCompletes

------------------------------ MODULE MCCluster ------------------------------
(***************************************************************************)
(* Cluster with two nodes: three pods in turn, or at the same time, on the *)
(* node of the volume and on another one.                                  *)
(***************************************************************************)
EXTENDS Cluster

MCPodNode == [p \in Pod |-> IF p = 3 THEN "n2" ELSE "n1"]

=============================================================================

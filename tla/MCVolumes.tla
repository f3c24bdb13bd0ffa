----------------------------- MODULE MCVolumes -----------------------------
(* Instances of Volumes: one request thread and one pool thread. *)
EXTENDS Volumes

AllThreads == Rpc \cup Worker

=============================================================================

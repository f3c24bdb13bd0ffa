--------------------------- MODULE MCProvisioning ---------------------------
(* A volume and a copy from its snapshot in a pool of three blocks; the      *)
(* reserves leave 3, 2.1 and 2 of them.                                     *)
EXTENDS Provisioning, TLC

MCSize == "v1" :> 1 @@ "v2" :> 1

MCSource == "v2" :> "v1"

MCReserve ==
  {[percent |-> FALSE, value |-> 0, mode |-> "plain"],
   [percent |-> TRUE, value |-> 30, mode |-> "plain"],
   [percent |-> FALSE, value |-> 2, mode |-> "subtract-from-total"]}

=============================================================================

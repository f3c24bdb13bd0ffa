------------------------------ MODULE MCPlugin ------------------------------
(* Two volumes, one with metadata of every version, two controllers.        *)
EXTENDS Plugin, TLC

CONSTANTS v1, v2

Data(version) ==
  [schema_version |-> version, volume_id |-> TRUE, fs_type |-> Absent, deleted_at |-> Absent, gc_at |-> Absent,
   thin_provision |-> Absent, ready |-> Absent, storage_pool |-> Absent,
   reflink_attached |-> Absent, img_file |-> "data"]

Late(version, pool) ==
  [Data(version) EXCEPT !.fs_type = "xfs", !.thin_provision = FALSE, !.ready = FALSE, !.storage_pool = pool]

Unnamed(version) == [Late(version, "second") EXCEPT !.volume_id = FALSE, !.img_file = Absent]

MCFirstData ==
  v1 :> {Data(0), Data(1), [Data(1) EXCEPT !.fs_type = "xfs"], [Data(2) EXCEPT !.deleted_at = 1],
         [Data(3) EXCEPT !.deleted_at = 1, !.gc_at = 3], [Data(4) EXCEPT !.thin_provision = FALSE],
         Late(5, Absent), [Late(6, "second") EXCEPT !.reflink_attached = TRUE], Late(7, "second"),
         [Late(8, "second") EXCEPT !.img_file = "pool"], Late(9, "second"), Late(8, "removed"),
         Unnamed(7), Unnamed(8)}
  @@ v2 :> {Data(2), [Late(8, "first") EXCEPT !.ready = TRUE, !.img_file = "pool"]}

MCDevice == "first" :> 1 @@ "second" :> 2

Pools(names) == {[name |-> n, path |-> n] : n \in names}

NodeConfig ==
  [plugin_type |-> "node", internal_ip |-> TRUE, metadata_dir |-> TRUE,
   storage_pools |-> Pools({"first", "second"}), default_pool |-> "first",
   node_ds |-> TRUE, internal_signature |-> TRUE, internal_port |-> TRUE,
   ga_enabled |-> TRUE, ga_id |-> TRUE, ga_key |-> TRUE]

ControllerConfig ==
  [NodeConfig EXCEPT !.plugin_type = "controller", !.internal_ip = FALSE, !.metadata_dir = FALSE,
                     !.storage_pools = {}, !.default_pool = ""]

\* The two plugins, and configurations with one mistake each.
MCConfig ==
  {NodeConfig, ControllerConfig,
   [NodeConfig EXCEPT !.default_pool = "third"], [NodeConfig EXCEPT !.metadata_dir = FALSE],
   [NodeConfig EXCEPT !.storage_pools = @ \cup {[name |-> "third", path |-> "first"]}],
   [NodeConfig EXCEPT !.storage_pools = Pools({"first", "2."})],
   [ControllerConfig EXCEPT !.internal_signature = FALSE],
   [ControllerConfig EXCEPT !.ga_key = FALSE]}

=============================================================================

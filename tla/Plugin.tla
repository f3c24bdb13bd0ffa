------------------------------- MODULE Plugin -------------------------------
(***************************************************************************)
(* The process of rawfile.py: its configuration is validated               *)
(* (config/model.py), and it becomes a node plugin, which starts as in     *)
(* Startup, or a controller plugin, which reports as in Ping.              *)
(***************************************************************************)
EXTENDS Startup, Ping

CONSTANTS
  Config,      \* configurations that may be given
  GoodName     \* pool names of 3 to 63 characters that are DNS names

VARIABLE config

vars == <<config, startupVars, pingVars>>

\* Two pools with one path are one pair less than names.
validate_node_plugin(c) ==
  c.plugin_type = "node" =>
    /\ c.internal_ip /\ c.metadata_dir
    /\ c.storage_pools # {}
    /\ \A p \in c.storage_pools : p.name \in GoodName
    /\ \A p, q \in c.storage_pools : p.path = q.path => p = q
    /\ c.default_pool \in {p.name : p \in c.storage_pools}

validate_ds(c) == c.node_ds /\ c.internal_signature /\ c.internal_port

Accepted(c) == validate_node_plugin(c) /\ validate_ds(c)

\* Without its id and key the analytics are switched off.
validate_ga(c) == c.ga_enabled /\ c.ga_id /\ c.ga_key

IsNode       == Accepted(config) /\ config.plugin_type = "node"
IsController == Accepted(config) /\ config.plugin_type = "controller"

\* Of the files and of time nothing is seen by the other plugin.
Init ==
  /\ config \in Config
  /\ StartupInit /\ PingInit
  /\ ~IsNode => \A v \in Volume : first[v] = (CHOOSE d \in FirstData[v] : TRUE) /\ old = first
  /\ ~IsNode => image = {} /\ rest = {} /\ first[Tasks] = Absent

\* csi_driver
NodePlugin       == IsNode /\ (StartupStep \/ Kill) /\ UNCHANGED <<config, pingVars>>
ControllerPlugin == IsController /\ validate_ga(config) /\ PingStep /\ UNCHANGED <<config, startupVars>>

Next == NodePlugin \/ ControllerPlugin

Spec == Init /\ [][Next]_vars

\* The plugin is started again by kubelet, and goes on.
FairSpec == Spec /\ WF_vars(IsNode /\ StartupStep /\ UNCHANGED <<config, pingVars>>)

-----------------------------------------------------------------------------
(* Properties *)

\* A node plugin with an accepted configuration comes up: see StartsUnlessTorn.
NodePluginStarts == IsNode => StartsUnlessTorn

=============================================================================

------------------------------- MODULE Startup ------------------------------
(***************************************************************************)
(* The start of the node plugin on a node with volumes of earlier versions *)
(* (rawfile.py, node_driver_preflight_checks): the dry run of the garbage  *)
(* collection, the move of the metadata out of the default pool, the       *)
(* migration of its schema (volume_schema.py), and the move of tasks.json. *)
(* The chart mounts the metadata directory and every pool by itself, so    *)
(* shutil.move copies a file and then removes the source.  The process may *)
(* be killed at any step, and is started again.                            *)
(***************************************************************************)
EXTENDS Integers

CONSTANTS
  Volume,
  Pool,          \* configured pools
  DefaultPool,
  Device,        \* the device below each pool
  FirstData,     \* metadata that earlier versions may have left of each volume
  MaxKills,      \* bound
  Absent,        \* no such file, no such key
  Torn           \* a file that was created and is not written yet

LATEST_SCHEMA_VERSION == 8

Tasks == "tasks.json"
File  == Volume \cup {Tasks}    \* disk.meta of each volume, and tasks.json

\* What volume_schema.py knows of a disk.meta: "data" and "pool" are a path below
\* /data and one in the volume's pool.  The first patch of create_volume writes no
\* volume_id, and if it was killed then there is none.
Metadata ==
  [schema_version : Nat, volume_id : BOOLEAN, fs_type : {Absent, "ext4", "xfs", "btrfs"},
   deleted_at : {Absent} \cup Nat, gc_at : {Absent} \cup Nat,
   thin_provision : {Absent} \cup BOOLEAN, ready : {Absent} \cup BOOLEAN,
   storage_pool : {Absent} \cup STRING, reflink_attached : {Absent} \cup BOOLEAN,
   img_file : {Absent, "data", "pool"}]

ASSUME StartupAssumption ==
  /\ Tasks \notin Volume /\ DefaultPool \in Pool /\ Pool \subseteq STRING /\ DOMAIN Device = Pool
  /\ MaxKills \in Nat
  /\ \A v \in Volume : FirstData[v] \subseteq Metadata
  /\ Absent # Torn /\ {Absent, Torn} \cap {"saved", "empty"} = {}
  /\ Absent \notin Metadata /\ Torn \notin Metadata

VARIABLES
  pc,      \* the next step of the start; down, serving
  first,   \* the files before the upgrade, which no code sees
  image,   \* volumes with an image in their directory
  old,     \* files in the default pool
  rest,    \* volumes with disk.meta.tmp or disk.lock in the default pool
  new,     \* files in the metadata directory
  todo,    \* files that the present loop has still to visit
  moving,  \* shutil.move: a file and how far its move is
  cow,     \* COW_SUPPORT_MAP
  kills

diskVars    == <<first, image, old, rest, new>>
startupVars == <<pc, diskVars, todo, moving, cow, kills>>

-----------------------------------------------------------------------------
(* volume_schema.py *)

migrate_0_to_1(d) == [d EXCEPT !.schema_version = 1]
migrate_1_to_2(d) == [d EXCEPT !.schema_version = 2, !.fs_type = IF @ = Absent THEN "ext4" ELSE @]
migrate_2_to_3(d) == [d EXCEPT !.schema_version = 3,
                               !.gc_at = IF d.deleted_at = Absent THEN @ ELSE d.deleted_at + 7]
migrate_3_to_4(d) == [d EXCEPT !.schema_version = 4, !.thin_provision = TRUE]
migrate_4_to_5(d) == [d EXCEPT !.schema_version = 5, !.ready = TRUE]
migrate_5_to_6(d) == [d EXCEPT !.schema_version = 6, !.storage_pool = DefaultPool]
migrate_6_to_7(d) == [d EXCEPT !.schema_version = 7, !.reflink_attached = Absent]

\* A path below /data becomes that of the image in the pool, if it is there.  Without
\* volume_id this raises: see Migratable.
migrate_7_to_8(d, exists) ==
  [d EXCEPT !.schema_version = 8, !.img_file = IF @ = "data" /\ exists THEN "pool" ELSE @]

\* From the version of d on, each function once.
migrate_to(d, exists) ==
  LET step(n, from, to) == IF d.schema_version < n THEN to ELSE from
      d1 == step(1, d, migrate_0_to_1(d))
      d2 == step(2, d1, migrate_1_to_2(d1))
      d3 == step(3, d2, migrate_2_to_3(d2))
      d4 == step(4, d3, migrate_3_to_4(d3))
      d5 == step(5, d4, migrate_4_to_5(d4))
      d6 == step(6, d5, migrate_5_to_6(d5))
      d7 == step(7, d6, migrate_6_to_7(d6))
  IN  step(8, d7, migrate_7_to_8(d7, exists))

-----------------------------------------------------------------------------
(* The start *)

Goto(from, to) == pc = from /\ pc' = to
NotMoving      == <<Absent, "none">>
Volumes(files) == {v \in Volume : files[v] # Absent}

\* gc_all_volumes(True) reads the metadata of every volume: one that cannot be
\* parsed ends the process, before anything is migrated.
gc_all_volumes ==
  /\ Goto("down", "init") /\ \A v \in Volume : new[v] # Torn
  /\ UNCHANGED <<diskVars, todo, moving, cow, kills>>

\* TaskManager() touches tasks.json.
InitTaskManager ==
  /\ Goto("init", "check")
  /\ new' = [new EXCEPT ![Tasks] = IF @ = Absent THEN "empty" ELSE @]
  /\ UNCHANGED <<first, image, old, rest, todo, moving, cow, kills>>

DistinctDevices == \A p, q \in Pool : p # q => Device[p] # Device[q]

\* The checks of the directories and of their devices; then migrate_metadata_dir
\* lists the volumes to move.
CheckDirectories ==
  /\ Goto("check", "move")
  /\ DistinctDevices
  /\ todo' = Volumes(old)
  /\ UNCHANGED <<diskVars, moving, cow, kills>>

\* Variant: a copy that a killed start left is in the way.
OpenCopyFresh(f) ==
  /\ moving = NotMoving /\ f \in todo /\ old[f] # Absent /\ new[f] # Torn
  /\ moving' = <<f, "write">> /\ new' = [new EXCEPT ![f] = Torn]
  /\ UNCHANGED <<old, todo>>

\* shutil.move of f into the metadata directory: it creates the file, writes it,
\* removes the source.
OpenCopy(f) ==
  /\ moving = NotMoving /\ f \in todo /\ old[f] # Absent
  /\ moving' = <<f, "write">> /\ new' = [new EXCEPT ![f] = Torn]
  /\ UNCHANGED <<old, todo>>

\* Variant: the source is removed before the copy is written.
WriteCopyLate(f) ==
  /\ moving = <<f, "write">> /\ moving' = <<f, "unlink">>
  /\ new' = new /\ old' = [old EXCEPT ![f] = Absent]
  /\ UNCHANGED todo

WriteCopy(f) ==
  /\ moving = <<f, "write">> /\ moving' = <<f, "unlink">>
  /\ new' = [new EXCEPT ![f] = old[f]]
  /\ UNCHANGED <<old, todo>>

UnlinkSource(f) ==
  /\ moving = <<f, "unlink">> /\ moving' = <<f, "rest">>
  /\ old' = [old EXCEPT ![f] = Absent]
  /\ UNCHANGED <<new, todo>>

MoveFile(f) ==
  /\ pc = (IF f = Tasks THEN "tasks" ELSE "move")
  /\ OpenCopy(f) \/ WriteCopy(f) \/ UnlinkSource(f)
  /\ UNCHANGED <<pc, first, image, rest, cow, kills>>

\* The other two files of a volume follow its disk.meta.
MoveRest(f) ==
  /\ moving = <<f, "rest">> /\ moving' = NotMoving
  /\ rest' = rest \ {f} /\ todo' = todo \ {f}
  /\ UNCHANGED <<pc, first, image, old, new, cow, kills>>

\* Variant: the schemas of the files in place first.
ListVolumesEarly ==
  /\ Goto("move", "schema")
  /\ todo' = Volumes(new) /\ moving = NotMoving
  /\ UNCHANGED <<diskVars, moving, cow, kills>>

\* list_all_volumes, by migrate_all_volume_schemas
ListVolumes ==
  /\ Goto("move", "schema") /\ todo = {}
  /\ todo' = Volumes(new)
  /\ UNCHANGED <<diskVars, moving, cow, kills>>

\* A version that is too new raises, and so do a pool that is not configured and, on
\* the way to version 8, a volume without volume_id.
Migratable(d) ==
  /\ d.schema_version <= LATEST_SCHEMA_VERSION
  /\ d.schema_version < 8 => d.volume_id
  /\ d.storage_pool \in Pool \cup {Absent}

\* migrate_metadata: the new file replaces the old one as in MetadataFile.
migrate_metadata(v) ==
  /\ pc = "schema" /\ v \in todo /\ Migratable(new[v])
  /\ new' = [new EXCEPT ![v] = migrate_to(@, v \in image)]
  /\ todo' = todo \ {v}
  /\ UNCHANGED <<pc, first, image, old, rest, moving, cow, kills>>

migrate_tasks_file_path ==
  /\ Goto("schema", "tasks") /\ todo = {}
  /\ todo' = IF old[Tasks] = Absent THEN {} ELSE {Tasks}
  /\ UNCHANGED <<diskVars, moving, cow, kills>>

\* is_cow_supported for each pool: any failure, of the write or of the copy,
\* means no.
is_cow_supported ==
  /\ Goto("tasks", "start") /\ todo = {}
  /\ cow' \in [Pool -> BOOLEAN]
  /\ UNCHANGED <<diskVars, todo, moving, kills>>

\* task_manager.start reads tasks.json; the servers start.
StartServers ==
  /\ Goto("start", "serving") /\ new[Tasks] # Torn
  /\ UNCHANGED <<diskVars, todo, moving, cow, kills>>

\* The end of the process, after which kubelet starts it again.
Exit ==
  /\ pc' = "down" /\ todo' = {} /\ moving' = NotMoving /\ cow' = [p \in Pool |-> FALSE]
  /\ UNCHANGED diskVars

\* An exception that nothing catches: two pools on one device, or metadata that
\* cannot be migrated, when the loop comes to it.
StartFails ==
  /\ CASE pc = "check"  -> ~DistinctDevices
       [] pc = "schema" -> \E v \in todo : ~Migratable(new[v])
       [] OTHER         -> FALSE
  /\ Exit /\ UNCHANGED kills

\* A kill, or a termination.
Kill == pc # "down" /\ kills < MaxKills /\ kills' = kills + 1 /\ Exit

\* The files are where one version of the driver or another kept them.
Placed(moved) ==
  /\ old = [f \in File |-> IF f \in moved THEN Absent ELSE first[f]]
  /\ new = [f \in File |-> IF f \in moved THEN first[f] ELSE Absent]
  /\ rest \cap moved = {}

StartupInit ==
  /\ pc = "down" /\ todo = {} /\ moving = NotMoving /\ kills = 0
  /\ cow = [p \in Pool |-> FALSE]
  /\ image \in SUBSET Volume /\ rest \in SUBSET Volume
  /\ first \in {[f \in File |-> IF f = Tasks THEN saved ELSE data[f]] : saved \in {Absent, "saved"},
        data \in {d \in [Volume -> UNION {FirstData[v] : v \in Volume}] : \A v \in Volume : d[v] \in FirstData[v]}}
  /\ \E moved \in SUBSET File : Placed(moved)

StartupStep ==
  \/ gc_all_volumes \/ InitTaskManager \/ CheckDirectories
  \/ \E f \in File : MoveFile(f) \/ MoveRest(f)
  \/ ListVolumes \/ \E v \in Volume : migrate_metadata(v)
  \/ migrate_tasks_file_path \/ is_cow_supported \/ StartServers \/ StartFails

-----------------------------------------------------------------------------
(* Properties *)

\* What the migrations are to make of d, independently of their order.
Migrated(d, exists) ==
  LET before(n) == d.schema_version < n IN
  [schema_version   |-> LATEST_SCHEMA_VERSION,
   volume_id        |-> d.volume_id,
   fs_type          |-> IF before(2) /\ d.fs_type = Absent THEN "ext4" ELSE d.fs_type,
   deleted_at       |-> d.deleted_at,
   gc_at            |-> IF before(3) /\ d.deleted_at # Absent THEN d.deleted_at + 7 ELSE d.gc_at,
   thin_provision   |-> IF before(4) THEN TRUE ELSE d.thin_provision,
   ready            |-> IF before(5) THEN TRUE ELSE d.ready,
   storage_pool     |-> IF before(6) THEN DefaultPool ELSE d.storage_pool,
   reflink_attached |-> IF before(7) THEN Absent ELSE d.reflink_attached,
   img_file         |-> IF before(8) /\ d.img_file = "data" /\ exists THEN "pool" ELSE d.img_file]

\* The plugin serves only when every volume could be migrated and has its metadata
\* in the metadata directory, migrated exactly once whatever the number of
\* interrupted starts, and when the saved tasks are still there.
ServesMigrated ==
  pc = "serving" =>
    /\ \A f \in File : old[f] = Absent
    /\ \A v \in Volume : Migratable(first[v]) /\ new[v] = Migrated(first[v], v \in image)
    /\ first[Tasks] = "saved" => new[Tasks] = "saved"

\* At any time each file has a whole copy in one of the two places.
NeverWithoutCopy ==
  \A f \in File :
    \/ old[f] = first[f]
    \/ new[f] = first[f]
    \/ f \in Volume /\ new[f] = Migrated(first[f], f \in image)

\* The start succeeds at last, after any number of kills, with two exceptions: when
\* a kill fell into the copy of a disk.meta, which no later start can read, and when
\* one volume cannot be migrated; with that the plugin never serves.
StartsUnlessTorn ==
  IF \A v \in Volume : Migratable(first[v])
  THEN <>[](pc = "serving" \/ \E v \in Volume : new[v] = Torn)
  ELSE [](pc # "serving")

=============================================================================

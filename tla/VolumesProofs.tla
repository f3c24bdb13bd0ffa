--------------------------- MODULE VolumesProofs ---------------------------
(***************************************************************************)
(* Theorems about Volumes.  Two inductive invariants carry them.  FreeInv  *)
(* holds however the CO behaves: types, control flow, the lock, the tasks, *)
(* disk.meta, and the snapshots of clones.  OrderlyInv needs a CO that has *)
(* one call in flight, follows the volume's life, and deletes no volume    *)
(* whose creation is still a task; it relates the CO's view, disk.meta,    *)
(* the image and what each thread is about to write.  Tasks for any number *)
(* of snapshots and clones may run beside a deletion, on any number of     *)
(* pool threads, and any operation may be refused or the process killed.   *)
(***************************************************************************)
EXTENDS Volumes, TLAPS

-----------------------------------------------------------------------------
(* Threads *)

\* Steps inside the lock, steps that a with-block starts with, and steps that
\* follow one.
Inside ==
  {"c_check", "c_dirs", "c_touch", "c_alloc", "d_patch", "g_read", "n_mark", "n_copy", "n_fill",
   "n_done", "u_img", "u_mark", "e_check", "e_alloc", "s_attach", "t_detach", "r_meta", "unlock"}
Bodies ==
  {"c_check", "d_patch", "g_read", "n_mark", "u_img", "e_check", "s_attach", "t_detach", "r_meta"}
Afters == {"gc", "x_list", "done", "failed", "r_list", "k_restore", "k_finally"}
Steps ==
  {"idle", "open", "flock", "clear", "read", "write", "c_data", "c_meta", "d_check",
   "x_img", "x_temp", "x_snaps", "x_meta", "x_mdir", "x_data", "k_check", "t_check", "r_poll"}
  \cup Inside \cup Afters
Patches == {"unready", "described", "ready", "deleted", "resized"}
Calls  == {"create", "delete", "stage", "unstage", "expand", "snapshot", "unsnap"}
Jobs   == {"volume_task", "snapshot_task", "clone_task"}

Meta == [there : BOOLEAN, full : BOOLEAN, ready : BOOLEAN, deleted : BOOLEAN,
         size : {0, Size, NewSize}]

\* The types of TypeOK, and those of the threads.
DiskTypes ==
  /\ \A d \in dirs : d \in {"data", "meta", "snapshots", "temp"}
  /\ meta \in Meta
  /\ img \in {Absent, 0, Size, NewSize}
  /\ \A f \in files : f \in (Snap \cup Clone) \X {"img", "creating"}
  /\ \A s \in whole : s \in Snap \cup Clone

LockTypes ==
  /\ path \in File \cup {NoFile}
  /\ fd \in [Thread -> File \cup {NoFile}]
  /\ lk \in [Thread -> {"out", "opened", "in", "clearing"}]

CallTypes ==
  /\ loop \in BOOLEAN /\ \A k \in tasks : k \in Task
  /\ restored \in [Clone -> {"no", "all", "part"}]
  /\ co \in {"none", "made", "staged", "deleting", "gone"}

ThreadTypes ==
  /\ pc \in [Thread -> Steps] /\ op \in [Thread -> Calls \cup Jobs \cup {"none"}]
  /\ arg \in [Thread -> Task \cup {"none"}]
  /\ body \in [Thread -> Bodies \cup {"none"}] /\ after \in [Thread -> Afters \cup {"none"}]
  /\ patch \in [Thread -> Patches \cup {"none"}] /\ seen \in [Thread -> Meta]
  /\ found \in [Thread -> SUBSET {"snapshots", "temp"}]

Active(t) == pc[t] # "idle"

\* The operation that a step is one of.
Fits(p, o) ==
  /\ p \in {"c_data", "c_meta", "c_check", "c_dirs", "c_touch", "c_alloc"} => o = "volume_task"
  /\ p \in {"d_check", "d_patch"} => o = "delete"
  /\ p \in {"gc", "g_read", "x_list", "x_img", "x_temp", "x_snaps", "x_meta", "x_mdir", "x_data"}
       => o \in {"delete", "unsnap"}
  /\ p \in {"n_mark", "n_copy", "n_fill", "n_done"} => o \in {"snapshot_task", "clone_task"}
  /\ p \in {"u_img", "u_mark"} => o \in {"unsnap", "clone_task"}
  /\ p \in {"k_check", "k_restore", "k_finally"} => o = "clone_task"
  /\ p \in {"e_check", "e_alloc"} => o = "expand"
  /\ p = "s_attach" => o = "stage"
  /\ p \in {"t_check", "t_detach"} => o = "unstage"
  /\ p \in {"r_meta", "r_list"} => o = "snapshot"
  /\ p = "r_poll" => o = "create"

FitsPatch(p, o) ==
  /\ p \in {"unready", "described", "ready"} <=> o = "volume_task"
  /\ p = "deleted" <=> o = "delete"
  /\ p = "resized" <=> o = "expand"
  /\ p \in Patches

InLock(t) ==
  pc[t] \in Inside \/ (pc[t] \in {"read", "write"} /\ patch[t] # "unready")

\* Control: each thread is at a step of its operation, and has the lock
\* exactly at the steps of a with-block.
Control(t) ==
  /\ Fits(pc[t], op[t])
  /\ pc[t] \in {"read", "write"} => FitsPatch(patch[t], op[t])
  /\ pc[t] \in Inside \cup {"open", "flock", "clear", "read", "write", "c_data", "c_meta"}
       => /\ body[t] \in Bodies /\ Fits(body[t], op[t])
          /\ after[t] \in Afters /\ Fits(after[t], op[t])
  /\ pc[t] \in (Inside \cup {"open", "flock", "read", "write", "c_data", "c_meta"}) \ {"unlock"}
       => after[t] # "x_list" /\ (op[t] = "delete" => after[t] # "failed")
  /\ Active(t) => op[t] # "none"
  /\ op[t] = "volume_task" => arg[t] = "volume"
  /\ op[t] = "clone_task" => arg[t] \in Clone
  /\ op[t] \in {"snapshot_task", "snapshot", "unsnap"} => arg[t] \in Snap
ControlInv == \A t \in Thread : Control(t)

Lock(t) ==
  /\ lk[t] \in {"opened", "in"} <=> fd[t] # NoFile
  /\ lk[t] = IF pc[t] = "flock" THEN "opened" ELSE IF pc[t] = "clear" THEN "clearing"
             ELSE IF InLock(t) THEN "in" ELSE "out"
LockInv == \A t \in Thread : Lock(t)

-----------------------------------------------------------------------------
(* Calls and tasks *)

\* A task is run by one thread; what a call stands for in the CO's view.
TaskInv ==
  /\ \A t \in Worker : Active(t) => op[t] \in Jobs /\ arg[t] \in tasks
  /\ \A t, u \in Worker : Active(t) /\ Active(u) /\ arg[t] = arg[u] => t = u
  /\ \A t \in Rpc : Active(t) => op[t] \in Calls

CallInv ==
  /\ \A t, u \in Rpc : Active(t) /\ Active(u) => t = u
  /\ \A t \in Rpc : Active(t) =>
       /\ op[t] = "create" => co = "none"
       /\ op[t] \in {"stage", "expand", "snapshot"} => co \in {"made", "staged"}
       /\ op[t] = "unstage" => co \in {"made", "staged", "deleting"}
       /\ op[t] = "delete" => co = "deleting"
  /\ co \in {"deleting", "gone"} => "volume" \notin tasks

-----------------------------------------------------------------------------
(* meta and the image *)

\* The volume is there to be used: described, not deleted, with its image.
Kept == meta.there /\ meta.full /\ ~meta.deleted /\ img >= Size

\* Create volume makes the image.
Making(t) ==
  \/ pc[t] \in {"c_dirs", "c_touch", "c_alloc"}
  \/ pc[t] \in {"read", "write"} /\ patch[t] \in {"described", "ready"}

\* A call that goes on to destroy_volume.
Doomed(t) ==
  \/ pc[t] \in {"x_list", "x_img", "x_temp", "x_snaps", "x_meta"}
  \/ pc[t] \in {"unlock", "clear"} /\ after[t] = "x_list"
  \/ /\ op[t] = "delete"
     /\ \/ pc[t] \in {"gc", "g_read"}
        \/ pc[t] \in {"open", "flock"} /\ body[t] = "g_read"
        \/ pc[t] \in {"unlock", "clear"} /\ after[t] = "gc"

MetaInv ==
  /\ meta.there \/ meta = NoMeta
  /\ meta.there => "meta" \in dirs
  /\ meta.full => meta.there

SeenInv ==
  /\ meta.full => meta.size >= Size
  /\ \A t \in Thread : pc[t] = "write" =>
       /\ meta.full => seen[t].full
       /\ seen[t].full => seen[t].size >= Size
       /\ patch[t] \in {"deleted", "resized"} => seen[t].full
       /\ patch[t] # "deleted" => ~seen[t].deleted

Leaving(t) ==
  \/ pc[t] \in {"open", "flock"} /\ body[t] = "d_patch"
  \/ pc[t] = "d_patch"
  \/ pc[t] \in {"read", "write"} /\ patch[t] = "deleted"

DeletedInv ==
  /\ meta.deleted => co \in {"deleting", "gone"} /\ ~meta.ready /\ ~loop /\ meta.full
  /\ \A t \in Thread :
       /\ Doomed(t) => meta.deleted
       /\ Leaving(t) => ~loop /\ Described

KeptInv ==
  /\ co \in {"made", "staged"} => Kept
  /\ \A t \in Thread : op[t] = "create" /\ pc[t] = "done" => Kept

MakingInv ==
  \A t \in Thread :
    /\ Making(t) =>
         /\ co = "none" /\ ~meta.ready
         /\ \A u \in Rpc : ~(op[u] = "create" /\ pc[u] = "done")
    /\ pc[t] \in {"c_touch", "c_alloc"} => meta.full /\ meta.size = Size
    /\ pc[t] \in {"read", "write"} /\ patch[t] = "ready" => meta.full /\ meta.size = Size
    /\ pc[t] \in {"read", "write"} =>
         /\ patch[t] = "ready" => img >= Size
         /\ patch[t] = "resized" => img = NewSize
    /\ pc[t] = "write" /\ patch[t] = "ready" => seen[t].size = Size /\ seen[t].full
    /\ pc[t] = "write" /\ patch[t] = "described" => ~seen[t].ready

-----------------------------------------------------------------------------
(* Snapshots *)

NoneListed(S) == \A s \in S : ~Listed(s)

\* What destroy_volume has found and removed so far: the image goes first, and without
\* it no other snapshot is made.
DestroyInv ==
  \A t \in Thread :
    /\ pc[t] = "x_temp" => "temp" \notin found[t] /\ img = Absent
    /\ pc[t] = "x_snaps" => found[t] = {} /\ img = Absent /\ NoneListed(Clone)
    /\ pc[t] = "x_meta" /\ found[t] = {} => img = Absent /\ NoneListed(Snap \cup Clone)

OrphanInv ==
  /\ NoOrphanSnapshot
  /\ img # Absent => meta.there
  /\ \A s \in Snap \cup Clone : Listed(s) => Kind(s) \in dirs

CloneInv ==
  /\ CloneIsWhole
  /\ \A c \in Clone : ShownReady(c) => c \in whole
  /\ \A t \in Worker : op[t] = "clone_task" =>
       /\ pc[t] \in {"n_copy", "n_fill"} => Creating(arg[t]) \in files
       /\ pc[t] = "n_done" => (Listed(arg[t]) => arg[t] \in whole)
       /\ pc[t] = "u_mark" => ~Listed(arg[t])

-----------------------------------------------------------------------------
(* Where a step leads *)

\* A thread goes to one of the steps S, enters a with-block, leaves it, or
\* starts to patch disk.meta.
Goes(t, S) ==
  pc'[t] \in S /\ body'[t] = body[t] /\ after'[t] = after[t] /\ patch'[t] = patch[t]
Enters(t, b, a) ==
  pc'[t] = "open" /\ body'[t] = b /\ after'[t] = a /\ patch'[t] = patch[t]
Leaves(t, A) ==
  pc'[t] = "unlock" /\ body'[t] = body[t] /\ after'[t] \in A /\ patch'[t] = patch[t]
Starts(t, p) ==
  pc'[t] = "read" /\ body'[t] = body[t] /\ after'[t] = after[t] /\ patch'[t] = p

LockFlow(t) ==
  \/ pc[t] = "open"   /\ Goes(t, {"flock", Handler(t)})
  \/ pc[t] = "flock"  /\ Goes(t, {body[t], Handler(t)})
  \/ pc[t] = "unlock" /\ Goes(t, {"clear", after[t]})
  \/ pc[t] = "clear"  /\ Goes(t, {after[t]})

MetaFlow(t) ==
  \/ pc[t] = "read" /\ Goes(t, {"write"})
  \/ pc[t] = "write" /\ patch[t] = "unready" /\ Goes(t, {Handler(t)})
  \/ pc[t] = "write" /\ patch[t] # "unready" /\ Leaves(t, {Handler(t)})
  \/ /\ pc[t] = "write" /\ body'[t] = body[t] /\ after'[t] = after[t] /\ patch'[t] = "none"
     /\ \/ patch[t] = "unready" /\ pc'[t] = "open"
        \/ patch[t] = "described" /\ pc'[t] = "c_touch"
        \/ patch[t] \notin {"unready", "described"} /\ pc'[t] = "unlock"

CreateFlow(t) ==
  \/ pc[t] = "c_data"  /\ Goes(t, {"c_meta"})
  \/ pc[t] = "c_meta"  /\ Starts(t, "unready")
  \/ pc[t] = "c_check" /\ Goes(t, {"unlock", "c_dirs"})
  \/ pc[t] = "c_dirs"  /\ Starts(t, "described")
  \/ pc[t] = "c_touch" /\ Goes(t, {"c_alloc"})
  \/ pc[t] = "c_alloc" /\ Starts(t, "ready")

DeleteFlow(t) ==
  \/ pc[t] = "d_check" /\ (Goes(t, {"done", Handler(t)}) \/ Enters(t, "d_patch", "gc"))
  \/ pc[t] = "d_patch" /\ Starts(t, "deleted")
  \/ pc[t] = "gc"      /\ Enters(t, "g_read", "done")
  \/ pc[t] = "g_read"  /\ Leaves(t, {"x_list", "done"})

DestroyFlow(t) ==
  \/ pc[t] = "x_list"  /\ Goes(t, {"x_img", Handler(t)})
  \/ pc[t] = "x_img"   /\ Goes(t, {"x_meta", "x_temp", Handler(t)})
  \/ pc[t] = "x_temp"  /\ Goes(t, {"x_meta", "x_snaps", Handler(t)})
  \/ pc[t] = "x_snaps" /\ Goes(t, {"x_meta", Handler(t)})
  \/ pc[t] = "x_meta"  /\ Goes(t, {"x_mdir", "done"})
  \/ pc[t] = "x_mdir"  /\ Goes(t, {"x_data", Handler(t)})
  \/ pc[t] = "x_data"  /\ Goes(t, {"done", Handler(t)})

SnapshotFlow(t) ==
  \/ pc[t] = "n_mark" /\ Goes(t, {"n_copy"})
  \/ pc[t] = "n_copy" /\ Goes(t, {"n_fill"})
  \/ pc[t] = "n_fill" /\ Goes(t, {"n_done"})
  \/ pc[t] = "u_img"  /\ Goes(t, {"u_mark"})
  \/ pc[t] \in {"n_done", "u_mark"} /\ Goes(t, {"unlock"})
  \/ pc[t] = "k_check" /\ (Goes(t, {"k_restore", Handler(t)}) \/ Enters(t, "n_mark", "k_restore"))
  \/ pc[t] = "k_restore" /\ (Goes(t, {Handler(t)}) \/ Enters(t, "u_img", "done"))
  \/ pc[t] = "k_finally" /\ Enters(t, "u_img", "failed")

CallFlow(t) ==
  \/ pc[t] = "e_check" /\ Goes(t, {"unlock", "e_alloc"})
  \/ pc[t] = "e_alloc" /\ Starts(t, "resized")
  \/ pc[t] \in {"s_attach", "t_detach", "r_meta"} /\ Goes(t, {"unlock"})
  \/ pc[t] = "t_check" /\ (Goes(t, {"done"}) \/ Enters(t, "t_detach", "done"))
  \/ pc[t] = "r_poll"  /\ Goes(t, {"done", "failed"})
  \/ pc[t] = "r_list"  /\ Goes(t, {"done", Handler(t)})

RaiseFlow(t) ==
  /\ pc[t] \in {"c_touch", "c_alloc", "n_mark", "n_copy", "n_fill", "n_done", "u_img",
                "e_check", "e_alloc", "s_attach", "t_detach", "r_meta"}
  /\ Leaves(t, {Handler(t)})

\* The steps that may follow each step.
Flow(t) ==
  \/ LockFlow(t) \/ MetaFlow(t) \/ CreateFlow(t) \/ DeleteFlow(t) \/ DestroyFlow(t)
  \/ SnapshotFlow(t) \/ CallFlow(t) \/ RaiseFlow(t)

\* A step of t is one of that thread alone.
Only(t) ==
  /\ pc' = [pc EXCEPT ![t] = pc'[t]] /\ body' = [body EXCEPT ![t] = body'[t]]
  /\ after' = [after EXCEPT ![t] = after'[t]] /\ patch' = [patch EXCEPT ![t] = patch'[t]]
  /\ seen' = [seen EXCEPT ![t] = seen'[t]] /\ found' = [found EXCEPT ![t] = found'[t]]
  /\ seen'[t] \in {seen[t], meta, NoMeta}
  /\ found'[t] \in {found[t], {k \in {"snapshots", "temp"} : FoundIn(k)}}
  /\ UNCHANGED <<op, arg>>

\* Which action each step is of, and what the others leave alone.
Action(t) ==
  /\ pc[t] = "open" => LockOpen(t)
  /\ pc[t] = "flock" => LockEnter(t)
  /\ pc[t] \in {"unlock", "clear"} => LockExit(t)
  /\ pc[t] = "read" => ReadMeta(t)
  /\ pc[t] = "write" => WriteMeta(t)
  /\ pc[t] \in {"c_data", "c_meta"} => MakeDirs(t)
  /\ pc[t] = "c_check" => CheckImage(t)
  /\ pc[t] = "c_dirs" => MakeSnapshotDirs(t)
  /\ pc[t] = "c_touch" => TouchImage(t)
  /\ pc[t] = "c_alloc" => Allocate(t)
  /\ pc[t] = "d_check" => DeleteVolume(t)
  /\ pc[t] = "g_read" => CheckDeleted(t)
  /\ pc[t] = "x_list" => ListSnapshots(t)
  /\ pc[t] = "x_img" => RemoveImage(t)
  /\ pc[t] = "x_temp" => RemoveTemp(t)
  /\ pc[t] = "x_snaps" => RemoveSnapshots(t)
  /\ pc[t] = "x_meta" => RemoveMeta(t)
  /\ pc[t] = "x_mdir" => RemoveMetaDir(t)
  /\ pc[t] = "x_data" => RemoveData(t)
  /\ pc[t] = "n_mark" => MarkSnapshot(t)
  /\ pc[t] = "n_copy" => StartCopy(t)
  /\ pc[t] = "n_fill" => FinishCopy(t)
  /\ pc[t] = "n_done" => FinishSnapshot(t)
  /\ pc[t] \in {"u_img", "u_mark"} => DeleteSnapshot(t)
  /\ pc[t] = "k_restore" => Restore(t)
  /\ pc[t] \in {"e_check", "e_alloc"} => ExpandRawFile(t)
  /\ pc[t] = "s_attach" => NodeStageVolume(t)
  /\ pc[t] \in {"t_check", "t_detach"} => NodeUnstageVolume(t)
  /\ pc[t] = "r_poll" => CreateVolume(t)
  /\ pc[t] \in {"r_meta", "r_list"} => CreateSnapshot(t)

Frame(t) ==
  /\ pc[t] \notin {"idle", "done", "failed"} /\ UNCHANGED co
  /\ pc[t] \notin {"open", "flock", "unlock", "clear"} => UNCHANGED <<fd, lk>>
  /\ pc[t] \notin {"open", "flock", "unlock", "clear", "x_meta"} => UNCHANGED path
  /\ pc[t] \notin {"write", "x_meta"} => UNCHANGED meta
  /\ pc[t] \notin {"c_touch", "c_alloc", "x_img", "e_alloc"} => UNCHANGED img
  /\ pc[t] \notin {"c_data", "c_meta", "c_dirs", "x_temp", "x_snaps", "x_mdir", "x_data", "n_mark"}
       => UNCHANGED dirs
  /\ pc[t] \notin {"n_mark", "n_copy", "n_fill", "n_done", "u_img", "u_mark"}
       => UNCHANGED <<files, whole>>
  /\ pc[t] # "k_restore" => UNCHANGED restored
  /\ pc[t] \notin {"s_attach", "t_detach"} => UNCHANGED loop
  /\ pc[t] # "r_list" => UNCHANGED tasks

\* The other steps leave the disk alone: a thread begins, ends, or is as it was.
Same(t) ==
  /\ pc'[t] = pc[t] /\ op'[t] = op[t] /\ arg'[t] = arg[t] /\ body'[t] = body[t]
  /\ after'[t] = after[t] /\ patch'[t] = patch[t] /\ seen'[t] = seen[t] /\ found'[t] = found[t]

Ended(t) ==
  /\ pc'[t] = "idle" /\ op'[t] = "none" /\ arg'[t] = "none" /\ body'[t] = "none"
  /\ after'[t] = "none" /\ patch'[t] = "none" /\ seen'[t] = NoMeta /\ found'[t] = {}

Begins(t, o, a, step, b, l) ==
  /\ pc'[t] = step /\ op'[t] = o /\ arg'[t] = a /\ body'[t] = b /\ after'[t] = l
  /\ patch'[t] = patch[t] /\ seen'[t] = seen[t] /\ found'[t] = found[t]

Called(t) ==
  \/ Begins(t, "create", "none", "failed", "none", "none")
  \/ Begins(t, "create", "none", "r_poll", "none", "none")
  \/ Begins(t, "delete", "none", "d_check", "none", "none")
  \/ Begins(t, "stage", "none", "open", "s_attach", "done")
  \/ Begins(t, "unstage", "none", "t_check", "none", "none")
  \/ Begins(t, "expand", "none", "open", "e_check", "done")
  \/ \E s \in Snap : \/ Begins(t, "snapshot", s, "open", "r_meta", "r_list")
                     \/ Begins(t, "unsnap", s, "open", "u_img", "gc")
Tasked(t) ==
  \/ Begins(t, "volume_task", "volume", "c_data", "c_check", "done")
  \/ \E s \in Snap : Begins(t, "snapshot_task", s, "open", "n_mark", "done")
  \/ \E c \in Clone : Begins(t, "clone_task", c, "k_check", "none", "none")

Calling ==
  /\ UNCHANGED <<disk, restored, loop>>
  /\ \A t \in Thread :
       \/ Same(t) \/ Ended(t)
       \/ pc[t] = "idle" /\ ((t \in Rpc /\ Called(t)) \/ (t \in Worker /\ Tasked(t)))
  /\ \/ Crash
     \/ /\ UNCHANGED lockVars
        /\ \A t \in Thread : Same(t) \/ pc[t] \in {"idle", "done", "failed"}

-----------------------------------------------------------------------------
(* The inductive invariants: without and with an orderly CO *)

FreeInv ==
  /\ DiskTypes /\ LockTypes /\ CallTypes /\ ThreadTypes
  /\ ControlInv /\ LockInv /\ TaskInv /\ MetaInv /\ CloneInv

OrderlyInv ==
  /\ CallInv /\ ReadyHasImage /\ SeenInv /\ DeletedInv
  /\ KeptInv /\ MakingInv /\ DestroyInv /\ OrphanInv

-----------------------------------------------------------------------------
(* Operators *)

\* Threads serve calls or run tasks.
LEMMA ThreadSorts ==
  /\ \A t \in Rpc : t \in Thread /\ t \notin Worker
  /\ \A t \in Worker : t \in Thread
  /\ \A t \in Thread : t \in Rpc \/ t \in Worker
  BY VolumesAssumption, Zenon

\* NoFile is no lock file.
LEMMA NoFileType == \A f \in File : f # NoFile
  BY DEF File, NoFile

\* NoMeta, the sizes in disk.meta, and what patch_metadata makes of it.
LEMMA NoMetaType == NoMeta \in Meta
  BY Zenon DEF NoMeta, Meta

\* Without disk.meta there are no keys.
LEMMA NoMetaFields ==
  ~NoMeta.there /\ ~NoMeta.full /\ ~NoMeta.ready /\ ~NoMeta.deleted
  BY DEF NoMeta

\* A recorded size is none, the first one or the expanded one.
LEMMA MetaSize == \A m \in Meta : m.size \in {0, Size, NewSize}
  BY Zenon DEF Meta

\* What patch_metadata writes is a metadata record.
LEMMA PatchedType ==
  ASSUME NEW m \in Meta, NEW p \in Patches
  PROVE  Patched(m, p) \in Meta
  BY Zenon DEF Patched, Meta, Patches, Size, NewSize

\* The fields that each patch sets, and those that it keeps.
LEMMA PatchedFields ==
  ASSUME NEW m \in Meta, NEW p \in Patches
  PROVE  /\ Patched(m, p).there
         /\ Patched(m, p).full <=> p = "described" \/ m.full
         /\ Patched(m, p).ready <=> p = "ready" \/ (m.ready /\ p \in {"described", "resized"})
         /\ Patched(m, p).deleted <=> p = "deleted" \/ m.deleted
         /\ p \in {"unready", "ready", "deleted"} => Patched(m, p).size = m.size
         /\ p = "described" => Patched(m, p).size = Size
         /\ p = "resized" => Patched(m, p).size = NewSize
<1>1. Patched(m, p).there
  BY Zenon DEF Patched, Meta, Patches
<1>2. Patched(m, p).full <=> p = "described" \/ m.full
  BY Zenon DEF Patched, Meta, Patches
<1>3. Patched(m, p).ready <=> p = "ready" \/ (m.ready /\ p \in {"described", "resized"})
  BY Zenon DEF Patched, Meta, Patches
<1>4. Patched(m, p).deleted <=> p = "deleted" \/ m.deleted
  BY Zenon DEF Patched, Meta, Patches
<1>5. /\ p \in {"unready", "ready", "deleted"} => Patched(m, p).size = m.size
      /\ p = "described" => Patched(m, p).size = Size
      /\ p = "resized" => Patched(m, p).size = NewSize
  BY Zenon DEF Patched, Meta, Patches
<1> QED
  BY <1>1, <1>2, <1>3, <1>4, <1>5, Zenon

\* disk.meta after a write of patch_metadata.
LEMMA WriteFields ==
  ASSUME DiskTypes, ThreadTypes, ControlInv, NEW t \in Thread, At(t, "write"),
         meta' = Patched(seen[t], patch[t])
  PROVE  /\ meta' \in Meta /\ meta'.there
         /\ meta'.full <=> patch[t] = "described" \/ seen[t].full
         /\ meta'.ready <=>
              patch[t] = "ready" \/ (seen[t].ready /\ patch[t] \in {"described", "resized"})
         /\ meta'.deleted <=> patch[t] = "deleted" \/ seen[t].deleted
         /\ patch[t] \in {"unready", "ready", "deleted"} => meta'.size = seen[t].size
         /\ patch[t] = "described" => meta'.size = Size
         /\ patch[t] = "resized" => meta'.size = NewSize
<1>2. seen[t] \in Meta /\ patch[t] \in Patches
  BY Zenon DEF ThreadTypes, ControlInv, Control, FitsPatch, At
<1>3. Patched(seen[t], patch[t]) \in Meta
  BY <1>2, PatchedType, Zenon
<1> QED
  BY <1>2, <1>3, PatchedFields

-----------------------------------------------------------------------------
(* Steps of a thread *)

\* The ways to go on are steps of one thread.
LEMMA Moving ==
  ASSUME ThreadTypes, NEW t \in Thread
  PROVE  /\ \A s : Goto(t, s) => Only(t) /\ Goes(t, {s})
         /\ \A b, a : WithLock(t, b, a) => Only(t) /\ Enters(t, b, a)
         /\ \A a : LeaveLock(t, a) => Only(t) /\ Leaves(t, {a})
         /\ \A p : StartPatch(t, p) => Only(t) /\ Starts(t, p)
<1>1. /\ \A s : [pc EXCEPT ![t] = s][t] = s
      /\ \A b : [body EXCEPT ![t] = b][t] = b
      /\ \A a : [after EXCEPT ![t] = a][t] = a
      /\ \A p : [patch EXCEPT ![t] = p][t] = p
  BY Zenon DEF ThreadTypes
<1>2. /\ pc = [pc EXCEPT ![t] = pc[t]] /\ body = [body EXCEPT ![t] = body[t]]
      /\ after = [after EXCEPT ![t] = after[t]] /\ patch = [patch EXCEPT ![t] = patch[t]]
      /\ seen = [seen EXCEPT ![t] = seen[t]] /\ found = [found EXCEPT ![t] = found[t]]
  BY Zenon DEF ThreadTypes
<1>3. ASSUME NEW s, Goto(t, s)
      PROVE  Only(t) /\ Goes(t, {s})
  BY <1>1, <1>2, <1>3, Zenon DEF Goto, Only, Goes
<1>4. ASSUME NEW b, NEW a, WithLock(t, b, a)
      PROVE  Only(t) /\ Enters(t, b, a)
  BY <1>1, <1>2, <1>4, Zenon DEF WithLock, Only, Enters
<1>5. ASSUME NEW a, LeaveLock(t, a)
      PROVE  Only(t) /\ Leaves(t, {a})
  BY <1>1, <1>2, <1>5, Zenon DEF LeaveLock, Only, Leaves
<1>6. ASSUME NEW p, StartPatch(t, p)
      PROVE  Only(t) /\ Starts(t, p)
  BY <1>1, <1>2, <1>6, Zenon DEF StartPatch, Only, Starts
<1> QED
  BY <1>3, <1>4, <1>5, <1>6, Zenon

\* Every step of a thread is one of its control flow, and of that thread alone.
LEMMA StepFlow ==
  ASSUME ThreadTypes, NEW t \in Thread, Step(t)
  PROVE  Flow(t) /\ Only(t)
<1>1. CASE LockOpen(t) \/ LockEnter(t) \/ LockExit(t)
  BY <1>1, Moving, Zenon DEF LockOpen, LockEnter, LockExit, Raise, At, Goes, LockFlow, Flow
<1>2. CASE ReadMeta(t)
  BY <1>2, Zenon DEF ReadMeta, At, Goes, MetaFlow, Flow, Only, ThreadTypes
<1>3. CASE WriteMeta(t) /\ ReplaceMeta(t)
  BY <1>3, ZenonT(30) DEF WriteMeta, ReplaceMeta, At, MetaFlow, Flow, Only, ThreadTypes
<1>4. CASE WriteMeta(t) /\ RaisePatch(t)
  BY <1>4, Moving, Zenon DEF WriteMeta, RaisePatch, Raise, RaiseInLock, At, MetaFlow, Flow
<1>5. CASE MakeDirs(t) \/ CheckImage(t) \/ MakeSnapshotDirs(t) \/ TouchImage(t) \/ Allocate(t)
  BY <1>5, Moving, Zenon DEF MakeDirs, CheckImage, MakeSnapshotDirs, TouchImage, Allocate,
     Refused, RaiseInLock, At, Goes, CreateFlow, RaiseFlow, Flow
<1>6. CASE DeleteVolume(t) \/ MarkDeleted(t) \/ StartGc(t) \/ CheckDeleted(t)
  BY <1>6, Moving, Zenon DEF DeleteVolume, MarkDeleted, StartGc, CheckDeleted, Raise, At, Goes,
     Leaves, DeleteFlow, Flow
<1>7. CASE ListSnapshots(t) /\ meta.there
  BY <1>7, Zenon DEF ListSnapshots, At, Goes, DestroyFlow, Flow, Only, ThreadTypes
<1>8. CASE (ListSnapshots(t) /\ ~meta.there) \/ RemoveImage(t) \/ RemoveMeta(t)
  BY <1>8, Moving, Zenon DEF ListSnapshots, RemoveImage, RemoveMeta, Raise, At, Goes,
     DestroyFlow, Flow
<1>9. CASE RemoveTemp(t) \/ RemoveSnapshots(t) \/ RemoveMetaDir(t) \/ RemoveData(t)
  BY <1>9, Moving, Zenon DEF RemoveTemp, RemoveSnapshots, RemoveMetaDir, RemoveData, RemoveDir,
     Raise, At, Goes, DestroyFlow, Flow
<1>10. CASE \/ MarkSnapshot(t) \/ StartCopy(t) \/ FinishCopy(t) \/ FinishSnapshot(t)
            \/ DeleteSnapshot(t)
  BY <1>10, Moving, Zenon DEF MarkSnapshot, StartCopy, FinishCopy, FinishSnapshot,
     DeleteSnapshot, Refused, RaiseInLock, At, SnapshotFlow, RaiseFlow, Flow
<1>11. CASE CheckSource(t) \/ Restore(t) \/ CleanUp(t)
  BY <1>11, Moving, Zenon DEF CheckSource, Restore, CleanUp, Raise, At, Goes, SnapshotFlow, Flow
<1>12. CASE ExpandRawFile(t) \/ NodeStageVolume(t) \/ NodeUnstageVolume(t)
  BY <1>12, Moving, Zenon DEF ExpandRawFile, NodeStageVolume, NodeUnstageVolume, Refused,
     RaiseInLock, At, Goes, CallFlow, RaiseFlow, Flow
<1>13. CASE CreateVolume(t) \/ CreateSnapshot(t)
  BY <1>13, Moving, Zenon DEF CreateVolume, CreateSnapshot, Raise, RaiseInLock, At, Goes,
     CallFlow, RaiseFlow, Flow
<1> QED
  BY <1>1, <1>2, <1>3, <1>4, <1>5, <1>6, <1>7, <1>8, <1>9, <1>10, <1>11, <1>12, <1>13, Zenon
     DEF Step, WriteMeta

\* Which steps change what.
LEMMA StepFrame ==
  ASSUME NEW t \in Thread, Step(t)
  PROVE  Action(t) /\ Frame(t)
<1> USE DEF Action, Frame, At, lockVars, disk
<1>1. CASE LockOpen(t) \/ LockEnter(t) \/ LockExit(t)
  BY <1>1, Zenon DEF LockOpen, LockEnter, LockExit, OnlyLock
<1>2. CASE ReadMeta(t) \/ CheckImage(t) \/ DeleteVolume(t) \/ CheckDeleted(t) \/ CreateVolume(t)
            \/ ListSnapshots(t)
  BY <1>2, Zenon DEF ReadMeta, CheckImage, DeleteVolume, CheckDeleted, CreateVolume,
     ListSnapshots, OnlyThread
<1>3. CASE MarkDeleted(t) \/ StartGc(t) \/ CheckSource(t) \/ CleanUp(t)
  BY <1>3, Zenon DEF MarkDeleted, StartGc, CheckSource, CleanUp, OnlyThread
<1>4. CASE WriteMeta(t)
  BY <1>4, Zenon DEF WriteMeta, ReplaceMeta, OnlyDisk, OnlyMeta
<1>5. CASE RemoveMeta(t)
  BY <1>5, Zenon DEF RemoveMeta, OnlyMeta
<1>6. CASE MakeDirs(t) \/ MakeSnapshotDirs(t)
  BY <1>6, Zenon DEF MakeDirs, MakeSnapshotDirs, OnlyDisk, OnlyDirs
<1>7. CASE TouchImage(t) \/ Allocate(t) \/ RemoveImage(t) \/ ExpandRawFile(t)
  BY <1>7, Zenon DEF TouchImage, Allocate, RemoveImage, ExpandRawFile, OnlyDisk, OnlyImage,
     OnlyThread, Refused
<1>8. CASE RemoveTemp(t) \/ RemoveSnapshots(t) \/ RemoveMetaDir(t) \/ RemoveData(t)
  BY <1>8, Zenon DEF RemoveTemp, RemoveSnapshots, RemoveMetaDir, RemoveData, OnlyDisk, OnlyDirs,
     OnlyThread, RemoveDir
<1>9. CASE MarkSnapshot(t) \/ StartCopy(t) \/ FinishCopy(t) \/ FinishSnapshot(t) \/
            DeleteSnapshot(t)
  BY <1>9, Zenon DEF MarkSnapshot, StartCopy, FinishCopy, FinishSnapshot, DeleteSnapshot,
     OnlyDisk, OnlyFiles, NoCopy, Refused
<1>10. CASE Restore(t) \/ NodeStageVolume(t) \/ NodeUnstageVolume(t) \/ CreateSnapshot(t)
  BY <1>10, Zenon DEF Restore, NodeStageVolume, NodeUnstageVolume, CreateSnapshot
<1> HIDE DEF Action, Frame, At, lockVars, disk
<1> QED
  BY <1>1, <1>2, <1>3, <1>4, <1>5, <1>6, <1>7, <1>8, <1>9, <1>10, Zenon DEF Step

\* Where an exception leads.
LEMMA Handlers ==
  ASSUME NEW t \in Thread
  PROVE  /\ Handler(t) \in {"failed", "k_finally"}
         /\ Handler(t) = "k_finally" => op[t] = "clone_task"
  BY Zenon DEF Handler

\* A step goes to a step of the same operation.
LEMMA FlowControl ==
  ASSUME ThreadTypes, NEW t \in Thread, Control(t), Flow(t), Only(t)
  PROVE  Control(t)'
<1> USE Handlers DEF Control, Only, Active, Fits, FitsPatch, Inside, Bodies, Afters, Patches,
        Goes, Enters, Leaves, Starts
<1>1. CASE LockFlow(t)
  BY <1>1 DEF LockFlow
<1>2. CASE MetaFlow(t)
  BY <1>2, ZenonT(30) DEF MetaFlow
<1>3. CASE CreateFlow(t)
  BY <1>3, ZenonT(30) DEF CreateFlow
<1>4. CASE DeleteFlow(t)
  BY <1>4, ZenonT(30) DEF DeleteFlow
<1>5. CASE DestroyFlow(t)
  BY <1>5, ZenonT(30) DEF DestroyFlow
<1>6. CASE SnapshotFlow(t)
  BY <1>6, ZenonT(30) DEF SnapshotFlow
<1>7. CASE CallFlow(t)
  BY <1>7, ZenonT(30) DEF CallFlow
<1>8. CASE RaiseFlow(t)
  BY <1>8, ZenonT(30) DEF RaiseFlow
<1> HIDE DEF Control, Only, Active, Fits, FitsPatch, Goes, Enters, Leaves, Starts
<1> QED
  BY <1>1, <1>2, <1>3, <1>4, <1>5, <1>6, <1>7, <1>8, Zenon DEF Flow

\* A step keeps the types of the threads.
LEMMA FlowTypes ==
  ASSUME DiskTypes, ThreadTypes, NEW t \in Thread, Control(t), Flow(t), Only(t)
  PROVE  ThreadTypes'
<1>1. /\ pc'[t] \in Steps /\ body'[t] \in Bodies \cup {"none"}
      /\ after'[t] \in Afters \cup {"none"} /\ patch'[t] \in Patches \cup {"none"}
  <2> USE Handlers DEF ThreadTypes, Steps, Inside, Bodies, Afters, Patches, Goes, Enters,
          Leaves, Starts
  <2>1. CASE LockFlow(t) \/ MetaFlow(t)
    BY <2>1, ZenonT(30) DEF LockFlow, MetaFlow, Control
  <2>2. CASE CreateFlow(t) \/ DeleteFlow(t) \/ DestroyFlow(t)
    BY <2>2, ZenonT(30) DEF CreateFlow, DeleteFlow, DestroyFlow
  <2>3. CASE SnapshotFlow(t) \/ CallFlow(t) \/ RaiseFlow(t)
    BY <2>3, ZenonT(30) DEF SnapshotFlow, CallFlow, RaiseFlow
  <2> QED
    BY <2>1, <2>2, <2>3, Zenon DEF Flow
<1>2. seen'[t] \in Meta /\ found'[t] \in SUBSET {"snapshots", "temp"}
  BY NoMetaType, ZenonT(30) DEF DiskTypes, ThreadTypes, Only
<1> QED
  BY <1>1, <1>2, ZenonT(30) DEF ThreadTypes, Only

\* What Begin and End set.
LEMMA Beginning ==
  ASSUME ThreadTypes, NEW t \in Thread
  PROVE  /\ \A o, a, step, b, l : Begin(t, o, a, step, b, l) =>
              /\ Begins(t, o, a, step, b, l) /\ \A u \in Thread \ {t} : Same(u)
              /\ /\ o \in Calls \cup Jobs
                 /\ a \in Task \cup {"none"}
                 /\ step \in Steps /\ b \in Bodies \cup {"none"} /\ l \in Afters \cup {"none"}
                 => ThreadTypes'
         /\ End(t) => Ended(t) /\ (\A u \in Thread \ {t} : Same(u)) /\ ThreadTypes'
<1>1. ASSUME NEW o, NEW a, NEW step, NEW b, NEW l, Begin(t, o, a, step, b, l)
      PROVE  Begins(t, o, a, step, b, l) /\ \A u \in Thread \ {t} : Same(u)
  BY <1>1, Zenon DEF ThreadTypes, Begin, Begins, Same
<1>2. ASSUME NEW o \in Calls \cup Jobs,
             NEW a \in Task \cup {"none"},
             NEW step \in Steps, NEW b \in Bodies \cup {"none"}, NEW l \in Afters \cup {"none"},
             Begin(t, o, a, step, b, l)
      PROVE  ThreadTypes'
  BY <1>2, Zenon DEF ThreadTypes, Begin
<1>3. ASSUME End(t)
      PROVE  Ended(t) /\ \A u \in Thread \ {t} : Same(u)
  BY <1>3, Zenon DEF ThreadTypes, End, Ended, Same
<1>4. ASSUME End(t)
      PROVE  ThreadTypes'
  BY <1>4, NoMetaType, Zenon DEF ThreadTypes, End, Steps
<1> QED
  BY <1>1, <1>2, <1>3, <1>4, Zenon

\* A call begins, or the CO asks for a clone, which only adds a task.
LEMMA Asking ==
  ASSUME CallTypes, ThreadTypes, NEW t \in Rpc, Ask(t)
  PROVE  /\ \A u \in Thread \ {t} : Same(u)
         /\ Same(t) \/ (pc[t] = "idle" /\ Called(t))
         /\ ThreadTypes'
<1> USE ThreadSorts
<1>1. CASE \E c \in Clone : AskClone(c)
  BY <1>1, Zenon DEF AskClone, threads, ThreadTypes, Same
<1>2. CASE ~\E c \in Clone : AskClone(c)
  <2>1. pc[t] = "idle" /\ Called(t) /\ \A u \in Thread \ {t} : Same(u)
    BY <1>2, Beginning, Zenon DEF Ask, AskCreate, AskDelete, AskStage, AskUnstage, AskExpand,
       AskSnapshot, AskDeleteSnapshot, BeginLocked, Called, At
  <2>2. ThreadTypes'
    BY <1>2, Beginning DEF Ask, AskCreate, AskDelete, AskStage, AskUnstage, AskExpand,
       AskSnapshot, AskDeleteSnapshot, BeginLocked, CallTypes, Steps, Inside, Bodies, Afters,
       Calls, Task
  <2> QED
    BY <2>1, <2>2, Zenon
<1> QED
  BY <1>1, <1>2, Zenon

\* A pool thread takes up a task.
LEMMA Starting ==
  ASSUME ThreadTypes, NEW t \in Worker, NEW k \in Task, StartTask(t, k)
  PROVE  /\ \A u \in Thread \ {t} : Same(u)
         /\ pc[t] = "idle" /\ Tasked(t) /\ arg'[t] = k
         /\ ThreadTypes'
<1>1. /\ \A u \in Thread \ {t} : Same(u)
      /\ pc[t] = "idle" /\ Tasked(t) /\ arg'[t] = k
  BY ThreadSorts, Beginning DEF StartTask, BeginLocked, Tasked, Begins, At
<1>2. ThreadTypes'
  BY ThreadSorts, Beginning DEF StartTask, BeginLocked, Steps, Inside, Bodies, Afters, Jobs, Task
<1> QED
  BY <1>1, <1>2, Zenon

\* The steps that are not steps of a running thread.
LEMMA CallFrame ==
  ASSUME CallTypes, ThreadTypes, [Next]_vars
  PROVE  (\E t \in Thread : Step(t)) \/ (Calling /\ ThreadTypes')
<1> USE ThreadSorts
<1>1. ASSUME NEW t \in Rpc, Ask(t)
      PROVE  Calling /\ ThreadTypes'
  <2>1. UNCHANGED <<disk, restored, loop, lockVars>>
    BY <1>1, Zenon DEF Ask, AskCreate, AskDelete, AskStage, AskUnstage, AskExpand, AskSnapshot,
       AskDeleteSnapshot, AskClone, Asks
  <2> QED
    BY <1>1, <2>1, Asking, Zenon DEF Calling
<1>2. ASSUME NEW t \in Thread, Answer(t) \/ EndTask(t)
      PROVE  Calling /\ ThreadTypes'
  BY <1>2, Beginning, Zenon DEF Answer, EndTask, Calling
<1>3. ASSUME NEW t \in Worker, NEW k \in Task, StartTask(t, k)
      PROVE  Calling /\ ThreadTypes'
  <2>1. UNCHANGED <<disk, restored, loop, lockVars>>
    BY <1>3, Zenon DEF StartTask, OnlyThread
  <2> QED
    BY <1>3, <2>1, Starting, Zenon DEF Calling
<1>4. CASE Crash
  BY <1>4, NoMetaType, Zenon DEF Crash, Each, ThreadTypes, Calling, Ended, Steps
<1>5. CASE UNCHANGED vars
  BY <1>5, Zenon DEF ThreadTypes, Calling, Same, vars, threads
<1> QED
  BY <1>1, <1>2, <1>3, <1>4, <1>5, Zenon DEF Next

\* The other threads are as they were.
LEMMA Others ==
  ASSUME ThreadTypes, NEW t \in Thread, Only(t)
  PROVE  \A u \in Thread \ {t} : Same(u)
  BY DEF ThreadTypes, Only, Same

-----------------------------------------------------------------------------
(* Any CO: the step lemmas of FreeInv *)

\* Every step goes to a step of the same operation.
LEMMA ControlStep ==
  ASSUME CallTypes, ThreadTypes, ControlInv, [Next]_vars
  PROVE  ControlInv'
<1>1. ASSUME NEW t \in Thread, Same(t)
      PROVE  Control(t)'
  BY <1>1, Zenon DEF ControlInv, Control, Active, Same
<1>2. ASSUME NEW t \in Thread, Ended(t)
      PROVE  Control(t)'
  BY <1>2 DEF Ended, Control, Active, Fits, Inside
<1>3. ASSUME NEW t \in Thread, Called(t)
      PROVE  Control(t)'
  BY <1>3, Zenon DEF Called, Begins, Control, Active, Fits, Inside, Bodies, Afters, CallTypes
<1>4. ASSUME NEW t \in Thread, Tasked(t)
      PROVE  Control(t)'
  BY <1>4, Zenon DEF Tasked, Begins, Control, Active, Fits, Inside, Bodies, Afters
<1>5. ASSUME NEW t \in Thread, Step(t), NEW u \in Thread
      PROVE  Control(u)'
  BY <1>1, <1>5, StepFlow, FlowControl, Others, Zenon DEF ControlInv
<1> QED
  BY <1>1, <1>2, <1>3, <1>4, <1>5, CallFrame, Zenon DEF Calling, ControlInv

\* The threads keep their types,
LEMMA ThreadTypesStep ==
  ASSUME DiskTypes, CallTypes, ThreadTypes, ControlInv, [Next]_vars
  PROVE  ThreadTypes'
  BY StepFlow, FlowTypes, CallFrame, Zenon DEF ControlInv

\* and so does the lock.
LEMMA LockTypesStep ==
  ASSUME LockTypes, CallTypes, ThreadTypes, [Next]_vars
  PROVE  LockTypes'
<1>1. ASSUME NEW t \in Thread, Step(t)
      PROVE  LockTypes'
  <2>1. Action(t) /\ Frame(t)
    BY <1>1, StepFrame, Zenon
  <2>2. CASE pc[t] = "open"
    BY <2>1, <2>2, Zenon DEF Action, LockOpen, Open, lockVars, LockTypes
  <2>3. CASE pc[t] = "flock"
    BY <2>1, <2>3, Zenon DEF Action, LockEnter, Acquire, Busy, LockTypes
  <2>4. CASE pc[t] \in {"unlock", "clear"}
    BY <2>1, <2>4, Zenon DEF Action, LockExit, Release, Clear, LockTypes
  <2>5. CASE pc[t] = "x_meta"
    BY <2>1, <2>5, Zenon DEF Action, RemoveMeta, Frame, LockTypes
  <2> QED
    BY <2>1, <2>2, <2>3, <2>4, <2>5, Zenon DEF Frame, LockTypes
<1>2. CASE Crash
  BY <1>2, Zenon DEF Crash, Each, LockTypes
<1>3. CASE UNCHANGED lockVars
  BY <1>3, Zenon DEF lockVars, LockTypes
<1> QED
  BY <1>1, <1>2, <1>3, CallFrame, Zenon DEF Calling

\* Outside of __enter__ and __exit__ a thread stays inside the lock or outside it.
LEMMA FlowInLock ==
  ASSUME ThreadTypes, NEW t \in Thread, Control(t), Flow(t),
         pc[t] \notin {"open", "flock", "unlock", "clear"}
  PROVE  (InLock(t)' <=> InLock(t)) /\ pc'[t] \notin {"flock", "clear"}
<1> USE Handlers DEF InLock, Inside, Goes, Enters, Leaves, Starts
<1>1. CASE MetaFlow(t)
  BY <1>1, ZenonT(30) DEF MetaFlow
<1>2. CASE CreateFlow(t) \/ DeleteFlow(t)
  BY <1>2, ZenonT(30) DEF CreateFlow, DeleteFlow
<1>3. CASE DestroyFlow(t)
  BY <1>3, ZenonT(30) DEF DestroyFlow
<1>4. CASE SnapshotFlow(t)
  BY <1>4, ZenonT(30) DEF SnapshotFlow
<1>5. CASE CallFlow(t) \/ RaiseFlow(t)
  BY <1>5, ZenonT(30) DEF CallFlow, RaiseFlow
<1> HIDE DEF InLock, Goes, Enters, Leaves, Starts
<1> QED
  BY <1>1, <1>2, <1>3, <1>4, <1>5, Zenon DEF Flow, LockFlow

\* A thread has the lock from __enter__ to __exit__, however it leaves the block.
LEMMA LockStep ==
  ASSUME LockTypes, CallTypes, ThreadTypes, ControlInv, LockInv, [Next]_vars
  PROVE  LockInv'
<1>1. ASSUME NEW t \in Thread, Same(t), lk'[t] = lk[t], fd'[t] = fd[t]
      PROVE  Lock(t)'
  BY <1>1, Zenon DEF LockInv, Lock, InLock, Same
<1>2. ASSUME NEW t \in Thread, Step(t)
      PROVE  LockInv'
  <2>1. Action(t) /\ Frame(t) /\ Flow(t) /\ \A u \in Thread \ {t} : Same(u)
    BY <1>2, StepFrame, StepFlow, Others, Zenon
  <2>2. CASE pc[t] \notin {"open", "flock", "unlock", "clear"}
    <3>1. Lock(t)'
      BY <2>1, <2>2, FlowInLock, Zenon DEF LockInv, Lock, ControlInv, Frame
    <3> QED
      BY <1>1, <2>1, <2>2, <3>1, Zenon DEF LockInv, Frame
  <2>3. CASE pc[t] = "open"
    <3>1. \A u \in Thread \ {t} : lk'[u] = lk[u] /\ fd'[u] = fd[u]
      BY <2>1, <2>3, Zenon DEF Action, LockOpen, Open, lockVars, LockTypes
    <3>2. Lock(t)'
      BY <2>1, <2>3, NoFileType, Handlers DEF Action, LockOpen, Open, Goto, Raise, lockVars,
         LockTypes, ThreadTypes, LockInv, Lock, InLock, Inside
    <3> QED
      BY <1>1, <2>1, <3>1, <3>2, Zenon DEF LockInv
  <2>4. CASE pc[t] = "flock"
    <3>1. \A u \in Thread \ {t} : lk'[u] = lk[u] /\ fd'[u] = fd[u]
      BY <2>1, <2>4, Zenon DEF Action, LockEnter, Acquire, Busy, LockTypes
    <3>2. body[t] \in Bodies
      BY <2>4, Zenon DEF ControlInv, Control
    <3>3. Lock(t)'
      BY <2>1, <2>4, <3>2, Handlers DEF Action, LockEnter, Acquire, Busy, Goto, Raise, LockTypes,
         ThreadTypes, LockInv, Lock, InLock, Inside, Bodies
    <3> QED
      BY <1>1, <2>1, <3>1, <3>3, Zenon DEF LockInv
  <2>5. CASE pc[t] \in {"unlock", "clear"}
    <3>1. \A u \in Thread \ {t} : lk'[u] = lk[u] /\ fd'[u] = fd[u]
      BY <2>1, <2>5, Zenon DEF Action, LockExit, Release, Clear, LockTypes
    <3>2. after[t] \in Afters
      BY <2>5, Zenon DEF ControlInv, Control, Inside
    <3>3. Lock(t)'
      BY <2>1, <2>5, <3>2 DEF Action, LockExit, Release, Clear, Goto, LockTypes, ThreadTypes,
         LockInv, Lock, InLock, Inside, Afters
    <3> QED
      BY <1>1, <2>1, <3>1, <3>3, Zenon DEF LockInv
  <2> QED
    BY <2>2, <2>3, <2>4, <2>5, Zenon
<1>3. CASE Crash
  BY <1>3, Zenon DEF Crash, Each, LockInv, Lock, InLock, Inside
<1>4. CASE Calling /\ ~Crash
  <2>1. ASSUME NEW t \in Thread, ~Same(t)
        PROVE  /\ pc'[t] \notin Inside \cup {"flock", "clear", "read", "write"}
               /\ pc[t] \notin Inside \cup {"flock", "clear", "read", "write"}
    BY <1>4, <2>1, Zenon DEF Calling, Ended, Called, Tasked, Begins, Inside
  <2>2. ASSUME NEW t \in Thread, ~Same(t)
        PROVE  Lock(t)'
    BY <1>4, <2>1, <2>2, Zenon DEF Calling, LockInv, Lock, InLock, lockVars
  <2> QED
    BY <1>1, <1>4, <2>2, Zenon DEF Calling, LockInv, lockVars
<1> QED
  BY <1>2, <1>3, <1>4, CallFrame, Zenon

\* The files keep their types,
LEMMA DiskTypesStep ==
  ASSUME DiskTypes, CallTypes, ThreadTypes, ControlInv, [Next]_vars
  PROVE  DiskTypes'
<1>1. ASSUME NEW t \in Thread, Step(t)
      PROVE  DiskTypes'
  <2>1. Action(t) /\ Frame(t)
    BY <1>1, StepFrame, Zenon
  <2>2. meta' \in Meta
    <3>1. CASE pc[t] = "write"
      BY <2>1, <3>1, WriteFields, Zenon DEF Action, WriteMeta, ReplaceMeta, disk, DiskTypes
    <3>2. CASE pc[t] = "x_meta"
      BY <2>1, <3>2, NoMetaType, Zenon DEF Action, RemoveMeta, disk, DiskTypes
    <3> QED
      BY <2>1, <3>1, <3>2, Zenon DEF Frame, DiskTypes
  <2>3. img' \in {Absent, 0, Size, NewSize}
    <3>1. CASE pc[t] \in {"c_touch", "c_alloc"}
      BY <2>1, <3>1, Zenon DEF Action, TouchImage, Allocate, disk, DiskTypes
    <3>2. CASE pc[t] \in {"x_img", "e_alloc"}
      BY <2>1, <3>2, Zenon DEF Action, RemoveImage, ExpandRawFile, OnlyThread, At, disk,
         DiskTypes
    <3> QED
      BY <2>1, <3>1, <3>2, Zenon DEF Frame, DiskTypes
  <2>4. \A d \in dirs' : d \in {"data", "meta", "snapshots", "temp"}
    <3>1. CASE pc[t] \in {"c_data", "c_meta", "c_dirs", "n_mark"}
      BY <2>1, <3>1, Zenon DEF Action, MakeDirs, MakeSnapshotDirs, MarkSnapshot, Kind, disk,
         DiskTypes
    <3>2. CASE pc[t] \in {"x_temp", "x_snaps", "x_mdir", "x_data"}
      BY <2>1, <3>2, Zenon DEF Action, RemoveTemp, RemoveSnapshots, RemoveMetaDir, RemoveData,
         RemoveDir, OnlyThread, disk, DiskTypes
    <3> QED
      BY <2>1, <3>1, <3>2, Zenon DEF Frame, DiskTypes
  <2>5. /\ \A f \in files' : f \in (Snap \cup Clone) \X {"img", "creating"}
        /\ \A s \in whole' : s \in Snap \cup Clone
    <3>1. CASE pc[t] \in {"n_mark", "n_copy", "n_fill", "n_done"}
      <4>1. arg[t] \in Snap \cup Clone
        BY <3>1, Zenon DEF ControlInv, Control, Fits
      <4>2. /\ Image(arg[t]) \in (Snap \cup Clone) \X {"img", "creating"}
            /\ Creating(arg[t]) \in (Snap \cup Clone) \X {"img", "creating"}
        BY <4>1, Zenon DEF Image, Creating
      <4> QED
        BY <2>1, <3>1, <4>1, <4>2, Zenon DEF Action, MarkSnapshot, StartCopy, FinishCopy,
           FinishSnapshot, NoCopy, disk, DiskTypes
    <3>2. CASE pc[t] \in {"u_img", "u_mark"}
      BY <2>1, <3>2, Zenon DEF Action, DeleteSnapshot, disk, DiskTypes
    <3> QED
      BY <2>1, <3>1, <3>2, Zenon DEF Frame, DiskTypes
  <2> QED
    BY <2>2, <2>3, <2>4, <2>5, Zenon DEF DiskTypes
<1>2. CASE Calling
  BY <1>2, Zenon DEF Calling, disk, DiskTypes
<1> QED
  BY <1>1, <1>2, CallFrame, Zenon

\* and so do the tasks, the clones and what the CO knows.
LEMMA CallTypesStep ==
  ASSUME CallTypes, ThreadTypes, ControlInv, [Next]_vars
  PROVE  CallTypes'
<1>1. ASSUME NEW t \in Thread, Step(t)
      PROVE  CallTypes'
  <2>1. Action(t) /\ Frame(t)
    BY <1>1, StepFrame, Zenon
  <2>2. restored' \in [Clone -> {"no", "all", "part"}]
    BY <2>1, Zenon DEF Action, Restore, RestoreSnapshot, Frame, CallTypes
  <2>3. loop' \in BOOLEAN
    BY <2>1, Zenon DEF Action, NodeStageVolume, NodeUnstageVolume, Frame, CallTypes
  <2>4. \A k \in tasks' : k \in Task
    <3>1. pc[t] = "r_list" => arg[t] \in Task
      BY Zenon DEF ControlInv, Control, Fits, Task
    <3> QED
      BY <2>1, <3>1, Zenon DEF Action, CreateSnapshot, Accept, Frame, CallTypes
  <2> QED
    BY <2>1, <2>2, <2>3, <2>4, Zenon DEF Frame, CallTypes
<1>2. ASSUME NEW t \in Rpc, Ask(t)
      PROVE  CallTypes'
  BY <1>2, Zenon DEF CallTypes, Task, Ask, AskCreate, AskDelete, AskStage, AskUnstage, AskExpand,
     AskSnapshot, AskDeleteSnapshot, AskClone, Accept, Asks
<1>3. ASSUME NEW t \in Rpc, Answer(t)
      PROVE  CallTypes'
  BY <1>3, ThreadSorts, Zenon DEF CallTypes, ControlInv, Control, Answer
<1>4. ASSUME NEW t \in Worker, EndTask(t) \/ \E k \in Task : StartTask(t, k)
      PROVE  CallTypes'
  BY <1>4, Zenon DEF CallTypes, EndTask, StartTask, OnlyThread
<1>5. CASE Crash \/ UNCHANGED vars
  BY <1>5, Zenon DEF CallTypes, Crash, vars
<1> QED
  BY <1>1, <1>2, <1>3, <1>4, <1>5, Zenon DEF Next

\* A task is begun by one pool thread and keeps its name until it ends.
LEMMA TaskStep ==
  ASSUME CallTypes, ThreadTypes, TaskInv, [Next]_vars
  PROVE  TaskInv'
<1> USE ThreadSorts
<1>1. ASSUME NEW t \in Thread, Step(t)
      PROVE  TaskInv'
  <2>1. /\ \A k \in tasks : k \in tasks'
        /\ \A u \in Thread : Active(u)' => Active(u) /\ op'[u] = op[u] /\ arg'[u] = arg[u]
    BY <1>1, StepFrame, StepFlow, Others, ZenonT(30) DEF Action, CreateSnapshot, Accept, Frame,
       Only, Same, Active
  <2> QED
    BY <2>1, Zenon DEF TaskInv
<1>2. ASSUME NEW t \in Rpc, Ask(t)
      PROVE  TaskInv'
  <2>1. \A k \in tasks : k \in tasks'
    BY <1>2, Zenon DEF Ask, AskCreate, AskDelete, AskStage, AskUnstage, AskExpand, AskSnapshot,
       AskDeleteSnapshot, AskClone, Accept
  <2>2. Called(t) => op'[t] \in Calls
    BY Zenon DEF Called, Begins, Calls
  <2> QED
    BY <1>2, <2>1, <2>2, Asking DEF TaskInv, Same, Active
<1>3. ASSUME NEW t \in Rpc, Answer(t)
      PROVE  TaskInv'
  BY <1>3, Beginning, SMTT(30) DEF Answer, TaskInv, Same, Ended, Active
<1>4. ASSUME NEW t \in Worker, EndTask(t)
      PROVE  TaskInv'
  BY <1>4, Beginning, SMTT(30) DEF EndTask, TaskInv, Same, Ended, Active
<1>5. ASSUME NEW t \in Worker, NEW k \in Task, StartTask(t, k)
      PROVE  TaskInv'
  <2>1. k \in tasks /\ (\A w \in Worker : arg[w] # k) /\ tasks' = tasks
    BY <1>5, Zenon DEF StartTask, OnlyThread
  <2>2. Tasked(t) => op'[t] \in Jobs
    BY Zenon DEF Tasked, Begins, Jobs
  <2> QED
    BY <1>5, <2>1, <2>2, Starting DEF TaskInv, Same, Active
<1>6. CASE Crash
  BY <1>6, Zenon DEF Crash, Each, TaskInv, Active
<1>7. CASE UNCHANGED vars
  BY <1>7, Zenon DEF vars, threads, TaskInv, Active
<1> QED
  BY <1>1, <1>2, <1>3, <1>4, <1>5, <1>6, <1>7, Zenon DEF Next

\* disk.meta is in the metadata directory, and empty when it is not there.
LEMMA MetaStep ==
  ASSUME DiskTypes, CallTypes, ThreadTypes, ControlInv, MetaInv, [Next]_vars
  PROVE  MetaInv'
<1>1. ASSUME NEW t \in Thread, Step(t)
      PROVE  MetaInv'
  <2>1. Action(t) /\ Frame(t)
    BY <1>1, StepFrame, Zenon
  <2>2. CASE pc[t] = "write"
    BY <2>1, <2>2, WriteFields, Zenon DEF Action, WriteMeta, ReplaceMeta, Frame, disk, MetaInv
  <2>3. CASE pc[t] = "x_meta"
    BY <2>1, <2>3, NoMetaFields, Zenon DEF Action, RemoveMeta, Frame, disk, MetaInv
  <2>4. CASE pc[t] \notin {"write", "x_meta"}
    <3>1. "meta" \in dirs => "meta" \in dirs' \/ (pc[t] = "x_mdir" /\ ~meta.there)
      <4>1. CASE pc[t] \in {"c_data", "c_meta", "c_dirs", "n_mark"}
        BY <2>1, <4>1, Zenon DEF Action, MakeDirs, MakeSnapshotDirs, MarkSnapshot, disk
      <4>2. CASE pc[t] \in {"x_temp", "x_snaps", "x_mdir", "x_data"}
        BY <2>1, <4>2, Zenon DEF Action, RemoveTemp, RemoveSnapshots, RemoveMetaDir, RemoveData,
           RemoveDir, OnlyThread, disk
      <4> QED
        BY <2>1, <4>1, <4>2, Zenon DEF Frame
    <3> QED
      BY <2>1, <2>4, <3>1, Zenon DEF Frame, MetaInv
  <2> QED
    BY <2>2, <2>3, <2>4, Zenon
<1>2. CASE Calling
  BY <1>2, Zenon DEF Calling, disk, MetaInv
<1> QED
  BY <1>1, <1>2, CallFrame, Zenon

\* The steps that lead to a step.
LEMMA FlowInto ==
  ASSUME ThreadTypes, NEW t \in Thread, Control(t), Flow(t)
  PROVE  /\ pc'[t] = "write" => pc[t] = "read" /\ patch'[t] = patch[t]
         /\ pc'[t] = "n_copy" => pc[t] = "n_mark"
         /\ pc'[t] = "n_fill" => pc[t] = "n_copy"
         /\ pc'[t] = "n_done" => pc[t] = "n_fill"
         /\ pc'[t] = "u_mark" => pc[t] = "u_img"
         /\ pc'[t] = "x_img" => pc[t] = "x_list"
         /\ pc'[t] = "x_temp" => pc[t] = "x_img"
         /\ pc'[t] = "x_snaps" => pc[t] = "x_temp"
         /\ pc'[t] = "x_meta" => pc[t] \in {"x_img", "x_temp", "x_snaps"}
         /\ pc'[t] = "x_mdir" => pc[t] = "x_meta"
         /\ pc'[t] = "x_data" => pc[t] = "x_mdir"
<1> USE Handlers DEF Goes, Enters, Leaves, Starts
<1>1. CASE LockFlow(t)
  BY <1>1, ZenonT(30) DEF LockFlow, Control, Inside, Bodies, Afters
<1>2. CASE MetaFlow(t) \/ CreateFlow(t) \/ DeleteFlow(t)
  BY <1>2, ZenonT(30) DEF MetaFlow, CreateFlow, DeleteFlow
<1>3. CASE DestroyFlow(t)
  BY <1>3, ZenonT(30) DEF DestroyFlow
<1>4. CASE SnapshotFlow(t)
  BY <1>4, ZenonT(30) DEF SnapshotFlow
<1>5. CASE CallFlow(t) \/ RaiseFlow(t)
  BY <1>5, ZenonT(30) DEF CallFlow, RaiseFlow
<1> QED
  BY <1>1, <1>2, <1>3, <1>4, <1>5, Zenon DEF Flow

\* .creating is there from before the copy until after it, for each clone.
LEMMA CloneStep ==
  ASSUME ThreadTypes, ControlInv, CallTypes, TaskInv, CloneInv, [Next]_vars
  PROVE  CloneInv'
<1> USE ThreadSorts
<1>1. ASSUME NEW t \in Thread, MarkSnapshot(t)
      PROVE  CloneInv'
  BY <1>1, SMTT(30) DEF ThreadTypes, CloneInv, CloneIsWhole, ShownReady, Listed, Image,
     Creating, disk, MarkSnapshot, Goto, RaiseInLock, LeaveLock, OnlyDisk
<1>2. ASSUME NEW t \in Thread, StartCopy(t)
      PROVE  CloneInv'
  BY <1>2, VolumesAssumption, SMTT(30) DEF ThreadTypes, ControlInv, Control, Fits, TaskInv, Active,
     CloneInv, CloneIsWhole, ShownReady, Listed, Image, Creating, Calls, At, StartCopy, NoCopy,
     Goto, RaiseInLock, LeaveLock, OnlyDisk
<1>3. ASSUME NEW t \in Thread, FinishCopy(t)
      PROVE  CloneInv'
  BY <1>3, SMTT(30) DEF ThreadTypes, CloneInv, CloneIsWhole, ShownReady, Listed, Image, Creating,
     FinishCopy, NoCopy, Refused, Goto, RaiseInLock, LeaveLock, OnlyDisk
<1>4. ASSUME NEW t \in Thread, FinishSnapshot(t)
      PROVE  CloneInv'
  BY <1>4, VolumesAssumption, SMTT(30) DEF ThreadTypes, ControlInv, Control, Fits, TaskInv, Active,
     CloneInv, CloneIsWhole, ShownReady, Listed, Image, Creating, Calls, At, FinishSnapshot,
     Goto, RaiseInLock, LeaveLock, OnlyDisk
<1>5. ASSUME NEW t \in Thread, DeleteSnapshot(t)
      PROVE  CloneInv'
  BY <1>5, VolumesAssumption DEF ThreadTypes, ControlInv, Control, Fits, TaskInv, Active,
     CloneInv, CloneIsWhole, ShownReady, Listed, Image, Creating, Calls, disk, At,
     DeleteSnapshot, Goto, RaiseInLock, LeaveLock, OnlyDisk
<1>6. ASSUME NEW t \in Thread, Step(t)
      PROVE  CloneInv'
  <2>1. Action(t) /\ Frame(t) /\ Flow(t) /\ \A u \in Thread \ {t} : Same(u)
    BY <1>6, StepFrame, StepFlow, Others, Zenon
  <2>2. CASE pc[t] \in {"n_mark", "n_copy", "n_fill", "n_done", "u_img", "u_mark"}
    BY <1>1, <1>2, <1>3, <1>4, <1>5, <2>1, <2>2, Zenon DEF Action
  <2>3. CASE pc[t] \notin {"n_mark", "n_copy", "n_fill", "n_done", "u_img", "u_mark"}
    <3>1. pc'[t] \notin {"n_copy", "n_fill", "n_done", "u_mark"}
      BY <2>1, <2>3, FlowInto, Zenon DEF ControlInv
    <3>2. CloneIsWhole'
      BY <2>1, Zenon DEF Action, Restore, RestoreSnapshot, Frame, CloneInv, CloneIsWhole,
         CallTypes
    <3> QED
      BY <2>1, <2>3, <3>1, <3>2, Zenon DEF Frame, CloneInv, ShownReady, Listed, Same
  <2> QED
    BY <2>2, <2>3, Zenon
<1>7. CASE Calling
  <2>1. \A t \in Thread : Same(t) \/ pc'[t] \notin {"n_copy", "n_fill", "n_done", "u_mark"}
    BY <1>7, Zenon DEF Calling, Ended, Called, Tasked, Begins
  <2> QED
    BY <1>7, <2>1, Zenon DEF CloneInv, CloneIsWhole, ShownReady, Listed, disk, Calling, Same
<1> QED
  BY <1>6, <1>7, CallFrame, Zenon

\* The start: no files, no calls.
LEMMA FreeInit == Init => FreeInv
<1> SUFFICES ASSUME Init PROVE FreeInv
  OBVIOUS
<1>1. DiskTypes
  BY NoMetaType, Zenon DEF DiskTypes, EmptyDisk, Init, LockInit, Each
<1>2. LockTypes /\ CallTypes
  BY Zenon DEF LockTypes, CallTypes, Init, LockInit, Each
<1>3. ThreadTypes
  BY NoMetaType, Zenon DEF ThreadTypes, Steps, Init, LockInit, Each
<1>4. ControlInv
  BY DEF ControlInv, Control, Active, Fits, Inside, Init, LockInit, Each
<1>5. LockInv
  BY Zenon DEF LockInv, Lock, InLock, Inside, Init, LockInit, Each
<1>6. TaskInv
  BY ThreadSorts, Zenon DEF TaskInv, Active, Init, LockInit, Each
<1>7. MetaInv
  BY Zenon DEF MetaInv, EmptyDisk, NoMeta, Init, LockInit, Each
<1>8. CloneInv
  BY ThreadSorts, Zenon DEF CloneInv, CloneIsWhole, ShownReady, Listed, EmptyDisk, Init,
     LockInit, Each
<1> QED
  BY <1>1, <1>2, <1>3, <1>4, <1>5, <1>6, <1>7, <1>8, Zenon DEF FreeInv, Init, LockInit, Each

\* Every step keeps what needs no assumption on the CO.
LEMMA FreeStep == FreeInv /\ [Next]_vars => FreeInv'
  BY ControlStep, DiskTypesStep, CallTypesStep, LockTypesStep, ThreadTypesStep, LockStep,
     TaskStep, MetaStep, CloneStep, Zenon DEF FreeInv

\* So it holds in every state.
LEMMA FreeAlways == Spec => []FreeInv
  BY FreeInit, FreeStep, PTL DEF Spec

\* The files, the lock, the tasks and the CO's view keep their types, and a
\* thread whose call or task is over has left the lock, whatever is refused,
\* killed or asked for in any order.
THEOREM VolumeTypes == Spec => []TypeOK
<1>1. FreeInv => TypeOK
  <2> SUFFICES ASSUME FreeInv PROVE TypeOK
    OBVIOUS
  <2>1. LockTypeOK
    BY Zenon DEF FreeInv, LockTypes, LockInv, Lock, LockTypeOK
  <2>2. /\ dirs \subseteq {"data", "meta", "snapshots", "temp"}
        /\ files \subseteq (Snap \cup Clone) \X {"img", "creating"}
        /\ whole \subseteq Snap \cup Clone /\ tasks \subseteq Task
    BY Zenon DEF FreeInv, DiskTypes, CallTypes
  <2>3. /\ meta \in Meta /\ (meta.there \/ meta = NoMeta) /\ img \in {Absent, 0, Size, NewSize}
        /\ loop \in BOOLEAN /\ restored \in [Clone -> {"no", "all", "part"}]
        /\ co \in {"none", "made", "staged", "deleting", "gone"}
    BY Zenon DEF FreeInv, DiskTypes, CallTypes, MetaInv
  <2>4. \A t \in Thread : pc[t] \in {"idle", "done", "failed"} => lk[t] = "out"
    BY Zenon DEF FreeInv, LockInv, Lock, InLock, Inside
  <2> QED
    BY <2>1, <2>2, <2>3, <2>4, Zenon DEF TypeOK, Meta
<1> QED
  BY <1>1, FreeAlways, PTL

\* restore_snapshot never fills a clone from part of the data: a retried clone
\* sees .creating until the copy of its temporary snapshot is complete.
THEOREM ClonesAreWhole == Spec => []CloneIsWhole
<1>1. FreeInv => CloneIsWhole
  BY Zenon DEF FreeInv, CloneInv
<1> QED
  BY <1>1, FreeAlways, PTL

-----------------------------------------------------------------------------
(* An orderly CO: the step lemmas of OrderlyInv *)

\* An orderly CO's call fits what it knows of the volume until the call ends.
LEMMA CallStep ==
  ASSUME Orderly, ThreadTypes, CallTypes, ControlInv, TaskInv, CallInv, [Next]_vars
  PROVE  CallInv'
<1> USE ThreadSorts
<1>1. ASSUME NEW t \in Thread, Step(t)
      PROVE  CallInv'
  <2>1. \A u \in Thread : Active(u)' => Active(u) /\ op'[u] = op[u] /\ arg'[u] = arg[u]
    BY <1>1, StepFrame, StepFlow, Others, ZenonT(30) DEF Frame, Only, Same, Active
  <2>2. co' = co /\ (pc[t] # "r_list" => tasks' = tasks)
    BY <1>1, StepFrame, Zenon DEF Frame
  <2>3. pc[t] = "r_list" => co \in {"made", "staged"}
    BY ZenonT(30) DEF ControlInv, Control, Fits, TaskInv, Jobs, CallInv, Active
  <2> QED
    BY <2>1, <2>2, <2>3, Zenon DEF CallInv
<1>2. ASSUME NEW t \in Rpc, Ask(t)
      PROVE  CallInv'
  BY <1>2, VolumesAssumption DEF CallInv, ThreadTypes, Active, At, Ask, AskCreate, AskDelete,
     AskStage, AskUnstage, AskExpand, AskSnapshot, AskDeleteSnapshot, AskClone, MayAsk, Accept,
     BeginLocked, Begin, threads
<1>3. ASSUME NEW t \in Rpc, Answer(t)
      PROVE  CallInv'
  <2>1. \A u \in Rpc \ {t} : ~Active(u)
    BY <1>3, Zenon DEF Answer, CallInv, Active
  <2>2. tasks' = tasks /\ \A u \in Rpc : ~Active(u)'
    BY <1>3, <2>1, Beginning DEF Answer, Same, Ended, Active
  <2>3. co' \in {"deleting", "gone"} => co \in {"deleting", "gone"}
    BY <1>3, SMTT(30) DEF Answer, CallInv, Active, At
  <2> QED
    BY <2>2, <2>3, Zenon DEF CallInv
<1>4. ASSUME NEW t \in Worker, EndTask(t)
      PROVE  CallInv'
  BY <1>4, Beginning, SMTT(30) DEF EndTask, Same, Ended, CallInv, Active
<1>5. ASSUME NEW t \in Worker, NEW k \in Task, StartTask(t, k)
      PROVE  CallInv'
  BY <1>5, Starting DEF StartTask, OnlyThread, Same, CallInv, Active
<1>6. CASE Crash
  BY <1>6, Zenon DEF Crash, Each, CallInv, Active
<1>7. CASE UNCHANGED vars
  BY <1>7, Zenon DEF vars, threads, CallInv, Active
<1> QED
  BY <1>1, <1>2, <1>3, <1>4, <1>5, <1>6, <1>7, Zenon DEF Next


\* The calls come one after the other, and the volume is created before it is deleted.
LEMMA Roles ==
  ASSUME ThreadTypes, CallTypes, ControlInv, TaskInv, CallInv, NEW t \in Thread, Active(t)
  PROVE  /\ op[t] = "delete" => co = "deleting"
         /\ op[t] \in {"stage", "expand"} => co \in {"made", "staged"}
         /\ op[t] = "volume_task" => co \notin {"deleting", "gone"}
         /\ op[t] \in Calls => \A u \in Thread \ {t} : Active(u) => op[u] \in Jobs
         /\ op[t] \in {"delete", "expand", "volume_task"} =>
              \A u \in Thread \ {t} : Active(u) => op[u] # op[t]
<1>1. /\ op[t] \in Calls => t \in Rpc
      /\ op[t] \in Jobs => t \in Worker /\ arg[t] \in tasks
  BY ThreadSorts, Zenon DEF TaskInv, Calls, Jobs
<1>2. /\ op[t] = "delete" => co = "deleting"
      /\ op[t] \in {"stage", "expand"} => co \in {"made", "staged"}
  BY <1>1, Zenon DEF CallInv, Calls
<1>3. op[t] = "volume_task" => co \notin {"deleting", "gone"}
  BY <1>1, Zenon DEF CallInv, ControlInv, Control, Jobs
<1>4. op[t] \in Calls => \A u \in Thread \ {t} : Active(u) => op[u] \in Jobs
  BY <1>1, ThreadSorts, Zenon DEF TaskInv, CallInv
<1>5. op[t] = "volume_task" => \A u \in Thread \ {t} : Active(u) => op[u] # "volume_task"
  BY <1>1, ThreadSorts, Zenon DEF TaskInv, ControlInv, Control, Calls, Jobs
<1> QED
  BY <1>2, <1>3, <1>4, <1>5, Zenon DEF Calls, Jobs

\* How a call comes to destroy the volume, and to mark it as deleted.
LEMMA FlowDoomed ==
  ASSUME ThreadTypes, NEW t \in Thread, Control(t), Flow(t), Only(t)
  PROVE  /\ Doomed(t)' => \/ Doomed(t) /\ pc[t] \notin {"write", "x_meta"}
                          \/ pc[t] = "g_read" /\ after'[t] = "x_list"
                          \/ pc[t] = "write" /\ patch[t] = "deleted" /\ patch'[t] = "none"
         /\ Leaving(t)' => \/ Leaving(t) /\ pc[t] # "write"
                           \/ pc[t] = "d_check" /\ pc'[t] = "open"
<1> USE Handlers DEF Doomed, Leaving, Only, Goes, Enters, Leaves, Starts
<1>1. CASE LockFlow(t)
  BY <1>1, ZenonT(30) DEF LockFlow, Control, Inside, Bodies, Afters
<1>2. CASE MetaFlow(t)
  BY <1>2, ZenonT(30) DEF MetaFlow, Control, Fits, FitsPatch, Inside, Patches
<1>3. CASE CreateFlow(t)
  BY <1>3, ZenonT(30) DEF CreateFlow, Control, Fits, Inside
<1>4. CASE DeleteFlow(t)
  BY <1>4, ZenonT(30) DEF DeleteFlow
<1>5. CASE DestroyFlow(t)
  BY <1>5, ZenonT(30) DEF DestroyFlow
<1>6. CASE SnapshotFlow(t)
  BY <1>6, ZenonT(30) DEF SnapshotFlow, Control, Fits, Inside
<1>7. CASE CallFlow(t)
  BY <1>7, ZenonT(30) DEF CallFlow, Control, Fits, Inside
<1>8. CASE RaiseFlow(t)
  BY <1>8, ZenonT(30) DEF RaiseFlow
<1> HIDE DEF Doomed, Leaving, Only, Goes, Enters, Leaves, Starts
<1> QED
  BY <1>1, <1>2, <1>3, <1>4, <1>5, <1>6, <1>7, <1>8, Zenon DEF Flow

\* How create_volume comes to make the image.
LEMMA FlowMaking ==
  ASSUME ThreadTypes, NEW t \in Thread, Control(t), Flow(t), Only(t)
  PROVE  /\ Making(t)' => Making(t) \/ (pc[t] = "c_check" /\ pc'[t] = "c_dirs")
         /\ pc'[t] = "c_touch" => pc[t] = "write" /\ patch[t] = "described" /\ patch'[t] = "none"
         /\ pc'[t] = "c_alloc" => pc[t] = "c_touch"
         /\ pc'[t] = "read" /\ patch'[t] = "ready" => pc[t] = "c_alloc"
         /\ pc'[t] = "read" /\ patch'[t] = "resized" => pc[t] = "e_alloc"
         /\ pc'[t] = "done" /\ op[t] = "create" => pc[t] = "r_poll"
<1> USE Handlers DEF Making, Only, Goes, Enters, Leaves, Starts
<1>1. CASE LockFlow(t)
  BY <1>1, ZenonT(30) DEF LockFlow, Control, Fits, Inside, Bodies, Afters
<1>2. CASE MetaFlow(t)
  BY <1>2, ZenonT(30) DEF MetaFlow
<1>3. CASE CreateFlow(t)
  BY <1>3, ZenonT(30) DEF CreateFlow
<1>4. CASE DeleteFlow(t)
  BY <1>4, ZenonT(30) DEF DeleteFlow, Control, Fits
<1>5. CASE DestroyFlow(t)
  BY <1>5, ZenonT(30) DEF DestroyFlow, Control, Fits
<1>6. CASE SnapshotFlow(t)
  BY <1>6, ZenonT(30) DEF SnapshotFlow
<1>7. CASE CallFlow(t)
  BY <1>7, ZenonT(30) DEF CallFlow, Control, Fits
<1>8. CASE RaiseFlow(t)
  BY <1>8, ZenonT(30) DEF RaiseFlow
<1> HIDE DEF Making, Only, Goes, Enters, Leaves, Starts
<1> QED
  BY <1>1, <1>2, <1>3, <1>4, <1>5, <1>6, <1>7, <1>8, Zenon DEF Flow

\* The sizes in order.
LEMMA Sizes ==
  /\ \A s \in {0, Size, NewSize} : NewSize >= s
  /\ Size >= Size /\ NewSize >= Size /\ ~(0 >= Size) /\ ~(Absent >= Size)
  /\ \A i \in {Absent, 0, Size, NewSize}, s \in {0, Size, NewSize} :
       i >= s /\ s >= Size => i >= Size
  BY DEF Size, NewSize, Absent

\* patch_metadata writes the patched copy, or nothing, and then it raises.
LEMMA Written ==
  ASSUME DiskTypes, ThreadTypes, ControlInv, NEW t \in Thread, WriteMeta(t)
  PROVE  \/ meta' = meta /\ patch'[t] # "none"
         \/ /\ meta' \in Meta /\ meta'.there
            /\ meta'.full <=> patch[t] = "described" \/ seen[t].full
            /\ meta'.ready <=>
                 patch[t] = "ready" \/ (seen[t].ready /\ patch[t] \in {"described", "resized"})
            /\ meta'.deleted <=> patch[t] = "deleted" \/ seen[t].deleted
            /\ patch[t] \in {"unready", "ready", "deleted"} => meta'.size = seen[t].size
            /\ patch[t] = "described" => meta'.size = Size
            /\ patch[t] = "resized" => meta'.size = NewSize
<1>1. CASE meta' = Patched(seen[t], patch[t])
  BY <1>1, WriteFields, Zenon DEF WriteMeta
<1>2. CASE meta' # Patched(seen[t], patch[t])
  BY <1>2, Zenon DEF WriteMeta, ReplaceMeta, RaisePatch, Raise, RaiseInLock, LeaveLock, Goto,
     disk, ControlInv, Control, FitsPatch, Patches, At
<1> QED
  BY <1>1, <1>2, Zenon

\* ready is written last and taken back first.
LEMMA ReadyStep ==
  ASSUME ThreadTypes, ControlInv, DiskTypes, CallTypes, ReadyHasImage, SeenInv, DeletedInv,
         MakingInv, [Next]_vars
  PROVE  ReadyHasImage'
<1>1. ASSUME NEW t \in Thread, Step(t)
      PROVE  ReadyHasImage'
  <2>1. Action(t) /\ Frame(t)
    BY <1>1, StepFrame, Zenon
  <2>2. CASE pc[t] = "write"
    <3>1. WriteMeta(t) /\ img' = img
      BY <2>1, <2>2, Zenon DEF Action, Frame
    <3>2. CASE patch[t] = "ready"
      BY <2>2, <3>1, <3>2, Written, Sizes, ZenonT(30) DEF MakingInv, ReadyHasImage
    <3>3. CASE patch[t] = "resized"
      BY <2>2, <3>1, <3>3, Written, Sizes, ZenonT(30) DEF MakingInv, SeenInv, ReadyHasImage
    <3> QED
      BY <2>2, <3>1, <3>2, <3>3, Written, Zenon DEF MakingInv, ReadyHasImage
  <2>3. CASE pc[t] = "x_meta"
    BY <2>1, <2>3, NoMetaFields, Zenon DEF Action, Frame, RemoveMeta, ReadyHasImage, disk
  <2>4. CASE pc[t] \in {"c_touch", "c_alloc", "x_img"}
    BY <2>1, <2>4, Zenon DEF Frame, MakingInv, Making, DeletedInv, Doomed, ReadyHasImage
  <2>5. CASE pc[t] = "e_alloc"
    <3>1. img' = NewSize \/ img' = img
      BY <2>1, <2>5, Zenon DEF Action, ExpandRawFile, OnlyThread, At, disk
    <3> QED
      BY <2>1, <2>5, <3>1, MetaSize, Sizes, Zenon DEF Frame, DiskTypes, ReadyHasImage
  <2> QED
    BY <2>1, <2>2, <2>3, <2>4, <2>5, Zenon DEF Frame, ReadyHasImage
<1>2. CASE Calling
  BY <1>2, Zenon DEF Calling, disk, ReadyHasImage
<1> QED
  BY <1>1, <1>2, CallFrame, Zenon

\* No step comes between reading and writing disk.meta that the write would undo.
LEMMA SeenStep ==
  ASSUME ThreadTypes, ControlInv, DiskTypes, CallTypes, TaskInv, CallInv, SeenInv, DeletedInv,
         KeptInv, [Next]_vars
  PROVE  SeenInv'
<1>1. ASSUME NEW t \in Thread, Step(t)
      PROVE  SeenInv'
  <2>1. Action(t) /\ Frame(t) /\ Flow(t) /\ \A u \in Thread \ {t} : Same(u)
    BY <1>1, StepFrame, StepFlow, Others, Zenon
  <2>2. meta'.full => meta'.size >= Size
    <3>1. CASE pc[t] = "write"
      BY <2>1, <3>1, Written, Sizes, Zenon DEF Action, ControlInv, Control, FitsPatch, Patches,
         SeenInv
    <3>2. CASE pc[t] = "x_meta"
      BY <2>1, <3>2, NoMetaFields, Zenon DEF Action, RemoveMeta, SeenInv, disk
    <3> QED
      BY <2>1, <3>1, <3>2, Zenon DEF Frame, SeenInv
  <2>3. ASSUME pc'[t] = "write"
        PROVE  /\ meta'.full => seen'[t].full
               /\ seen'[t].full => seen'[t].size >= Size
               /\ patch'[t] \in {"deleted", "resized"} => seen'[t].full
               /\ patch'[t] # "deleted" => ~seen'[t].deleted
    <3>1. pc[t] = "read" /\ patch'[t] = patch[t] /\ seen'[t] = meta /\ meta' = meta
      BY <2>1, <2>3, FlowInto, Zenon DEF ControlInv, Action, ReadMeta, Frame, ThreadTypes
    <3>2. Active(t) /\ FitsPatch(patch[t], op[t])
      BY <3>1, Zenon DEF Active, ControlInv, Control
    <3>3. patch[t] = "deleted" => meta.full
      BY <3>1, Zenon DEF DeletedInv, Leaving, Described
    <3>4. patch[t] = "resized" => meta.full /\ ~meta.deleted
      BY <3>2, Roles, Zenon DEF FitsPatch, KeptInv, Kept
    <3>5. patch[t] \in {"unready", "described", "ready"} => ~meta.deleted
      BY <3>2, Roles, Zenon DEF FitsPatch, DeletedInv
    <3> QED
      BY <2>2, <3>1, <3>2, <3>3, <3>4, <3>5, Zenon DEF FitsPatch, Patches
  <2>4. ASSUME NEW u \in Thread \ {t}, pc[u] = "write", meta'.full
        PROVE  seen[u].full
    <3>1. Active(t) /\ Active(u) /\ FitsPatch(patch[u], op[u])
      BY <2>1, <2>4, Zenon DEF Frame, Active, ControlInv, Control
    <3>2. CASE pc[t] = "write" /\ patch[u] \in {"unready", "described", "ready"}
      BY <2>4, <3>1, <3>2, Roles, ZenonT(30) DEF ControlInv, Control, FitsPatch, Patches, KeptInv,
         Kept, SeenInv
    <3>3. CASE pc[t] = "x_meta"
      BY <2>1, <2>4, <3>3, NoMetaFields, Zenon DEF Action, RemoveMeta, SeenInv, disk
    <3> QED
      BY <2>1, <2>4, <3>1, <3>2, <3>3, Zenon DEF Frame, FitsPatch, Patches, SeenInv
  <2> QED
    BY <2>1, <2>2, <2>3, <2>4, Zenon DEF SeenInv, Same
<1>2. CASE Calling
  <2>1. \A t \in Thread : Same(t) \/ pc'[t] # "write"
    BY <1>2, Zenon DEF Calling, Ended, Called, Tasked, Begins
  <2> QED
    BY <1>2, <2>1, Zenon DEF Calling, Same, SeenInv, disk
<1> QED
  BY <1>1, <1>2, CallFrame, Zenon

\* Where an operation begins.
LEMMA Begun ==
  ASSUME Calling, NEW t \in Thread
  PROVE  \/ Same(t)
         \/ pc'[t] \in {"idle", "r_poll", "t_check", "c_data", "k_check"}
         \/ pc'[t] = "failed" /\ op'[t] = "create"
         \/ pc'[t] = "d_check" /\ op'[t] = "delete"
         \/ pc'[t] = "open" /\ body'[t] \in {"s_attach", "e_check", "r_meta", "u_img", "n_mark"}
  BY Zenon DEF Calling, Ended, Called, Tasked, Begins

\* Beside a deletion only snapshots and clones are under way; they change neither
\* disk.meta nor the image.
LEMMA Quiet ==
  ASSUME ThreadTypes, ControlInv, CallTypes, TaskInv, CallInv, DeletedInv,
         NEW t \in Thread, Frame(t), NEW u \in Thread \ {t}, Doomed(u) \/ Leaving(u)
  PROVE  UNCHANGED <<meta, img, loop>>
<1>1. Active(t) /\ Active(u)
  BY Zenon DEF Frame, Doomed, Leaving, Active
<1>2. op[u] \in {"delete", "unsnap"}
  BY Zenon DEF Doomed, Leaving, ControlInv, Control, Fits, FitsPatch, Inside
<1>3. co \in {"deleting", "gone"}
  <2>1. CASE Doomed(u)
    BY <2>1, Zenon DEF DeletedInv
  <2>2. CASE Leaving(u)
    BY <1>1, <2>2, Roles, Zenon DEF Leaving, ControlInv, Control, Fits, FitsPatch
  <2> QED
    BY <2>1, <2>2, Zenon
<1>4. op[t] \in {"snapshot_task", "clone_task"}
  BY <1>1, <1>2, <1>3, Roles, Zenon DEF Calls, Jobs
<1>5. pc[t] \notin {"write", "x_meta", "c_touch", "c_alloc", "x_img", "e_alloc", "s_attach",
                   "t_detach"}
  BY <1>4, Zenon DEF ControlInv, Control, Fits, FitsPatch, Patches
<1> QED
  BY <1>5, Zenon DEF Frame

\* Nothing makes a volume that is marked as deleted ready, or attaches it.
LEMMA DeletedStep ==
  ASSUME Orderly, ThreadTypes, ControlInv, DiskTypes, CallTypes, TaskInv, CallInv, MetaInv,
         SeenInv, DeletedInv, KeptInv, [Next]_vars
  PROVE  DeletedInv'
<1>1. ASSUME NEW t \in Thread, Step(t)
      PROVE  DeletedInv'
  <2>1. Action(t) /\ Frame(t) /\ Flow(t) /\ Only(t) /\ \A u \in Thread \ {t} : Same(u)
    BY <1>1, StepFrame, StepFlow, Others, Zenon
  <2>2. Active(t) /\ co' = co
    BY <2>1, Zenon DEF Frame, Active
  <2>3. \A u \in Thread : Leaving(u) => op[u] = "delete" /\ Active(u)
    BY Zenon DEF Leaving, Active, ControlInv, Control, Fits, FitsPatch
  <2>4. meta'.deleted => co \in {"deleting", "gone"} /\ ~meta'.ready /\ ~loop' /\ meta'.full
    <3>1. CASE pc[t] = "write"
      <4>1. WriteMeta(t) /\ loop' = loop /\ FitsPatch(patch[t], op[t])
        BY <2>1, <3>1, Zenon DEF Action, Frame, ControlInv, Control
      <4>2. patch[t] = "deleted" => co = "deleting" /\ ~loop /\ seen[t].full
        BY <2>2, <3>1, <4>1, Roles, Zenon DEF FitsPatch, DeletedInv, Leaving, SeenInv
      <4> QED
        BY <3>1, <4>1, <4>2, Written, Zenon DEF SeenInv, DeletedInv
    <3>2. CASE pc[t] = "x_meta"
      BY <2>1, <3>2, NoMetaFields, Zenon DEF Action, Frame, RemoveMeta, DeletedInv, disk
    <3>3. CASE pc[t] = "s_attach"
      BY <2>1, <2>2, <3>3, Roles, Zenon DEF Frame, ControlInv, Control, Fits, DeletedInv
    <3>4. CASE pc[t] = "t_detach"
      BY <2>1, <3>4, Zenon DEF Action, NodeUnstageVolume, Frame, At, DeletedInv
    <3> QED
      BY <2>1, <3>1, <3>2, <3>3, <3>4, Zenon DEF Frame, DeletedInv
  <2>5. Doomed(t)' => meta'.deleted
    <3>1. CASE pc[t] = "g_read" /\ after'[t] = "x_list"
      BY <2>1, <3>1, Zenon DEF Action, CheckDeleted, LeaveLock, Frame, ThreadTypes
    <3>2. CASE pc[t] = "write" /\ patch[t] = "deleted" /\ patch'[t] = "none"
      BY <2>1, <3>2, Written, Zenon DEF Action
    <3> QED
      BY <2>1, <3>1, <3>2, FlowDoomed, Zenon DEF Frame, DeletedInv, ControlInv
  <2>6. Leaving(t)' => ~loop' /\ Described'
    <3>1. CASE pc[t] = "d_check" /\ pc'[t] = "open"
      BY <2>1, <3>1, Zenon DEF Action, DeleteVolume, WithLock, Raise, Goto, Handler, Frame,
         Described, ThreadTypes
    <3>2. CASE Leaving(t) /\ pc[t] # "write"
      BY <2>1, <3>2, Zenon DEF Frame, Leaving, Described, DeletedInv
    <3> QED
      BY <2>1, <3>1, <3>2, FlowDoomed, Zenon DEF ControlInv
  <2>7. ASSUME NEW u \in Thread \ {t}
        PROVE  /\ Doomed(u)' => meta'.deleted
               /\ Leaving(u)' => ~loop' /\ Described'
    <3>1. (Doomed(u)' => Doomed(u)) /\ (Leaving(u)' => Leaving(u))
      BY <2>1, Zenon DEF Same, Doomed, Leaving
    <3> QED
      BY <2>1, <3>1, Quiet, Zenon DEF DeletedInv, Described
  <2> QED
    BY <2>2, <2>4, <2>5, <2>6, <2>7, Zenon DEF DeletedInv
<1>2. ASSUME Calling, meta.deleted => co' \in {"deleting", "gone"}
      PROVE  DeletedInv'
  <2>1. meta' = meta /\ loop' = loop
    BY <1>2, Zenon DEF Calling, disk
  <2>2. \A t \in Thread : Same(t) \/ ~(Doomed(t)' \/ Leaving(t)')
    BY <1>2, Begun, Zenon DEF Doomed, Leaving
  <2>3. \A t \in Thread : Same(t) => (Doomed(t)' => Doomed(t)) /\ (Leaving(t)' => Leaving(t))
    BY Zenon DEF Same, Doomed, Leaving
  <2> QED
    BY <1>2, <2>1, <2>2, <2>3, Zenon DEF DeletedInv, Described
<1>3. ASSUME NEW t \in Rpc, Ask(t)
      PROVE  meta.deleted => co' \in {"deleting", "gone"}
  BY <1>3, Zenon DEF Ask, AskCreate, AskDelete, AskStage, AskUnstage, AskExpand, AskSnapshot,
     AskDeleteSnapshot, AskClone, MayAsk, DeletedInv
<1>4. ASSUME NEW t \in Rpc, Answer(t)
      PROVE  meta.deleted => co' \in {"deleting", "gone"}
  <2>1. Active(t) /\ op[t] \in Calls
    BY <1>4, Zenon DEF Answer, Active, TaskInv
  <2> QED
    BY <1>4, <2>1, Zenon DEF Answer, DeletedInv, CallInv
<1>5. ASSUME \/ \E t \in Worker : EndTask(t) \/ \E k \in Task : StartTask(t, k)
             \/ Crash \/ UNCHANGED vars
      PROVE  co' = co
  BY <1>5, Zenon DEF EndTask, StartTask, OnlyThread, Crash, vars
<1>6. (\E t \in Thread : Step(t)) \/ (meta.deleted => co' \in {"deleting", "gone"})
  BY <1>3, <1>4, <1>5, Zenon DEF Next, DeletedInv
<1> QED
  BY <1>1, <1>2, <1>6, CallFrame, Zenon

\* Only the mark of a deletion, and what comes after it, takes the volume away.
LEMMA KeptOn ==
  ASSUME ThreadTypes, ControlInv, DiskTypes, SeenInv, DeletedInv, Kept,
         NEW t \in Thread, Action(t), Frame(t)
  PROVE  Kept' \/ (pc[t] = "write" /\ patch[t] = "deleted")
<1>1. CASE pc[t] = "write"
  BY <1>1, Written, Zenon DEF Action, Frame, SeenInv, Kept
<1>2. CASE pc[t] = "c_touch"
  BY <1>2, Sizes, Zenon DEF Action, TouchImage, Frame, Kept, disk
<1>3. CASE pc[t] = "c_alloc"
  <2>1. img' = Size \/ img' = img
    BY <1>3, Zenon DEF Action, Allocate, disk
  <2> QED
    BY <1>3, <2>1, Sizes, Zenon DEF Frame, Kept
<1>4. CASE pc[t] = "e_alloc"
  BY <1>4, Sizes, Zenon DEF Action, ExpandRawFile, OnlyThread, At, Frame, Kept, disk
<1>5. CASE pc[t] \in {"x_meta", "x_img"}
  BY <1>5, Zenon DEF DeletedInv, Doomed, Kept
<1> QED
  BY <1>1, <1>2, <1>3, <1>4, <1>5, Zenon DEF Frame, Kept

\* So it is there as long as the CO takes it for made.
LEMMA KeptStep ==
  ASSUME Orderly, ThreadTypes, ControlInv, DiskTypes, CallTypes, TaskInv, CallInv, MetaInv,
         ReadyHasImage, SeenInv, DeletedInv, KeptInv, [Next]_vars
  PROVE  KeptInv'
<1>1. ASSUME NEW t \in Thread, Step(t)
      PROVE  KeptInv'
  <2>1. Action(t) /\ Frame(t) /\ Flow(t) /\ Only(t) /\ \A u \in Thread \ {t} : Same(u)
    BY <1>1, StepFrame, StepFlow, Others, Zenon
  <2>2. Active(t) /\ co' = co /\ op' = op /\ arg' = arg
    BY <2>1, Zenon DEF Frame, Active, Only
  <2>3. pc[t] = "write" /\ patch[t] = "deleted" =>
          /\ co = "deleting"
          /\ \A u \in Thread \ {t} : Active(u) => op[u] # "create"
    BY <2>2, Roles, Zenon DEF ControlInv, Control, FitsPatch, Calls, Jobs
  <2>4. Kept /\ ~(pc[t] = "write" /\ patch[t] = "deleted") => Kept'
    BY <2>1, KeptOn, Zenon
  <2>5. co' \in {"made", "staged"} => Kept'
    BY <2>2, <2>3, <2>4, Zenon DEF KeptInv
  <2>6. op'[t] = "create" /\ pc'[t] = "done" => Kept'
    <3> SUFFICES ASSUME op[t] = "create", pc'[t] = "done" PROVE Kept'
      BY <2>2, Zenon
    <3>1. pc[t] = "r_poll" /\ UNCHANGED <<meta, img>>
      BY <2>1, FlowMaking, Zenon DEF ControlInv, Frame
    <3>2. meta.ready
      BY <2>1, <3>1, Zenon DEF Action, CreateVolume, Goto, ThreadTypes
    <3>3. meta.full /\ meta.there /\ ~meta.deleted
      BY <3>2, Zenon DEF ReadyHasImage, MetaInv, DeletedInv
    <3>4. img >= Size
      BY <3>2, <3>3, MetaSize, Sizes, Zenon DEF ReadyHasImage, SeenInv, DiskTypes
    <3> QED
      BY <3>1, <3>3, <3>4, Zenon DEF Kept
  <2>7. ASSUME NEW u \in Thread \ {t}
        PROVE  op'[u] = "create" /\ pc'[u] = "done" => Kept'
    BY <2>1, <2>3, <2>4, Zenon DEF KeptInv, Active, Same
  <2> QED
    BY <2>5, <2>6, <2>7, Zenon DEF KeptInv
<1>2. ASSUME Calling, co' \in {"made", "staged"} => Kept
      PROVE  KeptInv'
  <2>1. Kept => Kept'
    BY <1>2, Zenon DEF Calling, Kept, disk
  <2>2. ASSUME NEW t \in Thread
        PROVE  op'[t] = "create" /\ pc'[t] = "done" => Kept
    BY <1>2, Begun, ZenonT(30) DEF Same, KeptInv
  <2> QED
    BY <1>2, <2>1, <2>2, Zenon DEF KeptInv
<1>3. ASSUME NEW t \in Rpc, Ask(t)
      PROVE  co' \in {"made", "staged"} => Kept
  BY <1>3, Zenon DEF Ask, AskCreate, AskDelete, AskStage, AskUnstage, AskExpand, AskSnapshot,
     AskDeleteSnapshot, AskClone, MayAsk, KeptInv
<1>4. ASSUME NEW t \in Rpc, Answer(t)
      PROVE  co' \in {"made", "staged"} => Kept
  BY <1>4, ThreadSorts, Zenon DEF Answer, At, KeptInv
<1>5. ASSUME \/ \E t \in Worker : EndTask(t) \/ \E k \in Task : StartTask(t, k)
             \/ Crash \/ UNCHANGED vars
      PROVE  co' \in {"made", "staged"} => Kept
  BY <1>5, Zenon DEF EndTask, StartTask, OnlyThread, Crash, vars, KeptInv
<1>6. (\E t \in Thread : Step(t)) \/ (co' \in {"made", "staged"} => Kept)
  BY <1>3, <1>4, <1>5, Zenon DEF Next
<1> QED
  BY <1>1, <1>2, <1>6, CallFrame, Zenon

\* While create_volume makes the image, or an expansion is recorded, no other thread
\* changes it.
LEMMA Undisturbed ==
  ASSUME ThreadTypes, ControlInv, CallTypes, TaskInv, CallInv, DeletedInv, MakingInv,
         NEW t \in Thread, Frame(t), NEW u \in Thread \ {t}
  PROVE  /\ Making(u) => UNCHANGED <<meta, img>>
         /\ pc[u] \in {"read", "write"} /\ patch[u] = "resized" => UNCHANGED img
<1>1. Active(t)
  BY Zenon DEF Frame, Active
<1>2. pc[t] \in {"x_meta", "x_img"} => co \in {"deleting", "gone"}
  BY Zenon DEF DeletedInv, Doomed
<1>3. ASSUME Making(u)
      PROVE  UNCHANGED <<meta, img>>
  <2>1. Active(u) /\ op[u] = "volume_task" /\ co = "none"
    BY <1>3, Zenon DEF Making, Active, ControlInv, Control, Fits, FitsPatch, MakingInv
  <2>2. op[t] \notin {"volume_task", "expand", "delete"}
    BY <1>1, <2>1, Roles, Zenon
  <2>3. pc[t] \notin {"write", "c_touch", "c_alloc", "e_alloc"}
    BY <2>2, Zenon DEF ControlInv, Control, Fits, FitsPatch, Patches
  <2> QED
    BY <1>2, <2>1, <2>3, Zenon DEF Frame
<1>4. ASSUME pc[u] \in {"read", "write"}, patch[u] = "resized"
      PROVE  UNCHANGED img
  <2>1. Active(u) /\ op[u] = "expand" /\ co \in {"made", "staged"}
    BY <1>4, Roles, Zenon DEF Active, ControlInv, Control, FitsPatch
  <2>2. pc[t] # "e_alloc"
    BY <1>1, <2>1, Roles, Zenon DEF ControlInv, Control, Fits
  <2>3. pc[t] \notin {"c_touch", "c_alloc"}
    BY <2>1, Zenon DEF MakingInv, Making
  <2> QED
    BY <1>2, <2>1, <2>2, <2>3, Zenon DEF Frame
<1> QED
  BY <1>3, <1>4, Zenon

\* create_volume makes the image only while the CO waits for the volume.
LEMMA MakingStep ==
  ASSUME Orderly, ThreadTypes, ControlInv, DiskTypes, CallTypes, TaskInv, CallInv,
         ReadyHasImage, SeenInv, DeletedInv, KeptInv, MakingInv, [Next]_vars
  PROVE  MakingInv'
<1>1. ASSUME NEW t \in Thread, Step(t)
      PROVE  MakingInv'
  <2>1. Action(t) /\ Frame(t) /\ Flow(t) /\ Only(t) /\ \A u \in Thread \ {t} : Same(u)
    BY <1>1, StepFrame, StepFlow, Others, Zenon
  <2>2. Active(t) /\ co' = co /\ op' = op /\ Control(t)
    BY <2>1, Zenon DEF Frame, Active, Only, ControlInv
  <2>3. ASSUME NEW u \in Thread, Making(u), ~meta'.ready
        PROVE  \A r \in Rpc : ~(op'[r] = "create" /\ pc'[r] = "done")
    <3>1. \A r \in Rpc : ~(op[r] = "create" /\ pc[r] = "done")
      BY <2>3, Zenon DEF MakingInv
    <3>2. ~(op[t] = "create" /\ pc'[t] = "done")
      <4>1. pc[t] = "r_poll" => pc'[t] # "done"
        BY <2>1, <2>3, Zenon DEF Action, CreateVolume, Goto, ThreadTypes, MakingInv
      <4> QED
        BY <2>1, <2>2, <4>1, FlowMaking, Zenon
    <3> QED
      BY <2>1, <2>2, <3>1, <3>2, ThreadSorts, Zenon DEF Same
  <2>4. ASSUME Making(t)'
        PROVE  /\ co = "none" /\ ~meta'.ready
               /\ \A r \in Rpc : ~(op'[r] = "create" /\ pc'[r] = "done")
    <3>1. CASE Making(t)
      <4>1. CASE pc[t] = "write"
        <5>1. patch[t] = "described"
          BY <2>1, <2>2, <2>4, <3>1, <4>1, Handlers, Zenon DEF Making, Flow, MetaFlow,
             LockFlow, CreateFlow, DeleteFlow, DestroyFlow, SnapshotFlow, CallFlow, RaiseFlow,
             Goes, Leaves
        <5>2. ~meta'.ready
          BY <2>1, <3>1, <4>1, <5>1, Written, Zenon DEF Action, MakingInv
        <5> QED
          BY <2>3, <3>1, <5>2, Zenon DEF MakingInv
      <4>2. CASE pc[t] # "write"
        <5>1. ~meta'.ready
          BY <2>1, <3>1, <4>2, Zenon DEF Frame, Making, MakingInv
        <5> QED
          BY <2>3, <3>1, <5>1, Zenon DEF MakingInv
      <4> QED
        BY <4>1, <4>2, Zenon
    <3>2. CASE pc[t] = "c_check" /\ pc'[t] = "c_dirs"
      <4>1. ~(img >= Size) /\ UNCHANGED <<meta, img>>
        BY <2>1, <3>2, Zenon DEF Action, CheckImage, Goto, ThreadTypes, Frame
      <4>2. co = "none"
        BY <2>2, <3>2, <4>1, Roles, Zenon DEF Control, Fits, KeptInv, Kept, CallTypes
      <4>3. ~meta.ready
        BY <4>1, MetaSize, Sizes, Zenon DEF ReadyHasImage, SeenInv, DiskTypes
      <4>4. \A r \in Rpc : r # t => ~(op[r] = "create" /\ pc[r] = "done")
        BY <4>1, ThreadSorts, Zenon DEF KeptInv, Kept
      <4> QED
        BY <2>1, <2>2, <3>2, <4>1, <4>2, <4>3, <4>4, ThreadSorts, Zenon DEF Same
    <3> QED
      BY <2>1, <2>2, <2>4, <3>1, <3>2, FlowMaking, Zenon
  <2>5. pc'[t] \in {"c_touch", "c_alloc"} => meta'.full /\ meta'.size = Size
    <3>1. pc'[t] = "c_touch" => meta'.full /\ meta'.size = Size
      BY <2>1, <2>2, FlowMaking, Written, Zenon DEF Action
    <3>2. pc'[t] = "c_alloc" => meta'.full /\ meta'.size = Size
      BY <2>1, <2>2, FlowMaking, Zenon DEF Frame, MakingInv
    <3> QED
      BY <3>1, <3>2, Zenon
  <2>6. ASSUME pc'[t] \in {"read", "write"}
        PROVE  /\ patch'[t] = "ready" => meta'.full /\ meta'.size = Size /\ img' >= Size
               /\ patch'[t] = "resized" => img' = NewSize
    <3>1. CASE pc'[t] = "write"
      BY <2>1, <2>2, <3>1, FlowInto, Zenon DEF Frame, MakingInv
    <3>2. CASE pc'[t] = "read" /\ patch'[t] = "ready"
      <4>1. pc[t] = "c_alloc" /\ UNCHANGED meta
        BY <2>1, <2>2, <3>2, FlowMaking, Zenon DEF Frame
      <4>2. img' \in {Size, IF img > Size THEN img ELSE Size}
        BY <2>1, <3>2, <4>1, Zenon DEF Action, Allocate, RaiseInLock, LeaveLock, Refused,
           ThreadTypes
      <4>3. img' >= Size
        BY <4>2 DEF DiskTypes, Size, NewSize, Absent
      <4> QED
        BY <3>2, <4>1, <4>3, Zenon DEF MakingInv
    <3>3. CASE pc'[t] = "read" /\ patch'[t] = "resized"
      BY <2>1, <2>2, <3>3, FlowMaking, ZenonT(30) DEF Action, ExpandRawFile, Refused,
         RaiseInLock, LeaveLock, At, ThreadTypes
    <3> QED
      BY <2>6, <3>1, <3>2, <3>3, Zenon
  <2>7. ASSUME pc'[t] = "write"
        PROVE  /\ patch'[t] = "ready" => seen'[t].size = Size /\ seen'[t].full
               /\ patch'[t] = "described" => ~seen'[t].ready
    <3>1. pc[t] = "read" /\ patch'[t] = patch[t] /\ seen'[t] = meta
      BY <2>1, <2>2, <2>7, FlowInto, ZenonT(30) DEF Action, ReadMeta, ThreadTypes
    <3> QED
      BY <3>1, Zenon DEF MakingInv, Making
  <2>8. ASSUME NEW u \in Thread \ {t}
        PROVE  /\ Making(u)' => Making(u) /\ co = "none" /\ ~meta'.ready /\ UNCHANGED <<meta, img>>
               /\ Making(u)' => \A r \in Rpc : ~(op'[r] = "create" /\ pc'[r] = "done")
               /\ pc[u] \in {"read", "write"} /\ patch[u] = "resized" => UNCHANGED img
    <3>1. Making(u)' => Making(u)
      BY <2>1, Zenon DEF Same, Making
    <3>2. /\ Making(u) => UNCHANGED <<meta, img>>
          /\ pc[u] \in {"read", "write"} /\ patch[u] = "resized" => UNCHANGED img
      BY <2>1, Undisturbed, Zenon
    <3> QED
      BY <2>3, <3>1, <3>2, Zenon DEF MakingInv
  <2>9. ASSUME NEW u \in Thread \ {t}
        PROVE  /\ pc'[u] \in {"c_touch", "c_alloc"} => meta'.full /\ meta'.size = Size
               /\ pc'[u] \in {"read", "write"} /\ patch'[u] = "ready" =>
                    meta'.full /\ meta'.size = Size /\ img' >= Size
               /\ pc'[u] \in {"read", "write"} /\ patch'[u] = "resized" => img' = NewSize
               /\ pc'[u] = "write" /\ patch'[u] = "ready" => seen'[u].size = Size /\ seen'[u].full
               /\ pc'[u] = "write" /\ patch'[u] = "described" => ~seen'[u].ready
    <3>1. Same(u)
      BY <2>1, Zenon
    <3> QED
      BY <2>8, <3>1, Zenon DEF Same, MakingInv, Making
  <2> QED
    BY <2>2, <2>4, <2>5, <2>6, <2>7, <2>8, <2>9, ZenonT(30) DEF MakingInv
<1>2. ASSUME Calling, (\E t \in Thread : Making(t)) => co' = co
      PROVE  MakingInv'
  <2>1. UNCHANGED <<meta, img>>
    BY <1>2, Zenon DEF Calling, disk
  <2>2. ASSUME NEW t \in Thread
        PROVE  \/ Same(t)
               \/ ~Making(t)' /\ pc'[t] \notin {"read", "write", "c_touch", "c_alloc", "done"}
    BY <1>2, Begun, Zenon DEF Making
  <2>3. \A t \in Thread : Same(t) => (Making(t)' => Making(t))
    BY Zenon DEF Same, Making
  <2>4. (\E t \in Thread : Making(t)) =>
          \A r \in Rpc : ~(op'[r] = "create" /\ pc'[r] = "done")
    BY <2>2, ThreadSorts, Zenon DEF MakingInv, Same
  <2> QED
    BY <1>2, <2>1, <2>2, <2>3, <2>4, ZenonT(30) DEF MakingInv, Same
<1>3. ASSUME NEW t \in Rpc, Ask(t) \/ Answer(t), NEW u \in Thread, Making(u)
      PROVE  co' = co
  <2>1. co = "none" /\ ~(op[t] = "create" /\ pc[t] = "done")
    BY <1>3, Zenon DEF MakingInv
  <2>2. CASE Ask(t)
    BY <2>1, <2>2, Zenon DEF Ask, AskCreate, AskDelete, AskStage, AskUnstage, AskExpand,
       AskSnapshot, AskDeleteSnapshot, AskClone, MayAsk
  <2>3. CASE Answer(t)
    <3>1. op[t] # "delete"
      BY <2>1, <2>3, Zenon DEF Answer, CallInv, Active
    <3> QED
      BY <2>1, <2>3, <3>1, Zenon DEF Answer, At
  <2> QED
    BY <1>3, <2>2, <2>3, Zenon
<1>4. ASSUME \/ \E t \in Worker : EndTask(t) \/ \E k \in Task : StartTask(t, k)
             \/ Crash \/ UNCHANGED vars
      PROVE  co' = co
  BY <1>4, Zenon DEF EndTask, StartTask, OnlyThread, Crash, vars
<1>5. (\E t \in Thread : Step(t)) \/ ((\E t \in Thread : Making(t)) => co' = co)
  BY <1>3, <1>4, Zenon DEF Next
<1> QED
  BY <1>1, <1>2, <1>5, CallFrame, Zenon

\* Names of images tell snapshots apart.
LEMMA FileNames == \A s, u : Image(s) = Image(u) => s = u
  BY DEF Image

\* The start of a snapshot shows no image.
LEMMA MarkLists ==
  ASSUME NEW t \in Thread, MarkSnapshot(t), NEW s, Listed(s)'
  PROVE  Listed(s)
<1>1. files' = files \/ files' = (files \cup {Creating(arg[t])}) \ {Image(arg[t])}
  BY Zenon DEF MarkSnapshot, disk
<1> QED
  BY <1>1 DEF Listed, Image, Creating

\* Without the image no snapshot of the volume is made.
LEMMA NothingListed ==
  ASSUME NEW t \in Thread, Action(t), Frame(t), img = Absent, NEW s, Listed(s)'
  PROVE  Listed(s)
<1>1. CASE pc[t] = "n_mark"
  BY <1>1, MarkLists, Zenon DEF Action
<1>2. CASE pc[t] \in {"n_copy", "n_fill"}
  BY <1>2, Zenon DEF Action, StartCopy, FinishCopy, NoCopy, Listed
<1>3. CASE pc[t] \in {"n_done", "u_img", "u_mark"}
  BY <1>3, Zenon DEF Action, FinishSnapshot, DeleteSnapshot, Listed, disk
<1> QED
  BY <1>1, <1>2, <1>3, Zenon DEF Frame, Listed

\* A directory that destroy_volume could remove has no snapshots.
LEMMA Emptied ==
  ASSUME OrphanInv, NEW s \in Snap \cup Clone,
         Kind(s) \in dirs => ~FoundIn(Kind(s))
  PROVE  ~Listed(s)
<1>1. Image(s)[1] = s
  BY DEF Image
<1> QED
  BY <1>1, Zenon DEF OrphanInv, Listed, FoundIn

\* The image goes first, so what destroy_volume found to be empty stays empty.
LEMMA DestroyStep ==
  ASSUME ThreadTypes, ControlInv, DiskTypes, CallTypes, TaskInv, CallInv, DeletedInv,
         DestroyInv, OrphanInv, [Next]_vars
  PROVE  DestroyInv'
<1>1. ASSUME NEW t \in Thread, Step(t)
      PROVE  DestroyInv'
  <2>1. Action(t) /\ Frame(t) /\ Flow(t) /\ Control(t) /\ \A u \in Thread \ {t} : Same(u)
    BY <1>1, StepFrame, StepFlow, Others, Zenon DEF ControlInv
  <2>2. img = Absent => \A S : NoneListed(S) => NoneListed(S)'
    BY <2>1, NothingListed, Zenon DEF NoneListed
  <2>3. pc'[t] = "x_temp" => "temp" \notin found'[t] /\ img' = Absent
    BY <2>1, FlowInto, ZenonT(30) DEF Action, RemoveImage, Raise, Goto, Handler, ThreadTypes
  <2>4. ASSUME pc'[t] = "x_snaps"
        PROVE  found'[t] = {} /\ img' = Absent /\ NoneListed(Clone)'
    <3>1. pc[t] = "x_temp" /\ RemoveTemp(t) /\ "temp" \notin found[t] /\ img = Absent
      BY <2>1, <2>4, FlowInto, Zenon DEF Action, DestroyInv
    <3>2. /\ found'[t] = found[t] /\ "snapshots" \notin found[t]
          /\ "temp" \in dirs => ~FoundIn("temp")
      BY <2>4, <3>1, Zenon DEF RemoveTemp, RemoveDir, Raise, Goto, Handler, ThreadTypes
    <3>3. NoneListed(Clone)
      BY <3>2, Emptied, Zenon DEF NoneListed, Kind
    <3>4. found'[t] = {} /\ img' = img
      BY <2>1, <3>1, <3>2, ZenonT(30) DEF Frame, ThreadTypes
    <3> QED
      BY <2>2, <3>1, <3>3, <3>4, Zenon
  <2>5. ASSUME pc'[t] = "x_meta", found'[t] = {}
        PROVE  img' = Absent /\ NoneListed(Snap \cup Clone)'
    <3>1. CASE pc[t] = "x_img"
      BY <2>1, <2>5, <3>1, Zenon DEF Action, RemoveImage, Raise, Goto, Handler, ThreadTypes
    <3>2. CASE pc[t] = "x_temp"
      BY <2>1, <2>5, <3>2, Zenon DEF Action, RemoveTemp, RemoveDir, Raise, Goto, Handler,
         ThreadTypes
    <3>3. CASE pc[t] = "x_snaps"
      <4>1. img = Absent /\ NoneListed(Clone) /\ img' = img
        BY <2>1, <3>3, Zenon DEF DestroyInv, Frame
      <4>2. "snapshots" \in dirs => ~FoundIn("snapshots")
        BY <2>1, <2>5, <3>3, Zenon DEF Action, RemoveSnapshots, RemoveDir, Raise, Goto, Handler,
           ThreadTypes
      <4>3. NoneListed(Snap \cup Clone)
        BY <4>1, <4>2, Emptied, Zenon DEF NoneListed, Kind
      <4> QED
        BY <2>2, <4>1, <4>3, Zenon
    <3> QED
      BY <2>1, <2>5, <3>1, <3>2, <3>3, FlowInto, Zenon
  <2>6. ASSUME NEW u \in Thread \ {t}, pc'[u] \in {"x_temp", "x_snaps", "x_meta"}
        PROVE  pc[u] = pc'[u] /\ found'[u] = found[u] /\ img' = img
    BY <2>1, <2>6, Quiet, ZenonT(30) DEF Same, Doomed
  <2> QED
    BY <2>2, <2>3, <2>4, <2>5, <2>6, ZenonT(30) DEF DestroyInv
<1>2. CASE Calling
  <2>1. UNCHANGED <<img, files>>
    BY <1>2, Zenon DEF Calling, disk
  <2>2. \A t \in Thread : Same(t) \/ pc'[t] \notin {"x_temp", "x_snaps", "x_meta"}
    BY <1>2, Begun, Zenon
  <2>3. \A S : NoneListed(S) => NoneListed(S)'
    BY <2>1, Zenon DEF NoneListed, Listed
  <2> QED
    BY <2>1, <2>2, <2>3, ZenonT(30) DEF DestroyInv, Same
<1> QED
  BY <1>1, <1>2, CallFrame, Zenon

\* A snapshot is copied from an image, which a volume has only while disk.meta is there.
LEMMA OrphanStep ==
  ASSUME ThreadTypes, ControlInv, DiskTypes, CallTypes, TaskInv, CallInv, MetaInv, KeptInv,
         MakingInv, DestroyInv, OrphanInv, [Next]_vars
  PROVE  OrphanInv'
<1>1. ASSUME NEW t \in Thread, Step(t)
      PROVE  OrphanInv'
  <2>1. Action(t) /\ Frame(t)
    BY <1>1, StepFrame, Zenon
  <2>2. \/ meta'.there \/ meta' = meta
        \/ pc[t] = "x_meta" /\ img = Absent /\ NoneListed(Snap \cup Clone)
    BY <2>1, Written, Zenon DEF Action, Frame, RemoveMeta, DestroyInv, disk
  <2>3. img' # Absent => img # Absent \/ meta.there
    <3>1. pc[t] \in {"c_touch", "c_alloc"} => meta.there
      BY Zenon DEF MakingInv, MetaInv
    <3>2. pc[t] = "e_alloc" => meta.there
      BY Roles, Zenon DEF ControlInv, Control, Fits, Active, KeptInv, Kept
    <3>3. pc[t] = "x_img" => img' \in {Absent, img}
      BY <2>1, Zenon DEF Action, RemoveImage, disk
    <3> QED
      BY <2>1, <3>1, <3>2, <3>3, Zenon DEF Frame
  <2>4. img' # Absent => meta'.there
    BY <2>1, <2>2, <2>3, Zenon DEF Frame, OrphanInv
  <2>5. ASSUME NEW s \in Snap \cup Clone, Listed(s)'
        PROVE  meta'.there
    <3>1. Listed(s) \/ img # Absent
      BY <2>1, <2>5, NothingListed, Zenon
    <3> QED
      BY <2>2, <3>1, Zenon DEF OrphanInv, NoOrphanSnapshot, NoneListed
  <2>6. ASSUME NEW s \in Snap \cup Clone, Listed(s)'
        PROVE  Kind(s) \in dirs'
    <3>1. CASE pc[t] \in {"x_temp", "x_snaps", "x_mdir", "x_data"}
      <4>1. Listed(s)
        BY <2>1, <2>6, <3>1, Zenon DEF Frame, Listed
      <4>2. Kind(s) \in dirs /\ FoundIn(Kind(s))
        BY <4>1, Emptied, Zenon DEF OrphanInv
      <4>3. Kind(s) \in {"temp", "snapshots"}
        BY Zenon DEF Kind
      <4>4. CASE Kind(s) = "temp"
        BY <2>1, <3>1, <4>2, <4>4, Zenon DEF Action, RemoveTemp, RemoveSnapshots,
           RemoveMetaDir, RemoveData, RemoveDir, OnlyThread, disk
      <4>5. CASE Kind(s) = "snapshots"
        BY <2>1, <3>1, <4>2, <4>5, Zenon DEF Action, RemoveTemp, RemoveSnapshots,
           RemoveMetaDir, RemoveData, RemoveDir, OnlyThread, disk
      <4> QED
        BY <4>3, <4>4, <4>5, Zenon
    <3>2. CASE pc[t] \notin {"x_temp", "x_snaps", "x_mdir", "x_data"}
      <4>1. \A d \in dirs : d \in dirs'
        BY <2>1, <3>2, Zenon DEF Action, MakeDirs, MakeSnapshotDirs, MarkSnapshot, Frame, disk
      <4>2. Listed(s) => Kind(s) \in dirs
        BY Zenon DEF OrphanInv
      <4>3. Listed(s) \/ (pc[t] = "n_copy" /\ Kind(arg[t]) \in dirs /\ s = arg[t])
        <5>1. CASE pc[t] = "n_mark"
          BY <2>1, <2>6, <5>1, MarkLists, Zenon DEF Action
        <5>2. CASE pc[t] = "n_copy"
          BY <2>1, <2>6, <5>2, FileNames, Zenon DEF Action, StartCopy, NoCopy, Listed, Image
        <5>3. CASE pc[t] \in {"n_fill", "n_done", "u_img", "u_mark"}
          BY <2>1, <2>6, <5>3, Zenon DEF Action, FinishCopy, NoCopy, FinishSnapshot,
             DeleteSnapshot, Listed, disk
        <5> QED
          BY <2>1, <2>6, <5>1, <5>2, <5>3, Zenon DEF Frame, Listed
      <4> QED
        BY <4>1, <4>2, <4>3, Zenon
    <3> QED
      BY <3>1, <3>2, Zenon
  <2> QED
    BY <2>4, <2>5, <2>6, Zenon DEF OrphanInv, NoOrphanSnapshot, Kind
<1>2. CASE Calling
  BY <1>2, Zenon DEF Calling, OrphanInv, NoOrphanSnapshot, Listed, Kind, disk
<1> QED
  BY <1>1, <1>2, CallFrame, Zenon

\* Only destroy_volume removes the image, of a volume that is marked as deleted.
LEMMA ImageStep ==
  ASSUME ThreadTypes, ControlInv, DiskTypes, CallTypes, DeletedInv, [Next]_vars
  PROVE  img # Absent /\ img' = Absent => ~loop
<1>1. ASSUME NEW t \in Thread, Step(t)
      PROVE  img # Absent /\ img' = Absent => ~loop
  <2>1. Action(t) /\ Frame(t)
    BY <1>1, StepFrame, Zenon
  <2>2. CASE pc[t] \in {"c_touch", "c_alloc", "e_alloc"}
    BY <2>1, <2>2 DEF Action, TouchImage, Allocate, ExpandRawFile, OnlyThread, At, Absent, Size,
       NewSize, disk
  <2>3. CASE pc[t] = "x_img"
    BY <2>3, Zenon DEF DeletedInv, Doomed
  <2> QED
    BY <2>1, <2>2, <2>3, Zenon DEF Frame
<1>2. CASE Calling
  BY <1>2, Zenon DEF Calling, disk
<1> QED
  BY <1>1, <1>2, CallFrame, Zenon

\* At the start nothing is on disk, so there is nothing to show.
LEMMA OrderlyInit == Init => OrderlyInv
<1> SUFFICES ASSUME Init PROVE OrderlyInv
  OBVIOUS
<1>1. CallInv
  BY ThreadSorts, Zenon DEF CallInv, Active, Init, LockInit, Each, EmptyDisk, NoMeta, Absent
<1>2. ReadyHasImage /\ SeenInv
  BY ThreadSorts, Zenon DEF ReadyHasImage, SeenInv, Init, LockInit, Each, EmptyDisk, NoMeta,
     Absent
<1>3. DeletedInv
  BY ThreadSorts, Zenon DEF DeletedInv, Doomed, Leaving, Init, LockInit, Each, EmptyDisk,
     NoMeta, Absent
<1>4. KeptInv
  BY ThreadSorts, Zenon DEF KeptInv, Init, LockInit, Each, EmptyDisk, NoMeta, Absent
<1>5. MakingInv
  BY ThreadSorts, Zenon DEF MakingInv, Making, Init, LockInit, Each, EmptyDisk, NoMeta, Absent
<1>6. DestroyInv /\ OrphanInv
  BY ThreadSorts, Zenon DEF DestroyInv, OrphanInv, NoOrphanSnapshot, Listed, Init, LockInit, Each,
     EmptyDisk, NoMeta, Absent
<1> QED
  BY <1>1, <1>2, <1>3, <1>4, <1>5, <1>6, ThreadSorts, Zenon DEF OrderlyInv, Init, LockInit,
     Each, EmptyDisk, NoMeta, Absent

\* Every step keeps it for a CO that has one call in flight.
LEMMA OrderlyStep ==
  ASSUME Orderly
  PROVE  FreeInv /\ OrderlyInv /\ [Next]_vars => OrderlyInv'
<1> SUFFICES ASSUME FreeInv, OrderlyInv, [Next]_vars PROVE OrderlyInv'
  OBVIOUS
<1>2. CallInv'
  BY CallStep, Zenon DEF FreeInv, OrderlyInv
<1>3. ReadyHasImage'
  BY ReadyStep, Zenon DEF FreeInv, OrderlyInv
<1>4. SeenInv'
  BY SeenStep, Zenon DEF FreeInv, OrderlyInv
<1>5. DeletedInv'
  BY DeletedStep, Zenon DEF FreeInv, OrderlyInv
<1>6. KeptInv'
  BY KeptStep, Zenon DEF FreeInv, OrderlyInv
<1>7. MakingInv'
  BY MakingStep, Zenon DEF FreeInv, OrderlyInv
<1>8. DestroyInv' /\ OrphanInv'
  BY DestroyStep, OrphanStep, Zenon DEF FreeInv, OrderlyInv
<1> QED
  BY <1>2, <1>3, <1>4, <1>5, <1>6, <1>7, <1>8, Zenon DEF FreeInv, OrderlyInv

\* So it holds in every state of such a CO.
LEMMA OrderlyAlways ==
  ASSUME Orderly
  PROVE  Spec => [](FreeInv /\ OrderlyInv)
  BY FreeInit, FreeStep, OrderlyInit, OrderlyStep, PTL DEF Spec

\* A volume that says ready is described and has an image of at least its
\* size, after any crash, refusal or retry: create_volume writes ready last and
\* delete_volume takes it back first.
THEOREM ReadyVolumeHasImage ==
  ASSUME Orderly
  PROVE  Spec => []ReadyHasImage
<1>1. OrderlyInv => ReadyHasImage
  BY Zenon DEF OrderlyInv
<1> QED
  BY <1>1, OrderlyAlways, PTL

\* destroy_volume keeps disk.meta as long as there is an image of a snapshot, so
\* each of them can still be deleted: also of one that a task writes while
\* destroy_volume, which holds no lock, is at work.
THEOREM SnapshotsHaveMeta ==
  ASSUME Orderly
  PROVE  Spec => []NoOrphanSnapshot
<1>1. OrderlyInv => NoOrphanSnapshot
  BY Zenon DEF OrderlyInv, OrphanInv
<1> QED
  BY <1>1, OrderlyAlways, PTL

\* delete_volume refuses an attached volume, and the one call at a time leaves no
\* staging between its look at the loop devices and its mark, after which nothing
\* attaches the volume: the image is never removed under a loop device.
THEOREM AttachedImageStays ==
  ASSUME Orderly
  PROVE  Spec => KeepsAttachedImage
<1>1. FreeInv /\ OrderlyInv /\ [Next]_vars => [img # Absent /\ img' = Absent => ~loop]_vars
  BY ImageStep, Zenon DEF FreeInv, OrderlyInv
<1> QED
  BY <1>1, OrderlyAlways, PTL DEF Spec, KeepsAttachedImage

=============================================================================

------------------------------ MODULE Volumes ------------------------------
(***************************************************************************)
(* The life of one volume on its node: volume_manager.py and               *)
(* snapshot_manager.py (rawfile/utils), and the request handlers of        *)
(* bd2fs.py, rawfile_servicer.py and internal_svc.py that work on its      *)
(* files.  Request threads run the CSI calls; pool threads run the tasks   *)
(* that TaskManager accepted: creating the volume, creating a snapshot of  *)
(* it, and creating a clone of it, of which only the work on the source    *)
(* is modelled.                                                            *)
(*                                                                         *)
(* One step stands for one change or one reading of the files.  The lock   *)
(* is the one of VolLock, file by file.  A step that raises goes the way   *)
(* of the exception: out of the lock, through the finally of a clone.      *)
(***************************************************************************)
EXTENDS VolLock, Integers

CONSTANTS
  Rpc,         \* threads that serve CSI calls
  Worker,      \* pool threads that run tasks
  Snap,        \* names of snapshots the CO takes
  Clone,       \* clones of the volume: each names its temporary snapshot
  Orderly,     \* the CO has one call in flight and follows the volume's life
  GiveUp,      \* a task may fail max_retry times and be given up
  MaxFaults    \* bound: kills of the process and operations the file system refuses

ASSUME VolumesAssumption ==
  /\ Thread = Rpc \cup Worker /\ Rpc \cap Worker = {}
  /\ Snap \cap Clone = {} /\ "volume" \notin Snap \cup Clone
  /\ Orderly \in BOOLEAN /\ GiveUp \in BOOLEAN /\ MaxFaults \in Nat

Size    == 1    \* size the volume is created with
NewSize == 2    \* size it is expanded to
Absent  == -1

\* create_volume for the volume itself is the task "volume".
Task == {"volume"} \cup Snap \cup Clone

VARIABLES
  dirs,     \* its directories: data, meta, snapshots, temp
  meta,     \* disk.meta: see NoMeta
  img,      \* size of disk.img
  files,    \* in snapshots and temp: <<name, "img" or "creating">>
  whole,    \* snapshots whose image has all of the volume's data
  loop,     \* disk.img is attached to a loop device
  tasks,    \* tasks accepted and not over
  restored, \* how each clone was filled: not yet, from all the data, from part
  co,       \* what the CO knows of the volume
  \* what each thread does
  pc,       \* its next step
  op, arg,  \* the operation, and what it is about
  body,     \* where to go inside the lock,
  after,    \* and outside it
  patch,    \* the change of disk.meta under way
  seen,     \* disk.meta as it was read
  found,    \* kinds of snapshots that destroy_volume listed
  faults

disk == <<dirs, meta, img, files, whole>>
threads == <<pc, op, arg, body, after, patch, seen, found>>
vars == <<disk, loop, tasks, restored, co, threads, lockVars, faults>>

-----------------------------------------------------------------------------

\* disk.meta: is it there, and its keys ready, deleted_at and size.  The keys
\* img_file and size come together, later than the others.
NoMeta == [there |-> FALSE, full |-> FALSE, ready |-> FALSE, deleted |-> FALSE, size |-> 0]

EmptyDisk == dirs = {} /\ meta = NoMeta /\ img = Absent /\ files = {} /\ whole = {}

\* Variant: delete_volume does not take ready back.
PatchedKeepsReady(m, p) ==
  CASE p = "unready"   -> [m EXCEPT !.there = TRUE, !.ready = FALSE]
    [] p = "described" -> [m EXCEPT !.there = TRUE, !.full = TRUE, !.size = Size]
    [] p = "ready"     -> [m EXCEPT !.there = TRUE, !.ready = TRUE]
    [] p = "deleted"   -> [m EXCEPT !.there = TRUE, !.deleted = TRUE]
    [] p = "resized"   -> [m EXCEPT !.there = TRUE, !.size = NewSize]

\* {**old_data, **obj} of the five calls of patch_metadata.
Patched(m, p) ==
  CASE p = "unready"   -> [m EXCEPT !.there = TRUE, !.ready = FALSE]
    [] p = "described" -> [m EXCEPT !.there = TRUE, !.full = TRUE, !.size = Size]
    [] p = "ready"     -> [m EXCEPT !.there = TRUE, !.ready = TRUE]
    [] p = "deleted"   -> [m EXCEPT !.there = TRUE, !.ready = FALSE, !.deleted = TRUE]
    [] p = "resized"   -> [m EXCEPT !.there = TRUE, !.size = NewSize]

\* metadata(volume_id)["img_file"] does not raise.
Described == meta.there /\ meta.full

Image(s)    == <<s, "img">>
Creating(s) == <<s, "creating">>
Kind(s) == IF s \in Clone THEN "temp" ELSE "snapshots"

\* list_snapshots shows the image, and as ready when it has no .creating.
Listed(s)     == Image(s) \in files
ShownReady(s) == Listed(s) /\ Creating(s) \notin files

FoundIn(k) == \E f \in files : Kind(f[1]) = k

-----------------------------------------------------------------------------
(* Steps of a thread *)

OnlyThread == UNCHANGED <<disk, loop, tasks, restored, co, lockVars, faults>>
OnlyDisk   == UNCHANGED <<loop, tasks, restored, co, lockVars, faults>>
OnlyLock   == UNCHANGED <<disk, loop, tasks, restored, co, faults>>

\* Steps of OnlyDisk that change one part of it.
OnlyDirs  == UNCHANGED <<meta, img, files, whole>>
OnlyMeta  == UNCHANGED <<dirs, img, files, whole>>
OnlyImage == UNCHANGED <<dirs, meta, files, whole>>
OnlyFiles == UNCHANGED <<dirs, meta, img>>

At(t, step)   == pc[t] = step
Goto(t, step) ==
  /\ pc' = [pc EXCEPT ![t] = step]
  /\ UNCHANGED <<op, arg, body, after, patch, seen, found>>

\* with VolLock(volume_id): go on at b inside, at a outside.
WithLock(t, b, a) ==
  /\ pc' = [pc EXCEPT ![t] = "open"]
  /\ body' = [body EXCEPT ![t] = b] /\ after' = [after EXCEPT ![t] = a]
  /\ UNCHANGED <<op, arg, patch, seen, found>>

\* Leave the with-block and go on at a.
LeaveLock(t, a) ==
  /\ pc' = [pc EXCEPT ![t] = "unlock"] /\ after' = [after EXCEPT ![t] = a]
  /\ UNCHANGED <<op, arg, body, patch, seen, found>>

\* Where an exception leads: a clone deletes its temporary snapshot first.
Handler(t) ==
  IF op[t] = "clone_task" /\ body[t] # "u_img" THEN "k_finally" ELSE "failed"
Raise(t)       == Goto(t, Handler(t))

\* Variant: an exception does not leave the with-block.
RaiseInLockHeld(t) == Goto(t, Handler(t))
RaiseInLock(t) == LeaveLock(t, Handler(t))

\* The lock file is in the metadata directory.
LockOpen(t) ==
  /\ At(t, "open")
  /\ IF "meta" \in dirs THEN Open(t) /\ Goto(t, "flock")
                             ELSE Raise(t) /\ UNCHANGED lockVars
  /\ OnlyLock

LockEnter(t) ==
  /\ At(t, "flock")
  /\ \/ Acquire(t) /\ Goto(t, body[t])
     \/ Busy(t) /\ Raise(t)
  /\ OnlyLock

LockExit(t) ==
  /\ \/ At(t, "unlock") /\ Release(t) /\ Goto(t, IF ClearOnRelease THEN "clear" ELSE after[t])
     \/ At(t, "clear") /\ Clear(t) /\ Goto(t, after[t])
  /\ OnlyLock

\* patch_metadata reads disk.meta, then replaces it by the patched copy.
StartPatch(t, p) ==
  /\ pc' = [pc EXCEPT ![t] = "read"] /\ patch' = [patch EXCEPT ![t] = p]
  /\ UNCHANGED <<op, arg, body, after, seen, found>>

ReadMeta(t) ==
  /\ At(t, "read")
  /\ pc' = [pc EXCEPT ![t] = "write"] /\ seen' = [seen EXCEPT ![t] = meta]
  /\ UNCHANGED <<op, arg, body, after, patch, found>>
  /\ OnlyThread

Fault == faults < MaxFaults /\ faults' = faults + 1

\* An operation the file system refuses (no space, an I/O error).
Refused(t) ==
  /\ Fault /\ RaiseInLock(t)
  /\ UNCHANGED <<loop, tasks, restored, co, lockVars>>

\* Where a patch is raised: the first one of create_volume holds no lock.
RaisePatch(t) == IF patch[t] = "unready" THEN Raise(t) ELSE RaiseInLock(t)

ReplaceMeta(t) ==
  LET p == patch[t] IN
  /\ meta' = Patched(seen[t], p) /\ OnlyMeta
  /\ patch' = [patch EXCEPT ![t] = "none"] /\ seen' = [seen EXCEPT ![t] = NoMeta]
  /\ pc' = [pc EXCEPT ![t] = CASE p = "unready"   -> "open"
                               [] p = "described" -> "c_touch"
                               [] OTHER           -> "unlock"]
  /\ UNCHANGED <<op, arg, body, after, found>>

\* A write may be refused, and raises: before the file is replaced, or after it, when
\* the directory is synced.
WriteMeta(t) ==
  /\ At(t, "write")
  /\ \/ "meta" \in dirs /\ ReplaceMeta(t) /\ OnlyDisk
     \/ "meta" \notin dirs /\ RaisePatch(t) /\ UNCHANGED disk /\ OnlyDisk
     \/ /\ "meta" \in dirs /\ Fault /\ RaisePatch(t)
        /\ meta' \in {meta, Patched(seen[t], patch[t])} /\ OnlyMeta
        /\ UNCHANGED <<loop, tasks, restored, co, lockVars>>

-----------------------------------------------------------------------------
(* create_volume, run as a task *)

MakeDirs(t) ==
  /\ \/ At(t, "c_data") /\ dirs' = dirs \cup {"data"} /\ Goto(t, "c_meta")
     \/ At(t, "c_meta") /\ dirs' = dirs \cup {"meta"} /\ StartPatch(t, "unready")
  /\ OnlyDirs /\ OnlyDisk

\* An image that is large enough is taken for the finished volume.
CheckImage(t) ==
  /\ At(t, "c_check")
  /\ Goto(t, IF img >= Size THEN "unlock" ELSE "c_dirs")
  /\ OnlyThread

MakeSnapshotDirs(t) ==
  /\ At(t, "c_dirs")
  /\ dirs' = dirs \cup {"data", "snapshots", "temp"}
  /\ StartPatch(t, "described")
  /\ OnlyDirs /\ OnlyDisk

TouchImage(t) ==
  /\ At(t, "c_touch")
  /\ IF "data" \in dirs
       THEN /\ img' = (IF img = Absent THEN 0 ELSE img) /\ OnlyImage
            /\ Goto(t, "c_alloc")
       ELSE RaiseInLock(t) /\ UNCHANGED disk
  /\ OnlyDisk

\* truncate or fallocate; both create a file that is gone.
Allocate(t) ==
  /\ At(t, "c_alloc")
  /\ \/ /\ IF "data" \in dirs
             THEN /\ img' \in {Size, IF img > Size THEN img ELSE Size} /\ OnlyImage
                  /\ StartPatch(t, "ready")
             ELSE RaiseInLock(t) /\ UNCHANGED disk
        /\ OnlyDisk
     \/ Refused(t) /\ UNCHANGED disk

-----------------------------------------------------------------------------
(* delete_volume, gc_if_needed and destroy_volume *)

\* Variant: no check for attached loop devices.
DeleteVolumeAttached(t) ==
  /\ At(t, "d_check")
  /\ IF "data" \notin dirs THEN Goto(t, "done")
     ELSE IF Described THEN WithLock(t, "d_patch", "gc") ELSE Raise(t)
  /\ OnlyThread

DeleteVolume(t) ==
  /\ At(t, "d_check")
  /\ IF "data" \notin dirs THEN Goto(t, "done")
     ELSE IF Described /\ ~loop THEN WithLock(t, "d_patch", "gc") ELSE Raise(t)
  /\ OnlyThread

MarkDeleted(t) ==
  /\ At(t, "d_patch") /\ StartPatch(t, "deleted")
  /\ OnlyThread

StartGc(t) ==
  /\ At(t, "gc") /\ WithLock(t, "g_read", "done")
  /\ OnlyThread

\* gc_at is the time of the deletion, so it has passed.  destroy_volume is
\* called after the lock is released.
CheckDeleted(t) ==
  /\ At(t, "g_read")
  /\ LeaveLock(t, IF meta.deleted THEN "x_list" ELSE "done")
  /\ OnlyThread

ListSnapshots(t) ==
  /\ At(t, "x_list")
  /\ IF meta.there
       THEN /\ pc' = [pc EXCEPT ![t] = "x_img"]
            /\ found' = [found EXCEPT ![t] = {k \in {"snapshots", "temp"} : FoundIn(k)}]
            /\ UNCHANGED <<op, arg, body, after, patch, seen>>
       ELSE Raise(t)
  /\ OnlyThread

RemoveImage(t) ==
  /\ At(t, "x_img")
  /\ IF Described
       THEN /\ img' = Absent /\ OnlyImage
            /\ Goto(t, IF "temp" \in found[t] THEN "x_meta" ELSE "x_temp")
       ELSE Raise(t) /\ UNCHANGED disk
  /\ OnlyDisk

\* rmdir raises when the directory is not empty.
RemoveDir(t, d, empty, next) ==
  /\ IF d \in dirs => empty
       THEN dirs' = dirs \ {d} /\ OnlyDirs /\ Goto(t, next)
       ELSE Raise(t) /\ UNCHANGED disk
  /\ OnlyDisk

\* The paths of both directories are read from disk.meta.
RemoveTemp(t) ==
  /\ At(t, "x_temp")
  /\ IF meta.there
       THEN RemoveDir(t, "temp", ~FoundIn("temp"),
                      IF "snapshots" \in found[t] THEN "x_meta" ELSE "x_snaps")
       ELSE Raise(t) /\ OnlyThread

RemoveSnapshots(t) ==
  /\ At(t, "x_snaps")
  /\ IF meta.there
       THEN RemoveDir(t, "snapshots", "temp" \notin dirs /\ ~FoundIn("snapshots"), "x_meta")
       ELSE Raise(t) /\ OnlyThread

\* Variant: the metadata goes although there are snapshots.
RemoveMetaAnyway(t) ==
  /\ At(t, "x_meta")
  /\ meta' = NoMeta /\ OnlyMeta /\ path' = NoFile
  /\ Goto(t, "x_mdir")
  /\ UNCHANGED <<loop, tasks, restored, co, fd, lk, faults>>

\* The metadata is kept while there are snapshots; otherwise all its files go,
\* the lock file among them.
RemoveMeta(t) ==
  /\ At(t, "x_meta")
  /\ IF found[t] = {}
       THEN /\ meta' = NoMeta /\ OnlyMeta /\ path' = NoFile
            /\ Goto(t, "x_mdir")
       ELSE Goto(t, "done") /\ UNCHANGED <<disk, path>>
  /\ UNCHANGED <<loop, tasks, restored, co, fd, lk, faults>>

RemoveMetaDir(t) ==
  /\ At(t, "x_mdir")
  /\ RemoveDir(t, "meta", ~meta.there /\ path = NoFile, "x_data")

RemoveData(t) ==
  /\ At(t, "x_data")
  /\ RemoveDir(t, "data", img = Absent /\ "snapshots" \notin dirs, "done")

-----------------------------------------------------------------------------
(* create_snapshot, run as a task or inside a clone, and delete_snapshot.     *)
(* The volume is taken for one that may be snapshotted while it is in use;    *)
(* that its file system is frozen meanwhile, which no step here looks at, is  *)
(* left out.                                                                  *)

\* Variant: no .creating file.
MarkSnapshotUnmarked(t) ==
  LET s == arg[t] IN
  /\ At(t, "n_mark")
  /\ IF Described
       THEN /\ dirs' = dirs \cup {"data", "snapshots", Kind(s)}
            /\ files' = files \ {Image(s)} /\ whole' = whole \ {s}
            /\ UNCHANGED <<meta, img>>
            /\ Goto(t, "n_copy")
       ELSE RaiseInLock(t) /\ UNCHANGED disk
  /\ OnlyDisk

MarkSnapshot(t) ==
  LET s == arg[t] IN
  /\ At(t, "n_mark")
  /\ IF Described
       THEN /\ dirs' = dirs \cup {"data", "snapshots", Kind(s)}
            /\ files' = (files \cup {Creating(s)}) \ {Image(s)} /\ whole' = whole \ {s}
            /\ UNCHANGED <<meta, img>>
            /\ Goto(t, "n_copy")
       ELSE RaiseInLock(t) /\ UNCHANGED disk
  /\ OnlyDisk

\* cp creates the file, then fills it; it fails without its source or its
\* target directory.  The exception handler removes the image and leaves
\* .creating.
NoCopy(t) ==
  files' = files \ {Image(arg[t])} /\ whole' = whole \ {arg[t]} /\ OnlyFiles

StartCopy(t) ==
  LET s == arg[t] IN
  /\ At(t, "n_copy")
  /\ IF img # Absent /\ Kind(s) \in dirs
       THEN /\ files' = files \cup {Image(s)} /\ UNCHANGED whole /\ OnlyFiles
            /\ Goto(t, "n_fill")
       ELSE NoCopy(t) /\ RaiseInLock(t)
  /\ OnlyDisk

FinishCopy(t) ==
  LET s == arg[t] IN
  /\ At(t, "n_fill")
  /\ \/ /\ whole' = (IF Listed(s) THEN whole \cup {s} ELSE whole)
        /\ UNCHANGED files /\ OnlyFiles
        /\ Goto(t, "n_done") /\ OnlyDisk
     \/ Refused(t) /\ NoCopy(t)

\* The size of the image is read after .creating is removed.
FinishSnapshot(t) ==
  LET s == arg[t] IN
  /\ At(t, "n_done")
  /\ files' = files \ {Creating(s)} /\ UNCHANGED whole /\ OnlyFiles
  /\ IF Listed(s) THEN Goto(t, "unlock") ELSE RaiseInLock(t)
  /\ OnlyDisk

DeleteSnapshot(t) ==
  LET s == arg[t] IN
  /\ \/ /\ At(t, "u_img")
        /\ IF meta.there
             THEN /\ files' = files \ {Image(s)} /\ whole' = whole \ {s} /\ OnlyFiles
                  /\ Goto(t, "u_mark")
             ELSE RaiseInLock(t) /\ UNCHANGED disk
     \/ /\ At(t, "u_mark")
        /\ files' = files \ {Creating(s)} /\ UNCHANGED whole /\ OnlyFiles
        /\ Goto(t, "unlock")
  /\ OnlyDisk

-----------------------------------------------------------------------------
(* create_volume of a clone: its work on the source *)

\* An earlier attempt may have left the temporary snapshot ready.
CheckSource(t) ==
  /\ At(t, "k_check")
  /\ IF ~meta.ready THEN Raise(t)
     ELSE IF ShownReady(arg[t]) THEN Goto(t, "k_restore")
     ELSE WithLock(t, "n_mark", "k_restore")
  /\ OnlyThread

\* restore_snapshot: cp of the snapshot to the image of the clone.
RestoreSnapshot(s) ==
  restored' = [restored EXCEPT ![s] = IF s \in whole THEN "all" ELSE "part"]

\* A clone whose image was filled by an earlier attempt is not filled again.
Restore(t) ==
  LET s == arg[t] IN
  /\ At(t, "k_restore")
  /\ \/ restored[s] # "no" /\ UNCHANGED restored /\ WithLock(t, "u_img", "done")
     \/ /\ meta.there /\ ShownReady(s)
        /\ RestoreSnapshot(s) /\ WithLock(t, "u_img", "done")
     \/ /\ restored[s] = "no" /\ ~(meta.there /\ ShownReady(s))
        /\ Raise(t) /\ UNCHANGED restored
  /\ UNCHANGED <<disk, loop, tasks, co, lockVars, faults>>

CleanUp(t) ==
  /\ At(t, "k_finally") /\ WithLock(t, "u_img", "failed")
  /\ OnlyThread

-----------------------------------------------------------------------------
(* ExpandRawFile, NodeStageVolume and NodeUnstageVolume *)

ExpandRawFile(t) ==
  \/ /\ At(t, "e_check")
     /\ IF ~Described THEN RaiseInLock(t)
        ELSE \/ Goto(t, "unlock")
             \/ meta.size < NewSize /\ Goto(t, "e_alloc")
     /\ OnlyThread
  \/ /\ At(t, "e_alloc")
     /\ \/ /\ IF "data" \in dirs
                THEN img' = NewSize /\ OnlyImage /\ StartPatch(t, "resized")
                ELSE UNCHANGED disk /\ RaiseInLock(t)
           /\ OnlyDisk
        \/ Refused(t) /\ UNCHANGED disk

NodeStageVolume(t) ==
  /\ At(t, "s_attach")
  /\ IF meta.ready /\ meta.full /\ img # Absent
       THEN loop' = TRUE /\ Goto(t, "unlock")
       ELSE UNCHANGED loop /\ RaiseInLock(t)
  /\ UNCHANGED <<disk, tasks, restored, co, lockVars, faults>>

\* A deleted volume counts as unstaged.  losetup finds no device for an image
\* that is gone.
NodeUnstageVolume(t) ==
  /\ \/ /\ At(t, "t_check") /\ UNCHANGED loop
        /\ IF meta.there THEN WithLock(t, "t_detach", "done") ELSE Goto(t, "done")
     \/ /\ At(t, "t_detach")
        /\ IF Described
             THEN loop' = (loop /\ img = Absent) /\ Goto(t, "unlock")
             ELSE UNCHANGED loop /\ RaiseInLock(t)
  /\ UNCHANGED <<disk, tasks, restored, co, lockVars, faults>>

-----------------------------------------------------------------------------
(* CSI calls and tasks *)

\* An operation starts at a step; b and l are as in WithLock.
Begin(t, o, a, step, b, l) ==
  /\ op' = [op EXCEPT ![t] = o] /\ arg' = [arg EXCEPT ![t] = a]
  /\ pc' = [pc EXCEPT ![t] = step]
  /\ body' = [body EXCEPT ![t] = b] /\ after' = [after EXCEPT ![t] = l]
  /\ UNCHANGED <<patch, seen, found>>
BeginLocked(t, o, a, b, l) == Begin(t, o, a, "open", b, l)

\* The thread is idle again.
End(t) ==
  /\ pc' = [pc EXCEPT ![t] = "idle"]
  /\ op' = [op EXCEPT ![t] = "none"] /\ arg' = [arg EXCEPT ![t] = "none"]
  /\ body' = [body EXCEPT ![t] = "none"] /\ after' = [after EXCEPT ![t] = "none"]
  /\ patch' = [patch EXCEPT ![t] = "none"] /\ seen' = [seen EXCEPT ![t] = NoMeta]
  /\ found' = [found EXCEPT ![t] = {}]

\* What an orderly CO asks for: one call at a time, nothing of a volume it does
\* not have, and no deletion while the creation is still a task.  Snapshots and
\* clones of the volume may be under way when it asks for the deletion.
MayAsk(o) ==
  Orderly =>
    /\ \A r \in Rpc : At(r, "idle")
    /\ CASE o = "create"   -> co = "none"
         [] o = "stage"    -> co \in {"made", "staged"}
         [] o = "unstage"  -> co \in {"staged", "deleting"}
         [] o = "delete"   -> co \in {"made", "staged", "deleting"} /\ "volume" \notin tasks
         [] o = "unsnap"   -> co # "none"
         [] OTHER          -> co \in {"made", "staged"}

Accept(k) == tasks' = tasks \cup {k}

Asks == UNCHANGED <<disk, loop, restored, lockVars, faults>>

\* CreateVolume is aborted by a check of the request or of the capacity, or
\* starts a task when there is no metadata, and waits.
AskCreate(t) ==
  /\ MayAsk("create")
  /\ \/ Begin(t, "create", "none", "failed", "none", "none") /\ UNCHANGED tasks
     \/ /\ Begin(t, "create", "none", "r_poll", "none", "none")
        /\ IF meta.there THEN UNCHANGED tasks ELSE Accept("volume")
  /\ UNCHANGED co /\ Asks

AskDelete(t) ==
  /\ MayAsk("delete") /\ Begin(t, "delete", "none", "d_check", "none", "none")
  /\ co' = "deleting" /\ UNCHANGED tasks /\ Asks

AskStage(t) ==
  /\ MayAsk("stage") /\ BeginLocked(t, "stage", "none", "s_attach", "done")
  /\ co' = "staged" /\ UNCHANGED tasks /\ Asks

AskUnstage(t) ==
  /\ MayAsk("unstage") /\ Begin(t, "unstage", "none", "t_check", "none", "none")
  /\ UNCHANGED <<co, tasks>> /\ Asks

\* ControllerExpandVolume calls ExpandRawFile of the volume's node.
AskExpand(t) ==
  /\ MayAsk("expand") /\ BeginLocked(t, "expand", "none", "e_check", "done")
  /\ UNCHANGED <<co, tasks>> /\ Asks

AskSnapshot(t, s) ==
  /\ MayAsk("snapshot") /\ BeginLocked(t, "snapshot", s, "r_meta", "r_list")
  /\ UNCHANGED <<co, tasks>> /\ Asks

\* DeleteSnapshot, and gc_if_needed after it.
AskDeleteSnapshot(t, s) ==
  /\ MayAsk("unsnap") /\ BeginLocked(t, "unsnap", s, "u_img", "gc")
  /\ UNCHANGED <<co, tasks>> /\ Asks

AskClone(c) ==
  /\ MayAsk("clone") /\ restored[c] = "no" /\ Accept(c)
  /\ UNCHANGED <<threads, co>> /\ Asks

Ask(t) ==
  /\ At(t, "idle")
  /\ \/ AskCreate(t) \/ AskDelete(t) \/ AskStage(t) \/ AskUnstage(t) \/ AskExpand(t)
     \/ \E s \in Snap : AskSnapshot(t, s) \/ AskDeleteSnapshot(t, s)
     \/ \E c \in Clone : AskClone(c)

\* CreateVolume waits for ready, up to a deadline.
CreateVolume(t) ==
  /\ At(t, "r_poll")
  /\ \/ meta.ready /\ Goto(t, "done")
     \/ Goto(t, "failed")
  /\ OnlyThread

\* CreateSnapshot reads disk.meta under the lock, and starts a task when there
\* is no image yet.
CreateSnapshot(t) ==
  /\ \/ /\ At(t, "r_meta") /\ UNCHANGED tasks
        /\ IF meta.there THEN Goto(t, "unlock") ELSE RaiseInLock(t)
     \/ /\ At(t, "r_list")
        /\ IF meta.there THEN Goto(t, "done") ELSE Raise(t)
        /\ IF meta.there /\ ~Listed(arg[t]) THEN Accept(arg[t]) ELSE UNCHANGED tasks
  /\ UNCHANGED <<disk, loop, restored, co, lockVars, faults>>

Answer(t) ==
  LET o == op[t] IN
  /\ t \in Rpc /\ pc[t] \in {"done", "failed"}
  /\ End(t)
  /\ co' = IF At(t, "failed") THEN co
           ELSE CASE o = "create"  -> IF co = "none" THEN "made" ELSE co
                  [] o = "unstage" -> IF co = "staged" THEN "made" ELSE co
                  [] o = "delete"  -> "gone"
                  [] OTHER         -> co
  /\ UNCHANGED <<disk, loop, tasks, restored, lockVars, faults>>

\* One execution of a task at a time (TaskManager!OneExecution).
StartTask(t, k) ==
  /\ t \in Worker /\ At(t, "idle")
  /\ k \in tasks /\ \A w \in Worker : arg[w] # k
  /\ \/ k = "volume" /\ Begin(t, "volume_task", k, "c_data", "c_check", "done")
     \/ k \in Snap   /\ BeginLocked(t, "snapshot_task", k, "n_mark", "done")
     \/ k \in Clone  /\ Begin(t, "clone_task", k, "k_check", "none", "none")
  /\ OnlyThread

\* A failed task is retried, or given up after max_retry.
EndTask(t) ==
  /\ t \in Worker /\ pc[t] \in {"done", "failed"}
  /\ End(t)
  /\ \/ (At(t, "failed") => GiveUp) /\ tasks' = tasks \ {arg[t]}
     \/ At(t, "failed") /\ UNCHANGED tasks
  /\ UNCHANGED <<disk, loop, restored, co, lockVars, faults>>

Each(x) == [t \in Thread |-> x]

\* The process is killed: its locks are gone, its files and loop devices stay,
\* and the tasks are taken up again by the next process.
Crash ==
  /\ Fault
  /\ pc' = Each("idle") /\ op' = Each("none") /\ arg' = Each("none")
  /\ body' = Each("none") /\ after' = Each("none")
  /\ patch' = Each("none") /\ seen' = Each(NoMeta) /\ found' = Each({})
  /\ fd' = Each(NoFile) /\ lk' = Each("out")
  /\ UNCHANGED <<disk, loop, tasks, restored, co, path>>

-----------------------------------------------------------------------------

Init ==
  /\ LockInit
  /\ EmptyDisk /\ loop = FALSE /\ tasks = {} /\ co = "none"
  /\ restored = [c \in Clone |-> "no"]
  /\ pc = Each("idle") /\ op = Each("none") /\ arg = Each("none")
  /\ body = Each("none") /\ after = Each("none")
  /\ patch = Each("none") /\ seen = Each(NoMeta) /\ found = Each({})
  /\ faults = 0

Step(t) ==
  \/ LockOpen(t) \/ LockEnter(t) \/ LockExit(t) \/ ReadMeta(t) \/ WriteMeta(t)
  \/ MakeDirs(t) \/ CheckImage(t) \/ MakeSnapshotDirs(t) \/ TouchImage(t) \/ Allocate(t)
  \/ DeleteVolume(t) \/ MarkDeleted(t) \/ StartGc(t) \/ CheckDeleted(t)
  \/ ListSnapshots(t) \/ RemoveImage(t) \/ RemoveTemp(t) \/ RemoveSnapshots(t)
  \/ RemoveMeta(t) \/ RemoveMetaDir(t) \/ RemoveData(t)
  \/ MarkSnapshot(t) \/ StartCopy(t) \/ FinishCopy(t) \/ FinishSnapshot(t) \/ DeleteSnapshot(t)
  \/ CheckSource(t) \/ Restore(t) \/ CleanUp(t)
  \/ ExpandRawFile(t) \/ NodeStageVolume(t) \/ NodeUnstageVolume(t)
  \/ CreateVolume(t) \/ CreateSnapshot(t)

Next ==
  \/ \E t \in Thread : Step(t)
  \/ \E t \in Rpc : Ask(t) \/ Answer(t)
  \/ \E t \in Worker : EndTask(t) \/ \E k \in Task : StartTask(t, k)
  \/ Crash

Spec == Init /\ [][Next]_vars

\* Threads that run go on; the pool takes up every task; the CO repeats
\* CreateVolume until it succeeds.
FairSpec ==
  /\ Spec
  /\ \A t \in Thread : WF_vars(Step(t) \/ Answer(t) \/ EndTask(t))
  /\ \A k \in Task : SF_vars(\E t \in Worker : StartTask(t, k))
  /\ \A t \in Rpc : SF_vars(At(t, "idle") /\ AskCreate(t))

-----------------------------------------------------------------------------
(* Properties *)

\* Types, and that a thread is inside the lock only while its step is one of
\* a with-block.
TypeOK ==
  /\ LockTypeOK
  /\ dirs \subseteq {"data", "meta", "snapshots", "temp"}
  /\ meta \in [there : BOOLEAN, full : BOOLEAN, ready : BOOLEAN, deleted : BOOLEAN,
               size : {0, Size, NewSize}]
  /\ meta.there \/ meta = NoMeta
  /\ img \in {Absent, 0, Size, NewSize}
  /\ files \subseteq (Snap \cup Clone) \X {"img", "creating"}
  /\ whole \subseteq Snap \cup Clone
  /\ loop \in BOOLEAN /\ tasks \subseteq Task
  /\ restored \in [Clone -> {"no", "all", "part"}]
  /\ co \in {"none", "made", "staged", "deleting", "gone"}
  /\ \A t \in Thread : pc[t] \in {"idle", "done", "failed"} => lk[t] = "out"

\* create_volume writes "ready": true last and delete_volume takes it back
\* first, so whatever crash, refusal or retry came between, a volume that says
\* ready is described and has an image of at least its size.
ReadyHasImage == meta.ready => meta.full /\ img >= meta.size

\* delete_volume refuses while a loop device is attached: the image of a staged
\* volume is never removed.
KeepsAttachedImage == [][img # Absent /\ img' = Absent => ~loop]_vars

\* destroy_volume: "Keep metadata if there are snapshots to be able to delete
\* them later".  Without it delete_snapshot finds no path.  It looks for snapshots
\* before it removes anything, and not again; one that is begun later finds no image
\* to copy, and leaves no more than its .creating file.
NoOrphanSnapshot == (\E s \in Snap \cup Clone : Listed(s)) => meta.there

\* A clone is only filled from a temporary snapshot that has all the data:
\* .creating is there from before the copy until after it.
CloneIsWhole == \A c \in Clone : restored[c] # "part"

\* A volume whose creation was accepted becomes ready (rawfile_servicer.py
\* CreateVolume answers DEADLINE_EXCEEDED "Volume Still Creating..." until then).
CreatedEventually == "volume" \in tasks ~> meta.ready

=============================================================================

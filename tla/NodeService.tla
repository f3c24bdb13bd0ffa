---------------------------- MODULE NodeService ----------------------------
(***************************************************************************)
(* Using one volume on its node: NodeStageVolume, NodePublishVolume and    *)
(* their counterparts and NodeExpandVolume, through bd2fs.py, the block    *)
(* device servicer of rawfile_servicer.py, declarative.py, the filesystem  *)
(* package and the loop devices of rawfile/utils/rawfile.py.               *)
(*                                                                         *)
(* Loop devices and mounts live in the kernel and are gone after a reboot, *)
(* when another image may get the same loop device; directories and links  *)
(* below the staging path stay, and a link may be stale.  The plugin may   *)
(* be killed between any two steps, and blkid may fail.  The volume's lock *)
(* and the CO admit one node call at a time; DeleteVolume runs beside it   *)
(* and takes the lock only after it looked for attached devices.           *)
(***************************************************************************)
EXTENDS Naturals, FiniteSets

CONSTANTS
  Loop,        \* loop devices of the node
  MaxFaults,   \* bound: how often the plugin is killed or blkid fails
  MaxReboots   \* bound: how often the node reboots

ASSUME NodeAssumption ==
  /\ "none" \notin Loop
  /\ MaxFaults \in Nat /\ MaxReboots \in Nat

None == "none"

Mountpoint == {"stage", "target"}   \* <staging path>/mount, target path

VARIABLES
  loopOf,   \* what each loop device is attached to: none, img, or other
  mnt,      \* the device mounted at each mountpoint
  files,    \* on disk: see NoFiles
  fs,       \* of the image: none or made
  access,   \* access type of the volume: mount or block
  size,     \* 1 or 2: of the image, its loop device and its file system
  deleted,  \* DeleteVolume: no, checked (no device seen), marked (not ready any more), gone
  call,     \* the call in progress: see NoCall
  co,       \* the CO's view: see Init
  faults, reboots

kernelVars == <<loopOf, mnt>>
boundVars  == <<faults, reboots>>
vars == <<kernelVars, files, fs, access, size, deleted, call, co, boundVars>>

\* points: mountpoints that exist; block: directory <staging path>/block;
\* dev: where block/dev leads; device: link <staging path>/device to block/dev.
NoFiles == [points |-> {}, block |-> FALSE, dev |-> None, device |-> FALSE]

NoCall == [op |-> "none", pc |-> "idle", at |-> "none", dev |-> None]

ImgLoops == {l \in Loop : loopOf[l] = "img"}

\* get_access_type of the request; what disk.meta says of the volume.
IsMount       == access = "mount"
Ready         == deleted \in {"no", "checked"}
VolumeDeleted == deleted = "gone"

\* Variant: the subpath that findmnt adds in brackets is kept.
DeviceAtSubpath(m) == IF mnt[m] = None THEN None ELSE "subpath"

\* get_device_for_mountpoint (findmnt): of a device node that is bind-mounted on
\* a file it names the file system of the node, not the device.
DeviceAt(m) == IF mnt[m] = None \/ IsMount THEN mnt[m] ELSE "devtmpfs"
Mounted(m)  == DeviceAt(m) # None

\* get_device_fs of the image.  When blkid fails otherwise than with exit code 2
\* its empty output is returned, which says no file system too.
HasFileSystem == fs # None
BlkidFails    == faults < MaxFaults /\ faults' = faults + 1 /\ UNCHANGED reboots

\* from_device finds a file system; other images are taken to have one.
FromDevice(l) == loopOf[l] = "other" \/ (loopOf[l] = "img" /\ HasFileSystem)

\* What the path <staging path>/device resolves to, if the links lead there.
DevicePath == IF files.device THEN files.dev ELSE None

At(step)   == call.pc = step
Goto(step) == call' = [call EXCEPT !.pc = step]
Raise      == Goto("failed")

\* Variables a step does not name, when blkid does not fail.
Asked == UNCHANGED <<access, deleted, co>>
Calls == Asked /\ UNCHANGED boundVars

-----------------------------------------------------------------------------
(* attach_loop, detach_loops and the links *)

\* Variant: the free device that losetup -f named is used without a look at
\* what is attached to it.
AttachLoopNamed ==
  /\ At("attach")
  /\ \E l \in Loop :
       \/ loopOf[l] = None /\ call' = [call EXCEPT !.dev = l] /\ UNCHANGED <<loopOf, size>>
       \/ /\ call.dev # None /\ Goto("link")
          /\ loopOf' = [loopOf EXCEPT ![l] = "img"] /\ loopOf[l] = None
          /\ size' = [size EXCEPT !.loop = size.img]
  /\ UNCHANGED <<mnt, files, fs>> /\ Calls

\* A device attached to the image is used again; otherwise the next round finds
\* the one attached now.  Without a free device all rounds fail.
AttachLoop ==
  /\ At("attach")
  /\ \/ \E l \in ImgLoops : call' = [call EXCEPT !.pc = "link", !.dev = l] /\ UNCHANGED <<loopOf, size>>
     \/ /\ ImgLoops = {} /\ UNCHANGED call
        /\ \E l \in Loop : loopOf[l] = None /\ loopOf' = [loopOf EXCEPT ![l] = "img"]
        /\ size' = [size EXCEPT !.loop = size.img]
     \/ /\ \A l \in Loop : loopOf[l] = "other"
        /\ Raise /\ UNCHANGED <<loopOf, size>>
  /\ UNCHANGED <<mnt, files, fs>> /\ Calls

\* Variant: any link is taken for the right one.
BeSymlinkAny ==
  /\ At("link")
  /\ IF files.dev # None THEN Goto("link_device") /\ UNCHANGED files
     ELSE files' = [files EXCEPT !.dev = call.dev] /\ UNCHANGED call
  /\ UNCHANGED <<kernelVars, fs, size>> /\ Calls

\* be_symlink of block/dev: a link to another device is removed first.
BeSymlink ==
  /\ At("link")
  /\ IF files.dev = call.dev THEN Goto("link_device") /\ UNCHANGED files
     ELSE /\ files' = [files EXCEPT !.dev = IF @ = None THEN call.dev ELSE None]
          /\ UNCHANGED call
  /\ UNCHANGED <<kernelVars, fs, size>> /\ Calls

LinkDevice ==
  /\ At("link_device") /\ Goto(IF IsMount THEN "format" ELSE "done")
  /\ files' = [files EXCEPT !.device = TRUE]
  /\ UNCHANGED <<kernelVars, fs, size>> /\ Calls

\* losetup -d, device by device.
DetachLoops ==
  /\ At("detach")
  /\ LET idle == {l \in ImgLoops : \A m \in Mountpoint : mnt[m] # l} IN
     \/ \E l \in idle : loopOf' = [loopOf EXCEPT ![l] = None] /\ UNCHANGED call
     \/ idle = {} /\ Goto("un_block") /\ UNCHANGED loopOf
  /\ UNCHANGED <<mnt, files, fs, size>> /\ Calls

-----------------------------------------------------------------------------
(* format_and_mount, mount and unmount *)

\* mkfs makes a file system of the size of the device.
Mkfs == fs' = "made" /\ size' = [size EXCEPT !.fs = size.loop] /\ Goto("mount")

\* mkfs, unless blkid finds a file system.  When blkid fails, mkfs meets the file
\* system that is there and refuses or, if it is not mounted, overwrites it.
FormatFs ==
  /\ At("format")
  /\ \/ HasFileSystem /\ Goto("mount") /\ UNCHANGED <<fs, size, boundVars>>
     \/ ~HasFileSystem /\ Mkfs /\ UNCHANGED boundVars
     \/ HasFileSystem /\ BlkidFails /\ Raise /\ UNCHANGED <<fs, size>>
     \/ HasFileSystem /\ BlkidFails /\ ~Mounted("stage") /\ Mkfs
  /\ UNCHANGED <<kernelVars, files>> /\ Asked

\* Variant: a mountpoint that exists counts as mounted.
MountAnyway ==
  LET m == call.at IN
  /\ At("mount")
  /\ \/ m \in files.points /\ Goto("done") /\ UNCHANGED <<mnt, files>>
     \/ /\ m \notin files.points /\ files.dev # None
        /\ mnt' = [mnt EXCEPT ![m] = files.dev] /\ files' = [files EXCEPT !.points = @ \cup {m}]
        /\ Goto("done")
  /\ UNCHANGED <<loopOf, fs, size>> /\ Calls

\* FileSystem.mount, which needs a file system, and the bind mount of a device,
\* which needs the device.
MountDevice(m) ==
  IF DevicePath # None /\ (IF IsMount THEN FromDevice(DevicePath) ELSE loopOf[DevicePath] # None)
    THEN mnt' = [mnt EXCEPT ![m] = DevicePath] /\ Goto("done")
    ELSE Raise /\ UNCHANGED mnt

\* The mountpoint is made first.  A device that is mounted there already is
\* fine, another one is an error.  Only publishing asks blkid.
Mount ==
  LET m == call.at IN
  /\ At("mount")
  /\ \/ Mounted(m) /\ DeviceAt(m) = DevicePath /\ Goto("done") /\ UNCHANGED <<mnt, files>>
     \/ /\ ~Mounted(m) /\ m \notin files.points
        /\ files' = [files EXCEPT !.points = @ \cup {m}] /\ UNCHANGED <<mnt, call>>
     \/ ~Mounted(m) /\ m \in files.points /\ MountDevice(m) /\ UNCHANGED files
     \/ Mounted(m) /\ DeviceAt(m) # DevicePath /\ Raise /\ UNCHANGED <<mnt, files>>
  /\ UNCHANGED <<loopOf, fs, size>> /\ Calls

MountUnknown ==
  /\ At("mount") /\ call.op = "publish" /\ IsMount /\ ~Mounted("target") /\ BlkidFails /\ Raise
  /\ UNCHANGED <<kernelVars, files, fs, size>> /\ Asked

AfterUnmount == IF call.op = "unstage" THEN "un_device" ELSE "done"

\* Variant: nothing mounted is an error for a directory too.
UnmountStrict ==
  LET m == call.at IN
  /\ At("umount")
  /\ IF m \notin files.points THEN Goto(AfterUnmount) /\ UNCHANGED mnt
     ELSE IF Mounted(m) THEN mnt' = [mnt EXCEPT ![m] = None] /\ Goto("rmdir")
     ELSE Raise /\ UNCHANGED mnt
  /\ UNCHANGED <<loopOf, files, fs, size>> /\ Calls

\* A directory with nothing mounted counts as unmounted.  For a file, umount is
\* called in any case, and fails when nothing is mounted.
Unmount ==
  LET m == call.at IN
  /\ At("umount")
  /\ IF m \notin files.points THEN Goto(AfterUnmount) /\ UNCHANGED mnt
     ELSE IF Mounted(m) THEN mnt' = [mnt EXCEPT ![m] = None] /\ Goto("rmdir")
     ELSE UNCHANGED mnt /\ IF IsMount THEN Goto("rmdir") ELSE Raise
  /\ UNCHANGED <<loopOf, files, fs, size>> /\ Calls

\* Of a mounted directory blkid must know the file system.
UnmountUnknown ==
  /\ At("umount") /\ IsMount /\ Mounted(call.at) /\ BlkidFails /\ Raise
  /\ UNCHANGED <<kernelVars, files, fs, size>> /\ Asked

ClearMountpoint ==
  /\ At("rmdir") /\ Goto(AfterUnmount)
  /\ files' = [files EXCEPT !.points = @ \ {call.at}]
  /\ UNCHANGED <<kernelVars, fs, size>> /\ Calls

-----------------------------------------------------------------------------
(* The rest of the handlers *)

NodeStageVolume ==
  /\ At("stage")
  /\ IF ~Ready THEN Raise /\ UNCHANGED files
     ELSE files' = [files EXCEPT !.block = TRUE] /\ Goto("stage_dev")
  /\ UNCHANGED <<kernelVars, fs, size>> /\ Calls

\* The block device servicer looks at the metadata again.
NodeStageDevice ==
  /\ At("stage_dev") /\ IF ~Ready THEN Raise ELSE Goto("attach")
  /\ UNCHANGED <<kernelVars, files, fs, size>> /\ Calls

NodePublishVolume ==
  /\ At("publish")
  /\ IF ~Ready THEN Raise /\ UNCHANGED files
     ELSE files' = [files EXCEPT !.points = @ \cup {"target"}] /\ Goto("mount")
  /\ UNCHANGED <<kernelVars, fs, size>> /\ Calls

\* NodeUnpublishVolume and NodeUnstageVolume of a volume that is deleted only
\* clear paths, and refuse while something is mounted.
Teardown ==
  LET own == IF call.op = "unstage" THEN {"stage"} ELSE {"target"} IN
  /\ At("teardown")
  /\ IF ~VolumeDeleted THEN Goto("umount") /\ UNCHANGED files
     ELSE IF \E m \in own : Mounted(m) THEN Raise /\ UNCHANGED files
     ELSE /\ files' = IF call.op = "unstage" THEN [NoFiles EXCEPT !.points = files.points \ own]
                      ELSE [files EXCEPT !.points = @ \ own]
          /\ Goto("done")
  /\ UNCHANGED <<kernelVars, fs, size>> /\ Calls

NodeUnpublishDevice ==
  /\ At("un_device") /\ Goto("un_dev")
  /\ files' = [files EXCEPT !.device = FALSE]
  /\ UNCHANGED <<kernelVars, fs, size>> /\ Calls

\* Variant: without a link there is nothing to detach.
NodeUnstageDeviceLinked ==
  /\ At("un_dev")
  /\ IF VolumeDeleted THEN Raise /\ UNCHANGED files
     ELSE files' = [files EXCEPT !.dev = None] /\ Goto(IF files.dev = None THEN "un_block" ELSE "detach")
  /\ UNCHANGED <<kernelVars, fs, size>> /\ Calls

\* The path of the image, whose devices are detached next, is in the metadata.
NodeUnstageDevice ==
  /\ At("un_dev")
  /\ IF VolumeDeleted THEN Raise /\ UNCHANGED files
     ELSE files' = [files EXCEPT !.dev = None] /\ Goto("detach")
  /\ UNCHANGED <<kernelVars, fs, size>> /\ Calls

NodeUnstageVolume ==
  /\ At("un_block") /\ Goto("done")
  /\ files' = [files EXCEPT !.block = FALSE]
  /\ UNCHANGED <<kernelVars, fs, size>> /\ Calls

\* Variant: the file system is not resized.
NodeExpandVolumeDevice ==
  /\ At("expand") /\ Goto("done")
  /\ size' = [size EXCEPT !.loop = size.img]
  /\ UNCHANGED <<kernelVars, files, fs>> /\ Calls

\* losetup -c, then the resize of the file system.
RefreshLoop == size' = [size EXCEPT !.loop = size.img]
ResizeFs    == size' = [size EXCEPT !.fs = size.loop]

NodeExpandVolume ==
  /\ \/ At("expand") /\ RefreshLoop /\ Goto(IF IsMount THEN "resize" ELSE "done") /\ UNCHANGED boundVars
     \/ At("resize") /\ ResizeFs /\ Goto("done") /\ UNCHANGED boundVars
     \/ At("resize") /\ BlkidFails /\ Raise /\ UNCHANGED size
  /\ UNCHANGED <<kernelVars, files, fs>> /\ Asked

-----------------------------------------------------------------------------
(* The CO, other volumes, kills and reboots *)

\* kubelet repeats a call until it succeeds, stages again after a reboot,
\* publishes what is staged, and unstages what is not published.
Ask(o) ==
  LET step(s) == call' = [NoCall EXCEPT !.op = o, !.pc = s, !.at = IF o \in {"publish", "unpublish"} THEN "target" ELSE "stage"]
  IN
  /\ At("idle")
  /\ CASE o = "stage"     -> /\ co.goal = "use" /\ co.staged # "yes"
                             /\ step("stage") /\ co' = [co EXCEPT !.staged = "unknown"]
       [] o = "publish"   -> /\ co.goal = "use" /\ co.staged = "yes" /\ co.published # "yes"
                             /\ step("publish") /\ co' = [co EXCEPT !.published = "unknown"]
       [] o = "expand"    -> /\ co.staged = "yes" /\ co.published = "yes" /\ size.img = 2
                             /\ step("expand") /\ UNCHANGED co
       [] o = "unpublish" -> /\ co.published # "no"
                             /\ step("teardown") /\ co' = [co EXCEPT !.published = "unknown"]
       [] o = "unstage"   -> /\ co.published = "no" /\ co.staged # "no"
                             /\ step("teardown") /\ co' = [co EXCEPT !.staged = "unknown"]
  /\ UNCHANGED <<kernelVars, files, fs, access, size, deleted, boundVars>>

Answer ==
  /\ call.pc \in {"done", "failed"} /\ call' = NoCall
  /\ co' = IF At("failed") THEN co
           ELSE CASE call.op = "stage"     -> [co EXCEPT !.staged = "yes"]
                  [] call.op = "publish"   -> [co EXCEPT !.published = "yes"]
                  [] call.op = "expand"    -> [co EXCEPT !.grown = TRUE]
                  [] call.op = "unpublish" -> [co EXCEPT !.published = "no"]
                  [] call.op = "unstage"   -> [co EXCEPT !.staged = "no"]
  /\ UNCHANGED <<kernelVars, files, fs, access, size, deleted, boundVars>>

\* The volume is no longer wanted on the node.
Release ==
  /\ co.goal = "use" /\ co' = [co EXCEPT !.goal = "drop"]
  /\ UNCHANGED <<kernelVars, files, fs, access, size, deleted, call, boundVars>>

\* ExpandRawFile grows the image (see Volumes).
ExpandRawFile ==
  /\ Ready /\ size.img = 1 /\ size' = [size EXCEPT !.img = 2]
  /\ UNCHANGED <<kernelVars, files, fs, access, deleted, call, co, boundVars>>

\* Steps at which a call does not hold the volume's lock.
Unlocked == call.pc \in {"idle", "stage", "publish", "expand", "teardown", "done", "failed"}

\* delete_volume looks for attached devices, and only then takes the lock, which
\* fails if a call holds it, and marks the volume; destroy_volume removes the
\* metadata without the lock.
DeleteVolume ==
  /\ \/ deleted = "no" /\ co.goal = "drop" /\ ImgLoops = {} /\ deleted' = "checked"
     \/ deleted = "checked" /\ deleted' = IF Unlocked THEN "marked" ELSE "no"
     \/ deleted = "marked" /\ deleted' = "gone"
  /\ UNCHANGED <<kernelVars, files, fs, access, size, call, co, boundVars>>

\* The deletion that a kill ends starts over.
Restarted == deleted' = IF deleted = "checked" THEN "no" ELSE deleted

OtherImage(l) ==
  /\ loopOf[l] # "img"
  /\ loopOf' = [loopOf EXCEPT ![l] = IF @ = None THEN "other" ELSE None]
  /\ UNCHANGED <<mnt, files, fs, access, size, deleted, call, co, boundVars>>

Crash ==
  /\ faults < MaxFaults /\ faults' = faults + 1 /\ call' = NoCall /\ Restarted
  /\ UNCHANGED <<kernelVars, files, fs, access, size, co, reboots>>

Reboot ==
  /\ reboots < MaxReboots /\ reboots' = reboots + 1 /\ call' = NoCall /\ Restarted
  /\ loopOf' = [l \in Loop |-> None] /\ mnt' = [m \in Mountpoint |-> None]
  /\ co' = [co EXCEPT !.staged = IF @ = "no" THEN @ ELSE "unknown",
                      !.published = IF @ = "no" THEN @ ELSE "unknown"]
  /\ UNCHANGED <<files, fs, access, size, faults>>

-----------------------------------------------------------------------------

Init ==
  /\ loopOf = [l \in Loop |-> None] /\ mnt = [m \in Mountpoint |-> None]
  /\ files = NoFiles /\ fs = None /\ access \in {"mount", "block"}
  /\ size = [img |-> 1, loop |-> 1, fs |-> 1]
  /\ deleted = "no" /\ call = NoCall
  /\ co = [goal |-> "use", staged |-> "no", published |-> "no", grown |-> FALSE]
  /\ faults = 0 /\ reboots = 0

Step ==
  \/ AttachLoop \/ BeSymlink \/ LinkDevice \/ DetachLoops \/ FormatFs \/ Mount
  \/ MountUnknown \/ Unmount \/ UnmountUnknown \/ ClearMountpoint \/ NodeStageVolume \/ NodeStageDevice
  \/ NodePublishVolume \/ Teardown \/ NodeUnpublishDevice \/ NodeUnstageDevice
  \/ NodeUnstageVolume \/ NodeExpandVolume \/ Answer

Op == {"stage", "publish", "expand", "unpublish", "unstage"}

Next ==
  \/ Step \/ \E o \in Op : Ask(o)
  \/ Release \/ ExpandRawFile \/ DeleteVolume \/ \E l \in Loop : OtherImage(l)
  \/ Crash \/ Reboot

Spec == Init /\ [][Next]_vars

\* A call that runs goes on.  kubelet repeats the calls that set the volume up,
\* and once it is given up those that take it down.
FairSpec ==
  /\ Spec /\ WF_vars(Step)
  /\ SF_vars(Ask("stage")) /\ SF_vars(Ask("publish"))
  /\ SF_vars(co.goal = "drop" /\ Ask("unpublish")) /\ SF_vars(co.goal = "drop" /\ Ask("unstage"))

-----------------------------------------------------------------------------
(* Properties *)

\* Types; and the device that attach_loop returned is attached to the image
\* for as long as the call uses it.
TypeOK ==
  /\ loopOf \in [Loop -> {None, "img", "other"}] /\ mnt \in [Mountpoint -> Loop \cup {None}]
  /\ files \in [points : SUBSET Mountpoint, block : BOOLEAN, dev : Loop \cup {None}, device : BOOLEAN]
  /\ fs \in {None, "made"} /\ size \in [img : 1..2, loop : 1..2, fs : 1..2] /\ deleted \in {"no", "checked", "marked", "gone"}
  /\ call.op \in Op \cup {"none"} /\ call.dev \in ImgLoops \cup {None}
  /\ co \in [goal : {"use", "drop"}, staged : {"no", "unknown", "yes"},
             published : {"no", "unknown", "yes"}, grown : BOOLEAN]

\* Whatever is mounted for the volume is its own image, although links survive
\* a reboot after which their device may hold another volume.
OwnDevice == \A m \in Mountpoint : mnt[m] # None => loopOf[mnt[m]] = "img"

\* A successful NodeStageVolume or NodePublishVolume means what it says until
\* the next teardown or reboot.
AnswersAreTrue ==
  /\ co.staged = "yes" => files.dev \in ImgLoops /\ (IsMount => mnt["stage"] = files.dev)
  /\ co.published = "yes" => mnt["target"] \in ImgLoops

\* A successful NodeUnstageVolume leaves no mount or link behind, with kills,
\* reboots and a deletion of the volume in between, and no device unless the
\* volume was deleted: clear_deleted_volume looks at no device, and a staging that
\* came between the two halves of delete_volume has attached one.
UnstagedIsClean ==
  co.staged = "no" =>
    /\ ImgLoops = {} \/ VolumeDeleted
    /\ mnt["stage"] = None /\ files = [NoFiles EXCEPT !.points = files.points \ {"stage"}]

\* After a successful NodeExpandVolume the file system has the size of the
\* image, also if the first attempt was killed between its two commands.
ExpandReachesFs ==
  co.grown => size.loop = size.img /\ (IsMount => size.fs = size.img)

\* kubelet gets a volume with a file system to its pod as long as it is wanted and
\* a loop device is left for it: NodeStageVolume and NodePublishVolume recover
\* from what a kill, a reboot or a failed command left half done.
MountSetupCompletes ==
  IsMount /\ <>[](co.goal = "use" /\ \E l \in Loop : loopOf[l] # "other") => []<>(co.published = "yes")

\* The volume was deleted while it was mounted, by a delete_volume that had seen
\* no device before the staging: the teardown is answered NOT_FOUND then.
DeletedInUse == VolumeDeleted /\ \E m \in Mountpoint : Mounted(m)

\* kubelet gets a volume that it gives up off the node, unless it was deleted in
\* use: NodeUnpublishVolume and then NodeUnstageVolume succeed at last.
TeardownCompletes ==
  co.goal = "drop" ~> (co.staged = "no" /\ co.published = "no") \/ DeletedInUse

\* The same for volumes with a file system.
MountTeardownCompletes == IsMount => TeardownCompletes

=============================================================================

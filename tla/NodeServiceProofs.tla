------------------------- MODULE NodeServiceProofs --------------------------
(***************************************************************************)
(* The safety properties of NodeService for any number of loop devices,    *)
(* kills and reboots.  Each rests on the others: a mount shows the image   *)
(* because staging was answered truly, a volume is off the node because    *)
(* nothing of it was mounted when its devices were detached, and so on.    *)
(***************************************************************************)
EXTENDS NodeService, TLAPS

Pc == {"idle", "stage", "stage_dev", "attach", "link", "link_device", "format", "mount", "publish",
       "expand", "resize", "teardown", "umount", "rmdir", "un_device", "un_dev", "detach", "un_block",
       "done", "failed"}

Files == [points : SUBSET Mountpoint, block : BOOLEAN, dev : Loop \cup {None}, device : BOOLEAN]

View == [goal : {"use", "drop"}, staged : {"no", "unknown", "yes"},
         published : {"no", "unknown", "yes"}, grown : BOOLEAN]

TypeInv ==
  /\ loopOf \in [Loop -> {None, "img", "other"}] /\ mnt \in [Mountpoint -> Loop \cup {None}]
  /\ files \in Files
  /\ call \in [op : Op \cup {"none"}, pc : Pc, at : Mountpoint \cup {"none"}, dev : Loop \cup {None}]
  /\ co \in View
  /\ size \in [img : {1, 2}, loop : {1, 2}, fs : {1, 2}] /\ deleted \in {"no", "checked", "marked", "gone"}
  /\ fs \in {None, "made"}

\* The steps that each call goes through, where it works, and what the CO can
\* rely on meanwhile.
CallInv ==
  /\ call.op = "none" => call.pc = "idle"
  /\ call.op = "stage" =>
       /\ call.pc \in {"stage", "stage_dev", "attach", "link", "link_device", "format", "mount", "done", "failed"}
       /\ call.at = "stage" /\ co.staged = "unknown"
  /\ call.op = "publish" =>
       /\ call.pc \in {"publish", "mount", "done", "failed"}
       /\ call.at = "target" /\ co.staged = "yes" /\ co.published = "unknown"
  /\ call.op = "expand" => call.pc \in {"expand", "resize", "done", "failed"}
  /\ call.op = "unpublish" =>
       /\ call.pc \in {"teardown", "umount", "rmdir", "done", "failed"}
       /\ call.at = "target" /\ co.published = "unknown"
  /\ call.op = "unstage" =>
       /\ call.pc \in {"teardown", "umount", "rmdir", "un_device", "un_dev", "detach", "un_block", "done", "failed"}
       /\ call.at = "stage" /\ co.staged = "unknown"

\* Whether the call is an o that is at one of the steps s.
In(o, s) == call.op = o /\ call.pc \in s

\* The device that a staging found is attached to the image, the links are made
\* to lead to it before they are used, and success is reported for a mount.
DeviceInv ==
  /\ call.dev # None => call.op = "stage" /\ call.dev \in ImgLoops
  /\ In("stage", {"link", "link_device", "format", "mount", "done"}) => call.dev \in ImgLoops
  /\ In("stage", {"link_device", "format", "mount", "done"}) => files.dev = call.dev
  /\ In("stage", {"done"}) /\ IsMount => mnt["stage"] = files.dev
  /\ In("publish", {"done"}) => mnt["target"] # None

\* What a teardown has removed so far.  Only clear_deleted_volume is done while a
\* device is attached.
CleanInv ==
  /\ \A m \in Mountpoint : mnt[m] # None => m \in files.points
  /\ co.published = "no" \/ In("unpublish", {"rmdir", "done"}) => mnt["target"] = None
  /\ call.op = "unstage" => co.published = "no"
  /\ In("unstage", {"rmdir", "un_device", "un_dev", "detach", "un_block", "done"}) => mnt["stage"] = None
  /\ In("unstage", {"un_device", "un_dev", "detach", "un_block", "done"}) => "stage" \notin files.points
  /\ In("unstage", {"un_dev", "detach", "un_block", "done"}) => files.device = FALSE
  /\ In("unstage", {"detach", "un_block", "done"}) => files.dev = None
  /\ In("unstage", {"un_block"}) => ImgLoops = {}
  /\ In("unstage", {"done"}) => files.block = FALSE /\ (ImgLoops = {} \/ VolumeDeleted)

\* The device and the file system follow the image once it is expanded.
SizeInv ==
  /\ call.op = "expand" \/ co.grown => size.img = 2
  /\ In("expand", {"resize", "done"}) \/ co.grown => size.loop = 2
  /\ In("expand", {"done"}) \/ co.grown => (IsMount => size.fs = 2)

NodeInv ==
  /\ TypeInv /\ CallInv /\ DeviceInv /\ CleanInv /\ SizeInv
  /\ OwnDevice /\ AnswersAreTrue /\ UnstagedIsClean /\ ExpandReachesFs

USE DEF None, Mountpoint, Op, Files, View

\* What the steps that set a flag in a record make of it is such a record.
LEMMA FlagSet ==
  /\ \A f \in Files : [f EXCEPT !.block = TRUE] \in Files /\ [f EXCEPT !.device = TRUE] \in Files
  /\ \A p \in SUBSET Mountpoint : [NoFiles EXCEPT !.points = p] \in Files
  /\ \A c \in View : [c EXCEPT !.grown = TRUE] \in View
<1>1. \A f \in Files : [f EXCEPT !.block = TRUE] \in Files
  BY Zenon
<1>2. \A f \in Files : [f EXCEPT !.device = TRUE] \in Files
  BY Zenon
<1>3. \A p \in SUBSET Mountpoint : [NoFiles EXCEPT !.points = p] \in Files
  BY Zenon DEF NoFiles
<1>4. \A c \in View : [c EXCEPT !.grown = TRUE] \in View
  BY Zenon
<1> QED
  BY <1>1, <1>2, <1>3, <1>4, Zenon

\* Files of which a teardown has left nothing are as UnstagedIsClean says.
LEMMA Cleared ==
  ASSUME NEW f \in Files, "stage" \notin f.points, f.block = FALSE, f.dev = None, f.device = FALSE
  PROVE  f = [NoFiles EXCEPT !.points = f.points \ {"stage"}]
<1> DEFINE g == [NoFiles EXCEPT !.points = f.points \ {"stage"}]
<1>1. g \in Files
  BY Zenon DEF NoFiles
<1>2. g.points = f.points /\ g.dev = f.dev
  BY Zenon DEF NoFiles
<1>3. g.block = f.block
  BY Zenon DEF NoFiles
<1>4. g.device = f.device
  BY Zenon DEF NoFiles
<1> HIDE DEF g
<1>5. f = g
  BY <1>1, <1>2, <1>3, <1>4
<1> QED
  BY <1>5, Zenon DEF g

\* A node that has not seen the volume.
LEMMA InitNode == Init => NodeInv
<1> USE NodeAssumption DEF Init, TypeInv, CallInv, DeviceInv, CleanInv, SizeInv, In, OwnDevice, AnswersAreTrue,
  UnstagedIsClean, ExpandReachesFs, VolumeDeleted, NoFiles, NoCall, ImgLoops, Pc, IsMount
<1> HAVE Init
<1>1. TypeInv
  BY Zenon
<1>2. CallInv
  BY Zenon
<1>3. DeviceInv
  BY Zenon
<1>4. CleanInv
  BY Zenon
<1>5. SizeInv
  BY Zenon
<1>6. OwnDevice
  BY Zenon
<1>7. AnswersAreTrue
  BY Zenon
<1>8. UnstagedIsClean
  BY SMTT(30)
<1>9. ExpandReachesFs
  BY Zenon
<1> QED
  BY <1>1, <1>2, <1>3, <1>4, <1>5, <1>6, <1>7, <1>8, <1>9, Zenon DEF NodeInv

\* One step of the call that runs; each action of NodeService.
LEMMA StepNode == NodeInv /\ Step => NodeInv'
<1> USE NodeAssumption DEF NodeInv, TypeInv, CallInv, DeviceInv, CleanInv, SizeInv, In, OwnDevice, AnswersAreTrue,
  UnstagedIsClean, ExpandReachesFs, VolumeDeleted, ImgLoops, Pc, IsMount, At, Calls, Asked, BlkidFails, kernelVars, boundVars, NoFiles
<1> SUFFICES ASSUME NodeInv, Step PROVE NodeInv'
  BY Zenon
<1>1. CASE AttachLoop
  <2>1. call.pc = "attach" /\ UNCHANGED <<mnt, files, fs, access, deleted, co>>
    BY <1>1, Zenon DEF AttachLoop
  <2>2. call.op = "stage" /\ co.staged = "unknown"
    BY <2>1, Zenon
  <2>3. CASE \E l \in ImgLoops : call' = [call EXCEPT !.pc = "link", !.dev = l] /\ UNCHANGED <<loopOf, size>>
    <3> PICK l \in ImgLoops : call' = [call EXCEPT !.pc = "link", !.dev = l] /\ UNCHANGED <<loopOf, size>>
      BY <2>3, Zenon
    <3>1. TypeInv'
      <4>1. l \in Loop
        BY Zenon
      <4>2. call' \in [op : Op \cup {"none"}, pc : Pc, at : Mountpoint \cup {"none"}, dev : Loop \cup {None}]
        BY <4>1, ZenonT(30)
      <4> QED
        BY <2>1, <4>2
    <3>2. CallInv' /\ DeviceInv'
      BY <2>1, <2>2, ZenonT(30)
    <3>3. CleanInv' /\ SizeInv' /\ ExpandReachesFs'
      BY <2>1, <2>2
    <3>4. OwnDevice' /\ AnswersAreTrue' /\ UnstagedIsClean'
      BY <2>1, <2>2
    <3> QED
      BY <3>1, <3>2, <3>3, <3>4, Zenon
  <2>4. CASE /\ \E l \in Loop : loopOf[l] = None /\ loopOf' = [loopOf EXCEPT ![l] = "img"]
             /\ size' = [size EXCEPT !.loop = size.img] /\ UNCHANGED call
    <3> PICK l \in Loop : loopOf[l] = None /\ loopOf' = [loopOf EXCEPT ![l] = "img"]
      BY <2>4, Zenon
    <3> QED
      BY <2>1, <2>2, <2>4
  <2>5. CASE Raise /\ UNCHANGED <<loopOf, size>>
    BY <2>1, <2>2, <2>5 DEF Raise, Goto
  <2> QED
    BY <1>1, <2>3, <2>4, <2>5, Zenon DEF AttachLoop
<1>2. CASE BeSymlink
  BY <1>2, SMTT(30) DEF BeSymlink, Goto
<1>3. CASE LinkDevice
  <2>1. TypeInv'
    <3>1. files' \in Files
      BY <1>3, Zenon DEF LinkDevice, Goto
    <3>2. call' = [call EXCEPT !.pc = call'.pc] /\ call'.pc \in Pc
      BY <1>3, Zenon DEF LinkDevice, Goto
    <3> QED
      BY <1>3, <3>1, <3>2 DEF LinkDevice
  <2>2. CallInv' /\ DeviceInv' /\ SizeInv' /\ OwnDevice' /\ AnswersAreTrue' /\ ExpandReachesFs'
    BY <1>3 DEF LinkDevice, Goto
  <2>3. CleanInv' /\ UnstagedIsClean'
    BY <1>3 DEF LinkDevice, Goto
  <2> QED
    BY <2>1, <2>2, <2>3, Zenon
<1>4. CASE DetachLoops
  BY <1>4, SMTT(30) DEF DetachLoops, Goto
<1>5. CASE FormatFs
  BY <1>5, SMTT(30) DEF FormatFs, Goto, Mkfs, Raise, HasFileSystem
<1>6. CASE Mount
  BY <1>6, SMTT(30) DEF Mount, Goto, Raise, MountDevice, DevicePath, FromDevice, HasFileSystem, Mounted, DeviceAt
<1>7. CASE Unmount
  BY <1>7, SMTT(30) DEF Unmount, Goto, Raise, AfterUnmount, Mounted, DeviceAt
<1>8. CASE ClearMountpoint
  <2>1. TypeInv' /\ CallInv' /\ DeviceInv'
    BY <1>8, SMTT(30) DEF ClearMountpoint, Goto, AfterUnmount
  <2>2. CleanInv' /\ SizeInv' /\ ExpandReachesFs'
    BY <1>8, SMTT(30) DEF ClearMountpoint, Goto, AfterUnmount
  <2>3. OwnDevice' /\ AnswersAreTrue' /\ UnstagedIsClean'
    <3>1. /\ files' = [files EXCEPT !.points = @ \ {call.at}]
          /\ UNCHANGED <<loopOf, mnt, access, co, deleted>>
      BY <1>8, Zenon DEF ClearMountpoint
    <3>2. OwnDevice' /\ AnswersAreTrue'
      BY <3>1
    <3>3. UnstagedIsClean'
      BY <3>1, SMTT(30)
    <3> QED
      BY <3>2, <3>3, Zenon
  <2> QED
    BY <2>1, <2>2, <2>3, Zenon
<1>9. CASE NodeStageVolume
  <2>1. TypeInv'
    <3>1. files' \in Files
      <4>1. UNCHANGED files \/ files' = [files EXCEPT !.block = TRUE]
        BY <1>9, Zenon DEF NodeStageVolume
      <4>2. files \in Files
        BY Zenon
      <4> QED
        BY <4>1, <4>2, FlagSet, ZenonT(30)
    <3>2. call' = [call EXCEPT !.pc = call'.pc] /\ call'.pc \in Pc
      BY <1>9 DEF NodeStageVolume, Goto, Raise, Ready
    <3> QED
      BY <1>9, <3>1, <3>2 DEF NodeStageVolume
  <2>2. CallInv' /\ DeviceInv' /\ SizeInv' /\ OwnDevice' /\ AnswersAreTrue' /\ ExpandReachesFs'
    BY <1>9 DEF NodeStageVolume, Goto, Raise, Ready
  <2>3. CleanInv' /\ UnstagedIsClean'
    BY <1>9 DEF NodeStageVolume, Goto, Raise, Ready
  <2> QED
    BY <2>1, <2>2, <2>3, Zenon
<1>10. CASE NodeStageDevice
  BY <1>10, SMTT(30) DEF NodeStageDevice, Goto, Raise, Ready
<1>11. CASE NodePublishVolume
  BY <1>11, SMTT(30) DEF NodePublishVolume, Goto, Raise, Ready
<1>12. CASE Teardown
  <2>1. TypeInv'
    <3>1. files' \in Files
      BY <1>12, FlagSet DEF Teardown
    <3>2. call' = [call EXCEPT !.pc = call'.pc] /\ call'.pc \in Pc
      BY <1>12 DEF Teardown, Goto, Raise, VolumeDeleted, Mounted, DeviceAt, NoFiles
    <3> QED
      BY <1>12, <3>1, <3>2 DEF Teardown
  <2>2. CallInv' /\ DeviceInv' /\ SizeInv' /\ OwnDevice' /\ AnswersAreTrue' /\ ExpandReachesFs'
    BY <1>12 DEF Teardown, Goto, Raise, VolumeDeleted, Mounted, DeviceAt, NoFiles
  <2>3. CleanInv' /\ UnstagedIsClean'
    BY <1>12 DEF Teardown, Goto, Raise, VolumeDeleted, Mounted, DeviceAt, NoFiles
  <2> QED
    BY <2>1, <2>2, <2>3, Zenon
<1>13. CASE NodeUnpublishDevice
  <2>1. TypeInv'
    BY <1>13, ZenonT(30) DEF NodeUnpublishDevice, Goto
  <2>2. CallInv' /\ DeviceInv' /\ SizeInv' /\ OwnDevice' /\ AnswersAreTrue' /\ ExpandReachesFs'
    BY <1>13, ZenonT(30) DEF NodeUnpublishDevice, Goto
  <2>3. CleanInv' /\ UnstagedIsClean'
    BY <1>13 DEF NodeUnpublishDevice, Goto
  <2> QED
    BY <2>1, <2>2, <2>3, Zenon
<1>14. CASE NodeUnstageDevice
  BY <1>14, SMTT(30) DEF NodeUnstageDevice, Goto, Raise, VolumeDeleted
<1>15. CASE NodeUnstageVolume
  <2>1. TypeInv'
    BY <1>15, ZenonT(30) DEF NodeUnstageVolume, Goto
  <2>2. CallInv' /\ DeviceInv' /\ SizeInv' /\ OwnDevice' /\ AnswersAreTrue' /\ ExpandReachesFs'
    BY <1>15 DEF NodeUnstageVolume, Goto
  <2>3. CleanInv' /\ UnstagedIsClean'
    BY <1>15 DEF NodeUnstageVolume, Goto
  <2> QED
    BY <2>1, <2>2, <2>3, Zenon
<1>16. CASE NodeExpandVolume
  BY <1>16, SMTT(30) DEF NodeExpandVolume, Goto, Raise, RefreshLoop, ResizeFs
<1>17. CASE Answer
  <2>1. call' = NoCall /\ call.op # "none" /\ UNCHANGED <<loopOf, mnt, files, fs, access, size, deleted>>
    BY <1>17, Zenon DEF Answer
  <2>2. CASE UNCHANGED co
    BY <2>1, <2>2 DEF NoCall
  <2>3. CASE In("stage", {"done"}) /\ co' = [co EXCEPT !.staged = "yes"]
    BY <2>1, <2>3 DEF NoCall
  <2>4. CASE In("publish", {"done"}) /\ co' = [co EXCEPT !.published = "yes"]
    BY <2>1, <2>4 DEF NoCall
  <2>5. CASE In("unpublish", {"done"}) /\ co' = [co EXCEPT !.published = "no"]
    BY <2>1, <2>5 DEF NoCall
  <2>6. CASE In("unstage", {"done"}) /\ co' = [co EXCEPT !.staged = "no"]
    <3>1. UnstagedIsClean'
      <4>1. files = [NoFiles EXCEPT !.points = files.points \ {"stage"}]
        <5>1. files \in Files /\ "stage" \notin files.points /\ files.dev = None
          BY <2>6, Zenon
        <5>2. files.block = FALSE /\ files.device = FALSE
          BY <2>6, Zenon
        <5> HIDE DEF NoFiles, Files
        <5> QED
          BY <5>1, <5>2, Cleared, Zenon
      <4>2. (ImgLoops = {} \/ VolumeDeleted) /\ mnt["stage"] = None
        BY <2>6, Zenon
      <4> HIDE DEF NoFiles, ImgLoops, VolumeDeleted
      <4>3. UNCHANGED <<files, mnt, ImgLoops, VolumeDeleted>>
        BY <2>1 DEF ImgLoops, VolumeDeleted
      <4> QED
        BY <4>1, <4>2, <4>3, Zenon
    <3>2. TypeInv' /\ AnswersAreTrue' /\ CleanInv'
      BY <2>1, <2>6 DEF NoCall
    <3> QED
      BY <2>1, <2>6, <3>1, <3>2 DEF NoCall
  <2>7. CASE In("expand", {"done"}) /\ co' = [co EXCEPT !.grown = TRUE]
    <3>1. co' \in View /\ co'.staged = co.staged /\ co'.published = co.published
      BY <2>7, FlagSet, ZenonT(30)
    <3> QED
      BY <2>1, <2>7, <3>1 DEF NoCall
  <2> QED
    BY <1>17, <2>1, <2>2, <2>3, <2>4, <2>5, <2>6, <2>7, ZenonT(30) DEF Answer
<1>18. CASE MountUnknown
  BY <1>18 DEF MountUnknown, Goto, Raise
<1>19. CASE UnmountUnknown
  BY <1>19 DEF UnmountUnknown, Goto, Raise
<1> QED
  BY <1>1, <1>2, <1>3, <1>4, <1>5, <1>6, <1>7, <1>8, <1>9, <1>10, <1>11, <1>12, <1>13, <1>14, <1>15, <1>16, <1>17,
    <1>18, <1>19, Zenon DEF Step

\* How the CO's calls begin.
Begins(o, step, m) ==
  /\ call.pc = "idle" /\ call' = [op |-> o, pc |-> step, at |-> m, dev |-> None]
  /\ UNCHANGED <<loopOf, mnt, files, fs, access, size, deleted>>

\* What a call of each kind may rely on when it begins.
LEMMA AskStep ==
  ASSUME NEW o \in Op, Ask(o)
  PROVE  \/ Begins("stage", "stage", "stage") /\ co.staged # "yes" /\ co' = [co EXCEPT !.staged = "unknown"]
         \/ Begins("publish", "publish", "target") /\ co.staged = "yes" /\ co' = [co EXCEPT !.published = "unknown"]
         \/ Begins("expand", "expand", "stage") /\ size.img = 2 /\ UNCHANGED co
         \/ Begins("unpublish", "teardown", "target") /\ co.published # "no" /\ co' = [co EXCEPT !.published = "unknown"]
         \/ Begins("unstage", "teardown", "stage") /\ co.published = "no" /\ co' = [co EXCEPT !.staged = "unknown"]
<1>1. CASE o = "stage"
  BY <1>1, Ask(o), Zenon DEF Ask, At, NoCall, Begins, kernelVars, boundVars
<1>2. CASE o = "publish"
  BY <1>2, Ask(o), Zenon DEF Ask, At, NoCall, Begins, kernelVars, boundVars
<1>3. CASE o = "expand"
  BY <1>3, Ask(o), Zenon DEF Ask, At, NoCall, Begins, kernelVars, boundVars
<1>4. CASE o = "unpublish"
  BY <1>4, Ask(o), Zenon DEF Ask, At, NoCall, Begins, kernelVars, boundVars
<1>5. CASE o = "unstage"
  BY <1>5, Ask(o), Zenon DEF Ask, At, NoCall, Begins, kernelVars, boundVars
<1> QED
  BY <1>1, <1>2, <1>3, <1>4, <1>5, Zenon

\* What the CO, other volumes, kills and reboots do.
LEMMA OutsideNode ==
  ASSUME NodeInv,
         \/ \E o \in Op : Ask(o)
         \/ Release \/ ExpandRawFile \/ DeleteVolume \/ \E l \in Loop : OtherImage(l)
         \/ Crash \/ Reboot
  PROVE  NodeInv'
<1> USE NodeAssumption DEF NodeInv, TypeInv, CallInv, DeviceInv, CleanInv, SizeInv, In, OwnDevice, AnswersAreTrue,
  UnstagedIsClean, ExpandReachesFs, VolumeDeleted, ImgLoops, Pc, IsMount, At, kernelVars, boundVars, NoFiles
<1>1. ASSUME NEW o \in Op, Ask(o) PROVE NodeInv'
  <2>1. CASE Begins("stage", "stage", "stage") /\ co.staged # "yes" /\ co' = [co EXCEPT !.staged = "unknown"]
    BY <2>1 DEF Begins
  <2>2. CASE Begins("publish", "publish", "target") /\ co.staged = "yes" /\ co' = [co EXCEPT !.published = "unknown"]
    BY <2>2 DEF Begins
  <2>3. CASE Begins("expand", "expand", "stage") /\ size.img = 2 /\ UNCHANGED co
    BY <2>3 DEF Begins
  <2>4. CASE Begins("unpublish", "teardown", "target") /\ co.published # "no" /\ co' = [co EXCEPT !.published = "unknown"]
    BY <2>4 DEF Begins
  <2>5. CASE Begins("unstage", "teardown", "stage") /\ co.published = "no" /\ co' = [co EXCEPT !.staged = "unknown"]
    BY <2>5 DEF Begins
  <2> QED
    BY <1>1, <2>1, <2>2, <2>3, <2>4, <2>5, AskStep, ZenonT(30)
<1>2. CASE Release
  BY <1>2 DEF Release
<1>3. CASE ExpandRawFile
  BY <1>3 DEF ExpandRawFile
<1>4. CASE DeleteVolume
  BY <1>4 DEF DeleteVolume, Unlocked
<1>5. ASSUME NEW l \in Loop, OtherImage(l) PROVE NodeInv'
  BY <1>5 DEF OtherImage
<1>6. CASE Crash
  BY <1>6 DEF Crash, NoCall, Restarted
<1>7. CASE Reboot
  <2>1. /\ call' = NoCall /\ Restarted /\ UNCHANGED <<files, fs, access, size>>
        /\ loopOf' = [l \in Loop |-> None] /\ mnt' = [m \in Mountpoint |-> None]
    BY <1>7, Zenon DEF Reboot
  <2>2. /\ co' \in View /\ co'.grown = co.grown
        /\ co'.staged = "unknown" \/ (co'.staged = "no" /\ co.staged = "no")
        /\ co'.published \in {"unknown", "no"}
    BY <1>7, Zenon DEF Reboot
  <2>3. TypeInv' /\ CallInv' /\ DeviceInv'
    BY <2>1, <2>2 DEF NoCall, Restarted
  <2>4. CleanInv' /\ SizeInv' /\ ExpandReachesFs'
    BY <2>1, <2>2 DEF NoCall, Restarted
  <2>5. OwnDevice' /\ AnswersAreTrue' /\ UnstagedIsClean'
    BY <2>1, <2>2, ZenonT(30)
  <2> QED
    BY <2>3, <2>4, <2>5, Zenon
<1> QED
  BY <1>1, <1>2, <1>3, <1>4, <1>5, <1>6, <1>7, ZenonT(30)

\* The conjunction of all these is inductive.
LEMMA Inductive == Spec => []NodeInv
<1>1. Init => NodeInv
  BY InitNode, Zenon
<1>2. NodeInv /\ [Next]_vars => NodeInv'
  <2> SUFFICES ASSUME NodeInv, [Next]_vars PROVE NodeInv'
    BY Zenon
  <2>1. CASE Next
    BY <2>1, StepNode, OutsideNode, Zenon DEF Next
  <2>2. CASE UNCHANGED vars
    BY <2>2 DEF vars, kernelVars, NodeInv, TypeInv, CallInv, DeviceInv, CleanInv, SizeInv, In, OwnDevice,
      AnswersAreTrue, UnstagedIsClean, ExpandReachesFs, VolumeDeleted, ImgLoops, IsMount
  <2> QED
    BY <2>1, <2>2, Zenon
<1> QED
  BY <1>1, <1>2, PTL DEF Spec

\* A stage or target path never shows another image: be_symlink replaces a link
\* that survived a reboot before FileSystem.mount follows it.
THEOREM MountsOwnImage == Spec => []OwnDevice
<1>1. NodeInv => OwnDevice
  BY Zenon DEF NodeInv
<1> QED
  BY <1>1, Inductive, PTL

\* What NodeStageVolume and NodePublishVolume answered stays true until the next
\* teardown or reboot, wherever earlier attempts were killed.
THEOREM AnswersStayTrue == Spec => []AnswersAreTrue
<1>1. NodeInv => AnswersAreTrue
  BY Zenon DEF NodeInv
<1> QED
  BY <1>1, Inductive, PTL

\* A successful NodeUnstageVolume left no mount, no link and no device, and if
\* clear_deleted_volume did the work only perhaps a device.
THEOREM UnstageIsComplete == Spec => []UnstagedIsClean
<1>1. NodeInv => UnstagedIsClean
  BY Zenon DEF NodeInv
<1> QED
  BY <1>1, Inductive, PTL

\* A successful NodeExpandVolume brought device and file system to the size of the
\* image, however often it was killed between losetup -c and the resize.
THEOREM ExpandIsComplete == Spec => []ExpandReachesFs
<1>1. NodeInv => ExpandReachesFs
  BY Zenon DEF NodeInv
<1> QED
  BY <1>1, Inductive, PTL

\* Every variable keeps the kind of value its declaration says; the device that
\* attach_loop found stays attached to the image while the call uses it.
THEOREM NodeTypes == Spec => []TypeOK
<1>1. NodeInv => TypeOK
  BY DEF NodeInv, TypeInv, DeviceInv, TypeOK
<1> QED
  BY <1>1, Inductive, PTL

=============================================================================

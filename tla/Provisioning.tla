---------------------------- MODULE Provisioning ----------------------------
(***************************************************************************)
(* The capacity of one pool: get_capacity (utils/storage_pool.py), the     *)
(* checks of CreateVolume and ExpandRawFile against it, and the            *)
(* allocation, which comes later and in other threads.  Another pool is on *)
(* another file system.  Capacities are in hundredths of a block, as the   *)
(* reserve may be a percentage.  Images share no blocks; snapshots, the    *)
(* temporary one of a clone too, are part of what others use.              *)
(***************************************************************************)
EXTENDS Integers, FiniteSetsExt

CONSTANTS
  Volume,
  Clones,    \* volumes that are made from another volume,
  Restores,  \* or from a snapshot of another volume,
  Source,    \* and which volume that is
  Size,      \* size asked for each volume
  MaxSize,   \* bound: of an expansion
  MaxOther,  \* bound: of what others use
  MaxChecks, \* bound: calls that are in get_capacity at a time
  Total,     \* blocks of the file system
  Reserve    \* configurations: reserved_capacity and its mode

Copies == Clones \cup Restores

ASSUME ProvisioningAssumption ==
  /\ IsFiniteSet(Volume) /\ Copies \subseteq Volume /\ Source \in [Copies -> Volume]
  /\ MaxSize \in Nat /\ MaxOther \in Nat /\ MaxChecks \in Nat
  /\ Size \in [Volume -> 1..MaxSize] /\ Total \in Nat \ {0}
  /\ \A r \in Reserve : r.value \in Nat /\ r.percent \in BOOLEAN /\ r.mode \in {"plain", "subtract-from-total"}

VARIABLES
  reserve,   \* the pool's reserve
  other,     \* blocks that others use, snapshots among them
  st,        \* each volume: none, in its task, ready, or stuck without having become ready
  thin,      \* its metadata, which stay while it has snapshots: whether it is thin,
  size,      \*   and its size
  image,     \* the length of its image, or of the last one it had
  physical,  \* the blocks that the image has
  reach,     \* no block and no end of the image was ever beyond this
  op,        \* the call that is handled for each volume
  to,        \* the size it is for
  need,      \* the space that it checks
  avail,     \* get_capacity for it: the free space it read,
  left,      \*   the volumes it has not looked at,
  blocks,    \*   and the blocks of those it has
  alone      \* whether nothing else took space since the check of the call began

files == <<image, physical, reach>>
volume == <<st, thin, size, files>>
reading == <<avail, left, blocks>>
call   == <<op, to, need, reading>>
vars   == <<reserve, other, volume, call, alone>>

-----------------------------------------------------------------------------
(* get_capacity *)

plain(r) == IF r.percent THEN Total * r.value ELSE 100 * r.value

subtract_from_total(r) == 100 * Total - plain(r)

Reserved(r) == IF r.mode = "plain" THEN plain(r) ELSE subtract_from_total(r)

Sum(h) == MapThenSumSet(LAMBDA v : h[v], Volume)

statvfs == Total - other - Sum(physical)

\* What is left of the pool when so many blocks are free and the images have so many.
Capacity(free, used) == Max({0, Min({100 * Total - Reserved(reserve) - 100 * used, 100 * free})})

Unread == -1

Set(f, v, value) == [f EXCEPT ![v] = value]

Checking == {v \in Volume : op[v] \in {"creating", "expanding"}}

\* The call has begun get_capacity, which is not atomic: it reads the free space first ...
ReadFree(v) ==
  /\ v \in Checking /\ avail[v] = Unread /\ avail' = Set(avail, v, statvfs)
  /\ UNCHANGED <<reserve, other, volume, op, to, need, left, blocks, alone>>

\* ... and then get_volumes_stats_by_pool looks at one image after the other.
ReadVolume(v, w) ==
  /\ v \in Checking /\ avail[v] # Unread /\ w \in left[v]
  /\ left' = Set(left, v, left[v] \ {w}) /\ blocks' = Set(blocks, v, blocks[v] + physical[w])
  /\ UNCHANGED <<reserve, other, volume, op, to, need, avail, alone>>

\* Variant: the space that was free, without regard to the reserve.
get_capacityFree(v) == 100 * avail[v]

get_capacity(v) == Capacity(avail[v], blocks[v])

-----------------------------------------------------------------------------
(* Calls and the task *)

\* The volumes that may be about to take space.
InFlight == Checking \cup {v \in Volume : st[v] = "task" \/ op[v] = "expand"}

\* The part of a call before get_capacity.  A call for a volume whose task is under
\* way adds nothing to it.
Begin(v, name, target, space) ==
  /\ op[v] = "none" /\ Cardinality(Checking) < MaxChecks
  /\ op' = Set(op, v, name) /\ to' = Set(to, v, target) /\ need' = Set(need, v, space)
  /\ left' = Set(left, v, Volume) /\ UNCHANGED <<avail, blocks>>
  /\ alone' = IF v \in InFlight THEN alone ELSE [w \in Volume |-> w = v /\ InFlight = {}]
  /\ UNCHANGED <<reserve, other, volume>>

\* The end of get_capacity: the call goes on as next if there is the space.
Check(v, name, next) ==
  /\ op[v] = name /\ avail[v] # Unread /\ left[v] = {}
  /\ op' = Set(op, v, IF get_capacity(v) >= 100 * need[v] THEN next ELSE "none")
  /\ need' = Set(need, v, 0) /\ avail' = Set(avail, v, Unread) /\ blocks' = Set(blocks, v, 0)
  /\ UNCHANGED <<reserve, other, to, left, alone>>

End(v) == op' = Set(op, v, "none") /\ to' = Set(to, v, 0)

Required(v) == IF v \in Clones THEN 3 * Size[v] ELSE Size[v]

CreateVolume(v) == Begin(v, "creating", Size[v], Required(v))

\* The space is checked, also if there is the volume already; without metadata the
\* task is started.
CreateVolumeTask(v) ==
  /\ Check(v, "creating", "create")
  /\ IF op'[v] = "create" /\ st[v] = "none"
     THEN /\ st' = Set(st, v, "task") /\ size' = Set(size, v, Size[v])
          /\ \E isThin \in BOOLEAN : thin' = Set(thin, v, isThin)
          /\ image' = Set(image, v, 0) /\ reach' = Set(reach, v, Size[v]) /\ UNCHANGED physical
     ELSE UNCHANGED volume

\* The end of the wait: the volume is ready, or the time is over.
CreateVolumeEnd(v) ==
  /\ op[v] = "create" /\ End(v)
  /\ UNCHANGED <<reserve, other, volume, need, reading, alone>>

\* The blocks of an image that has all of the first target ones: no other than these,
\* unless it was tried before to make it longer.
Filled(v, target) == {n \in target..reach[v] : physical[v] <= n /\ n <= target + physical[v]}

Image(v, n, length) == physical' = Set(physical, v, n) /\ image' = Set(image, v, length)

\* fallocate makes all blocks that are missing (a longer file stays as it is) ...
fallocate(v, target) ==
  \E n \in Filled(v, target) : statvfs >= n - physical[v] /\ Image(v, n, Max({image[v], target}))

\* ... or fails with ENOSPC after any number of them, and the file may have become
\* longer by them.
fallocateFails(v, target) ==
  /\ \E n \in Filled(v, target) : statvfs < n - physical[v]
  /\ \E n \in physical[v] .. physical[v] + statvfs : \E length \in 0..n : Image(v, n, Max({image[v], length}))

\* A new image: sparse, or with all its blocks.
Allocate(v) ==
  /\ \/ thin[v] /\ Image(v, physical[v], Size[v]) /\ st' = Set(st, v, "ready")
     \/ ~thin[v] /\ fallocate(v, Size[v]) /\ st' = Set(st, v, "ready")
     \/ ~thin[v] /\ fallocateFails(v, Size[v]) /\ UNCHANGED st
  /\ UNCHANGED reach

\* The size of a copy, which its metadata do not record.
Target(v) == IF v \in Copies THEN Max({Size[v], size[Source[v]]}) ELSE Size[v]

\* The longest that a copy can get.
Longest(v) == Max({Target(v), image[Source[v]]})

\* A copy starts over with the blocks that its source had in the snapshot, and is
\* made sparse or thick like its source, at the size that one has now; the copy or
\* fallocate may fail with ENOSPC.
Restore(v) ==
  LET sparse == thin[Source[v]] IN
  /\ size[Source[v]] > 0
  /\ \/ /\ \E length \in Target(v) .. IF sparse THEN Target(v) ELSE Longest(v) :
             \E n \in (IF sparse THEN 0 ELSE Target(v)) .. length :
               statvfs >= n - physical[v] /\ Image(v, n, length)
        /\ st' = Set(st, v, "ready")
     \/ /\ statvfs < Longest(v) - physical[v]
        /\ \E n \in 0 .. physical[v] + statvfs : \E length \in 0..Longest(v) : Image(v, n, length)
        /\ UNCHANGED st
  /\ reach' = Set(reach, v, Max({reach[v], Longest(v)}))

\* create_volume in the task, which is tried again when it fails.  An image of the
\* size asked for ends it, ready or not.
create_volume(v) ==
  /\ st[v] = "task"
  /\ \/ image[v] < Size[v] /\ v \notin Copies /\ Allocate(v)
     \/ image[v] < Size[v] /\ v \in Copies /\ Restore(v)
     \/ image[v] >= Size[v] /\ st' = Set(st, v, "stuck") /\ UNCHANGED files
  /\ UNCHANGED <<reserve, other, thin, size, call, alone>>

\* Variant: what a thick volume lacks of its old size is forgotten.
ExpandSpaceAdded(v, target) == target - size[v]

\* A thick volume gets all blocks that it lacks, holes included.
ExpandSpace(v, target) == IF thin[v] THEN target - size[v] ELSE target - physical[v]

\* ExpandRawFile.  The lock keeps other work on the volume out, not that on other
\* volumes.  After an expansion that failed the CO may ask for less.
ExpandRawFile(v, target) ==
  st[v] = "ready" /\ target > size[v] /\ Begin(v, "expanding", target, ExpandSpace(v, target))

ExpandRawFileCheck(v) ==
  /\ Check(v, "expanding", "expand")
  /\ reach' = IF op'[v] = "expand" THEN Set(reach, v, Max({reach[v], to[v]})) ELSE reach
  /\ UNCHANGED <<st, thin, size, image, physical>>

\* Variant: the new size is recorded also when the image could not grow.
GrowRecorded(v) ==
  /\ op[v] = "expand" /\ End(v)
  /\ size' = Set(size, v, to[v]) /\ image' = Set(image, v, IF thin[v] THEN to[v] ELSE image[v])
  /\ UNCHANGED <<reserve, other, st, thin, physical, reach, need, reading, alone>>

\* truncate cuts off what is beyond the new size, as in a copy that was made longer
\* than its metadata say.
truncate(v, target) ==
  \E n \in 0..physical[v] : (IF image[v] <= target THEN n = physical[v] ELSE n <= target) /\ Image(v, n, target)

\* The rest of ExpandRawFile: truncate or fallocate, then the metadata.
Grow(v) ==
  /\ op[v] = "expand" /\ End(v)
  /\ \/ thin[v] /\ truncate(v, to[v]) /\ size' = Set(size, v, to[v])
     \/ ~thin[v] /\ fallocate(v, to[v]) /\ size' = Set(size, v, to[v])
     \/ ~thin[v] /\ fallocateFails(v, to[v]) /\ UNCHANGED size
  /\ UNCHANGED <<reserve, other, st, thin, reach, need, reading, alone>>

\* The whole deletion; its steps are in Volumes.
DeleteVolume(v) ==
  /\ op[v] = "none" /\ st[v] \in {"ready", "stuck"}
  /\ st' = Set(st, v, "none") /\ physical' = Set(physical, v, 0)
  /\ UNCHANGED <<reserve, other, thin, size, image, reach, call, alone>>

-----------------------------------------------------------------------------
(* Pods, and others on the file system *)

Write(v) ==
  /\ st[v] = "ready" /\ physical[v] < image[v] /\ statvfs > 0
  /\ physical' = Set(physical, v, physical[v] + 1) /\ alone' = [w \in Volume |-> FALSE]
  /\ UNCHANGED <<reserve, other, st, thin, size, image, reach, call>>

\* mkfs, for one, discards the blocks of a thick volume.
Discard(v) ==
  /\ st[v] = "ready" /\ physical[v] > 0
  /\ physical' = Set(physical, v, 0) /\ alone' = Set(alone, v, FALSE)
  /\ UNCHANGED <<reserve, other, st, thin, size, image, reach, call>>

OtherUse ==
  /\ \/ statvfs > 0 /\ other < MaxOther /\ other' = other + 1 /\ alone' = [w \in Volume |-> FALSE]
     \/ other > 0 /\ other' = other - 1 /\ UNCHANGED alone
  /\ UNCHANGED <<reserve, volume, call>>

-----------------------------------------------------------------------------

Init ==
  /\ reserve \in Reserve /\ other = 0
  /\ st = [v \in Volume |-> "none"] /\ thin = [v \in Volume |-> FALSE]
  /\ size = [v \in Volume |-> 0] /\ image = size /\ physical = size /\ reach = size
  /\ op = [v \in Volume |-> "none"] /\ to = size /\ need = size
  /\ avail = [v \in Volume |-> Unread] /\ left = [v \in Volume |-> {}] /\ blocks = size
  /\ alone = [v \in Volume |-> FALSE]

Next ==
  \/ \E v \in Volume :
       \/ CreateVolume(v) \/ ReadFree(v) \/ \E w \in Volume : ReadVolume(v, w)
       \/ CreateVolumeTask(v) \/ CreateVolumeEnd(v) \/ create_volume(v)
       \/ \E target \in 1..MaxSize : ExpandRawFile(v, target)
       \/ ExpandRawFileCheck(v) \/ Grow(v) \/ DeleteVolume(v) \/ Write(v) \/ Discard(v)
  \/ OtherUse

Spec == Init /\ [][Next]_vars

-----------------------------------------------------------------------------
(* Properties *)

\* Types; no more blocks are used than there are, and the image of a volume that
\* is ready is at least as large as its metadata say, also after an expansion that
\* failed, or one that cut a copy.
TypeOK ==
  /\ reserve \in Reserve /\ statvfs \in 0..Total /\ other \in Nat
  /\ \A v \in Volume :
       /\ st[v] \in {"none", "task", "ready", "stuck"} /\ physical[v] \in 0..MaxSize
       /\ st[v] = "ready" => size[v] <= image[v]

\* Volumes for which space was found and not taken yet, if they get all their
\* blocks; and the size up to which they do.
Allowed ==
  {v \in Volume : \/ st[v] = "task" /\ ~thin[IF v \in Copies THEN Source[v] ELSE v]
                  \/ op[v] = "expand" /\ ~thin[v]}
Goal(v) == IF st[v] = "task" THEN Target(v) ELSE to[v]

\* What CreateVolume and ExpandRawFile allowed fits into the free space without the
\* reserve until it is allocated, unless something else took space after the check
\* began: another allocation, a pod, or others on the file system.  One exception is
\* in the code: a copy becomes as large as its source is now, and only the size asked
\* for was checked.  (The code and this count blocks that an expansion left beyond a
\* smaller size which is asked for next as if they were below it.)
AllowedFits ==
  \A v \in Allowed :
    alone[v] /\ (st[v] = "task" => Target(v) = Size[v])
      => 100 * (Goal(v) - physical[v]) <= Capacity(statvfs, Sum(physical))

=============================================================================

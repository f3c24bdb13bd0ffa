# Verification of rawfile-localpv

TLA+ models of the rawfile CSI driver (the Python package `rawfile/`), the TLC
runs that check them on small instances, and theorems about them that TLAPS
proves for every instance. `PROJECT.json` lists the parts of the system, the
runs, the source lines behind each definition, the hazards and the theorems.

## The system

The driver serves volumes that are image files on the node that uses them. A
node plugin runs on every node, a controller plugin once.

| Part | State | Operations | Module |
|---|---|---|---|
| Task manager (`utils/task_manager.py`) | `tasks.json`, `_tasks`, futures of the pool | `run_task`, `done_callback`, `retry_worker`, `start`, `shutdown` | `TaskManager` |
| Volume lock (`utils/lock.py`) | the file `disk.lock` | enter, exit | `VolLock` |
| Volume manager (`utils/volume_manager.py`) | directories, `disk.meta`, `disk.img` | create, delete, gc, destroy | `Volumes` |
| Snapshot manager (`utils/snapshot_manager.py`) | snapshot images and their `.creating` files | create, delete, restore, list | `Volumes` |
| Controller service (`rawfile_servicer.py`, `bd2fs.py`) | none of its own | CreateVolume, DeleteVolume, CreateSnapshot, DeleteSnapshot, ControllerExpandVolume | `Volumes` |
| Internal service (`internal_svc.py`) | none | ExpandRawFile; the rest only reports | `Cluster`, `Provisioning`, `Volumes` |
| Node service (`bd2fs.py`, `rawfile_servicer.py`, `declarative.py`) | staging directories and links | stage, publish, expand, unpublish, unstage | `NodeService` |
| Loop devices, file systems (`utils/rawfile.py`, `filesystem/`) | in the kernel | attach, detach, mkfs, mount, umount, resize | `NodeService` |
| Metadata file (`utils/rawfile.py`) | `disk.meta`, `disk.meta.tmp` | `update_metadata` | `MetadataFile` |
| Node addresses (`orchestrator/k8s.py`) | pods, mapping | list, watch, publish, stop | `NodeAddresses` |
| Connections (`utils/remote.py`), API server (`api_server/`) | channels, stubs, calls | connect, call, prune, close | `Cluster` |
| Capacity (`utils/storage_pool.py`) | none | `get_capacity`, used by CreateVolume and ExpandRawFile | `Provisioning` |
| Start (`rawfile.py`), migrations (`volume_schema.py`) | metadata of earlier versions | dry run, moves, `migrate_to` | `Startup` |
| Usage pings (`analytics/ga4/ping.py`) | ConfigMap | install, ping, record | `Ping` |
| Configuration (`config/model.py`) | none | validators that relate settings | `Plugin` |
| Metrics, usage events, logging, single values, generated code | | read-only or I/O | not modelled |

How they interact: a CSI call that creates a volume or a snapshot hands a task
to the task manager and polls until the files say it is ready. The task runs in
a pool thread and works on the volume's files under the volume's lock, next to
calls that delete, stage or expand the same volume. The CO (container
orchestrator; here kubelet and the sidecars) repeats every call until it
succeeds. The process may be killed at any time; files, loop devices and mounts
stay. After a reboot only files stay. The controller and the API server reach a
node plugin by the address that a watch of its pods gave, through channels that
the same watch closes. A new version of the node plugin first moves and migrates
the metadata that an earlier one left.

What is hard, and what must hold in spite of it:

- requests, retries, callbacks and a shutdown race for one task: it is executed
  once at a time, counted right, and finished in the end;
- threads race for one volume, and each may stop at any step: what says ready is
  complete, nothing in use is removed, nothing is left behind;
- kills, reboots and other volumes on the same loop devices during staging: a
  mount shows the right image, answers are true, a teardown succeeds at last;
- power failures during an update of the metadata: no torn file, no lost update;
- pods and their addresses change under calls that are under way: the mapping
  follows, calls end, and what arrives late does no harm;
- a start is killed at any step and repeated: nothing is lost, and no migration is
  applied twice;
- space is checked first and taken later, by several calls at once.

## Modules

Every step stands for the code between two points where something else can
act, or where a kill leaves something different.

**TaskManager** has one action per piece of `task_manager.py` between accesses
to shared state. `RunTask` … `AddCallback` are `run_task_ext` in order (read the
record, save Pending, submit, save Running, register, add the callback);
`PopEntry` and `SaveOutcome` are `done_callback`, which may run in a pool thread
or in the submitting thread; `RetryScan` … `Sleep` are `retry_worker`; `Recover`
and `Started` are `start`; `Shutdown` … `CloseExecutor` are `shutdown`. The pool
(`InPool`, `BeginExecution`, `EndExecution`) is external. Every access to
`tasks.json` holds `self._lock` and is one step. Executions have identities from
`Run`, which are used again once nothing refers to them.
**TaskLifecycle** is the abstract specification: the life of a record as
`docs/design/taskmanager.md` describes it.

**VolLock** models the lock file with inodes: opening creates the file if the
name is free, the lock is on the open file, and leaving unlinks the *name*.
**Volumes** extends it and adds the files of one volume and the threads that
work on them. `dirs`, `meta`, `img`, `files` and `whole` are the directories,
`disk.meta`, the size of the image, the files of the snapshots, and which of
these hold all the data. `pc[t]` is the next file operation of thread `t`;
`body` and `after` say where it goes inside and after the lock, also when it
raises; `patch` and `seen` are the update of the metadata under way and what it
has read, `found` what `destroy_volume` saw in the directories. The
`Ask…` actions are the request handlers up to their first file operation,
`Answer` is the CO getting the result, `StartTask` and `EndTask` stand for the
task manager with its guarantee `OneExecution`. The file system may refuse a
write of the metadata, an allocation, a copy or an expansion (`Refused`), which
raises in the code. `Orderly` restricts the CO to one call at a time in the order
of a volume's life, and to deleting a volume only when its creation is no longer a
task. The tasks of snapshots and clones run beside all calls, the deletion
included. The restriction on the creation is needed: one that is executed again
beside `destroy_volume` writes back what that removes, and nothing in the code
prevents it. Of a clone only the work on the source is modelled. Frozen file
systems, permissions and statistics are left out.

**AtomicFile** is the promise of a file that changes atomically and durably.
**MetadataFile** is `update_metadata`: temporary file, fsync, rename, fsync of the
directory, with failures and power loss between any two. It has one updating
thread at a time; that this does not always hold is a listed hazard.

**NodeService** is one volume on its node: loop devices, mounts, links, the size
of image, device and file system, and kubelet's view. One call runs at a time.
mkfs is one step, because the signature that blkid looks for is written last.
blkid may fail, which the code takes for a device without a file system.
`delete_volume` runs beside the calls as its three steps: the look for loop
devices, the mark under the lock, and the removal of the metadata.

**NodeAddresses** is `NodeIPMapping`: `reload_mapping` lists the pods, the watcher
takes events one by one, keeps `_pods` in its order of insertion, and publishes
the mapping it computes from them; a list or a watch may fail. Kubernetes is
external: `stream` holds the events between the watched version and now.
**Cluster** extends it with a process that calls the node plugins: a controller
that expands a volume, or the API server that asks all nodes. A call is
started (with a cached or a new channel), served by whoever has the address by
then, given up, or cancelled when `prune_stale_stubs` closes its channel; an
expansion that nobody waits for may still be executed. `Terminate` stops the
watcher and closes the channels of a controller under the requests it handles.

**Startup** is `node_driver_preflight_checks` of a node plugin: the dry run of the
garbage collection, the moves of metadata and tasks out of the default pool, the
migrations of the schema, one function each, and the load of the tasks. A move
between two mounts is a copy and a removal, with an empty file in between. Every
step may be the last before a kill. **Ping** is the thread that reports the
installation and a ping per interval and keeps their times in a ConfigMap, in
any number of controllers; every outside call may fail, with or without effect.
**Plugin** composes the two: a configuration that the validators accept becomes a
node plugin or a controller plugin.

**Provisioning** is the space of one pool. A handler reads it in `get_capacity`
step by step, first the free space and then one image after the other, and
compares; the task or the internal service allocates later. A volume may be a copy
of another one or of its snapshot, and is then at least as large as its source is
when the copy is made. Pods write to sparse images and discard, and others use the
same file system. Capacities are hundredths of a block, since a reserve may be a
percentage. `alone` records whether anything else could take space since the check
of a call began.

Definitions whose comment starts with "Variant:" are deliberately wrong forms of
the definition that follows; each makes one of the properties fail.

## Runs

| Run | Checks | Result |
|---|---|---|
| `tasks` | `TypeOK`, `OneExecution`, `CountsOnlyFailures`, `RunningIsEngaged` with two kills and a termination | hold |
| `tasks_live` | `BoundedExecutions`, `RemovesOnlyIdle`, `ImplementsLifecycle` (refinement), `EventuallySettled`, `ShutdownCompletes` with the smallest pool | hold |
| `tasks_crash` | `EventuallySettled` after a kill | **fails** |
| `volumes` | `TypeOK`, `ReadyHasImage`, `NoOrphanSnapshot`, `CloneIsWhole`, `KeepsAttachedImage` with a kill or a refused operation | hold |
| `volumes_crash` | `CreatedEventually` with a kill or a refused operation | **fails** |
| `volumes_lock` | `Exclusive` | **fails** |
| `metadata` | `TypeOK`, `ImplementsAtomicFile` (refinement) | hold |
| `node` | `TypeOK`, `OwnDevice`, `AnswersAreTrue`, `UnstagedIsClean`, `ExpandReachesFs`, `MountTeardownCompletes`, `MountSetupCompletes` with two kills or failures of blkid, and a reboot | hold |
| `node_block` | `TeardownCompletes`, block volumes included | **fails** |
| `cluster` | `TypeOK`, `GrantedIsGrown`, `AccurateWhenCaughtUp`, `MappingCatchesUp`, `RequestsEnd`, `ExpandCompletes` | hold |
| `plugin` | `ServesMigrated`, `NeverWithoutCopy`, `NodePluginStarts` with two kills; `LastPingWasSent`, `InstallTsStable` with two controllers | hold |
| `capacity` | `TypeOK`, `AllowedFits` with three kinds of reserve | hold |

What the failing runs show:

- `tasks_crash`: `start()` recovers Running tasks only. A kill between the two
  saves of `run_task_ext` leaves Pending, and no later code changes it, although
  the design document promises automatic recovery.
- `volumes_crash`: every execution of `create_volume` first writes `ready: false`,
  and one that finds an image of the full size returns early
  (`volume_manager.py:112`), before it would write `ready: true`. After a kill near
  the end of a creation, or a refused last write of the metadata, the repeated task
  completes, the volume stays unready, and CreateVolume starts no other task because
  there are metadata. docs/features.md:98-99 promises that "crashes and restarts
  recover in-flight work".
- `volumes_lock`: A unlocks; B, which had opened the same file, locks it; A
  unlinks the name; C, or A again, creates and locks a new file, and is inside
  together with B.
- `node_block`: `unmount` calls umount for a target *file* whether or not
  anything is mounted, so a target that was created and not mounted, or lost its
  mount in a reboot, is never unpublished.

What the passing runs say less than their names might suggest:

- `ReadyHasImage`, `NoOrphanSnapshot` and `KeepsAttachedImage` are checked with
  `Orderly`, see above. A leftover of a snapshot that is marked `.creating` is no
  snapshot in the sense of `NoOrphanSnapshot`, and may stay when the volume goes.
- `UnstagedIsClean`, `MountTeardownCompletes` and `TeardownCompletes` except a volume
  that was deleted in use: a staging may come between the two halves of
  `delete_volume` (`volume_manager.py:234` and `:239`).
- No property says that the data of a volume stay when blkid fails: mkfs is then
  what refuses, or does not.
- `NodePluginStarts` excepts a kill during the copy of a `disk.meta`: the partial
  file stays, and the dry run of every later start reads it (`rawfile.py:219`). It
  also says that the plugin never serves when one volume cannot be migrated: with a
  later schema, in a pool that is not configured, or with metadata that lack what a
  migration reads.
- `ExpandCompletes` and `RequestsEnd` are about calls with a timeout; the routes for
  tasks have none.
- `AllowedFits` is about a call beside which nothing else took space since its check
  began, and not about a copy whose source has grown: the code checks the size asked
  for and copies all. Overlapping creations can overdraw a pool.

### Bounds

- Tasks: two tasks and two executions let one task be retried while another
  runs, and let an execution overlap a stale one; `MaxRetry = 1` has both a
  retry and a give-up; a pool of two threads is the smallest in which a task can
  run beside the retry worker. Two kills reach a kill during recovery.
- Volumes: one request thread and one pool thread suffice for every race of a
  task with a call, the lock's included; one snapshot and one clone make the two
  kinds of snapshot directories differ; sizes are "as created" and "expanded".
  One fault (`MaxFaults`): a kill at any step, or one operation that is refused.
- Metadata: three values tell old, current and new apart.
- Cluster: three pods on two nodes, with two addresses, so that a node has two
  pods for a while and an address passes to a pod of another node; the watcher is
  at most one event behind (more only delays the same events); sizes 1 to 3 make
  two expansions of which the first may arrive last; `Parallel = 1` makes the
  API server's calls wait for each other.
- Plugin: one volume has metadata of each version, of a version too new or in a
  pool that is gone, the other an early or the present version, so that a
  killed start leaves a mixture. Two kills reach a kill in the repetition of a
  killed start. Two controllers for three intervals race for both keys. The
  configurations are the two good ones and one for each rule of the validators.
- Capacity: a volume and a copy of its snapshot, of one block and expanded to two, in
  a pool of three, so that what fits alone need not fit together; no reserve, a
  percentage, and subtract-from-total. One call at a time is inside `get_capacity`
  (`MaxChecks`); two calls that both are in flight are not alone in `AllowedFits`.
- Node: two loop devices let another image take the one a stale link leads to.
  Two faults (kills or failures of blkid) and a reboot allow a kill in the
  repetition of a killed call and in the teardown after a reboot.

### Fairness

Threads that can run go on (weak fairness of a thread's step, the operating
system's scheduler); the pool takes up a queued task at last (strong fairness of
`StartTask`, the executor's queue is served in order and a retry is submitted at
every interval); the CO repeats a creation, a staging and a publication of a volume
that is wanted, and the teardown of one that is not, until it succeeds (strong
fairness of those `Ask` actions, the retry loops of the sidecars and of kubelet). Nothing makes a kill, a reboot, a failure or any other
request happen. In `Cluster` the watcher and the calling process go on (weak
fairness of their steps), a call with a timeout ends, and a node that is called
again and again while its plugin is up answers in time at last (strong fairness of
a `Serve` that succeeds); that its plugin stays up is a premise of
`ExpandCompletes`. In `Plugin` a start goes on and kubelet starts a killed plugin
again. The acquisition of the volume lock is not fair: the code gives
up when the lock is busy.

## Proofs

All for every value of the constants, from the assumptions named in the modules
(types, and that special values are none of the parameters). Where a theorem also
assumes how the CO behaves, the run's instance makes the same assumption.

**Task manager** (`TaskManagerCallProofs`, `TaskManagerProofs`,
`TaskManagerRecordProofs`, each extending the one before).

- `TypeCorrect`: `Spec => []TypeOK`. Types alone are not inductive, because an
  execution's record is found through thread and callback variables; `OwnInv` adds
  who owns which execution.
- `ExclusiveExecution`: if the CO has one call in flight per task (`CoSerializes`),
  then `Spec => []OneExecution`. The argument: a request submits only a task
  without a record, the retry worker only a Failed one, so a task that is *taken*
  (being submitted, executed, or in its callback) must show neither for as long as
  anybody decides by its record. That is `TakenInv` and `BusyInv`. Decisions are
  acted on later, by lists: `RetryListInv`, `RetryReadInv`, `RemoveListInv` and
  `AcceptInv` say that what was read still holds when it is used. A shutdown may
  save Failed for an execution that is over; `KillInv` and `Watched` confine that
  to tasks nobody will take up. Their conjunction is `IndInv`; each conjunct has
  its own step lemma.
- `RunningHasOwner`, `GivenUpLate`, `ExecutionsBounded`, `RemovalIsSafe`:
  `RunningIsEngaged`, `CountsOnlyFailures`, `BoundedExecutions` and the action
  property `RemovesOnlyIdle`, also with `CoSerializes`. The counts need an
  invariant about every place a count is carried through (the record, the thread
  that submits, the execution): `CountInv` bounds them from above by the failures,
  `BoundInv`, without restarts, from below. `ListedInv` says that nobody works on
  what the retry worker has listed for removal.
- `FollowsLifecycle`: the task manager implements `TaskLifecycle`, if the CO has
  one call per task and no kill tears `tasks.json` (`SavesWhole`). Each action
  is shown to make one move of the abstract record or none.

**Volumes** (`VolumesProofs`). The invariants are in two layers.

- Whatever is asked in whatever order: `VolumeTypes` (`TypeOK`) and
  `ClonesAreWhole` (`CloneIsWhole`). `FreeInv` joins `ControlInv` (each thread is at
  a step of its operation), `LockInv` (it has the lock exactly at the steps of a
  with-block, also when it raises), `TaskInv` (a task is run by one thread),
  `MetaInv` and `CloneInv` (`.creating` is there from before a copy until after it).
- With one call of the CO at a time, in the order of a volume's life, and no deletion
  while the creation is a task (`Orderly`): `ReadyVolumeHasImage`,
  `SnapshotsHaveMeta` and `AttachedImageStays`, which are `ReadyHasImage`,
  `NoOrphanSnapshot` and the action property `KeepsAttachedImage`. Any number of
  tasks for snapshots and clones run beside the calls. The lock is no help, since
  it does not exclude (`volumes_lock`); `OrderlyInv` says what does. What a thread
  has read of `disk.meta` is not outdated in what its write keeps (`SeenInv`); a
  volume that the CO knows of keeps its image until a deletion has marked it
  (`KeptInv`); `create_volume` works on the image only while the CO waits for it
  (`MakingInv`); what is marked as deleted is not attached and not made ready again
  (`DeletedInv`). `destroy_volume` removes the image before it removes the
  directories of the snapshots, which fails when they are not empty, and a snapshot
  task without an image to copy makes none: so once a directory is gone no snapshot
  appears in it (`DestroyInv`), and as long as there is an image there are metadata
  (`OrphanInv`).
- `StepFlow` says where each step of a thread leads, `StepFrame` and
  `CallFrame` what each leaves alone, so that the lemma of an invariant has a case
  only for the steps that can disturb it.

**Metadata file** (at the end of `PluginProofs`, since the migrations write through
it). `NeverTorn` is `TypeOK` of `MetadataFile`, of which the part that matters is
that neither `disk.meta` nor what a power failure may leave of it is torn. It needs that the temporary file is whole and synchronized when it is
about to be renamed. `Implements`: `MetadataFile` implements `AtomicFile`.

**Node service** (`NodeServiceProofs`). `NodeTypes`, `MountsOwnImage`,
`AnswersStayTrue`, `UnstageIsComplete` and `ExpandIsComplete` are `TypeOK`,
`OwnDevice`, `AnswersAreTrue`, `UnstagedIsClean` and `ExpandReachesFs` for any number
of loop devices, kills, failures of blkid and reboots. Hardly one is inductive alone:
publishing mounts whatever the link of an earlier staging leads to, so it needs that
the answer to the staging still holds; staging needs that the device found is still
the image's and that the link was made to lead to it before it is followed
(`DeviceInv`); a teardown detaches what is not mounted, so it needs that an
unpublished volume is mounted nowhere, and that what each of its steps has removed
stays away (`CleanInv`). `CallInv` says which steps each call goes through. `NodeInv`
joins them.

**Cluster** (`ClusterProofs`).

- `ExpansionKept`: `GrantedIsGrown`. `GrantInv` adds that an expansion that was
  served and not yet answered is no larger than the volume.
- `AddressesAccurate`: `AccurateWhenCaughtUp` for any number of events behind.
  `AddressInv` says what must hold while events are missing: if the watcher has an
  unread event of a pod, the last such event tells the pod's state, and if it has
  none, `_pods` does. `PublishedAddress` shows that the mapping has an address for a
  node exactly when `_pods` has one of its pods, whichever came last; `TrackEntry`
  shows that an event changes the entry of its own pod and no other.
- `ChannelsOpen`: `TypeOK`. `ChannelInv` ties each call under way to an open channel
  of the cache, through pruning and the end of the process; `SizeInv` bounds sizes.

**Start and pings** (`PluginProofs`).

- `NoFileLost`, `MigratedOnce`: `NeverWithoutCopy` and `ServesMigrated` for any
  volumes, any earlier metadata and any number of kills. `StartupInv` says where
  each file is at each step of a move (`MoveInv`), and that what a loop no longer
  has to visit is done (`LoopInv`). That a migration is never applied twice is the
  lemma `MigratedIsFinal`.
- `PingRecorded`, `InstalledOnce`: `LastPingWasSent` and `InstallTsStable` for any
  number of controllers. `PingInv` ties what a thread means to write to what was
  sent, and what it read to what the map was.

**Capacity** (`ProvisioningProofs`). `SpaceAccounted` and `AllowedIsPossible` are
`TypeOK` and `AllowedFits` for any volumes, copies, sizes, reserves, amounts written
and calls at once.

- Both are about the sum of the volumes' blocks. The sum is a fold; `SetInduction`
  is the induction over the volumes in the order in which the fold picks them
  (stated with a set, so that no operator has to be instantiated), and from it
  comes `SumChange` (one summand changes, the sum changes by as much).
- `SpaceInv`: no image has a block or an end beyond what was asked for it, so the
  sizes in the metadata, the lengths and the blocks stay in step, also when
  `fallocate` fails half way.
- `AllowedFits` holds because what `get_capacity` has read so far is never more than
  there is, the images it has not looked at included (`ReadInv`), and because what
  then was found to fit does so until it is allocated (`FitInv`), both as long as
  nothing else is in flight (`AloneInv`).

Only model-checked: all liveness, which is out of the prover's reach.

## Not modelled

- Freezing of file systems around a copy: what matters is what the kernel does
  with a frozen file system that is unmounted or whose device goes away, and that
  is not in this code.
- The rewriting of `tasks.json` in place, which a kill can tear; `Startup` has the
  torn file as a possibility, `TaskManager` has the store as one value.
- The several commands that format btrfs, permissions and umask, the paging of
  `list_snapshots`, the own files of a clone.
- Metrics, statistics, usage events: they report and change nothing here.
- The parsing of single configuration values, units and addresses: conversions of
  one string, without state.
- gRPC servers, logging, generated code.

Observations made while modelling, which no run states:

- A repeated CreateVolume of a thick volume whose blocks are allocated already
  asks for its size once more (`rawfile_servicer.py:273`).
- A deletion that is killed between the removal of the metadata and that of the data
  directory never succeeds: `delete_volume` finds the directory, fails to read the
  metadata (`volume_manager.py:232`), and raises each time. (The volume is in the
  default pool, where `delete_volume` looks when there is no metadata.)
- The comment in bd2fs.py:60-61 says that "DeleteVolume refuses to delete a volume
  while its image is still attached"; it looks before it takes the lock, and a
  staging may come in between.
- NodePublishVolume of a block volume whose target is mounted already compares the
  loop device with what findmnt shows as the source of the bind mount, which is the
  file system of /dev, and raises
  InvalidDeviceForMountpointError (declarative.py) instead of succeeding.
- docs/features.md:40-41 says of thick volumes that "overprovisioning is impossible",
  and docs/storageclass.md:68-69 that they are counted against the pool "up front" and
  cannot be overprovisioned; the code checks up front and allocates later.
- docs/storageclass.md:139-140 and docs/user-guide/storage-pools.md:58 describe
  subtract-from-total as a cap at total − `reservedCapacity`; the code caps at
  `reservedCapacity`, as the comment in the chart (values.yaml:193) says.
- A kill after `disk.meta` of a volume was moved leaves its `disk.meta.tmp` and
  `disk.lock` in the old place for good.
- Metadata without a `volume_id` keep the node plugin from starting: migrations read
  it and raise KeyError.
- The last migration (7 to 8) of a volume without an image records version 8 with
  the old path.
- A volume in a pool that is no longer configured, or of a later schema, keeps the
  node plugin from starting.
- k8s.py:198 says "the newer pod on a node wins"; which pod wins depends on the order
  in which the pods were listed or reported.

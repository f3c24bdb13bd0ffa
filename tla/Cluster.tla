------------------------------- MODULE Cluster ------------------------------
(***************************************************************************)
(* Calls from the controller or the API server to the internal service of  *)
(* the node plugins: ControllerExpandVolume of rawfile_servicer.py and the *)
(* routes of api_server, the caches of channels of rawfile/utils/remote.py *)
(* with the pruning by the watcher of NodeAddresses, and ExpandRawFile of  *)
(* internal_svc.py for one volume.  A call may be delivered to whoever has *)
(* the address by then, be answered too late, or be executed after its     *)
(* caller gave up.                                                         *)
(***************************************************************************)
EXTENDS NodeAddresses

CONSTANTS
  Home,          \* the node of the volume
  OldSignature,  \* pods that were started with another internal_signature
  Parallel,      \* value of the semaphore around build_node
  MaxSize        \* bound: the largest size asked for

ASSUME ClusterAssumption ==
  /\ Home \in Node /\ OldSignature \subseteq Pod
  /\ Parallel \in Nat \ {0} /\ MaxSize \in Nat \ {0}

VARIABLES
  plugin,   \* the calling process: controller or api
  proc,     \* it is up, or has closed its channels
  stubs,    \* cached stub of each address: none, or the state of its channel
  req,      \* the request that is handled: see NoRequest
  late,     \* size of an expansion, if any, that was sent and that nobody waits for
  size,     \* size of the volume: of its image and in its metadata
  granted   \* size of the last expansion answered with success

callVars   == <<stubs, req, late>>
volumeVars == <<size, granted>>
vars == <<podVars, watcherVars, plugin, proc, callVars, volumeVars>>

NoCall    == [st |-> "none", ip |-> None, chan |-> "none"]
NoRequest == [op |-> "none", want |-> 0, calls |-> [n \in Node |-> NoCall]]

InState(S)   == {n \in Node : req.calls[n].st \in S}
Open         == req.op # "none"
HasTimeout   == req.op # "tasks"
Addresses    == {mapping[n] : n \in Node} \ {None}

-----------------------------------------------------------------------------
(* The caches of stubs *)

\* Variant: the stub stays in its cache.
PrunedStubsKept(ips) == [i \in IP |-> IF i \in ips /\ stubs[i] # "none" THEN "closed" ELSE stubs[i]]

PrunedStubs(ips) == [i \in IP |-> IF i \in ips THEN "none" ELSE stubs[i]]

\* prune_stale_stubs, under _stub_lock: calls on a channel are cancelled when it
\* is closed, at once or by the event loop that owns it.
prune_stale_stubs ==
  LET stale == IP \ Addresses IN
  /\ watcher = "prune" /\ watcher' = "watch"
  /\ stubs' = PrunedStubs(stale)
  /\ req' = [req EXCEPT !.calls = [n \in Node |->
       IF @[n].chan = "open" /\ @[n].ip \in stale
         THEN [@[n] EXCEPT !.chan = IF plugin = "api" THEN "closing" ELSE "closed"]
         ELSE @[n]]]
  /\ UNCHANGED <<podVars, tracked, mapping, plugin, proc, late, volumeVars>>

AioClose ==
  /\ \E n \in Node : req.calls[n].chan = "closing"
  /\ req' = [req EXCEPT !.calls = [n \in Node |->
       IF @[n].chan = "closing" THEN [@[n] EXCEPT !.chan = "closed"] ELSE @[n]]]
  /\ UNCHANGED <<podVars, watcherVars, plugin, proc, stubs, late, volumeVars>>

\* shutdown_grpc_channels
CloseAll ==
  /\ stubs' = [i \in IP |-> IF stubs[i] = "open" THEN "closed" ELSE stubs[i]]
  /\ req' = [req EXCEPT !.calls = [n \in Node |->
       IF @[n].chan = "open" THEN [@[n] EXCEPT !.chan = "closed"] ELSE @[n]]]

-----------------------------------------------------------------------------
(* Requests and their calls *)

\* All addresses are read at once by get_nodes, one by the others, which answer
\* 404 or an error when there is none.
Begin(op, want, asked) ==
  LET known == {n \in asked : get_node_ip(n) # None} IN
  /\ proc = "up" /\ ~Open /\ known # {}
  /\ req' = [op |-> op, want |-> want,
             calls |-> [n \in Node |-> IF n \in known
                                         THEN [NoCall EXCEPT !.st = "addressed", !.ip = get_node_ip(n)]
                                         ELSE NoCall]]
  /\ UNCHANGED <<podVars, watcherVars, plugin, proc, stubs, late, volumeVars>>

\* It is in the node affinity of the volume's PersistentVolume, which never
\* changes.
volume_to_node == Home

\* The resizer repeats the call until it succeeds; the size wanted may grow
\* meanwhile.
ControllerExpandVolume ==
  /\ plugin = "controller"
  /\ \E want \in granted + 1 .. MaxSize : Begin("expand", want, {volume_to_node})

\* The routes of the API server.  Those for one volume or one task make the same
\* call as those for all of a node, and pick from the answer.
get_nodes                == plugin = "api" /\ Begin("nodes", 0, Node)
get_single_node(n)       == plugin = "api" /\ Begin("nodes", 0, {n})
get_node_pool_volumes(n) == plugin = "api" /\ Begin("volumes", 0, {n})
get_node_tasks(n)        == plugin = "api" /\ Begin("tasks", 0, {n})

Over(st) == [NoCall EXCEPT !.st = st]

Set(n, call) == req' = [req EXCEPT !.calls[n] = call]

\* Variant: a call that failed keeps its place in the semaphore.
MayStartLeaking == req.op = "nodes" => Cardinality(InState({"sent", "failed"})) < Parallel

MayStart == req.op = "nodes" => Cardinality(InState({"sent"})) < Parallel

\* get_internal_grpc_stub, under _stub_lock, and the start of the call.
Call(n) ==
  LET c == req.calls[n]
      chan == IF stubs[c.ip] = "none" THEN "open" ELSE stubs[c.ip] IN
  /\ c.st = "addressed" /\ MayStart
  /\ stubs' = [stubs EXCEPT ![c.ip] = chan]
  /\ Set(n, IF chan = "closed" THEN Over("failed") ELSE [c EXCEPT !.st = "sent", !.chan = chan])
  /\ UNCHANGED <<podVars, watcherVars, plugin, proc, late, volumeVars>>

\* Variant: a size that is not larger is set too.
ExpandRawFileAnySize(p, want, result) ==
  \/ PodNode[p] = Home /\ result = "ok" /\ size' = want
  \/ result = "error" /\ UNCHANGED size

\* ExpandRawFile in pod p.  A volume that has the size already is left alone;
\* otherwise the space may be missing.  It raises when the lock is busy, when an
\* I/O error occurs, and on another node, where the volume has no metadata.
ExpandRawFile(p, want, result) ==
  \/ /\ PodNode[p] = Home /\ result = "ok"
     /\ size' = IF want - size <= 0 THEN size ELSE want
  \/ /\ PodNode[p] = Home /\ want > size /\ result = "exhausted"
     /\ UNCHANGED size
  \/ result = "error" /\ UNCHANGED size

\* GetPoolsStats, GetVolumesStat and GetNodeTasks change nothing.
Report(result) == result \in {"ok", "error"} /\ UNCHANGED size

\* intercept_service: the caller's signature is that of the node plugin.
Accepts(p) == p \notin OldSignature

\* Whoever has the address by now handles the call.  The answer arrives, or is
\* too late.
Serve(n) ==
  LET c == req.calls[n] IN
  /\ c.st = "sent" /\ c.chan # "closed"
  /\ \E p \in RunningAt(c.ip), result \in {"ok", "exhausted", "error"} :
       /\ IF ~Accepts(p) THEN result = "error" /\ UNCHANGED size
          ELSE IF req.op = "expand" THEN ExpandRawFile(p, req.want, result)
          ELSE Report(result)
       /\ \E st \in IF result = "ok" THEN {"done", "failed"} ELSE {"failed"} :
            Set(n, Over(st))
  /\ UNCHANGED <<podVars, watcherVars, plugin, proc, stubs, late, granted>>

\* The caller gives up: its time is over, its channel was closed, or there is
\* nobody at the address.  What was sent may still arrive.
GiveUp(n) ==
  LET c == req.calls[n] IN
  /\ c.st = "sent" /\ (HasTimeout \/ c.chan = "closed" \/ RunningAt(c.ip) = {})
  /\ Set(n, Over("failed"))
  /\ late' \in IF req.op = "expand" THEN {late, {req.want}} ELSE {late}
  /\ UNCHANGED <<podVars, watcherVars, plugin, proc, stubs, volumeVars>>

ServeLate ==
  /\ \E m \in late :
       /\ late' = late \ {m}
       /\ \/ UNCHANGED size   \* it is lost, or refused
          \/ \E p \in Pod, result \in {"ok", "exhausted", "error"} :
               Running(p) /\ Accepts(p) /\ ExpandRawFile(p, m, result)
  /\ UNCHANGED <<podVars, watcherVars, plugin, proc, stubs, req, granted>>

\* The answer.  Only that of an expansion has a meaning below: get_nodes reports
\* a node whose call failed as offline, the other routes fail.
Respond ==
  /\ Open /\ InState({"addressed", "sent"}) = {}
  /\ req' = NoRequest
  /\ granted' = IF req.op = "expand" /\ req.calls[Home].st = "done"
                  THEN req.want ELSE granted
  /\ UNCHANGED <<podVars, watcherVars, plugin, proc, stubs, late, size>>

-----------------------------------------------------------------------------

\* signal_handler, or the end of lifespan: no new requests, the watcher stops and
\* the controller closes its channels, while the requests that are being handled
\* go on.  Of interest only when there is such a request.
Terminate ==
  /\ Open /\ proc = "up" /\ proc' = "closed" /\ StopWatcher
  /\ IF plugin = "controller" THEN CloseAll ELSE UNCHANGED <<stubs, req>>
  /\ UNCHANGED <<plugin, late, volumeVars>>

Init ==
  /\ AddressInit
  /\ plugin \in {"controller", "api"} /\ proc = "up"
  /\ stubs = [i \in IP |-> "none"] /\ req = NoRequest /\ late = {}
  /\ size = 1 /\ granted = 1

Others == UNCHANGED <<plugin, proc, callVars, volumeVars>>

Next ==
  \/ PodStep /\ Others
  \/ (WatcherStep \/ WatchFails) /\ Others
  \/ prune_stale_stubs \/ AioClose
  \/ ControllerExpandVolume \/ get_nodes
  \/ \E n \in Node : get_single_node(n) \/ get_node_pool_volumes(n) \/ get_node_tasks(n)
  \/ \E n \in Node : Call(n) \/ Serve(n) \/ GiveUp(n)
  \/ ServeLate \/ Respond \/ Terminate

Spec == Init /\ [][Next]_vars

\* The watcher and the threads and coroutines of requests go on, a timeout
\* comes, the resizer repeats an expansion.  A node plugin that is there answers
\* in time now and then.
FairSpec ==
  /\ Spec
  /\ WF_vars((WatcherStep /\ Others) \/ prune_stale_stubs)
  /\ WF_vars(\E n \in Node : Call(n)) /\ WF_vars(Respond) /\ WF_vars(ControllerExpandVolume)
  /\ \A n \in Node : WF_vars(GiveUp(n) /\ HasTimeout) /\ SF_vars(Serve(n) /\ req'.calls[n].st = "done")

-----------------------------------------------------------------------------
(* Properties *)

\* Types; and until the process ends the caches hold open channels only, among
\* them those of the calls under way.
TypeOK ==
  /\ pods \in [Pod -> [phase : Phase, ip : IP \cup {None}]]
  /\ mapping \in [Node -> IP \cup {None}]
  /\ watcher \in {"list", "watch", "prune", "stopped"}
  /\ stubs \in [IP -> {"none", "open", "closed"}]
  /\ proc = "up" => \A i \in IP : stubs[i] # "closed"
  /\ \A n \in Node : req.calls[n].chan = "open" => stubs[req.calls[n].ip] = "open"
  /\ size \in 1..MaxSize /\ granted \in 1..MaxSize

\* A volume is at least as large as the last successful expansion said, although
\* ExpandRawFile is repeated, may be executed after its caller gave up and after
\* a larger expansion, and may reach another node that got the address.
GrantedIsGrown == granted <= size

\* Every request whose calls have a timeout is answered, whatever becomes of the
\* nodes, the channels and the process.
RequestsEnd == Open /\ HasTimeout ~> ~Open

\* A repeated expansion succeeds at last if the node has its plugin for good:
\* neither a stale address nor a closed channel stays in its way.
ExpandCompletes ==
  <>[](plugin = "controller" /\ RunningOn(Home) # {} /\ RunningOn(Home) \cap OldSignature = {})
    => []<>(granted = MaxSize \/ proc # "up")

=============================================================================

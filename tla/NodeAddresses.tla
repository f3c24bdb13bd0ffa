---------------------------- MODULE NodeAddresses ---------------------------
(***************************************************************************)
(* NodeIPMapping of rawfile/orchestrator/k8s.py: the addresses of the node *)
(* plugins, from a list of the pods of their DaemonSet and a watch from    *)
(* the version of that list.  Kubernetes (the pods, and the events that    *)
(* the watcher has not seen) is external: pods come and go, an address may *)
(* be given to another pod, a node may have two pods for a while, and a    *)
(* list or a watch may fail.                                               *)
(***************************************************************************)
EXTENDS Naturals, Sequences, FiniteSets

CONSTANTS
  Pod,       \* pods, as numbers in the order of their names, as in a list
  Node,      \* nodes
  PodNode,   \* the node of each pod
  IP,        \* addresses of pods
  MaxLag     \* bound: events that the watcher may be behind

None == "none"

ASSUME AddressAssumption ==
  /\ Pod \subseteq Nat /\ IsFiniteSet(Pod) /\ PodNode \in [Pod -> Node]
  /\ None \notin IP /\ MaxLag \in Nat

VARIABLES
  pods,     \* phase and address of each pod
  stream,   \* events since the version from which the watcher watches
  tracked,  \* _pods: <<pod, address>> in the order of insertion
  mapping,  \* _mapping
  watcher   \* list (again), watch, prune, or stopped

podVars     == <<pods, stream>>
watcherVars == <<tracked, mapping, watcher>>

Phase == {"unborn", "running", "gone"}

-----------------------------------------------------------------------------
(* Kubernetes *)

Running(p)     == pods[p].phase = "running"
RunningAt(i)   == {p \in Pod : Running(p) /\ pods[p].ip = i}
RunningOn(n)   == {p \in Pod : Running(p) /\ PodNode[p] = n}

\* A change of a pod is an event for the watcher once that has a version: the
\* address of a running pod, none for one that is deleted or not running.
\* Changes after the watcher has stopped matter to nobody.
Change(p, phase, ip) ==
  /\ watcher # "stopped" /\ Len(stream) < MaxLag
  /\ pods' = [pods EXCEPT ![p] = [phase |-> phase, ip |-> ip]]
  /\ stream' = IF watcher \in {"watch", "prune"} THEN Append(stream, <<p, ip>>) ELSE stream
  /\ UNCHANGED watcherVars

RunPod(p) ==
  /\ pods[p].phase = "unborn"
  /\ \E i \in IP : (\A q \in Pod : pods[q].ip # i) /\ Change(p, "running", i)

EndPod(p) == Running(p) /\ Change(p, "gone", None)

PodStep == \E p \in Pod : RunPod(p) \/ EndPod(p)

-----------------------------------------------------------------------------
(* NodeIPMapping *)

\* _pods.pop(name, None)
Without(seq, p) ==
  LET own == {k \in DOMAIN seq : seq[k][1] = p}
      at  == CHOOSE k \in own : TRUE
  IN  IF own = {} THEN seq
      ELSE [k \in 1..Len(seq) - 1 |-> IF k < at THEN seq[k] ELSE seq[k + 1]]

\* _track: as in a dict, a name that is there keeps its place.
Track(seq, e) ==
  IF e[2] = None THEN Without(seq, e[1])
  ELSE IF \E k \in DOMAIN seq : seq[k][1] = e[1]
    THEN [k \in DOMAIN seq |-> IF seq[k][1] = e[1] THEN e ELSE seq[k]]
    ELSE Append(seq, e)

\* Variant: a deleted pod takes the address of its node with it.
PublishMutating(seq) ==
  [n \in Node |->
     IF Len(seq) < Len(tracked) /\ \E k \in DOMAIN tracked :
          PodNode[tracked[k][1]] = n /\ \A j \in DOMAIN seq : seq[j] # tracked[k]
       THEN None
       ELSE LET own == {k \in DOMAIN seq : PodNode[seq[k][1]] = n}
            IN  IF own = {} THEN None ELSE seq[CHOOSE k \in own : \A j \in own : j <= k][2]]

\* _publish: of several pods on a node the last in the dict counts.
Publish(seq) ==
  [n \in Node |->
     LET own == {k \in DOMAIN seq : PodNode[seq[k][1]] = n}
     IN  IF own = {} THEN None ELSE seq[CHOOSE k \in own : \A j \in own : j <= k][2]]

\* The running pods in the order of a list, which is that of their names.
InOrder(names, ps) ==
  /\ \A j, k \in DOMAIN names : j < k => names[j] < names[k]
  /\ {names[k] : k \in DOMAIN names} = ps

\* Variant: what was known is kept.
reload_mappingKept ==
  LET ps == {p \in Pod : Running(p)} IN
  /\ watcher = "list" /\ watcher' = "watch" /\ stream' = <<>>
  /\ \E names \in [1..Cardinality(ps) -> ps] :
       LET old == SelectSeq(tracked, LAMBDA e : e[1] \notin ps)
           all == old \o [k \in DOMAIN names |-> <<names[k], pods[names[k]].ip>>]
       IN  InOrder(names, ps) /\ tracked' = all /\ mapping' = Publish(all)
  /\ UNCHANGED pods

\* reload_mapping, by start and by the watcher after an error.
reload_mapping ==
  LET ps == {p \in Pod : Running(p)} IN
  /\ watcher = "list" /\ watcher' = "watch" /\ stream' = <<>>
  /\ \E names \in [1..Cardinality(ps) -> ps] :
       LET all == [k \in DOMAIN names |-> <<names[k], pods[names[k]].ip>>]
       IN  InOrder(names, ps) /\ tracked' = all /\ mapping' = Publish(all)
  /\ UNCHANGED pods

\* One event of the watch; the stubs are pruned next.
HandleEvent ==
  /\ watcher = "watch" /\ stream # <<>> /\ watcher' = "prune"
  /\ LET all == Track(tracked, Head(stream)) IN tracked' = all /\ mapping' = Publish(all)
  /\ stream' = Tail(stream)
  /\ UNCHANGED pods

\* An exception: the next round lists again, after a pause unless the version
\* is gone (410).  A list that fails is repeated.
WatchFails ==
  /\ watcher = "watch" /\ watcher' = "list" /\ stream' = <<>>
  /\ UNCHANGED <<pods, tracked, mapping>>

\* stop: the watcher looks at _stop_event at every event and in every round.
StopWatcher ==
  watcher' = "stopped" /\ UNCHANGED <<podVars, tracked, mapping>>

get_node_ip(n) == mapping[n]

AddressInit ==
  /\ pods = [p \in Pod |-> [phase |-> "unborn", ip |-> None]] /\ stream = <<>>
  /\ tracked = <<>> /\ mapping = [n \in Node |-> None] /\ watcher = "list"

WatcherStep == reload_mapping \/ HandleEvent

-----------------------------------------------------------------------------

\* The mapping has for each node the address of a pod that runs there.
Accurate ==
  \A n \in Node : IF RunningOn(n) = {} THEN mapping[n] = None
                  ELSE \E p \in RunningOn(n) : mapping[n] = pods[p].ip

\* _publish, "deleting the old one cannot drop it": whenever the watcher has
\* seen all events the mapping is accurate, whatever the order in which the
\* pods of a node came and went, were listed or were reported.
AccurateWhenCaughtUp == watcher = "watch" /\ stream = <<>> => Accurate

\* After the last change of the pods the mapping becomes accurate for good, also
\* when the change fell into a time without a watch.
MappingCatchesUp == <>[](Accurate \/ watcher = "stopped")

=============================================================================

---------------------------- MODULE ClusterProofs ---------------------------
(***************************************************************************)
(* For any nodes, pods, addresses and sizes: a volume never becomes        *)
(* smaller, and is as large as the last expansion that was granted; and    *)
(* the addresses that the watcher knows are those of the pods that run     *)
(* once it has seen every event, however far it was behind.                *)
(***************************************************************************)
EXTENDS Cluster, TLAPS, SequenceTheorems, FiniteSetTheorems, WellFoundedInduction

-----------------------------------------------------------------------------
(* Expansions *)

\* A successful call for the volume has left it large enough, though its answer
\* has not been given yet; the shape of the request tells whose call it is.
GrantInv ==
  /\ size \in Nat /\ granted \in Nat /\ granted <= size /\ late \subseteq Nat
  /\ req = [op |-> req.op, want |-> req.want, calls |-> req.calls]
  /\ req.calls = [n \in Node |-> req.calls[n]] /\ req.want \in Nat
  /\ req.op = "expand" /\ req.calls[Home].st = "done" => req.want <= size

\* ExpandRawFile never sets a smaller size, and success means enough.
LEMMA ExpandGrows ==
  ASSUME NEW p \in Pod, NEW want \in Nat, NEW result, size \in Nat, ExpandRawFile(p, want, result)
  PROVE  size' \in Nat /\ size' >= size /\ (result = "ok" => want <= size')
BY DEF ExpandRawFile

\* Steps that leave the volume, the calls and the request's purpose alone.
LEMMA QuietStep ==
  ASSUME GrantInv, UNCHANGED <<size, granted, late>>, UNCHANGED <<req>>
  PROVE  GrantInv'
BY Zenon DEF GrantInv

\* Every step of Cluster keeps the invariant.
LEMMA GrantStep == GrantInv /\ [Next]_vars => GrantInv'
<1> SUFFICES ASSUME GrantInv, [Next]_vars PROVE GrantInv'
  BY Zenon
<1> USE ClusterAssumption
<1>1. CASE UNCHANGED vars
  BY <1>1, QuietStep, Zenon DEF vars, callVars, volumeVars
<1>2. CASE Others
  BY <1>2, QuietStep, Zenon DEF Others, callVars, volumeVars
<1>3. CASE prune_stale_stubs
  BY <1>3, SMTT(30) DEF prune_stale_stubs, GrantInv, volumeVars
<1>4. CASE AioClose
  BY <1>4, SMTT(30) DEF AioClose, GrantInv, volumeVars
<1>5. ASSUME NEW op, NEW want \in Nat, NEW asked, Begin(op, want, asked) PROVE GrantInv'
  BY <1>5, Zenon DEF Begin, GrantInv, volumeVars, NoCall
<1>6. CASE ControllerExpandVolume
  <2>1. PICK want \in granted + 1 .. MaxSize : Begin("expand", want, {volume_to_node})
    BY <1>6, Zenon DEF ControllerExpandVolume
  <2>2. want \in Nat
    BY <2>1 DEF GrantInv
  <2>3. QED BY <1>5, <2>1, <2>2, Zenon
<1>7. CASE get_nodes \/ \E n \in Node : get_single_node(n) \/ get_node_pool_volumes(n) \/ get_node_tasks(n)
  BY <1>5, <1>7, Zenon DEF get_nodes, get_single_node, get_node_pool_volumes, get_node_tasks
<1>8. ASSUME NEW n \in Node, Call(n) PROVE GrantInv'
  BY <1>8 DEF Call, Set, Over, NoCall, GrantInv, volumeVars
<1>9. ASSUME NEW n \in Node, Serve(n) PROVE GrantInv'
  <2>1. PICK p \in RunningAt(req.calls[n].ip), result \in {"ok", "exhausted", "error"} :
          /\ IF ~Accepts(p) THEN result = "error" /\ UNCHANGED size
             ELSE IF req.op = "expand" THEN ExpandRawFile(p, req.want, result)
             ELSE Report(result)
          /\ \E st \in IF result = "ok" THEN {"done", "failed"} ELSE {"failed"} : Set(n, Over(st))
    BY <1>9, Zenon DEF Serve
  <2>2. PICK st \in IF result = "ok" THEN {"done", "failed"} ELSE {"failed"} : Set(n, Over(st))
    BY <2>1, Zenon
  <2>3. p \in Pod
    BY Zenon DEF RunningAt
  <2>4. /\ size' \in Nat /\ size' >= size
        /\ req.op = "expand" /\ st = "done" => req.want <= size'
    BY <2>1, <2>2, <2>3, ExpandGrows DEF GrantInv, Report
  <2>5. UNCHANGED <<late, granted>>
    BY <1>9, Zenon DEF Serve
  <2>6. QED BY <2>2, <2>4, <2>5 DEF GrantInv, Set, Over, NoCall
<1>10. ASSUME NEW n \in Node, GiveUp(n) PROVE GrantInv'
  BY <1>10, Zenon DEF GiveUp, Set, Over, NoCall, GrantInv, volumeVars
<1>11. CASE ServeLate
  <2>1. PICK m \in late :
          /\ late' = late \ {m}
          /\ \/ UNCHANGED size
             \/ \E p \in Pod, result \in {"ok", "exhausted", "error"} :
                  Running(p) /\ Accepts(p) /\ ExpandRawFile(p, m, result)
    BY <1>11, Zenon DEF ServeLate
  <2>2. m \in Nat /\ size \in Nat
    BY Zenon DEF GrantInv
  <2>3. size' \in Nat /\ size' >= size
    BY <2>1, <2>2, ExpandGrows
  <2>4. QED BY <1>11, <2>1, <2>3 DEF ServeLate, GrantInv
<1>12. CASE Respond
  BY <1>12, Zenon DEF Respond, NoRequest, NoCall, GrantInv
<1>13. CASE Terminate
  <2>1. UNCHANGED <<size, granted, late>> /\ (CloseAll \/ UNCHANGED <<req>>)
    BY <1>13, Zenon DEF Terminate, volumeVars
  <2>2. CASE CloseAll
    BY <2>1, <2>2 DEF CloseAll, GrantInv
  <2>3. QED BY <2>1, <2>2, QuietStep, Zenon
<1>14. QED
  BY <1>1, <1>2, <1>3, <1>4, <1>6, <1>7, <1>8, <1>9, <1>10, <1>11, <1>12, <1>13, Zenon DEF Next

\* A volume is at least as large as the last successful ControllerExpandVolume
\* said, however often ExpandRawFile is repeated, delayed or misdirected
\* (GrantedIsGrown).
THEOREM ExpansionKept == Spec => []GrantedIsGrown
<1>1. Init => GrantInv
  BY ClusterAssumption DEF Init, GrantInv, NoRequest, NoCall
<1>2. GrantInv => GrantedIsGrown
  BY Zenon DEF GrantInv, GrantedIsGrown
<1>3. QED BY <1>1, <1>2, GrantStep, PTL DEF Spec

-----------------------------------------------------------------------------
(* Addresses *)

Address == IP \cup {None}
Pods    == [Pod -> [phase : Phase, ip : Address]]

\* A dict: no pod twice.
Dict(seq) ==
  /\ seq \in Seq(Pod \X IP)
  /\ \A j, k \in DOMAIN seq : seq[j][1] = seq[k][1] => j = k

Entry(seq, p, i) == \E k \in DOMAIN seq : seq[k] = <<p, i>>

\* The last event of each pod in the stream is its present state; of a pod
\* without one the present state is known.
Caught ==
  \A p \in Pod :
    /\ \A k \in DOMAIN stream :
         stream[k][1] = p /\ (\A j \in DOMAIN stream : j > k => stream[j][1] # p)
           => stream[k][2] = pods[p].ip
    /\ (\A k \in DOMAIN stream : stream[k][1] # p)
         => \A i \in IP : pods[p].ip = i <=> Entry(tracked, p, i)

AddressInv ==
  /\ pods \in Pods /\ \A p \in Pod : Running(p) <=> pods[p].ip # None
  /\ stream \in Seq(Pod \X Address)
  /\ Dict(tracked) /\ mapping = Publish(tracked)
  /\ watcher \in {"list", "watch", "prune", "stopped"}
  /\ watcher \in {"watch", "prune"} => Caught

\* A set of positions has a last one.
LEMMA LastPosition ==
  ASSUME NEW n \in Nat, NEW S, S \subseteq 1..n, S # {}
  PROVE  \E k \in S : \A j \in S : j <= k
<1> DEFINE T == {m \in Nat : n - m \in S}
<1>1. \A k \in S : k \in Nat /\ n - k \in T
  <2> SUFFICES ASSUME NEW k \in S PROVE k \in Nat /\ n - k \in T
    BY Zenon
  <2>1. k \in 1..n
    BY Zenon
  <2>2. n - k \in Nat /\ n - (n - k) = k
    BY <2>1
  <2> QED
    BY <2>1, <2>2
<1>2. PICK m \in T : \A y \in T : ~(<<y, m>> \in OpToRel(<, Nat))
  <2>1. T \subseteq Nat /\ T # {}
    BY <1>1, Zenon
  <2> HIDE DEF T
  <2> QED
    BY <2>1, WFMin, NatLessThanWellFounded, Zenon
<1>3. \A y \in T : m <= y
  <2> SUFFICES ASSUME NEW y \in T PROVE m <= y
    BY Zenon
  <2>1. ~(y < m)
    BY <1>2, Zenon DEF OpToRel
  <2> QED
    BY <2>1
<1>4. n - m \in S /\ m \in Nat
  BY Zenon
<1>5. \A j \in S : j <= n - m
  <2> SUFFICES ASSUME NEW j \in S PROVE j <= n - m
    BY Zenon
  <2>1. m <= n - j /\ j \in Nat
    BY <1>1, <1>3, Zenon
  <2> QED
    BY <1>4, <2>1
<1> QED
  BY <1>4, <1>5, Zenon

\* _publish: the address of a node is that of a pod in the dict, if there is one.
LEMMA PublishedAddress ==
  ASSUME NEW seq, Dict(seq), NEW n \in Node
  PROVE  \/ Publish(seq)[n] = None /\ \A k \in DOMAIN seq : PodNode[seq[k][1]] # n
         \/ \E k \in DOMAIN seq : PodNode[seq[k][1]] = n /\ Publish(seq)[n] = seq[k][2]
<1> DEFINE own == {k \in DOMAIN seq : PodNode[seq[k][1]] = n}
           last == CHOOSE k \in own : \A j \in own : j <= k
<1>1. Publish(seq)[n] = IF own = {} THEN None ELSE seq[last][2]
  BY Zenon DEF Publish
<1>2. CASE own = {}
  BY <1>1, <1>2, Zenon
<1>3. CASE own # {}
  <2>1. own \subseteq 1..Len(seq) /\ Len(seq) \in Nat
    BY DEF Dict
  <2>2. \E k \in own : \A j \in own : j <= k
    <3> HIDE DEF own
    <3> QED
      BY <1>3, <2>1, LastPosition, Zenon
  <2>3. last \in own
    <3> HIDE DEF own
    <3> QED
      BY <2>2, Zenon
  <2> HIDE DEF last
  <2> QED
    BY <1>1, <1>3, <2>3, Zenon
<1> QED
  BY <1>2, <1>3, Zenon

\* What is published is a map from nodes to addresses.
LEMMA PublishType ==
  ASSUME NEW seq, Dict(seq)
  PROVE  Publish(seq) \in [Node -> Address]
<1>1. Publish(seq) = [n \in Node |-> Publish(seq)[n]]
  BY DEF Publish
<1>2. ASSUME NEW n \in Node PROVE Publish(seq)[n] \in Address
  BY PublishedAddress DEF Dict, Address
<1> HIDE DEF Publish
<1> QED
  BY <1>1, <1>2, Zenon

\* pop: the entry of the pod is gone, the others stay.
LEMMA WithoutEntry ==
  ASSUME NEW seq, Dict(seq), NEW p \in Pod
  PROVE  /\ Dict(Without(seq, p))
         /\ \A q \in Pod, i \in IP :
              Entry(Without(seq, p), q, i) <=> q # p /\ Entry(seq, q, i)
<1> DEFINE own == {k \in DOMAIN seq : seq[k][1] = p}
           at  == CHOOSE k \in own : TRUE
           new == [k \in 1..Len(seq) - 1 |-> IF k < at THEN seq[k] ELSE seq[k + 1]]
<1>1. CASE own = {}
  <2>1. Without(seq, p) = seq
    BY <1>1, Zenon DEF Without
  <2> QED
    BY <1>1, <2>1 DEF Entry
<1>2. CASE own # {}
  <2>1. Without(seq, p) = new
    BY <1>2, Zenon DEF Without
  <2>2. /\ at \in 1..Len(seq) /\ seq[at][1] = p /\ Len(seq) \in Nat
        /\ \A k \in 1..Len(seq) : k # at => seq[k][1] # p
        /\ \A k \in 1..Len(seq) : seq[k] \in Pod \X IP
    BY <1>2 DEF Dict
  <2> HIDE DEF at
  <2>3. new \in Seq(Pod \X IP) /\ DOMAIN new = 1..Len(seq) - 1
    <3>1. \A k \in 1..Len(seq) - 1 : new[k] \in Pod \X IP
      BY <2>2
    <3> HIDE DEF new
    <3> QED
      BY <2>2, <3>1, IsASeq DEF new
  <2>4. \A j, k \in DOMAIN new : new[j][1] = new[k][1] => j = k
    BY <2>2, <2>3, SMTT(30) DEF Dict
  <2>5. ASSUME NEW q \in Pod, NEW i \in IP
        PROVE  Entry(new, q, i) <=> q # p /\ Entry(seq, q, i)
    <3>1. ASSUME NEW k \in DOMAIN new, new[k] = <<q, i>>
          PROVE  q # p /\ Entry(seq, q, i)
      BY <2>2, <2>3, <3>1 DEF Entry
    <3>2. ASSUME NEW k \in DOMAIN seq, seq[k] = <<q, i>>, q # p
          PROVE  Entry(new, q, i)
      <4>1. k \in 1..Len(seq) /\ k # at
        BY <2>2, <3>2 DEF Dict
      <4>2. CASE k < at
        <5>1. k \in DOMAIN new /\ new[k] = <<q, i>>
          BY <2>2, <2>3, <3>2, <4>1, <4>2
        <5> QED
          BY <5>1, Zenon DEF Entry
      <4>3. CASE k > at
        <5>1. k - 1 \in DOMAIN new /\ new[k - 1] = <<q, i>>
          BY <2>2, <2>3, <3>2, <4>1, <4>3
        <5> QED
          BY <5>1, Zenon DEF Entry
      <4> QED
        BY <2>2, <4>1, <4>2, <4>3
    <3> QED
      BY <3>1, <3>2, Zenon DEF Entry
  <2> HIDE DEF new
  <2> QED
    BY <2>1, <2>3, <2>4, <2>5, Zenon DEF Dict
<1> QED
  BY <1>1, <1>2, Zenon

\* _track: afterwards the dict has what the event says of its pod, and of the
\* others what it had.
LEMMA TrackEntry ==
  ASSUME NEW seq, Dict(seq), NEW e \in Pod \X Address
  PROVE  /\ Dict(Track(seq, e))
         /\ \A q \in Pod, i \in IP :
              Entry(Track(seq, e), q, i) <=> IF q = e[1] THEN i = e[2] ELSE Entry(seq, q, i)
<1>1. CASE e[2] = None
  <2>1. Track(seq, e) = Without(seq, e[1]) /\ \A i \in IP : i # e[2]
    BY <1>1, AddressAssumption, Zenon DEF Track
  <2> QED
    BY <2>1, WithoutEntry
<1>2. CASE e[2] # None /\ \E k \in DOMAIN seq : seq[k][1] = e[1]
  <2> DEFINE new == [k \in DOMAIN seq |-> IF seq[k][1] = e[1] THEN e ELSE seq[k]]
  <2>1. Track(seq, e) = new /\ e = <<e[1], e[2]>> /\ e[1] \in Pod /\ e[2] \in IP
    BY <1>2 DEF Track, Address
  <2>2. /\ DOMAIN seq = 1..Len(seq) /\ Len(seq) \in Nat
        /\ \A k \in DOMAIN seq : seq[k] \in Pod \X IP /\ seq[k] = <<seq[k][1], seq[k][2]>>
    BY DEF Dict
  <2>3. new \in Seq(Pod \X IP) /\ DOMAIN new = DOMAIN seq
    <3>1. \A k \in 1..Len(seq) : new[k] \in Pod \X IP
      BY <2>1, <2>2, Zenon
    <3> QED
      BY <2>2, <3>1, IsASeq
  <2>4. \A k \in DOMAIN seq : new[k][1] = seq[k][1]
    BY Zenon
  <2>5. \A j, k \in DOMAIN new : new[j][1] = new[k][1] => j = k
    BY <2>3, <2>4, ZenonT(30) DEF Dict
  <2>6. ASSUME NEW q \in Pod, NEW i \in IP
        PROVE  Entry(new, q, i) <=> IF q = e[1] THEN i = e[2] ELSE Entry(seq, q, i)
    <3>1. CASE q = e[1]
      BY <1>2, <2>1, <2>2, <2>3, <3>1 DEF Entry
    <3>2. CASE q # e[1]
      BY <2>1, <2>2, <2>3, <3>2 DEF Entry
    <3> QED
      BY <3>1, <3>2, Zenon
  <2> HIDE DEF new
  <2> QED
    BY <2>1, <2>3, <2>5, <2>6, Zenon DEF Dict
<1>3. CASE e[2] # None /\ \A k \in DOMAIN seq : seq[k][1] # e[1]
  <2> DEFINE new == Append(seq, e)
  <2>1. Track(seq, e) = new /\ e = <<e[1], e[2]>> /\ e[1] \in Pod /\ e[2] \in IP
    BY <1>3 DEF Track, Address
  <2>2. seq \in Seq(Pod \X IP) /\ e \in Pod \X IP
    BY <2>1, Zenon DEF Dict
  <2>3. /\ new \in Seq(Pod \X IP) /\ DOMAIN new = 1..Len(seq) + 1
        /\ DOMAIN seq = 1..Len(seq) /\ Len(seq) \in Nat
        /\ \A k \in 1..Len(seq) : new[k] = seq[k]
        /\ new[Len(seq) + 1] = e
    BY <2>2
  <2> HIDE DEF new
  <2>4. \A j, k \in DOMAIN new : new[j][1] = new[k][1] => j = k
    BY <1>3, <2>3, SMTT(30) DEF Dict
  <2>5. ASSUME NEW q \in Pod, NEW i \in IP
        PROVE  Entry(new, q, i) <=> IF q = e[1] THEN i = e[2] ELSE Entry(seq, q, i)
    <3>1. Entry(new, q, i) <=> Entry(seq, q, i) \/ e = <<q, i>>
      <4>1. ASSUME NEW k \in DOMAIN seq, seq[k] = <<q, i>> PROVE Entry(new, q, i)
        BY <2>3, <4>1, SMTT(30) DEF Entry
      <4>2. ASSUME e = <<q, i>> PROVE Entry(new, q, i)
        BY <2>3, <4>2, SMTT(30) DEF Entry
      <4>3. ASSUME NEW k \in DOMAIN new, new[k] = <<q, i>> PROVE Entry(seq, q, i) \/ e = <<q, i>>
        BY <2>3, <4>3 DEF Entry
      <4> QED
        BY <4>1, <4>2, <4>3, Zenon DEF Entry
    <3>2. q = e[1] => ~Entry(seq, q, i)
      BY <1>3 DEF Entry
    <3> QED
      BY <2>1, <3>1, <3>2
  <2> QED
    BY <2>1, <2>3, <2>4, <2>5, Zenon DEF Dict
<1> QED
  BY <1>1, <1>2, <1>3, Zenon

\* The changes of the pods.
LEMMA ChangeStep ==
  ASSUME AddressInv, NEW p \in Pod, NEW phase \in Phase, NEW ip \in Address,
         Change(p, phase, ip), phase = "running" <=> ip # None
  PROVE  AddressInv'
<1> USE DEF AddressInv
<1>1. /\ pods' = [pods EXCEPT ![p] = [phase |-> phase, ip |-> ip]]
      /\ UNCHANGED <<tracked, mapping, watcher>>
  BY Zenon DEF Change, watcherVars
<1>2. pods' \in Pods /\ \A q \in Pod : (Running(q) <=> pods[q].ip # None)'
  BY <1>1, Zenon DEF Pods, Running
<1>3. \A q \in Pod : pods'[q].ip = IF q = p THEN ip ELSE pods[q].ip
  BY <1>1, Zenon DEF Pods
<1>4. CASE watcher \in {"watch", "prune"}
  <2>1. stream' = Append(stream, <<p, ip>>)
    BY <1>4, Zenon DEF Change
  <2>2. /\ stream' \in Seq(Pod \X Address) /\ Len(stream) \in Nat
        /\ DOMAIN stream' = 1..Len(stream) + 1 /\ DOMAIN stream = 1..Len(stream)
        /\ \A k \in 1..Len(stream) : stream'[k] = stream[k]
        /\ stream'[Len(stream) + 1] = <<p, ip>>
    BY <2>1
  <2>3. ASSUME NEW q \in Pod, NEW k \in DOMAIN stream', stream'[k][1] = q,
               \A j \in DOMAIN stream' : j > k => stream'[j][1] # q
        PROVE  stream'[k][2] = pods'[q].ip
    <3>1. CASE k = Len(stream) + 1
      BY <1>3, <2>2, <2>3, <3>1
    <3>2. CASE k \in DOMAIN stream
      <4>1. q # p
        BY <2>2, <2>3, <3>2, SMTT(30)
      <4>2. \A j \in DOMAIN stream : j > k => stream[j][1] # q
        BY <2>2, <2>3, <3>2
      <4>3. stream[k][2] = pods[q].ip
        BY <1>4, <2>2, <2>3, <3>2, <4>2 DEF Caught
      <4> QED
        BY <1>3, <2>2, <3>2, <4>1, <4>3, Zenon
    <3> QED
      BY <2>2, <3>1, <3>2
  <2>4. ASSUME NEW q \in Pod, \A k \in DOMAIN stream' : stream'[k][1] # q
        PROVE  \A i \in IP : pods'[q].ip = i <=> Entry(tracked', q, i)
    <3>1. q # p /\ \A k \in DOMAIN stream : stream[k][1] # q
      BY <2>2, <2>4
    <3> QED
      BY <1>1, <1>3, <1>4, <3>1, SMTT(30) DEF Caught
  <2>5. Caught'
    BY <2>3, <2>4, Zenon DEF Caught
  <2> QED
    BY <1>1, <1>2, <2>2, <2>5, Zenon
<1>5. CASE watcher \notin {"watch", "prune"}
  BY <1>1, <1>2, <1>5, Zenon DEF Change
<1> QED
  BY <1>4, <1>5, Zenon

\* A pod that starts or ends leaves an event for the watcher.
LEMMA PodStepKeeps == AddressInv /\ PodStep => AddressInv'
<1> SUFFICES ASSUME AddressInv, NEW p \in Pod, RunPod(p) \/ EndPod(p) PROVE AddressInv'
  BY Zenon DEF PodStep
<1>1. CASE RunPod(p)
  <2>1. PICK i \in IP : Change(p, "running", i)
    BY <1>1, Zenon DEF RunPod
  <2>2. i \in Address /\ i # None /\ "running" \in Phase
    BY AddressAssumption, Zenon DEF Address, Phase
  <2> QED
    BY <2>1, <2>2, ChangeStep, Zenon
<1>2. CASE EndPod(p)
  <2>1. Change(p, "gone", None) /\ None \in Address /\ "gone" \in Phase
    BY <1>2, Zenon DEF EndPod, Address, Phase
  <2> QED
    BY <2>1, ChangeStep, Zenon
<1> QED
  BY <1>1, <1>2, Zenon

\* reload_mapping: the dict has exactly the running pods.
LEMMA ReloadStep == AddressInv /\ reload_mapping => AddressInv'
<1> SUFFICES ASSUME AddressInv, reload_mapping PROVE AddressInv'
  BY Zenon
<1> USE DEF AddressInv
<1> DEFINE ps == {p \in Pod : Running(p)}
<1>1. PICK names \in [1..Cardinality(ps) -> ps] :
        /\ InOrder(names, ps)
        /\ tracked' = [k \in DOMAIN names |-> <<names[k], pods[names[k]].ip>>]
        /\ mapping' = Publish(tracked')
  BY Zenon DEF reload_mapping
<1>2. UNCHANGED pods /\ stream' = <<>> /\ watcher' = "watch"
  BY Zenon DEF reload_mapping
<1>3. Cardinality(ps) \in Nat
  BY AddressAssumption, FS_Subset, FS_CardinalityType, Zenon
<1> DEFINE n == Cardinality(ps)
<1> HIDE DEF n
<1>4. /\ DOMAIN names = 1..n /\ n \in Nat
      /\ \A k \in 1..n : names[k] \in Pod /\ Running(names[k]) /\ names[k] \in Nat
      /\ \A p \in Pod : Running(p) => \E k \in 1..n : names[k] = p
    <2>1. \A k \in DOMAIN names : names[k] \in ps
      BY Zenon
    <2>2. {names[k] : k \in DOMAIN names} = ps
      BY <1>1, Zenon DEF InOrder
    <2> QED
      BY <1>1, <1>3, <2>1, <2>2, AddressAssumption, Zenon DEF n
<1>5. \A k \in 1..n : pods[names[k]].ip \in IP
  BY <1>4, Zenon DEF Pods, Address
<1>6. \A j, k \in 1..n : names[j] = names[k] => j = k
  <2> SUFFICES ASSUME NEW j \in 1..n, NEW k \in 1..n, names[j] = names[k], j < k PROVE FALSE
    BY <1>4
  <2> QED
    BY <1>1, <1>4 DEF InOrder
<1>7. Dict(tracked')
  <2>1. \A k \in 1..n : tracked'[k] = <<names[k], pods[names[k]].ip>>
    BY <1>1, <1>4, Zenon
  <2>2. tracked' \in Seq(Pod \X IP) /\ DOMAIN tracked' = 1..n
    <3>1. tracked' = [k \in 1..n |-> <<names[k], pods[names[k]].ip>>]
      BY <1>1, <1>4, Zenon
    <3>2. \A k \in 1..n : <<names[k], pods[names[k]].ip>> \in Pod \X IP
      BY <1>4, <1>5, Zenon
    <3> QED
      BY <1>4, <3>1, <3>2, IsASeq
  <2> QED
    BY <1>6, <2>1, <2>2, SMTT(30) DEF Dict
<1>8. \A p \in Pod, i \in IP : pods[p].ip = i <=> Entry(tracked', p, i)
  <2> SUFFICES ASSUME NEW p \in Pod, NEW i \in IP
               PROVE  pods[p].ip = i <=> Entry(tracked', p, i)
    BY Zenon
  <2>1. DOMAIN tracked' = 1..n /\ \A k \in 1..n : tracked'[k] = <<names[k], pods[names[k]].ip>>
    BY <1>1, <1>4, Zenon
  <2>2. ASSUME pods[p].ip = i PROVE Entry(tracked', p, i)
    <3>1. Running(p)
      BY <2>2, AddressAssumption, Zenon
    <3> QED
      BY <1>4, <2>1, <2>2, <3>1, SMTT(30) DEF Entry
  <2>3. ASSUME NEW k \in 1..n, tracked'[k] = <<p, i>> PROVE pods[p].ip = i
    <3>1. <<names[k], pods[names[k]].ip>> = <<p, i>>
      BY <2>1, <2>3, Zenon
    <3>2. names[k] = p /\ pods[names[k]].ip = i
      BY <3>1
    <3> QED
      BY <3>2, Zenon
  <2> QED
    BY <2>1, <2>2, <2>3, Zenon DEF Entry
<1>9. Caught'
  BY <1>2, <1>8 DEF Caught
<1> QED
  BY <1>1, <1>2, <1>7, <1>9 DEF Running

\* One event of the watch is the present state of its pod unless a later one is
\* still to come.
LEMMA EventStep == AddressInv /\ HandleEvent => AddressInv'
<1> SUFFICES ASSUME AddressInv, HandleEvent PROVE AddressInv'
  BY Zenon
<1> USE DEF AddressInv
<1>1. /\ stream # <<>> /\ stream' = Tail(stream) /\ UNCHANGED pods
      /\ watcher = "watch" /\ watcher' = "prune"
      /\ tracked' = Track(tracked, Head(stream)) /\ mapping' = Publish(tracked')
  BY Zenon DEF HandleEvent
<1>2. /\ Head(stream) = stream[1] /\ stream[1] \in Pod \X Address
      /\ Len(stream) \in Nat /\ Len(stream) > 0 /\ DOMAIN stream = 1..Len(stream)
      /\ stream' \in Seq(Pod \X Address) /\ DOMAIN stream' = 1..Len(stream) - 1
      /\ \A k \in 1..Len(stream) - 1 : stream'[k] = stream[k + 1]
  BY <1>1
<1>3. /\ Dict(tracked')
      /\ \A q \in Pod, i \in IP : Entry(tracked', q, i)
           <=> IF q = stream[1][1] THEN i = stream[1][2] ELSE Entry(tracked, q, i)
  BY <1>1, <1>2, TrackEntry, Zenon
<1>4. Caught
  BY <1>1, Zenon
<1>5. ASSUME NEW p \in Pod, NEW k \in DOMAIN stream', stream'[k][1] = p,
             \A j \in DOMAIN stream' : j > k => stream'[j][1] # p
      PROVE  stream'[k][2] = pods[p].ip
  <2>1. k + 1 \in DOMAIN stream /\ stream[k + 1] = stream'[k]
    BY <1>2
  <2>2. ASSUME NEW j \in DOMAIN stream, j > k + 1 PROVE stream[j][1] # p
    <3>1. j - 1 \in DOMAIN stream' /\ j - 1 > k /\ stream'[j - 1] = stream[j]
      BY <1>2, <2>2
    <3> QED
      BY <1>5, <3>1, Zenon
  <2> QED
    BY <1>4, <1>5, <2>1, <2>2 DEF Caught
<1>6. ASSUME NEW p \in Pod, \A k \in DOMAIN stream' : stream'[k][1] # p, NEW i \in IP
      PROVE  pods[p].ip = i <=> Entry(tracked', p, i)
  <2>1. ASSUME NEW j \in DOMAIN stream, j > 1 PROVE stream[j][1] # p
    <3>1. j - 1 \in DOMAIN stream' /\ stream'[j - 1] = stream[j]
      BY <1>2, <2>1
    <3> QED
      BY <1>6, <3>1, Zenon
  <2>2. CASE stream[1][1] = p
    <3>1. stream[1][2] = pods[p].ip
      BY <1>2, <1>4, <2>1, <2>2 DEF Caught
    <3> QED
      BY <1>3, <2>2, <3>1, Zenon
  <2>3. CASE stream[1][1] # p
    <3>1. \A j \in DOMAIN stream : stream[j][1] # p
      BY <1>2, <2>1, <2>3
    <3> QED
      BY <1>3, <1>4, <2>3, <3>1, Zenon DEF Caught
  <2> QED
    BY <2>2, <2>3, Zenon
<1>7. Caught'
  BY <1>1, <1>5, <1>6, ZenonT(30) DEF Caught
<1> QED
  BY <1>1, <1>2, <1>3, <1>7, Zenon DEF Running

\* Every step of Cluster keeps what the watcher knows true.
LEMMA AddressStep == AddressInv /\ [Next]_vars => AddressInv'
<1> SUFFICES ASSUME AddressInv, [Next]_vars PROVE AddressInv'
  BY Zenon
<1>1. ASSUME UNCHANGED <<podVars, tracked, mapping>>,
             watcher' \in {watcher, "stopped"} \/ (watcher = "prune" /\ watcher' = "watch")
      PROVE  AddressInv'
  BY <1>1, Zenon DEF AddressInv, podVars, Caught, Running
<1>2. CASE PodStep
  BY <1>2, PodStepKeeps, Zenon
<1>3. CASE WatcherStep
  BY <1>3, ReloadStep, EventStep, Zenon DEF WatcherStep
<1>4. CASE WatchFails
  BY <1>4 DEF WatchFails, AddressInv, Running
<1>5. CASE prune_stale_stubs
  BY <1>1, <1>5, Zenon DEF prune_stale_stubs
<1>6. CASE Terminate
  BY <1>1, <1>6, Zenon DEF Terminate, StopWatcher
<1>7. CASE UNCHANGED <<podVars, watcherVars>>
  BY <1>1, <1>7, Zenon DEF watcherVars
<1>8. \/ PodStep \/ WatcherStep \/ WatchFails \/ prune_stale_stubs \/ Terminate
      \/ UNCHANGED <<podVars, watcherVars>>
  <2>1. CASE UNCHANGED vars
    BY <2>1, Zenon DEF vars
  <2>2. CASE AioClose \/ ServeLate \/ Respond
    BY <2>2, Zenon DEF AioClose, ServeLate, Respond
  <2>3. ASSUME NEW op, NEW want, NEW asked, Begin(op, want, asked)
        PROVE  UNCHANGED <<podVars, watcherVars>>
    BY <2>3, Zenon DEF Begin
  <2>4. CASE ControllerExpandVolume \/ get_nodes
    BY <2>3, <2>4, Zenon DEF ControllerExpandVolume, get_nodes
  <2>5. ASSUME NEW n \in Node, get_single_node(n) \/ get_node_pool_volumes(n) \/ get_node_tasks(n)
        PROVE  UNCHANGED <<podVars, watcherVars>>
    BY <2>3, <2>5, Zenon DEF get_single_node, get_node_pool_volumes, get_node_tasks
  <2>6. ASSUME NEW n \in Node, Call(n) \/ Serve(n) \/ GiveUp(n)
        PROVE  UNCHANGED <<podVars, watcherVars>>
    BY <2>6, Zenon DEF Call, Serve, GiveUp
  <2> QED
    BY <2>1, <2>2, <2>4, <2>5, <2>6, Zenon DEF Next
<1> QED
  BY <1>2, <1>3, <1>4, <1>5, <1>6, <1>7, <1>8, Zenon

\* The mapping is what the pods and the waiting events say, in every state.
LEMMA AddressAlways == Spec => []AddressInv
<1>1. Init => AddressInv
  <2> SUFFICES ASSUME Init PROVE AddressInv
    BY Zenon
  <2> USE DEF Init, AddressInit
  <2>1. Dict(tracked) /\ stream \in Seq(Pod \X Address)
    BY DEF Dict
  <2>2. mapping = Publish(tracked)
    BY DEF Publish
  <2>3. pods \in Pods /\ \A p \in Pod : Running(p) <=> pods[p].ip # None
    BY Zenon DEF Pods, Phase, Address, Running
  <2> QED
    BY <2>1, <2>2, <2>3, Zenon DEF AddressInv
<1> QED
  BY <1>1, AddressStep, PTL DEF Spec

\* Whenever the watcher has seen all events, the mapping has for each node the
\* address of a pod that runs there, however many events it was behind and in
\* whatever order the pods of a node came and went (AccurateWhenCaughtUp).
THEOREM AddressesAccurate == Spec => []AccurateWhenCaughtUp
<1>1. AddressInv => AccurateWhenCaughtUp
  <2> SUFFICES ASSUME AddressInv, watcher = "watch", stream = <<>>, NEW n \in Node
               PROVE  IF RunningOn(n) = {} THEN mapping[n] = None
                      ELSE \E p \in RunningOn(n) : mapping[n] = pods[p].ip
    BY Zenon DEF AccurateWhenCaughtUp, Accurate
  <2>1. \A p \in Pod, i \in IP : pods[p].ip = i <=> Entry(tracked, p, i)
    BY DEF AddressInv, Caught
  <2>2. Dict(tracked) /\ mapping[n] = Publish(tracked)[n]
    BY Zenon DEF AddressInv
  <2>3. ASSUME NEW k \in DOMAIN tracked, PodNode[tracked[k][1]] = n
        PROVE  tracked[k][1] \in RunningOn(n) /\ pods[tracked[k][1]].ip = tracked[k][2]
    <3>1. tracked[k] \in Pod \X IP
      BY <2>2 DEF Dict
    <3>2. Entry(tracked, tracked[k][1], tracked[k][2])
      BY <3>1 DEF Entry
    <3>3. pods[tracked[k][1]].ip = tracked[k][2] /\ tracked[k][2] # None
      BY <2>1, <3>1, <3>2, AddressAssumption, Zenon
    <3> QED
      BY <2>3, <3>1, <3>3, Zenon DEF AddressInv, RunningOn
  <2>4. ASSUME NEW p \in RunningOn(n)
        PROVE  \E k \in DOMAIN tracked : PodNode[tracked[k][1]] = n
    <3>1. p \in Pod /\ PodNode[p] = n /\ pods[p].ip \in IP
      BY <2>4, Zenon DEF RunningOn, AddressInv, Pods, Address
    <3>2. Entry(tracked, p, pods[p].ip)
      BY <2>1, <3>1, Zenon
    <3> QED
      BY <3>1, <3>2 DEF Entry
  <2> QED
    BY <2>2, <2>3, <2>4, PublishedAddress
<1> QED
  BY <1>1, AddressAlways, PTL

-----------------------------------------------------------------------------
(* Channels and sizes *)

\* A call goes on over the channel of the cache as long as that is open.
CallOK(c, cache) ==
  /\ c = [st |-> c.st, ip |-> c.ip, chan |-> c.chan]
  /\ c.st \in {"addressed", "sent"} => c.ip \in IP
  /\ c.chan = "open" => c.st = "sent" /\ cache[c.ip] = "open"

ChannelInv ==
  /\ stubs \in [IP -> {"none", "open", "closed"}]
  /\ proc = "up" => \A i \in IP : stubs[i] # "closed"
  /\ req.calls = [n \in Node |-> req.calls[n]] /\ \A n \in Node : CallOK(req.calls[n], stubs)

SizeInv ==
  /\ size \in 1..MaxSize /\ granted \in 1..MaxSize /\ \A m \in late : m \in 1..MaxSize
  /\ req.op = "expand" => req.want \in 1..MaxSize

\* Whoever gets an expansion sets a size that was asked for, if any.
LEMMA ExpandBounded ==
  ASSUME NEW p \in Pod, NEW want \in 1..MaxSize, NEW result, size \in 1..MaxSize,
         ExpandRawFile(p, want, result)
  PROVE  size' \in 1..MaxSize
BY Zenon DEF ExpandRawFile

\* No volume is larger than what the claim may ask for.
LEMMA SizeStep == GrantInv /\ SizeInv /\ [Next]_vars => SizeInv'
<1> SUFFICES ASSUME GrantInv, SizeInv, [Next]_vars PROVE SizeInv'
  BY Zenon
<1> USE ClusterAssumption DEF SizeInv
<1>1. CASE UNCHANGED vars \/ Others
  BY <1>1, Zenon DEF vars, Others, callVars, volumeVars
<1>2. CASE prune_stale_stubs \/ AioClose
  BY <1>2, Zenon DEF prune_stale_stubs, AioClose, GrantInv, volumeVars
<1>3. ASSUME NEW op, NEW want, NEW asked, Begin(op, want, asked),
             op = "expand" => want \in 1..MaxSize
      PROVE  SizeInv'
  BY <1>3, Zenon DEF Begin, volumeVars
<1>4. CASE ControllerExpandVolume
  <2>1. PICK want \in granted + 1 .. MaxSize : Begin("expand", want, {volume_to_node})
    BY <1>4, Zenon DEF ControllerExpandVolume
  <2>2. want \in 1..MaxSize
    BY <2>1
  <2> QED
    BY <1>3, <2>1, <2>2, Zenon
<1>5. CASE get_nodes \/ \E n \in Node : get_single_node(n) \/ get_node_pool_volumes(n) \/ get_node_tasks(n)
  BY <1>3, <1>5, Zenon DEF get_nodes, get_single_node, get_node_pool_volumes, get_node_tasks
<1>6. ASSUME NEW n \in Node, Call(n) \/ GiveUp(n) PROVE SizeInv'
  BY <1>6, Zenon DEF Call, GiveUp, Set, GrantInv, volumeVars
<1>7. ASSUME NEW n \in Node, Serve(n) PROVE SizeInv'
  <2>1. PICK p \in RunningAt(req.calls[n].ip), result \in {"ok", "exhausted", "error"} :
          IF ~Accepts(p) THEN result = "error" /\ UNCHANGED size
          ELSE IF req.op = "expand" THEN ExpandRawFile(p, req.want, result)
          ELSE Report(result)
    BY <1>7, Zenon DEF Serve
  <2>2. size' \in 1..MaxSize
    BY <2>1, ExpandBounded, Zenon DEF Report, RunningAt
  <2>3. \E call : Set(n, call)
    BY <1>7, Zenon DEF Serve
  <2> QED
    BY <1>7, <2>2, <2>3, Zenon DEF Serve, Set, GrantInv
<1>8. CASE ServeLate
  <2>1. PICK m \in late :
          /\ late' = late \ {m}
          /\ \/ UNCHANGED size
             \/ \E p \in Pod, result \in {"ok", "exhausted", "error"} :
                  Running(p) /\ Accepts(p) /\ ExpandRawFile(p, m, result)
    BY <1>8, Zenon DEF ServeLate
  <2>2. size' \in 1..MaxSize
    BY <2>1, ExpandBounded, Zenon
  <2> QED
    BY <1>8, <2>1, <2>2, Zenon DEF ServeLate
<1>9. CASE Respond
  BY <1>9, Zenon DEF Respond, NoRequest
<1>10. CASE Terminate
  BY <1>10, Zenon DEF Terminate, CloseAll, GrantInv, volumeVars
<1> QED
  BY <1>1, <1>2, <1>4, <1>5, <1>6, <1>7, <1>8, <1>9, <1>10, Zenon DEF Next

\* The calls of a request after a step that changes one of them.
LEMMA SetCall ==
  ASSUME GrantInv, ChannelInv, NEW n \in Node, NEW call, Set(n, call),
         stubs' \in [IP -> {"none", "open", "closed"}],
         CallOK(call, stubs'), \A i \in IP : stubs[i] = "open" => stubs'[i] = "open",
         proc' = "up" => \A i \in IP : stubs'[i] # "closed"
  PROVE  ChannelInv'
<1>1. /\ req'.calls = [m \in Node |-> req'.calls[m]]
      /\ \A m \in Node : req'.calls[m] = IF m = n THEN call ELSE req.calls[m]
  BY Zenon DEF Set, GrantInv
<1>2. \A m \in Node : CallOK(req'.calls[m], stubs')
  BY <1>1 DEF ChannelInv, CallOK
<1> QED
  BY <1>1, <1>2, Zenon DEF ChannelInv

\* A call whose channel is closed or about to be closed.
LEMMA CloseCall ==
  ASSUME NEW c, NEW cache, NEW other, CallOK(c, cache), NEW chan \in {"closing", "closed"}
  PROVE  CallOK([c EXCEPT !.chan = chan], other)
BY DEF CallOK

\* A call that has its address and no channel yet.
LEMMA AddressedCall ==
  ASSUME NEW i \in IP, NEW cache
  PROVE  CallOK([NoCall EXCEPT !.st = "addressed", !.ip = i], cache)
<1> DEFINE c == [NoCall EXCEPT !.st = "addressed", !.ip = i]
<1>1. c.st = "addressed" /\ c.ip = i /\ c.chan = "none"
  BY Zenon DEF NoCall
<1>2. DOMAIN c = {"st", "ip", "chan"} /\ c = [f \in DOMAIN c |-> c[f]]
  BY Zenon DEF NoCall
<1>3. c = [st |-> c.st, ip |-> c.ip, chan |-> c.chan]
  <2> HIDE DEF c
  <2> QED
    BY <1>2, Zenon
<1> HIDE DEF c
<1>4. CallOK(c, cache)
  BY <1>1, <1>3, Zenon DEF CallOK
<1> QED
  BY <1>4, Zenon DEF c

\* Every step keeps the channels of running calls open; each action has its case.
LEMMA ChannelStep == GrantInv /\ AddressInv /\ ChannelInv /\ [Next]_vars => ChannelInv'
<1> SUFFICES ASSUME GrantInv, AddressInv, ChannelInv, [Next]_vars PROVE ChannelInv'
  BY Zenon
<1>1. CASE UNCHANGED <<proc, stubs, req>>
  BY <1>1, Zenon DEF ChannelInv
<1>2. CASE UNCHANGED vars \/ Others \/ ServeLate
  BY <1>1, <1>2, Zenon DEF vars, Others, ServeLate, callVars
<1>3. CASE prune_stale_stubs
  <2>1. /\ UNCHANGED proc
        /\ stubs' = [i \in IP |-> IF i \in IP \ Addresses THEN "none" ELSE stubs[i]]
    BY <1>3, Zenon DEF prune_stale_stubs, PrunedStubs
  <2>2. /\ req'.calls = [n \in Node |-> req'.calls[n]]
        /\ \A n \in Node : req'.calls[n] =
             IF req.calls[n].chan = "open" /\ req.calls[n].ip \in IP \ Addresses
               THEN [req.calls[n] EXCEPT !.chan = IF plugin = "api" THEN "closing" ELSE "closed"]
               ELSE req.calls[n]
    BY <1>3, Zenon DEF prune_stale_stubs, GrantInv
  <2>3. ASSUME NEW n \in Node PROVE CallOK(req'.calls[n], stubs')
    <3>1. CallOK(req.calls[n], stubs)
      BY Zenon DEF ChannelInv
    <3>2. CASE req.calls[n].chan = "open" /\ req.calls[n].ip \in IP \ Addresses
      <4>1. PICK chan \in {"closing", "closed"} : req'.calls[n] = [req.calls[n] EXCEPT !.chan = chan]
        BY <2>2, <3>2, Zenon
      <4>2. CallOK([req.calls[n] EXCEPT !.chan = chan], stubs')
        BY <3>1, CloseCall, Zenon
      <4> QED
        BY <4>1, <4>2, Zenon
    <3>3. CASE ~(req.calls[n].chan = "open" /\ req.calls[n].ip \in IP \ Addresses)
      <4>1. req'.calls[n] = req.calls[n]
        BY <2>2, <3>3, Zenon
      <4> QED
        BY <2>1, <3>1, <3>3, <4>1, Zenon DEF CallOK
    <3> QED
      BY <3>2, <3>3, Zenon
  <2> QED
    BY <2>1, <2>2, <2>3, Zenon DEF ChannelInv
<1>4. CASE AioClose
  <2>1. /\ UNCHANGED <<proc, stubs>>
        /\ req'.calls = [n \in Node |-> req'.calls[n]]
        /\ \A n \in Node : req'.calls[n] =
             IF req.calls[n].chan = "closing" THEN [req.calls[n] EXCEPT !.chan = "closed"]
             ELSE req.calls[n]
    BY <1>4, Zenon DEF AioClose, GrantInv
  <2>2. ASSUME NEW n \in Node PROVE CallOK(req'.calls[n], stubs')
    <3>1. CallOK(req.calls[n], stubs)
      BY Zenon DEF ChannelInv
    <3>2. CallOK([req.calls[n] EXCEPT !.chan = "closed"], stubs')
      BY <3>1, CloseCall, Zenon
    <3>3. CASE req.calls[n].chan = "closing"
      BY <2>1, <3>2, <3>3, Zenon
    <3>4. CASE req.calls[n].chan # "closing"
      BY <2>1, <3>1, <3>4, Zenon
    <3> QED
      BY <3>3, <3>4, Zenon
  <2> QED
    BY <2>1, <2>2, Zenon DEF ChannelInv
<1>5. ASSUME NEW op, NEW want, NEW asked, Begin(op, want, asked) PROVE ChannelInv'
  <2>1. /\ UNCHANGED <<proc, stubs>> /\ req'.calls = [n \in Node |-> req'.calls[n]]
        /\ \A n \in Node : \/ req'.calls[n] = NoCall
                           \/ /\ mapping[n] # None
                              /\ req'.calls[n] = [NoCall EXCEPT !.st = "addressed", !.ip = mapping[n]]
    BY <1>5, Zenon DEF Begin, get_node_ip
  <2>2. mapping \in [Node -> Address]
    BY PublishType, Zenon DEF AddressInv
  <2>3. ASSUME NEW n \in Node PROVE CallOK(req'.calls[n], stubs')
    <3>1. CallOK(NoCall, stubs')
      BY Zenon DEF CallOK, NoCall
    <3>2. ASSUME NEW i \in IP PROVE CallOK([NoCall EXCEPT !.st = "addressed", !.ip = i], stubs')
      BY AddressedCall, Zenon
    <3>3. mapping[n] # None => mapping[n] \in IP
      BY <2>2, Zenon DEF Address
    <3> QED
      BY <2>1, <3>1, <3>2, <3>3, Zenon
  <2> QED
    BY <2>1, <2>3, Zenon DEF ChannelInv
<1>6. CASE ControllerExpandVolume \/ get_nodes
  BY <1>5, <1>6, Zenon DEF ControllerExpandVolume, get_nodes
<1>7. ASSUME NEW n \in Node, get_single_node(n) \/ get_node_pool_volumes(n) \/ get_node_tasks(n)
      PROVE  ChannelInv'
  BY <1>5, <1>7, Zenon DEF get_single_node, get_node_pool_volumes, get_node_tasks
<1>8. ASSUME NEW n \in Node, Call(n) PROVE ChannelInv'
  <2> DEFINE c == req.calls[n]
             chan == IF stubs[c.ip] = "none" THEN "open" ELSE stubs[c.ip]
             call == IF chan = "closed" THEN Over("failed") ELSE [c EXCEPT !.st = "sent", !.chan = chan]
  <2>1. c.st = "addressed" /\ stubs' = [stubs EXCEPT ![c.ip] = chan] /\ Set(n, call) /\ UNCHANGED proc
    BY <1>8, Zenon DEF Call
  <2>2. CallOK(c, stubs) /\ c.ip \in IP
    BY <2>1, Zenon DEF ChannelInv, CallOK
  <2>3. chan \in {"open", "closed"} /\ (proc = "up" => chan = "open")
    BY <2>2, Zenon DEF ChannelInv
  <2>4. /\ stubs' \in [IP -> {"none", "open", "closed"}] /\ stubs'[c.ip] = chan
        /\ \A i \in IP : stubs[i] = "open" => stubs'[i] = "open"
        /\ proc' = "up" => \A i \in IP : stubs'[i] # "closed"
    <3> HIDE DEF c
    <3>1. stubs[c.ip] = "open" => chan = "open"
      BY Zenon
    <3> HIDE DEF chan
    <3> QED
      BY <2>1, <2>2, <2>3, <3>1, Zenon DEF ChannelInv
  <2>5. CallOK(call, stubs')
    <3> HIDE DEF c, chan
    <3>1. CASE chan = "closed"
      BY <3>1, Zenon DEF CallOK, Over, NoCall
    <3>2. CASE chan = "open"
      BY <2>2, <2>4, <3>2, Zenon DEF CallOK
    <3> QED
      BY <2>3, <3>1, <3>2, Zenon
  <2> HIDE DEF call
  <2> QED
    BY <2>1, <2>4, <2>5, SetCall, Zenon
<1>9. ASSUME NEW n \in Node, Serve(n) \/ GiveUp(n) PROVE ChannelInv'
  <2>1. UNCHANGED <<proc, stubs>> /\ \E st : Set(n, Over(st))
    BY <1>9, Zenon DEF Serve, GiveUp
  <2>2. PICK st \in {"done", "failed"} : Set(n, Over(st))
    BY <1>9, Zenon DEF Serve, GiveUp
  <2>3. CallOK(Over(st), stubs')
    BY <2>2 DEF CallOK, Over, NoCall
  <2> QED
    BY <2>1, <2>2, <2>3, SetCall, Zenon DEF ChannelInv
<1>10. CASE Respond
  BY <1>10, Zenon DEF Respond, NoRequest, NoCall, ChannelInv, CallOK
<1>11. CASE Terminate
  <2>1. CASE CloseAll
    <3>1. /\ stubs' = [i \in IP |-> IF stubs[i] = "open" THEN "closed" ELSE stubs[i]]
          /\ req'.calls = [n \in Node |-> req'.calls[n]] /\ proc' = "closed"
          /\ \A n \in Node : req'.calls[n] =
               IF req.calls[n].chan = "open" THEN [req.calls[n] EXCEPT !.chan = "closed"]
               ELSE req.calls[n]
      BY <1>11, <2>1, Zenon DEF Terminate, CloseAll, GrantInv
    <3>2. ASSUME NEW n \in Node PROVE CallOK(req'.calls[n], stubs')
      <4>1. CallOK(req.calls[n], stubs)
        BY Zenon DEF ChannelInv
      <4>2. CASE req.calls[n].chan = "open"
        <5>1. CallOK([req.calls[n] EXCEPT !.chan = "closed"], stubs')
          BY <4>1, CloseCall, Zenon
        <5> QED
          BY <3>1, <4>2, <5>1, Zenon
      <4>3. CASE req.calls[n].chan # "open"
        BY <3>1, <4>1, <4>3, Zenon DEF CallOK
      <4> QED
        BY <4>2, <4>3, Zenon
    <3> QED
      BY <3>1, <3>2, Zenon DEF ChannelInv
  <2>2. CASE UNCHANGED <<stubs, req>>
    BY <1>11, <2>2, Zenon DEF Terminate, ChannelInv
  <2> QED
    BY <1>11, <2>1, <2>2, Zenon DEF Terminate
<1> QED
  BY <1>2, <1>3, <1>4, <1>6, <1>7, <1>8, <1>9, <1>10, <1>11, Zenon DEF Next

\* Until the process ends its caches hold open channels only, among them those
\* of all calls under way: neither pruning nor the end of a call leaves a
\* request with a channel that the cache has replaced (TypeOK).
THEOREM ChannelsOpen == Spec => []TypeOK
<1>1. Init => GrantInv /\ SizeInv /\ ChannelInv
  BY ClusterAssumption DEF Init, GrantInv, SizeInv, ChannelInv, CallOK, NoRequest, NoCall
<1>2. GrantInv /\ AddressInv /\ SizeInv /\ ChannelInv => TypeOK
  <2> SUFFICES ASSUME AddressInv, SizeInv, ChannelInv PROVE TypeOK
    BY Zenon
  <2>1. mapping \in [Node -> IP \cup {None}]
    BY PublishType, Zenon DEF AddressInv, Address
  <2>2. \A n \in Node : req.calls[n].chan = "open" => stubs[req.calls[n].ip] = "open"
    BY Zenon DEF ChannelInv, CallOK
  <2> QED
    BY <2>1, <2>2, Zenon DEF TypeOK, AddressInv, SizeInv, ChannelInv, Pods, Address
<1> QED
  BY <1>1, <1>2, GrantStep, SizeStep, ChannelStep, AddressStep, AddressAlways, PTL DEF Spec

=============================================================================

------------------------ MODULE ProvisioningProofs ------------------------
(***************************************************************************)
(* Theorems about Provisioning, for any number of volumes, copies among    *)
(* them, and any sizes and reserve: no more blocks are used than there are *)
(* and no volume is shorter than its metadata say; and what was allowed    *)
(* fits until it is allocated, unless something else took space meanwhile. *)
(***************************************************************************)
EXTENDS Provisioning, FiniteSetTheorems, WellFoundedInduction, TLAPS

-----------------------------------------------------------------------------
(* Sums over the volumes *)

\* MapThenSumSet takes one volume after the other; Iter is its recursive function.
Pick(s) == CHOOSE x \in s : TRUE
Unfolds(f, h, D) == f = [s \in D |-> IF s = {} THEN 0 ELSE h[Pick(s)] + f[s \ {Pick(s)}]]
Iter(h) == CHOOSE f : Unfolds(f, h, SUBSET Volume)

\* The sum is what the recursive function is for all volumes.
LEMMA SumDef == ASSUME NEW h PROVE Sum(h) = Iter(h)[Volume]
  BY Zenon DEF Sum, Iter, Unfolds, Pick, MapThenSumSet, MapThenFoldSet

\* Pick picks one of them.
LEMMA Picked == \A s : s # {} => Pick(s) \in s
  BY Zenon DEF Pick

\* Induction: a set of numbers without a least one is empty.
LEMMA NoLeast ==
  ASSUME NEW B, B \subseteq Nat, 0 \notin B, \A n \in Nat : n + 1 \in B => n \in B
  PROVE  B = {}
<1> SUFFICES ASSUME B # {} PROVE FALSE
  BY Zenon
<1>1. PICK m \in B : \A y \in B : ~(<<y, m>> \in OpToRel(<, Nat))
  BY NatLessThanWellFounded, WFMin, Zenon
<1>2. \A y \in B : ~(y < m)
  BY <1>1, Zenon DEF OpToRel
<1>3. m \in Nat /\ m # 0
  BY Zenon
<1>4. m - 1 \in Nat /\ (m - 1) + 1 = m /\ m - 1 < m
  BY <1>3
<1> QED
  BY <1>2, <1>4, Zenon

\* Sets of volumes are finite.
LEMMA Finite == \A s \in SUBSET Volume : IsFiniteSet(s) /\ Cardinality(s) \in Nat
  BY ProvisioningAssumption, FS_Subset, FS_CardinalityType, Zenon

\* What is left is smaller by one.
LEMMA Smaller ==
  ASSUME NEW s \in SUBSET Volume, s # {}
  PROVE  /\ s \ {Pick(s)} \in SUBSET Volume /\ Cardinality(s \ {Pick(s)}) = Cardinality(s) - 1
         /\ Cardinality(s) \in Nat \ {0}
<1>1. Pick(s) \in s
  BY Picked, Zenon
<1>2. Cardinality(s \ {Pick(s)}) = Cardinality(s) - 1
  BY <1>1, Finite, FS_RemoveElement, Zenon
<1>3. Cardinality(s) # 0
  BY Finite, FS_EmptySet, Zenon
<1> QED
  BY <1>2, <1>3, Finite, Zenon

\* There is such a recursive function: one for all sets of up to n volumes, for every n.
LEMMA IterDef ==
  ASSUME NEW h
  PROVE  Unfolds(Iter(h), h, SUBSET Volume)
<1> DEFINE D(n) == {s \in SUBSET Volume : Cardinality(s) <= n}
           B == {n \in Nat : ~\E f : Unfolds(f, h, D(n))}
<1>1. 0 \notin B
  <2>1. \A s \in D(0) : s = {}
    BY Finite, FS_EmptySet
  <2>2. Unfolds([s \in D(0) |-> 0], h, D(0))
    BY <2>1, Zenon DEF Unfolds
  <2> QED
    BY <2>2, Zenon
<1>2. ASSUME NEW n \in Nat, n + 1 \in B PROVE n \in B
  <2> SUFFICES ASSUME NEW g, Unfolds(g, h, D(n)) PROVE \E f : Unfolds(f, h, D(n + 1))
    BY <1>2, Zenon
  <2> DEFINE f == [s \in D(n + 1) |-> IF s = {} THEN 0 ELSE h[Pick(s)] + g[s \ {Pick(s)}]]
  <2>1. ASSUME NEW s \in D(n + 1), s # {}
        PROVE  s \ {Pick(s)} \in D(n) /\ s \ {Pick(s)} \in D(n + 1)
    BY <2>1, Smaller
  <2>2. ASSUME NEW s \in D(n + 1), s # {}
        PROVE  f[s \ {Pick(s)}] = g[s \ {Pick(s)}]
    <3> DEFINE u == s \ {Pick(s)}
    <3>1. u \in D(n) /\ u \in D(n + 1)
      BY <2>1, <2>2, Zenon
    <3>2. g[u] = IF u = {} THEN 0 ELSE h[Pick(u)] + g[u \ {Pick(u)}]
      BY <3>1, Zenon DEF Unfolds
    <3>3. f[u] = IF u = {} THEN 0 ELSE h[Pick(u)] + g[u \ {Pick(u)}]
      BY <3>1, Zenon
    <3> QED
      BY <3>2, <3>3, Zenon
  <2>3. f = [s \in D(n + 1) |-> IF s = {} THEN 0 ELSE h[Pick(s)] + f[s \ {Pick(s)}]]
    BY <2>2, Zenon
  <2> HIDE DEF f
  <2> QED
    BY <2>3, Zenon DEF Unfolds
<1>3. B = {}
  <2> HIDE DEF B
  <2>1. B \subseteq Nat
    BY Zenon DEF B
  <2> QED
    BY <1>1, <1>2, <2>1, NoLeast, Zenon
<1>4. Cardinality(Volume) \in Nat /\ SUBSET Volume = D(Cardinality(Volume))
  BY Finite, ProvisioningAssumption, FS_Subset, Zenon
<1>5. \E f : Unfolds(f, h, SUBSET Volume)
  BY <1>3, <1>4, Zenon
<1> QED
  BY <1>5, Zenon DEF Iter

\* How it goes on from a set to a larger one.
LEMMA IterStep ==
  ASSUME NEW h
  PROVE  /\ Iter(h)[{}] = 0
         /\ \A s \in SUBSET Volume : s # {} => Iter(h)[s] = h[Pick(s)] + Iter(h)[s \ {Pick(s)}]
<1>1. Unfolds(Iter(h), h, SUBSET Volume)
  BY IterDef, Zenon
<1> HIDE DEF Iter
<1> QED
  BY <1>1, Zenon DEF Unfolds

\* Induction over the volumes in the order in which they are picked.
LEMMA SetInduction ==
  ASSUME NEW G, {} \in G, \A s \in SUBSET Volume : s # {} /\ s \ {Pick(s)} \in G => s \in G
  PROVE  Volume \in G
<1> DEFINE B == {n \in Nat : \E s \in SUBSET Volume : Cardinality(s) = n /\ s \notin G}
<1>1. 0 \notin B
  BY Finite, FS_EmptySet, ZenonT(30)
<1>2. ASSUME NEW n \in Nat, n + 1 \in B PROVE n \in B
  <2>1. PICK s \in SUBSET Volume : Cardinality(s) = n + 1 /\ s \notin G
    BY <1>2, Zenon
  <2>2. s # {}
    BY <2>1, Zenon
  <2>3. s \ {Pick(s)} \in SUBSET Volume /\ Cardinality(s \ {Pick(s)}) = n
    BY <2>1, <2>2, Smaller
  <2> QED
    BY <2>1, <2>2, <2>3, Zenon
<1>3. B = {}
  <2> HIDE DEF B
  <2>1. B \subseteq Nat
    BY Zenon DEF B
  <2> QED
    BY <1>1, <1>2, <2>1, NoLeast, Zenon
<1> QED
  BY <1>3, Finite, Zenon

\* Sums of integers are integers; when one summand changes the sum changes by as much.
LEMMA SumChange ==
  ASSUME NEW h \in [Volume -> Int], NEW k \in [Volume -> Int], NEW v \in Volume,
         \A w \in Volume \ {v} : k[w] = h[w]
  PROVE  Sum(h) \in Int /\ Sum(k) = Sum(h) + k[v] - h[v]
<1> DEFINE ih == Iter(h)
           ik == Iter(k)
           G == {s \in SUBSET Volume : ih[s] \in Int /\ ik[s] = ih[s] + (IF v \in s THEN k[v] - h[v] ELSE 0)}
<1>1. /\ ih[{}] = 0 /\ ik[{}] = 0
      /\ \A s \in SUBSET Volume : s # {} => ih[s] = h[Pick(s)] + ih[s \ {Pick(s)}]
      /\ \A s \in SUBSET Volume : s # {} => ik[s] = k[Pick(s)] + ik[s \ {Pick(s)}]
  BY IterStep, Zenon
<1> HIDE DEF ih, ik
<1>2. {} \in G
  BY <1>1
<1>3. ASSUME NEW s \in SUBSET Volume, s # {}, s \ {Pick(s)} \in G PROVE s \in G
  <2> DEFINE p == Pick(s)
             u == s \ {p}
  <2>1. p \in s /\ p \in Volume /\ p \notin u
    BY <1>3, Picked, Zenon
  <2> HIDE DEF p
  <2>2. ih[s] = h[p] + ih[u] /\ ik[s] = k[p] + ik[u]
    BY <1>1, <1>3, Zenon DEF p
  <2>3. ih[u] \in Int /\ ik[u] = ih[u] + (IF v \in u THEN k[v] - h[v] ELSE 0)
    BY <1>3, Zenon DEF p
  <2>4. CASE p = v
    BY <2>1, <2>2, <2>3, <2>4
  <2>5. CASE p # v
    BY <2>1, <2>2, <2>3, <2>5
  <2> QED
    BY <2>4, <2>5, Zenon
<1>4. Volume \in G
  <2> HIDE DEF G
  <2> QED
    BY <1>2, <1>3, SetInduction, Zenon
<1> QED
  BY <1>4, SumDef, Zenon DEF ih, ik

\* The sum of nothing is nothing, and of naturals a natural.
LEMMA SumZero == Sum([v \in Volume |-> 0]) = 0
<1> DEFINE h == [v \in Volume |-> 0]
           ih == Iter(h)
           G == {s \in SUBSET Volume : ih[s] = 0}
<1>1. /\ ih[{}] = 0
      /\ \A s \in SUBSET Volume : s # {} => ih[s] = h[Pick(s)] + ih[s \ {Pick(s)}]
  BY IterStep, Zenon
<1> HIDE DEF ih
<1>2. {} \in G
  BY <1>1, Zenon
<1>3. ASSUME NEW s \in SUBSET Volume, s # {}, s \ {Pick(s)} \in G PROVE s \in G
  <2>1. Pick(s) \in Volume
    BY <1>3, Picked, Zenon
  <2>2. h[Pick(s)] = 0 /\ ih[s \ {Pick(s)}] = 0
    BY <1>3, <2>1, Zenon
  <2>3. ih[s] = h[Pick(s)] + ih[s \ {Pick(s)}]
    BY <1>1, <1>3, Zenon
  <2>4. ih[s] = 0
    BY <2>2, <2>3
  <2> QED
    BY <2>4, Zenon
<1>4. Volume \in G
  <2> HIDE DEF G
  <2> QED
    BY <1>2, <1>3, SetInduction, Zenon
<1> QED
  BY <1>4, SumDef, Zenon DEF ih

\* A sum of natural numbers is one.
LEMMA SumNat ==
  ASSUME NEW h \in [Volume -> Nat]
  PROVE  Sum(h) \in Nat
<1> DEFINE ih == Iter(h)
           G == {s \in SUBSET Volume : ih[s] \in Nat}
<1>1. /\ ih[{}] = 0
      /\ \A s \in SUBSET Volume : s # {} => ih[s] = h[Pick(s)] + ih[s \ {Pick(s)}]
  BY IterStep, Zenon
<1> HIDE DEF ih
<1>2. {} \in G
  BY <1>1
<1>3. ASSUME NEW s \in SUBSET Volume, s # {}, s \ {Pick(s)} \in G PROVE s \in G
  <2>1. Pick(s) \in Volume
    BY <1>3, Picked, Zenon
  <2>2. h[Pick(s)] \in Nat /\ ih[s \ {Pick(s)}] \in Nat
    BY <1>3, <2>1, Zenon
  <2>3. ih[s] = h[Pick(s)] + ih[s \ {Pick(s)}]
    BY <1>1, <1>3, Zenon
  <2>4. ih[s] \in Nat
    BY <2>2, <2>3
  <2> QED
    BY <2>4, Zenon
<1>4. Volume \in G
  <2> HIDE DEF G
  <2> QED
    BY <1>2, <1>3, SetInduction, Zenon
<1> QED
  BY <1>4, SumDef, Zenon DEF ih

-----------------------------------------------------------------------------
(* Numbers *)

\* The greatest and the least of two numbers.
LEMMA OfTwo ==
  ASSUME NEW a \in Int, NEW b \in Int
  PROVE  /\ Max({a, b}) = (IF a >= b THEN a ELSE b)
         /\ Min({a, b}) = (IF a <= b THEN a ELSE b)
<1>1. Max({a, b}) \in {a, b} /\ \A y \in {a, b} : Max({a, b}) >= y
  BY DEF Max
<1>2. Min({a, b}) \in {a, b} /\ \A y \in {a, b} : Min({a, b}) <= y
  BY DEF Min
<1> QED
  BY <1>1, <1>2

-----------------------------------------------------------------------------
(* The volumes and the space *)

VolumeTypes ==
  /\ reserve \in Reserve /\ other \in Nat
  /\ st \in [Volume -> {"none", "task", "ready", "stuck"}] /\ thin \in [Volume -> BOOLEAN]
  /\ size \in [Volume -> 0..MaxSize] /\ image \in [Volume -> 0..MaxSize]
  /\ physical \in [Volume -> 0..MaxSize] /\ reach \in [Volume -> 0..MaxSize]

CallTypes ==
  /\ op \in [Volume -> {"none", "creating", "create", "expanding", "expand"}]
  /\ to \in [Volume -> 0..MaxSize] /\ need \in [Volume -> Int] /\ avail \in [Volume -> Int]
  /\ left \in [Volume -> SUBSET Volume] /\ blocks \in [Volume -> Int] /\ alone \in [Volume -> BOOLEAN]

Types == VolumeTypes /\ CallTypes

\* No block and no end of an image is beyond what was tried; only a volume that is
\* ready is expanded.
VolumeOK(v) ==
  /\ physical[v] <= reach[v] /\ image[v] <= reach[v]
  /\ st[v] = "none" => physical[v] = 0
  /\ st[v] = "task" => size[v] = Size[v] /\ Size[v] <= reach[v]
  /\ st[v] = "ready" => size[v] <= image[v]
  /\ op[v] \in {"expanding", "expand"} => st[v] = "ready" /\ 0 < to[v]
  /\ op[v] = "expand" => to[v] <= reach[v]

VolumesInv == \A v \in Volume : VolumeOK(v)

SpaceInv == Types /\ VolumesInv /\ statvfs >= 0

\* The space in terms of the sum of the blocks.
LEMMA Space ==
  ASSUME VolumeTypes
  PROVE  /\ Sum(physical) \in Nat /\ statvfs = Total - other - Sum(physical)
         /\ statvfs \in Int /\ statvfs <= Total
<1>1. physical \in [Volume -> Nat]
  BY ProvisioningAssumption DEF VolumeTypes
<1>2. Sum(physical) \in Nat
  BY <1>1, SumNat, Zenon
<1> QED
  BY <1>2, ProvisioningAssumption DEF VolumeTypes, statvfs

\* When the blocks of one volume change the free ones change by as much.
LEMMA SpaceChange ==
  ASSUME VolumeTypes, NEW v \in Volume, NEW n \in Nat, physical' = [physical EXCEPT ![v] = n],
         other' = other
  PROVE  statvfs' = statvfs + physical[v] - n /\ Sum(physical)' = Sum(physical) + n - physical[v]
<1>1. physical \in [Volume -> Int] /\ physical[v] \in Nat
  BY ProvisioningAssumption DEF VolumeTypes
<1>2. physical' \in [Volume -> Int] /\ physical'[v] = n /\ \A w \in Volume \ {v} : physical'[w] = physical[w]
  BY <1>1
<1>3. Sum(physical) \in Int /\ Sum(physical') = Sum(physical) + n - physical[v]
  BY <1>1, <1>2, SumChange, Zenon
<1>4. statvfs = Total - other - Sum(physical)
  BY Space, Zenon
<1>5. Sum(physical)' = Sum(physical')
  BY Zenon
<1>6. statvfs' = Total - other' - Sum(physical)'
  BY Zenon DEF statvfs
<1> QED
  BY <1>1, <1>3, <1>4, <1>5, <1>6, ProvisioningAssumption DEF VolumeTypes

\* The files stay, and so does the space.
LEMMA SpaceSame ==
  UNCHANGED <<other, physical>> => statvfs' = statvfs /\ Sum(physical)' = Sum(physical)
  BY Zenon DEF statvfs

\* What is known of a volume.
LEMMA Numbers ==
  ASSUME SpaceInv, NEW v \in Volume
  PROVE  /\ Size[v] \in 1..MaxSize /\ MaxSize \in Nat /\ statvfs \in Nat
         /\ size[v] \in 0..MaxSize /\ image[v] \in 0..MaxSize /\ physical[v] \in 0..MaxSize
         /\ reach[v] \in 0..MaxSize /\ to[v] \in 0..MaxSize /\ VolumeOK(v)
<1>1. statvfs \in Nat
  BY Space DEF SpaceInv, Types
<1> QED
  BY <1>1, ProvisioningAssumption, Zenon DEF SpaceInv, Types, VolumeTypes, CallTypes, VolumesInv

\* What fallocate makes of a volume ...
LEMMA Fallocated ==
  ASSUME SpaceInv, NEW v \in Volume, NEW target \in 1..MaxSize, target <= reach[v],
         fallocate(v, target)
  PROVE  \E n \in 0..MaxSize, m \in 0..MaxSize :
           /\ physical' = [physical EXCEPT ![v] = n] /\ image' = [image EXCEPT ![v] = m]
           /\ n <= reach[v] /\ n - physical[v] <= statvfs
           /\ target <= m /\ m <= reach[v]
<1>1. PICK n \in Filled(v, target) :
        /\ statvfs >= n - physical[v]
        /\ physical' = [physical EXCEPT ![v] = n] /\ image' = [image EXCEPT ![v] = Max({image[v], target})]
  BY Zenon DEF fallocate, Image, Set
<1>2. /\ image[v] \in 0..MaxSize /\ reach[v] \in 0..MaxSize /\ image[v] <= reach[v] /\ MaxSize \in Nat
      /\ physical[v] \in 0..MaxSize /\ statvfs \in Nat
  BY Numbers, Zenon DEF VolumeOK
<1>3. n \in 0..MaxSize /\ n <= reach[v]
  BY <1>1, <1>2 DEF Filled
<1> DEFINE m == Max({image[v], target})
<1>4. m = IF image[v] >= target THEN image[v] ELSE target
  BY <1>2, OfTwo
<1>5. m \in 0..MaxSize /\ target <= m /\ m <= reach[v]
  BY <1>2, <1>4
<1>6. n - physical[v] <= statvfs
  BY <1>1, <1>2, <1>3
<1> QED
  BY <1>1, <1>3, <1>5, <1>6, Zenon

\* ... and what it leaves when it fails: no more blocks than there were free ones.
LEMMA NotFallocated ==
  ASSUME SpaceInv, NEW v \in Volume, NEW target \in 1..MaxSize, target <= reach[v],
         fallocateFails(v, target)
  PROVE  \E n \in 0..MaxSize, m \in 0..MaxSize :
           /\ physical' = [physical EXCEPT ![v] = n] /\ image' = [image EXCEPT ![v] = m]
           /\ n <= reach[v] /\ n - physical[v] <= statvfs
           /\ image[v] <= m /\ m <= reach[v]
<1>1. PICK k \in Filled(v, target) : statvfs < k - physical[v]
  BY Zenon DEF fallocateFails
<1>0. PICK n \in physical[v] .. physical[v] + statvfs : \E length \in 0..n :
        physical' = [physical EXCEPT ![v] = n] /\ image' = [image EXCEPT ![v] = Max({image[v], length})]
  BY Zenon DEF fallocateFails, Image, Set
<1>2. PICK length \in 0..n :
        physical' = [physical EXCEPT ![v] = n] /\ image' = [image EXCEPT ![v] = Max({image[v], length})]
  BY <1>0, Zenon
<1>3. /\ image[v] \in 0..MaxSize /\ reach[v] \in 0..MaxSize /\ image[v] <= reach[v] /\ MaxSize \in Nat
      /\ physical[v] \in 0..MaxSize /\ statvfs \in Nat
  BY Numbers, Zenon DEF VolumeOK
<1>4. k \in Nat /\ k <= reach[v]
  BY <1>1, <1>3 DEF Filled
<1>6. n \in 0..MaxSize /\ n <= reach[v] /\ length \in Nat /\ length <= n
  BY <1>1, <1>2, <1>3, <1>4
<1> DEFINE m == Max({image[v], length})
<1>7. m = IF image[v] >= length THEN image[v] ELSE length
  BY <1>3, <1>6, OfTwo
<1>8. m \in 0..MaxSize /\ image[v] <= m /\ m <= reach[v]
  BY <1>3, <1>6, <1>7
<1>9. n - physical[v] <= statvfs
  BY <1>0, <1>3
<1> QED
  BY <1>2, <1>6, <1>8, <1>9, Zenon

\* At the start nothing is used.
LEMMA SpaceInit == Init => SpaceInv
<1> SUFFICES ASSUME Init PROVE SpaceInv
  BY Zenon
<1>1. VolumeTypes
  BY ProvisioningAssumption DEF Init, VolumeTypes
<1>5. CallTypes
  BY ProvisioningAssumption DEF Init, CallTypes, Unread
<1>2. VolumesInv
  BY ProvisioningAssumption DEF Init, VolumesInv, VolumeOK
<1>3. Sum(physical) = 0
  BY SumZero, Zenon DEF Init
<1>4. statvfs >= 0
  BY <1>1, <1>3, Space, ProvisioningAssumption DEF Init
<1> QED
  BY <1>1, <1>2, <1>4, <1>5, Zenon DEF SpaceInv, Types

\* A step of one volume.
LEMMA OneVolume ==
  ASSUME SpaceInv, NEW v \in Volume, VolumeTypes', CallTypes', VolumeOK(v)', statvfs' >= 0,
         \A w \in Volume \ {v} :
           /\ st'[w] = st[w] /\ size'[w] = size[w] /\ image'[w] = image[w] /\ physical'[w] = physical[w]
           /\ reach'[w] = reach[w] /\ op'[w] = op[w] /\ to'[w] = to[w]
  PROVE  SpaceInv'
<1>1. ASSUME NEW w \in Volume \ {v} PROVE VolumeOK(w)'
  BY Zenon DEF VolumeOK, SpaceInv, VolumesInv
<1> QED
  BY <1>1, Zenon DEF SpaceInv, Types, VolumesInv

\* A step of a call that changes no volume.
LEMMA CallSpace ==
  ASSUME SpaceInv, NEW v \in Volume, CallTypes', UNCHANGED <<reserve, other, volume>>,
         \A w \in Volume \ {v} : op'[w] = op[w] /\ to'[w] = to[w],
         op'[v] \in {"expanding", "expand"} => st[v] = "ready" /\ 0 < to'[v],
         op'[v] = "expand" => to'[v] <= reach[v]
  PROVE  SpaceInv'
<1>1. UNCHANGED <<reserve, other, st, thin, size, image, physical, reach>>
  BY Zenon DEF volume, files
<1>2. VolumeTypes' /\ statvfs' = statvfs
  BY <1>1, SpaceSame, Zenon DEF SpaceInv, Types, VolumeTypes
<1>3. VolumeOK(v)'
  BY <1>1, Zenon DEF VolumeOK, SpaceInv, VolumesInv
<1>4. statvfs' >= 0
  BY <1>2, Zenon DEF SpaceInv
<1> QED
  BY <1>1, <1>2, <1>3, <1>4, OneVolume, Zenon

\* What the start of a call records.
LEMMA Begun ==
  ASSUME Types, NEW v \in Volume, NEW name \in {"creating", "expanding"}, NEW target \in 0..MaxSize,
         NEW space \in Int, Begin(v, name, target, space)
  PROVE  /\ CallTypes' /\ op'[v] = name /\ to'[v] = target
         /\ \A w \in Volume \ {v} : op'[w] = op[w] /\ to'[w] = to[w]
<1>1. op' = [op EXCEPT ![v] = name] /\ to' = [to EXCEPT ![v] = target] /\ need' = [need EXCEPT ![v] = space]
  BY Zenon DEF Begin, Set
<1>2. left' = [left EXCEPT ![v] = Volume] /\ UNCHANGED <<avail, blocks>>
  BY Zenon DEF Begin, Set
<1>3. alone' \in [Volume -> BOOLEAN]
  BY Zenon DEF Begin, Types, CallTypes
<1>4. CallTypes
  BY Zenon DEF Types
<1> QED
  BY <1>1, <1>2, <1>3, <1>4, Zenon DEF CallTypes

\* CreateVolume and ExpandRawFile up to the check, and get_capacity.
LEMMA BeginSpace ==
  ASSUME SpaceInv, NEW v \in Volume, CreateVolume(v) \/ \E target \in 1..MaxSize : ExpandRawFile(v, target)
  PROVE  SpaceInv'
<1>1. Types /\ Size[v] \in 1..MaxSize /\ MaxSize \in Nat /\ physical[v] \in 0..MaxSize /\ size[v] \in 0..MaxSize
  BY Numbers, Zenon DEF SpaceInv
<1>2. CASE CreateVolume(v)
  <2>1. Required(v) \in Int /\ Size[v] \in 0..MaxSize
    BY <1>1 DEF Required
  <2>2. Begin(v, "creating", Size[v], Required(v)) /\ UNCHANGED <<reserve, other, volume>>
    BY <1>2, Zenon DEF CreateVolume, Begin
  <2>3. /\ CallTypes' /\ op'[v] = "creating"
        /\ \A w \in Volume \ {v} : op'[w] = op[w] /\ to'[w] = to[w]
    BY <1>1, <2>1, <2>2, Begun, Zenon
  <2> QED
    BY <2>2, <2>3, CallSpace, Zenon
<1>3. CASE \E target \in 1..MaxSize : ExpandRawFile(v, target)
  <2>0. PICK target \in 1..MaxSize : ExpandRawFile(v, target)
    BY <1>3, Zenon
  <2>1. ExpandSpace(v, target) \in Int /\ target \in 0..MaxSize /\ 0 < target
    BY <1>1 DEF ExpandSpace
  <2>2. /\ Begin(v, "expanding", target, ExpandSpace(v, target)) /\ UNCHANGED <<reserve, other, volume>>
        /\ st[v] = "ready"
    BY <2>0, Zenon DEF ExpandRawFile, Begin
  <2>3. /\ CallTypes' /\ op'[v] = "expanding" /\ to'[v] = target
        /\ \A w \in Volume \ {v} : op'[w] = op[w] /\ to'[w] = to[w]
    BY <1>1, <2>1, <2>2, Begun, Zenon
  <2> QED
    BY <2>1, <2>2, <2>3, CallSpace, Zenon
<1> QED
  BY <1>2, <1>3, Zenon

\* get_capacity only reads, and the end of the wait changes nothing.
LEMMA ReadSpace ==
  ASSUME SpaceInv, NEW v \in Volume,
         ReadFree(v) \/ (\E w \in Volume : ReadVolume(v, w)) \/ CreateVolumeEnd(v)
  PROVE  SpaceInv'
<1>1. CallTypes /\ statvfs \in Int /\ MaxSize \in Nat
  BY Numbers, Space, Zenon DEF SpaceInv, Types
<1>2. CASE ReadFree(v)
  <2>1. /\ avail' = [avail EXCEPT ![v] = statvfs]
        /\ UNCHANGED <<reserve, other, volume, op, to, need, left, blocks, alone>>
    BY <1>2, Zenon DEF ReadFree, Set
  <2>2. CallTypes'
    BY <1>1, <2>1, Zenon DEF CallTypes
  <2> QED
    BY <2>1, <2>2, CallSpace, Zenon DEF SpaceInv, VolumesInv, VolumeOK
<1>3. CASE \E w \in Volume : ReadVolume(v, w)
  <2>0. PICK w \in Volume : ReadVolume(v, w)
    BY <1>3, Zenon
  <2>1. /\ left' = [left EXCEPT ![v] = left[v] \ {w}] /\ blocks' = [blocks EXCEPT ![v] = blocks[v] + physical[w]]
        /\ UNCHANGED <<reserve, other, volume, op, to, need, avail, alone>>
    BY <2>0, Zenon DEF ReadVolume, Set
  <2>2. blocks[v] \in Int /\ physical[w] \in 0..MaxSize
    BY <1>1, Numbers, Zenon DEF CallTypes
  <2>3. blocks[v] + physical[w] \in Int
    BY <1>1, <2>2
  <2>4. CallTypes'
    BY <1>1, <2>1, <2>3, Zenon DEF CallTypes
  <2> QED
    BY <2>1, <2>4, CallSpace, Zenon DEF SpaceInv, VolumesInv, VolumeOK
<1>4. CASE CreateVolumeEnd(v)
  <2>1. /\ op' = [op EXCEPT ![v] = "none"] /\ to' = [to EXCEPT ![v] = 0]
        /\ UNCHANGED <<reserve, other, volume, need, avail, left, blocks, alone>>
    BY <1>4, Zenon DEF CreateVolumeEnd, End, Set, reading
  <2>2. 0 \in 0..MaxSize
    BY <1>1
  <2>3. CallTypes' /\ op'[v] = "none" /\ \A w \in Volume \ {v} : op'[w] = op[w] /\ to'[w] = to[w]
    BY <1>1, <2>1, <2>2, Zenon DEF CallTypes
  <2> QED
    BY <2>1, <2>3, CallSpace, Zenon
<1> QED
  BY <1>2, <1>3, <1>4, Zenon

\* What the end of get_capacity records.
LEMMA Checks ==
  ASSUME Types, NEW v \in Volume, NEW name, NEW next \in {"create", "expand"}, Check(v, name, next)
  PROVE  /\ CallTypes' /\ op'[v] \in {next, "none"} /\ to' = to
         /\ \A w \in Volume \ {v} : op'[w] = op[w]
         /\ UNCHANGED <<reserve, other>>
<1> DEFINE o == IF get_capacity(v) >= 100 * need[v] THEN next ELSE "none"
<1>1. /\ op' = [op EXCEPT ![v] = o] /\ need' = [need EXCEPT ![v] = 0] /\ avail' = [avail EXCEPT ![v] = Unread]
      /\ blocks' = [blocks EXCEPT ![v] = 0] /\ UNCHANGED <<reserve, other, to, left, alone>>
  BY Zenon DEF Check, Set
<1>2. o \in {next, "none"}
  BY Zenon
<1>3. CallTypes /\ 0 \in Int /\ Unread \in Int
  BY DEF Types, Unread
<1> HIDE DEF o
<1> QED
  BY <1>1, <1>2, <1>3, Zenon DEF CallTypes

\* The check of CreateVolume, and the start of the task.
LEMMA CreateTaskSpace ==
  ASSUME SpaceInv, NEW v \in Volume, CreateVolumeTask(v)
  PROVE  SpaceInv'
<1>1. Check(v, "creating", "create") /\ Types
  BY Zenon DEF CreateVolumeTask, SpaceInv
<1>2. /\ CallTypes' /\ op'[v] \in {"create", "none"} /\ to' = to
      /\ \A w \in Volume \ {v} : op'[w] = op[w]
      /\ UNCHANGED <<reserve, other>>
  BY <1>1, Checks, Zenon
<1>3. CASE UNCHANGED volume
  BY <1>2, <1>3, CallSpace, Zenon
<1>4. CASE st[v] = "none" /\ ~UNCHANGED volume
  <2>1. PICK isThin \in BOOLEAN :
          /\ st' = [st EXCEPT ![v] = "task"] /\ size' = [size EXCEPT ![v] = Size[v]]
          /\ thin' = [thin EXCEPT ![v] = isThin] /\ image' = [image EXCEPT ![v] = 0]
          /\ reach' = [reach EXCEPT ![v] = Size[v]] /\ UNCHANGED physical
    BY <1>4, Zenon DEF CreateVolumeTask, Set
  <2>2. Size[v] \in 1..MaxSize /\ MaxSize \in Nat /\ physical[v] = 0
    BY <1>4, Numbers, Zenon DEF VolumeOK
  <2>3. Size[v] \in 0..MaxSize /\ 0 \in 0..MaxSize /\ 0 <= Size[v] /\ Size[v] <= Size[v]
    BY <2>2
  <2>4. VolumeTypes'
    BY <1>1, <1>2, <2>1, <2>3, Zenon DEF Types, VolumeTypes
  <2>5. statvfs' >= 0
    BY <1>2, <2>1, SpaceSame, Zenon DEF SpaceInv
  <2>6. st'[v] = "task" /\ size'[v] = Size[v] /\ image'[v] = 0 /\ reach'[v] = Size[v] /\ physical'[v] = 0
    BY <1>1, <2>1, <2>2, Zenon DEF Types, VolumeTypes
  <2>7. VolumeOK(v)'
    BY <1>2, <2>3, <2>6, Zenon DEF VolumeOK
  <2> QED
    BY <1>1, <1>2, <2>1, <2>4, <2>5, <2>7, OneVolume, Zenon DEF Types, VolumeTypes
<1> QED
  BY <1>3, <1>4, Zenon DEF CreateVolumeTask

\* The check of ExpandRawFile.
LEMMA ExpandCheckSpace ==
  ASSUME SpaceInv, NEW v \in Volume, ExpandRawFileCheck(v)
  PROVE  SpaceInv'
<1>1. Check(v, "expanding", "expand") /\ Types /\ op[v] = "expanding"
  BY Zenon DEF ExpandRawFileCheck, Check, SpaceInv
<1>2. /\ CallTypes' /\ op'[v] \in {"expand", "none"} /\ to' = to
      /\ \A w \in Volume \ {v} : op'[w] = op[w]
      /\ UNCHANGED <<reserve, other>>
  BY <1>1, Checks, Zenon
<1>3. UNCHANGED <<st, thin, size, image, physical>>
  BY Zenon DEF ExpandRawFileCheck
<1>4. /\ reach[v] \in 0..MaxSize /\ to[v] \in 0..MaxSize /\ MaxSize \in Nat /\ VolumeOK(v)
      /\ image[v] \in 0..MaxSize /\ physical[v] \in 0..MaxSize
  BY Numbers, Zenon
<1>5. Max({reach[v], to[v]}) = IF reach[v] >= to[v] THEN reach[v] ELSE to[v]
  BY <1>4, OfTwo
<1>6. Max({reach[v], to[v]}) \in 0..MaxSize /\ to[v] <= Max({reach[v], to[v]}) /\ reach[v] <= Max({reach[v], to[v]})
  BY <1>4, <1>5
<1>7. /\ reach' \in [Volume -> 0..MaxSize] /\ \A w \in Volume \ {v} : reach'[w] = reach[w]
      /\ op'[v] = "expand" => reach'[v] = Max({reach[v], to[v]})
      /\ op'[v] # "expand" => reach'[v] = reach[v]
  BY <1>1, <1>6, Zenon DEF ExpandRawFileCheck, Set, Types, VolumeTypes
<1>8. reach[v] <= reach'[v] /\ reach'[v] \in 0..MaxSize
  BY <1>4, <1>6, <1>7
<1>9. physical[v] <= reach'[v] /\ image[v] <= reach'[v]
  BY <1>4, <1>8 DEF VolumeOK
<1>10. st[v] = "ready" /\ 0 < to[v] /\ size[v] <= image[v]
  BY <1>1, <1>4, Zenon DEF VolumeOK
<1>11. VolumeOK(v)'
  BY <1>2, <1>3, <1>6, <1>7, <1>9, <1>10, Zenon DEF VolumeOK
<1>12. VolumeTypes' /\ statvfs' >= 0
  BY <1>1, <1>2, <1>3, <1>7, SpaceSame, Zenon DEF Types, VolumeTypes, SpaceInv
<1> QED
  BY <1>2, <1>3, <1>7, <1>11, <1>12, OneVolume, Zenon

\* A step that gives the image of one volume n blocks and the length m.
LEMMA ImageSpace ==
  ASSUME SpaceInv, NEW v \in Volume, NEW n \in 0..MaxSize, NEW m \in 0..MaxSize, VolumeOK(v)',
         Image(v, n, m), n - physical[v] <= statvfs, VolumeTypes', CallTypes',
         \A w \in Volume \ {v} : /\ st'[w] = st[w] /\ size'[w] = size[w] /\ reach'[w] = reach[w]
                                 /\ op'[w] = op[w] /\ to'[w] = to[w],
         UNCHANGED other
  PROVE  SpaceInv'
<1>1. physical' = [physical EXCEPT ![v] = n] /\ image' = [image EXCEPT ![v] = m]
  BY Zenon DEF Image, Set
<1>2. physical[v] \in 0..MaxSize /\ MaxSize \in Nat /\ statvfs \in Nat /\ VolumeTypes
  BY Numbers, Zenon DEF SpaceInv, Types
<1>3. n \in Nat
  BY <1>2
<1>4. statvfs' = statvfs + physical[v] - n
  BY <1>1, <1>2, <1>3, SpaceChange, Zenon
<1>5. statvfs' >= 0
  BY <1>2, <1>3, <1>4
<1>6. \A w \in Volume \ {v} : image'[w] = image[w] /\ physical'[w] = physical[w]
  BY <1>1, <1>2, Zenon DEF VolumeTypes
<1> QED
  BY <1>5, <1>6, OneVolume, Zenon

\* A copy gets no longer than its source or than what is asked for.
LEMMA CopyNumbers ==
  ASSUME SpaceInv, NEW v \in Copies
  PROVE  /\ Target(v) \in 1..MaxSize /\ Longest(v) \in 1..MaxSize
         /\ Size[v] <= Target(v) /\ Target(v) <= Longest(v)
<1>1. v \in Volume /\ Source[v] \in Volume
  BY ProvisioningAssumption, Zenon
<1>2. /\ Size[v] \in 1..MaxSize /\ MaxSize \in Nat
      /\ size[Source[v]] \in 0..MaxSize /\ image[Source[v]] \in 0..MaxSize
  BY <1>1, Numbers, Zenon
<1>3. Target(v) = IF Size[v] >= size[Source[v]] THEN Size[v] ELSE size[Source[v]]
  BY <1>2, OfTwo DEF Target
<1>4. Target(v) \in 1..MaxSize /\ Size[v] <= Target(v)
  BY <1>2, <1>3
<1>5. Longest(v) = IF Target(v) >= image[Source[v]] THEN Target(v) ELSE image[Source[v]]
  BY <1>2, <1>4, OfTwo DEF Longest
<1> QED
  BY <1>2, <1>4, <1>5

\* What create_volume makes of an image.
LEMMA Created ==
  ASSUME SpaceInv, NEW v \in Volume, create_volume(v)
  PROVE  \E n \in 0..MaxSize, m \in 0..MaxSize, r \in 0..MaxSize, s \in {"task", "ready", "stuck"} :
           /\ Image(v, n, m) /\ reach' = [reach EXCEPT ![v] = r] /\ st' = [st EXCEPT ![v] = s]
           /\ n - physical[v] <= statvfs /\ n <= r /\ m <= r /\ Size[v] <= r
           /\ s = "ready" => Size[v] <= m
<1>1. /\ Size[v] \in 1..MaxSize /\ MaxSize \in Nat /\ statvfs \in Nat /\ st[v] = "task"
      /\ image[v] \in 0..MaxSize /\ physical[v] \in 0..MaxSize /\ reach[v] \in 0..MaxSize
      /\ Size[v] <= reach[v] /\ physical[v] <= reach[v] /\ image[v] <= reach[v]
  BY Numbers, Zenon DEF create_volume, VolumeOK
<1>2. reach = [reach EXCEPT ![v] = reach[v]] /\ st = [st EXCEPT ![v] = "task"]
      /\ Image(v, physical[v], image[v]) = UNCHANGED <<physical, image>>
  BY <1>1, Zenon DEF SpaceInv, Types, VolumeTypes, Image, Set
<1>3. CASE image[v] < Size[v] /\ v \notin Copies /\ Allocate(v)
  <2>1. CASE thin[v] /\ Image(v, physical[v], Size[v]) /\ st' = Set(st, v, "ready")
    <3>1. physical[v] - physical[v] <= statvfs /\ Size[v] \in 0..MaxSize /\ Size[v] <= Size[v]
      BY <1>1
    <3> QED
      BY <1>1, <1>2, <1>3, <2>1, <3>1, Zenon DEF Allocate, Set
  <2>2. CASE ~thin[v] /\ fallocate(v, Size[v]) /\ st' = Set(st, v, "ready")
    <3>1. PICK n \in 0..MaxSize, m \in 0..MaxSize :
           /\ physical' = [physical EXCEPT ![v] = n] /\ image' = [image EXCEPT ![v] = m]
           /\ n <= reach[v] /\ n - physical[v] <= statvfs
           /\ Size[v] <= m /\ m <= reach[v]
      BY <1>1, <2>2, Fallocated, Zenon
    <3> QED
      BY <1>1, <1>2, <1>3, <2>2, <3>1, Zenon DEF Allocate, Set, Image
  <2>3. CASE ~thin[v] /\ fallocateFails(v, Size[v]) /\ UNCHANGED st
    <3>1. PICK n \in 0..MaxSize, m \in 0..MaxSize :
           /\ physical' = [physical EXCEPT ![v] = n] /\ image' = [image EXCEPT ![v] = m]
           /\ n <= reach[v] /\ n - physical[v] <= statvfs
           /\ image[v] <= m /\ m <= reach[v]
      BY <1>1, <2>3, NotFallocated, Zenon
    <3> QED
      BY <1>1, <1>2, <1>3, <2>3, <3>1, Zenon DEF Allocate, Set, Image
  <2> QED
    BY <1>3, <2>1, <2>2, <2>3, Zenon DEF Allocate
<1>4. CASE image[v] < Size[v] /\ v \in Copies /\ Restore(v)
  <2> DEFINE sparse == thin[Source[v]]
             r == Max({reach[v], Longest(v)})
  <2>1. /\ Target(v) \in 1..MaxSize /\ Longest(v) \in 1..MaxSize
        /\ Size[v] <= Target(v) /\ Target(v) <= Longest(v)
    BY <1>4, CopyNumbers, Zenon
  <2>2. r = IF reach[v] >= Longest(v) THEN reach[v] ELSE Longest(v)
    BY <1>1, <2>1, OfTwo
  <2>3. r \in 0..MaxSize /\ Longest(v) <= r /\ Size[v] <= r
    BY <1>1, <2>1, <2>2
  <2>4. reach' = [reach EXCEPT ![v] = r]
    BY <1>4, Zenon DEF Restore, Set
  <2> HIDE DEF r
  <2>5. CASE /\ \E length \in Target(v) .. IF sparse THEN Target(v) ELSE Longest(v) :
                  \E n \in (IF sparse THEN 0 ELSE Target(v)) .. length :
                    statvfs >= n - physical[v] /\ Image(v, n, length)
             /\ st' = Set(st, v, "ready")
    <3>1. PICK length \in Target(v) .. IF sparse THEN Target(v) ELSE Longest(v) :
                 \E n \in (IF sparse THEN 0 ELSE Target(v)) .. length :
                    statvfs >= n - physical[v] /\ Image(v, n, length)
      BY <2>5, Zenon
    <3>2. PICK n \in (IF sparse THEN 0 ELSE Target(v)) .. length :
                    statvfs >= n - physical[v] /\ Image(v, n, length)
      BY <3>1, Zenon
    <3>3. length \in 0..MaxSize /\ Size[v] <= length /\ length <= r
      BY <1>1, <2>1, <2>3, <3>1
    <3>4. n \in 0..MaxSize /\ n <= r
      BY <1>1, <2>1, <2>3, <3>2, <3>3
    <3>5. n - physical[v] <= statvfs
      BY <1>1, <3>2, <3>4
    <3> QED
      BY <2>3, <2>4, <2>5, <3>2, <3>3, <3>4, <3>5, Zenon DEF Set
  <2>6. CASE /\ statvfs < Longest(v) - physical[v]
             /\ \E n \in 0 .. physical[v] + statvfs : \E length \in 0..Longest(v) : Image(v, n, length)
             /\ UNCHANGED st
    <3>1. PICK n \in 0 .. physical[v] + statvfs, length \in 0..Longest(v) : Image(v, n, length)
      BY <2>6, Zenon
    <3>2. n \in 0..MaxSize /\ n <= r /\ n - physical[v] <= statvfs
      BY <1>1, <2>1, <2>3, <2>6, <3>1
    <3>3. length \in 0..MaxSize /\ length <= r
      BY <1>1, <2>1, <2>3, <3>1
    <3> QED
      BY <1>2, <2>3, <2>4, <2>6, <3>1, <3>2, <3>3, Zenon
  <2> QED
    BY <1>4, <2>5, <2>6, Zenon DEF Restore
<1>5. CASE image[v] >= Size[v] /\ st' = Set(st, v, "stuck") /\ UNCHANGED files
  <2>1. physical[v] - physical[v] <= statvfs
    BY <1>1
  <2> QED
    BY <1>1, <1>2, <1>5, <2>1, Zenon DEF Set, files
<1> QED
  BY <1>3, <1>4, <1>5, Zenon DEF create_volume

\* So create_volume keeps the space.
LEMMA CreatedSpace ==
  ASSUME SpaceInv, NEW v \in Volume, create_volume(v)
  PROVE  SpaceInv'
<1>1. PICK n \in 0..MaxSize, m \in 0..MaxSize, r \in 0..MaxSize, s \in {"task", "ready", "stuck"} :
           /\ Image(v, n, m) /\ reach' = [reach EXCEPT ![v] = r] /\ st' = [st EXCEPT ![v] = s]
           /\ n - physical[v] <= statvfs /\ n <= r /\ m <= r /\ Size[v] <= r
           /\ s = "ready" => Size[v] <= m
  BY Created, Zenon
<1>2. VolumeTypes /\ CallTypes /\ VolumeOK(v) /\ st[v] = "task"
  BY Zenon DEF create_volume, SpaceInv, Types, VolumesInv
<1>3. UNCHANGED <<reserve, other, thin, size, op, to, need, avail, left, blocks, alone>>
  BY Zenon DEF create_volume, call, reading
<1>4. physical' = [physical EXCEPT ![v] = n] /\ image' = [image EXCEPT ![v] = m]
  BY <1>1, Zenon DEF Image, Set
<1>5. VolumeTypes' /\ CallTypes'
  BY <1>1, <1>2, <1>3, <1>4, Zenon DEF VolumeTypes, CallTypes
<1>6. /\ st'[v] = s /\ reach'[v] = r /\ physical'[v] = n /\ image'[v] = m
      /\ \A w \in Volume \ {v} : st'[w] = st[w] /\ reach'[w] = reach[w]
  BY <1>1, <1>2, <1>4, Zenon DEF VolumeTypes
<1>7. VolumeOK(v)'
  BY <1>1, <1>2, <1>3, <1>6, Zenon DEF VolumeOK
<1> QED
  BY <1>1, <1>3, <1>5, <1>6, <1>7, ImageSpace, Zenon

\* What the rest of ExpandRawFile makes of an image.
LEMMA Grown ==
  ASSUME SpaceInv, NEW v \in Volume, Grow(v)
  PROVE  \E n \in 0..MaxSize, m \in 0..MaxSize, z \in {size[v], to[v]} :
           /\ Image(v, n, m) /\ size' = [size EXCEPT ![v] = z]
           /\ n - physical[v] <= statvfs /\ n <= reach[v] /\ m <= reach[v] /\ z <= m
<1>1. /\ op[v] = "expand" /\ st[v] = "ready" /\ to[v] <= reach[v] /\ to[v] \in 0..MaxSize /\ 0 < to[v]
      /\ MaxSize \in Nat /\ statvfs \in Nat /\ size[v] \in 0..MaxSize
      /\ image[v] \in 0..MaxSize /\ physical[v] \in 0..MaxSize /\ reach[v] \in 0..MaxSize
      /\ size[v] <= image[v] /\ physical[v] <= reach[v] /\ image[v] <= reach[v]
  BY Numbers, Zenon DEF Grow, VolumeOK
<1>2. to[v] \in 1..MaxSize /\ size = [size EXCEPT ![v] = size[v]]
  BY <1>1 DEF SpaceInv, Types, VolumeTypes
<1>3. CASE thin[v] /\ truncate(v, to[v]) /\ size' = Set(size, v, to[v])
  <2>1. PICK n \in 0..physical[v] : Image(v, n, to[v])
    BY <1>3, Zenon DEF truncate
  <2>2. n \in 0..MaxSize /\ n - physical[v] <= statvfs /\ n <= reach[v] /\ to[v] <= to[v]
    BY <1>1
  <2> QED
    BY <1>1, <1>3, <2>1, <2>2, Zenon DEF Set
<1>4. CASE ~thin[v] /\ fallocate(v, to[v]) /\ size' = Set(size, v, to[v])
  <2>1. PICK n \in 0..MaxSize, m \in 0..MaxSize :
           /\ physical' = [physical EXCEPT ![v] = n] /\ image' = [image EXCEPT ![v] = m]
           /\ n <= reach[v] /\ n - physical[v] <= statvfs
           /\ to[v] <= m /\ m <= reach[v]
    BY <1>1, <1>2, <1>4, Fallocated, Zenon
  <2> QED
    BY <1>4, <2>1, Zenon DEF Set, Image
<1>5. CASE ~thin[v] /\ fallocateFails(v, to[v]) /\ UNCHANGED size
  <2>1. PICK n \in 0..MaxSize, m \in 0..MaxSize :
           /\ physical' = [physical EXCEPT ![v] = n] /\ image' = [image EXCEPT ![v] = m]
           /\ n <= reach[v] /\ n - physical[v] <= statvfs
           /\ image[v] <= m /\ m <= reach[v]
    BY <1>1, <1>2, <1>5, NotFallocated, Zenon
  <2>2. size[v] <= m
    BY <1>1, <2>1
  <2> QED
    BY <1>2, <1>5, <2>1, <2>2, Zenon DEF Set, Image
<1> QED
  BY <1>3, <1>4, <1>5, Zenon DEF Grow

\* So it keeps the space.
LEMMA GrowSpace ==
  ASSUME SpaceInv, NEW v \in Volume, Grow(v)
  PROVE  SpaceInv'
<1>1. PICK n \in 0..MaxSize, m \in 0..MaxSize, z \in {size[v], to[v]} :
           /\ Image(v, n, m) /\ size' = [size EXCEPT ![v] = z]
           /\ n - physical[v] <= statvfs /\ n <= reach[v] /\ m <= reach[v] /\ z <= m
  BY Grown, Zenon
<1>2. /\ VolumeTypes /\ CallTypes /\ VolumeOK(v) /\ op[v] = "expand" /\ MaxSize \in Nat
      /\ size[v] \in 0..MaxSize /\ to[v] \in 0..MaxSize
  BY Numbers, Zenon DEF Grow, SpaceInv, Types
<1>3. UNCHANGED <<reserve, other, st, thin, reach, need, avail, left, blocks, alone>>
  BY Zenon DEF Grow, reading
<1>4. /\ physical' = [physical EXCEPT ![v] = n] /\ image' = [image EXCEPT ![v] = m]
      /\ op' = [op EXCEPT ![v] = "none"] /\ to' = [to EXCEPT ![v] = 0] /\ 0 \in 0..MaxSize
  BY <1>1, <1>2 DEF Grow, End, Image, Set
<1>5. VolumeTypes' /\ CallTypes'
  BY <1>1, <1>2, <1>3, <1>4, Zenon DEF VolumeTypes, CallTypes
<1>6. /\ physical'[v] = n /\ image'[v] = m /\ size'[v] = z /\ op'[v] = "none"
      /\ \A w \in Volume \ {v} : size'[w] = size[w] /\ op'[w] = op[w] /\ to'[w] = to[w]
  BY <1>1, <1>2, <1>4, Zenon DEF VolumeTypes, CallTypes
<1>8. st[v] = "ready"
  BY <1>2, Zenon DEF VolumeOK
<1>7. VolumeOK(v)'
  BY <1>1, <1>3, <1>6, <1>8, Zenon DEF VolumeOK
<1> QED
  BY <1>1, <1>3, <1>5, <1>6, <1>7, ImageSpace, Zenon

\* The whole deletion, and discarded blocks.
LEMMA FreeSpace ==
  ASSUME SpaceInv, NEW v \in Volume, DeleteVolume(v) \/ Discard(v)
  PROVE  SpaceInv'
<1>1. /\ VolumeTypes /\ CallTypes /\ VolumeOK(v) /\ MaxSize \in Nat /\ physical[v] \in 0..MaxSize
      /\ reach[v] \in 0..MaxSize /\ statvfs \in Nat
  BY Numbers, Zenon DEF SpaceInv, Types
<1>2. /\ physical' = [physical EXCEPT ![v] = 0]
      /\ UNCHANGED <<reserve, other, thin, size, image, reach, op, to, need, avail, left, blocks>>
      /\ alone' \in [Volume -> BOOLEAN]
      /\ st' = [st EXCEPT ![v] = st'[v]] /\ st'[v] \in {"none", st[v]}
      /\ st'[v] = "none" => op[v] = "none" \/ st[v] = "none"
  BY <1>1, Zenon DEF DeleteVolume, Discard, Set, call, reading, VolumeTypes, CallTypes
<1>3. 0 \in 0..MaxSize /\ 0 \in Nat /\ 0 <= reach[v]
  BY <1>1
<1>4. VolumeTypes' /\ CallTypes'
  BY <1>1, <1>2, <1>3, Zenon DEF VolumeTypes, CallTypes
<1>5. statvfs' = statvfs + physical[v] - 0
  BY <1>1, <1>2, <1>3, SpaceChange, Zenon
<1>6. statvfs' >= 0
  BY <1>1, <1>5
<1>7. physical'[v] = 0 /\ \A w \in Volume \ {v} : physical'[w] = physical[w] /\ st'[w] = st[w]
  BY <1>1, <1>2, Zenon DEF VolumeTypes
<1>8. VolumeOK(v)'
  BY <1>1, <1>2, <1>3, <1>7, Zenon DEF VolumeOK
<1> QED
  BY <1>2, <1>4, <1>6, <1>7, <1>8, OneVolume, Zenon

\* A pod writes a block within the image.
LEMMA WriteSpace ==
  ASSUME SpaceInv, NEW v \in Volume, Write(v)
  PROVE  SpaceInv'
<1>1. /\ VolumeTypes /\ CallTypes /\ VolumeOK(v) /\ MaxSize \in Nat /\ physical[v] \in 0..MaxSize
      /\ reach[v] \in 0..MaxSize /\ image[v] \in 0..MaxSize /\ statvfs \in Nat
  BY Numbers, Zenon DEF SpaceInv, Types
<1>2. /\ physical' = [physical EXCEPT ![v] = physical[v] + 1] /\ alone' \in [Volume -> BOOLEAN]
      /\ UNCHANGED <<reserve, other, st, thin, size, image, reach, op, to, need, avail, left, blocks>>
      /\ st[v] = "ready" /\ physical[v] < image[v] /\ statvfs > 0
  BY Zenon DEF Write, Set, call, reading
<1>3. physical[v] + 1 \in 0..MaxSize /\ physical[v] + 1 \in Nat /\ physical[v] + 1 <= reach[v]
  BY <1>1, <1>2 DEF VolumeOK
<1>4. VolumeTypes' /\ CallTypes'
  BY <1>1, <1>2, <1>3, Zenon DEF VolumeTypes, CallTypes
<1>5. statvfs' = statvfs + physical[v] - (physical[v] + 1)
  BY <1>1, <1>2, <1>3, SpaceChange, Zenon
<1>6. statvfs' >= 0
  BY <1>1, <1>2, <1>5
<1>7. physical'[v] = physical[v] + 1 /\ \A w \in Volume \ {v} : physical'[w] = physical[w]
  BY <1>1, <1>2, Zenon DEF VolumeTypes
<1>8. VolumeOK(v)'
  BY <1>1, <1>2, <1>3, <1>7, Zenon DEF VolumeOK
<1> QED
  BY <1>2, <1>4, <1>6, <1>7, <1>8, OneVolume, Zenon

\* Others on the file system.
LEMMA OtherSpace ==
  ASSUME SpaceInv, OtherUse
  PROVE  SpaceInv' /\ Sum(physical)' = Sum(physical) /\ (other' <= other => statvfs <= statvfs')
<1>1. /\ UNCHANGED <<reserve, st, thin, size, image, physical, reach, op, to, need, avail, left, blocks>>
      /\ VolumeTypes /\ CallTypes
  BY Zenon DEF SpaceInv, Types, OtherUse, volume, files, call, reading
<1>2. other' \in Nat /\ (other' <= other \/ (other' = other + 1 /\ statvfs > 0))
  BY <1>1 DEF OtherUse, VolumeTypes
<1>3. alone' \in [Volume -> BOOLEAN]
  BY <1>1, Zenon DEF OtherUse, CallTypes
<1>4. VolumeTypes' /\ CallTypes'
  BY <1>1, <1>2, <1>3, Zenon DEF VolumeTypes, CallTypes
<1>5. VolumesInv'
  BY <1>1, Zenon DEF SpaceInv, VolumesInv, VolumeOK
<1>6. Sum(physical)' = Sum(physical)
  BY <1>1, Zenon
<1>7. statvfs' = Total - other' - Sum(physical)'
  BY Zenon DEF statvfs
<1>8. /\ statvfs = Total - other - Sum(physical) /\ Sum(physical) \in Nat /\ other \in Nat /\ Total \in Nat
      /\ statvfs \in Int /\ statvfs >= 0
  BY <1>1, Space, ProvisioningAssumption DEF SpaceInv, VolumeTypes
<1>9. statvfs' >= 0 /\ (other' <= other => statvfs <= statvfs')
  BY <1>2, <1>6, <1>7, <1>8
<1> QED
  BY <1>4, <1>5, <1>6, <1>9, Zenon DEF SpaceInv, Types

\* So every step keeps the volumes and the space.
LEMMA SpaceStep == SpaceInv /\ [Next]_vars => SpaceInv'
<1> SUFFICES ASSUME SpaceInv, [Next]_vars PROVE SpaceInv'
  BY Zenon
<1>1. CASE UNCHANGED vars
  <2>1. /\ UNCHANGED <<reserve, other, st, thin, size, image, physical, reach>>
        /\ UNCHANGED <<op, to, need, avail, left, blocks, alone>>
    BY <1>1, Zenon DEF vars, volume, files, call, reading
  <2>2. Types' /\ VolumesInv'
    BY <2>1, Zenon DEF SpaceInv, Types, VolumeTypes, CallTypes, VolumesInv, VolumeOK
  <2> QED
    BY <2>1, <2>2, SpaceSame, Zenon DEF SpaceInv
<1>2. ASSUME NEW v \in Volume,
             \/ CreateVolume(v) \/ ReadFree(v) \/ (\E w \in Volume : ReadVolume(v, w))
             \/ CreateVolumeTask(v) \/ CreateVolumeEnd(v) \/ create_volume(v)
             \/ (\E target \in 1..MaxSize : ExpandRawFile(v, target))
             \/ ExpandRawFileCheck(v) \/ Grow(v) \/ DeleteVolume(v) \/ Write(v) \/ Discard(v)
      PROVE  SpaceInv'
  BY <1>2, BeginSpace, ReadSpace, CreateTaskSpace, CreatedSpace, ExpandCheckSpace, GrowSpace, FreeSpace,
     WriteSpace, Zenon
<1> QED
  BY <1>1, <1>2, OtherSpace, Zenon DEF Next

\* No more blocks are used than there are, and the image of a volume that is ready is
\* at least as large as its metadata say (get_capacity, create_volume, ExpandRawFile).
THEOREM SpaceAccounted == Spec => []TypeOK
<1>1. SpaceInv => TypeOK
  <2> SUFFICES ASSUME SpaceInv PROVE TypeOK
    BY Zenon
  <2>1. statvfs \in 0..Total
    BY Space, ProvisioningAssumption DEF SpaceInv, Types
  <2> QED
    BY <2>1, Zenon DEF TypeOK, SpaceInv, Types, VolumeTypes, VolumesInv, VolumeOK
<1> QED
  BY <1>1, SpaceInit, SpaceStep, PTL DEF Spec

-----------------------------------------------------------------------------
(* What was allowed fits *)

Room(r, free, used) == Min({100 * Total - Reserved(r) - 100 * used, 100 * free})
Spare(r, free, used) == Max({0, Room(r, free, used)})

\* Only one is in flight when it has been alone since its check began.
AloneInv == \A v, w \in InFlight : alone[v] => w = v

IdleInv(v) == v \notin Checking => avail[v] = Unread /\ blocks[v] = 0

Unseen(p, l) == [w \in Volume |-> IF w \in l THEN p[w] ELSE 0]

\* What get_capacity has read by now is no more than there is.
ReadInv(v) ==
  alone[v] /\ (op[v] = "expanding" \/ (op[v] = "creating" /\ st[v] = "none")) =>
    /\ avail[v] <= statvfs /\ Sum(physical) <= blocks[v] + Sum(Unseen(physical, left[v]))
    /\ op[v] = "creating" => need[v] >= Size[v]
    /\ op[v] = "expanding" /\ ~thin[v] => need[v] = to[v] - physical[v]

\* What was found to fit fits.  For a task this counts without a lower bound of 0:
\* a copy starts over, and gives back its blocks.
FitInv(v) ==
  alone[v] =>
    /\ st[v] = "task" => 100 * (Size[v] - physical[v]) <= Room(reserve, statvfs, Sum(physical))
    /\ op[v] = "expand" /\ ~thin[v] => 100 * (to[v] - physical[v]) <= Spare(reserve, statvfs, Sum(physical))

FitsOne(v) == IdleInv(v) /\ ReadInv(v) /\ FitInv(v)

FitsInv == AloneInv /\ \A v \in Volume : FitsOne(v)

\* The numbers behind it.
LEMMA RoomIs ==
  ASSUME NEW r \in Reserve, NEW f \in Int, NEW u \in Int
  PROVE  /\ Reserved(r) \in Int
         /\ Room(r, f, u) = IF 100 * Total - Reserved(r) - 100 * u <= 100 * f
                            THEN 100 * Total - Reserved(r) - 100 * u ELSE 100 * f
         /\ Spare(r, f, u) = IF Room(r, f, u) <= 0 THEN 0 ELSE Room(r, f, u)
         /\ Room(r, f, u) \in Int /\ Spare(r, f, u) \in Int
<1>1. Total \in Nat /\ r.value \in Nat
  BY ProvisioningAssumption, Zenon
<1>2. Total * r.value \in Int /\ 100 * r.value \in Int
  BY <1>1
<1>3. plain(r) \in Int
  BY <1>2, Zenon DEF plain
<1>4. Reserved(r) \in Int
  BY <1>1, <1>3 DEF Reserved, subtract_from_total
<1>5. 100 * Total - Reserved(r) - 100 * u \in Int /\ 100 * f \in Int
  BY <1>1, <1>4
<1>6. Room(r, f, u) = IF 100 * Total - Reserved(r) - 100 * u <= 100 * f
                      THEN 100 * Total - Reserved(r) - 100 * u ELSE 100 * f
  BY <1>5, OfTwo, Zenon DEF Room
<1>7. Room(r, f, u) \in Int
  BY <1>5, <1>6, Zenon
<1>8. Spare(r, f, u) = IF 0 >= Room(r, f, u) THEN 0 ELSE Room(r, f, u)
  BY <1>7, OfTwo DEF Spare
<1> QED
  BY <1>4, <1>6, <1>7, <1>8

\* The more blocks are free, the more room.
LEMMA RoomGrows ==
  ASSUME NEW r \in Reserve, NEW f \in Int, NEW u \in Int, NEW g \in Int, NEW x \in Int, f <= g, x <= u
  PROVE  Room(r, f, u) <= Room(r, g, x) /\ Spare(r, f, u) <= Spare(r, g, x)
<1>0. Total \in Nat
  BY ProvisioningAssumption, Zenon
<1>1. Room(r, f, u) <= Room(r, g, x)
  BY <1>0, RoomIs
<1> QED
  BY <1>1, RoomIs

\* The room shrinks by what is taken.
LEMMA RoomTaken ==
  ASSUME NEW r \in Reserve, NEW f \in Int, NEW u \in Int, NEW d \in Int
  PROVE  Room(r, f - d, u + d) = Room(r, f, u) - 100 * d
<1>0. Total \in Nat /\ f - d \in Int /\ u + d \in Int
  BY ProvisioningAssumption
<1> QED
  BY <1>0, RoomIs

\* What the volumes that are not looked at have: nothing in the end, and all at first.
LEMMA UnseenIs ==
  ASSUME NEW p \in [Volume -> 0..MaxSize], NEW l
  PROVE  /\ Unseen(p, l) \in [Volume -> Int] /\ Sum(Unseen(p, l)) \in Int
         /\ l = {} => Sum(Unseen(p, l)) = 0
         /\ l = Volume => Unseen(p, l) = p
<1>1. MaxSize \in Nat
  BY ProvisioningAssumption, Zenon
<1>2. Unseen(p, l) \in [Volume -> Int]
  BY <1>1 DEF Unseen
<1>3. Sum(Unseen(p, l)) \in Int
  <2>1. CASE Volume = {}
    <3>1. Unseen(p, l) = [w \in Volume |-> 0]
      BY <2>1, Zenon DEF Unseen
    <3> QED
      BY <3>1, SumZero
  <2>2. CASE Volume # {}
    BY <1>2, <2>2, SumChange, Zenon
  <2> QED
    BY <2>1, <2>2, Zenon
<1>4. l = {} => Unseen(p, l) = [w \in Volume |-> 0]
  BY Zenon DEF Unseen
<1>5. l = Volume => Unseen(p, l) = p
  BY <1>1, Zenon DEF Unseen
<1> QED
  BY <1>2, <1>3, <1>4, <1>5, SumZero, Zenon

\* The space after a step.
LEMMA SpaceNext ==
  ASSUME VolumeTypes'
  PROVE  Sum(physical)' \in Nat /\ statvfs' \in Int
<1>1. physical' \in [Volume -> Nat] /\ other' \in Nat /\ Total \in Nat
  BY ProvisioningAssumption DEF VolumeTypes
<1>2. Sum(physical') \in Nat
  BY <1>1, SumNat, Zenon
<1>3. statvfs' = Total - other' - Sum(physical)'
  BY Zenon DEF statvfs
<1>4. Sum(physical)' = Sum(physical')
  BY Zenon
<1> QED
  BY <1>1, <1>2, <1>3, <1>4

View(w) == <<st[w], thin[w], op[w], to[w], need[w], avail[w], left[w], blocks[w]>>

\* Whoever is not the only one in flight is not alone.
LEMMA CrowdFits ==
  ASSUME FitsInv, NEW v \in InFlight, NEW w \in Volume \ {v}, View(w)' = View(w), alone'[w] => alone[w]
  PROVE  FitsOne(w)'
<1>1. /\ st'[w] = st[w] /\ thin'[w] = thin[w] /\ op'[w] = op[w] /\ avail'[w] = avail[w]
      /\ blocks'[w] = blocks[w]
  BY Zenon DEF View
<1>2. w \in InFlight => ~alone'[w]
  BY Zenon DEF FitsInv, AloneInv
<1>3. IdleInv(w)'
  BY <1>1, Zenon DEF FitsInv, FitsOne, IdleInv, Checking
<1>4. ReadInv(w)'
  BY <1>1, <1>2, Zenon DEF ReadInv, InFlight, Checking
<1>5. FitInv(w)'
  BY <1>1, <1>2, Zenon DEF FitInv, InFlight
<1> QED
  BY <1>3, <1>4, <1>5, Zenon DEF FitsOne

\* Whoever is not alone needs nothing.
LEMMA NotAloneFits ==
  ASSUME NEW w \in Volume, FitsOne(w), op'[w] = op[w], avail'[w] = avail[w], blocks'[w] = blocks[w], ~alone'[w]
  PROVE  FitsOne(w)'
  BY Zenon DEF FitsOne, IdleInv, ReadInv, FitInv, Checking

\* Others may become smaller.
LEMMA KeptFits ==
  ASSUME Types, Types', NEW w \in Volume, FitsOne(w), View(w)' = View(w), physical'[w] = physical[w],
         alone'[w] => alone[w], UNCHANGED reserve, statvfs <= statvfs', Sum(physical)' <= Sum(physical),
         Sum(physical)' - Sum(Unseen(physical, left[w]))' <= Sum(physical) - Sum(Unseen(physical, left[w]))
  PROVE  FitsOne(w)'
<1>1. /\ st'[w] = st[w] /\ thin'[w] = thin[w] /\ op'[w] = op[w] /\ to'[w] = to[w] /\ need'[w] = need[w]
      /\ avail'[w] = avail[w] /\ left'[w] = left[w] /\ blocks'[w] = blocks[w]
  BY Zenon DEF View
<1>2. /\ statvfs \in Int /\ statvfs' \in Int /\ Sum(physical) \in Int /\ Sum(physical)' \in Int
      /\ reserve \in Reserve /\ physical[w] \in Int /\ Size[w] \in Int /\ to[w] \in Int
  <2>1. VolumeTypes /\ VolumeTypes'
    BY Zenon DEF Types
  <2>2. statvfs \in Int /\ Sum(physical) \in Nat
    BY <2>1, Space, Zenon
  <2>3. statvfs' \in Int /\ Sum(physical)' \in Nat
    BY <2>1, SpaceNext, Zenon
  <2> QED
    BY <2>1, <2>2, <2>3, ProvisioningAssumption DEF Types, VolumeTypes, CallTypes
<1>3. IdleInv(w)'
  BY <1>1, Zenon DEF FitsOne, IdleInv, Checking
<1>4. ReadInv(w)'
  <2>1. Sum(Unseen(physical, left[w])) \in Int /\ avail[w] \in Int /\ blocks[w] \in Int
    BY UnseenIs, Zenon DEF Types, VolumeTypes, CallTypes
  <2>2. Sum(Unseen(physical', left'[w])) \in Int
    BY UnseenIs, Zenon DEF Types, VolumeTypes
  <2>3. avail[w] <= statvfs => avail'[w] <= statvfs'
    BY <1>1, <1>2, <2>1
  <2>4. Sum(physical) <= blocks[w] + Sum(Unseen(physical, left[w]))
          => Sum(physical)' <= blocks'[w] + Sum(Unseen(physical, left[w]))'
    BY <1>1, <1>2, <2>1, <2>2
  <2> QED
    BY <1>1, <2>3, <2>4, Zenon DEF FitsOne, ReadInv
<1>5. FitInv(w)'
  <2> DEFINE a == Room(reserve, statvfs, Sum(physical))
             b == Room(reserve, statvfs', Sum(physical)')
             c == Spare(reserve, statvfs, Sum(physical))
             d == Spare(reserve, statvfs', Sum(physical)')
             x == 100 * (Size[w] - physical[w])
             y == 100 * (to[w] - physical[w])
  <2>1. a <= b /\ c <= d
    BY <1>2, RoomGrows, Zenon
  <2>2. a \in Int /\ b \in Int /\ c \in Int /\ d \in Int
    BY <1>2, RoomIs, Zenon
  <2>3. x \in Int /\ y \in Int
    BY <1>2
  <2>4. (x <= a => x <= b) /\ (y <= c => y <= d)
    <3> HIDE DEF a, b, c, d, x, y
    <3> QED
      BY <2>1, <2>2, <2>3
  <2>5. Room(reserve, statvfs, Sum(physical))' = b /\ Spare(reserve, statvfs, Sum(physical))' = d
    BY Zenon
  <2> QED
    BY <1>1, <2>4, <2>5, Zenon DEF FitsOne, FitInv
<1> QED
  BY <1>3, <1>4, <1>5, Zenon DEF FitsOne

\* Nobody new is in flight.
LEMMA AloneKept ==
  ASSUME AloneInv, InFlight' \subseteq InFlight, \A v \in InFlight : alone'[v] => alone[v]
  PROVE  AloneInv'
  BY Zenon DEF AloneInv

\* A call begins: it is alone if nothing is in flight, and it has read nothing.
LEMMA BeginFits ==
  ASSUME SpaceInv, FitsInv, NEW v \in Volume, NEW name \in {"creating", "expanding"}, NEW target \in 0..MaxSize,
         NEW space \in Int, Begin(v, name, target, space), name = "expanding" => v \notin InFlight,
         name = "creating" => space >= Size[v],
         name = "expanding" /\ ~thin[v] => space = target - physical[v]
  PROVE  FitsInv'
<1>1. /\ op' = [op EXCEPT ![v] = name] /\ to' = [to EXCEPT ![v] = target] /\ need' = [need EXCEPT ![v] = space]
      /\ left' = [left EXCEPT ![v] = Volume] /\ UNCHANGED <<avail, blocks>> /\ op[v] = "none"
      /\ UNCHANGED <<reserve, other, st, thin, size, image, physical, reach>>
  BY Zenon DEF Begin, Set, volume, files
<1>2. VolumeTypes /\ CallTypes /\ FitsOne(v)
  BY Zenon DEF SpaceInv, Types, FitsInv
<1>3. /\ \A w \in Volume \ {v} : View(w)' = View(w)
      /\ op'[v] = name /\ to'[v] = target /\ need'[v] = space /\ left'[v] = Volume
  BY <1>1, <1>2, Zenon DEF CallTypes, View
<1>4. avail[v] = -1 /\ blocks[v] = 0
  BY <1>1, <1>2, Zenon DEF FitsOne, IdleInv, Checking, Unread
<1>5. InFlight' = InFlight \cup {v}
  BY <1>1, <1>2, Zenon DEF InFlight, Checking, CallTypes
<1>6. IdleInv(v)'
  BY <1>3, Zenon DEF IdleInv, Checking
<1>7. statvfs' = statvfs /\ Sum(physical)' = Sum(physical) /\ statvfs \in Nat /\ Sum(physical) \in Nat
  BY <1>1, <1>2, SpaceSame, Space, Numbers, Zenon
<1>8. ReadInv(v)'
  <2>1. Unseen(physical', left'[v]) = physical
    BY <1>1, <1>2, <1>3, UnseenIs, Zenon DEF VolumeTypes
  <2>2. avail'[v] <= statvfs'
    BY <1>1, <1>4, <1>7
  <2>3. Sum(physical)' <= blocks'[v] + Sum(Unseen(physical', left'[v]))
    BY <1>1, <1>4, <1>7, <2>1
  <2> QED
    BY <1>1, <1>3, <2>2, <2>3, Zenon DEF ReadInv
<1>9. CASE v \in InFlight
  <2>1. alone' = alone /\ InFlight' = InFlight
    BY <1>5, <1>9, Zenon DEF Begin
  <2>2. AloneInv'
    BY <2>1, Zenon DEF FitsInv, AloneInv
  <2>3. \A w \in Volume \ {v} : FitsOne(w)'
    BY <1>3, <1>9, <2>1, CrowdFits, Zenon
  <2>4. FitInv(v)'
    BY <1>1, <1>2, <1>3, <1>7, <2>1, Zenon DEF FitsOne, FitInv
  <2> QED
    BY <1>6, <1>8, <2>2, <2>3, <2>4, Zenon DEF FitsInv, FitsOne
<1>10. CASE v \notin InFlight
  <2>1. alone' = [w \in Volume |-> w = v /\ InFlight = {}]
    BY <1>10, Zenon DEF Begin
  <2>2. AloneInv'
    BY <1>5, <2>1, Zenon DEF AloneInv, InFlight, Checking
  <2>3. ASSUME NEW w \in Volume \ {v} PROVE FitsOne(w)'
    <3>1. ~alone'[w] /\ op'[w] = op[w] /\ FitsOne(w)
      BY <1>3, <2>1, Zenon DEF View, FitsInv
    <3> QED
      BY <1>1, <3>1, NotAloneFits, Zenon
  <2>4. st[v] # "task"
    BY <1>10, Zenon DEF InFlight
  <2>5. FitInv(v)'
    BY <1>1, <1>3, <2>4, Zenon DEF FitInv
  <2> QED
    BY <1>6, <1>8, <2>2, <2>3, <2>5, Zenon DEF FitsInv, FitsOne
<1> QED
  BY <1>9, <1>10, Zenon

\* CreateVolume and ExpandRawFile up to the check.
LEMMA CallFits ==
  ASSUME SpaceInv, FitsInv, NEW v \in Volume,
         CreateVolume(v) \/ \E target \in 1..MaxSize : ExpandRawFile(v, target)
  PROVE  FitsInv'
<1>1. /\ Types /\ VolumeOK(v) /\ Size[v] \in 1..MaxSize /\ MaxSize \in Nat /\ physical[v] \in 0..MaxSize
      /\ size[v] \in 0..MaxSize
  BY Numbers, Zenon DEF SpaceInv
<1>2. CASE CreateVolume(v)
  <2>1. Required(v) \in Int /\ Size[v] \in 0..MaxSize /\ Required(v) >= Size[v]
    BY <1>1 DEF Required
  <2> QED
    BY <1>2, <2>1, BeginFits, Zenon DEF CreateVolume
<1>3. CASE \E target \in 1..MaxSize : ExpandRawFile(v, target)
  <2>0. PICK target \in 1..MaxSize : ExpandRawFile(v, target)
    BY <1>3, Zenon
  <2>1. /\ ExpandSpace(v, target) \in Int /\ target \in 0..MaxSize
        /\ ~thin[v] => ExpandSpace(v, target) = target - physical[v]
    BY <1>1 DEF ExpandSpace
  <2>2. Begin(v, "expanding", target, ExpandSpace(v, target)) /\ st[v] = "ready" /\ op[v] = "none"
    BY <2>0, Zenon DEF ExpandRawFile, Begin
  <2>3. v \notin InFlight
    BY <2>2, Zenon DEF InFlight, Checking
  <2> QED
    BY <2>1, <2>2, <2>3, BeginFits, Zenon
<1> QED
  BY <1>2, <1>3, Zenon

\* get_capacity reads what there is, and with nobody else taking space there is no less later.
LEMMA ReadFits ==
  ASSUME SpaceInv, FitsInv, NEW v \in Volume, ReadFree(v) \/ \E w \in Volume : ReadVolume(v, w)
  PROVE  FitsInv'
<1>1. /\ v \in Checking /\ v \in InFlight
      /\ UNCHANGED <<reserve, other, st, thin, size, image, physical, reach, op, to, need, alone>>
  BY Zenon DEF ReadFree, ReadVolume, volume, files, InFlight
<1>2. VolumeTypes /\ CallTypes /\ FitsOne(v)
  BY Zenon DEF SpaceInv, Types, FitsInv
<1>3. statvfs' = statvfs /\ Sum(physical)' = Sum(physical) /\ statvfs \in Nat /\ Sum(physical) \in Nat
  BY <1>1, <1>2, SpaceSame, Space, Numbers, Zenon
<1>4. AloneInv'
  BY <1>1, Zenon DEF FitsInv, AloneInv, InFlight, Checking
<1>5. IdleInv(v)' /\ FitInv(v)'
  BY <1>1, <1>2, <1>3, Zenon DEF FitsOne, FitInv, IdleInv, Checking
<1>6. \A w \in Volume \ {v} : View(w)' = View(w)
  BY <1>1, <1>2, Zenon DEF CallTypes, View, ReadFree, ReadVolume, Set
<1>7. \A w \in Volume \ {v} : FitsOne(w)'
  BY <1>1, <1>6, CrowdFits, Zenon
<1>8. ReadInv(v)'
  <2>1. CASE ReadFree(v)
    <3>1. avail'[v] = statvfs /\ UNCHANGED <<left, blocks>>
      BY <1>2, <2>1, Zenon DEF ReadFree, Set, CallTypes
    <3>2. avail'[v] <= statvfs'
      BY <1>3, <3>1
    <3> QED
      BY <1>1, <1>2, <1>3, <3>1, <3>2, Zenon DEF FitsOne, ReadInv
  <2>2. ASSUME NEW w \in Volume, ReadVolume(v, w) PROVE ReadInv(v)'
    <3>1. /\ left' = [left EXCEPT ![v] = left[v] \ {w}] /\ blocks' = [blocks EXCEPT ![v] = blocks[v] + physical[w]]
          /\ UNCHANGED avail /\ w \in left[v]
      BY <2>2, Zenon DEF ReadVolume, Set
    <3>2. left'[v] = left[v] \ {w} /\ blocks'[v] = blocks[v] + physical[w]
      BY <1>2, <3>1, Zenon DEF CallTypes
    <3> DEFINE h == Unseen(physical, left[v])
               k == Unseen(physical, left[v] \ {w})
    <3>3. h \in [Volume -> Int] /\ k \in [Volume -> Int]
      BY <1>2, UnseenIs, Zenon DEF VolumeTypes
    <3>4. h[w] = physical[w] /\ k[w] = 0 /\ \A x \in Volume \ {w} : k[x] = h[x]
      BY <3>1, Zenon DEF Unseen
    <3> HIDE DEF h, k
    <3>5. Sum(h) \in Int /\ Sum(k) = Sum(h) + k[w] - h[w]
      BY <3>3, <3>4, SumChange, Zenon
    <3>6. physical[w] \in Int /\ blocks[v] \in Int
      BY <1>2, ProvisioningAssumption DEF VolumeTypes, CallTypes
    <3>7. Sum(physical) <= blocks[v] + Sum(h) => Sum(physical) <= blocks'[v] + Sum(k)
      BY <1>3, <3>2, <3>4, <3>5, <3>6
    <3>8. Unseen(physical, left[v])' = k
      BY <1>1, <3>2, Zenon DEF k
    <3> QED
      BY <1>1, <1>2, <1>3, <3>1, <3>7, <3>8, Zenon DEF FitsOne, ReadInv, h
  <2> QED
    BY <2>1, <2>2, Zenon
<1> QED
  BY <1>4, <1>5, <1>7, <1>8, Zenon DEF FitsInv, FitsOne

\* A check that found the space: there is that space.
LEMMA Found ==
  ASSUME SpaceInv, FitsInv, NEW v \in Volume, alone[v],
         op[v] = "expanding" \/ (op[v] = "creating" /\ st[v] = "none"),
         left[v] = {}, get_capacity(v) >= 100 * need[v]
  PROVE  /\ 100 * need[v] <= Spare(reserve, statvfs, Sum(physical))
         /\ need[v] > 0 => 100 * need[v] <= Room(reserve, statvfs, Sum(physical))
<1>1. /\ avail[v] <= statvfs /\ Sum(physical) <= blocks[v] + Sum(Unseen(physical, left[v]))
      /\ VolumeTypes /\ CallTypes
  BY Zenon DEF FitsInv, FitsOne, ReadInv, SpaceInv, Types
<1>2. Sum(Unseen(physical, left[v])) = 0
  BY <1>1, UnseenIs, Zenon DEF VolumeTypes
<1>3. /\ avail[v] \in Int /\ blocks[v] \in Int /\ need[v] \in Int /\ statvfs \in Int /\ Sum(physical) \in Int
      /\ reserve \in Reserve
  BY <1>1, Space DEF VolumeTypes, CallTypes
<1>4. Sum(physical) <= blocks[v]
  BY <1>1, <1>2, <1>3
<1>5. Spare(reserve, avail[v], blocks[v]) <= Spare(reserve, statvfs, Sum(physical))
  BY <1>1, <1>3, <1>4, RoomGrows, Zenon
<1>6. get_capacity(v) = Spare(reserve, avail[v], blocks[v])
  BY Zenon DEF get_capacity, Capacity, Spare, Room
<1>7. Spare(reserve, avail[v], blocks[v]) \in Int
  BY <1>3, RoomIs, Zenon
<1>8. /\ Spare(reserve, statvfs, Sum(physical)) \in Int /\ Room(reserve, statvfs, Sum(physical)) \in Int
      /\ Spare(reserve, statvfs, Sum(physical)) = IF Room(reserve, statvfs, Sum(physical)) <= 0 THEN 0
                                                  ELSE Room(reserve, statvfs, Sum(physical))
  BY <1>3, RoomIs
<1> QED
  BY <1>3, <1>5, <1>6, <1>7, <1>8

\* What the end of a check leaves to prove: that of the volume itself.
LEMMA CheckFits ==
  ASSUME SpaceInv, FitsInv, NEW v \in Volume, NEW name \in {"creating", "expanding"},
         NEW next \in {"create", "expand"}, Check(v, name, next), UNCHANGED physical,
         \A w \in Volume \ {v} : st'[w] = st[w] /\ thin'[w] = thin[w], FitInv(v)'
  PROVE  FitsInv'
<1>1. v \in InFlight /\ VolumeTypes /\ CallTypes
  BY Zenon DEF InFlight, Checking, Check, SpaceInv, Types
<1>2. /\ op' = [op EXCEPT ![v] = op'[v]] /\ op'[v] \in {next, "none"}
      /\ need' = [need EXCEPT ![v] = 0] /\ avail' = [avail EXCEPT ![v] = Unread]
      /\ blocks' = [blocks EXCEPT ![v] = 0] /\ UNCHANGED <<reserve, other, to, left, alone>>
  <2> DEFINE o == IF get_capacity(v) >= 100 * need[v] THEN next ELSE "none"
  <2>1. op' = [op EXCEPT ![v] = o] /\ o \in {next, "none"}
    BY Zenon DEF Check, Set
  <2> HIDE DEF o
  <2>2. op'[v] = o
    BY <1>1, <2>1, Zenon DEF CallTypes
  <2> QED
    BY <2>1, <2>2, Zenon DEF Check, Set
<1>3. \A w \in Volume \ {v} : View(w)' = View(w)
  BY <1>1, <1>2, Zenon DEF View, CallTypes
<1>4. \A w \in Volume \ {v} : FitsOne(w)'
  BY <1>1, <1>2, <1>3, CrowdFits, Zenon
<1>5. IdleInv(v)' /\ ReadInv(v)'
  BY <1>1, <1>2, Zenon DEF IdleInv, ReadInv, CallTypes
<1>6. InFlight' \subseteq InFlight
  BY <1>1, <1>3, Zenon DEF InFlight, Checking, View
<1>7. AloneInv'
  BY <1>2, <1>6, AloneKept, Zenon DEF FitsInv
<1> QED
  BY <1>4, <1>5, <1>7, Zenon DEF FitsInv, FitsOne

\* The check of CreateVolume.
LEMMA CreateTaskFits ==
  ASSUME SpaceInv, FitsInv, NEW v \in Volume, CreateVolumeTask(v)
  PROVE  FitsInv'
<1>1. /\ Check(v, "creating", "create") /\ op[v] = "creating" /\ left[v] = {} /\ UNCHANGED <<reserve, other, alone>>
      /\ op'[v] \in {"create", "none"} /\ (op'[v] = "create" => get_capacity(v) >= 100 * need[v])
  <2>1. Check(v, "creating", "create") /\ op \in [Volume -> {"none", "creating", "create", "expanding", "expand"}]
    BY Zenon DEF CreateVolumeTask, SpaceInv, Types, CallTypes
  <2>2. op'[v] = IF get_capacity(v) >= 100 * need[v] THEN "create" ELSE "none"
    BY <2>1, Zenon DEF Check, Set
  <2> QED
    BY <2>1, <2>2, Zenon DEF Check
<1>2. VolumeTypes /\ CallTypes /\ VolumeOK(v) /\ FitsOne(v) /\ Size[v] \in 1..MaxSize /\ MaxSize \in Nat
  BY Numbers, Zenon DEF SpaceInv, Types, FitsInv
<1>3. CASE UNCHANGED volume
  <2>1. UNCHANGED <<st, thin, physical>>
    BY <1>3, Zenon DEF volume, files
  <2>2. statvfs' = statvfs /\ Sum(physical)' = Sum(physical)
    BY <1>1, <2>1, SpaceSame, Zenon
  <2>3. FitInv(v)'
    BY <1>1, <1>2, <2>1, <2>2, Zenon DEF FitsOne, FitInv
  <2> QED
    BY <1>1, <2>1, <2>3, CheckFits, Zenon
<1>4. CASE op'[v] = "create" /\ st[v] = "none" /\ ~UNCHANGED volume
  <2>1. PICK isThin \in BOOLEAN :
          st' = [st EXCEPT ![v] = "task"] /\ thin' = [thin EXCEPT ![v] = isThin] /\ UNCHANGED physical
    BY <1>4, Zenon DEF CreateVolumeTask, Set
  <2>2. /\ statvfs' = statvfs /\ Sum(physical)' = Sum(physical) /\ physical[v] = 0 /\ statvfs \in Int
        /\ Sum(physical) \in Int /\ reserve \in Reserve
    BY <1>1, <1>2, <1>4, <2>1, SpaceSame, Space DEF VolumeOK, VolumeTypes
  <2>3. alone[v] => 100 * (Size[v] - physical[v]) <= Room(reserve, statvfs, Sum(physical))
    <3> SUFFICES ASSUME alone[v] PROVE 100 * (Size[v] - physical[v]) <= Room(reserve, statvfs, Sum(physical))
      BY Zenon
    <3>1. need[v] >= Size[v] /\ need[v] \in Int
      BY <1>1, <1>2, <1>4, Zenon DEF FitsOne, ReadInv, CallTypes
    <3>2. need[v] > 0
      BY <1>2, <3>1
    <3>3. 100 * need[v] <= Room(reserve, statvfs, Sum(physical))
      BY <1>1, <1>4, <3>2, Found, Zenon
    <3>4. Room(reserve, statvfs, Sum(physical)) \in Int
      BY <2>2, RoomIs, Zenon
    <3> QED
      BY <1>2, <2>2, <3>1, <3>3, <3>4
  <2>4. FitInv(v)'
    BY <1>1, <1>4, <2>1, <2>2, <2>3, Zenon DEF FitInv
  <2> QED
    BY <1>1, <1>2, <2>1, <2>4, CheckFits, Zenon DEF VolumeTypes
<1> QED
  BY <1>3, <1>4, Zenon DEF CreateVolumeTask

\* The check of ExpandRawFile.
LEMMA ExpandCheckFits ==
  ASSUME SpaceInv, FitsInv, NEW v \in Volume, ExpandRawFileCheck(v)
  PROVE  FitsInv'
<1>1. /\ Check(v, "expanding", "expand") /\ op[v] = "expanding" /\ left[v] = {}
      /\ UNCHANGED <<reserve, other, to, alone>>
      /\ (op'[v] = "expand" => get_capacity(v) >= 100 * need[v])
  <2>1. Check(v, "expanding", "expand") /\ op \in [Volume -> {"none", "creating", "create", "expanding", "expand"}]
    BY Zenon DEF ExpandRawFileCheck, SpaceInv, Types, CallTypes
  <2>2. op'[v] = IF get_capacity(v) >= 100 * need[v] THEN "expand" ELSE "none"
    BY <2>1, Zenon DEF Check, Set
  <2> QED
    BY <2>1, <2>2, Zenon DEF Check
<1>2. VolumeTypes /\ CallTypes /\ VolumeOK(v) /\ FitsOne(v)
  BY Zenon DEF SpaceInv, Types, FitsInv, VolumesInv
<1>3. UNCHANGED <<st, thin, physical>> /\ st[v] = "ready"
  BY <1>1, <1>2, Zenon DEF ExpandRawFileCheck, VolumeOK
<1>4. statvfs' = statvfs /\ Sum(physical)' = Sum(physical)
  BY <1>1, <1>3, SpaceSame, Zenon
<1>5. op'[v] = "expand" /\ alone[v] /\ ~thin[v]
        => 100 * (to[v] - physical[v]) <= Spare(reserve, statvfs, Sum(physical))
  BY <1>1, <1>2, Found, Zenon DEF FitsOne, ReadInv
<1>6. FitInv(v)'
  BY <1>1, <1>3, <1>4, <1>5, Zenon DEF FitInv
<1> QED
  BY <1>1, <1>3, <1>6, CheckFits, Zenon

\* create_volume takes what was found for it, and a copy that starts over gives back
\* what it has taken.
LEMMA CreatedFits ==
  ASSUME SpaceInv, FitsInv, NEW v \in Volume, create_volume(v)
  PROVE  FitsInv'
<1>1. PICK n \in 0..MaxSize, m \in 0..MaxSize, r \in 0..MaxSize, s \in {"task", "ready", "stuck"} :
           Image(v, n, m) /\ st' = [st EXCEPT ![v] = s]
  BY Created, Zenon
<1>2. /\ VolumeTypes /\ CallTypes /\ VolumeOK(v) /\ st[v] = "task" /\ v \in InFlight /\ FitsOne(v)
      /\ Size[v] \in 1..MaxSize /\ MaxSize \in Nat /\ physical[v] \in 0..MaxSize
  BY Numbers, Zenon DEF create_volume, SpaceInv, Types, InFlight, FitsInv
<1>3. UNCHANGED <<reserve, other, thin, op, to, need, avail, left, blocks, alone>>
  BY Zenon DEF create_volume, call, reading
<1>4. physical' = [physical EXCEPT ![v] = n] /\ physical'[v] = n /\ st'[v] = s /\ n \in Nat
      /\ \A w \in Volume \ {v} : st'[w] = st[w]
  BY <1>1, <1>2 DEF Image, Set, VolumeTypes
<1>5. \A w \in Volume \ {v} : FitsOne(w)'
  BY <1>2, <1>3, <1>4, CrowdFits, Zenon DEF View
<1>6. InFlight' \subseteq InFlight
  BY <1>2, <1>3, <1>4, Zenon DEF InFlight, Checking
<1>7. AloneInv'
  BY <1>3, <1>6, AloneKept, Zenon DEF FitsInv
<1>8. op[v] \notin {"expanding", "expand"}
  BY <1>2, Zenon DEF VolumeOK
<1>9. IdleInv(v)' /\ ReadInv(v)'
  BY <1>2, <1>3, <1>4, <1>8, Zenon DEF FitsOne, IdleInv, ReadInv, Checking
<1>10. FitInv(v)'
  <2> DEFINE a == Room(reserve, statvfs, Sum(physical))
             b == Room(reserve, statvfs', Sum(physical)')
             d == n - physical[v]
  <2>1. /\ statvfs \in Int /\ Sum(physical) \in Int /\ d \in Int /\ reserve \in Reserve
        /\ statvfs' = statvfs - d /\ Sum(physical)' = Sum(physical) + d
    <3>1. statvfs \in Int /\ Sum(physical) \in Nat
      BY <1>2, Space, Zenon
    <3>2. statvfs' = statvfs + physical[v] - n /\ Sum(physical)' = Sum(physical) + n - physical[v]
      BY <1>2, <1>3, <1>4, SpaceChange, Zenon
    <3> QED
      BY <1>2, <3>1, <3>2 DEF VolumeTypes
  <2>2. a \in Int /\ b = a - 100 * d
    <3> HIDE DEF d
    <3>1. a \in Int
      BY <2>1, RoomIs, Zenon
    <3>2. Room(reserve, statvfs - d, Sum(physical) + d) = a - 100 * d
      BY <2>1, RoomTaken
    <3> QED
      BY <2>1, <3>1, <3>2, Zenon
  <2>3. 100 * (Size[v] - physical[v]) <= a => 100 * (Size[v] - n) <= b
    <3>1. Size[v] \in Int /\ physical[v] \in Int /\ n \in Int
      BY <1>2
    <3> HIDE DEF a, b
    <3> QED
      BY <2>2, <3>1
  <2>4. Room(reserve, statvfs, Sum(physical))' = b
    BY <1>3, Zenon
  <2> QED
    BY <1>2, <1>3, <1>4, <1>8, <2>3, <2>4, Zenon DEF FitsOne, FitInv
<1> QED
  BY <1>5, <1>7, <1>9, <1>10, Zenon DEF FitsInv, FitsOne

\* The rest of ExpandRawFile takes what was found for it.
LEMMA GrowFits ==
  ASSUME SpaceInv, FitsInv, NEW v \in Volume, Grow(v)
  PROVE  FitsInv'
<1>1. /\ VolumeTypes /\ CallTypes /\ VolumeOK(v) /\ op[v] = "expand" /\ v \in InFlight /\ FitsOne(v)
      /\ op' = [op EXCEPT ![v] = "none"] /\ to' = [to EXCEPT ![v] = 0]
      /\ UNCHANGED <<reserve, other, st, thin, need, avail, left, blocks, alone>>
  BY Zenon DEF Grow, End, Set, reading, SpaceInv, Types, VolumesInv, InFlight, FitsInv
<1>2. st[v] = "ready" /\ op'[v] = "none"
  BY <1>1, Zenon DEF VolumeOK, CallTypes
<1>3. \A w \in Volume \ {v} : View(w)' = View(w)
  BY <1>1, Zenon DEF View, CallTypes
<1>4. \A w \in Volume \ {v} : FitsOne(w)'
  BY <1>1, <1>3, CrowdFits, Zenon
<1>5. InFlight' \subseteq InFlight
  BY <1>1, <1>3, Zenon DEF InFlight, Checking, View
<1>6. AloneInv'
  BY <1>1, <1>5, AloneKept, Zenon DEF FitsInv
<1>7. FitsOne(v)'
  BY <1>1, <1>2, Zenon DEF FitsOne, IdleInv, ReadInv, FitInv, Checking
<1> QED
  BY <1>4, <1>6, <1>7, Zenon DEF FitsInv

\* The end of the wait.
LEMMA CreateEndFits ==
  ASSUME SpaceInv, SpaceInv', FitsInv, NEW v \in Volume, CreateVolumeEnd(v)
  PROVE  FitsInv'
<1>1. /\ VolumeTypes /\ CallTypes /\ op[v] = "create"
      /\ op' = [op EXCEPT ![v] = "none"] /\ to' = [to EXCEPT ![v] = 0]
      /\ UNCHANGED <<reserve, other, st, thin, physical, need, avail, left, blocks, alone>>
  BY Zenon DEF CreateVolumeEnd, End, Set, reading, volume, files, SpaceInv, Types
<1>2. op'[v] = "none" /\ \A w \in Volume \ {v} : View(w)' = View(w)
  BY <1>1, Zenon DEF View, CallTypes
<1>3. statvfs' = statvfs /\ Sum(physical)' = Sum(physical) /\ statvfs \in Int /\ Sum(physical) \in Nat
  BY <1>1, SpaceSame, Space, Zenon
<1>4. ASSUME NEW w \in Volume \ {v} PROVE FitsOne(w)'
  <2>1. Sum(Unseen(physical, left[w]))' = Sum(Unseen(physical, left[w]))
    BY <1>1, Zenon
  <2>2. /\ op'[w] = op[w] /\ to'[w] = to[w] /\ FitsOne(w)
    BY <1>2, Zenon DEF View, FitsInv
  <2> QED
    BY <1>1, <1>3, <2>1, <2>2, Zenon DEF FitsOne, IdleInv, ReadInv, FitInv, Checking
<1>5. InFlight' \subseteq InFlight
  BY <1>1, <1>2, Zenon DEF InFlight, Checking, View
<1>6. AloneInv'
  BY <1>1, <1>5, AloneKept, Zenon DEF FitsInv
<1>7. FitsOne(v)'
  BY <1>1, <1>2, <1>3, Zenon DEF FitsInv, FitsOne, IdleInv, ReadInv, FitInv, Checking
<1> QED
  BY <1>4, <1>6, <1>7, Zenon DEF FitsInv

\* A volume that loses its blocks makes room for the others.
LEMMA FreeFits ==
  ASSUME SpaceInv, SpaceInv', FitsInv, NEW v \in Volume, DeleteVolume(v) \/ Discard(v)
  PROVE  FitsInv'
<1>1. /\ Types /\ Types' /\ VolumeTypes /\ CallTypes /\ physical[v] \in 0..MaxSize /\ MaxSize \in Nat
      /\ statvfs \in Nat /\ Sum(physical) \in Nat
  BY Numbers, Space, Zenon DEF SpaceInv, Types
<1>2. /\ physical' = [physical EXCEPT ![v] = 0]
      /\ UNCHANGED <<reserve, other, thin, op, to, need, avail, left, blocks>>
      /\ st' = [st EXCEPT ![v] = st'[v]] /\ \A w \in Volume : alone'[w] => alone[w]
      /\ (~alone'[v] /\ st'[v] = st[v]) \/ (st'[v] = "none" /\ op[v] = "none")
  BY <1>1, Zenon DEF DeleteVolume, Discard, Set, call, reading, VolumeTypes, CallTypes
<1>3. /\ \A w \in Volume \ {v} : View(w)' = View(w) /\ physical'[w] = physical[w]
      /\ physical'[v] = 0 /\ 0 \in Nat
  BY <1>1, <1>2 DEF View, VolumeTypes
<1>4. /\ statvfs' = statvfs + physical[v] - 0 /\ Sum(physical)' = Sum(physical) + 0 - physical[v]
  BY <1>1, <1>2, <1>3, SpaceChange, Zenon
<1>5. statvfs <= statvfs' /\ Sum(physical)' <= Sum(physical)
  BY <1>1, <1>4
<1>6. ASSUME NEW w \in Volume \ {v} PROVE FitsOne(w)'
  <2> DEFINE h == Unseen(physical, left[w])
             k == Unseen(physical', left[w])
  <2>1. h \in [Volume -> Int] /\ k \in [Volume -> Int]
    BY <1>1, UnseenIs, Zenon DEF Types, VolumeTypes
  <2>2. h[v] \in {0, physical[v]} /\ k[v] = 0 /\ \A x \in Volume \ {v} : k[x] = h[x]
    BY <1>3, Zenon DEF Unseen
  <2> HIDE DEF h, k
  <2>3. Sum(h) \in Int /\ Sum(k) = Sum(h) + k[v] - h[v]
    BY <2>1, <2>2, SumChange, Zenon
  <2>4. Sum(physical)' - Sum(k) <= Sum(physical) - Sum(h)
    BY <1>1, <1>4, <2>2, <2>3
  <2>5. Sum(Unseen(physical, left[w]))' = Sum(k)
    BY <1>2, Zenon DEF k
  <2>6. Sum(physical)' - Sum(Unseen(physical, left[w]))' <= Sum(physical) - Sum(Unseen(physical, left[w]))
    BY <2>4, <2>5, Zenon DEF h
  <2> QED
    BY <1>1, <1>2, <1>3, <1>5, <2>6, KeptFits, Zenon DEF FitsInv
<1>7. InFlight' \subseteq InFlight
  BY <1>2, <1>3, Zenon DEF InFlight, Checking, View
<1>8. AloneInv'
  BY <1>2, <1>7, AloneKept, Zenon DEF FitsInv, InFlight, Checking
<1>9. FitsOne(v)'
  BY <1>2, Zenon DEF FitsInv, FitsOne, IdleInv, ReadInv, FitInv, Checking
<1> QED
  BY <1>6, <1>8, <1>9, Zenon DEF FitsInv

\* Others and pods: when they take space nobody has been alone.
LEMMA OthersFit ==
  ASSUME SpaceInv, SpaceInv', FitsInv, OtherUse \/ \E v \in Volume : Write(v)
  PROVE  FitsInv'
<1>1. UNCHANGED <<reserve, st, thin, op, to, need, avail, left, blocks>>
  BY Zenon DEF OtherUse, Write, volume, files, call, reading
<1>2. InFlight' = InFlight
  BY <1>1, Zenon DEF InFlight, Checking
<1>3. CASE alone' = [w \in Volume |-> FALSE]
  <2>1. \A w \in Volume : FitsOne(w)'
    BY <1>1, <1>3, NotAloneFits, Zenon DEF FitsInv
  <2>2. AloneInv'
    BY <1>3, Zenon DEF AloneInv, InFlight, Checking
  <2> QED
    BY <2>1, <2>2, Zenon DEF FitsInv
<1>4. CASE OtherUse /\ other' = other - 1 /\ UNCHANGED alone
  <2>1. Types /\ Types' /\ UNCHANGED physical /\ Sum(physical) \in Nat
    BY <1>4, Space, Zenon DEF SpaceInv, Types, OtherUse, volume, files
  <2>2. other' <= other
    BY <1>4, <2>1 DEF Types, VolumeTypes
  <2>3. Sum(physical)' = Sum(physical) /\ statvfs <= statvfs'
    BY <1>4, <2>2, OtherSpace, Zenon
  <2>4. ASSUME NEW w \in Volume PROVE FitsOne(w)'
    <3>1. Sum(Unseen(physical, left[w]))' = Sum(Unseen(physical, left[w])) /\ View(w)' = View(w)
      BY <1>1, <2>1, Zenon DEF View
    <3>2. Sum(Unseen(physical, left[w])) \in Int
      BY <2>1, UnseenIs, Zenon DEF Types, VolumeTypes
    <3>3. /\ Sum(physical)' <= Sum(physical)
          /\ Sum(physical)' - Sum(Unseen(physical, left[w]))' <= Sum(physical) - Sum(Unseen(physical, left[w]))
      BY <2>1, <2>3, <3>1, <3>2
    <3> QED
      BY <1>1, <1>4, <2>1, <2>3, <3>1, <3>3, KeptFits, Zenon DEF FitsInv
  <2>5. AloneInv'
    BY <1>2, <1>4, AloneKept, Zenon DEF FitsInv
  <2> QED
    BY <2>4, <2>5, Zenon DEF FitsInv
<1> QED
  BY <1>3, <1>4, Zenon DEF OtherUse, Write

\* Every step.
LEMMA FitsStep == SpaceInv /\ FitsInv /\ [Next]_vars => FitsInv'
<1> SUFFICES ASSUME SpaceInv, FitsInv, [Next]_vars PROVE FitsInv'
  BY Zenon
<1>0. SpaceInv'
  BY SpaceStep, Zenon
<1>1. CASE UNCHANGED vars
  <2>1. UNCHANGED <<reserve, other, st, thin, physical, op, to, need, avail, left, blocks, alone>>
    BY <1>1, Zenon DEF vars, volume, files, call, reading
  <2>2. statvfs' = statvfs /\ Sum(physical)' = Sum(physical)
    BY <2>1, SpaceSame, Zenon
  <2>3. \A v \in Volume : Sum(Unseen(physical, left[v]))' = Sum(Unseen(physical, left[v]))
    BY <2>1, Zenon
  <2> QED
    BY <2>1, <2>2, <2>3, Zenon DEF FitsInv, AloneInv, FitsOne, IdleInv, ReadInv, FitInv, InFlight, Checking
<1>2. ASSUME NEW v \in Volume,
             \/ CreateVolume(v) \/ ReadFree(v) \/ (\E w \in Volume : ReadVolume(v, w))
             \/ CreateVolumeTask(v) \/ CreateVolumeEnd(v) \/ create_volume(v)
             \/ (\E target \in 1..MaxSize : ExpandRawFile(v, target))
             \/ ExpandRawFileCheck(v) \/ Grow(v) \/ DeleteVolume(v) \/ Write(v) \/ Discard(v)
      PROVE  FitsInv'
  BY <1>0, <1>2, CallFits, ReadFits, CreateTaskFits, CreateEndFits, CreatedFits, ExpandCheckFits, GrowFits,
     FreeFits, OthersFit, Zenon
<1> QED
  BY <1>0, <1>1, <1>2, OthersFit, Zenon DEF Next

\* What CreateVolume and ExpandRawFile allowed fits into the free space without the
\* reserve until it is allocated, unless something else took space after the check
\* began or the source of a copy has become larger than what was asked for
\* (get_capacity, _check_capacity_for_expand, create_volume).
THEOREM AllowedIsPossible == Spec => []AllowedFits
<1>1. Init => FitsInv
  <2> SUFFICES ASSUME Init PROVE FitsInv
    BY Zenon
  <2>1. \A v \in Volume : /\ ~alone[v] /\ op[v] = "none" /\ st[v] = "none" /\ avail[v] = Unread
                          /\ blocks[v] = 0
    BY Zenon DEF Init
  <2>2. InFlight = {}
    BY <2>1, Zenon DEF InFlight, Checking
  <2> QED
    BY <2>1, <2>2, Zenon DEF FitsInv, AloneInv, FitsOne, IdleInv, ReadInv, FitInv
<1>2. SpaceInv /\ FitsInv => AllowedFits
  <2> SUFFICES ASSUME SpaceInv, FitsInv, NEW v \in Allowed, alone[v], st[v] = "task" => Target(v) = Size[v]
               PROVE  100 * (Goal(v) - physical[v]) <= Capacity(statvfs, Sum(physical))
    BY Zenon DEF AllowedFits
  <2>1. v \in Volume /\ FitInv(v) /\ reserve \in Reserve /\ VolumeTypes
    BY Zenon DEF Allowed, FitsInv, FitsOne, SpaceInv, Types, VolumeTypes
  <2>2. /\ Size[v] \in Int /\ to[v] \in Int /\ physical[v] \in Int /\ statvfs \in Int /\ Sum(physical) \in Int
    BY <2>1, Numbers, Space
  <2> DEFINE a == Room(reserve, statvfs, Sum(physical))
             c == Spare(reserve, statvfs, Sum(physical))
  <2>7. a \in Int /\ c = IF a <= 0 THEN 0 ELSE a
    BY <2>1, <2>2, RoomIs
  <2>4. Capacity(statvfs, Sum(physical)) = c
    BY Zenon DEF Capacity, Spare, Room
  <2> HIDE DEF a, c
  <2>3. a \in Int /\ c \in Int /\ a <= c
    BY <2>7
  <2>5. CASE st[v] = "task"
    <3>1. 100 * (Size[v] - physical[v]) <= a /\ Goal(v) = Size[v]
      BY <2>1, <2>5, Zenon DEF FitInv, Goal, a
    <3>2. 100 * (Size[v] - physical[v]) <= c
      BY <2>2, <2>3, <3>1
    <3> QED
      BY <2>4, <3>1, <3>2, Zenon
  <2>6. CASE st[v] # "task"
    BY <2>1, <2>4, <2>6, Zenon DEF Allowed, FitInv, Goal, c
  <2> QED
    BY <2>5, <2>6, Zenon
<1> QED
  BY <1>1, <1>2, SpaceInit, SpaceStep, FitsStep, PTL DEF Spec

=============================================================================

---------------------------- MODULE PluginProofs ----------------------------
(***************************************************************************)
(* Theorems about Plugin.  For any number of controllers at once, and any  *)
(* time: what the ConfigMap says of the installation never changes, and    *)
(* what it says of the last ping is true.  For any volumes, pools, earlier *)
(* metadata and number of kills: the start of the node plugin never loses  *)
(* a file, and it serves only what has been migrated, once.                *)
(* And, for any objects written and any failures, kills and power losses:  *)
(* disk.meta, as update_metadata writes it, is an atomic and durable file. *)
(***************************************************************************)
EXTENDS Plugin, MetadataFile, TLAPS

-----------------------------------------------------------------------------
(* The migrations *)

\* The loop of migrate_to computes what Migrated says. M(n) is what d has become
\* after the functions up to the one that makes version n; each function changes
\* the version and at most one more field.
LEMMA MigrateIsMigrated ==
  ASSUME NEW d \in Metadata, d.schema_version <= LATEST_SCHEMA_VERSION, NEW exists \in BOOLEAN
  PROVE  migrate_to(d, exists) = Migrated(d, exists)
<1> DEFINE v == d.schema_version
           V(n)  == IF v < n THEN n ELSE v
           FsAll == IF v < 2 /\ d.fs_type = Absent THEN "ext4" ELSE d.fs_type
           GcAll == IF v < 3 /\ d.deleted_at # Absent THEN d.deleted_at + 7 ELSE d.gc_at
           ThAll == IF v < 4 THEN TRUE ELSE d.thin_provision
           RdAll == IF v < 5 THEN TRUE ELSE d.ready
           PoAll == IF v < 6 THEN DefaultPool ELSE d.storage_pool
           RlAll == IF v < 7 THEN Absent ELSE d.reflink_attached
           ImAll == IF v < 8 /\ d.img_file = "data" /\ exists THEN "pool" ELSE d.img_file
           Rec(a, b, c, e, f, g, h, i) ==
             [schema_version |-> a, volume_id |-> d.volume_id, fs_type |-> b,
              deleted_at |-> d.deleted_at, gc_at |-> c,
              thin_provision |-> e, ready |-> f, storage_pool |-> g, reflink_attached |-> h,
              img_file |-> i]
           M0 == Rec(v, d.fs_type, d.gc_at, d.thin_provision, d.ready, d.storage_pool,
                     d.reflink_attached, d.img_file)
           M1 == Rec(V(1), d.fs_type, d.gc_at, d.thin_provision, d.ready, d.storage_pool,
                     d.reflink_attached, d.img_file)
           M2 == Rec(V(2), FsAll, d.gc_at, d.thin_provision, d.ready, d.storage_pool,
                     d.reflink_attached, d.img_file)
           M3 == Rec(V(3), FsAll, GcAll, d.thin_provision, d.ready, d.storage_pool,
                     d.reflink_attached, d.img_file)
           M4 == Rec(V(4), FsAll, GcAll, ThAll, d.ready, d.storage_pool,
                     d.reflink_attached, d.img_file)
           M5 == Rec(V(5), FsAll, GcAll, ThAll, RdAll, d.storage_pool, d.reflink_attached,
                     d.img_file)
           M6 == Rec(V(6), FsAll, GcAll, ThAll, RdAll, PoAll, d.reflink_attached, d.img_file)
           M7 == Rec(V(7), FsAll, GcAll, ThAll, RdAll, PoAll, RlAll, d.img_file)
           M8 == Rec(V(8), FsAll, GcAll, ThAll, RdAll, PoAll, RlAll, ImAll)
<1>v. v \in Nat /\ v <= 8
  BY DEF Metadata, LATEST_SCHEMA_VERSION
<1>d. Rec(v, d.fs_type, d.gc_at, d.thin_provision, d.ready, d.storage_pool, d.reflink_attached,
          d.img_file) = d
  BY DEF Metadata
<1>m. Rec(8, FsAll, GcAll, ThAll, RdAll, PoAll, RlAll, ImAll) = Migrated(d, exists)
  BY Zenon DEF Migrated, LATEST_SCHEMA_VERSION
<1>f. /\ v < 2 => FsAll = IF d.fs_type = Absent THEN "ext4" ELSE d.fs_type
      /\ ~(v < 2) => FsAll = d.fs_type
      /\ v < 3 => GcAll = IF d.deleted_at = Absent THEN d.gc_at ELSE d.deleted_at + 7
      /\ ~(v < 3) => GcAll = d.gc_at
      /\ v < 8 => ImAll = IF d.img_file = "data" /\ exists THEN "pool" ELSE d.img_file
      /\ ~(v < 8) => ImAll = d.img_file
  BY <1>v
<1>g. /\ v < 4 => ThAll = TRUE
      /\ ~(v < 4) => ThAll = d.thin_provision
      /\ v < 5 => RdAll = TRUE
      /\ ~(v < 5) => RdAll = d.ready
      /\ v < 6 => PoAll = DefaultPool
      /\ ~(v < 6) => PoAll = d.storage_pool
      /\ v < 7 => RlAll = Absent
      /\ ~(v < 7) => RlAll = d.reflink_attached
  BY Zenon
<1> HIDE DEF FsAll, GcAll, ThAll, RdAll, PoAll, RlAll, ImAll
<1>1. M1 = IF v < 1 THEN migrate_0_to_1(M0) ELSE M0
  <2>1. CASE v < 1
    <3>1. V(1) = 1
      BY <2>1
    <3> HIDE DEF V
    <3>2. QED BY <2>1, <3>1 DEF migrate_0_to_1
  <2>2. CASE ~(v < 1)
    <3>1. V(1) = v
      BY <1>v, <2>2
    <3> HIDE DEF V
    <3>2. QED BY <2>2, <3>1
  <2>3. QED BY <2>1, <2>2
<1>2. M2 = IF v < 2 THEN migrate_1_to_2(M1) ELSE M1
  <2>1. CASE v < 2
    <3>1. V(2) = 2
      BY <2>1
    <3> HIDE DEF V
    <3>2. QED BY <2>1, <3>1, <1>f, Zenon DEF migrate_1_to_2
  <2>2. CASE ~(v < 2)
    <3>1. V(2) = V(1)
      BY <1>v, <2>2
    <3> HIDE DEF V
    <3>2. QED BY <2>2, <3>1, <1>f
  <2>3. QED BY <2>1, <2>2
<1>3. M3 = IF v < 3 THEN migrate_2_to_3(M2) ELSE M2
  <2>1. CASE v < 3
    <3>1. V(3) = 3
      BY <2>1
    <3> HIDE DEF V
    <3>2. QED BY <2>1, <3>1, <1>f, Zenon DEF migrate_2_to_3
  <2>2. CASE ~(v < 3)
    <3>1. V(3) = V(2)
      BY <1>v, <2>2
    <3> HIDE DEF V
    <3>2. QED BY <2>2, <3>1, <1>f
  <2>3. QED BY <2>1, <2>2
<1>4. M4 = IF v < 4 THEN migrate_3_to_4(M3) ELSE M3
  <2>1. CASE v < 4
    <3>1. V(4) = 4
      BY <2>1
    <3> HIDE DEF V
    <3>2. QED BY <2>1, <3>1, <1>g, Zenon DEF migrate_3_to_4
  <2>2. CASE ~(v < 4)
    <3>1. V(4) = V(3)
      BY <1>v, <2>2
    <3> HIDE DEF V
    <3>2. QED BY <2>2, <3>1, <1>g
  <2>3. QED BY <2>1, <2>2
<1>5. M5 = IF v < 5 THEN migrate_4_to_5(M4) ELSE M4
  <2>1. CASE v < 5
    <3>1. V(5) = 5
      BY <2>1
    <3> HIDE DEF V
    <3>2. QED BY <2>1, <3>1, <1>g, Zenon DEF migrate_4_to_5
  <2>2. CASE ~(v < 5)
    <3>1. V(5) = V(4)
      BY <1>v, <2>2
    <3> HIDE DEF V
    <3>2. QED BY <2>2, <3>1, <1>g
  <2>3. QED BY <2>1, <2>2
<1>6. M6 = IF v < 6 THEN migrate_5_to_6(M5) ELSE M5
  <2>1. CASE v < 6
    <3>1. V(6) = 6
      BY <2>1
    <3> HIDE DEF V
    <3>2. QED BY <2>1, <3>1, <1>g, Zenon DEF migrate_5_to_6
  <2>2. CASE ~(v < 6)
    <3>1. V(6) = V(5)
      BY <1>v, <2>2
    <3> HIDE DEF V
    <3>2. QED BY <2>2, <3>1, <1>g
  <2>3. QED BY <2>1, <2>2
<1>7. M7 = IF v < 7 THEN migrate_6_to_7(M6) ELSE M6
  <2>1. CASE v < 7
    <3>1. V(7) = 7
      BY <2>1
    <3> HIDE DEF V
    <3>2. QED BY <2>1, <3>1, <1>g, Zenon DEF migrate_6_to_7
  <2>2. CASE ~(v < 7)
    <3>1. V(7) = V(6)
      BY <1>v, <2>2
    <3> HIDE DEF V
    <3>2. QED BY <2>2, <3>1, <1>g
  <2>3. QED BY <2>1, <2>2
<1>8. M8 = IF v < 8 THEN migrate_7_to_8(M7, exists) ELSE M7
  <2>1. CASE v < 8
    <3>1. V(8) = 8
      BY <2>1
    <3> HIDE DEF V
    <3>2. QED BY <2>1, <3>1, <1>f, Zenon DEF migrate_7_to_8
  <2>2. CASE ~(v < 8)
    <3>1. V(8) = V(7)
      BY <1>v, <2>2
    <3> HIDE DEF V
    <3>2. QED BY <2>2, <3>1, <1>f
  <2>3. QED BY <2>1, <2>2
<1>9. M8 = Migrated(d, exists)
  BY <1>v, <1>m
<1> HIDE DEF M0, M1, M2, M3, M4, M5, M6, M7, M8
<1>10. migrate_to(d, exists) = M8
  BY <1>d, <1>1, <1>2, <1>3, <1>4, <1>5, <1>6, <1>7, <1>8, Zenon DEF migrate_to, M0
<1>11. QED BY <1>9, <1>10


\* The result is metadata of the latest version, which migrate_to leaves alone.
LEMMA MigratedIsFinal ==
  ASSUME NEW d \in Metadata, NEW exists \in BOOLEAN
  PROVE  /\ Migrated(d, exists) \in Metadata
         /\ migrate_to(Migrated(d, exists), exists) = Migrated(d, exists)
<1> DEFINE m == Migrated(d, exists)
<1>1. m \in Metadata /\ m.schema_version = LATEST_SCHEMA_VERSION
  BY StartupAssumption DEF Metadata, LATEST_SCHEMA_VERSION, Migrated
<1> HIDE DEF m
<1>2. migrate_to(m, exists) = m
  <2>1. m.schema_version = 8
    BY <1>1, Zenon DEF LATEST_SCHEMA_VERSION
  <2>2. /\ ~(8 < 1) /\ ~(8 < 2) /\ ~(8 < 3) /\ ~(8 < 4)
        /\ ~(8 < 5) /\ ~(8 < 6) /\ ~(8 < 7) /\ ~(8 < 8)
    OBVIOUS
  <2>3. QED BY <2>1, <2>2, Zenon DEF migrate_to
<1>3. QED BY <1>1, <1>2 DEF m

-----------------------------------------------------------------------------
(* The pings of the controllers *)

Time == Nat \cup {Never}

Map  == [install : Time, last : Time]

Stage == {"down", "once", "install", "getInstall", "putInstall", "loop", "getPing", "putPing",
          "wait", "sleep"}

Thread ==
  [at : Stage, install_ts : Time, installed : BOOLEAN, ping_ts : Time, record_ping : BOOLEAN,
   seen : Map]

\* A time that is to be recorded is that of a ping that was sent: the thread
\* counts on from it only when it has been recorded.
ThreadOK(t, sent) ==
  /\ t \in Thread
  /\ t.at \in {"install", "getInstall", "putInstall"} => t.install_ts \in Nat
  /\ t.at \in {"loop", "wait", "sleep", "getPing", "putPing"} => t.ping_ts \in Nat
  /\ t.at \in {"getPing", "putPing"} => t.record_ping = TRUE
  /\ t.at \in {"install", "getInstall", "putInstall", "wait", "sleep"} => t.record_ping = FALSE
  /\ t.record_ping = TRUE => t.ping_ts \in sent /\ t.ping_ts \in Nat

MapOK == cm \in Map /\ cm.last \in pinged \cup {Never}

PingInv ==
  /\ now \in Nat /\ MapOK
  /\ ping = [c \in Controller |-> ping[c]] /\ \A c \in Controller : ThreadOK(ping[c], pinged)

\* The write of a thread, if it is not refused, changes what it is to change.
LEMMA WrittenMap ==
  ASSUME PingInv, NEW c \in Controller, ping[c].at \in {"putInstall", "putPing"}
  PROVE  /\ Written(ping[c]) \in Map /\ Written(ping[c]).last \in pinged \cup {Never}
         /\ cm.install # Never => Written(ping[c]).install = cm.install
<1>1. ThreadOK(ping[c], pinged)
  BY DEF PingInv
<1>2. ping[c].at = "putPing" => ping[c].ping_ts \in pinged /\ ping[c].ping_ts \in Nat
  BY <1>1 DEF ThreadOK
<1>3. ping[c].install_ts \in Time /\ ping[c].ping_ts \in Time
  BY <1>1 DEF ThreadOK, Thread
<1>4. cm \in Map /\ cm.last \in pinged \cup {Never}
  BY DEF PingInv, MapOK
<1>5. QED BY <1>2, <1>3, <1>4 DEF Written, Map

\* One thread changes, the others stay as they are.
LEMMA OneThread ==
  ASSUME PingInv, NEW c \in Controller, NEW t, Set(c, t), pinged \subseteq pinged', now' \in Nat,
         MapOK', ThreadOK(t, pinged')
  PROVE  PingInv'
<1>1. ASSUME NEW d \in Controller PROVE ThreadOK(ping'[d], pinged')
  <2>1. CASE d = c
    BY <2>1 DEF PingInv, Set
  <2>2. CASE d # c
    BY <2>2 DEF PingInv, Set, ThreadOK
  <2>3. QED BY <2>1, <2>2
<1>2. ping' = [d \in Controller |-> ping'[d]]
  BY DEF PingInv, Set
<1>3. QED BY <1>1, <1>2 DEF PingInv

\* A step of a thread keeps the invariant.
LEMMA ThreadStep ==
  ASSUME PingInv, NEW c \in Controller, PingThread(c) \/ PingFails(c) \/ KillPing(c)
  PROVE  PingInv'
<1> DEFINE t == ping[c]
           Fields(u, at, install_ts, ping_ts, record) ==
             /\ u.at = at /\ u.install_ts = install_ts /\ u.ping_ts = ping_ts /\ u.record_ping = record
<1>0. /\ now \in Nat /\ MapOK /\ t \in Thread /\ ThreadOK(t, pinged)
      /\ Never \notin Nat /\ cm.install \in Time /\ cm.last \in Time /\ cm \in Map /\ NoThread.seen \in Map
  BY PingAssumption DEF PingInv, ThreadOK, MapOK, Map, Time, NoThread
<1>1. CASE run_ping(c) \/ KillPing(c)
  <2>1. /\ UNCHANGED <<now, cm, pinged>>
        /\ Set(c, [NoThread EXCEPT !.at = "once"]) \/ Set(c, NoThread)
    BY <1>1 DEF run_ping, KillPing
  <2>2. ThreadOK(NoThread, pinged)
    BY PingAssumption DEF ThreadOK, Thread, Stage, Map, Time, NoThread
  <2>3. ThreadOK([NoThread EXCEPT !.at = "once"], pinged)
    BY PingAssumption, Zenon DEF ThreadOK, Thread, Stage, Map, Time, NoThread
  <2>4. QED BY <1>0, <2>1, <2>2, <2>3, OneThread DEF MapOK
<1>2. CASE send_install_once(c)
  <2> DEFINE u1 == [t EXCEPT !.at = "loop"]
             next == IF cm.last # Never THEN cm.last ELSE cm.install
             u2 == [t EXCEPT !.at = "loop", !.install_ts = cm.install, !.installed = TRUE,
                             !.ping_ts = next]
             stage == IF t.installed THEN "getInstall" ELSE "install"
             first_ts == IF t.install_ts = Never THEN now ELSE t.install_ts
             u3 == [t EXCEPT !.at = stage, !.install_ts = first_ts]
  <2>1. /\ UNCHANGED <<now, cm, pinged>> /\ t.at = "once"
        /\ \/ t.ping_ts # Never /\ Set(c, u1)
           \/ t.ping_ts = Never /\ cm.install # Never /\ Set(c, u2)
           \/ t.ping_ts = Never /\ Set(c, u3)
    BY <1>2 DEF send_install_once
  <2>2. t.ping_ts # Never => ThreadOK(u1, pinged)
    <3>1. u1 \in Thread /\ Fields(u1, "loop", t.install_ts, t.ping_ts, t.record_ping)
      BY <1>0 DEF Thread, Stage
    <3> HIDE DEF u1
    <3>2. QED BY <1>0, <2>1, <3>1 DEF ThreadOK, Thread, Time
  <2>3. t.ping_ts = Never /\ cm.install # Never => ThreadOK(u2, pinged)
    <3>1. next \in Time /\ (cm.install # Never => next \in Nat)
      BY <1>0 DEF Time
    <3> HIDE DEF next
    <3>2. u2 \in Thread /\ Fields(u2, "loop", cm.install, next, t.record_ping)
      BY <1>0, <3>1, Zenon DEF Thread, Stage
    <3> HIDE DEF u2
    <3>3. QED BY <1>0, <2>1, <3>1, <3>2 DEF ThreadOK, Thread, Time
  <2>4. t.ping_ts = Never => ThreadOK(u3, pinged)
    <3>1. /\ first_ts \in Nat /\ first_ts \in Time /\ stage \in Stage
          /\ stage \in {"getInstall", "install"}
      BY <1>0 DEF Thread, Time, Stage
    <3> HIDE DEF first_ts, stage
    <3>2. u3 \in Thread /\ Fields(u3, stage, first_ts, t.ping_ts, t.record_ping)
      BY <1>0, <3>1, Zenon DEF Thread
    <3>3. t.ping_ts = Never => t.record_ping = FALSE
      BY <1>0 DEF ThreadOK, Thread
    <3> HIDE DEF u3
    <3>4. QED BY <1>0, <2>1, <3>1, <3>2, <3>3 DEF ThreadOK, Thread, Time
  <2> HIDE DEF u1, u2, u3
  <2>5. QED BY <1>0, <2>1, <2>2, <2>3, <2>4, OneThread DEF MapOK
<1>3. CASE send_install(c)
  <2> DEFINE u == [t EXCEPT !.at = "getInstall", !.installed = TRUE]
  <2>1. UNCHANGED <<now, cm, pinged>> /\ Set(c, u) /\ t.at = "install"
    BY <1>3 DEF send_install, At
  <2>2. u \in Thread /\ Fields(u, "getInstall", t.install_ts, t.ping_ts, t.record_ping)
    BY <1>0, Zenon DEF Thread, Stage
  <2> HIDE DEF u
  <2>3. ThreadOK(u, pinged)
    BY <1>0, <2>1, <2>2 DEF ThreadOK, Thread, Time
  <2>4. QED BY <1>0, <2>1, <2>3, OneThread DEF MapOK
<1>4. CASE GetConfigMap(c)
  <2> DEFINE stage == IF t.at = "getInstall" THEN "putInstall" ELSE "putPing"
             u == [t EXCEPT !.at = stage, !.seen = cm]
  <2>1. UNCHANGED <<now, cm, pinged>> /\ Set(c, u) /\ t.at \in {"getInstall", "getPing"}
    BY <1>4 DEF GetConfigMap, At
  <2>2. stage \in Stage /\ stage = IF t.at = "getInstall" THEN "putInstall" ELSE "putPing"
    BY <1>0, <2>1 DEF ThreadOK, Thread, Stage, Time
  <2> HIDE DEF stage
  <2>3. u \in Thread /\ Fields(u, stage, t.install_ts, t.ping_ts, t.record_ping)
    BY <1>0, <2>2, Zenon DEF Thread, Stage
  <2> HIDE DEF u
  <2>4. ThreadOK(u, pinged)
    BY <1>0, <2>1, <2>2, <2>3 DEF ThreadOK, Thread, Time
  <2>5. QED BY <1>0, <2>1, <2>4, OneThread DEF MapOK
<1>5. CASE PutInstall(c)
  <2> DEFINE u == [t EXCEPT !.at = "loop", !.ping_ts = t.install_ts, !.seen = NoThread.seen]
  <2>1. UNCHANGED <<now, pinged>> /\ Set(c, u) /\ t.at = "putInstall" /\ cm' = Written(t)
    BY <1>5 DEF PutInstall
  <2>2. u \in Thread /\ Fields(u, "loop", t.install_ts, t.install_ts, t.record_ping)
    BY <1>0, Zenon DEF Thread, Stage
  <2>3. MapOK'
    BY <2>1, WrittenMap DEF MapOK
  <2> HIDE DEF u
  <2>4. ThreadOK(u, pinged)
    BY <1>0, <2>1, <2>2 DEF ThreadOK, Thread, Time
  <2>5. QED BY <1>0, <2>1, <2>3, <2>4, OneThread
<1>6. CASE PutPing(c)
  <2> DEFINE u == [t EXCEPT !.at = "wait", !.record_ping = FALSE, !.seen = NoThread.seen]
  <2>1. UNCHANGED <<now, pinged>> /\ Set(c, u) /\ t.at = "putPing" /\ cm' = Written(t)
    BY <1>6 DEF PutPing
  <2>2. u \in Thread /\ Fields(u, "wait", t.install_ts, t.ping_ts, FALSE)
    BY <1>0, Zenon DEF Thread, Stage
  <2>3. MapOK'
    BY <2>1, WrittenMap DEF MapOK
  <2> HIDE DEF u
  <2>4. ThreadOK(u, pinged)
    BY <1>0, <2>1, <2>2 DEF ThreadOK, Thread, Time
  <2>5. QED BY <1>0, <2>1, <2>3, <2>4, OneThread
<1>7. CASE Loop(c)
  <2> DEFINE stage == IF t.record_ping THEN "getPing" ELSE "wait"
             u == [t EXCEPT !.at = stage]
  <2>1. UNCHANGED <<now, cm, pinged>> /\ Set(c, u) /\ t.at = "loop"
    BY <1>7 DEF Loop, At
  <2>2. stage \in Stage /\ stage = IF t.record_ping = TRUE THEN "getPing" ELSE "wait"
    BY <1>0, <2>1 DEF ThreadOK, Thread, Stage, Time
  <2> HIDE DEF stage
  <2>3. u \in Thread /\ Fields(u, stage, t.install_ts, t.ping_ts, t.record_ping)
    BY <1>0, <2>2 DEF Thread, Stage
  <2> HIDE DEF u
  <2>4. ThreadOK(u, pinged)
    BY <1>0, <2>1, <2>2, <2>3 DEF ThreadOK, Thread, Time
  <2>5. QED BY <1>0, <2>1, <2>4, OneThread DEF MapOK
<1>8. CASE wait_ping(c)
  <2> DEFINE ts == IF now < t.ping_ts + 1 THEN t.ping_ts + 1 ELSE now
             u == [t EXCEPT !.at = "sleep", !.ping_ts = ts]
  <2>1. UNCHANGED <<now, cm, pinged>> /\ Set(c, u) /\ t.at = "wait"
    BY <1>8 DEF wait_ping, At
  <2>2. ts \in Nat /\ ts \in Time
    BY <1>0, <2>1 DEF ThreadOK, Thread, Stage, Time
  <2> HIDE DEF ts
  <2>3. u \in Thread /\ Fields(u, "sleep", t.install_ts, ts, t.record_ping)
    BY <1>0, <2>2, Zenon DEF Thread, Stage
  <2> HIDE DEF u
  <2>4. ThreadOK(u, pinged)
    BY <1>0, <2>1, <2>2, <2>3 DEF ThreadOK, Thread, Time
  <2>5. QED BY <1>0, <2>1, <2>4, OneThread DEF MapOK
<1>9. CASE send_ping(c)
  <2> DEFINE u == [t EXCEPT !.at = "once", !.record_ping = TRUE]
  <2>1. UNCHANGED <<now, cm>> /\ Set(c, u) /\ t.at = "sleep"
        /\ pinged' = pinged \cup {t.ping_ts}
    BY <1>9 DEF send_ping, At
  <2>2. u \in Thread /\ Fields(u, "once", t.install_ts, t.ping_ts, TRUE)
    BY <1>0, Zenon DEF Thread, Stage
  <2> HIDE DEF u
  <2>3. ThreadOK(u, pinged')
    BY <1>0, <2>1, <2>2 DEF ThreadOK, Thread, Time
  <2>4. QED BY <1>0, <2>1, <2>3, OneThread DEF MapOK
<1>10. CASE PingFails(c)
  <2> DEFINE u == [t EXCEPT !.at = "once", !.seen = NoThread.seen]
  <2>1. UNCHANGED <<now, pinged>> /\ Set(c, u)
    BY <1>10 DEF PingFails
  <2>2. cm' = cm \/ (t.at \in {"putInstall", "putPing"} /\ cm' = Written(t))
    BY <1>10 DEF PingFails
  <2>3. u \in Thread /\ Fields(u, "once", t.install_ts, t.ping_ts, t.record_ping)
    BY <1>0, Zenon DEF Thread, Stage
  <2>4. MapOK'
    BY <1>0, <2>1, <2>2, WrittenMap DEF MapOK
  <2> HIDE DEF u
  <2>5. ThreadOK(u, pinged)
    BY <1>0, <2>1, <2>3 DEF ThreadOK, Thread, Time
  <2>6. QED BY <1>0, <2>1, <2>4, <2>5, OneThread
<1>11. QED BY <1>1, <1>2, <1>3, <1>4, <1>5, <1>6, <1>7, <1>8, <1>9, <1>10 DEF PingThread

\* Every step of the process keeps the invariant.
LEMMA PingStepInv == PingInv /\ [Next]_vars => PingInv'
<1> SUFFICES ASSUME PingInv, [Next]_vars PROVE PingInv'
  OBVIOUS
<1>1. CASE UNCHANGED pingVars
  BY <1>1 DEF pingVars, PingInv, MapOK, ThreadOK
<1>2. CASE Tick
  BY <1>2 DEF Tick, PingInv, MapOK, ThreadOK
<1>3. CASE \E c \in Controller : PingThread(c) \/ PingFails(c) \/ KillPing(c)
  BY <1>3, ThreadStep
<1>4. QED BY <1>1, <1>2, <1>3 DEF Next, NodePlugin, ControllerPlugin, PingStep, vars

\* The inductive invariant holds.
LEMMA PingInductive == Spec => []PingInv
<1>0. ThreadOK(NoThread, pinged)
  BY PingAssumption DEF ThreadOK, Thread, Stage, Map, Time, NoThread
<1>1. Init => PingInv
  <2> SUFFICES ASSUME Init PROVE PingInv
    OBVIOUS
  <2>1. now \in Nat /\ MapOK
    BY DEF Init, PingInit, MapOK, Map, Time
  <2>2. ping = [c \in Controller |-> NoThread]
    BY DEF Init, PingInit
  <2>3. QED BY <1>0, <2>1, <2>2 DEF PingInv
<1>2. QED BY <1>1, PingStepInv, PTL DEF Spec

\* last-ping-ts is the time of a ping that was sent, for any number of
\* controllers, failures and kills (LastPingWasSent).
THEOREM PingRecorded == Spec => []LastPingWasSent
<1>1. PingInv => LastPingWasSent
  BY DEF PingInv, MapOK, LastPingWasSent
<1>2. QED BY <1>1, PingInductive, PTL

\* install-ts is written once by any number of controllers (InstallTsStable).
THEOREM InstalledOnce == Spec => InstallTsStable
<1> DEFINE Stable == cm.install # Never => cm'.install = cm.install
<1>1. ASSUME PingInv, [Next]_vars PROVE [Stable]_pingVars
  <2> SUFFICES ASSUME Next PROVE Stable \/ UNCHANGED pingVars
    BY <1>1 DEF vars
  <2>1. CASE UNCHANGED cm
    BY <2>1
  <2>2. ASSUME NEW c \in Controller, ping[c].at \in {"putInstall", "putPing"},
               cm' = Written(ping[c])
        PROVE  Stable
    BY <1>1, <2>2, WrittenMap
  <2>3. QED
    BY <2>1, <2>2, Zenon DEF Next, NodePlugin, ControllerPlugin, PingStep, PingThread, Tick,
       run_ping, send_install_once, send_install, GetConfigMap, PutInstall, PutPing, Loop,
       wait_ping, send_ping, PingFails, KillPing
<1>2. QED BY <1>1, PingInductive, PTL DEF Spec, InstallTsStable

-----------------------------------------------------------------------------
(* The start of the node plugin: the inductive invariant *)

\* The metadata of v is what the migrations are to make of it; they did not raise.
Final(v)   == new[v] = Migrated(first[v], v \in image)
Done(v)    == Final(v) /\ Migratable(first[v])

FilesInv ==
  /\ old = [f \in File |-> old[f]] /\ new = [f \in File |-> new[f]]
  /\ \A v \in Volume : first[v] \in Metadata
  /\ \A f \in File : old[f] \in {first[f], Absent}

\* What is in the metadata directory that is not a copy was migrated there.
SourceInv == \A v \in Volume : new[v] \in {Absent, Torn, first[v]} \/ Done(v)

\* What the move of a file has reached, and who moves it.
MoveInv ==
  \/ moving = NotMoving
  \/ \E f \in todo :
       /\ pc = (IF f = Tasks THEN "tasks" ELSE "move")
       /\ \/ moving = <<f, "write">> /\ old[f] = first[f]
          \/ moving = <<f, "unlink">> /\ new[f] = first[f]
          \/ moving = <<f, "rest">> /\ new[f] = first[f] /\ old[f] = Absent

\* What each loop has done with the volumes it no longer lists.
LoopInv ==
  /\ pc = "move" => \A v \in Volume \ todo : old[v] = Absent
  /\ pc \in {"schema", "tasks", "start", "serving"} => \A v \in Volume : old[v] = Absent
  /\ pc = "schema" => \A v \in Volume \ todo : Done(v)
  /\ pc \in {"tasks", "start", "serving"} => \A v \in Volume : Done(v)
  /\ pc = "tasks" /\ Tasks \notin todo => old[Tasks] = Absent
  /\ pc \in {"start", "serving"} => old[Tasks] = Absent

StartupInv ==
  todo \subseteq File /\ FilesInv /\ SourceInv /\ NeverWithoutCopy /\ MoveInv /\ LoopInv

-----------------------------------------------------------------------------
(* The invariant holds *)

\* A volume's metadata is never one of the special values.
LEMMA Distinct ==
  ASSUME FilesInv
  PROVE  \A v \in Volume : /\ first[v] # Absent /\ first[v] # Torn /\ v # Tasks /\ v \in File
                           /\ Migrated(first[v], v \in image) \in Metadata
                           /\ Migrated(first[v], v \in image) # Absent
                           /\ Migrated(first[v], v \in image) # Torn
<1> TAKE v \in Volume
<1>1. first[v] \in Metadata /\ (v \in image) \in BOOLEAN
  BY DEF FilesInv
<1>2. Migrated(first[v], v \in image) \in Metadata
  BY <1>1, MigratedIsFinal, Zenon
<1>3. QED BY <1>1, <1>2, StartupAssumption, Zenon DEF File

\* The states before the first start satisfy the invariant.
LEMMA InitInv == Init => StartupInv
<1> SUFFICES ASSUME Init PROVE StartupInv
  OBVIOUS
<1>1. PICK data \in [Volume -> UNION {FirstData[v] : v \in Volume}], saved \in {Absent, "saved"} :
        /\ first = [f \in File |-> IF f = Tasks THEN saved ELSE data[f]]
        /\ \A v \in Volume : data[v] \in FirstData[v]
  BY DEF Init, StartupInit
<1>2. \A v \in Volume : first[v] \in Metadata
  BY <1>1, StartupAssumption, Zenon DEF File
<1>3. PICK moved \in SUBSET File : Placed(moved)
  BY DEF Init, StartupInit
<1>4. FilesInv
  BY <1>2, <1>3 DEF FilesInv, Placed
<1>5. NeverWithoutCopy /\ SourceInv
  BY <1>3 DEF NeverWithoutCopy, SourceInv, Placed, File
<1>6. todo \subseteq File /\ MoveInv /\ LoopInv
  BY DEF Init, StartupInit, MoveInv, LoopInv
<1>7. QED BY <1>4, <1>5, <1>6 DEF StartupInv

\* The start before the loops, and a kill, leave every file whole.
LEMMA EarlyStep ==
  ASSUME StartupInv, gc_all_volumes \/ InitTaskManager \/ CheckDirectories \/ StartFails \/ Kill
  PROVE  StartupInv'
<1>1. CASE gc_all_volumes \/ StartFails \/ Kill
  <2>1. MoveInv /\ pc = "down" => moving = NotMoving
    BY DEF MoveInv
  <2>2. UNCHANGED diskVars /\ pc' \in {"down", "init"} /\ moving' = NotMoving /\ todo' \in {todo, {}}
    BY <1>1, <2>1 DEF StartupInv, gc_all_volumes, StartFails, Kill, Exit, Goto
  <2>3. MoveInv' /\ LoopInv'
    BY <2>2 DEF MoveInv, LoopInv
  <2>4. QED
    BY <2>2, <2>3, Zenon DEF StartupInv, FilesInv, SourceInv, NeverWithoutCopy, diskVars, Final, Done
<1>2. CASE InitTaskManager
  <2>1. UNCHANGED <<first, image, old, todo, moving>> /\ pc = "init" /\ pc' = "check"
    BY <1>2 DEF InitTaskManager, Goto
  <2>2. \A v \in Volume : new'[v] = new[v]
    BY <1>2, Distinct DEF StartupInv, FilesInv, InitTaskManager
  <2>3. FilesInv' /\ SourceInv'
    BY <1>2, <2>1, <2>2 DEF StartupInv, FilesInv, SourceInv, Done, Final, InitTaskManager
  <2>4. NeverWithoutCopy'
    <3>1. old[Tasks] = first[Tasks] \/ new'[Tasks] = first[Tasks]
      BY <1>2, StartupAssumption, Zenon DEF StartupInv, FilesInv, NeverWithoutCopy,
         InitTaskManager, File
    <3>2. QED BY <2>1, <2>2, <3>1, Zenon DEF StartupInv, NeverWithoutCopy, File
  <2>5. MoveInv' /\ LoopInv'
    BY <2>1 DEF StartupInv, MoveInv, LoopInv, NotMoving
  <2>6. QED BY <2>1, <2>3, <2>4, <2>5 DEF StartupInv
<1>3. CASE CheckDirectories
  <2>1. UNCHANGED <<first, image, old, new, moving>> /\ pc = "check" /\ pc' = "move"
        /\ todo' = Volumes(old)
    BY <1>3 DEF CheckDirectories, Goto, diskVars
  <2>2. todo' \subseteq File
    BY <2>1 DEF Volumes, File
  <2>3. FilesInv' /\ SourceInv' /\ NeverWithoutCopy'
    BY <2>1 DEF StartupInv, FilesInv, SourceInv, Done, Final, NeverWithoutCopy
  <2>4. MoveInv'
    BY <2>1 DEF StartupInv, MoveInv, NotMoving
  <2>5. LoopInv'
    BY <2>1 DEF LoopInv, Volumes
  <2>6. QED BY <2>2, <2>3, <2>4, <2>5 DEF StartupInv
<1>4. QED BY <1>1, <1>2, <1>3

\* The move of a file: a whole copy is in place before the source goes.
LEMMA MoveStep ==
  ASSUME StartupInv, NEW f \in File, MoveFile(f)
  PROVE  StartupInv'
<1>1. UNCHANGED <<pc, first, image>> /\ pc = (IF f = Tasks THEN "tasks" ELSE "move")
  BY DEF MoveFile
<1>2. \A v \in Volume : v # Tasks
  BY StartupAssumption, Zenon
<1>3. CASE OpenCopy(f)
  <2>1. /\ f \in todo /\ old[f] = first[f] /\ UNCHANGED <<old, todo>> /\ moving' = <<f, "write">>
        /\ new' = [new EXCEPT ![f] = Torn]
    BY <1>3 DEF OpenCopy, StartupInv, FilesInv
  <2>2. FilesInv' /\ NeverWithoutCopy'
    BY <1>1, <2>1 DEF StartupInv, FilesInv, NeverWithoutCopy
  <2>s. SourceInv'
    BY <1>1, <2>1 DEF StartupInv, FilesInv, SourceInv, Done, Final
  <2>3. MoveInv'
    BY <1>1, <2>1 DEF MoveInv
  <2>4. LoopInv'
    BY <1>1, <1>2, <2>1, SMTT(30) DEF StartupInv, FilesInv, LoopInv, Done, Final
  <2>5. QED BY <2>1, <2>2, <2>s, <2>3, <2>4 DEF StartupInv
<1>4. CASE WriteCopy(f)
  <2>1. /\ f \in todo /\ old[f] = first[f] /\ UNCHANGED <<old, todo>> /\ moving' = <<f, "unlink">>
        /\ new' = [new EXCEPT ![f] = old[f]]
    BY <1>4 DEF WriteCopy, StartupInv, MoveInv, NotMoving
  <2>2. FilesInv' /\ NeverWithoutCopy'
    BY <1>1, <2>1 DEF StartupInv, FilesInv, NeverWithoutCopy
  <2>s. SourceInv'
    BY <1>1, <2>1 DEF StartupInv, FilesInv, SourceInv, Done, Final
  <2>3. MoveInv'
    BY <1>1, <2>1 DEF StartupInv, FilesInv, MoveInv
  <2>4. LoopInv'
    BY <1>1, <1>2, <2>1 DEF StartupInv, FilesInv, LoopInv, Done, Final
  <2>5. QED BY <2>1, <2>2, <2>s, <2>3, <2>4 DEF StartupInv
<1>5. CASE UnlinkSource(f)
  <2>1. /\ f \in todo /\ new[f] = first[f] /\ UNCHANGED <<new, todo>> /\ moving' = <<f, "rest">>
        /\ old' = [old EXCEPT ![f] = Absent]
    BY <1>5 DEF UnlinkSource, StartupInv, MoveInv, NotMoving
  <2>2. FilesInv' /\ NeverWithoutCopy'
    BY <1>1, <2>1 DEF StartupInv, FilesInv, NeverWithoutCopy
  <2>s. SourceInv'
    BY <1>1, <2>1 DEF StartupInv, FilesInv, SourceInv, Done, Final
  <2>3. MoveInv'
    BY <1>1, <2>1 DEF StartupInv, FilesInv, MoveInv
  <2>4. LoopInv'
    BY <1>1, <1>2, <2>1 DEF StartupInv, FilesInv, LoopInv, Done, Final
  <2>5. QED BY <2>1, <2>2, <2>s, <2>3, <2>4 DEF StartupInv
<1>6. QED BY <1>3, <1>4, <1>5 DEF MoveFile

\* The end of a file's move takes it from the list.
LEMMA RestStep ==
  ASSUME StartupInv, NEW f \in File, MoveRest(f)
  PROVE  StartupInv'
<1>1. /\ UNCHANGED <<pc, first, image, old, new>> /\ todo' = todo \ {f} /\ moving' = NotMoving
      /\ pc = (IF f = Tasks THEN "tasks" ELSE "move") /\ old[f] = Absent
  BY DEF MoveRest, StartupInv, MoveInv, NotMoving
<1>2. FilesInv' /\ NeverWithoutCopy' /\ MoveInv'
  BY <1>1, SMTT(30) DEF StartupInv, FilesInv, NeverWithoutCopy, MoveInv
<1>3. SourceInv' /\ LoopInv'
  BY <1>1 DEF StartupInv, SourceInv, LoopInv, Done, Final
<1>4. QED BY <1>1, <1>2, <1>3 DEF StartupInv

\* After the moves every volume is in place, and is listed for its migration.
LEMMA ListStep ==
  ASSUME StartupInv, ListVolumes
  PROVE  StartupInv'
<1>1. /\ UNCHANGED <<first, image, old, new, moving>> /\ pc = "move" /\ pc' = "schema"
      /\ todo = {} /\ todo' = Volumes(new)
  BY DEF ListVolumes, Goto, diskVars
<1>2. \A v \in Volume : old[v] = Absent
  BY <1>1 DEF StartupInv, LoopInv
<1>3. \A v \in Volume : new[v] # Absent
  BY <1>2, Distinct, Zenon DEF StartupInv, NeverWithoutCopy
<1>4. todo' = Volume
  BY <1>1, <1>3 DEF Volumes
<1>5. todo' \subseteq File
  BY <1>4 DEF File
<1>6. FilesInv' /\ SourceInv' /\ NeverWithoutCopy'
  BY <1>1 DEF StartupInv, FilesInv, SourceInv, Done, Final, NeverWithoutCopy
<1>7. MoveInv'
  BY <1>1 DEF StartupInv, MoveInv
<1>8. LoopInv'
  BY <1>1, <1>2, <1>4 DEF LoopInv
<1>9. QED BY <1>5, <1>6, <1>7, <1>8 DEF StartupInv

\* A volume is migrated once: a second time changes nothing.
LEMMA SchemaStep ==
  ASSUME StartupInv, NEW v \in Volume, migrate_metadata(v)
  PROVE  StartupInv'
<1>1. /\ UNCHANGED <<pc, first, image, old, moving>> /\ pc = "schema" /\ todo' = todo \ {v}
      /\ new' = [new EXCEPT ![v] = migrate_to(new[v], v \in image)]
      /\ new[v].schema_version <= LATEST_SCHEMA_VERSION /\ Migratable(new[v])
  BY DEF migrate_metadata, Migratable
<1>2. first[v] \in Metadata /\ (v \in image) \in BOOLEAN
  BY SMTT(30) DEF StartupInv, FilesInv
<1>3. old[v] # first[v]
  BY <1>1, Distinct DEF StartupInv, LoopInv
<1>4. new[v] = first[v] \/ Final(v)
  BY <1>3 DEF StartupInv, NeverWithoutCopy, File, Final
<1>5. migrate_to(new[v], v \in image) = Migrated(first[v], v \in image)
  <2>1. CASE new[v] = first[v]
    BY <1>1, <1>2, <2>1, MigrateIsMigrated, Zenon
  <2>2. CASE Final(v)
    BY <1>2, <2>2, MigratedIsFinal, Zenon DEF Final
  <2>3. QED BY <1>4, <2>1, <2>2
<1>6. new' = [new EXCEPT ![v] = Migrated(first[v], v \in image)]
  BY <1>1, <1>5, Zenon
<1>m. Migratable(first[v])
  BY <1>1, <1>4, Distinct DEF StartupInv, SourceInv, Done, Final
<1>7. FilesInv' /\ SourceInv'
  BY <1>1, <1>6, <1>m, ZenonT(30) DEF StartupInv, FilesInv, SourceInv, Done, Final, File
<1>8. NeverWithoutCopy'
  BY <1>1, <1>6 DEF StartupInv, FilesInv, NeverWithoutCopy, File
<1>9. MoveInv'
  BY <1>1 DEF StartupInv, MoveInv
<1>10. LoopInv'
  BY <1>1, <1>6, <1>m DEF StartupInv, FilesInv, LoopInv, Done, Final, File
<1>11. QED BY <1>1, <1>7, <1>8, <1>9, <1>10 DEF StartupInv

\* The end of the start changes no volume.
LEMMA LateStep ==
  ASSUME StartupInv, migrate_tasks_file_path \/ is_cow_supported \/ StartServers
  PROVE  StartupInv'
<1>1. UNCHANGED <<first, image, old, new, moving>>
  BY DEF migrate_tasks_file_path, is_cow_supported, StartServers, diskVars
<1>2. \/ /\ pc = "schema" /\ pc' = "tasks" /\ todo = {}
         /\ todo' = IF old[Tasks] = Absent THEN {} ELSE {Tasks}
      \/ pc = "tasks" /\ pc' = "start" /\ todo = {} /\ todo' = {}
      \/ pc = "start" /\ pc' = "serving" /\ todo' = todo
  BY DEF migrate_tasks_file_path, is_cow_supported, StartServers, Goto
<1>3. todo' \subseteq File
  BY <1>2 DEF StartupInv, File
<1>4. FilesInv' /\ SourceInv' /\ NeverWithoutCopy'
  BY <1>1 DEF StartupInv, FilesInv, SourceInv, Done, Final, NeverWithoutCopy
<1>5. MoveInv'
  BY <1>1, <1>2, SMTT(30) DEF StartupInv, MoveInv
<1>6. LoopInv'
  BY <1>1, <1>2 DEF StartupInv, LoopInv, Done, Final
<1>7. QED BY <1>3, <1>4, <1>5, <1>6, SMTT(30) DEF StartupInv

\* Every step of the process keeps the invariant.
LEMMA StepInv == StartupInv /\ [Next]_vars => StartupInv'
<1> SUFFICES ASSUME StartupInv, [Next]_vars PROVE StartupInv'
  BY SMTT(30)
<1>1. CASE UNCHANGED startupVars
  BY <1>1 DEF startupVars, diskVars, StartupInv, FilesInv, SourceInv, NeverWithoutCopy, MoveInv,
     LoopInv, Done, Final, NotMoving
<1>2. CASE StartupStep \/ Kill
  BY <1>2, EarlyStep, MoveStep, RestStep, ListStep, SchemaStep, LateStep DEF StartupStep
<1>3. QED BY <1>1, <1>2 DEF Next, NodePlugin, ControllerPlugin, vars

\* The inductive invariant holds.
LEMMA Inductive == Spec => []StartupInv
<1>1. QED BY InitInv, StepInv, PTL DEF Spec

\* At any time, also between two kills, disk.meta of every volume and tasks.json
\* have a whole copy in the old or in the new place (NeverWithoutCopy).
THEOREM NoFileLost == Spec => []NeverWithoutCopy
<1>1. StartupInv => NeverWithoutCopy
  BY DEF StartupInv
<1>2. QED BY <1>1, Inductive, PTL

\* A node plugin that serves has moved every file and applied every migration
\* exactly once, whatever starts were interrupted before; with a volume that cannot
\* be migrated it never serves (ServesMigrated).
THEOREM MigratedOnce == Spec => []ServesMigrated
<1>1. StartupInv => ServesMigrated
  <2> SUFFICES ASSUME StartupInv, pc = "serving" PROVE ServesMigrated
    BY DEF ServesMigrated
  <2>1. \A f \in File : old[f] = Absent
    BY DEF StartupInv, LoopInv, File
  <2>2. \A v \in Volume : Migratable(first[v]) /\ new[v] = Migrated(first[v], v \in image)
    BY Zenon DEF StartupInv, LoopInv, Done, Final
  <2>3. first[Tasks] = "saved" => new[Tasks] = "saved"
    BY <2>1, StartupAssumption, Zenon DEF StartupInv, NeverWithoutCopy, File
  <2>4. QED BY <2>1, <2>2, <2>3 DEF ServesMigrated
<1>2. QED BY <1>1, Inductive, PTL

-----------------------------------------------------------------------------
(* disk.meta, which the migrations write through update_metadata.  TypeOK of   *)
(* MetadataFile is inductive: it says what a rename makes visible (tmp = obj)  *)
(* and what it can leave behind (synced), all that the refinement needs.       *)

\* The types hold at the start.
LEMMA FileInitType == FileInit => TypeOK
  BY FileAssumption, Zenon DEF FileInit, TypeOK, Content

\* Every step keeps them.
LEMMA FileStepType == TypeOK /\ [FileNext]_updateVars => TypeOK'
<1> SUFFICES ASSUME TypeOK, [FileNext]_updateVars PROVE TypeOK'
  OBVIOUS
<1>1. ASSUME NEW v \in Value, UpdateMetadata(v) PROVE TypeOK'
  BY <1>1, FileAssumption DEF TypeOK, UpdateMetadata, Content
<1>2. CASE OpenTmp
  BY <1>2, Zenon DEF TypeOK, OpenTmp, Content
<1>3. CASE Dump
  BY <1>3 DEF TypeOK, Dump, Content
<1>4. CASE Sync
  BY <1>4 DEF TypeOK, Sync, Content
<1>5. CASE Replace
  BY <1>5 DEF TypeOK, Replace, Content
<1>6. CASE SyncDir
  BY <1>6 DEF TypeOK, SyncDir, Content
<1>7. CASE Fail
  BY <1>7 DEF TypeOK, Fail, Content
<1>8. CASE PowerFailure
  BY <1>8, Zenon DEF TypeOK, PowerFailure, Content
<1>9. CASE UNCHANGED updateVars
  BY <1>9 DEF TypeOK, updateVars, Content
<1> QED
  BY <1>1, <1>2, <1>3, <1>4, <1>5, <1>6, <1>7, <1>8, <1>9 DEF FileNext

\* update_metadata never shows, and a power failure never leaves, a disk.meta
\* that is not one of the objects written (or absent).
THEOREM NeverTorn == FileSpec => []TypeOK
  BY FileInitType, FileStepType, PTL DEF FileSpec

\* Every step is a step of the atomic file, or leaves it as it is.
LEMMA UpdateStep == TypeOK /\ [FileNext]_updateVars => [Atomic!Next]_(Atomic!fileVars)
<1> SUFFICES ASSUME TypeOK, [FileNext]_updateVars PROVE [Atomic!Next]_(Atomic!fileVars)
  OBVIOUS
<1> USE DEF Atomic!fileVars, Atomic!Next
<1>1. ASSUME NEW v \in Value, UpdateMetadata(v) PROVE Atomic!Begin(v)
  BY <1>1 DEF TypeOK, UpdateMetadata, Atomic!Begin
<1>2. CASE OpenTmp \/ Dump \/ Sync
  BY <1>2 DEF OpenTmp, Dump, Sync
<1>3. CASE Replace
  BY <1>3 DEF TypeOK, Replace, Atomic!Commit
<1>4. CASE SyncDir
  BY <1>4 DEF TypeOK, SyncDir, Atomic!Return
<1>5. CASE Fail
  BY <1>5 DEF Fail, Atomic!Abandon
<1>6. CASE PowerFailure
  BY <1>6 DEF PowerFailure, Atomic!PowerFailure
<1>7. CASE UNCHANGED updateVars
  BY <1>7 DEF updateVars
<1> QED
  BY <1>1, <1>2, <1>3, <1>4, <1>5, <1>6, <1>7 DEF FileNext

\* The five steps of update_metadata, taken with its failures, kills and power
\* failures, implement an atomic and durable file.
THEOREM Implements == FileSpec => ImplementsAtomicFile
<1>1. FileInit => Atomic!Init
  BY DEF FileInit, Atomic!Init
<1> QED
  BY <1>1, NeverTorn, UpdateStep, PTL DEF FileSpec, ImplementsAtomicFile, Atomic!Spec

=============================================================================

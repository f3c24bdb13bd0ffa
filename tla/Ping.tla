-------------------------------- MODULE Ping --------------------------------
(***************************************************************************)
(* The usage reports of the controller plugin (analytics/ga4/ping.py): an  *)
(* install event, then a ping per interval, with the times kept in the     *)
(* ConfigMap rawfile-config.  While the deployment is updated there are    *)
(* two controllers.  Time is counted in intervals.  Every call to          *)
(* Kubernetes or to the collector may fail, whether or not it had effect.  *)
(***************************************************************************)
EXTENDS Naturals

CONSTANTS
  Controller,
  Never,       \* no time
  MaxTime      \* bound

ASSUME PingAssumption == Never \notin Nat /\ MaxTime \in Nat

VARIABLES
  now,
  cm,       \* the ConfigMap: install-ts and last-ping-ts
  ping,     \* the thread of each controller: see NoThread
  pinged    \* times of the pings that were sent, as their sender counts

pingVars == <<now, cm, ping, pinged>>

\* at: the next step of run.
NoThread ==
  [at |-> "down", install_ts |-> Never, installed |-> FALSE, ping_ts |-> Never,
   record_ping |-> FALSE, seen |-> [install |-> Never, last |-> Never]]

Set(c, t) == ping' = [ping EXCEPT ![c] = t]
At(c, st) == ping[c].at = st

run_ping(c) ==
  /\ At(c, "down") /\ Set(c, [NoThread EXCEPT !.at = "once"])
  /\ UNCHANGED <<now, cm, pinged>>

\* send_install_once up to its first effect
send_install_once(c) ==
  LET t == ping[c] IN
  /\ t.at = "once"
  /\ IF t.ping_ts # Never THEN Set(c, [t EXCEPT !.at = "loop"])
     ELSE IF cm.install # Never
       THEN Set(c, [t EXCEPT !.at = "loop", !.install_ts = cm.install, !.installed = TRUE,
                             !.ping_ts = IF cm.last # Never THEN cm.last ELSE cm.install])
       ELSE Set(c, [t EXCEPT !.at = IF t.installed THEN "getInstall" ELSE "install",
                             !.install_ts = IF @ = Never THEN now ELSE @])
  /\ UNCHANGED <<now, cm, pinged>>

send_install(c) ==
  /\ At(c, "install")
  /\ Set(c, [ping[c] EXCEPT !.at = "getInstall", !.installed = TRUE])
  /\ UNCHANGED <<now, cm, pinged>>

\* write_config_map: it reads the map, and writes it unless it has the key.  The
\* write fails if the map was created or changed meanwhile.
GetConfigMap(c) ==
  /\ ping[c].at \in {"getInstall", "getPing"}
  /\ Set(c, [ping[c] EXCEPT !.at = IF @ = "getInstall" THEN "putInstall" ELSE "putPing", !.seen = cm])
  /\ UNCHANGED <<now, cm, pinged>>

\* Variant: what was read is not compared.
WrittenBlind(t) ==
  IF t.at = "putPing" THEN [cm EXCEPT !.last = t.ping_ts]
  ELSE IF t.seen.install = Never THEN [cm EXCEPT !.install = t.install_ts] ELSE cm

\* The map after the write, or the map as it is if there is nothing to write or
\* the write is refused.
Written(t) ==
  IF cm # t.seen THEN cm
  ELSE IF t.at = "putPing" THEN [cm EXCEPT !.last = t.ping_ts]
  ELSE IF t.seen.install = Never THEN [cm EXCEPT !.install = t.install_ts] ELSE cm

PutInstall(c) ==
  LET t == ping[c] IN
  /\ t.at = "putInstall" /\ (cm = t.seen \/ t.seen.install # Never)
  /\ cm' = Written(t)
  /\ Set(c, [t EXCEPT !.at = "loop", !.ping_ts = t.install_ts, !.seen = NoThread.seen])
  /\ UNCHANGED <<now, pinged>>

PutPing(c) ==
  LET t == ping[c] IN
  /\ t.at = "putPing" /\ cm = t.seen
  /\ cm' = Written(t)
  /\ Set(c, [t EXCEPT !.at = "wait", !.record_ping = FALSE, !.seen = NoThread.seen])
  /\ UNCHANGED <<now, pinged>>

\* run after send_install_once: the last ping is written first, if it is not yet.
Loop(c) ==
  /\ At(c, "loop")
  /\ Set(c, [ping[c] EXCEPT !.at = IF ping[c].record_ping THEN "getPing" ELSE "wait"])
  /\ UNCHANGED <<now, cm, pinged>>

\* refresh and wait_ping: at the next multiple, or now if that is over.
wait_ping(c) ==
  LET target == ping[c].ping_ts + 1 IN
  /\ At(c, "wait")
  /\ Set(c, [ping[c] EXCEPT !.at = "sleep", !.ping_ts = IF now < target THEN target ELSE now])
  /\ UNCHANGED <<now, cm, pinged>>

\* Variant: the ping is to be recorded also when sending it fails.
send_pingRecorded(c) ==
  /\ At(c, "sleep") /\ ping[c].ping_ts <= now
  /\ Set(c, [ping[c] EXCEPT !.at = "once", !.record_ping = TRUE])
  /\ pinged' \in {pinged, pinged \cup {ping[c].ping_ts}}
  /\ UNCHANGED <<now, cm>>

send_ping(c) ==
  /\ At(c, "sleep") /\ ping[c].ping_ts <= now
  /\ Set(c, [ping[c] EXCEPT !.at = "once", !.record_ping = TRUE])
  /\ pinged' = pinged \cup {ping[c].ping_ts}
  /\ UNCHANGED <<now, cm>>

\* An exception of any of the calls, after it was carried out or not; the thread
\* pauses for an hour and goes on.
PingFails(c) ==
  /\ ping[c].at \in {"once", "install", "getInstall", "putInstall", "getPing", "putPing", "wait", "sleep"}
  /\ At(c, "sleep") => ping[c].ping_ts <= now
  /\ cm' \in {cm, IF ping[c].at \in {"putInstall", "putPing"} THEN Written(ping[c]) ELSE cm}
  /\ Set(c, [ping[c] EXCEPT !.at = "once", !.seen = NoThread.seen])
  /\ UNCHANGED <<now, pinged>>

KillPing(c) ==
  /\ ~At(c, "down") /\ Set(c, NoThread)
  /\ UNCHANGED <<now, cm, pinged>>

Tick == now < MaxTime /\ now' = now + 1 /\ UNCHANGED <<cm, ping, pinged>>

PingInit ==
  /\ now = 0 /\ cm = [install |-> Never, last |-> Never]
  /\ ping = [c \in Controller |-> NoThread] /\ pinged = {}

PingThread(c) ==
  \/ run_ping(c) \/ send_install_once(c) \/ send_install(c) \/ GetConfigMap(c)
  \/ PutInstall(c) \/ PutPing(c) \/ Loop(c) \/ wait_ping(c) \/ send_ping(c)

PingStep == (\E c \in Controller : PingThread(c) \/ PingFails(c) \/ KillPing(c)) \/ Tick

-----------------------------------------------------------------------------
(* Properties *)

\* The time of the installation is written once, though two controllers may find
\* it missing at the same time and write it more than an interval later.
InstallTsStable == [][cm.install # Never => cm'.install = cm.install]_pingVars

\* last-ping-ts, "allowing us to stay accurate even across restarts", is always
\* the time of a ping that was sent, never that of one that failed.
LastPingWasSent == cm.last \in pinged \cup {Never}

=============================================================================

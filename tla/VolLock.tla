------------------------------ MODULE VolLock ------------------------------
(***************************************************************************)
(* The per-volume lock (rawfile/utils/lock.py) of one volume: an exclusive *)
(* flock on <metadata_dir>/<volume>/disk.lock, taken without waiting.  A   *)
(* lock belongs to the file that was opened, not to the name: the name may *)
(* meanwhile be gone or stand for a newer file.                            *)
(***************************************************************************)
EXTENDS Naturals, FiniteSets

CONSTANTS
  Thread,         \* threads that use the lock, one operation at a time each
  ClearOnRelease  \* clear_on_release: unlink the file after unlocking it

NoFile == 0

\* Identities of files: as many as threads can have open, one more for the name.
File == 1 .. (Cardinality(Thread) + 1)

ASSUME LockAssumption == IsFiniteSet(Thread) /\ ClearOnRelease \in BOOLEAN

VARIABLES
  path,   \* the file named disk.lock, NoFile when there is none
  fd,     \* the file each thread has open
  lk      \* where each thread is: out, opened, in, clearing

lockVars == <<path, fd, lk>>

Unused(f) == f # path /\ \A t \in Thread : fd[t] # f

\* VolLock(volume_id): touch, then open for appending; either creates the file.
Open(t) ==
  /\ lk[t] = "out" /\ lk' = [lk EXCEPT ![t] = "opened"]
  /\ \E f \in File :
       /\ IF path = NoFile THEN Unused(f) ELSE f = path
       /\ path' = f /\ fd' = [fd EXCEPT ![t] = f]

\* Variant: flock always succeeds.
AcquireAnyway(t) ==
  /\ lk[t] = "opened"
  /\ lk' = [lk EXCEPT ![t] = "in"]
  /\ UNCHANGED <<path, fd>>

Locked(f) == \E t \in Thread : lk[t] = "in" /\ fd[t] = f

\* __enter__: flock(LOCK_EX | LOCK_NB) on the open file.
Acquire(t) ==
  /\ lk[t] = "opened" /\ ~Locked(fd[t])
  /\ lk' = [lk EXCEPT ![t] = "in"]
  /\ UNCHANGED <<path, fd>>

\* It raises BlockingIOError; the object is dropped, which closes the file.
Busy(t) ==
  /\ lk[t] = "opened" /\ Locked(fd[t])
  /\ lk' = [lk EXCEPT ![t] = "out"] /\ fd' = [fd EXCEPT ![t] = NoFile]
  /\ UNCHANGED path

\* __exit__: unlock and close, then unlink whatever file has the name.
Release(t) ==
  /\ lk[t] = "in" /\ fd' = [fd EXCEPT ![t] = NoFile]
  /\ lk' = [lk EXCEPT ![t] = IF ClearOnRelease THEN "clearing" ELSE "out"]
  /\ UNCHANGED path

Clear(t) ==
  /\ lk[t] = "clearing" /\ path' = NoFile
  /\ lk' = [lk EXCEPT ![t] = "out"]
  /\ UNCHANGED fd

LockInit ==
  /\ path = NoFile
  /\ fd = [t \in Thread |-> NoFile] /\ lk = [t \in Thread |-> "out"]

LockNext ==
  \E t \in Thread : Open(t) \/ Acquire(t) \/ Busy(t) \/ Release(t) \/ Clear(t)

LockSpec == LockInit /\ [][LockNext]_lockVars

-----------------------------------------------------------------------------

\* Types, and that a thread has a file open exactly between Open and Release.
LockTypeOK ==
  /\ path \in File \cup {NoFile}
  /\ fd \in [Thread -> File \cup {NoFile}]
  /\ lk \in [Thread -> {"out", "opened", "in", "clearing"}]
  /\ \A t \in Thread : lk[t] \in {"opened", "in"} <=> fd[t] # NoFile

\* rawfile/utils/lock.py: "This can be used to ensure there's only 1 operation
\* running at a time for a given volume."
Exclusive == \A s, t \in Thread : lk[s] = "in" /\ lk[t] = "in" => s = t

=============================================================================

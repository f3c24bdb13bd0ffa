---------------------------- MODULE MetadataFile ----------------------------
(***************************************************************************)
(* update_metadata of rawfile/utils/rawfile.py: how the metadata of a      *)
(* volume gets into disk.meta, through disk.meta.tmp, fsync, os.replace    *)
(* and fsync of the directory, by one updating thread at a time.  The      *)
(* steps differ in what a reader finds, and in what is left when the       *)
(* process is killed or the node loses power.                              *)
(***************************************************************************)
CONSTANTS
  Value,    \* metadata objects
  NoFile,   \* there is no file
  TornFile  \* a file without all of the object: empty, cut off or garbage

ASSUME FileAssumption == NoFile \notin Value /\ TornFile \notin Value /\ NoFile # TornFile

VARIABLES
  upd,     \* next step of update_metadata: idle, open, dump, sync, replace, syncdir
  obj,     \* the object it writes, NoFile when it does not run
  tmp,     \* contents of disk.meta.tmp
  synced,  \* the contents of disk.meta.tmp are on the disk
  meta,    \* contents of disk.meta
  kept     \* contents disk.meta may have after a power failure

updateVars == <<upd, obj, tmp, synced, meta, kept>>

Content == Value \cup {NoFile, TornFile}

FileInit ==
  /\ upd = "idle" /\ obj = NoFile /\ tmp = NoFile /\ synced = FALSE
  /\ meta = NoFile /\ kept = {NoFile}

UpdateMetadata(v) ==
  /\ upd = "idle" /\ upd' = "open" /\ obj' = v
  /\ UNCHANGED <<tmp, synced, meta, kept>>

\* Variant: disk.meta itself is rewritten.
OpenMeta ==
  /\ upd = "open" /\ upd' = "dump"
  /\ tmp' = TornFile /\ synced' = FALSE /\ meta' = TornFile
  /\ UNCHANGED <<obj, kept>>

\* meta_tmp.open("w"): a file left by an earlier update is emptied.
OpenTmp ==
  /\ upd = "open" /\ upd' = "dump"
  /\ tmp' = TornFile /\ synced' = FALSE
  /\ UNCHANGED <<obj, meta, kept>>

\* json.dump and flush.
Dump ==
  /\ upd = "dump" /\ upd' = "sync"
  /\ tmp' = obj
  /\ UNCHANGED <<obj, synced, meta, kept>>

\* Variant: no fsync of the file.
SyncNothing ==
  /\ upd = "sync" /\ upd' = "replace"
  /\ UNCHANGED <<obj, tmp, synced, meta, kept>>

Sync ==
  /\ upd = "sync" /\ upd' = "replace"
  /\ synced' = TRUE
  /\ UNCHANGED <<obj, tmp, meta, kept>>

\* os.replace: readers see the new file at once; which of the two is found
\* after a power failure is open until the directory is synchronized.
Replace ==
  /\ upd = "replace" /\ upd' = "syncdir"
  /\ meta' = tmp /\ tmp' = NoFile
  /\ kept' = kept \cup {IF synced THEN tmp ELSE TornFile}
  /\ UNCHANGED <<obj, synced>>

\* fsync of the directory; the update returns.
SyncDir ==
  /\ upd = "syncdir" /\ upd' = "idle" /\ obj' = NoFile
  /\ kept' = {meta}
  /\ UNCHANGED <<tmp, synced, meta>>

\* Any step raises (no space, an I/O error), or the process is killed.  The
\* files stay as they are.
Fail ==
  /\ upd # "idle" /\ upd' = "idle" /\ obj' = NoFile
  /\ UNCHANGED <<tmp, synced, meta, kept>>

PowerFailure ==
  /\ upd' = "idle" /\ obj' = NoFile
  /\ \E c \in kept : meta' = c /\ kept' = {c}
  /\ tmp' \in {NoFile, TornFile, IF synced THEN tmp ELSE TornFile} /\ synced' = FALSE

FileNext ==
  \/ \E v \in Value : UpdateMetadata(v)
  \/ OpenTmp \/ Dump \/ Sync \/ Replace \/ SyncDir \/ Fail \/ PowerFailure

FileSpec == FileInit /\ [][FileNext]_updateVars

-----------------------------------------------------------------------------

\* Types; while update_metadata runs it has an object, and once that is dumped
\* the temporary file holds it, on the disk when it is about to be renamed.
TypeOK ==
  /\ upd \in {"idle", "open", "dump", "sync", "replace", "syncdir"}
  /\ obj \in Value \cup {NoFile} /\ (obj = NoFile <=> upd = "idle")
  /\ tmp \in Content /\ synced \in BOOLEAN
  /\ meta \in Value \cup {NoFile} /\ kept \subseteq Value \cup {NoFile}
  /\ meta \in kept
  /\ upd \in {"sync", "replace"} => tmp = obj
  /\ upd = "replace" => synced
  /\ upd = "syncdir" => meta = obj

Atomic == INSTANCE AtomicFile WITH None <- NoFile, shown <- meta, durable <- kept, pending <- obj

\* update_metadata makes disk.meta an atomic, durable file: no reader, kill or
\* power failure ever meets a torn one, and an update that returned is not lost.
ImplementsAtomicFile == Atomic!Spec

=============================================================================

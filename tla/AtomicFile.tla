----------------------------- MODULE AtomicFile -----------------------------
(***************************************************************************)
(* What a volume's metadata file promises: whoever reads it gets a whole   *)
(* value, an update replaces the value in one step, and once the update    *)
(* has returned the value survives a power failure.                        *)
(***************************************************************************)
CONSTANTS Value, None

VARIABLES
  shown,    \* what a reader gets
  durable,  \* what the file may hold after a power failure
  pending   \* the value of the update under way, None without one

fileVars == <<shown, durable, pending>>

Init == shown = None /\ durable = {None} /\ pending = None

Begin(v) == pending = None /\ pending' = v /\ UNCHANGED <<shown, durable>>

Commit ==
  /\ pending # None
  /\ shown' = pending /\ durable' = durable \cup {pending}
  /\ UNCHANGED pending

Return ==
  /\ pending # None /\ shown = pending
  /\ durable' = {shown} /\ pending' = None
  /\ UNCHANGED shown

\* The update fails, or the process is killed.
Abandon == pending' = None /\ UNCHANGED <<shown, durable>>

PowerFailure ==
  \E v \in durable : shown' = v /\ durable' = {v} /\ pending' = None

Next == (\E v \in Value : Begin(v)) \/ Commit \/ Return \/ Abandon \/ PowerFailure

Spec == Init /\ [][Next]_fileVars

=============================================================================

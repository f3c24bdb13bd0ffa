--------------------------- MODULE TaskLifecycle ---------------------------
(***************************************************************************)
(* What docs/design/taskmanager.md promises of one task, whoever touches    *)
(* it: it is accepted, runs, ends COMPLETED or FAILED, is retried when it   *)
(* failed, and is cleaned up when it is over.  A restart finds a task that  *)
(* was running and fails it.  A termination marks what it interrupts; from   *)
(* the request until the process is gone the records may say anything.      *)
(***************************************************************************)
CONSTANT Task

VARIABLES
  life,     \* the state each task shows, "none" when it has no record
  ending    \* a termination of the process is under way

Move(t, from, to) == life[t] = from /\ life' = [life EXCEPT ![t] = to]

State == {"none", "Pending", "Running", "Completed", "Failed"}

Init == ending = FALSE /\ life = [t \in Task |-> "none"]

Accept(t)  == Move(t, "none", "Pending")
Begin(t)   == Move(t, "Pending", "Running")
Succeed(t) == Move(t, "Running", "Completed")
Fail(t)    == Move(t, "Running", "Failed")
Retry(t)   == Move(t, "Failed", "Pending")
Remove(t)  == Move(t, "Completed", "none") \/ Move(t, "Failed", "none")

Step ==
  \E t \in Task :
    Accept(t) \/ Begin(t) \/ Succeed(t) \/ Fail(t) \/ Retry(t) \/ Remove(t)

\* The request, and what happens until the process is gone.
Terminate == ending' = TRUE /\ (IF ending THEN life' \in [Task -> State] ELSE UNCHANGED life)
Gone == ending /\ ending' = FALSE /\ UNCHANGED life

Next == (~ending /\ UNCHANGED ending /\ Step) \/ Terminate \/ Gone

Spec == Init /\ [][Next]_<<life, ending>>

=============================================================================

---------------------- MODULE TaskManagerRecordProofs ----------------------
(***************************************************************************)
(* What follows for the records of tasks.json: which are removed, what     *)
(* they count, and that they go through the states of TaskLifecycle.       *)
(***************************************************************************)
EXTENDS TaskManagerProofs

USE DEF PENDING, RUNNING, FAILED, COMPLETED

\* Nobody works on a task that is listed for removal, also while the process shuts
\* down and the records are no longer in step with the executions.
ListedInv == pc[RetryWorker] \in {"dropping", "cleaning"} => \A t \in todo : ~Engaged(t)

\* Counts that threads and executions carry stay below the failures, too.
CountRecords == \A t \in Task : Saved(t) => store[t].retry_count < failures[t]

CountCalls ==
  \A c \in Thread : pc[c] \in InCall =>
    /\ c # RetryWorker => cnt[c] = -1
    /\ c = RetryWorker \/ pc[c] # "save_pending" => cnt[c] < failures[job[c]]

CountRuns ==
  \A r \in Run : Active(r) => /\ count[r] < failures[of[r]]
                              /\ fut[r] = "failed" => count[r] + 1 < failures[of[r]]

CountInv == shutdowns = 0 => CountRecords /\ CountCalls /\ CountRuns

\* Without restarts they are never further behind than the failure that is about
\* to be recorded.
BoundRecords ==
  /\ proc \in {"down", "starting"} => \A t \in Task : ~Saved(t)
  /\ \A t \in Task : failures[t] <= MaxRetry + 1
  /\ \A t \in Task : Saved(t) /\ ActiveOf(t) = {} => failures[t] <= store[t].retry_count + 1

BoundCalls ==
  \A c \in Thread :
    pc[c] = "submit" \/ (c = RetryWorker /\ pc[c] = "save_pending") => failures[job[c]] <= cnt[c] + 1

BoundRuns ==
  \A r \in Run : Active(r) => /\ failures[of[r]] <= count[r] + 2
                              /\ fut[r] # "failed" => failures[of[r]] <= count[r] + 1

BoundInv == crashes = 0 /\ shutdowns = 0 => BoundRecords /\ BoundCalls /\ BoundRuns

\* The start: no records, no counts.
LEMMA InitRecords ==
  Init => /\ RecordInv /\ ShownInv /\ OwnedInv /\ DoneInv /\ SpentInv /\ ListedInv /\ MarkedInv
          /\ CountInv /\ BoundInv
  BY ConstantsAssumption, InitType DEF Init, RecordInv, ShownInv, OwnedInv, DoneInv, SpentInv,
     ListedInv, MarkedInv, CountInv, BoundInv, CountRecords, CountCalls, CountRuns, BoundRecords,
     BoundCalls, BoundRuns, Retrying, Engaged, InState, TypeInv, TypeOK, NoTasks, NoTask, Thread,
     PC, InCall, Submitted, Active, ActiveOf, Reading, Live, Shutting, Saved, RetryWorker, NoRun,
     NoJob

\* Nobody takes up what is listed for removal.
LEMMA ListedStep == Before /\ RecordInv /\ DoneInv /\ SpentInv /\ ListedInv => ListedInv'
<1> SUFFICES ASSUME CoSerializes, TypeOK, OwnInv, JobsInv, ProcInv, RunsInv, CallsInv,
       ExclusiveInv, RecordInv, RemoveListInv, TakenInv, AcceptInv, DoneInv, SpentInv,
       ListedInv, [Next]_vars PROVE ListedInv'
  BY Zenon DEF Before, TypeInv, IndInv
<1>1. ASSUME NEW c \in Client, NEW t \in Task, RunTask(c, t)
      PROVE  ListedInv'
  BY <1>1, ConstantsAssumption, SMTT(30) DEF RunTask, Goto, TypeOK, ListedInv, storeVars, runVars,
     procVars, PC, Live, NoTask, NoRun, NoJob, RetryWorker, TaskState, Thread, Engaged
<1>2. ASSUME NEW c \in Thread, ThreadStep(c)
      PROVE  ListedInv'
  BY <1>2, ConstantsAssumption DEF ThreadStep, ReadCurrent, Goto, Leave, Saved, SavePending,
     save_task, Submit, Garbage, Done, SubmitRaises, Raised, SaveRunning, Register, AddCallback,
     Returned, CallbackReturned, TypeOK, CallsInv, RemoveListInv, ListedInv, storeVars, runVars,
     procVars, PC, InCall, Submitted, Active, ActiveOf, Reading, Taken, Watched, Live, NoTask,
     NoRun, NoJob, RetryWorker, TaskState, Thread, Engaged
<1>3. ASSUME NEW r \in Run, BeginExecution(r) \/ EndExecution(r) \/ PopEntry(r) \/ SaveOutcome(r)
      PROVE  ListedInv'
  BY <1>3, ConstantsAssumption DEF BeginExecution, EndExecution, Increment, CountCap, PopEntry,
     SaveOutcome, save_task, Done, TypeOK, ListedInv, storeVars, threadVars, procVars, PC, Live,
     NoTask, NoRun, NoJob, RetryWorker, TaskState, Thread, Engaged
<1>4. CASE RetryStep
  BY <1>4, ConstantsAssumption DEF RetryStep, RetryScan, Goto, Retriable, RetryTask, DropScan,
     NotRetriable, CleanScan, InState, RemoveTask, Sleep, RetryWorkerExits, TypeOK, DoneInv,
     SpentInv, ListedInv, storeVars, runVars, procVars, PC, InCall, Live, Shutting, Saved,
     NoTask, NoRun, NoJob, RetryWorker, TaskState, Thread, Engaged, Retrying
<1>5. CASE StartStep
  BY <1>5, ConstantsAssumption DEF StartStep, Recover, save_task, InState, Started, Goto, Boot,
     TypeOK, ListedInv, storeVars, runVars, threadVars, procVars, PC, Live, NoTask, NoRun,
     NoJob, RetryWorker, TaskState, Thread, Engaged
<1>6. CASE Shutdown \/ DrainRound \/ Drained \/ DrainTimeout \/ CloseExecutor
  BY <1>6, ConstantsAssumption DEF Shutdown, DrainRound, Drained, DrainTimeout, CloseExecutor,
     TypeOK, ListedInv, storeVars, runVars, threadVars, PC, Live, NoTask, NoRun, NoJob,
     RetryWorker, TaskState, Thread, Engaged
<1>7. ASSUME NEW t \in Task, NEW r \in Run, MarkFailed(t, r)
      PROVE  ListedInv'
  BY <1>7, ConstantsAssumption, Zenon DEF MarkFailed, save_task, ListedInv, runVars, threadVars,
     Live, NoRun, NoJob, RetryWorker, Thread, Engaged
<1>8. CASE Exit \/ Crash
  BY <1>8, ConstantsAssumption, Zenon DEF Exit, ProcessEnds, Crash, NoTasks, ListedInv,
     storeVars, Live, NoTask, NoRun, NoJob, RetryWorker, Thread, Engaged
<1>9. CASE UNCHANGED vars
  BY <1>9, ConstantsAssumption, Zenon DEF vars, ListedInv, storeVars, runVars, threadVars,
     procVars, Live, NoRun, NoJob, RetryWorker, Thread, Engaged
<1> QED
  BY <1>1, <1>2, <1>3, <1>4, <1>5, <1>6, <1>7, <1>8, <1>9, Zenon DEF Next, ShutdownStep

\* What shutdown will mark was running, and its record is not removed before the
\* retry worker comes to the removals.
LEMMA MarkedStep == Before /\ RecordInv /\ MarkedInv => MarkedInv'
<1> SUFFICES ASSUME CoSerializes, TypeOK, OwnInv, JobsInv, ProcInv, RunsInv, CallsInv,
       ExclusiveInv, RecordInv, RetryReadInv, TakenInv, MarkedInv, [Next]_vars PROVE MarkedInv'
  BY Zenon DEF Before, TypeInv, IndInv
<1> USE ConstantsAssumption DEF TypeOK, OwnInv, JobsInv, ProcInv, RunsInv, CallsInv,
       ExclusiveInv, RecordInv, RetryReadInv, TakenInv, MarkedInv, storeVars, runVars,
       threadVars, procVars, PC, InCall, Submitted, Active, ActiveOf, Calling, Reading, Taken,
       Watched, Live, Shutting, Saved, Retriable, NoTask, NoRun, NoJob, RetryWorker, TaskState,
       Thread, Engaged, Retrying
<1>1. ASSUME NEW c \in Client, NEW t \in Task, RunTask(c, t)
      PROVE  MarkedInv'
  BY <1>1, ConstantsAssumption, ZenonT(30) DEF RunTask, Goto, ProcInv, MarkedInv, storeVars, runVars,
     procVars, InCall, Active, Reading, Live, Saved, NoTask, NoRun, NoJob, RetryWorker, Thread,
     Engaged, Retrying
<1>2. ASSUME NEW c \in Thread, ThreadStep(c)
      PROVE  MarkedInv'
  BY <1>2, ConstantsAssumption, SMTT(30) DEF ThreadStep, ReadCurrent, Goto, Leave, Saved,
     SavePending, save_task, Submit, Garbage, Done, SubmitRaises, Raised, SaveRunning, Register,
     AddCallback, Returned, CallbackReturned, TypeOK, OwnInv, JobsInv, RunsInv, CallsInv,
     RetryReadInv, MarkedInv, storeVars, runVars, procVars, PC, InCall, Submitted, Active,
     ActiveOf, Calling, Reading, Live, NoTask, NoRun, NoJob, RetryWorker, TaskState, Thread,
     Engaged, Retrying
<1>3. ASSUME NEW r \in Run, BeginExecution(r) \/ EndExecution(r) \/ PopEntry(r) \/ SaveOutcome(r)
      PROVE  MarkedInv'
  BY <1>3, SMTT(60) DEF BeginExecution, EndExecution, Increment, CountCap, PopEntry,
       SaveOutcome, save_task, Done
<1>4. CASE RetryStep
  BY <1>4, ConstantsAssumption DEF RetryStep, RetryScan, Goto, Retriable, RetryTask, DropScan,
     NotRetriable, CleanScan, InState, RemoveTask, Sleep, RetryWorkerExits, TypeOK, ProcInv,
     MarkedInv, storeVars, runVars, procVars, PC, InCall, Active, Reading, Live, Shutting,
     Saved, NoTask, NoRun, NoJob, RetryWorker, TaskState, Thread, Engaged, Retrying
<1>5. CASE StartStep
  BY <1>5, ConstantsAssumption, Zenon DEF StartStep, Recover, save_task, InState, Started, Goto,
     Boot, ProcInv, MarkedInv, storeVars, runVars, threadVars, procVars, InCall, Active,
     Reading, Live, Saved, NoTask, NoRun, NoJob, RetryWorker, Thread, Engaged, Retrying
<1>6. CASE Shutdown \/ DrainRound \/ Drained \/ DrainTimeout \/ CloseExecutor
  BY <1>6, ConstantsAssumption, SMTT(30) DEF Shutdown, DrainRound, Drained, DrainTimeout, CloseExecutor,
     TypeOK, RunsInv, TakenInv, MarkedInv, storeVars, runVars, threadVars, PC, InCall, Active,
     ActiveOf, Reading, Taken, Watched, Live, Saved, NoTask, NoRun, NoJob, RetryWorker,
     TaskState, Thread, Engaged, Retrying
<1>7. ASSUME NEW t \in Task, NEW r \in Run, MarkFailed(t, r)
      PROVE  MarkedInv'
  BY <1>7, ConstantsAssumption DEF MarkFailed, save_task, MarkedInv, runVars, threadVars,
     InCall, Active, Reading, Live, Saved, NoTask, NoRun, NoJob, RetryWorker, Thread, Engaged,
     Retrying
<1>8. CASE Exit \/ Crash
  BY <1>8, ConstantsAssumption, Zenon DEF Exit, ProcessEnds, Crash, NoTasks, MarkedInv,
     storeVars, InCall, Active, Reading, Live, Saved, NoTask, NoRun, NoJob, RetryWorker, Thread,
     Engaged, Retrying
<1>9. CASE UNCHANGED vars
  BY <1>9, ConstantsAssumption DEF vars, MarkedInv, storeVars, runVars, threadVars, procVars,
     InCall, Active, Reading, Live, Saved, NoTask, NoRun, NoJob, RetryWorker, Thread, Engaged,
     Retrying
<1> QED
  BY <1>1, <1>2, <1>3, <1>4, <1>5, <1>6, <1>7, <1>8, <1>9, Zenon DEF Next, ShutdownStep

\* A count is saved with a record, and grows by one when a failure was counted.
LEMMA CountRecordsStep ==
  Before /\ RecordInv /\ CountInv /\ shutdowns = 0
    => CountRecords'
<1> SUFFICES ASSUME CoSerializes, TypeOK, OwnInv, RunsInv, ProcInv, RecordInv, CountRecords,
       CountCalls, CountRuns, [Next]_vars, shutdowns = 0 PROVE CountRecords'
  BY Zenon DEF CountInv, Before, TypeInv, IndInv
<1>1. ASSUME NEW c \in Client, NEW t \in Task, RunTask(c, t)
      PROVE  CountRecords'
  BY <1>1, ConstantsAssumption, Zenon DEF RunTask, Goto, CountRecords, storeVars, runVars,
     procVars, Saved, NoTask, NoRun, NoJob, RetryWorker, Thread
<1>2. ASSUME NEW c \in Thread, ThreadStep(c)
      PROVE  CountRecords'
  BY <1>2, ConstantsAssumption, SMTT(30) DEF ThreadStep, ReadCurrent, Goto, Leave, Saved, SavePending,
     save_task, Submit, Garbage, Done, SubmitRaises, Raised, SaveRunning, Register, AddCallback,
     Returned, CallbackReturned, TypeOK, CountRecords, CountCalls, storeVars, runVars, procVars,
     PC, InCall, NoTask, NoRun, NoJob, RetryWorker, TaskState, Thread
<1>3. ASSUME NEW r \in Run, BeginExecution(r) \/ EndExecution(r) \/ PopEntry(r) \/ SaveOutcome(r)
      PROVE  CountRecords'
  BY <1>3, ConstantsAssumption, SMTT(30) DEF BeginExecution, EndExecution, Increment, CountCap, PopEntry,
     SaveOutcome, save_task, Done, TypeOK, RunsInv, CountRecords, CountRuns, storeVars,
     threadVars, procVars, PC, Active, Live, Saved, NoTask, NoRun, NoJob, RetryWorker,
     TaskState, Thread
<1>4. CASE RetryStep
  BY <1>4, ConstantsAssumption DEF RetryStep, RetryScan, Goto, Retriable, RetryTask, DropScan,
     NotRetriable, CleanScan, InState, RemoveTask, Sleep, RetryWorkerExits, TypeOK,
     CountRecords, storeVars, runVars, procVars, PC, Shutting, Saved, NoTask, NoRun, NoJob,
     RetryWorker, TaskState, Thread
<1>5. CASE StartStep
  BY <1>5, ConstantsAssumption DEF StartStep, Recover, save_task, InState, Started, Goto, Boot,
     TypeOK, CountRecords, storeVars, runVars, threadVars, procVars, PC, Saved, NoTask, NoRun,
     NoJob, RetryWorker, TaskState, Thread
<1>6. CASE Shutdown \/ DrainRound \/ Drained \/ DrainTimeout \/ CloseExecutor
  BY <1>6, ConstantsAssumption, Zenon DEF Shutdown, DrainRound, Drained, DrainTimeout,
     CloseExecutor, TypeOK, CountRecords, storeVars, runVars, threadVars, PC, Saved, NoTask,
     NoRun, NoJob, RetryWorker, TaskState, Thread
<1>7. ASSUME NEW t \in Task, NEW r \in Run, MarkFailed(t, r)
      PROVE  CountRecords'
  BY <1>7, ConstantsAssumption DEF MarkFailed, save_task, RecordInv, CountRecords, runVars,
     threadVars, Live, Shutting, Saved, NoTask, NoRun, NoJob, RetryWorker, Thread
<1>8. CASE Exit \/ Crash
  BY <1>8, ConstantsAssumption DEF Exit, ProcessEnds, Crash, NoTasks, TypeOK, CountRecords,
     storeVars, PC, Saved, NoTask, NoRun, NoJob, RetryWorker, TaskState, Thread
<1>9. CASE UNCHANGED vars
  BY <1>9, ConstantsAssumption, Zenon DEF vars, CountRecords, storeVars, runVars, threadVars,
     procVars, Saved, NoTask, NoRun, NoJob, RetryWorker, Thread
<1> QED
  BY <1>1, <1>2, <1>3, <1>4, <1>5, <1>6, <1>7, <1>8, <1>9, Zenon DEF Next, ShutdownStep

\* A call takes the count from the record.
LEMMA CountCallsStep ==
  Before /\ RecordInv /\ CountInv /\ shutdowns = 0
    => CountCalls'
<1> SUFFICES ASSUME CoSerializes, TypeOK, OwnInv, JobsInv, ProcInv, CallsInv, ExclusiveInv,
       RetryReadInv, TakenInv, RecordInv, CountRecords, CountCalls, [Next]_vars, shutdowns = 0
       PROVE CountCalls'
  BY Zenon DEF CountInv, Before, TypeInv, IndInv
<1>1. ASSUME NEW c \in Client, NEW t \in Task, RunTask(c, t)
      PROVE  CountCalls'
  BY <1>1, ConstantsAssumption, SMTT(30) DEF RunTask, Goto, CountCalls, storeVars, runVars, procVars,
     InCall, NoRun, NoJob, RetryWorker, Thread
<1>2. ASSUME NEW c \in Thread, ThreadStep(c)
      PROVE  CountCalls'
  BY <1>2, ConstantsAssumption, SMTT(30) DEF ThreadStep, ReadCurrent, Goto, Leave, Saved, SavePending,
     save_task, Submit, Garbage, Done, SubmitRaises, Raised, SaveRunning, Register, AddCallback,
     Returned, CallbackReturned, TypeOK, OwnInv, ExclusiveInv, CountRecords, CountCalls,
     storeVars, runVars, procVars, PC, InCall, Submitted, Active, ActiveOf, Calling, NoTask,
     NoRun, NoJob, RetryWorker, TaskState, Thread
<1>3. ASSUME NEW r \in Run, BeginExecution(r) \/ EndExecution(r) \/ PopEntry(r) \/ SaveOutcome(r)
      PROVE  CountCalls'
  BY <1>3, ConstantsAssumption, SMTT(30) DEF BeginExecution, EndExecution, Increment, CountCap, PopEntry,
     SaveOutcome, save_task, Done, TypeOK, OwnInv, CountCalls, storeVars, threadVars, procVars,
     PC, InCall, Submitted, Active, NoTask, NoRun, NoJob, RetryWorker, TaskState, Thread
<1>4. CASE RetryStep
  BY <1>4, ConstantsAssumption DEF RetryStep, RetryScan, Goto, Retriable, RetryTask, DropScan,
     NotRetriable, CleanScan, InState, RemoveTask, Sleep, RetryWorkerExits, TypeOK, CountCalls,
     storeVars, runVars, procVars, PC, InCall, Shutting, Saved, NoTask, NoRun, NoJob,
     RetryWorker, TaskState, Thread
<1>5. CASE StartStep
  BY <1>5, ConstantsAssumption DEF StartStep, Recover, save_task, InState, Started, Goto, Boot,
     TypeOK, CountCalls, storeVars, runVars, threadVars, procVars, PC, InCall, NoTask, NoRun,
     NoJob, RetryWorker, TaskState, Thread
<1>6. CASE Shutdown \/ DrainRound \/ Drained \/ DrainTimeout \/ CloseExecutor
  BY <1>6, ConstantsAssumption, Zenon DEF Shutdown, DrainRound, Drained, DrainTimeout,
     CloseExecutor, TypeOK, CountCalls, storeVars, runVars, threadVars, PC, InCall, NoTask,
     NoRun, NoJob, RetryWorker, TaskState, Thread
<1>7. ASSUME NEW t \in Task, NEW r \in Run, MarkFailed(t, r)
      PROVE  CountCalls'
  BY <1>7, ConstantsAssumption, Zenon DEF MarkFailed, save_task, CountCalls, runVars,
     threadVars, InCall, NoRun, NoJob, RetryWorker, Thread
<1>8. CASE Exit \/ Crash
  BY <1>8, ConstantsAssumption, Zenon DEF Exit, ProcessEnds, Crash, NoTasks, CountCalls, storeVars,
     InCall, NoTask, NoRun, NoJob, RetryWorker, Thread
<1>9. CASE UNCHANGED vars
  BY <1>9, ConstantsAssumption, Zenon DEF vars, CountCalls, storeVars, runVars, threadVars,
     procVars, InCall, NoRun, NoJob, RetryWorker, Thread
<1> QED
  BY <1>1, <1>2, <1>3, <1>4, <1>5, <1>6, <1>7, <1>8, <1>9, Zenon DEF Next, ShutdownStep

\* An execution takes the count from its call.
LEMMA CountRunsStep ==
  Before /\ RecordInv /\ CountInv /\ shutdowns = 0
    => CountRuns'
<1> SUFFICES ASSUME CoSerializes, TypeOK, OwnInv, ProcInv, RunsInv, CallsInv, ExclusiveInv,
       RecordInv, CountCalls, CountRuns, [Next]_vars, shutdowns = 0 PROVE CountRuns'
  BY Zenon DEF CountInv, Before, TypeInv, IndInv
<1>1. ASSUME NEW c \in Client, NEW t \in Task, RunTask(c, t)
      PROVE  CountRuns'
  BY <1>1, ConstantsAssumption, ZenonT(30) DEF RunTask, Goto, CountRuns, storeVars, runVars,
     procVars, Active, NoRun, NoJob, RetryWorker, Thread
<1>2. ASSUME NEW c \in Thread, ThreadStep(c)
      PROVE  CountRuns'
  BY <1>2, ConstantsAssumption, SMTT(30) DEF ThreadStep, ReadCurrent, Goto, Leave, Saved, SavePending,
     save_task, Submit, Garbage, Done, SubmitRaises, Raised, SaveRunning, Register, AddCallback,
     Returned, CallbackReturned, TypeOK, OwnInv, ExclusiveInv, CountCalls, CountRuns, storeVars,
     runVars, procVars, PC, InCall, Submitted, Active, ActiveOf, Calling, NoTask, NoRun, NoJob,
     RetryWorker, TaskState, Thread
<1>3. ASSUME NEW r \in Run, BeginExecution(r) \/ EndExecution(r) \/ PopEntry(r) \/ SaveOutcome(r)
      PROVE  CountRuns'
  BY <1>3, ConstantsAssumption DEF BeginExecution, EndExecution, Increment, CountCap, PopEntry,
     SaveOutcome, save_task, Done, TypeOK, OwnInv, RunsInv, CountRuns, storeVars, threadVars,
     procVars, PC, InCall, Submitted, Active, Live, NoTask, NoRun, NoJob, RetryWorker,
     TaskState, Thread
<1>4. CASE RetryStep
  BY <1>4, ConstantsAssumption, Zenon DEF RetryStep, RetryScan, Goto, Retriable, RetryTask,
     DropScan, NotRetriable, CleanScan, InState, RemoveTask, Sleep, RetryWorkerExits, TypeOK,
     CountRuns, storeVars, runVars, procVars, PC, Active, Shutting, Saved, NoTask, NoRun, NoJob,
     RetryWorker, TaskState, Thread
<1>5. CASE StartStep
  BY <1>5, ConstantsAssumption, Zenon DEF StartStep, Recover, save_task, InState, Started, Goto,
     Boot, TypeOK, CountRuns, storeVars, runVars, threadVars, procVars, PC, Active, NoTask,
     NoRun, NoJob, RetryWorker, TaskState, Thread
<1>6. CASE Shutdown \/ DrainRound \/ Drained \/ DrainTimeout \/ CloseExecutor
  BY <1>6, ConstantsAssumption DEF Shutdown, DrainRound, Drained, DrainTimeout, CloseExecutor,
     TypeOK, CountRuns, storeVars, runVars, threadVars, PC, Active, NoTask, NoRun, NoJob,
     RetryWorker, TaskState, Thread
<1>7. ASSUME NEW t \in Task, NEW r \in Run, MarkFailed(t, r)
      PROVE  CountRuns'
  BY <1>7, ConstantsAssumption, Zenon DEF MarkFailed, save_task, CountRuns, runVars, threadVars,
     Active, NoRun, NoJob, RetryWorker, Thread
<1>8. CASE Exit \/ Crash
  BY <1>8, ConstantsAssumption, Zenon DEF Exit, ProcessEnds, Crash, NoTasks, CountRuns,
     storeVars, Active, NoTask, NoRun, NoJob, RetryWorker, Thread
<1>9. CASE UNCHANGED vars
  BY <1>9, ConstantsAssumption, Zenon DEF vars, CountRuns, storeVars, runVars, threadVars,
     procVars, Active, NoRun, NoJob, RetryWorker, Thread
<1> QED
  BY <1>1, <1>2, <1>3, <1>4, <1>5, <1>6, <1>7, <1>8, <1>9, Zenon DEF Next, ShutdownStep

\* Without restarts the failures of a task that is not being executed are in its
\* record.
LEMMA BoundRecordsStep ==
  Before /\ RecordInv /\ CountInv /\ BoundInv /\ crashes' = 0 /\ crashes = 0 /\ shutdowns = 0
    => BoundRecords'
<1> SUFFICES ASSUME CoSerializes, TypeOK, OwnInv, JobsInv, ProcInv, RunsInv, CallsInv,
       ExclusiveInv, RecordInv, CountCalls, BoundRecords, BoundCalls, BoundRuns, [Next]_vars,
       crashes' = 0 /\ crashes = 0 /\ shutdowns = 0 PROVE BoundRecords'
  BY Zenon DEF CountInv, BoundInv, Before, TypeInv, IndInv
<1>1. ASSUME NEW c \in Client, NEW t \in Task, RunTask(c, t)
      PROVE  BoundRecords'
  BY <1>1, ConstantsAssumption, ZenonT(30) DEF RunTask, Goto, BoundRecords, storeVars, runVars,
     procVars, Active, ActiveOf, Saved, NoTask, NoRun, NoJob, RetryWorker, Thread
<1>2. ASSUME NEW c \in Thread, ThreadStep(c)
      PROVE  BoundRecords'
  BY <1>2, ConstantsAssumption, SMTT(30) DEF ThreadStep, ReadCurrent, Goto, Leave, Saved,
     SavePending, save_task, Submit, Garbage, Done, SubmitRaises, Raised, SaveRunning, Register,
     AddCallback, Returned, CallbackReturned, TypeOK, OwnInv, JobsInv, ProcInv, RunsInv,
     CallsInv, CountCalls, BoundRecords, BoundCalls, storeVars, runVars, procVars, PC, InCall,
     Submitted, Active, ActiveOf, Live, NoTask, NoRun, NoJob, RetryWorker, TaskState, Thread
<1>3. ASSUME NEW r \in Run, BeginExecution(r) \/ EndExecution(r) \/ PopEntry(r) \/ SaveOutcome(r)
      PROVE  BoundRecords'
  BY <1>3, ConstantsAssumption, SMTT(30) DEF BeginExecution, EndExecution, Increment, CountCap,
     PopEntry, SaveOutcome, save_task, Done, TypeOK, OwnInv, JobsInv, ProcInv, RunsInv,
     RecordInv, BoundRecords, BoundRuns, storeVars, threadVars, procVars, PC, InCall, Submitted,
     Active, ActiveOf, Live, Shutting, Saved, NoTask, NoRun, NoJob, RetryWorker, TaskState,
     Thread
<1>4. CASE RetryStep
  BY <1>4, ConstantsAssumption, SMTT(30) DEF RetryStep, RetryScan, Goto, Retriable, RetryTask, DropScan,
     NotRetriable, CleanScan, InState, RemoveTask, Sleep, RetryWorkerExits, TypeOK,
     BoundRecords, storeVars, runVars, procVars, PC, Active, ActiveOf, Shutting, Saved, NoTask,
     NoRun, NoJob, RetryWorker, TaskState, Thread
<1>5. CASE StartStep
  BY <1>5, ConstantsAssumption, SMTT(30) DEF StartStep, Recover, save_task, InState, Started, Goto, Boot,
     TypeOK, BoundRecords, storeVars, runVars, threadVars, procVars, PC, Active, ActiveOf,
     Saved, NoTask, NoRun, NoJob, RetryWorker, TaskState, Thread
<1>6. CASE Shutdown \/ DrainRound \/ Drained \/ DrainTimeout \/ CloseExecutor
  BY <1>6, ConstantsAssumption, SMTT(30) DEF Shutdown, DrainRound, Drained, DrainTimeout, CloseExecutor,
     TypeOK, BoundRecords, storeVars, runVars, threadVars, PC, Active, ActiveOf, Saved, NoTask,
     NoRun, NoJob, RetryWorker, TaskState, Thread
<1>7. ASSUME NEW t \in Task, NEW r \in Run, MarkFailed(t, r)
      PROVE  BoundRecords'
  BY <1>7, ConstantsAssumption DEF MarkFailed, save_task, RecordInv, BoundRecords, runVars,
     threadVars, Active, ActiveOf, Live, Shutting, Saved, NoTask, NoRun, NoJob, RetryWorker,
     Thread
<1>8. CASE Exit \/ Crash
  BY <1>8, ConstantsAssumption DEF Exit, ProcessEnds, Crash, NoTasks, RecordInv, BoundRecords,
     storeVars, Active, ActiveOf, Live, Shutting, Saved, NoTask, NoRun, NoJob, RetryWorker,
     Thread
<1>9. CASE UNCHANGED vars
  BY <1>9, ConstantsAssumption, Zenon DEF vars, BoundRecords, storeVars, runVars, threadVars,
     procVars, Active, ActiveOf, Saved, NoTask, NoRun, NoJob, RetryWorker, Thread
<1> QED
  BY <1>1, <1>2, <1>3, <1>4, <1>5, <1>6, <1>7, <1>8, <1>9, Zenon DEF Next, ShutdownStep

\* They are in the count that a call takes from the record.
LEMMA BoundCallsStep ==
  Before /\ RecordInv /\ CountInv /\ BoundInv /\ crashes' = 0 /\ crashes = 0 /\ shutdowns = 0
    => BoundCalls'
<1> SUFFICES ASSUME CoSerializes, TypeOK, OwnInv, JobsInv, ProcInv, RunsInv, CallsInv,
       ExclusiveInv, RetryReadInv, TakenInv, RecordInv, CountCalls, BoundRecords, BoundCalls,
       [Next]_vars, crashes' = 0 /\ crashes = 0 /\ shutdowns = 0 PROVE BoundCalls'
  BY Zenon DEF CountInv, BoundInv, Before, TypeInv, IndInv
<1>1. ASSUME NEW c \in Client, NEW t \in Task, RunTask(c, t)
      PROVE  BoundCalls'
  BY <1>1, ConstantsAssumption DEF RunTask, Goto, BoundCalls, storeVars, runVars, procVars,
     NoRun, NoJob, RetryWorker, Thread
<1>2. ASSUME NEW c \in Thread, ThreadStep(c)
      PROVE  BoundCalls'
  <2>1. CASE ReadCurrent(c)
    BY <2>1, ConstantsAssumption, SMTT(30) DEF ReadCurrent, Leave, Goto, TypeOK, OwnInv, RetryReadInv,
       RecordInv, BoundRecords, BoundCalls, storeVars, runVars, procVars, PC, InCall, Submitted,
       Active, ActiveOf, Calling, Live, Shutting, Saved, NoTask, NoRun, NoJob, RetryWorker,
       TaskState, Thread
  <2>2. CASE SavePending(c)
    BY <2>2, ConstantsAssumption, SMTT(30) DEF SavePending, save_task, Goto, TypeOK, OwnInv, ExclusiveInv,
       CountCalls, BoundCalls, runVars, procVars, PC, InCall, Submitted, Active, ActiveOf,
       Calling, NoTask, NoRun, NoJob, RetryWorker, TaskState, Thread
  <2>3. ASSUME NEW r \in Run, Submit(c, r) PROVE BoundCalls'
    BY <2>3, ConstantsAssumption DEF Submit, Garbage, Done, Goto, BoundCalls, storeVars,
       procVars, NoRun, NoJob, RetryWorker, Thread
  <2>4. CASE SubmitRaises(c)
    BY <2>4, ConstantsAssumption, Zenon DEF SubmitRaises, Leave, Goto, Raised, TypeOK,
       BoundCalls, storeVars, runVars, procVars, PC, NoTask, NoRun, NoJob, RetryWorker,
       TaskState, Thread
  <2>5. CASE SaveRunning(c)
    BY <2>5, ConstantsAssumption DEF SaveRunning, save_task, Goto, BoundCalls, runVars,
       procVars, NoRun, NoJob, RetryWorker, Thread
  <2>6. CASE Register(c)
    BY <2>6, ConstantsAssumption, SMTT(30) DEF Register, Goto, BoundCalls, storeVars, runVars, procVars,
       NoRun, NoJob, RetryWorker, Thread
  <2>7. CASE AddCallback(c)
    BY <2>7, ConstantsAssumption DEF AddCallback, Done, Leave, Goto, Returned, TypeOK,
       BoundCalls, storeVars, procVars, PC, NoTask, NoRun, NoJob, RetryWorker, TaskState, Thread
  <2>8. CASE CallbackReturned(c)
    BY <2>8, ConstantsAssumption, SMTT(30) DEF CallbackReturned, Leave, Goto, Returned, BoundCalls,
       storeVars, runVars, procVars, NoRun, NoJob, RetryWorker, Thread
  <2> QED
    BY <1>2, <2>1, <2>2, <2>3, <2>4, <2>5, <2>6, <2>7, <2>8, Zenon DEF ThreadStep
<1>3. ASSUME NEW r \in Run, BeginExecution(r) \/ EndExecution(r) \/ PopEntry(r) \/ SaveOutcome(r)
      PROVE  BoundCalls'
  BY <1>3, ConstantsAssumption, SMTT(30) DEF BeginExecution, EndExecution, Increment, CountCap, PopEntry,
     SaveOutcome, save_task, Done, TypeOK, OwnInv, RunsInv, ExclusiveInv, BoundCalls, storeVars,
     threadVars, procVars, PC, InCall, Submitted, Active, ActiveOf, Calling, Live, NoTask,
     NoRun, NoJob, RetryWorker, TaskState, Thread
<1>4. CASE RetryStep
  BY <1>4, ConstantsAssumption DEF RetryStep, RetryScan, Goto, Retriable, RetryTask, DropScan,
     NotRetriable, CleanScan, InState, RemoveTask, Sleep, RetryWorkerExits, TypeOK, BoundCalls,
     storeVars, runVars, procVars, PC, Shutting, Saved, NoTask, NoRun, NoJob, RetryWorker,
     TaskState, Thread
<1>5. CASE StartStep
  BY <1>5, ConstantsAssumption DEF StartStep, Recover, save_task, InState, Started, Goto, Boot,
     TypeOK, BoundCalls, storeVars, runVars, threadVars, procVars, PC, NoTask, NoRun, NoJob,
     RetryWorker, TaskState, Thread
<1>6. CASE Shutdown \/ DrainRound \/ Drained \/ DrainTimeout \/ CloseExecutor
  BY <1>6, ConstantsAssumption, Zenon DEF Shutdown, DrainRound, Drained, DrainTimeout,
     CloseExecutor, TypeOK, BoundCalls, storeVars, runVars, threadVars, PC, NoTask, NoRun,
     NoJob, RetryWorker, TaskState, Thread
<1>7. ASSUME NEW t \in Task, NEW r \in Run, MarkFailed(t, r)
      PROVE  BoundCalls'
  BY <1>7, ConstantsAssumption, Zenon DEF MarkFailed, save_task, BoundCalls, runVars,
     threadVars, NoRun, NoJob, RetryWorker, Thread
<1>8. CASE Exit \/ Crash
  BY <1>8, ConstantsAssumption, Zenon DEF Exit, ProcessEnds, Crash, NoTasks, BoundCalls,
     storeVars, NoTask, NoRun, NoJob, RetryWorker, Thread
<1>9. CASE UNCHANGED vars
  BY <1>9, ConstantsAssumption, Zenon DEF vars, BoundCalls, storeVars, runVars, threadVars,
     procVars, NoRun, NoJob, RetryWorker, Thread
<1> QED
  BY <1>1, <1>2, <1>3, <1>4, <1>5, <1>6, <1>7, <1>8, <1>9, Zenon DEF Next, ShutdownStep

\* An execution that failed is one failure ahead of its count.
LEMMA BoundRunsStep ==
  Before /\ RecordInv /\ BoundInv /\ crashes' = 0 /\ crashes = 0 /\ shutdowns = 0
    => BoundRuns'
<1> SUFFICES ASSUME CoSerializes, TypeOK, OwnInv, ProcInv, RunsInv, CallsInv, ExclusiveInv,
       RecordInv, BoundCalls, BoundRuns, [Next]_vars, crashes' = 0 /\ crashes = 0 /\ shutdowns =
       0 PROVE BoundRuns'
  BY Zenon DEF BoundInv, Before, TypeInv, IndInv
<1>1. ASSUME NEW c \in Client, NEW t \in Task, RunTask(c, t)
      PROVE  BoundRuns'
  BY <1>1, ConstantsAssumption, ZenonT(30) DEF RunTask, Goto, BoundRuns, storeVars, runVars,
     procVars, Active, NoRun, NoJob, RetryWorker, Thread
<1>2. ASSUME NEW c \in Thread, ThreadStep(c)
      PROVE  BoundRuns'
  BY <1>2, ConstantsAssumption, SMTT(30) DEF ThreadStep, ReadCurrent, Goto, Leave, Saved,
     SavePending, save_task, Submit, Garbage, Done, SubmitRaises, Raised, SaveRunning, Register,
     AddCallback, Returned, CallbackReturned, TypeOK, OwnInv, BoundCalls, BoundRuns, storeVars,
     runVars, procVars, PC, InCall, Submitted, Active, NoTask, NoRun, NoJob, RetryWorker,
     TaskState, Thread
<1>3. ASSUME NEW r \in Run, BeginExecution(r) \/ EndExecution(r) \/ PopEntry(r) \/ SaveOutcome(r)
      PROVE  BoundRuns'
  BY <1>3, ConstantsAssumption DEF BeginExecution, EndExecution, Increment, CountCap, PopEntry,
     SaveOutcome, save_task, Done, TypeOK, OwnInv, RunsInv, ExclusiveInv, BoundRuns, storeVars,
     threadVars, procVars, PC, InCall, Submitted, Active, ActiveOf, Calling, Live, NoTask,
     NoRun, NoJob, RetryWorker, TaskState, Thread
<1>4. CASE RetryStep
  BY <1>4, ConstantsAssumption, Zenon DEF RetryStep, RetryScan, Goto, Retriable, RetryTask,
     DropScan, NotRetriable, CleanScan, InState, RemoveTask, Sleep, RetryWorkerExits, TypeOK,
     BoundRuns, storeVars, runVars, procVars, PC, Active, Shutting, Saved, NoTask, NoRun, NoJob,
     RetryWorker, TaskState, Thread
<1>5. CASE StartStep
  BY <1>5, ConstantsAssumption, Zenon DEF StartStep, Recover, save_task, InState, Started, Goto,
     Boot, TypeOK, BoundRuns, storeVars, runVars, threadVars, procVars, PC, Active, NoTask,
     NoRun, NoJob, RetryWorker, TaskState, Thread
<1>6. CASE Shutdown \/ DrainRound \/ Drained \/ DrainTimeout \/ CloseExecutor
  BY <1>6, ConstantsAssumption DEF Shutdown, DrainRound, Drained, DrainTimeout, CloseExecutor,
     TypeOK, BoundRuns, storeVars, runVars, threadVars, PC, Active, NoTask, NoRun, NoJob,
     RetryWorker, TaskState, Thread
<1>7. ASSUME NEW t \in Task, NEW r \in Run, MarkFailed(t, r)
      PROVE  BoundRuns'
  BY <1>7, ConstantsAssumption, Zenon DEF MarkFailed, save_task, BoundRuns, runVars, threadVars,
     Active, NoRun, NoJob, RetryWorker, Thread
<1>8. CASE Exit \/ Crash
  BY <1>8, ConstantsAssumption, Zenon DEF Exit, ProcessEnds, Crash, NoTasks, BoundRuns,
     storeVars, Active, NoTask, NoRun, NoJob, RetryWorker, Thread
<1>9. CASE UNCHANGED vars
  BY <1>9, ConstantsAssumption, Zenon DEF vars, BoundRuns, storeVars, runVars, threadVars,
     procVars, Active, NoRun, NoJob, RetryWorker, Thread
<1> QED
  BY <1>1, <1>2, <1>3, <1>4, <1>5, <1>6, <1>7, <1>8, <1>9, Zenon DEF Next, ShutdownStep

-----------------------------------------------------------------------------

RecordsInv ==
  /\ RecordInv /\ ShownInv /\ OwnedInv /\ DoneInv /\ SpentInv /\ ListedInv /\ MarkedInv
  /\ CountInv /\ BoundInv

\* Once a termination was requested, or the process was killed, it stays so.
LEMMA Monotone ==
  TypeOK /\ [Next]_vars => (shutdowns' = 0 => shutdowns = 0) /\ (crashes' = 0 => crashes = 0)
<1> SUFFICES ASSUME TypeOK, [Next]_vars
             PROVE  shutdowns' \in {shutdowns, shutdowns + 1} /\ crashes' \in {crashes, crashes + 1}
  BY DEF TypeOK
<1> USE DEF procVars
<1>1. CASE \E c \in Client, t \in Task : RunTask(c, t)
  BY <1>1, Zenon DEF RunTask, procVars
<1>2. CASE \E c \in Thread : ThreadStep(c)
  BY <1>2, Zenon DEF ThreadStep, ReadCurrent, SavePending, Submit, SubmitRaises, SaveRunning,
     Register, AddCallback, CallbackReturned, procVars
<1>3. CASE \E r \in Run : BeginExecution(r) \/ EndExecution(r) \/ PopEntry(r) \/ SaveOutcome(r)
  BY <1>3, Zenon DEF BeginExecution, EndExecution, PopEntry, SaveOutcome, procVars
<1>4. CASE RetryStep
  BY <1>4, Zenon DEF RetryStep, RetryScan, DropScan, CleanScan, Sleep, RetryWorkerExits,
     RetryTask, RemoveTask, procVars
<1>5. CASE StartStep \/ Shutdown
  BY <1>5, Zenon DEF StartStep, Boot, Started, Recover, Shutdown, procVars
<1>6. CASE ShutdownStep \/ Crash
  BY <1>6, Zenon DEF ShutdownStep, DrainRound, Drained, DrainTimeout, CloseExecutor, MarkFailed,
     Exit, Crash
<1> QED
  BY <1>1, <1>2, <1>3, <1>4, <1>5, <1>6, Zenon DEF Next, vars

\* The parts together.
LEMMA RecordsInductive ==
  ASSUME CoSerializes
  PROVE  Spec => [](TypeInv /\ IndInv /\ RecordsInv)
<1>1. Init => TypeInv /\ IndInv /\ RecordsInv
  BY InitType, InitInd, InitRecords, Zenon DEF RecordsInv
<1>2. TypeInv /\ IndInv /\ RecordsInv /\ [Next]_vars => (TypeInv /\ IndInv /\ RecordsInv)'
  <2> SUFFICES ASSUME TypeInv, IndInv, RecordsInv, [Next]_vars
               PROVE  (TypeInv /\ IndInv /\ RecordsInv)'
    BY Zenon
  <2>1. Before /\ TypeInv' /\ IndInv'
    BY StepType, StepInd, Zenon DEF Before
  <2>2. RecordInv' /\ ShownInv' /\ OwnedInv' /\ DoneInv' /\ SpentInv' /\ ListedInv' /\ MarkedInv'
    BY <2>1, RecordStep, ShownStep, OwnedStep, DoneStep, SpentStep, ListedStep, MarkedStep,
       Zenon DEF RecordsInv
  <2>3. (shutdowns' = 0 => shutdowns = 0) /\ (crashes' = 0 => crashes = 0)
    BY Monotone, Zenon DEF TypeInv
  <2>4. CountInv'
    BY <2>1, <2>3, CountRecordsStep, CountCallsStep, CountRunsStep, Zenon DEF RecordsInv,
       CountInv
  <2>5. BoundInv'
    BY <2>1, <2>3, BoundRecordsStep, BoundCallsStep, BoundRunsStep, Zenon DEF RecordsInv,
       BoundInv
  <2> QED
    BY <2>1, <2>2, <2>4, <2>5, Zenon DEF RecordsInv
<1> QED
  BY <1>1, <1>2, PTL DEF Spec

\* With one call in flight per task, a task that tasks.json shows as running while
\* requests are served always has a thread or an execution that will save its end:
\* start() need not look for such tasks again.
THEOREM RunningHasOwner ==
  ASSUME CoSerializes
  PROVE  Spec => []RunningIsEngaged
<1>1. OwnedInv /\ RecordInv => RunningIsEngaged
  BY DEF OwnedInv, RecordInv, RunningIsEngaged, Engaged
<1> QED
  BY <1>1, RecordsInductive, PTL DEF RecordsInv

\* However often the process is killed, the retry_count of a task stays below the
\* number of its failed executions, so that none is given up too early.
THEOREM GivenUpLate ==
  ASSUME CoSerializes
  PROVE  Spec => []CountsOnlyFailures
<1>1. CountInv => CountsOnlyFailures
  BY Zenon DEF CountInv, CountRecords, CountsOnlyFailures
<1> QED
  BY <1>1, RecordsInductive, PTL DEF RecordsInv

\* Without restarts no task fails more than max_retry + 1 times per request.
THEOREM ExecutionsBounded ==
  ASSUME CoSerializes
  PROVE  Spec => []BoundedExecutions
<1>1. BoundInv => BoundedExecutions
  BY Zenon DEF BoundInv, BoundRecords, BoundedExecutions
<1> QED
  BY <1>1, RecordsInductive, PTL DEF RecordsInv

\* The retry worker never removes the record of a task that is being executed or
\* about to be, although it goes by lists it read earlier, and although requests
\* and shutdown still write records while it goes through its last round.
THEOREM RemovalIsSafe ==
  ASSUME CoSerializes
  PROVE  Spec => RemovesOnlyIdle
<1>1. ListedInv => \A t \in Task : RemoveTask(t) => ~Engaged(t)
  BY Zenon DEF ListedInv, RemoveTask
<1>2. RecordsInv => [\A t \in Task : RemoveTask(t) => ~Engaged(t)]_vars
  BY <1>1, Zenon DEF RecordsInv
<1> QED
  BY <1>2, RecordsInductive, PTL DEF RemovesOnlyIdle

-----------------------------------------------------------------------------
(* The abstract life of a task *)

\* No kill cuts a save of tasks.json short.
SavesWhole == [][Crash => UNCHANGED store]_vars

Life == [t \in Task |-> store[t].state]

\* A step that saves one record moves that task only, which is what TaskLifecycle
\* allows while the process shuts down, and a move of it otherwise.
LEMMA OneMoves ==
  ASSUME TypeOK, TypeOK', NEW t \in Task, UNCHANGED proc,
         \E s, n : /\ store' = [store EXCEPT ![t] = [state |-> s, retry_count |-> n]]
                   /\ ~Shutting => <<store[t].state, s>> \in
                        {<<"none", "Pending">>, <<"Pending", "Running">>, <<"Running", "Completed">>,
                         <<"Running", "Failed">>, <<"Failed", "Pending">>, <<"Completed", "none">>,
                         <<"Failed", "none">>}
  PROVE  Lifecycle!Next
<1>1. PICK s, n : /\ store' = [store EXCEPT ![t] = [state |-> s, retry_count |-> n]]
                  /\ ~Shutting => <<store[t].state, s>> \in
                       {<<"none", "Pending">>, <<"Pending", "Running">>, <<"Running", "Completed">>,
                        <<"Running", "Failed">>, <<"Failed", "Pending">>, <<"Completed", "none">>,
                        <<"Failed", "none">>}
  BY Zenon
<1>2. Life' = [Life EXCEPT ![t] = s] /\ Life[t] = store[t].state
  BY <1>1, Zenon DEF Life, TypeOK
<1>3. Life' \in [Task -> Lifecycle!State]
  BY DEF Life, TypeOK, TaskState, NoTask, Lifecycle!State
<1>4. Shutting' = Shutting
  BY Zenon DEF Shutting
<1>5. CASE Shutting
  BY <1>3, <1>4, <1>5, Zenon DEF Lifecycle!Next, Lifecycle!Terminate, Life
<1>6. CASE ~Shutting
  <2> DEFINE M(from, to) == Life[t] = from /\ Life' = [Life EXCEPT ![t] = to]
  <2>1. \/ M("none", "Pending") \/ M("Pending", "Running") \/ M("Running", "Completed")
        \/ M("Running", "Failed") \/ M("Failed", "Pending") \/ M("Completed", "none")
        \/ M("Failed", "none")
    BY <1>1, <1>2, <1>6, Zenon
  <2>2. Lifecycle!Step
    BY <2>1, Zenon DEF Lifecycle!Step, Lifecycle!Accept, Lifecycle!Begin, Lifecycle!Succeed,
       Lifecycle!Fail, Lifecycle!Retry, Lifecycle!Remove, Lifecycle!Move, Life
  <2> QED
    BY <1>4, <1>6, <2>2, Zenon DEF Lifecycle!Next
<1> QED
  BY <1>5, <1>6, Zenon

\* Every record goes through the states of TaskLifecycle and no others, unless a
\* kill empties the file: requests, retries, recovery after kills, executions and
\* removals each make one of its moves, or none.
THEOREM FollowsLifecycle ==
  ASSUME CoSerializes
  PROVE  Spec /\ SavesWhole => ImplementsLifecycle
<1> DEFINE Inv == TypeInv /\ IndInv /\ RecordsInv
<1>1. Init => Lifecycle!Init
  BY DEF Init, Lifecycle!Init, NoTasks, NoTask, Shutting
<1>2. Inv /\ Inv' /\ [Next]_vars /\ [Crash => UNCHANGED store]_vars
        => [Lifecycle!Next]_<<Life, Shutting>>
  <2> SUFFICES ASSUME Inv, Inv', [Next]_vars, [Crash => UNCHANGED store]_vars
               PROVE  Lifecycle!Next \/ UNCHANGED <<Life, Shutting>>
    BY Zenon
  <2>t. TypeOK /\ TypeOK' /\ OwnInv
    BY Zenon DEF TypeInv
  <2> USE DEF storeVars, procVars
  <2>1. CASE \E c \in Client, t \in Task : RunTask(c, t)
    BY <2>1, Zenon DEF RunTask, Life, Shutting, storeVars, procVars
  <2>2. ASSUME NEW c \in Thread,
               \/ ReadCurrent(c) \/ (\E r \in Run : Submit(c, r)) \/ SubmitRaises(c) \/ Register(c)
               \/ AddCallback(c) \/ CallbackReturned(c)
        PROVE  UNCHANGED <<Life, Shutting>>
    BY <2>2, Zenon DEF ReadCurrent, Submit, SubmitRaises, Register, AddCallback,
       CallbackReturned, Life, Shutting, storeVars, procVars
  <2>3. ASSUME NEW c \in Thread, SavePending(c) PROVE Lifecycle!Next
    <3>1. job[c] \in Task
      BY <2>t, <2>3, Zenon DEF SavePending, OwnInv, InCall
    <3>2. ~Shutting => store[job[c]].state \in {"none", FAILED}
      <4>1. CASE c = RetryWorker
        BY <2>3, <4>1, Zenon DEF SavePending, RecordsInv, RecordInv
      <4>2. CASE c # RetryWorker
        <5>1. c \in Client /\ pc[c] = "save_pending"
          BY <2>3, <4>2, Zenon DEF SavePending, Thread, procVars
        <5>2. ~Shutting => proc = "up"
          BY <2>t, <5>1, Zenon DEF IndInv, ProcInv, TypeOK, Shutting
        <5>3. ~Shutting => store[job[c]] = NoTask
          BY <5>1, <5>2, Zenon DEF IndInv, AcceptInv, Saved
        <5> QED
          BY <5>3 DEF NoTask
      <4> QED
        BY <4>1, <4>2, Zenon
    <3> QED
      BY <2>t, <2>3, <3>1, <3>2, OneMoves, ZenonT(40) DEF SavePending, save_task, procVars
  <2>4. ASSUME NEW c \in Thread, SaveRunning(c) PROVE Lifecycle!Next
    <3>1. job[c] \in Task
      BY <2>t, <2>4, Zenon DEF SaveRunning, OwnInv, InCall
    <3>2. ~Shutting => store[job[c]].state = PENDING
      BY <2>4, Zenon DEF SaveRunning, RecordsInv, ShownInv, procVars
    <3> QED
      BY <2>t, <2>4, <3>1, <3>2, OneMoves, ZenonT(40) DEF SaveRunning, save_task, procVars
  <2>5. ASSUME NEW r \in Run, BeginExecution(r) \/ EndExecution(r) \/ PopEntry(r)
        PROVE  UNCHANGED <<Life, Shutting>>
    BY <2>5, Zenon DEF BeginExecution, EndExecution, PopEntry, Life, Shutting, storeVars,
       procVars
  <2>6. ASSUME NEW r \in Run, SaveOutcome(r)
        PROVE  Lifecycle!Next \/ UNCHANGED <<Life, Shutting>>
    <3>1. of[r] \in Task
      BY <2>t, <2>6, Zenon DEF SaveOutcome, OwnInv, Active, procVars
    <3>2. ~Shutting => store[of[r]].state = RUNNING
      BY <2>6, Zenon DEF SaveOutcome, RecordsInv, ShownInv, procVars
    <3>3. CASE UNCHANGED store
      BY <2>6, <3>3, Zenon DEF SaveOutcome, Life, Shutting, procVars
    <3>4. CASE \E s \in {COMPLETED, FAILED}, n \in Int : save_task(of[r], s, n)
      BY <2>t, <2>6, <3>1, <3>2, <3>4, OneMoves, ZenonT(40) DEF SaveOutcome, save_task, procVars
    <3>5. UNCHANGED store \/ \E s \in {COMPLETED, FAILED}, n \in Int : save_task(of[r], s, n)
      BY <2>t, <2>6 DEF SaveOutcome, OwnInv, TypeOK, Increment, CountCap, procVars
    <3> QED
      BY <3>3, <3>4, <3>5, Zenon
  <2>7. CASE \/ RetryScan \/ DropScan \/ CleanScan \/ Sleep \/ RetryWorkerExits
             \/ \E t \in Task : RetryTask(t)
    BY <2>7, Zenon DEF RetryScan, DropScan, CleanScan, Sleep, RetryWorkerExits, RetryTask, Life,
       Shutting, storeVars, procVars
  <2>8. ASSUME NEW t \in Task, RemoveTask(t) PROVE Lifecycle!Next
    <3>1. ~Shutting => store[t].state \in {FAILED, COMPLETED}
      BY <2>8, Zenon DEF RemoveTask, RecordsInv, ShownInv
    <3> QED
      BY <2>t, <2>8, <3>1, OneMoves, ZenonT(40) DEF RemoveTask, NoTask, procVars
  <2>9. CASE Boot \/ Started \/ Shutdown
    BY <2>9 DEF Boot, Started, Shutdown, Life, Shutting, Lifecycle!Next, Lifecycle!Terminate
  <2>10. ASSUME NEW t \in Task, Recover(t) PROVE Lifecycle!Next
    BY <2>t, <2>10, OneMoves, ZenonT(40) DEF Recover, save_task, InState, procVars
  <2>11. CASE DrainRound \/ Drained \/ DrainTimeout \/ CloseExecutor
    BY <2>11 DEF DrainRound, Drained, DrainTimeout, CloseExecutor, Life, Shutting, storeVars
  <2>12. ASSUME NEW t \in Task, NEW r \in Run, MarkFailed(t, r) PROVE Lifecycle!Next
    BY <2>t, <2>12, OneMoves, ZenonT(40) DEF MarkFailed, save_task, Shutting
  <2>13. CASE Exit \/ Crash
    <3>1. UNCHANGED store /\ proc' = "down"
      BY <2>13, Zenon DEF Exit, Crash, ProcessEnds, vars, storeVars, procVars
    <3> QED
      BY <3>1 DEF Life, Shutting, Lifecycle!Next, Lifecycle!Gone
  <2>14. CASE UNCHANGED vars
    BY <2>14, Zenon DEF vars, Life, Shutting, storeVars, procVars
  <2> QED
    BY <2>1, <2>2, <2>3, <2>4, <2>5, <2>6, <2>7, <2>8, <2>9, <2>10, <2>11, <2>12, <2>13, <2>14, Zenon
       DEF Next, ThreadStep, RetryStep, StartStep, ShutdownStep
<1> QED
  BY <1>1, <1>2, RecordsInductive, PTL DEF Spec, SavesWhole, ImplementsLifecycle,
     Lifecycle!Spec, Life

=============================================================================

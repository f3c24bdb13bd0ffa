----------------------- MODULE TaskManagerCallProofs -----------------------
(***************************************************************************)
(* Proofs about TaskManager, for every set of tasks, clients and           *)
(* executions and every value of the limits: the types, and the parts of   *)
(* the inductive invariant about calls of run_task_ext, executions, and    *)
(* the records that they save.                                             *)
(***************************************************************************)
EXTENDS TaskManager, TLAPS

USE DEF PENDING, RUNNING, FAILED, COMPLETED

TypeInv == TypeOK /\ OwnInv

\* No tasks and no calls at the start.
LEMMA InitType == Init => TypeInv
  BY ConstantsAssumption DEF Init, TypeInv, TypeOK, OwnInv, NoTasks, NoTask, Thread, PC, InCall,
     Submitted, Active, RetryWorker, NoRun, NoJob, TaskState

\* Every step keeps the types: what a thread or a callback takes from another
\* variable (a task, an execution) is there when it takes it.
LEMMA StepType == TypeInv /\ [Next]_vars => TypeInv'
<1> SUFFICES ASSUME TypeInv, [Next]_vars PROVE TypeInv'
  BY Zenon
<1>1. ASSUME NEW c \in Client, NEW t \in Task, RunTask(c, t)
      PROVE  TypeInv'
  BY <1>1, ConstantsAssumption, SMTT(30) DEF RunTask, Goto, TypeInv, TypeOK, OwnInv, storeVars, runVars,
     procVars, PC, InCall, Submitted, Active, NoTask, NoRun, NoJob, RetryWorker, TaskState,
     Thread
<1>2. ASSUME NEW c \in Thread, ThreadStep(c)
      PROVE  TypeInv'
  BY <1>2, ConstantsAssumption, SMTT(30) DEF ThreadStep, ReadCurrent, Goto, Leave, Saved,
     SavePending, save_task, Submit, Garbage, Done, SubmitRaises, Raised, SaveRunning, Register,
     AddCallback, Returned, CallbackReturned, TypeInv, TypeOK, OwnInv, storeVars, runVars,
     procVars, PC, InCall, Submitted, Active, NoTask, NoRun, NoJob, RetryWorker, TaskState,
     Thread
<1>3. ASSUME NEW r \in Run, BeginExecution(r) \/ EndExecution(r) \/ PopEntry(r) \/ SaveOutcome(r)
      PROVE  TypeInv'
  BY <1>3, ConstantsAssumption, SMTT(30) DEF BeginExecution, EndExecution, Increment, CountCap,
     PopEntry, SaveOutcome, save_task, TypeInv, TypeOK, OwnInv, storeVars, threadVars, procVars,
     PC, InCall, Submitted, Active, NoTask, NoRun, NoJob, RetryWorker, TaskState, Thread
<1>4. CASE RetryStep
  BY <1>4, ConstantsAssumption, SMTT(30) DEF RetryStep, RetryScan, Goto, Retriable, RetryTask, DropScan,
     NotRetriable, CleanScan, InState, RemoveTask, Sleep, RetryWorkerExits, TypeInv, TypeOK,
     OwnInv, storeVars, runVars, procVars, PC, InCall, Submitted, Active, NoTask, NoRun, NoJob,
     RetryWorker, TaskState, Thread
<1>5. CASE StartStep
  BY <1>5, ConstantsAssumption DEF StartStep, Recover, save_task, InState, Started, Goto, Boot,
     TypeInv, TypeOK, OwnInv, storeVars, runVars, threadVars, procVars, PC, InCall, Submitted,
     Active, NoTask, NoRun, NoJob, RetryWorker, TaskState, Thread
<1>6. CASE Shutdown \/ DrainRound \/ Drained \/ DrainTimeout \/ CloseExecutor
  BY <1>6, ConstantsAssumption DEF Shutdown, DrainRound, Drained, DrainTimeout, CloseExecutor,
     TypeInv, TypeOK, OwnInv, storeVars, runVars, threadVars, PC, InCall, Submitted, Active,
     NoTask, NoRun, NoJob, RetryWorker, TaskState, Thread
<1>7. ASSUME NEW t \in Task, NEW r \in Run, MarkFailed(t, r)
      PROVE  TypeInv'
  BY <1>7, ConstantsAssumption DEF MarkFailed, save_task, TypeInv, TypeOK, OwnInv, runVars,
     threadVars, PC, InCall, Submitted, Active, NoTask, NoRun, NoJob, RetryWorker, TaskState,
     Thread
<1>8. CASE Exit \/ Crash
  BY <1>8, ConstantsAssumption DEF Exit, ProcessEnds, Crash, NoTasks, TypeInv, TypeOK, OwnInv,
     storeVars, PC, InCall, Submitted, Active, NoTask, NoRun, NoJob, RetryWorker, TaskState,
     Thread
<1>9. CASE UNCHANGED vars
  BY <1>9, ConstantsAssumption DEF vars, TypeInv, TypeOK, OwnInv, storeVars, runVars,
     threadVars, procVars, PC, InCall, Submitted, Active, NoTask, NoRun, NoJob, RetryWorker,
     TaskState, Thread
<1> QED
  BY <1>1, <1>2, <1>3, <1>4, <1>5, <1>6, <1>7, <1>8, <1>9, Zenon DEF Next, ShutdownStep

\* Every variable keeps the kind of value its declaration says, whatever the
\* interleaving of requests, executions, retries, shutdowns and kills.
THEOREM TypeCorrect == Spec => []TypeOK
<1>1. TypeInv => TypeOK
  BY Zenon DEF TypeInv
<1> QED
  BY InitType, StepType, <1>1, PTL DEF Spec

-----------------------------------------------------------------------------
(* One execution at a time *)

\* What a step may rely on.
Before == CoSerializes /\ TypeInv /\ IndInv /\ [Next]_vars

\* A thread holds a task only within a call, and two request threads never the
\* same one: that is what the CO guarantees.
LEMMA JobsStep == Before => JobsInv'
<1> SUFFICES ASSUME CoSerializes, TypeOK, OwnInv, JobsInv, ProcInv, [Next]_vars PROVE JobsInv'
  BY Zenon DEF Before, TypeInv, IndInv
<1>1. ASSUME NEW c \in Client, NEW t \in Task, RunTask(c, t)
      PROVE  JobsInv'
  BY <1>1, ConstantsAssumption, Zenon DEF RunTask, Goto, TypeOK, JobsInv, storeVars, runVars, procVars,
     PC, InCall, NoTask, NoRun, NoJob, RetryWorker, TaskState, Thread
<1>2. ASSUME NEW c \in Thread, ThreadStep(c)
      PROVE  JobsInv'
  BY <1>2, ConstantsAssumption DEF ThreadStep, ReadCurrent, Goto, Leave, Saved, SavePending,
     save_task, Submit, Garbage, Done, SubmitRaises, Raised, SaveRunning, Register, AddCallback,
     Returned, CallbackReturned, TypeOK, JobsInv, storeVars, runVars, procVars, PC, InCall,
     NoTask, NoRun, NoJob, RetryWorker, TaskState, Thread
<1>3. ASSUME NEW r \in Run, BeginExecution(r) \/ EndExecution(r) \/ PopEntry(r) \/ SaveOutcome(r)
      PROVE  JobsInv'
  BY <1>3, ConstantsAssumption DEF BeginExecution, EndExecution, Increment, CountCap, PopEntry,
     SaveOutcome, save_task, TypeOK, JobsInv, storeVars, threadVars, procVars, PC, InCall,
     NoTask, NoRun, NoJob, RetryWorker, TaskState, Thread
<1>4. CASE RetryStep
  BY <1>4, ConstantsAssumption DEF RetryStep, RetryScan, Goto, Retriable, RetryTask, DropScan,
     NotRetriable, CleanScan, InState, RemoveTask, Sleep, RetryWorkerExits, TypeOK, JobsInv,
     storeVars, runVars, procVars, PC, InCall, Shutting, Saved, NoTask, NoRun, NoJob,
     RetryWorker, TaskState, Thread
<1>5. CASE StartStep
  BY <1>5, ConstantsAssumption DEF StartStep, Recover, save_task, InState, Started, Goto, Boot,
     TypeOK, JobsInv, ProcInv, storeVars, runVars, threadVars, procVars, PC, InCall, Active,
     NoTask, NoRun, NoJob, RetryWorker, TaskState, Thread
<1>6. CASE Shutdown \/ DrainRound \/ Drained \/ DrainTimeout \/ CloseExecutor
  BY <1>6, ConstantsAssumption DEF Shutdown, DrainRound, Drained, DrainTimeout, CloseExecutor,
     TypeOK, JobsInv, storeVars, runVars, threadVars, PC, InCall, NoTask, NoRun, NoJob,
     RetryWorker, TaskState, Thread
<1>7. ASSUME NEW t \in Task, NEW r \in Run, MarkFailed(t, r)
      PROVE  JobsInv'
  BY <1>7, ConstantsAssumption, Zenon DEF MarkFailed, save_task, JobsInv, runVars, threadVars,
     InCall, NoRun, NoJob, RetryWorker, Thread
<1>8. CASE Exit \/ Crash
  BY <1>8, ConstantsAssumption DEF Exit, ProcessEnds, Crash, NoTasks, JobsInv, storeVars,
     InCall, NoTask, NoRun, NoJob, RetryWorker, Thread
<1>9. CASE UNCHANGED vars
  BY <1>9, ConstantsAssumption, Zenon DEF vars, JobsInv, storeVars, runVars, threadVars,
     procVars, InCall, NoRun, NoJob, RetryWorker, Thread
<1> QED
  BY <1>1, <1>2, <1>3, <1>4, <1>5, <1>6, <1>7, <1>8, <1>9, Zenon DEF Next, ShutdownStep

\* A process that is down or starting holds nothing in memory, and to_kill is
\* filled only while it shuts down.
LEMMA ProcStep == Before => ProcInv'
<1> SUFFICES ASSUME CoSerializes, TypeOK, ProcInv, JobsInv, [Next]_vars PROVE ProcInv'
  BY Zenon DEF Before, TypeInv, IndInv
<1>1. ASSUME NEW c \in Client, NEW t \in Task, RunTask(c, t)
      PROVE  ProcInv'
  BY <1>1, ConstantsAssumption, Zenon DEF RunTask, Goto, ProcInv, storeVars, runVars, procVars,
     Active, NoRun, NoJob, RetryWorker, Thread
<1>2. ASSUME NEW c \in Thread, ThreadStep(c)
      PROVE  ProcInv'
  BY <1>2, ConstantsAssumption, Zenon DEF ThreadStep, ReadCurrent, Goto, Leave, Saved,
     SavePending, save_task, Submit, Garbage, Done, SubmitRaises, Raised, SaveRunning, Register,
     AddCallback, Returned, CallbackReturned, ProcInv, storeVars, runVars, procVars, Active,
     NoTask, NoRun, NoJob, RetryWorker, Thread
<1>3. ASSUME NEW r \in Run, BeginExecution(r) \/ EndExecution(r) \/ PopEntry(r) \/ SaveOutcome(r)
      PROVE  ProcInv'
  BY <1>3, ConstantsAssumption DEF BeginExecution, EndExecution, Increment, CountCap, PopEntry,
     SaveOutcome, save_task, TypeOK, ProcInv, storeVars, threadVars, procVars, PC, Active,
     NoTask, NoRun, NoJob, RetryWorker, TaskState, Thread
<1>4. CASE RetryStep
  BY <1>4, ConstantsAssumption, Zenon DEF RetryStep, RetryScan, Goto, Retriable, RetryTask,
     DropScan, NotRetriable, CleanScan, InState, RemoveTask, Sleep, RetryWorkerExits, ProcInv,
     storeVars, runVars, procVars, Active, Shutting, Saved, NoTask, NoRun, NoJob, RetryWorker,
     Thread
<1>5. CASE StartStep
  BY <1>5, ConstantsAssumption DEF StartStep, Recover, save_task, InState, Started, Goto, Boot,
     TypeOK, ProcInv, storeVars, runVars, threadVars, procVars, PC, Active, NoTask, NoRun,
     NoJob, RetryWorker, TaskState, Thread
<1>6. CASE Shutdown \/ DrainRound \/ Drained \/ DrainTimeout \/ CloseExecutor
  BY <1>6, ConstantsAssumption, Zenon DEF Shutdown, DrainRound, Drained, DrainTimeout,
     CloseExecutor, ProcInv, storeVars, runVars, threadVars, Active, NoRun, NoJob, RetryWorker,
     Thread
<1>7. ASSUME NEW t \in Task, NEW r \in Run, MarkFailed(t, r)
      PROVE  ProcInv'
  BY <1>7, ConstantsAssumption, Zenon DEF MarkFailed, save_task, ProcInv, runVars, threadVars,
     Active, NoRun, NoJob, RetryWorker, Thread
<1>8. CASE Exit \/ Crash
  BY <1>8, ConstantsAssumption DEF Exit, ProcessEnds, Crash, NoTasks, ProcInv, storeVars,
     Active, NoTask, NoRun, NoJob, RetryWorker, Thread
<1>9. CASE UNCHANGED vars
  BY <1>9, ConstantsAssumption, Zenon DEF vars, ProcInv, storeVars, runVars, threadVars,
     procVars, Active, NoRun, NoJob, RetryWorker, Thread
<1> QED
  BY <1>1, <1>2, <1>3, <1>4, <1>5, <1>6, <1>7, <1>8, <1>9, Zenon DEF Next, ShutdownStep

\* The dictionary of registered executions and the callbacks agree: an added
\* callback finds its own execution.
LEMMA RunsStep == Before => RunsInv'
<1> SUFFICES ASSUME CoSerializes, TypeOK, OwnInv, RunsInv, CallsInv, ExclusiveInv, ProcInv,
       [Next]_vars PROVE RunsInv'
  BY Zenon DEF Before, TypeInv, IndInv
<1>1. ASSUME NEW c \in Client, NEW t \in Task, RunTask(c, t)
      PROVE  RunsInv'
  BY <1>1, ConstantsAssumption, ZenonT(30) DEF RunTask, Goto, RunsInv, storeVars, runVars, procVars,
     Active, Live, NoRun, NoJob, RetryWorker, Thread
<1>2. ASSUME NEW c \in Thread, ThreadStep(c)
      PROVE  RunsInv'
  BY <1>2, ConstantsAssumption, SMTT(30) DEF ThreadStep, ReadCurrent, Goto, Leave, Saved, SavePending,
     save_task, Submit, Garbage, Done, SubmitRaises, Raised, SaveRunning, Register, AddCallback,
     Returned, CallbackReturned, TypeOK, OwnInv, RunsInv, CallsInv, ExclusiveInv, storeVars,
     runVars, procVars, PC, InCall, Submitted, Active, ActiveOf, Calling, Live, NoTask, NoRun,
     NoJob, RetryWorker, TaskState, Thread
<1>3. ASSUME NEW r \in Run, BeginExecution(r) \/ EndExecution(r) \/ PopEntry(r) \/ SaveOutcome(r)
      PROVE  RunsInv'
  BY <1>3, ConstantsAssumption DEF BeginExecution, EndExecution, Increment, CountCap, PopEntry,
     SaveOutcome, save_task, TypeOK, OwnInv, RunsInv, storeVars, threadVars, procVars, PC,
     InCall, Submitted, Active, Live, NoTask, NoRun, NoJob, RetryWorker, TaskState, Thread
<1>4. CASE RetryStep
  BY <1>4, ConstantsAssumption DEF RetryStep, RetryScan, Goto, Retriable, RetryTask, DropScan,
     NotRetriable, CleanScan, InState, RemoveTask, Sleep, RetryWorkerExits, TypeOK, RunsInv,
     storeVars, runVars, procVars, PC, Active, Live, Shutting, Saved, NoTask, NoRun, NoJob,
     RetryWorker, TaskState, Thread
<1>5. CASE StartStep
  BY <1>5, ConstantsAssumption DEF StartStep, Recover, save_task, InState, Started, Goto, Boot,
     TypeOK, RunsInv, storeVars, runVars, threadVars, procVars, PC, Active, Live, NoTask, NoRun,
     NoJob, RetryWorker, TaskState, Thread
<1>6. CASE Shutdown \/ DrainRound \/ Drained \/ DrainTimeout \/ CloseExecutor
  BY <1>6, ConstantsAssumption DEF Shutdown, DrainRound, Drained, DrainTimeout, CloseExecutor,
     TypeOK, RunsInv, storeVars, runVars, threadVars, PC, Active, Live, NoTask, NoRun, NoJob,
     RetryWorker, TaskState, Thread
<1>7. ASSUME NEW t \in Task, NEW r \in Run, MarkFailed(t, r)
      PROVE  RunsInv'
  BY <1>7, ConstantsAssumption, Zenon DEF MarkFailed, save_task, RunsInv, runVars, threadVars,
     Active, Live, NoRun, NoJob, RetryWorker, Thread
<1>8. CASE Exit \/ Crash
  BY <1>8, ConstantsAssumption DEF Exit, ProcessEnds, Crash, NoTasks, RunsInv, storeVars,
     Active, Live, NoTask, NoRun, NoJob, RetryWorker, Thread
<1>9. CASE UNCHANGED vars
  BY <1>9, ConstantsAssumption, Zenon DEF vars, RunsInv, storeVars, runVars, threadVars,
     procVars, Active, Live, NoRun, NoJob, RetryWorker, Thread
<1> QED
  BY <1>1, <1>2, <1>3, <1>4, <1>5, <1>6, <1>7, <1>8, <1>9, Zenon DEF Next, ShutdownStep

\* A thread that has submitted an execution keeps it until the callback is added.
LEMMA CallsStep == Before => CallsInv'
<1> SUFFICES ASSUME CoSerializes, TypeOK, OwnInv, JobsInv, CallsInv, ExclusiveInv, RetryReadInv,
       RunsInv, [Next]_vars PROVE CallsInv'
  BY Zenon DEF Before, TypeInv, IndInv
<1>1. ASSUME NEW c \in Client, NEW t \in Task, RunTask(c, t)
      PROVE  CallsInv'
  BY <1>1, ConstantsAssumption, SMTT(30) DEF RunTask, Goto, CallsInv, storeVars, runVars, procVars,
     InCall, Submitted, NoRun, NoJob, RetryWorker, Thread
<1>2. ASSUME NEW c \in Thread, ThreadStep(c)
      PROVE  CallsInv'
  BY <1>2, ConstantsAssumption, SMTT(30) DEF ThreadStep, ReadCurrent, Goto, Leave, Saved, SavePending,
     save_task, Submit, Garbage, Done, SubmitRaises, Raised, SaveRunning, Register, AddCallback,
     Returned, CallbackReturned, TypeOK, OwnInv, CallsInv, ExclusiveInv, RetryReadInv,
     storeVars, runVars, procVars, PC, InCall, Submitted, Active, ActiveOf, Calling, NoTask,
     NoRun, NoJob, RetryWorker, TaskState, Thread
<1>3. ASSUME NEW r \in Run, BeginExecution(r) \/ EndExecution(r) \/ PopEntry(r) \/ SaveOutcome(r)
      PROVE  CallsInv'
  BY <1>3, ConstantsAssumption, SMTT(30) DEF BeginExecution, EndExecution, Increment, CountCap, PopEntry,
     SaveOutcome, save_task, TypeOK, OwnInv, CallsInv, RunsInv, storeVars, threadVars, procVars,
     PC, InCall, Submitted, Active, Live, NoTask, NoRun, NoJob, RetryWorker, TaskState, Thread
<1>4. CASE RetryStep
  BY <1>4, ConstantsAssumption DEF RetryStep, RetryScan, Goto, Retriable, RetryTask, DropScan,
     NotRetriable, CleanScan, InState, RemoveTask, Sleep, RetryWorkerExits, TypeOK, CallsInv,
     storeVars, runVars, procVars, PC, InCall, Submitted, Shutting, Saved, NoTask, NoRun, NoJob,
     RetryWorker, TaskState, Thread
<1>5. CASE StartStep
  BY <1>5, ConstantsAssumption DEF StartStep, Recover, save_task, InState, Started, Goto, Boot,
     TypeOK, CallsInv, storeVars, runVars, threadVars, procVars, PC, InCall, Submitted, NoTask,
     NoRun, NoJob, RetryWorker, TaskState, Thread
<1>6. CASE Shutdown \/ DrainRound \/ Drained \/ DrainTimeout \/ CloseExecutor
  BY <1>6, ConstantsAssumption, Zenon DEF Shutdown, DrainRound, Drained, DrainTimeout,
     CloseExecutor, TypeOK, CallsInv, storeVars, runVars, threadVars, PC, InCall, Submitted,
     NoTask, NoRun, NoJob, RetryWorker, TaskState, Thread
<1>7. ASSUME NEW t \in Task, NEW r \in Run, MarkFailed(t, r)
      PROVE  CallsInv'
  BY <1>7, ConstantsAssumption, Zenon DEF MarkFailed, save_task, CallsInv, runVars, threadVars,
     InCall, Submitted, NoRun, NoJob, RetryWorker, Thread
<1>8. CASE Exit \/ Crash
  BY <1>8, ConstantsAssumption, Zenon DEF Exit, ProcessEnds, Crash, NoTasks, CallsInv, storeVars,
     InCall, Submitted, NoTask, NoRun, NoJob, RetryWorker, Thread
<1>9. CASE UNCHANGED vars
  BY <1>9, ConstantsAssumption, Zenon DEF vars, CallsInv, storeVars, runVars, threadVars,
     procVars, InCall, Submitted, NoRun, NoJob, RetryWorker, Thread
<1> QED
  BY <1>1, <1>2, <1>3, <1>4, <1>5, <1>6, <1>7, <1>8, <1>9, Zenon DEF Next, ShutdownStep

-----------------------------------------------------------------------------
(* The records of tasks.json *)

\* What a record says whatever the process is doing: a task that is retried is
\* FAILED until the retry saves it, and only tasks below max_retry are submitted.
RecordInv ==
  /\ \A t \in Task : store[t].state \in {PENDING, RUNNING} => store[t].retry_count < MaxRetry
  /\ \A r \in Run : /\ fut[r] = "cancelled" => proc = "closed"
                    /\ cb[r] = "added" => Live(r)
  /\ Shutting => shutdowns > 0
  /\ pc[RetryWorker] \in {"read", "save_pending"} =>
       /\ store[job[RetryWorker]].state = FAILED
       /\ \A r \in Run : <<job[RetryWorker], r>> \notin toKill

\* Until a termination is requested, the record of a task is in step with the
\* thread or execution that works on it, and with the lists of tasks to remove.
ShownInv ==
  ~Shutting =>
    /\ \A c \in Thread : /\ pc[c] \in {"submit", "save_running"} => store[job[c]].state = PENDING
                         /\ pc[c] \in {"register", "add_callback"} => store[job[c]].state = RUNNING
    /\ \A r \in Run : cb[r] \in {"added", "pop", "eval"} => store[of[r]].state = RUNNING
    /\ pc[RetryWorker] \in {"dropping", "cleaning"} =>
         \A t \in todo : store[t].state \in {FAILED, COMPLETED}

\* Who will record the end of a task that is recorded as running.
OwnedInv ==
  proc = "up" => \A t \in InState(RUNNING) :
    \/ \E c \in Thread : pc[c] \in {"register", "add_callback"} /\ job[c] = t
    \/ \E r \in Run : cb[r] \in {"added", "pop", "eval"} /\ of[r] = t

\* A retried task stays FAILED until it is saved as PENDING.
LEMMA RecordStep == Before /\ RecordInv => RecordInv'
<1> SUFFICES ASSUME CoSerializes, TypeOK, OwnInv, JobsInv, ProcInv, RunsInv, CallsInv,
       ExclusiveInv, RetryReadInv, RetryListInv, RecordInv, [Next]_vars PROVE RecordInv'
  BY Zenon DEF Before, TypeInv, IndInv
<1>1. ASSUME NEW c \in Client, NEW t \in Task, RunTask(c, t)
      PROVE  RecordInv'
  BY <1>1, ConstantsAssumption, SMTT(30) DEF RunTask, Goto, RecordInv, storeVars, runVars, procVars, Live,
     Shutting, NoRun, NoJob, RetryWorker, Thread
<1>2. ASSUME NEW c \in Thread, ThreadStep(c)
      PROVE  RecordInv'
  BY <1>2, ConstantsAssumption, SMTT(30) DEF ThreadStep, ReadCurrent, Goto, Leave, Saved,
     SavePending, save_task, Submit, Garbage, Done, SubmitRaises, Raised, SaveRunning, Register,
     AddCallback, Returned, CallbackReturned, TypeOK, OwnInv, RunsInv, CallsInv, ExclusiveInv,
     RetryReadInv, RecordInv, storeVars, runVars, procVars, PC, InCall, Submitted, Active,
     ActiveOf, Calling, Live, Shutting, NoTask, NoRun, NoJob, RetryWorker, TaskState, Thread
<1>3. ASSUME NEW r \in Run, BeginExecution(r) \/ EndExecution(r) \/ PopEntry(r) \/ SaveOutcome(r)
      PROVE  RecordInv'
  BY <1>3, ConstantsAssumption, SMTT(30) DEF BeginExecution, EndExecution, Increment, CountCap,
     PopEntry, SaveOutcome, save_task, Done, TypeOK, OwnInv, ExclusiveInv, RetryReadInv,
     RecordInv, storeVars, threadVars, procVars, PC, InCall, Submitted, Active, ActiveOf,
     Calling, Live, Shutting, NoTask, NoRun, NoJob, RetryWorker, TaskState, Thread
<1>4. CASE RetryStep
  BY <1>4, ConstantsAssumption DEF RetryStep, RetryScan, Goto, Retriable, RetryTask, DropScan,
     NotRetriable, CleanScan, InState, RemoveTask, Sleep, RetryWorkerExits, TypeOK, ProcInv,
     RetryListInv, RecordInv, storeVars, runVars, procVars, PC, InCall, Active, ActiveOf,
     Calling, Live, Shutting, Saved, NoTask, NoRun, NoJob, RetryWorker, TaskState, Thread
<1>5. CASE StartStep
  BY <1>5, ConstantsAssumption, SMTT(30) DEF StartStep, Recover, save_task, InState, Started,
     Goto, Boot, TypeOK, ProcInv, RecordInv, storeVars, runVars, threadVars, procVars, PC,
     Active, Live, Shutting, NoTask, NoRun, NoJob, RetryWorker, TaskState, Thread
<1>6. CASE Shutdown \/ DrainRound \/ Drained \/ DrainTimeout \/ CloseExecutor
  BY <1>6, ConstantsAssumption DEF Shutdown, DrainRound, Drained, DrainTimeout, CloseExecutor,
     TypeOK, RunsInv, ExclusiveInv, RetryReadInv, RecordInv, storeVars, runVars, threadVars, PC,
     InCall, Active, ActiveOf, Calling, Live, Shutting, NoTask, NoRun, NoJob, RetryWorker,
     TaskState, Thread
<1>7. ASSUME NEW t \in Task, NEW r \in Run, MarkFailed(t, r)
      PROVE  RecordInv'
  BY <1>7, ConstantsAssumption DEF MarkFailed, save_task, RecordInv, runVars, threadVars, Live,
     Shutting, NoRun, NoJob, RetryWorker, Thread
<1>8. CASE Exit \/ Crash
  BY <1>8, ConstantsAssumption DEF Exit, ProcessEnds, Crash, NoTasks, TypeOK, RecordInv,
     storeVars, PC, Live, Shutting, NoTask, NoRun, NoJob, RetryWorker, TaskState, Thread
<1>9. CASE UNCHANGED vars
  BY <1>9, ConstantsAssumption, Zenon DEF vars, RecordInv, storeVars, runVars, threadVars,
     procVars, Live, Shutting, NoRun, NoJob, RetryWorker, Thread
<1> QED
  BY <1>1, <1>2, <1>3, <1>4, <1>5, <1>6, <1>7, <1>8, <1>9, Zenon DEF Next, ShutdownStep

\* Records and executions change together.
LEMMA ShownStep == Before /\ RecordInv /\ ShownInv => ShownInv'
<1> SUFFICES ASSUME CoSerializes, TypeOK, OwnInv, JobsInv, ProcInv, RunsInv, CallsInv,
       ExclusiveInv, RemoveListInv, AcceptInv, RecordInv, ShownInv, [Next]_vars PROVE ShownInv'
  BY Zenon DEF Before, TypeInv, IndInv
<1>1. ASSUME NEW c \in Client, NEW t \in Task, RunTask(c, t)
      PROVE  ShownInv'
  BY <1>1, ConstantsAssumption DEF RunTask, Goto, ShownInv, storeVars, runVars, procVars,
     Shutting, NoRun, NoJob, RetryWorker, Thread
<1>2. ASSUME NEW c \in Thread, ThreadStep(c)
      PROVE  ShownInv'
  <2>1. CASE ReadCurrent(c)
    BY <2>1, ConstantsAssumption, SMTT(30) DEF ReadCurrent, Leave, Goto, TypeOK, ShownInv, storeVars,
       runVars, procVars, PC, Shutting, Saved, NoTask, NoRun, NoJob, RetryWorker, TaskState,
       Thread
  <2>2. CASE SavePending(c)
    BY <2>2, ConstantsAssumption, SMTT(30) DEF SavePending, save_task, Goto, TypeOK, OwnInv, ProcInv,
       AcceptInv, RecordInv, ShownInv, runVars, procVars, PC, InCall, Submitted, Active, Live,
       Shutting, Saved, NoTask, NoRun, NoJob, RetryWorker, TaskState, Thread
  <2>3. ASSUME NEW r \in Run, Submit(c, r) PROVE ShownInv'
    BY <2>3, ConstantsAssumption DEF Submit, Garbage, Done, Goto, TypeOK, ShownInv, storeVars,
       procVars, PC, Shutting, NoTask, NoRun, NoJob, RetryWorker, TaskState, Thread
  <2>4. CASE SubmitRaises(c)
    BY <2>4, ConstantsAssumption, Zenon DEF SubmitRaises, Leave, Goto, Raised, ShownInv,
       storeVars, runVars, procVars, Shutting, NoRun, NoJob, RetryWorker, Thread
  <2>5. CASE SaveRunning(c)
    BY <2>5, ConstantsAssumption, SMTT(30) DEF SaveRunning, save_task, Goto, TypeOK, OwnInv, ExclusiveInv,
       ShownInv, runVars, procVars, PC, InCall, Submitted, Active, ActiveOf, Calling, Shutting,
       NoTask, NoRun, NoJob, RetryWorker, TaskState, Thread
  <2>6. CASE Register(c)
    BY <2>6, ConstantsAssumption, SMTT(30) DEF Register, Goto, ShownInv, storeVars, runVars, procVars,
       Shutting, NoRun, NoJob, RetryWorker, Thread
  <2>7. CASE AddCallback(c)
    BY <2>7, ConstantsAssumption, SMTT(30) DEF AddCallback, Done, Leave, Goto, Returned, TypeOK, CallsInv,
       ShownInv, storeVars, procVars, PC, InCall, Submitted, Shutting, NoTask, NoRun, NoJob,
       RetryWorker, TaskState, Thread
  <2>8. CASE CallbackReturned(c)
    BY <2>8, ConstantsAssumption, SMTT(30) DEF CallbackReturned, Leave, Goto, Returned, ShownInv,
       storeVars, runVars, procVars, Shutting, NoRun, NoJob, RetryWorker, Thread
  <2> QED
    BY <1>2, <2>1, <2>2, <2>3, <2>4, <2>5, <2>6, <2>7, <2>8, Zenon DEF ThreadStep
<1>3. ASSUME NEW r \in Run, BeginExecution(r) \/ EndExecution(r) \/ PopEntry(r) \/ SaveOutcome(r)
      PROVE  ShownInv'
  BY <1>3, ConstantsAssumption, SMTT(30) DEF BeginExecution, EndExecution, Increment, CountCap, PopEntry,
     SaveOutcome, save_task, Done, TypeOK, OwnInv, JobsInv, ProcInv, RunsInv, CallsInv,
     ExclusiveInv, RemoveListInv, AcceptInv, RecordInv, ShownInv, storeVars, threadVars,
     procVars, PC, InCall, Submitted, Active, ActiveOf, Calling, Reading, Taken, Watched, Live,
     Shutting, Saved, NoTask, NoRun, NoJob, RetryWorker, TaskState, Thread
<1>4. CASE RetryStep
  BY <1>4, ConstantsAssumption DEF RetryStep, RetryScan, Goto, Retriable, RetryTask, DropScan,
     NotRetriable, CleanScan, InState, RemoveTask, Sleep, RetryWorkerExits, TypeOK, OwnInv,
     RecordInv, ShownInv, storeVars, runVars, procVars, PC, InCall, Submitted, Active, Live,
     Shutting, Saved, NoTask, NoRun, NoJob, RetryWorker, TaskState, Thread
<1>5. CASE StartStep
  BY <1>5, ConstantsAssumption DEF StartStep, Recover, save_task, InState, Started, Goto, Boot,
     TypeOK, ProcInv, ShownInv, storeVars, runVars, threadVars, procVars, PC, Active, Shutting,
     NoTask, NoRun, NoJob, RetryWorker, TaskState, Thread
<1>6. CASE Shutdown \/ DrainRound \/ Drained \/ DrainTimeout \/ CloseExecutor
  BY <1>6, ConstantsAssumption, Zenon DEF Shutdown, DrainRound, Drained, DrainTimeout,
     CloseExecutor, ShownInv, storeVars, runVars, threadVars, Shutting, NoRun, NoJob,
     RetryWorker, Thread
<1>7. ASSUME NEW t \in Task, NEW r \in Run, MarkFailed(t, r)
      PROVE  ShownInv'
  BY <1>7, ConstantsAssumption, Zenon DEF MarkFailed, save_task, ShownInv, runVars, threadVars,
     Shutting, NoRun, NoJob, RetryWorker, Thread
<1>8. CASE Exit \/ Crash
  BY <1>8, ConstantsAssumption DEF Exit, ProcessEnds, Crash, NoTasks, ShownInv, storeVars,
     Shutting, NoTask, NoRun, NoJob, RetryWorker, Thread
<1>9. CASE UNCHANGED vars
  BY <1>9, ConstantsAssumption, Zenon DEF vars, ShownInv, storeVars, runVars, threadVars,
     procVars, Shutting, NoRun, NoJob, RetryWorker, Thread
<1> QED
  BY <1>1, <1>2, <1>3, <1>4, <1>5, <1>6, <1>7, <1>8, <1>9, Zenon DEF Next, ShutdownStep

\* A task that is saved as RUNNING is handed from its thread to its execution, whose
\* callback saves another state.
LEMMA OwnedStep == Before /\ RecordInv /\ OwnedInv => OwnedInv'
<1> SUFFICES ASSUME CoSerializes, TypeOK, OwnInv, JobsInv, ProcInv, RunsInv, CallsInv,
       ExclusiveInv, RecordInv, OwnedInv, [Next]_vars PROVE OwnedInv'
  BY Zenon DEF Before, TypeInv, IndInv
<1>1. ASSUME NEW c \in Client, NEW t \in Task, RunTask(c, t)
      PROVE  OwnedInv'
  BY <1>1, ConstantsAssumption DEF RunTask, Goto, OwnedInv, storeVars, runVars, procVars, NoRun,
     NoJob, RetryWorker, Thread, InState
<1>2. ASSUME NEW c \in Thread, ThreadStep(c)
      PROVE  OwnedInv'
  <2>1. CASE ReadCurrent(c)
    BY <2>1, ConstantsAssumption DEF ReadCurrent, Leave, Goto, TypeOK, OwnedInv, storeVars,
       runVars, procVars, PC, Saved, NoTask, NoRun, NoJob, RetryWorker, TaskState, Thread,
       InState
  <2>2. CASE SavePending(c)
    BY <2>2, ConstantsAssumption DEF SavePending, save_task, Goto, OwnedInv, runVars, procVars,
       NoRun, NoJob, RetryWorker, Thread, InState
  <2>3. ASSUME NEW r \in Run, Submit(c, r) PROVE OwnedInv'
    BY <2>3, ConstantsAssumption DEF Submit, Garbage, Done, Goto, RunsInv, OwnedInv, storeVars,
       procVars, Active, Live, NoRun, NoJob, RetryWorker, Thread, InState
  <2>4. CASE SubmitRaises(c)
    BY <2>4, ConstantsAssumption, Zenon DEF SubmitRaises, Leave, Goto, Raised, OwnedInv,
       storeVars, runVars, procVars, NoRun, NoJob, RetryWorker, Thread, InState
  <2>5. CASE SaveRunning(c)
    BY <2>5, ConstantsAssumption, SMTT(30) DEF SaveRunning, save_task, Goto, TypeOK, OwnedInv, runVars,
       procVars, PC, NoTask, NoRun, NoJob, RetryWorker, TaskState, Thread, InState
  <2>6. CASE Register(c)
    BY <2>6, ConstantsAssumption, SMTT(30) DEF Register, Goto, OwnedInv, storeVars, runVars, procVars,
       NoRun, NoJob, RetryWorker, Thread, InState
  <2>7. CASE AddCallback(c)
    BY <2>7, ConstantsAssumption, SMTT(30) DEF AddCallback, Done, Leave, Goto, Returned, TypeOK,
       OwnInv, JobsInv, ProcInv, CallsInv, ExclusiveInv, RecordInv, OwnedInv, storeVars,
       procVars, PC, InCall, Submitted, Active, ActiveOf, Calling, Live, Shutting, NoTask,
       NoRun, NoJob, RetryWorker, TaskState, Thread, InState
  <2>8. CASE CallbackReturned(c)
    BY <2>8, ConstantsAssumption DEF CallbackReturned, Leave, Goto, Returned, OwnedInv,
       storeVars, runVars, procVars, NoRun, NoJob, RetryWorker, Thread, InState
  <2> QED
    BY <1>2, <2>1, <2>2, <2>3, <2>4, <2>5, <2>6, <2>7, <2>8, Zenon DEF ThreadStep
<1>3. ASSUME NEW r \in Run, BeginExecution(r) \/ EndExecution(r) \/ PopEntry(r) \/ SaveOutcome(r)
      PROVE  OwnedInv'
  <2>1. CASE BeginExecution(r)
    BY <2>1, ConstantsAssumption, Zenon DEF BeginExecution, OwnedInv, storeVars, threadVars, procVars,
       NoRun, NoJob, RetryWorker, Thread, InState
  <2>2. CASE EndExecution(r)
    BY <2>2, ConstantsAssumption DEF EndExecution, Increment, CountCap, OwnedInv, threadVars,
       procVars, NoRun, NoJob, RetryWorker, Thread, InState
  <2>3. CASE PopEntry(r)
    BY <2>3, ConstantsAssumption, SMTT(30) DEF PopEntry, TypeOK, RunsInv, OwnedInv, storeVars, threadVars,
       procVars, PC, Active, Live, NoTask, NoRun, NoJob, RetryWorker, TaskState, Thread, InState
  <2>4. CASE SaveOutcome(r)
    BY <2>4, ConstantsAssumption, SMTT(30) DEF SaveOutcome, save_task, Done, Increment, CountCap, TypeOK,
       RunsInv, RecordInv, OwnedInv, threadVars, procVars, PC, Active, Live, Shutting, NoTask,
       NoRun, NoJob, RetryWorker, TaskState, Thread, InState
  <2> QED
    BY <1>3, <2>1, <2>2, <2>3, <2>4, Zenon
<1>4. CASE RetryStep
  BY <1>4, ConstantsAssumption, SMTT(30) DEF RetryStep, RetryScan, Goto, Retriable, RetryTask,
     DropScan, NotRetriable, CleanScan, InState, RemoveTask, Sleep, RetryWorkerExits, TypeOK,
     OwnInv, JobsInv, ProcInv, RunsInv, CallsInv, OwnedInv, storeVars, runVars, procVars, PC,
     InCall, Submitted, Active, Live, Shutting, Saved, NoTask, NoRun, NoJob, RetryWorker,
     TaskState, Thread
<1>5. CASE StartStep
  BY <1>5, ConstantsAssumption, Zenon DEF StartStep, Recover, save_task, InState, Started, Goto,
     Boot, TypeOK, OwnedInv, storeVars, runVars, threadVars, procVars, PC, NoTask, NoRun, NoJob,
     RetryWorker, TaskState, Thread
<1>6. CASE Shutdown \/ DrainRound \/ Drained \/ DrainTimeout \/ CloseExecutor
  BY <1>6, ConstantsAssumption, Zenon DEF Shutdown, DrainRound, Drained, DrainTimeout,
     CloseExecutor, OwnedInv, storeVars, runVars, threadVars, NoRun, NoJob, RetryWorker, Thread,
     InState
<1>7. ASSUME NEW t \in Task, NEW r \in Run, MarkFailed(t, r)
      PROVE  OwnedInv'
  BY <1>7, ConstantsAssumption, Zenon DEF MarkFailed, save_task, OwnedInv, runVars, threadVars,
     NoRun, NoJob, RetryWorker, Thread, InState
<1>8. CASE Exit \/ Crash
  BY <1>8, ConstantsAssumption, Zenon DEF Exit, ProcessEnds, Crash, NoTasks, OwnedInv,
     storeVars, NoTask, NoRun, NoJob, RetryWorker, Thread, InState
<1>9. CASE UNCHANGED vars
  BY <1>9, ConstantsAssumption, Zenon DEF vars, OwnedInv, storeVars, runVars, threadVars,
     procVars, NoRun, NoJob, RetryWorker, Thread, InState
<1> QED
  BY <1>1, <1>2, <1>3, <1>4, <1>5, <1>6, <1>7, <1>8, <1>9, Zenon DEF Next, ShutdownStep

=============================================================================

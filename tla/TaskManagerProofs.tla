------------------------- MODULE TaskManagerProofs -------------------------
(***************************************************************************)
(* The parts of the inductive invariant of TaskManager about which calls   *)
(* and which entries of the retry worker's lists may act on a task, and    *)
(* what follows: no task is executed twice at the same time.               *)
(***************************************************************************)
EXTENDS TaskManagerCallProofs

USE DEF PENDING, RUNNING, FAILED, COMPLETED

\* A task is taken up once: by a request when it has no record (TakenInv), by
\* the retry worker when its list says so (RetryReadInv).
LEMMA ExclusiveStep == Before => ExclusiveInv'
<1> SUFFICES ASSUME CoSerializes, TypeOK, OwnInv, JobsInv, CallsInv, ExclusiveInv, RetryReadInv,
       TakenInv, [Next]_vars PROVE ExclusiveInv'
  BY Zenon DEF Before, TypeInv, IndInv
<1>1. ASSUME NEW c \in Client, NEW t \in Task, RunTask(c, t)
      PROVE  ExclusiveInv'
  BY <1>1, ConstantsAssumption, SMTT(30) DEF RunTask, Goto, ExclusiveInv, storeVars, runVars, procVars,
     InCall, Active, ActiveOf, Calling, NoRun, NoJob, RetryWorker, Thread
<1>2. ASSUME NEW c \in Thread, ThreadStep(c)
      PROVE  ExclusiveInv'
  BY <1>2, ConstantsAssumption, SMTT(30) DEF ThreadStep, ReadCurrent, Goto, Leave, Saved,
     SavePending, save_task, Submit, Garbage, Done, SubmitRaises, Raised, SaveRunning, Register,
     AddCallback, Returned, CallbackReturned, TypeOK, OwnInv, JobsInv, ExclusiveInv,
     RetryReadInv, TakenInv, storeVars, runVars, procVars, PC, InCall, Submitted, Active,
     ActiveOf, Calling, Reading, Taken, Watched, NoTask, NoRun, NoJob, RetryWorker, TaskState,
     Thread
<1>3. ASSUME NEW r \in Run, BeginExecution(r) \/ EndExecution(r) \/ PopEntry(r) \/ SaveOutcome(r)
      PROVE  ExclusiveInv'
  BY <1>3, ConstantsAssumption, SMTT(30) DEF BeginExecution, EndExecution, Increment, CountCap,
     PopEntry, SaveOutcome, save_task, TypeOK, ExclusiveInv, storeVars, threadVars, procVars,
     PC, InCall, Active, ActiveOf, Calling, NoTask, NoRun, NoJob, RetryWorker, TaskState, Thread
<1>4. CASE RetryStep
  BY <1>4, ConstantsAssumption DEF RetryStep, RetryScan, Goto, Retriable, RetryTask, DropScan,
     NotRetriable, CleanScan, InState, RemoveTask, Sleep, RetryWorkerExits, TypeOK,
     ExclusiveInv, storeVars, runVars, procVars, PC, InCall, Active, ActiveOf, Calling,
     Shutting, Saved, NoTask, NoRun, NoJob, RetryWorker, TaskState, Thread
<1>5. CASE StartStep
  BY <1>5, ConstantsAssumption DEF StartStep, Recover, save_task, InState, Started, Goto, Boot,
     TypeOK, ExclusiveInv, storeVars, runVars, threadVars, procVars, PC, InCall, Active,
     ActiveOf, Calling, NoTask, NoRun, NoJob, RetryWorker, TaskState, Thread
<1>6. CASE Shutdown \/ DrainRound \/ Drained \/ DrainTimeout \/ CloseExecutor
  BY <1>6, ConstantsAssumption DEF Shutdown, DrainRound, Drained, DrainTimeout, CloseExecutor,
     TypeOK, ExclusiveInv, storeVars, runVars, threadVars, PC, InCall, Active, ActiveOf,
     Calling, NoTask, NoRun, NoJob, RetryWorker, TaskState, Thread
<1>7. ASSUME NEW t \in Task, NEW r \in Run, MarkFailed(t, r)
      PROVE  ExclusiveInv'
  BY <1>7, ConstantsAssumption, Zenon DEF MarkFailed, save_task, ExclusiveInv, runVars,
     threadVars, InCall, Active, ActiveOf, Calling, NoRun, NoJob, RetryWorker, Thread
<1>8. CASE Exit \/ Crash
  BY <1>8, ConstantsAssumption DEF Exit, ProcessEnds, Crash, NoTasks, ExclusiveInv, storeVars,
     InCall, Active, ActiveOf, Calling, NoTask, NoRun, NoJob, RetryWorker, Thread
<1>9. CASE UNCHANGED vars
  BY <1>9, ConstantsAssumption, Zenon DEF vars, ExclusiveInv, storeVars, runVars, threadVars,
     procVars, InCall, Active, ActiveOf, Calling, NoRun, NoJob, RetryWorker, Thread
<1> QED
  BY <1>1, <1>2, <1>3, <1>4, <1>5, <1>6, <1>7, <1>8, <1>9, Zenon DEF Next, ShutdownStep

\* The retry worker takes a task from its list, and requests turn away from it.
LEMMA RetryReadStep == Before => RetryReadInv'
<1> SUFFICES ASSUME CoSerializes, TypeOK, OwnInv, JobsInv, ProcInv, RunsInv, CallsInv,
       ExclusiveInv, RetryReadInv, RetryListInv, TakenInv, [Next]_vars PROVE RetryReadInv'
  BY Zenon DEF Before, TypeInv, IndInv
<1>1. ASSUME NEW c \in Client, NEW t \in Task, RunTask(c, t)
      PROVE  RetryReadInv'
  BY <1>1, ConstantsAssumption, SMTT(30) DEF RunTask, Goto, RetryReadInv, storeVars, runVars, procVars,
     InCall, Active, ActiveOf, Calling, NoRun, NoJob, RetryWorker, Thread
<1>2. ASSUME NEW c \in Thread, ThreadStep(c)
      PROVE  RetryReadInv'
  BY <1>2, ConstantsAssumption, SMTT(30) DEF ThreadStep, ReadCurrent, Goto, Leave, Saved,
     SavePending, save_task, Submit, Garbage, Done, SubmitRaises, Raised, SaveRunning, Register,
     AddCallback, Returned, CallbackReturned, TypeOK, OwnInv, RetryReadInv, TakenInv, storeVars,
     runVars, procVars, PC, InCall, Submitted, Active, ActiveOf, Calling, Reading, Taken,
     Watched, NoTask, NoRun, NoJob, RetryWorker, TaskState, Thread
<1>3. ASSUME NEW r \in Run, BeginExecution(r) \/ EndExecution(r) \/ PopEntry(r) \/ SaveOutcome(r)
      PROVE  RetryReadInv'
  BY <1>3, ConstantsAssumption DEF BeginExecution, EndExecution, Increment, CountCap, PopEntry,
     SaveOutcome, save_task, TypeOK, OwnInv, RetryReadInv, storeVars, threadVars, procVars, PC,
     InCall, Submitted, Active, ActiveOf, Calling, NoTask, NoRun, NoJob, RetryWorker, TaskState,
     Thread
<1>4. CASE RetryStep
  BY <1>4, ConstantsAssumption DEF RetryStep, RetryScan, Goto, Retriable, RetryTask, DropScan,
     NotRetriable, CleanScan, InState, RemoveTask, Sleep, RetryWorkerExits, TypeOK, ProcInv,
     RetryReadInv, RetryListInv, storeVars, runVars, procVars, PC, InCall, Active, ActiveOf,
     Calling, Shutting, Saved, NoTask, NoRun, NoJob, RetryWorker, TaskState, Thread
<1>5. CASE StartStep
  BY <1>5, ConstantsAssumption DEF StartStep, Recover, save_task, InState, Started, Goto, Boot,
     TypeOK, ProcInv, RetryReadInv, storeVars, runVars, threadVars, procVars, PC, InCall,
     Active, ActiveOf, Calling, NoTask, NoRun, NoJob, RetryWorker, TaskState, Thread
<1>6. CASE Shutdown \/ DrainRound \/ Drained \/ DrainTimeout \/ CloseExecutor
  BY <1>6, ConstantsAssumption DEF Shutdown, DrainRound, Drained, DrainTimeout, CloseExecutor,
     TypeOK, RunsInv, RetryReadInv, storeVars, runVars, threadVars, PC, InCall, Active,
     ActiveOf, Calling, Live, NoTask, NoRun, NoJob, RetryWorker, TaskState, Thread
<1>7. ASSUME NEW t \in Task, NEW r \in Run, MarkFailed(t, r)
      PROVE  RetryReadInv'
  BY <1>7, ConstantsAssumption DEF MarkFailed, save_task, RetryReadInv, runVars, threadVars,
     InCall, Active, ActiveOf, Calling, NoRun, NoJob, RetryWorker, Thread
<1>8. CASE Exit \/ Crash
  BY <1>8, ConstantsAssumption, Zenon DEF Exit, ProcessEnds, Crash, NoTasks, RetryReadInv,
     storeVars, InCall, Active, ActiveOf, Calling, NoTask, NoRun, NoJob, RetryWorker, Thread
<1>9. CASE UNCHANGED vars
  BY <1>9, ConstantsAssumption, Zenon DEF vars, RetryReadInv, storeVars, runVars, threadVars,
     procVars, InCall, Active, ActiveOf, Calling, NoRun, NoJob, RetryWorker, Thread
<1> QED
  BY <1>1, <1>2, <1>3, <1>4, <1>5, <1>6, <1>7, <1>8, <1>9, Zenon DEF Next, ShutdownStep

\* The list of retriable tasks stays right while the worker goes through it.
LEMMA RetryListStep == Before => RetryListInv'
<1> SUFFICES ASSUME CoSerializes, TypeOK, OwnInv, JobsInv, ProcInv, RunsInv, ExclusiveInv,
       RetryListInv, TakenInv, AcceptInv, CallsInv, BusyInv, [Next]_vars PROVE RetryListInv'
  BY Zenon DEF Before, TypeInv, IndInv
<1>1. ASSUME NEW c \in Client, NEW t \in Task, RunTask(c, t)
      PROVE  RetryListInv'
  BY <1>1, ConstantsAssumption, SMTT(30) DEF RunTask, Goto, RetryListInv, storeVars, runVars, procVars,
     InCall, Active, ActiveOf, Calling, Shutting, Retriable, NoRun, NoJob, RetryWorker, Thread
<1>2. ASSUME NEW c \in Thread, ThreadStep(c)
      PROVE  RetryListInv'
  BY <1>2, ConstantsAssumption DEF ThreadStep, ReadCurrent, Goto, Leave, Saved, SavePending,
     save_task, Submit, Garbage, Done, SubmitRaises, Raised, SaveRunning, Register, AddCallback,
     Returned, CallbackReturned, TypeOK, JobsInv, RetryListInv, CallsInv, storeVars, runVars,
     procVars, PC, InCall, Submitted, Active, ActiveOf, Calling, Shutting, Retriable, NoTask,
     NoRun, NoJob, RetryWorker, TaskState, Thread
<1>3. ASSUME NEW r \in Run, BeginExecution(r) \/ EndExecution(r) \/ PopEntry(r) \/ SaveOutcome(r)
      PROVE  RetryListInv'
  BY <1>3, ConstantsAssumption DEF BeginExecution, EndExecution, Increment, CountCap, PopEntry,
     SaveOutcome, save_task, TypeOK, OwnInv, JobsInv, RetryListInv, storeVars, threadVars,
     procVars, PC, InCall, Submitted, Active, ActiveOf, Calling, Shutting, Retriable, NoTask,
     NoRun, NoJob, RetryWorker, TaskState, Thread
<1>4. CASE RetryStep
  BY <1>4, ConstantsAssumption DEF RetryStep, RetryScan, Goto, Retriable, RetryTask, DropScan,
     NotRetriable, CleanScan, InState, RemoveTask, Sleep, RetryWorkerExits, TypeOK, JobsInv,
     ProcInv, RetryListInv, AcceptInv, BusyInv, storeVars, runVars, procVars, PC, InCall,
     Active, ActiveOf, Calling, Shutting, Saved, NoTask, NoRun, NoJob, RetryWorker, TaskState,
     Thread
<1>5. CASE StartStep
  BY <1>5, ConstantsAssumption DEF StartStep, Recover, save_task, InState, Started, Goto, Boot,
     TypeOK, RetryListInv, storeVars, runVars, threadVars, procVars, PC, InCall, Active,
     ActiveOf, Calling, Shutting, Retriable, NoTask, NoRun, NoJob, RetryWorker, TaskState,
     Thread
<1>6. CASE Shutdown \/ DrainRound \/ Drained \/ DrainTimeout \/ CloseExecutor
  BY <1>6, ConstantsAssumption, Zenon DEF Shutdown, DrainRound, Drained, DrainTimeout,
     CloseExecutor, RetryListInv, storeVars, runVars, threadVars, InCall, Active, ActiveOf,
     Calling, Shutting, Retriable, NoRun, NoJob, RetryWorker, Thread
<1>7. ASSUME NEW t \in Task, NEW r \in Run, MarkFailed(t, r)
      PROVE  RetryListInv'
  BY <1>7, ConstantsAssumption, Zenon DEF MarkFailed, save_task, RetryListInv, runVars,
     threadVars, InCall, Active, ActiveOf, Calling, Shutting, Retriable, NoRun, NoJob,
     RetryWorker, Thread
<1>8. CASE Exit \/ Crash
  BY <1>8, ConstantsAssumption, Zenon DEF Exit, ProcessEnds, Crash, NoTasks, RetryListInv,
     storeVars, InCall, Active, ActiveOf, Calling, Shutting, Retriable, NoTask, NoRun, NoJob,
     RetryWorker, Thread
<1>9. CASE UNCHANGED vars
  BY <1>9, ConstantsAssumption DEF vars, RetryListInv, storeVars, runVars, threadVars, procVars,
     InCall, Active, ActiveOf, Calling, Shutting, Retriable, NoRun, NoJob, RetryWorker, Thread
<1> QED
  BY <1>1, <1>2, <1>3, <1>4, <1>5, <1>6, <1>7, <1>8, <1>9, Zenon DEF Next, ShutdownStep

\* A task in a list of tasks to remove is not taken up before it is removed.
LEMMA RemoveListStep == Before => RemoveListInv'
<1> SUFFICES ASSUME CoSerializes, TypeOK, OwnInv, JobsInv, RunsInv, ExclusiveInv, RemoveListInv,
       AcceptInv, TakenInv, [Next]_vars PROVE RemoveListInv'
  BY Zenon DEF Before, TypeInv, IndInv
<1>1. ASSUME NEW c \in Client, NEW t \in Task, RunTask(c, t)
      PROVE  RemoveListInv'
  BY <1>1, ConstantsAssumption, SMTT(30) DEF RunTask, Goto, RemoveListInv, storeVars, runVars, procVars,
     InCall, Active, ActiveOf, Reading, Taken, Watched, Saved, NoTask, NoRun, NoJob,
     RetryWorker, Thread
<1>2. ASSUME NEW c \in Thread, ThreadStep(c)
      PROVE  RemoveListInv'
  BY <1>2, ConstantsAssumption, SMTT(30) DEF ThreadStep, ReadCurrent, Goto, Leave, Saved,
     SavePending, save_task, Submit, Garbage, Done, SubmitRaises, Raised, SaveRunning, Register,
     AddCallback, Returned, CallbackReturned, TypeOK, OwnInv, JobsInv, RemoveListInv, AcceptInv,
     storeVars, runVars, procVars, PC, InCall, Submitted, Active, ActiveOf, Reading, Taken,
     Watched, NoTask, NoRun, NoJob, RetryWorker, TaskState, Thread
<1>3. ASSUME NEW r \in Run, BeginExecution(r) \/ EndExecution(r) \/ PopEntry(r) \/ SaveOutcome(r)
      PROVE  RemoveListInv'
  BY <1>3, ConstantsAssumption DEF BeginExecution, EndExecution, Increment, CountCap, PopEntry,
     SaveOutcome, save_task, TypeOK, RemoveListInv, storeVars, threadVars, procVars, PC, InCall,
     Active, ActiveOf, Reading, Taken, Watched, Saved, NoTask, NoRun, NoJob, RetryWorker,
     TaskState, Thread
<1>4. CASE RetryStep
  BY <1>4, ConstantsAssumption DEF RetryStep, RetryScan, Goto, Retriable, RetryTask, DropScan,
     NotRetriable, CleanScan, InState, RemoveTask, Sleep, RetryWorkerExits, TypeOK,
     RemoveListInv, TakenInv, storeVars, runVars, procVars, PC, InCall, Active, ActiveOf,
     Reading, Taken, Watched, Shutting, Saved, NoTask, NoRun, NoJob, RetryWorker, TaskState,
     Thread
<1>5. CASE StartStep
  BY <1>5, ConstantsAssumption DEF StartStep, Recover, save_task, InState, Started, Goto, Boot,
     TypeOK, RemoveListInv, storeVars, runVars, threadVars, procVars, PC, InCall, Active,
     ActiveOf, Reading, Taken, Watched, Saved, NoTask, NoRun, NoJob, RetryWorker, TaskState,
     Thread
<1>6. CASE Shutdown \/ DrainRound \/ Drained \/ DrainTimeout \/ CloseExecutor
  BY <1>6, ConstantsAssumption DEF Shutdown, DrainRound, Drained, DrainTimeout, CloseExecutor,
     TypeOK, RemoveListInv, storeVars, runVars, threadVars, PC, InCall, Active, ActiveOf,
     Reading, Taken, Watched, Saved, NoTask, NoRun, NoJob, RetryWorker, TaskState, Thread
<1>7. ASSUME NEW t \in Task, NEW r \in Run, MarkFailed(t, r)
      PROVE  RemoveListInv'
  BY <1>7, ConstantsAssumption DEF MarkFailed, save_task, RemoveListInv, runVars, threadVars,
     InCall, Active, ActiveOf, Reading, Taken, Watched, Saved, NoTask, NoRun, NoJob,
     RetryWorker, Thread
<1>8. CASE Exit \/ Crash
  BY <1>8, ConstantsAssumption, Zenon DEF Exit, ProcessEnds, Crash, NoTasks, RemoveListInv,
     storeVars, InCall, Active, ActiveOf, Reading, Taken, Watched, Saved, NoTask, NoRun, NoJob,
     RetryWorker, Thread
<1>9. CASE UNCHANGED vars
  BY <1>9, ConstantsAssumption, Zenon DEF vars, RemoveListInv, storeVars, runVars, threadVars,
     procVars, InCall, Active, ActiveOf, Reading, Taken, Watched, Saved, NoTask, NoRun, NoJob,
     RetryWorker, Thread
<1> QED
  BY <1>1, <1>2, <1>3, <1>4, <1>5, <1>6, <1>7, <1>8, <1>9, Zenon DEF Next, ShutdownStep

\* Nobody else saves a record for a task that a request is about to save.
LEMMA AcceptStep == Before => AcceptInv'
<1> SUFFICES ASSUME CoSerializes, TypeOK, OwnInv, JobsInv, RunsInv, ExclusiveInv, AcceptInv,
       ProcInv, [Next]_vars PROVE AcceptInv'
  BY Zenon DEF Before, TypeInv, IndInv
<1>1. ASSUME NEW c \in Client, NEW t \in Task, RunTask(c, t)
      PROVE  AcceptInv'
  BY <1>1, ConstantsAssumption, SMTT(30) DEF RunTask, Goto, AcceptInv, storeVars, runVars, procVars,
     Saved, NoTask, NoRun, NoJob, RetryWorker, Thread
<1>2. ASSUME NEW c \in Thread, ThreadStep(c)
      PROVE  AcceptInv'
  BY <1>2, ConstantsAssumption DEF ThreadStep, ReadCurrent, Goto, Leave, Saved, SavePending,
     save_task, Submit, Garbage, Done, SubmitRaises, Raised, SaveRunning, Register, AddCallback,
     Returned, CallbackReturned, TypeOK, OwnInv, ExclusiveInv, AcceptInv, storeVars, runVars,
     procVars, PC, InCall, Submitted, Active, ActiveOf, Calling, NoTask, NoRun, NoJob,
     RetryWorker, TaskState, Thread
<1>3. ASSUME NEW r \in Run, BeginExecution(r) \/ EndExecution(r) \/ PopEntry(r) \/ SaveOutcome(r)
      PROVE  AcceptInv'
  BY <1>3, ConstantsAssumption DEF BeginExecution, EndExecution, Increment, CountCap, PopEntry,
     SaveOutcome, save_task, TypeOK, OwnInv, ExclusiveInv, AcceptInv, storeVars, threadVars,
     procVars, PC, InCall, Submitted, Active, ActiveOf, Calling, Saved, NoTask, NoRun, NoJob,
     RetryWorker, TaskState, Thread
<1>4. CASE RetryStep
  BY <1>4, ConstantsAssumption DEF RetryStep, RetryScan, Goto, Retriable, RetryTask, DropScan,
     NotRetriable, CleanScan, InState, RemoveTask, Sleep, RetryWorkerExits, TypeOK, OwnInv,
     AcceptInv, storeVars, runVars, procVars, PC, InCall, Submitted, Active, Shutting, Saved,
     NoTask, NoRun, NoJob, RetryWorker, TaskState, Thread
<1>5. CASE StartStep
  BY <1>5, ConstantsAssumption DEF StartStep, Recover, save_task, InState, Started, Goto, Boot,
     TypeOK, AcceptInv, ProcInv, storeVars, runVars, threadVars, procVars, PC, Active, Saved,
     NoTask, NoRun, NoJob, RetryWorker, TaskState, Thread
<1>6. CASE Shutdown \/ DrainRound \/ Drained \/ DrainTimeout \/ CloseExecutor
  BY <1>6, ConstantsAssumption, Zenon DEF Shutdown, DrainRound, Drained, DrainTimeout,
     CloseExecutor, AcceptInv, storeVars, runVars, threadVars, Saved, NoTask, NoRun, NoJob,
     RetryWorker, Thread
<1>7. ASSUME NEW t \in Task, NEW r \in Run, MarkFailed(t, r)
      PROVE  AcceptInv'
  BY <1>7, ConstantsAssumption, Zenon DEF MarkFailed, save_task, AcceptInv, runVars, threadVars,
     Saved, NoTask, NoRun, NoJob, RetryWorker, Thread
<1>8. CASE Exit \/ Crash
  BY <1>8, ConstantsAssumption, Zenon DEF Exit, ProcessEnds, Crash, NoTasks, AcceptInv,
     storeVars, Saved, NoTask, NoRun, NoJob, RetryWorker, Thread
<1>9. CASE UNCHANGED vars
  BY <1>9, ConstantsAssumption, Zenon DEF vars, AcceptInv, storeVars, runVars, threadVars,
     procVars, Saved, NoTask, NoRun, NoJob, RetryWorker, Thread
<1> QED
  BY <1>1, <1>2, <1>3, <1>4, <1>5, <1>6, <1>7, <1>8, <1>9, Zenon DEF Next, ShutdownStep

\* A taken task keeps a record, which no scan selects for removal.
LEMMA TakenStep == Before => TakenInv'
<1> SUFFICES ASSUME CoSerializes, TypeOK, OwnInv, JobsInv, ProcInv, RunsInv, CallsInv,
       ExclusiveInv, RetryReadInv, RetryListInv, RemoveListInv, AcceptInv, TakenInv, KillInv,
       [Next]_vars PROVE TakenInv'
  BY Zenon DEF Before, TypeInv, IndInv
<1>1. ASSUME NEW c \in Client, NEW t \in Task, RunTask(c, t)
      PROVE  TakenInv'
  BY <1>1, ConstantsAssumption, SMTT(30) DEF RunTask, Goto, TakenInv, storeVars, runVars, procVars,
     InCall, Active, ActiveOf, Reading, Taken, Watched, Saved, NoTask, NoRun, NoJob,
     RetryWorker, Thread
<1>2. ASSUME NEW c \in Thread, ThreadStep(c)
      PROVE  TakenInv'
  BY <1>2, ConstantsAssumption, SMTT(30) DEF ThreadStep, ReadCurrent, Goto, Leave, Saved,
     SavePending, save_task, Submit, Garbage, Done, SubmitRaises, Raised, SaveRunning, Register,
     AddCallback, Returned, CallbackReturned, TypeOK, RunsInv, CallsInv, TakenInv, storeVars,
     runVars, procVars, PC, InCall, Submitted, Active, ActiveOf, Reading, Taken, Watched, Live,
     NoTask, NoRun, NoJob, RetryWorker, TaskState, Thread
<1>3. ASSUME NEW r \in Run, BeginExecution(r) \/ EndExecution(r) \/ PopEntry(r) \/ SaveOutcome(r)
      PROVE  TakenInv'
  BY <1>3, ConstantsAssumption, SMTT(30) DEF BeginExecution, EndExecution, Increment, CountCap, PopEntry,
     SaveOutcome, save_task, TypeOK, OwnInv, CallsInv, ExclusiveInv, RetryReadInv, TakenInv,
     storeVars, threadVars, procVars, PC, InCall, Submitted, Active, ActiveOf, Calling, Reading,
     Taken, Watched, Saved, NoTask, NoRun, NoJob, RetryWorker, TaskState, Thread
<1>4. CASE RetryStep
  BY <1>4, ConstantsAssumption DEF RetryStep, RetryScan, Goto, Retriable, RetryTask, DropScan,
     NotRetriable, CleanScan, InState, RemoveTask, Sleep, RetryWorkerExits, TypeOK,
     RetryListInv, RemoveListInv, TakenInv, storeVars, runVars, procVars, PC, InCall, Active,
     ActiveOf, Calling, Reading, Taken, Watched, Shutting, Saved, NoTask, NoRun, NoJob,
     RetryWorker, TaskState, Thread
<1>5. CASE StartStep
  BY <1>5, ConstantsAssumption DEF StartStep, Recover, save_task, InState, Started, Goto, Boot,
     TypeOK, ProcInv, TakenInv, storeVars, runVars, threadVars, procVars, PC, InCall, Active,
     ActiveOf, Reading, Taken, Watched, Saved, NoTask, NoRun, NoJob, RetryWorker, TaskState,
     Thread
<1>6. CASE Shutdown \/ DrainRound \/ Drained \/ DrainTimeout \/ CloseExecutor
  BY <1>6, ConstantsAssumption, SMTT(30) DEF Shutdown, DrainRound, Drained, DrainTimeout, CloseExecutor,
     TypeOK, TakenInv, storeVars, runVars, threadVars, PC, InCall, Active, ActiveOf, Reading,
     Taken, Watched, Saved, NoTask, NoRun, NoJob, RetryWorker, TaskState, Thread
<1>7. ASSUME NEW t \in Task, NEW r \in Run, MarkFailed(t, r)
      PROVE  TakenInv'
  BY <1>7, ConstantsAssumption DEF MarkFailed, save_task, RunsInv, TakenInv, KillInv, runVars,
     threadVars, InCall, Active, ActiveOf, Reading, Taken, Watched, Live, Saved, NoTask, NoRun,
     NoJob, RetryWorker, Thread
<1>8. CASE Exit \/ Crash
  BY <1>8, ConstantsAssumption, Zenon DEF Exit, ProcessEnds, Crash, NoTasks, TakenInv,
     storeVars, InCall, Active, ActiveOf, Reading, Taken, Watched, Saved, NoTask, NoRun, NoJob,
     RetryWorker, Thread
<1>9. CASE UNCHANGED vars
  BY <1>9, ConstantsAssumption, Zenon DEF vars, TakenInv, storeVars, runVars, threadVars,
     procVars, InCall, Active, ActiveOf, Reading, Taken, Watched, Saved, NoTask, NoRun, NoJob,
     RetryWorker, Thread
<1> QED
  BY <1>1, <1>2, <1>3, <1>4, <1>5, <1>6, <1>7, <1>8, <1>9, Zenon DEF Next, ShutdownStep

\* Nor does a scan select a submitted task for a retry.
LEMMA BusyStep == Before => BusyInv'
<1> SUFFICES ASSUME CoSerializes, TypeOK, OwnInv, JobsInv, ProcInv, RunsInv, CallsInv,
       ExclusiveInv, RetryListInv, RemoveListInv, AcceptInv, TakenInv, BusyInv, [Next]_vars
       PROVE BusyInv'
  BY Zenon DEF Before, TypeInv, IndInv
<1>1. ASSUME NEW c \in Client, NEW t \in Task, RunTask(c, t)
      PROVE  BusyInv'
  BY <1>1, ConstantsAssumption, SMTT(30) DEF RunTask, Goto, BusyInv, storeVars, runVars, procVars, InCall,
     Active, ActiveOf, NoRun, NoJob, RetryWorker, Thread
<1>2. ASSUME NEW c \in Thread, ThreadStep(c)
      PROVE  BusyInv'
  BY <1>2, ConstantsAssumption, SMTT(30) DEF ThreadStep, ReadCurrent, Goto, Leave, Saved, SavePending,
     save_task, Submit, Garbage, Done, SubmitRaises, Raised, SaveRunning, Register, AddCallback,
     Returned, CallbackReturned, TypeOK, CallsInv, BusyInv, storeVars, runVars, procVars, PC,
     InCall, Submitted, Active, ActiveOf, NoTask, NoRun, NoJob, RetryWorker, TaskState, Thread
<1>3. ASSUME NEW r \in Run, BeginExecution(r) \/ EndExecution(r) \/ PopEntry(r) \/ SaveOutcome(r)
      PROVE  BusyInv'
  BY <1>3, ConstantsAssumption, SMTT(30) DEF BeginExecution, EndExecution, Increment, CountCap,
     PopEntry, SaveOutcome, save_task, TypeOK, OwnInv, CallsInv, ExclusiveInv, BusyInv,
     storeVars, threadVars, procVars, PC, InCall, Submitted, Active, ActiveOf, Calling, NoTask,
     NoRun, NoJob, RetryWorker, TaskState, Thread
<1>4. CASE RetryStep
  BY <1>4, ConstantsAssumption DEF RetryStep, RetryScan, Goto, Retriable, RetryTask, DropScan,
     NotRetriable, CleanScan, InState, RemoveTask, Sleep, RetryWorkerExits, TypeOK,
     RemoveListInv, BusyInv, storeVars, runVars, procVars, PC, InCall, Active, ActiveOf,
     Reading, Taken, Watched, Shutting, Saved, NoTask, NoRun, NoJob, RetryWorker, TaskState,
     Thread
<1>5. CASE StartStep
  BY <1>5, ConstantsAssumption DEF StartStep, Recover, save_task, InState, Started, Goto, Boot,
     TypeOK, ProcInv, BusyInv, storeVars, runVars, threadVars, procVars, PC, InCall, Active,
     ActiveOf, NoTask, NoRun, NoJob, RetryWorker, TaskState, Thread
<1>6. CASE Shutdown \/ DrainRound \/ Drained \/ DrainTimeout \/ CloseExecutor
  BY <1>6, ConstantsAssumption, Zenon DEF Shutdown, DrainRound, Drained, DrainTimeout,
     CloseExecutor, BusyInv, storeVars, runVars, threadVars, InCall, Active, ActiveOf, NoRun,
     NoJob, RetryWorker, Thread
<1>7. ASSUME NEW t \in Task, NEW r \in Run, MarkFailed(t, r)
      PROVE  BusyInv'
  BY <1>7, ConstantsAssumption, Zenon DEF MarkFailed, save_task, BusyInv, runVars, threadVars,
     InCall, Active, ActiveOf, NoRun, NoJob, RetryWorker, Thread
<1>8. CASE Exit \/ Crash
  BY <1>8, ConstantsAssumption, Zenon DEF Exit, ProcessEnds, Crash, NoTasks, BusyInv, storeVars,
     InCall, Active, ActiveOf, NoTask, NoRun, NoJob, RetryWorker, Thread
<1>9. CASE UNCHANGED vars
  BY <1>9, ConstantsAssumption, Zenon DEF vars, BusyInv, storeVars, runVars, threadVars,
     procVars, InCall, Active, ActiveOf, NoRun, NoJob, RetryWorker, Thread
<1> QED
  BY <1>1, <1>2, <1>3, <1>4, <1>5, <1>6, <1>7, <1>8, <1>9, Zenon DEF Next, ShutdownStep

\* Shutdown marks no execution that a request could have replaced unseen.
LEMMA KillStep == Before => KillInv'
<1> SUFFICES ASSUME CoSerializes, TypeOK, OwnInv, JobsInv, ProcInv, RunsInv, CallsInv,
       ExclusiveInv, RetryReadInv, KillInv, [Next]_vars PROVE KillInv'
  BY Zenon DEF Before, TypeInv, IndInv
<1>1. ASSUME NEW c \in Client, NEW t \in Task, RunTask(c, t)
      PROVE  KillInv'
  BY <1>1, ConstantsAssumption, Zenon DEF RunTask, Goto, ProcInv, KillInv, storeVars, runVars,
     procVars, InCall, Active, ActiveOf, Reading, Taken, NoRun, NoJob, RetryWorker, Thread
<1>2. ASSUME NEW c \in Thread, ThreadStep(c)
      PROVE  KillInv'
  BY <1>2, ConstantsAssumption, SMTT(30) DEF ThreadStep, ReadCurrent, Goto, Leave, Saved,
     SavePending, save_task, Submit, Garbage, Done, SubmitRaises, Raised, SaveRunning, Register,
     AddCallback, Returned, CallbackReturned, TypeOK, JobsInv, CallsInv, KillInv, storeVars,
     runVars, procVars, PC, InCall, Submitted, Active, ActiveOf, Reading, Taken, NoTask, NoRun,
     NoJob, RetryWorker, TaskState, Thread
<1>3. ASSUME NEW r \in Run, BeginExecution(r) \/ EndExecution(r) \/ PopEntry(r) \/ SaveOutcome(r)
      PROVE  KillInv'
  BY <1>3, ConstantsAssumption, SMTT(30) DEF BeginExecution, EndExecution, Increment, CountCap,
     PopEntry, SaveOutcome, save_task, TypeOK, OwnInv, CallsInv, ExclusiveInv, RetryReadInv,
     KillInv, storeVars, threadVars, procVars, PC, InCall, Submitted, Active, ActiveOf, Calling,
     Reading, Taken, NoTask, NoRun, NoJob, RetryWorker, TaskState, Thread
<1>4. CASE RetryStep
  BY <1>4, ConstantsAssumption DEF RetryStep, RetryScan, Goto, Retriable, RetryTask, DropScan,
     NotRetriable, CleanScan, InState, RemoveTask, Sleep, RetryWorkerExits, TypeOK, ProcInv,
     KillInv, storeVars, runVars, procVars, PC, InCall, Active, ActiveOf, Reading, Taken,
     Shutting, Saved, NoTask, NoRun, NoJob, RetryWorker, TaskState, Thread
<1>5. CASE StartStep
  BY <1>5, ConstantsAssumption, Zenon DEF StartStep, Recover, save_task, InState, Started, Goto,
     Boot, ProcInv, KillInv, storeVars, runVars, threadVars, procVars, InCall, Active, ActiveOf,
     Reading, Taken, NoRun, NoJob, RetryWorker, Thread
<1>6. CASE Shutdown \/ DrainRound \/ Drained \/ DrainTimeout \/ CloseExecutor
  BY <1>6, ConstantsAssumption DEF Shutdown, DrainRound, Drained, DrainTimeout, CloseExecutor,
     TypeOK, RunsInv, KillInv, storeVars, runVars, threadVars, PC, InCall, Active, ActiveOf,
     Reading, Taken, Live, NoTask, NoRun, NoJob, RetryWorker, TaskState, Thread
<1>7. ASSUME NEW t \in Task, NEW r \in Run, MarkFailed(t, r)
      PROVE  KillInv'
  BY <1>7, ConstantsAssumption DEF MarkFailed, save_task, KillInv, runVars, threadVars, InCall,
     Active, ActiveOf, Reading, Taken, NoRun, NoJob, RetryWorker, Thread
<1>8. CASE Exit \/ Crash
  BY <1>8, ConstantsAssumption, Zenon DEF Exit, ProcessEnds, Crash, NoTasks, KillInv, storeVars,
     InCall, Active, ActiveOf, Reading, Taken, NoTask, NoRun, NoJob, RetryWorker, Thread
<1>9. CASE UNCHANGED vars
  BY <1>9, ConstantsAssumption, Zenon DEF vars, KillInv, storeVars, runVars, threadVars, procVars,
     InCall, Active, ActiveOf, Reading, Taken, NoRun, NoJob, RetryWorker, Thread
<1> QED
  BY <1>1, <1>2, <1>3, <1>4, <1>5, <1>6, <1>7, <1>8, <1>9, Zenon DEF Next, ShutdownStep

-----------------------------------------------------------------------------
(* What the retry worker may remove *)

\* The retry worker has not come to the removals of its round yet.
Retrying == pc[RetryWorker] \in InCall \cup {"read", "in_callback", "retrying"}

\* A task that is COMPLETED is nobody's, whatever the process is doing.
DoneInv == \A t \in Task : store[t].state = COMPLETED => ~Engaged(t)

\* Nor is a task that has no retries left, until the removals of the last round.
SpentInv ==
  Retrying \/ proc = "up" => \A t \in Task : store[t].retry_count >= MaxRetry => ~Engaged(t)

\* Until then what shutdown is going to mark keeps its record for the requests that
\* are still to read it, and nobody takes the task up again.
MarkedInv ==
  Retrying => \A t \in Task, r \in Run : <<t, r>> \in toKill =>
    /\ Reading(t) => Saved(t)
    /\ Engaged(t) => Active(r) /\ of[r] = t

\* A task is COMPLETED when its only execution is over.
LEMMA DoneStep == Before /\ RecordInv /\ DoneInv => DoneInv'
<1> SUFFICES ASSUME CoSerializes, TypeOK, OwnInv, JobsInv, ProcInv, RunsInv, CallsInv,
       ExclusiveInv, RecordInv, DoneInv, [Next]_vars PROVE DoneInv'
  BY Zenon DEF Before, TypeInv, IndInv
<1>1. ASSUME NEW c \in Client, NEW t \in Task, RunTask(c, t)
      PROVE  DoneInv'
  BY <1>1, ConstantsAssumption, Zenon DEF RunTask, Goto, TypeOK, DoneInv, storeVars, runVars, procVars,
     PC, Live, NoTask, NoRun, NoJob, RetryWorker, TaskState, Thread, Engaged
<1>2. ASSUME NEW c \in Thread, ThreadStep(c)
      PROVE  DoneInv'
  BY <1>2, ConstantsAssumption, SMTT(30) DEF ThreadStep, ReadCurrent, Goto, Leave, Saved,
     SavePending, save_task, Submit, Garbage, Done, SubmitRaises, Raised, SaveRunning, Register,
     AddCallback, Returned, CallbackReturned, TypeOK, JobsInv, CallsInv, RecordInv, DoneInv,
     storeVars, runVars, procVars, PC, InCall, Submitted, Live, Shutting, NoTask, NoRun, NoJob,
     RetryWorker, TaskState, Thread, Engaged
<1>3. ASSUME NEW r \in Run, BeginExecution(r) \/ EndExecution(r) \/ PopEntry(r) \/ SaveOutcome(r)
      PROVE  DoneInv'
  BY <1>3, ConstantsAssumption, SMTT(30) DEF BeginExecution, EndExecution, Increment, CountCap,
     PopEntry, SaveOutcome, save_task, Done, TypeOK, OwnInv, JobsInv, RunsInv, CallsInv,
     ExclusiveInv, DoneInv, storeVars, threadVars, procVars, PC, InCall, Submitted, Active,
     ActiveOf, Calling, Live, NoTask, NoRun, NoJob, RetryWorker, TaskState, Thread, Engaged
<1>4. CASE RetryStep
  BY <1>4, ConstantsAssumption DEF RetryStep, RetryScan, Goto, Retriable, RetryTask, DropScan,
     NotRetriable, CleanScan, InState, RemoveTask, Sleep, RetryWorkerExits, TypeOK, DoneInv,
     storeVars, runVars, procVars, PC, Live, Shutting, Saved, NoTask, NoRun, NoJob, RetryWorker,
     TaskState, Thread, Engaged
<1>5. CASE StartStep
  BY <1>5, ConstantsAssumption DEF StartStep, Recover, save_task, InState, Started, Goto, Boot,
     TypeOK, ProcInv, DoneInv, storeVars, runVars, threadVars, procVars, PC, Active, Live,
     NoTask, NoRun, NoJob, RetryWorker, TaskState, Thread, Engaged
<1>6. CASE Shutdown \/ DrainRound \/ Drained \/ DrainTimeout \/ CloseExecutor
  BY <1>6, ConstantsAssumption DEF Shutdown, DrainRound, Drained, DrainTimeout, CloseExecutor,
     TypeOK, DoneInv, storeVars, runVars, threadVars, PC, Live, NoTask, NoRun, NoJob,
     RetryWorker, TaskState, Thread, Engaged
<1>7. ASSUME NEW t \in Task, NEW r \in Run, MarkFailed(t, r)
      PROVE  DoneInv'
  BY <1>7, ConstantsAssumption DEF MarkFailed, save_task, DoneInv, runVars, threadVars, Live,
     NoRun, NoJob, RetryWorker, Thread, Engaged
<1>8. CASE Exit \/ Crash
  BY <1>8, ConstantsAssumption DEF Exit, ProcessEnds, Crash, NoTasks, DoneInv, storeVars, Live,
     NoTask, NoRun, NoJob, RetryWorker, Thread, Engaged
<1>9. CASE UNCHANGED vars
  BY <1>9, ConstantsAssumption, Zenon DEF vars, DoneInv, storeVars, runVars, threadVars,
     procVars, Live, NoRun, NoJob, RetryWorker, Thread, Engaged
<1> QED
  BY <1>1, <1>2, <1>3, <1>4, <1>5, <1>6, <1>7, <1>8, <1>9, Zenon DEF Next, ShutdownStep

\* A task reaches max_retry when its only execution is over.
LEMMA SpentStep == Before /\ RecordInv /\ MarkedInv /\ SpentInv => SpentInv'
<1> SUFFICES ASSUME CoSerializes, TypeOK, OwnInv, JobsInv, ProcInv, RunsInv, CallsInv,
       ExclusiveInv, RecordInv, RetryReadInv, AcceptInv, TakenInv, MarkedInv, SpentInv,
       [Next]_vars PROVE SpentInv'
  BY Zenon DEF Before, TypeInv, IndInv
<1>1. ASSUME NEW c \in Client, NEW t \in Task, RunTask(c, t)
      PROVE  SpentInv'
  BY <1>1, ConstantsAssumption, Zenon DEF RunTask, Goto, TypeOK, SpentInv, storeVars, runVars,
     procVars, PC, InCall, Live, NoTask, NoRun, NoJob, RetryWorker, TaskState, Thread, Engaged,
     Retrying
<1>2. ASSUME NEW c \in Thread, ThreadStep(c)
      PROVE  SpentInv'
  BY <1>2, ConstantsAssumption, SMTT(30) DEF ThreadStep, ReadCurrent, Goto, Leave, Saved,
     SavePending, save_task, Submit, Garbage, Done, SubmitRaises, Raised, SaveRunning, Register,
     AddCallback, Returned, CallbackReturned, TypeOK, OwnInv, CallsInv, RetryReadInv, SpentInv,
     storeVars, runVars, procVars, PC, InCall, Submitted, Active, ActiveOf, Calling, Live,
     NoTask, NoRun, NoJob, RetryWorker, TaskState, Thread, Engaged, Retrying
<1>3. ASSUME NEW r \in Run, BeginExecution(r) \/ EndExecution(r) \/ PopEntry(r) \/ SaveOutcome(r)
      PROVE  SpentInv'
  BY <1>3, ConstantsAssumption, SMTT(30) DEF BeginExecution, EndExecution, Increment, CountCap,
     PopEntry, SaveOutcome, save_task, Done, TypeOK, OwnInv, JobsInv, ProcInv, RunsInv,
     CallsInv, ExclusiveInv, RecordInv, RetryReadInv, AcceptInv, TakenInv, MarkedInv, SpentInv,
     storeVars, threadVars, procVars, PC, InCall, Submitted, Active, ActiveOf, Calling, Reading,
     Taken, Watched, Live, Shutting, Saved, NoTask, NoRun, NoJob, RetryWorker, TaskState,
     Thread, Engaged, Retrying
<1>4. CASE RetryStep
  BY <1>4, ConstantsAssumption DEF RetryStep, RetryScan, Goto, Retriable, RetryTask, DropScan,
     NotRetriable, CleanScan, InState, RemoveTask, Sleep, RetryWorkerExits, TypeOK, ProcInv,
     SpentInv, storeVars, runVars, procVars, PC, InCall, Active, Live, Shutting, Saved, NoTask,
     NoRun, NoJob, RetryWorker, TaskState, Thread, Engaged, Retrying
<1>5. CASE StartStep
  BY <1>5, ConstantsAssumption, SMTT(30) DEF StartStep, Recover, save_task, InState, Started, Goto, Boot,
     TypeOK, JobsInv, ProcInv, RunsInv, SpentInv, storeVars, runVars, threadVars, procVars, PC,
     InCall, Active, Live, NoTask, NoRun, NoJob, RetryWorker, TaskState, Thread, Engaged,
     Retrying
<1>6. CASE Shutdown \/ DrainRound \/ Drained \/ DrainTimeout \/ CloseExecutor
  BY <1>6, ConstantsAssumption, SMTT(30) DEF Shutdown, DrainRound, Drained, DrainTimeout, CloseExecutor,
     TypeOK, SpentInv, storeVars, runVars, threadVars, PC, InCall, Live, NoTask, NoRun, NoJob,
     RetryWorker, TaskState, Thread, Engaged, Retrying
<1>7. ASSUME NEW t \in Task, NEW r \in Run, MarkFailed(t, r)
      PROVE  SpentInv'
  BY <1>7, ConstantsAssumption DEF MarkFailed, save_task, TypeOK, RunsInv, MarkedInv, SpentInv,
     runVars, threadVars, PC, InCall, Active, Reading, Live, Saved, NoTask, NoRun, NoJob,
     RetryWorker, TaskState, Thread, Engaged, Retrying
<1>8. CASE Exit \/ Crash
  BY <1>8, ConstantsAssumption, Zenon DEF Exit, ProcessEnds, Crash, NoTasks, SpentInv, storeVars,
     InCall, Live, NoTask, NoRun, NoJob, RetryWorker, Thread, Engaged, Retrying
<1>9. CASE UNCHANGED vars
  BY <1>9, ConstantsAssumption, Zenon DEF vars, SpentInv, storeVars, runVars, threadVars,
     procVars, InCall, Live, NoRun, NoJob, RetryWorker, Thread, Engaged, Retrying
<1> QED
  BY <1>1, <1>2, <1>3, <1>4, <1>5, <1>6, <1>7, <1>8, <1>9, Zenon DEF Next, ShutdownStep

-----------------------------------------------------------------------------
(* The result *)

\* The start: nothing is recorded, submitted or run.
LEMMA InitInd == Init => IndInv
  BY ConstantsAssumption, InitType DEF Init, IndInv, TypeInv, OwnInv, JobsInv, ProcInv, RunsInv,
     CallsInv, ExclusiveInv, RetryReadInv, RetryListInv, RemoveListInv, AcceptInv, TakenInv,
     BusyInv, KillInv, NoTask, Thread, InCall, Submitted, Active, ActiveOf, Calling, Reading,
     Taken, Watched, Live, Shutting, Saved, RetryWorker, NoRun, NoJob

\* The parts together: each step lemma needs the parts before the step only.
LEMMA StepInd == Before => IndInv'
<1>1. Before => OwnInv'
  BY StepType, Zenon DEF Before, TypeInv
<1> QED
  BY <1>1, JobsStep, ProcStep, RunsStep, CallsStep, ExclusiveStep, RetryReadStep, RetryListStep,
     RemoveListStep, AcceptStep, TakenStep, BusyStep, KillStep, Zenon DEF IndInv

\* With one call in flight per task, no task is ever executed twice at the same
\* time: neither repeated requests nor retries nor restarts nor a shutdown
\* submit a task whose last execution has not ended.
THEOREM ExclusiveExecution ==
  ASSUME CoSerializes
  PROVE  Spec => []OneExecution
<1>1. TypeInv /\ IndInv /\ [Next]_vars => TypeInv' /\ IndInv'
  BY StepType, StepInd, Zenon DEF Before
<1>2. IndInv => OneExecution
  BY Zenon DEF IndInv, RunsInv, ExclusiveInv, OneExecution
<1> QED
  BY InitType, InitInd, <1>1, <1>2, PTL DEF Spec

=============================================================================

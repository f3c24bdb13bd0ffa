---------------------------- MODULE TaskManager ----------------------------
(***************************************************************************)
(* The background task manager of the node plugin                          *)
(* (rawfile/utils/task_manager.py): CSI request threads hand tasks to a     *)
(* thread pool, every state change of a task is saved in tasks.json, and a  *)
(* retry worker re-submits the failed tasks and removes the finished ones.  *)
(*                                                                         *)
(* One atomic step stands for the code between two points where another    *)
(* thread can act on the shared state: the store (every access holds       *)
(* self._lock), the dictionary self._tasks, the futures, and the           *)
(* _shutting_down flag.  What a task does is left out: an execution ends   *)
(* well or in an exception.                                                *)
(***************************************************************************)
EXTENDS Integers, FiniteSets

CONSTANTS
  Task,          \* task identifiers (hash_task_info of name and arguments)
  Client,        \* gRPC threads that call run_task
  Run,           \* identities of executions: a future with its info dictionary
  MaxRetry,      \* max_retry
  MaxWorkers,    \* max_workers of the pool; the retry worker takes one
  CoSerializes,  \* the CO has one call in flight per task (CSI asks that of it)
  MaxCrashes,    \* bound: how often the process is killed
  MaxShutdowns   \* bound: how often it is asked to terminate

RetryWorker == "retry_worker"
NoRun  == "no_run"
NoJob  == "no_job"
Thread == Client \cup {RetryWorker}

ASSUME ConstantsAssumption ==
  /\ MaxRetry \in Nat /\ MaxRetry > 0
  /\ MaxWorkers \in Nat /\ MaxWorkers > 1
  /\ CoSerializes \in BOOLEAN
  /\ MaxCrashes \in Nat /\ MaxShutdowns \in Nat
  /\ RetryWorker \notin Client
  /\ NoRun \notin Run
  /\ NoJob \notin Task

VARIABLES
  proc,      \* phase of the process that owns the task manager
  store,     \* tasks.json
  tasks,     \* self._tasks, the dictionary of registered executions
  fut,       \* state of the future of an execution
  of,        \* the task an execution is of
  count,     \* info["retry_count"] of an execution
  cb,        \* its done_callback: not added, added, running, or over
  entry,     \* the execution that a running callback popped from self._tasks
  pc,        \* where each thread is
  job,       \* the task a thread is working on
  cnt,       \* the retry_count it read for that task
  mine,      \* the execution a thread has submitted
  todo,      \* rest of the list the retry worker iterates over
  toKill,    \* to_kill of shutdown
  failures,  \* history: failed executions of a task since it was accepted
  crashes, shutdowns

storeVars  == <<store, failures>>
runVars    == <<fut, of, count, cb, entry>>
threadVars == <<pc, job, cnt, mine, todo>>
procVars   == <<proc, toKill, crashes, shutdowns>>
vars == <<storeVars, tasks, runVars, threadVars, procVars>>

-----------------------------------------------------------------------------

PENDING   == "Pending"
RUNNING   == "Running"
FAILED    == "Failed"
COMPLETED == "Completed"
TaskState == {PENDING, RUNNING, FAILED, COMPLETED}

\* A record of tasks.json.  run_task_ext gives a task that has none -1.
NoTask == [state |-> "none", retry_count |-> -1]
Saved(t) == store[t] # NoTask
NoTasks == [t \in Task |-> NoTask]

Shutting == proc \in {"draining", "marking", "closed"}
Done(r)  == fut[r] \in {"ok", "failed", "cancelled"}

\* A value no variable refers to any more is collected by the interpreter.
Garbage(r) ==
  /\ fut[r] = "free" \/ (Done(r) /\ cb[r] = "over")
  /\ \A c \in Thread : mine[c] # r
  /\ \A t \in Task : tasks[t] # r /\ <<t, r>> \notin toKill
  /\ \A q \in Run : entry[q] # r

\* Variants of the queries with a condition wrong: the state, or the boundary.
RetriableAnyState   == {t \in Task : Saved(t) /\ store[t].retry_count < MaxRetry}
RetriableOnceMore   == {t \in Task : store[t].state = FAILED /\ store[t].retry_count <= MaxRetry}
NotRetriableEarly   == {t \in Task : Saved(t) /\ store[t].retry_count >= MaxRetry - 1}
NotRetriableNever   == {t \in Task : Saved(t) /\ store[t].retry_count > MaxRetry}

\* The two outcomes of get_tasks(retriable=...) and the one by state.
Retriable    == {t \in Task : store[t].state = FAILED /\ store[t].retry_count < MaxRetry}
NotRetriable == {t \in Task : Saved(t) /\ store[t].retry_count >= MaxRetry}
InState(s)   == {t \in Task : store[t].state = s}

\* Bound: counts are only compared with max_retry, and stay below CountCap
\* unless requests for a task race each other.
CountCap == MaxRetry + 2
Increment(n) == IF n < CountCap THEN n + 1 ELSE n

save_task(t, s, n) == store' = [store EXCEPT ![t] = [state |-> s, retry_count |-> n]]

\* Where run_task_ext goes when it returns, and when it raises: the retry
\* worker has more tasks to retry, or starts over after its exception handler.
Returned(c) == IF c = RetryWorker THEN "retrying" ELSE "idle"
Raised(c)   == IF c = RetryWorker THEN "loop" ELSE "idle"

\* Thread c goes on with step `to'; Leave also drops the locals of the call.
Goto(c, to) == pc' = [pc EXCEPT ![c] = to]
Leave(c, to) ==
  /\ Goto(c, to)
  /\ job' = [job EXCEPT ![c] = NoJob]
  /\ cnt' = [cnt EXCEPT ![c] = -1]
  /\ mine' = [mine EXCEPT ![c] = NoRun]

-----------------------------------------------------------------------------
(* run_task and run_task_ext, one action per step of the call *)

\* A gRPC handler calls run_task; it raises at once when shutting down.
RunTask(c, t) ==
  /\ c \in Client /\ pc[c] = "idle"
  /\ proc = "up"
  /\ CoSerializes => \A d \in Client : job[d] # t
  /\ Goto(c, "read") /\ job' = [job EXCEPT ![c] = t]
  /\ UNCHANGED <<storeVars, tasks, runVars, cnt, mine, todo, procVars>>

\* Variant: a request is taken for a new one whatever is recorded.
ReadCurrentNoReturn(c) ==
  /\ pc[c] = "read"
  /\ Goto(c, "save_pending")
  /\ cnt' = [cnt EXCEPT ![c] = store[job[c]].retry_count]
  /\ UNCHANGED <<storeVars, tasks, runVars, job, mine, todo, procVars>>

\* get_task: a request for a task that has a record returns its id.
ReadCurrent(c) ==
  /\ pc[c] = "read"
  /\ IF c # RetryWorker /\ Saved(job[c])
       THEN Leave(c, "idle")
       ELSE /\ Goto(c, "save_pending")
            /\ cnt' = [cnt EXCEPT ![c] = store[job[c]].retry_count]
            /\ UNCHANGED <<job, mine>>
  /\ UNCHANGED <<storeVars, tasks, runVars, todo, procVars>>

SavePending(c) ==
  /\ pc[c] = "save_pending"
  /\ save_task(job[c], PENDING, cnt[c])
  /\ failures' = IF c = RetryWorker THEN failures ELSE [failures EXCEPT ![job[c]] = 0]
  /\ Goto(c, "submit")
  /\ UNCHANGED <<tasks, runVars, job, cnt, mine, todo, procVars>>

\* executor.submit queues a future, or raises once the executor is shut down.
Submit(c, r) ==
  /\ pc[c] = "submit" /\ proc # "closed" /\ Garbage(r)
  /\ fut' = [fut EXCEPT ![r] = "pending"]
  /\ of' = [of EXCEPT ![r] = job[c]]
  /\ count' = [count EXCEPT ![r] = cnt[c]]
  /\ cb' = [cb EXCEPT ![r] = "none"]
  /\ entry' = [entry EXCEPT ![r] = NoRun]
  /\ mine' = [mine EXCEPT ![c] = r]
  /\ Goto(c, "save_running")
  /\ UNCHANGED <<storeVars, tasks, job, cnt, todo, procVars>>

SubmitRaises(c) ==
  /\ pc[c] = "submit" /\ proc = "closed"
  /\ Leave(c, Raised(c))
  /\ UNCHANGED <<storeVars, tasks, runVars, todo, procVars>>

SaveRunning(c) ==
  /\ pc[c] = "save_running"
  /\ save_task(job[c], RUNNING, cnt[c])
  /\ Goto(c, "register")
  /\ UNCHANGED <<failures, tasks, runVars, job, cnt, mine, todo, procVars>>

Register(c) ==
  /\ pc[c] = "register"
  /\ tasks' = [tasks EXCEPT ![job[c]] = mine[c]]
  /\ Goto(c, "add_callback")
  /\ UNCHANGED <<storeVars, runVars, job, cnt, mine, todo, procVars>>

\* add_done_callback runs the callback in the caller when the future is done.
AddCallback(c) ==
  /\ pc[c] = "add_callback"
  /\ IF Done(mine[c])
       THEN /\ cb' = [cb EXCEPT ![mine[c]] = "pop"]
            /\ Goto(c, "in_callback") /\ UNCHANGED <<job, cnt, mine>>
       ELSE /\ cb' = [cb EXCEPT ![mine[c]] = "added"]
            /\ Leave(c, Returned(c))
  /\ UNCHANGED <<storeVars, tasks, fut, of, count, entry, todo, procVars>>

CallbackReturned(c) ==
  /\ pc[c] = "in_callback" /\ cb[mine[c]] = "over"
  /\ Leave(c, Returned(c))
  /\ UNCHANGED <<storeVars, tasks, runVars, todo, procVars>>

-----------------------------------------------------------------------------
(* The thread pool and done_callback *)

\* A callback that no caller of add_done_callback is waiting for runs in the
\* pool's thread.
InPool(r) ==
  \/ fut[r] = "running"
  \/ cb[r] \in {"pop", "eval"} /\ \A c \in Thread : mine[c] # r

BusyWorkers ==
  Cardinality({r \in Run : InPool(r)}) + IF pc[RetryWorker] = "off" THEN 0 ELSE 1

BeginExecution(r) ==
  /\ fut[r] = "pending"
  /\ BusyWorkers < MaxWorkers
  /\ fut' = [fut EXCEPT ![r] = "running"]
  /\ UNCHANGED <<storeVars, tasks, of, count, cb, entry, threadVars, procVars>>

EndExecution(r) ==
  /\ fut[r] = "running"
  /\ \/ fut' = [fut EXCEPT ![r] = "ok"] /\ UNCHANGED failures
     \/ /\ fut' = [fut EXCEPT ![r] = "failed"]
        /\ failures' = [failures EXCEPT ![of[r]] = Increment(@)]
  /\ cb' = [cb EXCEPT ![r] = IF @ = "added" THEN "pop" ELSE @]
  /\ UNCHANGED <<store, tasks, of, count, entry, threadVars, procVars>>

\* done_callback takes whatever is registered under the task's id; nothing to
\* do when another callback already took it.
PopEntry(r) ==
  /\ cb[r] = "pop"
  /\ tasks' = [tasks EXCEPT ![of[r]] = NoRun]
  /\ entry' = [entry EXCEPT ![r] = tasks[of[r]]]
  /\ IF tasks[of[r]] = NoRun
       THEN cb' = [cb EXCEPT ![r] = "over"] /\ of' = [of EXCEPT ![r] = NoJob]
       ELSE cb' = [cb EXCEPT ![r] = "eval"] /\ UNCHANGED of
  /\ UNCHANGED <<storeVars, fut, count, threadVars, procVars>>

\* future.exception() waits for the popped future, and raises CancelledError
\* (which the future logs and drops) when that was cancelled.
SaveOutcome(r) ==
  LET e == entry[r] IN
  /\ cb[r] = "eval" /\ Done(e)
  /\ cb' = [cb EXCEPT ![r] = "over"]
  /\ of' = [of EXCEPT ![r] = NoJob] /\ entry' = [entry EXCEPT ![r] = NoRun]
  /\ \/ /\ fut[e] = "ok"
        /\ save_task(of[r], COMPLETED, count[e]) /\ UNCHANGED count
     \/ /\ fut[e] = "failed"
        /\ save_task(of[r], FAILED, Increment(count[e]))
        /\ count' = [count EXCEPT ![e] = Increment(@)]
     \/ fut[e] = "cancelled" /\ UNCHANGED <<store, count>>
  /\ UNCHANGED <<failures, tasks, fut, threadVars, procVars>>

-----------------------------------------------------------------------------
(* retry_worker *)

\* Variant: the loop does not look at _shutting_down.
RetryScanForever ==
  /\ pc[RetryWorker] = "loop" /\ proc # "down"
  /\ todo' = Retriable /\ Goto(RetryWorker, "retrying")
  /\ UNCHANGED <<storeVars, tasks, runVars, job, cnt, mine, procVars>>

RetryScan ==
  /\ pc[RetryWorker] = "loop" /\ ~Shutting
  /\ todo' = Retriable /\ Goto(RetryWorker, "retrying")
  /\ UNCHANGED <<storeVars, tasks, runVars, job, cnt, mine, procVars>>

RetryTask(t) ==
  /\ pc[RetryWorker] = "retrying" /\ t \in todo
  /\ todo' = todo \ {t}
  /\ IF Shutting
       THEN Goto(RetryWorker, "loop") /\ UNCHANGED job
       ELSE Goto(RetryWorker, "read") /\ job' = [job EXCEPT ![RetryWorker] = t]
  /\ UNCHANGED <<storeVars, tasks, runVars, cnt, mine, procVars>>

DropScan ==
  /\ pc[RetryWorker] = "retrying" /\ todo = {}
  /\ todo' = NotRetriable /\ Goto(RetryWorker, "dropping")
  /\ UNCHANGED <<storeVars, tasks, runVars, job, cnt, mine, procVars>>

CleanScan ==
  /\ pc[RetryWorker] = "dropping" /\ todo = {}
  /\ todo' = InState(COMPLETED) /\ Goto(RetryWorker, "cleaning")
  /\ UNCHANGED <<storeVars, tasks, runVars, job, cnt, mine, procVars>>

\* Variant: the record is blanked and stays.
RemoveTaskBlanks(t) ==
  /\ pc[RetryWorker] \in {"dropping", "cleaning"} /\ t \in todo
  /\ store' = [store EXCEPT ![t].state = "none"]
  /\ todo' = todo \ {t}
  /\ UNCHANGED <<failures, tasks, runVars, pc, job, cnt, mine, procVars>>

\* remove_task raises KeyError when the record is gone already.
RemoveTask(t) ==
  /\ pc[RetryWorker] \in {"dropping", "cleaning"} /\ t \in todo
  /\ store' = [store EXCEPT ![t] = NoTask]
  /\ IF Saved(t)
       THEN todo' = todo \ {t} /\ UNCHANGED pc
       ELSE todo' = {} /\ Goto(RetryWorker, "loop")
  /\ UNCHANGED <<failures, tasks, runVars, job, cnt, mine, procVars>>

Sleep ==
  /\ pc[RetryWorker] = "cleaning" /\ todo = {}
  /\ Goto(RetryWorker, "loop")
  /\ UNCHANGED <<storeVars, tasks, runVars, job, cnt, mine, todo, procVars>>

RetryWorkerExits ==
  /\ pc[RetryWorker] = "loop" /\ Shutting
  /\ Goto(RetryWorker, "off") /\ todo' = {}
  /\ UNCHANGED <<storeVars, tasks, runVars, job, cnt, mine, procVars>>

-----------------------------------------------------------------------------
(* start, shutdown, and the end of the process *)

\* Variant: the interrupted execution is counted as a failed one.
RecoverCounts(t) ==
  /\ proc = "starting" /\ t \in InState(RUNNING)
  /\ save_task(t, FAILED, store[t].retry_count + 1)
  /\ UNCHANGED <<failures, tasks, runVars, threadVars, procVars>>

\* start(), one task at a time: what was running when the process died failed.
Recover(t) ==
  /\ proc = "starting" /\ t \in InState(RUNNING)
  /\ LET n == store[t].retry_count IN save_task(t, FAILED, IF n > 0 THEN n - 1 ELSE n)
  /\ UNCHANGED <<failures, tasks, runVars, threadVars, procVars>>

\* Variant: the retry worker is started without looking for interrupted tasks.
StartedEarly ==
  /\ proc = "starting"
  /\ proc' = "up" /\ Goto(RetryWorker, "loop")
  /\ UNCHANGED <<storeVars, tasks, runVars, job, cnt, mine, todo, toKill, crashes, shutdowns>>

Started ==
  /\ proc = "starting" /\ InState(RUNNING) = {}
  /\ proc' = "up" /\ Goto(RetryWorker, "loop")
  /\ UNCHANGED <<storeVars, tasks, runVars, job, cnt, mine, todo, toKill, crashes, shutdowns>>

Boot ==
  /\ proc = "down" /\ proc' = "starting"
  /\ UNCHANGED <<storeVars, tasks, runVars, threadVars, toKill, crashes, shutdowns>>

Shutdown ==
  /\ proc = "up" /\ shutdowns < MaxShutdowns
  /\ proc' = "draining" /\ toKill' = {} /\ shutdowns' = shutdowns + 1
  /\ UNCHANGED <<storeVars, tasks, runVars, threadVars, crashes>>

\* One round of the polling loop that ends when nothing is registered.
DrainRound ==
  /\ proc = "draining"
  /\ \E t \in Task : tasks[t] # NoRun
  /\ toKill' = {p \in Task \X Run : tasks[p[1]] = p[2] /\ fut[p[2]] = "running"}
  /\ UNCHANGED <<storeVars, tasks, runVars, threadVars, proc, crashes, shutdowns>>

Drained ==
  /\ proc = "draining" /\ \A t \in Task : tasks[t] = NoRun
  /\ proc' = "marking"
  /\ UNCHANGED <<storeVars, tasks, runVars, threadVars, toKill, crashes, shutdowns>>

DrainTimeout ==
  /\ proc = "draining" /\ \E t \in Task : tasks[t] # NoRun
  /\ proc' = "marking"
  /\ UNCHANGED <<storeVars, tasks, runVars, threadVars, toKill, crashes, shutdowns>>

MarkFailed(t, r) ==
  /\ proc = "marking" /\ <<t, r>> \in toKill
  /\ save_task(t, FAILED, count[r])
  /\ toKill' = toKill \ {<<t, r>>}
  /\ UNCHANGED <<failures, tasks, runVars, threadVars, proc, crashes, shutdowns>>

\* executor.shutdown(cancel_futures=True): a queued future is cancelled, which
\* runs its callback.
CloseExecutor ==
  /\ proc = "marking" /\ toKill = {}
  /\ proc' = "closed"
  /\ fut' = [r \in Run |-> IF fut[r] = "pending" THEN "cancelled" ELSE fut[r]]
  /\ cb' = [r \in Run |-> IF fut[r] = "pending" /\ cb[r] = "added" THEN "pop" ELSE cb[r]]
  /\ UNCHANGED <<storeVars, tasks, of, count, entry, threadVars, toKill, crashes, shutdowns>>

\* What the process holds in memory is gone.
ProcessEnds ==
  /\ proc' = "down" /\ toKill' = {} /\ todo' = {}
  /\ tasks' = [t \in Task |-> NoRun]
  /\ fut' = [r \in Run |-> "free"] /\ of' = [r \in Run |-> NoJob]
  /\ count' = [r \in Run |-> -1]
  /\ cb' = [r \in Run |-> "over"] /\ entry' = [r \in Run |-> NoRun]
  /\ pc' = [c \in Thread |-> IF c = RetryWorker THEN "off" ELSE "idle"]
  /\ job' = [c \in Thread |-> NoJob] /\ cnt' = [c \in Thread |-> -1]
  /\ mine' = [c \in Thread |-> NoRun]

\* The interpreter joins the pool's threads before it exits.
Exit ==
  /\ proc = "closed"
  /\ pc[RetryWorker] = "off" /\ \A c \in Client : pc[c] = "idle"
  /\ \A r \in Run : ~InPool(r)
  /\ ProcessEnds
  /\ UNCHANGED <<storeVars, crashes, shutdowns>>

\* A thread is about to rewrite tasks.json, or in the middle of it.
Saving ==
  \/ \E c \in Thread : pc[c] \in {"save_pending", "save_running"}
  \/ \E r \in Run : cb[r] = "eval" /\ fut[entry[r]] \in {"ok", "failed"}
  \/ pc[RetryWorker] \in {"dropping", "cleaning"} /\ todo # {}
  \/ proc = "starting" /\ InState(RUNNING) # {}
  \/ proc = "marking" /\ toKill # {}

\* The process is killed.  The file is truncated before it is rewritten, so a
\* save cut short leaves it empty.
Crash ==
  /\ proc # "down" /\ crashes < MaxCrashes
  /\ crashes' = crashes + 1
  /\ \/ UNCHANGED store
     \/ Saving /\ store' = NoTasks
  /\ ProcessEnds
  /\ UNCHANGED <<failures, shutdowns>>

-----------------------------------------------------------------------------

Init ==
  /\ proc = "down" /\ toKill = {} /\ todo = {}
  /\ tasks = [t \in Task |-> NoRun]
  /\ fut = [r \in Run |-> "free"] /\ of = [r \in Run |-> NoJob]
  /\ count = [r \in Run |-> -1]
  /\ cb = [r \in Run |-> "over"] /\ entry = [r \in Run |-> NoRun]
  /\ pc = [c \in Thread |-> IF c = RetryWorker THEN "off" ELSE "idle"]
  /\ job = [c \in Thread |-> NoJob] /\ cnt = [c \in Thread |-> -1]
  /\ mine = [c \in Thread |-> NoRun]
  /\ store = NoTasks /\ failures = [t \in Task |-> 0]
  /\ crashes = 0 /\ shutdowns = 0

ThreadStep(c) ==
  \/ ReadCurrent(c) \/ SavePending(c) \/ (\E r \in Run : Submit(c, r))
  \/ SubmitRaises(c) \/ SaveRunning(c) \/ Register(c) \/ AddCallback(c)
  \/ CallbackReturned(c)

RetryStep ==
  \/ RetryScan \/ DropScan \/ CleanScan \/ Sleep \/ RetryWorkerExits
  \/ \E t \in Task : RetryTask(t) \/ RemoveTask(t)

StartStep == Boot \/ Started \/ \E t \in Task : Recover(t)

ShutdownStep ==
  \/ DrainRound \/ Drained \/ DrainTimeout \/ CloseExecutor \/ Exit
  \/ \E t \in Task, r \in Run : MarkFailed(t, r)

Next ==
  \/ \E c \in Client, t \in Task : RunTask(c, t)
  \/ \E c \in Thread : ThreadStep(c)
  \/ \E r \in Run : BeginExecution(r) \/ EndExecution(r) \/ PopEntry(r) \/ SaveOutcome(r)
  \/ RetryStep \/ StartStep \/ Shutdown \/ ShutdownStep \/ Crash

Spec == Init /\ [][Next]_vars

\* The request threads, the pool and the retry worker keep taking steps while
\* the process runs; tasks end, since every task is a bounded amount of file
\* I/O.  The pool serves its queue in order, so a queued execution is not
\* overtaken for ever.  Requests, kills and terminations need not happen.
Fairness ==
  /\ \A c \in Thread : WF_vars(ThreadStep(c))
  /\ \A r \in Run : /\ SF_vars(BeginExecution(r))
                    /\ WF_vars(EndExecution(r) \/ PopEntry(r) \/ SaveOutcome(r))
  /\ WF_vars(RetryStep) /\ WF_vars(StartStep) /\ WF_vars(ShutdownStep)

FairSpec == Spec /\ Fairness

-----------------------------------------------------------------------------
(* Properties *)

PC == {"idle", "off", "read", "save_pending", "submit", "save_running", "register",
       "add_callback", "in_callback", "loop", "retrying", "dropping", "cleaning"}

\* Types: every variable holds a value of the kind its declaration says.
TypeOK ==
  /\ proc \in {"down", "starting", "up", "draining", "marking", "closed"}
  /\ store \in [Task -> {NoTask} \cup [state : TaskState, retry_count : Int]]
  /\ tasks \in [Task -> Run \cup {NoRun}]
  /\ fut \in [Run -> {"free", "pending", "running", "ok", "failed", "cancelled"}]
  /\ of \in [Run -> Task \cup {NoJob}]
  /\ count \in [Run -> Int]
  /\ cb \in [Run -> {"none", "added", "pop", "eval", "over"}]
  /\ entry \in [Run -> Run \cup {NoRun}]
  /\ pc \in [Thread -> PC]
  /\ job \in [Thread -> Task \cup {NoJob}]
  /\ cnt \in [Thread -> Int]
  /\ mine \in [Thread -> Run \cup {NoRun}]
  /\ todo \in SUBSET Task
  /\ toKill \in SUBSET (Task \X Run)
  /\ failures \in [Task -> Nat]
  /\ crashes \in Nat /\ shutdowns \in Nat

Live(r) == fut[r] \in {"pending", "running"}

\* No task is ever executed twice at the same time: neither a repeated request,
\* nor the retry worker, nor a restart submits a task whose last execution has
\* not ended (create_volume and create_snapshot work on the same files).
OneExecution ==
  \A q, r \in Run : Live(q) /\ Live(r) /\ of[q] = of[r] => q = r

-----------------------------------------------------------------------------
(* The inductive invariant behind OneExecution, when the CO serializes its    *)
(* calls.  A task is taken up by one thread at a time, and its record tells   *)
(* everybody else to leave it alone.                                          *)

InCall    == {"save_pending", "submit", "save_running", "register", "add_callback"}
Submitted == {"save_running", "register", "add_callback"}

Active(r)     == cb[r] # "over"
ActiveOf(t)   == {r \in Run : Active(r) /\ of[r] = t}
Calling(c, t) == pc[c] \in InCall /\ job[c] = t
Reading(t)    == \E d \in Client : pc[d] = "read" /\ job[d] = t

\* Somebody will submit the task or is executing it, and its record says so.
Taken(t) ==
  \/ ActiveOf(t) # {}
  \/ \E c \in Thread : pc[c] \in InCall \ {"save_pending"} /\ job[c] = t
  \/ pc[RetryWorker] \in {"read", "save_pending"} /\ job[RetryWorker] = t

\* A call may still go by the record of the task.
Watched(t) == proc = "up" \/ Reading(t)

\* Who owns what, however the calls interleave.
OwnInv ==
  /\ \A c \in Thread : /\ pc[c] \in InCall \cup {"read", "in_callback"} => job[c] \in Task
                       /\ pc[c] \in Submitted => mine[c] \in Run /\ cb[mine[c]] = "none"
  /\ \A c, d \in Thread :
        pc[c] \in Submitted /\ pc[d] \in Submitted /\ mine[c] = mine[d] => c = d
  /\ \A r \in Run : /\ Active(r) => of[r] \in Task
                    /\ cb[r] = "eval" => entry[r] \in Run

JobsInv ==
  /\ \A c \in Thread : pc[c] \notin InCall \cup {"read", "in_callback"} => job[c] = NoJob
  /\ \A c \in Client : pc[c] \in InCall \cup {"idle", "read", "in_callback"}
  /\ \A c, d \in Client : job[c] = job[d] /\ c # d => job[c] = NoJob

ProcInv ==
  /\ proc \in {"down", "starting"} =>
       /\ \A c \in Client : pc[c] = "idle"
       /\ pc[RetryWorker] = "off"
       /\ \A r \in Run : ~Active(r)
       /\ \A t \in Task : tasks[t] = NoRun
  /\ toKill # {} => proc \in {"draining", "marking"}

RunsInv ==
  /\ \A r \in Run : /\ Live(r) => Active(r)
                    /\ fut[r] = "free" => ~Active(r)
                    /\ Active(r) => count[r] < MaxRetry
                    /\ cb[r] \in {"added", "pop"} => tasks[of[r]] = r
                    /\ cb[r] = "eval" => entry[r] = r
  /\ \A t \in Task : tasks[t] # NoRun =>
        Active(tasks[t]) /\ cb[tasks[t]] # "eval" /\ of[tasks[t]] = t

CallsInv ==
  \A c \in Thread :
    /\ pc[c] \in InCall => cnt[c] < MaxRetry
    /\ pc[c] \in Submitted => of[mine[c]] = job[c]
    /\ pc[c] = "add_callback" => tasks[job[c]] = mine[c]

\* One thread takes a task up, and only while nothing of it is active.
ExclusiveInv ==
  /\ \A q, r \in Run : Active(q) /\ Active(r) /\ of[q] = of[r] => q = r
  /\ \A c, d \in Thread : \A t \in Task : Calling(c, t) /\ Calling(d, t) => c = d
  /\ \A c \in Thread : pc[c] \in {"save_pending", "submit"} => ActiveOf(job[c]) = {}

\* The task that the retry worker took from its list is nobody else's.
RetryReadInv ==
  pc[RetryWorker] = "read" =>
    LET t == job[RetryWorker] IN
    /\ ActiveOf(t) = {} /\ \A c \in Client : ~Calling(c, t)
    /\ store[t].retry_count < MaxRetry
    /\ \A r \in Run : <<t, r>> \notin toKill

\* The list of tasks to retry does not get stale while requests come in.
RetryListInv ==
  pc[RetryWorker] \in InCall \cup {"retrying", "read", "in_callback"} /\ ~Shutting =>
    \A t \in todo : /\ t \in Retriable /\ t # job[RetryWorker]
                    /\ ActiveOf(t) = {} /\ \A c \in Client : ~Calling(c, t)

\* Nor do the lists of tasks to remove, as long as somebody reads the records.
RemoveListInv ==
  pc[RetryWorker] \in {"dropping", "cleaning"} =>
    \A t \in todo : Watched(t) => Saved(t) /\ ~Taken(t)

\* A request that found no record still finds none when it saves one.
AcceptInv ==
  \A c \in Client : proc = "up" /\ pc[c] = "save_pending" => ~Saved(job[c])

\* The record of a task that is taken says so while a call may go by it.
TakenInv ==
  \A t \in Task : Watched(t) /\ Taken(t) =>
    Saved(t) /\ store[t].retry_count < MaxRetry /\ store[t].state # COMPLETED

\* While requests come in, that record is neither FAILED nor COMPLETED once the
\* task is submitted.
BusyInv ==
  \A t \in Task :
    /\ proc = "up"
    /\ ActiveOf(t) # {} \/ \E c \in Thread : pc[c] \in InCall \ {"save_pending"} /\ job[c] = t
    => store[t].state \in {PENDING, RUNNING}

\* An execution that shutdown is going to mark is the one that takes the task.
KillInv ==
  \A t \in Task, r \in Run :
    <<t, r>> \in toKill /\ Reading(t) /\ Taken(t) => Active(r) /\ of[r] = t

IndInv ==
  /\ OwnInv /\ JobsInv /\ ProcInv /\ RunsInv /\ CallsInv /\ ExclusiveInv
  /\ RetryReadInv /\ RetryListInv /\ RemoveListInv /\ AcceptInv /\ TakenInv
  /\ BusyInv /\ KillInv

-----------------------------------------------------------------------------

\* Some thread or execution is going to save another state of the task.
Engaged(t) ==
  \/ \E c \in Thread : job[c] = t /\ pc[c] \notin {"read", "in_callback"}
  \/ \E r \in Run : of[r] = t /\ (Live(r) \/ cb[r] \in {"pop", "eval"})

\* retry_worker removes a task by a list it read earlier and, for the tasks
\* that are not retriable, whatever their state: it never removes the record of
\* a task that is being executed or about to be.
RemovesOnlyIdle == [][\A t \in Task : RemoveTask(t) => ~Engaged(t)]_vars

\* A task is given up only after max_retry + 1 executions of it failed: the
\* retry_count in the store never runs ahead of the failures, across any number
\* of kills.  (A shutdown may save the count of an execution that is over.)
CountsOnlyFailures ==
  shutdowns = 0 => \A t \in Task : Saved(t) => store[t].retry_count < failures[t]

\* While the process serves requests, a task recorded as running has somebody
\* who will record its end.  (start() looks at no task again.)
RunningIsEngaged ==
  proc = "up" => \A t \in InState(RUNNING) : Engaged(t)

\* Without restarts a task is executed at most max_retry + 1 times per request,
\* the number test_failing_task_is_dropped_after_max_retry counts.
BoundedExecutions ==
  crashes = 0 /\ shutdowns = 0 => \A t \in Task : failures[t] <= MaxRetry + 1

Lifecycle == INSTANCE TaskLifecycle WITH life <- [t \in Task |-> store[t].state], ending <- Shutting

\* Every record follows the states of TaskLifecycle: PENDING, RUNNING, then
\* COMPLETED or FAILED, and no other order.
ImplementsLifecycle == Lifecycle!Spec

\* Every task that is recorded gets removed from the store, done or given up,
\* unless a termination is requested first (one that closes the executor between
\* the save of Pending and the submission leaves Pending for good).
EventuallySettled == \A t \in Task : Saved(t) ~> ~Saved(t) \/ shutdowns > 0

\* A requested termination ends with the process gone, whatever was queued,
\* running, or waiting for another execution in its callback.
ShutdownCompletes == Shutting ~> proc = "down"

=============================================================================

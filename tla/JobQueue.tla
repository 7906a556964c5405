------------------------------ MODULE JobQueue ------------------------------
(***************************************************************************)
(* The embedded run queue of backend/synqc_backend/jobs.py: a thread pool  *)
(* that executes submitted experiments, a soft timeout per job, a best-    *)
(* effort cancel and a graceful shutdown.                                  *)
(*                                                                         *)
(* Grain of atomicity.  One action is one critical section of the queue's  *)
(* lock, one call of the executor, one call of the experiment store, or    *)
(* one call of the engine.  The threads are: API threads inside enqueue    *)
(* (Clients), API threads inside cancel, the pool's workers (at most       *)
(* MaxWorkers), one timer thread per running job, and the thread that      *)
(* calls shutdown.                                                         *)
(*                                                                         *)
(* SqliteJobStore cannot be imported (job_store.py defines no such class), *)
(* so self._persist is always None: every "if self._persist" branch of     *)
(* the file is dead and is left out.                                       *)
(***************************************************************************)
EXTENDS Naturals, Sequences, FiniteSets, Functions

CONSTANTS
    Jobs,           \* the job ids uuid4 can return
    Clients,        \* API threads that may be inside enqueue
    NoJob,          \* a client that holds no job
    MaxWorkers,     \* ThreadPoolExecutor(max_workers)
    MaxPending,     \* job_queue_max_pending
    EngineCodes,    \* the error codes the engine's exceptions map to
    TimeoutEnabled, \* job_timeout_seconds > 0
    WaitForever     \* shutdown is called with timeout=None

ASSUME JobQueueAssumption ==
    /\ IsFiniteSet(Jobs) /\ IsFiniteSet(Clients)
    /\ Clients # {}
    /\ NoJob \notin Jobs
    /\ MaxWorkers \in Nat \ {0}
    /\ MaxPending \in Nat \ {0}
    /\ EngineCodes \cap {"TIMEOUT", "CANCELLED", "none", "success"} = {}
    /\ TimeoutEnabled \in BOOLEAN
    /\ WaitForever \in BOOLEAN

VARIABLES
    status,     \* JobRecord.status, "absent" while _jobs has no record
    code,       \* JobRecord.error_code
    finished,   \* jobs whose finished_at is set
    signalled,  \* jobs whose cancel event is set (the engine never reads it)
    counts,     \* _failure_counts
    future,     \* the state of the job's concurrent.futures.Future
    registered, \* the keys of _futures
    workq,      \* the executor's work queue
    clientPc,   \* where a client is inside enqueue
    clientJob,  \* the job a client is enqueueing
    runPc,      \* where a pool thread is inside _run_job
    timer,      \* the job's threading.Timer
    persisting, \* jobs whose canceller or timer has yet to call _persist_failure
    store,      \* the job's entry in the ExperimentStore
    metrics,    \* what _observe_metrics recorded for the job
    shutdownPc, \* where the shutdown call is
    awaited     \* the futures shutdown waits for

recordVars == <<status, code, finished, signalled, counts>>
poolVars   == <<future, registered, workq>>
clientVars == <<clientPc, clientJob>>
runVars    == <<runPc, timer>>
outVars    == <<persisting, store, metrics>>
downVars   == <<shutdownPc, awaited>>
vars == <<recordVars, poolVars, clientVars, runVars, outVars, downVars>>

Codes    == EngineCodes \union {"TIMEOUT", "CANCELLED"}
Terminal == {"succeeded", "failed"}
Active   == {j \in Jobs : status[j] \in {"queued", "running"}}
Admitted == {c \in Clients : clientPc[c] = "admitted"}
Busy     == {j \in Jobs : runPc[j] \notin {"none", "done"}}
FailedWith(c) == {j \in Jobs : status[j] = "failed" /\ code[j] = c}

TypeOK ==
    /\ status \in [Jobs -> {"absent", "queued", "running"} \union Terminal]
    /\ code \in [Jobs -> Codes \union {"none"}]
    /\ finished \subseteq Jobs
    /\ signalled \subseteq Jobs
    /\ counts \in [Codes -> Nat]
    /\ future \in [Jobs -> {"none", "pending", "running", "cancelled", "notified", "finished"}]
    /\ registered \subseteq Jobs
    /\ workq \in Seq(Jobs)
    /\ clientPc \in [Clients -> {"idle", "admitted", "inserted", "submitted"}]
    /\ clientJob \in [Clients -> Jobs \union {NoJob}]
    /\ \A c \in Clients : clientPc[c] \in {"inserted", "submitted"} => clientJob[c] \in Jobs
    /\ runPc \in [Jobs -> {"none", "begin", "arm", "call", "returned", "persist",
                           "cleanup", "metrics", "done"}]
    /\ timer \in [Jobs -> {"off", "armed", "fired"}]
    /\ persisting \subseteq Jobs
    /\ store \in [Jobs -> Codes \union {"none", "success"}]
    /\ metrics \in [Jobs -> Codes \union {"none", "success"}]
    /\ shutdownPc \in {"up", "flagged", "waiting", "returned"}
    /\ awaited \subseteq Jobs

Init ==
    /\ status = [j \in Jobs |-> "absent"]
    /\ code = [j \in Jobs |-> "none"]
    /\ finished = {}
    /\ signalled = {}
    /\ counts = [c \in Codes |-> 0]
    /\ future = [j \in Jobs |-> "none"]
    /\ registered = {}
    /\ workq = <<>>
    /\ clientPc = [c \in Clients |-> "idle"]
    /\ clientJob = [c \in Clients |-> NoJob]
    /\ runPc = [j \in Jobs |-> "none"]
    /\ timer = [j \in Jobs |-> "off"]
    /\ persisting = {}
    /\ store = [j \in Jobs |-> "none"]
    /\ metrics = [j \in Jobs |-> "none"]
    /\ shutdownPc = "up"
    /\ awaited = {}

-----------------------------------------------------------------------------
(* enqueue: an admission check, the insertion, the submission and the      *)
(* registration of the future, each under a separate lock acquisition.  A  *)
(* rejected call raises RuntimeError and changes nothing.                  *)

HasRoomOffByOne == Cardinality(Active) <= MaxPending
HasRoom == Cardinality(Active) < MaxPending

EnqueueCheck(c) ==
    /\ clientPc[c] = "idle"
    /\ shutdownPc = "up"
    /\ HasRoom
    /\ clientPc' = [clientPc EXCEPT ![c] = "admitted"]
    /\ UNCHANGED <<recordVars, poolVars, clientJob, runVars, outVars, downVars>>

\* enqueue goes on without the id of the record it inserted.
InsertForgetsId(c, j) ==
    /\ clientPc[c] = "admitted"
    /\ status[j] = "absent"
    /\ status' = [status EXCEPT ![j] = "queued"]
    /\ clientPc' = [clientPc EXCEPT ![c] = "inserted"]
    /\ UNCHANGED <<code, finished, signalled, counts, poolVars, clientJob, runVars, outVars,
                   downVars>>

EnqueueInsert(c, j) ==
    /\ clientPc[c] = "admitted"
    /\ status[j] = "absent"
    /\ status' = [status EXCEPT ![j] = "queued"]
    /\ clientPc' = [clientPc EXCEPT ![c] = "inserted"]
    /\ clientJob' = [clientJob EXCEPT ![c] = j]
    /\ UNCHANGED <<code, finished, signalled, counts, poolVars, runVars, outVars, downVars>>

\* executor.submit raises once the executor is shut down: the exception leaves
\* enqueue and the record stays QUEUED without a future.
ExecutorDown == shutdownPc \in {"waiting", "returned"}

EnqueueSubmit(c) ==
    /\ clientPc[c] = "inserted"
    /\ LET j == clientJob[c] IN
         \/ /\ ~ExecutorDown
            /\ workq' = Append(workq, j)
            /\ future' = [future EXCEPT ![j] = "pending"]
            /\ clientPc' = [clientPc EXCEPT ![c] = "submitted"]
            /\ UNCHANGED clientJob
         \/ /\ ExecutorDown
            /\ clientPc' = [clientPc EXCEPT ![c] = "idle"]
            /\ clientJob' = [clientJob EXCEPT ![c] = NoJob]
            /\ UNCHANGED <<workq, future>>
    /\ UNCHANGED <<recordVars, registered, runVars, outVars, downVars>>

EnqueueRegister(c) ==
    /\ clientPc[c] = "submitted"
    /\ registered' = registered \union {clientJob[c]}
    /\ clientPc' = [clientPc EXCEPT ![c] = "idle"]
    /\ clientJob' = [clientJob EXCEPT ![c] = NoJob]
    /\ UNCHANGED <<recordVars, future, workq, runVars, outVars, downVars>>

-----------------------------------------------------------------------------
(* The three lock sections that fail a record: cancel, _timeout_job and    *)
(* _fail_record.  The ExperimentStore is told after the lock is released.  *)

MarkFailedKeepsStatus(j, c) ==
    /\ code' = [code EXCEPT ![j] = c]
    /\ finished' = finished \union {j}
    /\ counts' = [counts EXCEPT ![c] = @ + 1]
    /\ UNCHANGED status

MarkFailed(j, c) ==
    /\ status' = [status EXCEPT ![j] = "failed"]
    /\ code' = [code EXCEPT ![j] = c]
    /\ finished' = finished \union {j}
    /\ counts' = [counts EXCEPT ![c] = @ + 1]

\* Future.cancel() on the registered future: only a pending one is cancelled.
CancelFuture(j) ==
    future' = IF j \in registered /\ future[j] = "pending"
              THEN [future EXCEPT ![j] = "cancelled"] ELSE future

CancellableLate(j) == status[j] \in {"queued", "running", "succeeded"}
Cancellable(j) == status[j] \in {"queued", "running"}

\* cancel returns without telling the experiment store.
CancelUnpersisted(j) ==
    /\ Cancellable(j)
    /\ MarkFailed(j, "CANCELLED")
    /\ signalled' = signalled \union {j}
    /\ CancelFuture(j)
    /\ UNCHANGED <<registered, workq, clientVars, runVars, outVars, downVars>>

Cancel(j) ==
    /\ Cancellable(j)
    /\ MarkFailed(j, "CANCELLED")
    /\ signalled' = signalled \union {j}
    /\ CancelFuture(j)
    /\ persisting' = persisting \union {j}
    /\ UNCHANGED <<registered, workq, clientVars, runVars, store, metrics, downVars>>

\* The Timer thread is past its wait: Timer.cancel() no longer stops it.
TimerFire(j) ==
    /\ timer[j] = "armed"
    /\ timer' = [timer EXCEPT ![j] = "fired"]
    /\ UNCHANGED <<recordVars, poolVars, clientVars, runPc, outVars, downVars>>

MayTimeOutUnchecked(j) == TRUE
MayTimeOut(j) == status[j] = "running"

TimeoutJob(j) ==
    /\ timer[j] = "fired"
    /\ timer' = [timer EXCEPT ![j] = "off"]
    /\ \/ /\ MayTimeOut(j)
          /\ MarkFailed(j, "TIMEOUT")
          /\ signalled' = signalled \union {j}
          /\ CancelFuture(j)
          /\ persisting' = persisting \union {j}
       \/ /\ ~MayTimeOut(j)
          /\ UNCHANGED <<recordVars, future, persisting>>
    /\ UNCHANGED <<registered, workq, clientVars, runPc, store, metrics, downVars>>

\* _persist_failure in the canceller's or the timer's thread.
PersistFailure(j) ==
    /\ j \in persisting
    /\ persisting' = persisting \ {j}
    /\ store' = [store EXCEPT ![j] = code[j]]
    /\ UNCHANGED <<recordVars, poolVars, clientVars, runVars, metrics, downVars>>

-----------------------------------------------------------------------------
(* The pool: a thread takes the oldest work item and calls _run_job unless *)
(* the item's future was cancelled.                                        *)

PoolTake(j) ==
    /\ workq # <<>> /\ j = Head(workq)
    /\ Cardinality(Busy) < MaxWorkers
    /\ workq' = Tail(workq)
    /\ \/ /\ future[j] = "pending"
          /\ future' = [future EXCEPT ![j] = "running"]
          /\ runPc' = [runPc EXCEPT ![j] = "begin"]
       \/ /\ future[j] = "cancelled"
          /\ future' = [future EXCEPT ![j] = "notified"]
          /\ UNCHANGED runPc
    /\ UNCHANGED <<recordVars, registered, clientVars, timer, outVars, downVars>>

StartBlindly(j) == TRUE
NotCancelledYet(j) == status[j] # "failed"

RunBegin(j) ==
    /\ runPc[j] = "begin"
    /\ \/ /\ NotCancelledYet(j)
          /\ status' = [status EXCEPT ![j] = "running"]
          /\ runPc' = [runPc EXCEPT ![j] = IF TimeoutEnabled THEN "arm" ELSE "call"]
          /\ UNCHANGED future
       \/ /\ ~NotCancelledYet(j)
          /\ runPc' = [runPc EXCEPT ![j] = "done"]
          /\ future' = [future EXCEPT ![j] = "finished"]
          /\ UNCHANGED status
    /\ UNCHANGED <<code, finished, signalled, counts, registered, workq, clientVars,
                   timer, outVars, downVars>>

\* The timer is created but never started.
TimerNotStarted(j) ==
    /\ runPc[j] = "arm"
    /\ runPc' = [runPc EXCEPT ![j] = "call"]
    /\ UNCHANGED <<recordVars, poolVars, clientVars, timer, outVars, downVars>>

RunArm(j) ==
    /\ runPc[j] = "arm"
    /\ timer' = [timer EXCEPT ![j] = "armed"]
    /\ runPc' = [runPc EXCEPT ![j] = "call"]
    /\ UNCHANGED <<recordVars, poolVars, clientVars, outVars, downVars>>

\* worker_fn (engine.run_experiment, called with run_id = the job id) succeeds:
\* its last step is store.add, before the queue sees the result.
EngineReturn(j) ==
    /\ runPc[j] = "call"
    /\ store' = [store EXCEPT ![j] = "success"]
    /\ runPc' = [runPc EXCEPT ![j] = "returned"]
    /\ UNCHANGED <<recordVars, poolVars, clientVars, timer, persisting, metrics, downVars>>

CompletableAlways(j) == TRUE
CompletableQueued(j) == status[j] = "queued"
Completable(j) == status[j] = "running"

\* The lock section after worker_fn returned.
RunComplete(j) ==
    /\ runPc[j] = "returned"
    /\ runPc' = [runPc EXCEPT ![j] = "cleanup"]
    /\ status' = IF Completable(j) THEN [status EXCEPT ![j] = "succeeded"] ELSE status
    /\ UNCHANGED <<code, finished, signalled, counts, poolVars, clientVars, timer,
                   outVars, downVars>>

\* worker_fn raises and the except clause calls _fail_record.
FailRecord(j, c) ==
    /\ runPc[j] = "call"
    /\ \/ /\ Completable(j)
          /\ MarkFailed(j, c)
          /\ runPc' = [runPc EXCEPT ![j] = "persist"]
       \/ /\ ~Completable(j)
          /\ runPc' = [runPc EXCEPT ![j] = "cleanup"]
          /\ UNCHANGED <<status, code, finished, counts>>
    /\ UNCHANGED <<signalled, poolVars, clientVars, timer, outVars, downVars>>

\* _persist_failure at the end of _fail_record.
RunPersist(j) ==
    /\ runPc[j] = "persist"
    /\ store' = [store EXCEPT ![j] = code[j]]
    /\ runPc' = [runPc EXCEPT ![j] = "cleanup"]
    /\ UNCHANGED <<recordVars, poolVars, clientVars, timer, persisting, metrics, downVars>>

\* The finally clause: the timer is cancelled and finished_at is set.
RunCleanup(j) ==
    /\ runPc[j] = "cleanup"
    /\ timer' = [timer EXCEPT ![j] = IF @ = "armed" THEN "off" ELSE @]
    /\ finished' = IF status[j] \in Terminal THEN finished \union {j} ELSE finished
    /\ runPc' = [runPc EXCEPT ![j] = "metrics"]
    /\ UNCHANGED <<status, code, signalled, counts, poolVars, clientVars, outVars, downVars>>

ObserveMetrics(j) ==
    /\ runPc[j] = "metrics"
    /\ metrics' = [metrics EXCEPT ![j] = CASE status[j] = "succeeded" -> "success"
                                           [] status[j] = "failed" -> code[j]
                                           [] OTHER -> @]
    /\ runPc' = [runPc EXCEPT ![j] = "done"]
    /\ future' = [future EXCEPT ![j] = "finished"]
    /\ UNCHANGED <<recordVars, registered, workq, clientVars, timer, persisting, store, downVars>>

-----------------------------------------------------------------------------
(* shutdown *)

\* The first lock section: refuse new work, snapshot the futures, signal all.
ShutdownFlag ==
    /\ shutdownPc = "up"
    /\ shutdownPc' = "flagged"
    /\ awaited' = registered
    /\ signalled' = {j \in Jobs : status[j] # "absent"}
    /\ UNCHANGED <<status, code, finished, counts, poolVars, clientVars, runVars, outVars>>

\* executor.shutdown(wait=False, cancel_futures=True) drains the work queue
\* and cancels what it drains.  No thread will take a drained item, so no
\* thread ever notifies a waiter of its cancellation.
ShutdownExecutor ==
    /\ shutdownPc = "flagged"
    /\ shutdownPc' = "waiting"
    /\ workq' = <<>>
    /\ future' = [j \in Jobs |-> IF j \in Range(workq) /\ future[j] = "pending"
                                 THEN "cancelled" ELSE future[j]]
    /\ UNCHANGED <<recordVars, registered, clientVars, runVars, outVars, awaited>>

\* concurrent.futures.wait counts a future as done in exactly these two states.
Done(j) == future[j] \in {"notified", "finished"}

ShutdownReturn ==
    /\ shutdownPc = "waiting"
    /\ ~WaitForever \/ \A j \in awaited : Done(j)
    /\ shutdownPc' = "returned"
    /\ UNCHANGED <<recordVars, poolVars, clientVars, runVars, outVars, awaited>>

-----------------------------------------------------------------------------
Enqueue(c) ==
    \/ EnqueueCheck(c)
    \/ \E j \in Jobs : EnqueueInsert(c, j)
    \/ EnqueueSubmit(c)
    \/ EnqueueRegister(c)

\* What a pool thread does by itself; the engine's two outcomes are apart.
PoolStep(j) ==
    \/ PoolTake(j)
    \/ RunBegin(j)
    \/ RunArm(j)
    \/ RunComplete(j)
    \/ RunPersist(j)
    \/ RunCleanup(j)
    \/ ObserveMetrics(j)

EngineStep(j) ==
    \/ EngineReturn(j)
    \/ \E c \in EngineCodes : FailRecord(j, c)

TimerStep(j) == TimerFire(j) \/ TimeoutJob(j)

ShutdownStep == ShutdownExecutor \/ ShutdownReturn

Next ==
    \/ \E c \in Clients : Enqueue(c)
    \/ \E j \in Jobs : Cancel(j)
    \/ \E j \in Jobs : PersistFailure(j)
    \/ \E j \in Jobs : PoolStep(j)
    \/ \E j \in Jobs : EngineStep(j)
    \/ \E j \in Jobs : TimerStep(j)
    \/ ShutdownFlag
    \/ ShutdownStep

Spec == Init /\ [][Next]_vars

\* Threads that are runnable run.  Nobody has to call enqueue, cancel or
\* shutdown; a call that has begun goes on.
ThreadFairness ==
    /\ \A c \in Clients : WF_vars(\/ \E j \in Jobs : EnqueueInsert(c, j)
                                  \/ EnqueueSubmit(c)
                                  \/ EnqueueRegister(c))
    /\ \A j \in Jobs : WF_vars(PoolStep(j)) /\ WF_vars(PersistFailure(j))
    /\ WF_vars(ShutdownStep)

\* A timer whose interval has elapsed fires, and its callback runs.
TimerFairness == \A j \in Jobs : WF_vars(TimerStep(j))

\* The engine call ends, by returning or by raising.
EngineFairness == \A j \in Jobs : WF_vars(EngineStep(j))

\* Nothing is assumed about the engine: it may hang in a provider call.
TimedSpec == Spec /\ ThreadFairness /\ TimerFairness

\* The engine's calls end.
FairSpec == TimedSpec /\ EngineFairness

-----------------------------------------------------------------------------
(* Safety *)

\* _failure_counts, which /health and the metrics export, counts each failed
\* job once and under the code its record carries, however cancel, the timer
\* and the worker race for it (jobs.py:198, 267, 405).
FailureAccounting == \A c \in Codes : counts[c] = Cardinality(FailedWith(c))

\* enqueue checks and inserts in two lock sections (jobs.py:140, 153), so
\* max_pending can be overrun; but the active jobs, together with the callers
\* that have passed the check and will add one more, never exceed it by more
\* than the number of other clients.
CapacityBound ==
    Cardinality(Active) + Cardinality(Admitted) <= MaxPending + Cardinality(Clients) - 1

\* A QUEUED record has somebody who will run it: its client has yet to submit
\* it, or the executor holds it or has just taken it.  Only a shut down
\* executor leaves a QUEUED record behind (jobs.py:166, 234).
QueuedIsReachable == \A j \in Jobs : status[j] = "queued" =>
    \/ \E c \in Clients : clientPc[c] = "inserted" /\ clientJob[c] = j
    \/ j \in Range(workq) /\ future[j] = "pending"
    \/ runPc[j] = "begin"
    \/ ExecutorDown

\* A RUNNING record has a pool thread that will finish it (jobs.py:295-325).
RunningHasThread == \A j \in Jobs :
    status[j] = "running" => runPc[j] \in {"arm", "call", "returned"}

\* The experiment store against the record: a succeeded job is stored as a
\* success (the engine stores before the queue looks, engine.py:393); a stored
\* failure is the record's failure; and a stored success belongs to a job that
\* failed only if a timeout or a cancel overtook a run that then completed
\* (jobs.py:322): the late store.add is never undone.
StoreAgreement == \A j \in Jobs :
    /\ status[j] = "succeeded" => store[j] = "success"
    /\ store[j] \in Codes => status[j] = "failed" /\ code[j] = store[j]
    /\ store[j] = "success" => \/ status[j] \in {"running", "succeeded"}
                               \/ code[j] \in {"TIMEOUT", "CANCELLED"}

\* run_metrics records the outcome the record ends with, although
\* _observe_metrics reads the record without the lock (jobs.py:434).
MetricsAgreement == \A j \in Jobs : metrics[j] # "none" =>
    metrics[j] = IF status[j] = "succeeded" THEN "success" ELSE code[j]

\* The queue implements JobLifecycle: one start, one end, one count per job, and
\* no success is taken back.
Lifecycle == INSTANCE JobLifecycle WITH
    outcome  <- [j \in Jobs |-> IF status[j] = "failed" THEN code[j] ELSE status[j]],
    failures <- counts, RevokeCodes <- {}
LifecycleSpec == Lifecycle!Spec

-----------------------------------------------------------------------------
(* Liveness *)

\* Every accepted job ends, unless the queue is shut down or some engine call
\* hangs: a hung call keeps its pool thread, timeout or not (jobs.py:245-285).
EngineCallsEnd == \A j \in Jobs : []<>(runPc[j] # "call")
QueuedFinishes == EngineCallsEnd =>
    \A j \in Jobs : status[j] = "queued" ~> (status[j] \in Terminal \/ shutdownPc # "up")

\* With job_timeout_seconds > 0 no record stays RUNNING, even when the engine
\* never returns (jobs.py:303-308; needs only TimedSpec).
RunningEnds == \A j \in Jobs : status[j] = "running" ~> status[j] \in Terminal

\* A failed job reaches the experiment store in the end (jobs.py:216, 285, 426).
FailureReachesStore == \A j \in Jobs : status[j] = "failed" ~> store[j] # "none"

-----------------------------------------------------------------------------
(* What the repository says of the queue and the code does not do *)

\* shutdown's docstring (jobs.py:224): "wait up to timeout for running jobs".
\* It waits for running jobs only, so without a timeout it returns once they end.
ShutdownEnds == shutdownPc = "waiting" ~> shutdownPc = "returned"
=============================================================================

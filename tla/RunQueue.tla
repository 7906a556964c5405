------------------------------ MODULE RunQueue ------------------------------
(***************************************************************************)
(* The Redis run queue (run_queue.py, RedisRunQueue) and the dedicated     *)
(* worker processes that drain it (worker.py).                             *)
(*                                                                         *)
(* One action is one Redis command or MULTI/EXEC pipeline, or one outcome  *)
(* of the engine.  A Redis call inside the try block of _process_job may   *)
(* raise before or after the server executed it (at most MaxFaults times); *)
(* a failed call anywhere else kills the worker, so it is a Crash (at most *)
(* MaxCrashes times), after which the process is restarted.                *)
(***************************************************************************)
EXTENDS Integers, Sequences, FiniteSets, Functions

CONSTANTS
    Jobs,           \* the job ids uuid4 can return
    MulticallJobs,  \* those whose preset is MULTICALL_DUAL_CLOCKING
    Workers,        \* worker.py processes
    NoJob,          \* a worker that holds no job
    EngineCodes,    \* the error codes the engine's exceptions map to
    TimeoutEnabled, \* job_timeout_seconds > 0
    MaxFaults, MaxCrashes

ASSUME RunQueueAssumption ==
    /\ IsFiniteSet(Jobs) /\ IsFiniteSet(Workers)
    /\ MulticallJobs \subseteq Jobs
    /\ NoJob \notin Jobs
    /\ EngineCodes \cap {"TIMEOUT", "CANCELLED", "none"} = {}
    /\ "INTERNAL_ERROR" \in EngineCodes
    /\ TimeoutEnabled \in BOOLEAN
    /\ MaxFaults \in Nat /\ MaxCrashes \in Nat

VARIABLES
    status,   \* the "status" field of synqc:runq:job:<id>
    code,     \* its "error_code" field
    result,   \* jobs whose hash has a "result_json"
    pending,  \* the list synqc:runq:pending
    counts,   \* synqc:runq:status_counts
    failures, \* synqc:runq:failure_codes
    stored,   \* jobs whose experiment the engine put into the ExperimentStore
    started,  \* history: how often a job was handed to the engine
    pc, job, raised, \* a worker's position, its job, and the exception it handles
    faults, crashes

redisVars  == <<status, code, result, pending, counts, failures>>
workerVars == <<pc, job, raised>>
envVars    == <<faults, crashes>>
vars == <<redisVars, stored, started, workerVars, envVars>>

Codes    == EngineCodes \union {"TIMEOUT"}
Statuses == {"queued", "running", "succeeded", "failed"}
Terminal == {"succeeded", "failed"}
With(s)  == {j \in Jobs : status[j] = s}
At(p)    == {w \in Workers : pc[w] = p}

Init ==
    /\ status = [j \in Jobs |-> "absent"]
    /\ code = [j \in Jobs |-> "none"]
    /\ result = {}
    /\ pending = <<>>
    /\ counts = [s \in Statuses |-> 0]
    /\ failures = [c \in Codes |-> 0]
    /\ stored = {}
    /\ started = [j \in Jobs |-> 0]
    /\ pc = [w \in Workers |-> "idle"]
    /\ job = [w \in Workers |-> NoJob]
    /\ raised = [w \in Workers |-> "none"]
    /\ faults = 0
    /\ crashes = 0

-----------------------------------------------------------------------------
(* RedisRunQueue *)

Recount(from, to) ==
    counts' = [counts EXCEPT ![from] = @ - 1, ![to] = @ + 1]

\* enqueue: one pipeline.
Enqueue(j) ==
    /\ status[j] = "absent"
    /\ status' = [status EXCEPT ![j] = "queued"]
    /\ pending' = Append(pending, j)
    /\ counts' = [counts EXCEPT !["queued"] = @ + 1]
    /\ UNCHANGED <<code, result, failures, stored, started, workerVars, envVars>>

WriteSuccessNoResult(j) ==
    /\ status' = [status EXCEPT ![j] = "succeeded"]
    /\ Recount("running", "succeeded")
    /\ UNCHANGED <<code, result, pending, failures>>

\* complete_success's pipeline.
WriteSuccess(j) ==
    /\ status' = [status EXCEPT ![j] = "succeeded"]
    /\ result' = result \union {j}
    /\ Recount("running", "succeeded")
    /\ UNCHANGED <<code, pending, failures>>

WriteFailureUncounted(j, c) ==
    /\ status' = [status EXCEPT ![j] = "failed"]
    /\ code' = [code EXCEPT ![j] = c]
    /\ Recount("running", "failed")
    /\ UNCHANGED <<result, pending, failures>>

WriteFailureFromQueued(j, c) ==
    /\ status' = [status EXCEPT ![j] = "failed"]
    /\ code' = [code EXCEPT ![j] = c]
    /\ Recount("queued", "failed")
    /\ failures' = [failures EXCEPT ![c] = @ + 1]
    /\ UNCHANGED <<result, pending>>

\* complete_failure's pipeline.  It overwrites the fields it names and leaves
\* a result_json that is already there.
WriteFailure(j, c) ==
    /\ status' = [status EXCEPT ![j] = "failed"]
    /\ code' = [code EXCEPT ![j] = c]
    /\ Recount("running", "failed")
    /\ failures' = [failures EXCEPT ![c] = @ + 1]
    /\ UNCHANGED <<result, pending>>

-----------------------------------------------------------------------------
(* A worker: claim_next and _process_job *)

Goto(w, p) == pc' = [pc EXCEPT ![w] = p]

PeekFirst(w) == UNCHANGED pending
PopFirst(w)  == pending' = Tail(pending)

\* claim_next: BLPOP, then the job's hash is read.  The hash of a pending id
\* exists and parses, so the two None returns after BLPOP do not occur.
Claim(w) ==
    /\ pc[w] = "idle" /\ pending # <<>>
    /\ PopFirst(w)
    /\ job' = [job EXCEPT ![w] = Head(pending)]
    /\ Goto(w, "claimed")
    /\ UNCHANGED <<status, code, result, counts, failures, stored, started, raised, envVars>>

\* mark_running, first command: the job's hash.
MarkRunning(w) ==
    /\ pc[w] = "claimed"
    /\ status' = [status EXCEPT ![job[w]] = "running"]
    /\ Goto(w, "marked")
    /\ UNCHANGED <<code, result, pending, counts, failures, stored, started, job, raised, envVars>>

\* mark_running, second command: the counters; then the engine is called.
MarkCounts(w) ==
    /\ pc[w] = "marked"
    /\ Recount("queued", "running")
    /\ started' = [started EXCEPT ![job[w]] = @ + 1]
    /\ Goto(w, "running")
    /\ UNCHANGED <<status, code, result, pending, failures, stored, job, raised, envVars>>

\* run_experiment, or the multicall agent and store.add, succeeds.
RunReturns(w) ==
    /\ pc[w] = "running"
    /\ stored' = stored \union {job[w]}
    /\ Goto(w, "finished")
    /\ UNCHANGED <<redisVars, started, job, raised, envVars>>

RunRaises(w, c) ==
    /\ pc[w] = "running"
    /\ raised' = [raised EXCEPT ![w] = c]
    /\ Goto(w, "raised")
    /\ UNCHANGED <<redisVars, stored, started, job, envVars>>

\* future.result(timeout) gives up, but leaving the executor's with block waits
\* for the run to end before the TimeoutError goes on.
RunTimesOut(w) ==
    /\ pc[w] = "running" /\ TimeoutEnabled /\ job[w] \notin MulticallJobs
    /\ Goto(w, "draining")
    /\ UNCHANGED <<redisVars, stored, started, job, raised, envVars>>

RunDrains(w, succeeds) ==
    /\ pc[w] = "draining"
    /\ stored' = IF succeeds THEN stored \union {job[w]} ELSE stored
    /\ raised' = [raised EXCEPT ![w] = "TIMEOUT"]
    /\ Goto(w, "raised")
    /\ UNCHANGED <<redisVars, started, job, envVars>>

Release(w) ==
    /\ Goto(w, "idle")
    /\ job' = [job EXCEPT ![w] = NoJob]
    /\ raised' = [raised EXCEPT ![w] = "none"]

CompleteSuccess(w) ==
    /\ pc[w] = "finished"
    /\ WriteSuccess(job[w])
    /\ Release(w)
    /\ UNCHANGED <<stored, started, envVars>>

\* complete_success raises inside the try block, with or without effect, and
\* the "except Exception" clause goes on to report INTERNAL_ERROR.
SuccessFault(w, executed) ==
    /\ pc[w] = "finished" /\ faults < MaxFaults
    /\ faults' = faults + 1
    /\ IF executed THEN WriteSuccess(job[w]) ELSE UNCHANGED redisVars
    /\ raised' = [raised EXCEPT ![w] = "INTERNAL_ERROR"]
    /\ Goto(w, "raised")
    /\ UNCHANGED <<stored, started, job, crashes>>

\* The failure is logged and not reported.
FailureUnreported(w) ==
    /\ pc[w] = "raised"
    /\ Release(w)
    /\ UNCHANGED <<redisVars, stored, started, envVars>>

\* _handle_failure.
CompleteFailure(w) ==
    /\ pc[w] = "raised"
    /\ WriteFailure(job[w], raised[w])
    /\ Release(w)
    /\ UNCHANGED <<stored, started, envVars>>

\* The process dies, at any point; nobody gives its job back.
Crash(w) ==
    /\ pc[w] # "dead" /\ crashes < MaxCrashes
    /\ crashes' = crashes + 1
    /\ Goto(w, "dead")
    /\ job' = [job EXCEPT ![w] = NoJob]
    /\ raised' = [raised EXCEPT ![w] = "none"]
    /\ UNCHANGED <<redisVars, stored, started, faults>>

Restart(w) ==
    /\ pc[w] = "dead"
    /\ Goto(w, "idle")
    /\ UNCHANGED <<redisVars, stored, started, job, raised, envVars>>

-----------------------------------------------------------------------------
EngineStep(w) ==
    \/ RunReturns(w)
    \/ \E c \in EngineCodes : RunRaises(w, c)
    \/ \E ok \in BOOLEAN : RunDrains(w, ok)

WorkerStep(w) ==
    \/ Claim(w)
    \/ MarkRunning(w)
    \/ MarkCounts(w)
    \/ CompleteSuccess(w)
    \/ CompleteFailure(w)
    \/ Restart(w)

Next ==
    \/ \E j \in Jobs : Enqueue(j)
    \/ \E w \in Workers : \/ WorkerStep(w) \/ EngineStep(w)
                          \/ RunTimesOut(w)
                          \/ \E executed \in BOOLEAN : SuccessFault(w, executed)
                          \/ Crash(w)

Spec == Init /\ [][Next]_vars

\* A live worker goes on, a dead one is restarted (docker-compose.yml:37), and
\* the engine's calls end.
FairSpec == Spec /\ \A w \in Workers : WF_vars(WorkerStep(w)) /\ WF_vars(EngineStep(w))

-----------------------------------------------------------------------------
(* Safety *)

\* Claimed, unfinished, and nobody will finish it.
Stranded == {j \in Jobs : /\ status[j] \in {"queued", "running"}
                          /\ j \notin Range(pending)
                          /\ \A w \in Workers : job[w] # j}

\* BLPOP hands a job to one worker (run_queue.py:76): no job reaches the engine
\* twice, so no job spends its shots twice, whatever crashes and restarts; and
\* each death of a worker strands at most the one job it had claimed.
ClaimedOnce ==
    /\ \A j \in Jobs : started[j] <= 1
    /\ Cardinality(Stranded) <= crashes

\* The counters /health reports: whatever fails, they only shift between states,
\* so that no job is counted twice or dropped from the total; and while nothing
\* fails they are the jobs' states, but for the workers between mark_running's
\* two commands (run_queue.py:95-102).
CountsExact ==
    /\ counts["queued"] + counts["running"] + counts["succeeded"] + counts["failed"]
         = Cardinality({j \in Jobs : status[j] # "absent"})
    /\ faults = 0 /\ crashes = 0 =>
         /\ counts["queued"] = Cardinality(With("queued")) + Cardinality(At("marked"))
         /\ counts["running"] = Cardinality(With("running")) - Cardinality(At("marked"))
         /\ counts["succeeded"] = Cardinality(With("succeeded"))
         /\ counts["failed"] = Cardinality(With("failed"))

\* What a client is told against what was executed: a succeeded job has its
\* result and its experiment is stored; a failed job whose experiment is stored
\* all the same failed by a timeout, which does not stop the run
\* (worker.py:31-33), or by an INTERNAL_ERROR, which a failed complete_success
\* turns into (worker.py:123, 168).
ReportedOutcome == \A j \in Jobs :
    /\ status[j] = "succeeded" => j \in stored \cap result
    /\ status[j] = "failed" /\ j \in stored => code[j] \in {"TIMEOUT", "INTERNAL_ERROR"}

\* The queue keeps the promise of JobLifecycle even if workers die.  When the
\* reply to complete_success is lost, and only then, a job reported as succeeded
\* is reported as failed afterwards, with INTERNAL_ERROR (worker.py:123, 168-175).
Lifecycle == INSTANCE JobLifecycle WITH
    outcome <- [j \in Jobs |-> IF status[j] = "failed" THEN code[j] ELSE status[j]],
    RevokeCodes <- IF MaxFaults > 0 THEN {"INTERNAL_ERROR"} ELSE {}
LifecycleSpec == Lifecycle!Spec

-----------------------------------------------------------------------------
(* Liveness *)

\* README.md:63: the worker "pulls run requests from Redis and executes them".
\* Every queued run ends, unless a worker died on the way.
QueuedEnds == \A j \in Jobs :
    status[j] = "queued" ~> (status[j] \in Terminal \/ crashes > 0)
=============================================================================

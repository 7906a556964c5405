----------------------------- MODULE AgentJobs -----------------------------
(***************************************************************************)
(* Agent runs: POST /agents/{agent}/run and POST /jobs/{id}/cancel         *)
(* (consumer_api.py), the job hashes and idempotency keys in Redis         *)
(* (job_store.py), the list and the sorted set of the queue (queueing.py)  *)
(* and the worker processes that drain it (worker_service.py).             *)
(*                                                                         *)
(* One action is one Redis command or pipeline, so everything a handler    *)
(* reads may be stale when it writes.  A handler that raises, and a        *)
(* process that dies, both abandon what they were doing between two        *)
(* commands; the worker's main loop, or its container, then starts over.   *)
(* All requests are for one agent: idempotency keys are per agent.         *)
(***************************************************************************)
EXTENDS Integers, Sequences, FiniteSets, SequencesExt

CONSTANTS
    Jobs,        \* the ids uuid4 can return
    Keys, NoKey, \* Idempotency-Key headers, and their absence
    Clients,     \* concurrent requests to the API
    Workers,     \* worker_service processes
    NoJob,
    Sandbox,     \* the agent is grover_search and its sandbox is configured
    MaxAttempts, \* SYNQC_JOB_MAX_ATTEMPTS
    PumpLimit,   \* pump_delayed's limit
    MaxFaults    \* bound on raised exceptions and dead processes

ASSUME AgentJobsAssumption ==
    /\ IsFiniteSet(Jobs) /\ IsFiniteSet(Clients) /\ IsFiniteSet(Workers)
    /\ NoJob \notin Jobs /\ NoKey \notin Keys
    /\ Sandbox \in BOOLEAN
    /\ MaxAttempts \in Nat \ {0} /\ PumpLimit \in Nat \ {0} /\ MaxFaults \in Nat

VARIABLES
    status, attempts, result, error, cancelReq, \* the job's hash
    index,     \* the idempotency keys
    queue,     \* the list synqc:q:<name>, oldest first
    delayed,   \* the sorted set synqc:q:<name>:delayed
    due,       \* jobs whose score in it has passed
    cpc, cjob, ckey, reused, wait, \* a request
    pc, job, seen, pumped, attempt, outcome, \* a worker
    faults,
    created,   \* history: the jobs created under a key since it last expired
    late       \* history: how often a job's agent was started after the cancel request

hashVars   == <<status, attempts, result, error, cancelReq>>
queueVars  == <<queue, delayed, due>>
clientVars == <<cpc, cjob, ckey, reused, wait>>
workerVars == <<pc, job, seen, pumped, attempt, outcome>>
history    == <<created, late>>
vars == <<hashVars, index, queueVars, clientVars, workerVars, faults, history>>

Terminal == {"succeeded", "failed", "cancelled"}
Statuses == Terminal \union {"queued", "running"}
Failures == {"timeout", "worker_error", "agent_failed"}
Outcomes == Failures \union {"ok", "retry_scheduled"}

Init ==
    /\ status = [j \in Jobs |-> "absent"]
    /\ attempts = [j \in Jobs |-> 0]
    /\ result = {}
    /\ error = [j \in Jobs |-> "none"]
    /\ cancelReq = {}
    /\ index = [k \in Keys |-> NoJob]
    /\ queue = <<>>
    /\ delayed = {}
    /\ due = {}
    /\ cpc = [c \in Clients |-> "idle"]
    /\ cjob = [c \in Clients |-> NoJob]
    /\ ckey = [c \in Clients |-> NoKey]
    /\ reused = [c \in Clients |-> FALSE]
    /\ wait = [c \in Clients |-> FALSE]
    /\ pc = [w \in Workers |-> "idle"]
    /\ job = [w \in Workers |-> NoJob]
    /\ seen = [w \in Workers |-> {}]
    /\ pumped = [w \in Workers |-> 0]
    /\ attempt = [w \in Workers |-> 0]
    /\ outcome = [w \in Workers |-> "none"]
    /\ faults = 0
    /\ created = [k \in Keys |-> {}]
    /\ late = [j \in Jobs |-> 0]

-----------------------------------------------------------------------------
(* job_store: writes to one job's hash *)

UpdateStatus(j, s) == status' = [status EXCEPT ![j] = s]
SetError(j, e)     == error' = [error EXCEPT ![j] = e]
SetResultLost(j)   == UNCHANGED result
SetResult(j)       == result' = result \union {j}

-----------------------------------------------------------------------------
(* POST /agents/{agent}/run *)

CGoto(c, p) == cpc' = [cpc EXCEPT ![c] = p]
Done(c) ==
    /\ CGoto(c, "idle")
    /\ cjob' = [cjob EXCEPT ![c] = NoJob]
    /\ ckey' = [ckey EXCEPT ![c] = NoKey]
    /\ reused' = [reused EXCEPT ![c] = FALSE]
    /\ wait' = [wait EXCEPT ![c] = FALSE]

\* Where a request goes once it has its job.
Routed == IF Sandbox THEN "route" ELSE "enqueue"

\* create_job, the GET of the idempotency key.
Lookup(c, k, waits) ==
    /\ cpc[c] = "idle"
    /\ ckey' = [ckey EXCEPT ![c] = k]
    /\ wait' = [wait EXCEPT ![c] = waits]
    /\ \/ /\ k \in Keys /\ index[k] # NoJob
          /\ cjob' = [cjob EXCEPT ![c] = index[k]]
          /\ reused' = [reused EXCEPT ![c] = TRUE]
          /\ CGoto(c, Routed)
       \/ /\ k \in Keys => index[k] = NoJob
          /\ CGoto(c, "create")
          /\ UNCHANGED <<cjob, reused>>
    /\ UNCHANGED <<hashVars, index, queueVars, workerVars, faults, history>>

SkipIndex(k, j) == UNCHANGED index
SetIndex(k, j)  == index' = [x \in Keys |-> IF x = k THEN j ELSE index[x]]

\* create_job, the pipeline.  It does not look at the key again.
Create(c, j) ==
    /\ cpc[c] = "create"
    /\ status[j] = "absent"
    /\ UpdateStatus(j, "queued")
    /\ SetIndex(ckey[c], j)
    /\ created' = [k \in Keys |-> created[k] \union (IF k = ckey[c] THEN {j} ELSE {})]
    /\ cjob' = [cjob EXCEPT ![c] = j]
    /\ CGoto(c, Routed)
    /\ UNCHANGED <<attempts, result, error, cancelReq, queueVars, ckey, reused, wait,
                   workerVars, faults, late>>

\* The sandbox branch: the status is set to running, for a reused job too.
SandboxStart(c) ==
    /\ cpc[c] = "route"
    /\ UpdateStatus(cjob[c], "running")
    /\ CGoto(c, "post")
    /\ UNCHANGED <<attempts, result, error, cancelReq, index, queueVars, cjob, ckey, reused,
                   wait, workerVars, faults, history>>

SandboxAnswers(c) ==
    /\ cpc[c] = "post"
    /\ CGoto(c, "result")
    /\ UNCHANGED <<hashVars, index, queueVars, cjob, ckey, reused, wait, workerVars, faults,
                   history>>

\* The try block, after the answer: set_result, update_status, record_event.
SandboxResult(c) ==
    /\ cpc[c] = "result"
    /\ SetResult(cjob[c])
    /\ CGoto(c, "succeed")
    /\ UNCHANGED <<status, attempts, error, cancelReq, index, queueVars, cjob, ckey, reused,
                   wait, workerVars, faults, history>>

SandboxSucceed(c) ==
    /\ cpc[c] = "succeed"
    /\ UpdateStatus(cjob[c], "succeeded")
    /\ CGoto(c, "event")
    /\ UNCHANGED <<attempts, result, error, cancelReq, index, queueVars, cjob, ckey, reused,
                   wait, workerVars, faults, history>>

\* The sandbox's HTTP error, or an exception of a later call of the try block.
SandboxRaises(c) ==
    /\ \/ cpc[c] = "post" /\ UNCHANGED faults
       \/ /\ cpc[c] \in {"result", "succeed", "event"} /\ faults < MaxFaults
          /\ faults' = faults + 1
    /\ CGoto(c, "raised")
    /\ UNCHANGED <<hashVars, index, queueVars, cjob, ckey, reused, wait, workerVars, history>>

SandboxError(c) ==
    /\ cpc[c] = "raised"
    /\ SetError(cjob[c], "SANDBOX_ERROR")
    /\ CGoto(c, "fail")
    /\ UNCHANGED <<status, attempts, result, cancelReq, index, queueVars, cjob, ckey, reused,
                   wait, workerVars, faults, history>>

SandboxFail(c) ==
    /\ cpc[c] = "fail"
    /\ UpdateStatus(cjob[c], "failed")
    /\ CGoto(c, "failevent")
    /\ UNCHANGED <<attempts, result, error, cancelReq, index, queueVars, cjob, ckey, reused,
                   wait, workerVars, faults, history>>

\* record_event returned: a caller that waits gets the status, any other
\* request goes on to the queue.
SandboxReply(c) ==
    /\ cpc[c] \in {"event", "failevent"}
    /\ IF wait[c] THEN Done(c)
                  ELSE CGoto(c, "enqueue") /\ UNCHANGED <<cjob, ckey, reused, wait>>
    /\ UNCHANGED <<hashVars, index, queueVars, workerVars, faults, history>>

PushUnlessReused(c) ==
    queue' = IF reused[c] THEN queue ELSE Append(queue, cjob[c])

\* LPUSH; the reply, and the poll of a caller that waits, only read.
Enqueue(c) ==
    /\ cpc[c] = "enqueue"
    /\ PushUnlessReused(c)
    /\ Done(c)
    /\ UNCHANGED <<hashVars, index, delayed, due, workerVars, faults, history>>

\* An exception that leaves the handler, or the death of the API process.
RequestFails(c) ==
    /\ cpc[c] # "idle" /\ faults < MaxFaults
    /\ faults' = faults + 1
    /\ Done(c)
    /\ UNCHANGED <<hashVars, index, queueVars, workerVars, history>>

\* POST /jobs/{id}/cancel: only a flag.
RequestCancel(j) ==
    /\ status[j] \in Statuses
    /\ cancelReq' = cancelReq \union {j}
    /\ UNCHANGED <<status, attempts, result, error, index, queueVars, clientVars, workerVars,
                   faults, history>>

-----------------------------------------------------------------------------
(* Time *)

\* A key expires after a day.
ExpireKey(k) ==
    /\ index[k] # NoJob
    /\ index' = [index EXCEPT ![k] = NoJob]
    /\ created' = [created EXCEPT ![k] = {}]
    /\ UNCHANGED <<hashVars, queueVars, clientVars, workerVars, faults, late>>

\* A hash expires seven days after its creation, long after its key; no request
\* and no attempt (at most 60 s) is taken to last until then.
ExpireJob(j) ==
    /\ status[j] \in Statuses
    /\ \A k \in Keys : index[k] # j
    /\ \A c \in Clients : cjob[c] # j
    /\ \A w \in Workers : job[w] # j
    /\ UpdateStatus(j, "expired")
    /\ attempts' = [attempts EXCEPT ![j] = 0]
    /\ SetError(j, "none")
    /\ result' = result \ {j}
    /\ cancelReq' = cancelReq \ {j}
    /\ UNCHANGED <<index, queueVars, clientVars, workerVars, faults, history>>

\* The clock passes the score of a delayed job, on the sorted set or just popped.
BecomeDue(j) ==
    /\ j \notin due
    /\ j \in delayed \/ \E w \in Workers : pc[w] = "popped" /\ job[w] = j
    /\ due' = due \union {j}
    /\ UNCHANGED <<hashVars, index, queue, delayed, clientVars, workerVars, faults, history>>

-----------------------------------------------------------------------------
(* A worker: process_one *)

Goto(w, p) == pc' = [pc EXCEPT ![w] = p]
Hold(w, j) == job' = [job EXCEPT ![w] = j]
Return(w) ==
    /\ Goto(w, "idle")
    /\ Hold(w, NoJob)
    /\ attempt' = [attempt EXCEPT ![w] = 0]
    /\ outcome' = [outcome EXCEPT ![w] = "none"]
PumpReturns(w) ==
    /\ Goto(w, "dequeue")
    /\ seen' = [seen EXCEPT ![w] = {}]
    /\ pumped' = [pumped EXCEPT ![w] = 0]

\* pump_delayed reads the clock once.
PumpStart(w) ==
    /\ pc[w] = "idle"
    /\ seen' = [seen EXCEPT ![w] = due]
    /\ Goto(w, "pump")
    /\ UNCHANGED <<hashVars, index, queueVars, clientVars, job, pumped, attempt, outcome,
                   faults, history>>

\* ZPOPMIN: due jobs have the lowest scores.
PumpPop(w, j) ==
    /\ pc[w] = "pump" /\ pumped[w] < PumpLimit
    /\ j \in delayed /\ (delayed \cap due # {} => j \in due)
    /\ delayed' = delayed \ {j}
    /\ pumped' = [pumped EXCEPT ![w] = @ + 1]
    /\ Hold(w, j)
    /\ Goto(w, "popped")
    /\ UNCHANGED <<hashVars, index, queue, due, clientVars, seen, attempt, outcome, faults,
                   history>>

PumpDone(w) ==
    /\ pc[w] = "pump" /\ (delayed = {} \/ pumped[w] = PumpLimit)
    /\ PumpReturns(w)
    /\ UNCHANGED <<hashVars, index, queueVars, clientVars, job, attempt, outcome, faults,
                   history>>

\* LPUSH of a job that was due when the pump began.
PumpPush(w) ==
    /\ pc[w] = "popped" /\ job[w] \in seen[w]
    /\ queue' = Append(queue, job[w])
    /\ due' = due \ {job[w]}
    /\ Hold(w, NoJob)
    /\ Goto(w, "pump")
    /\ UNCHANGED <<hashVars, index, delayed, clientVars, seen, pumped, attempt, outcome,
                   faults, history>>

\* ZADD of any other, with its old score, which ends the pump.
PumpBack(w) ==
    /\ pc[w] = "popped" /\ job[w] \notin seen[w]
    /\ delayed' = delayed \union {job[w]}
    /\ Hold(w, NoJob)
    /\ PumpReturns(w)
    /\ UNCHANGED <<hashVars, index, queue, due, clientVars, attempt, outcome, faults,
                   history>>

PeekJob(w) == UNCHANGED queue
PopJob(w)  == queue' = Tail(queue)

\* BRPOP, and the heartbeat.
Dequeue(w) ==
    /\ pc[w] = "dequeue" /\ queue # <<>>
    /\ PopJob(w)
    /\ Hold(w, Head(queue))
    /\ Goto(w, "claimed")
    /\ UNCHANGED <<hashVars, index, delayed, due, clientVars, seen, pumped, attempt, outcome,
                   faults, history>>

DequeueTimesOut(w) ==
    /\ pc[w] = "dequeue" /\ queue = <<>>
    /\ Goto(w, "idle")
    /\ UNCHANGED <<hashVars, index, queueVars, clientVars, job, seen, pumped, attempt,
                   outcome, faults, history>>

UnlessCancelled(j) == IF j \in cancelReq THEN "cancel" ELSE "start"

\* get_job, and the branch on what it read.
ReadJob(w) ==
    /\ pc[w] = "claimed"
    /\ IF status[job[w]] = "expired"
         THEN Return(w)
         ELSE Goto(w, UnlessCancelled(job[w])) /\ UNCHANGED <<job, attempt, outcome>>
    /\ UNCHANGED <<hashVars, index, queueVars, clientVars, seen, pumped, faults, history>>

WriteCancelled(w) ==
    /\ pc[w] = "cancel"
    /\ UpdateStatus(job[w], "cancelled")
    /\ Return(w)
    /\ UNCHANGED <<attempts, result, error, cancelReq, index, queueVars, clientVars, seen,
                   pumped, faults, history>>

MarkRunning(w) ==
    /\ pc[w] = "start"
    /\ UpdateStatus(job[w], "running")
    /\ Goto(w, "count")
    /\ UNCHANGED <<attempts, result, error, cancelReq, index, queueVars, clientVars, job, seen,
                   pumped, attempt, outcome, faults, history>>

\* HINCRBY, and the subprocess is started.
CountAttempt(w) ==
    /\ pc[w] = "count"
    /\ attempts' = [attempts EXCEPT ![job[w]] = @ + 1]
    /\ attempt' = [attempt EXCEPT ![w] = attempts'[job[w]]]
    /\ late' = [late EXCEPT ![job[w]] = IF job[w] \in cancelReq THEN @ + 1 ELSE @]
    /\ Goto(w, "agent")
    /\ UNCHANGED <<status, result, error, cancelReq, index, queueVars, clientVars, job, seen,
                   pumped, outcome, faults, created>>

RetryOneMore(a) == a <= MaxAttempts
MayRetry(a)     == a < MaxAttempts

\* The subprocess returned a result ("ok"), outlived the timeout and was
\* terminated, ended without a result, or reported an exception, which is
\* retried if it looks transient.
AgentEnds(w, o) ==
    /\ pc[w] = "agent"
    /\ o = "retry_scheduled" => MayRetry(attempt[w])
    /\ outcome' = [outcome EXCEPT ![w] = o]
    /\ Goto(w, "record")
    /\ UNCHANGED <<hashVars, index, queueVars, clientVars, job, seen, pumped, attempt, faults,
                   history>>

\* set_result or set_error.
RecordOutcome(w) ==
    /\ pc[w] = "record"
    /\ IF outcome[w] = "ok" THEN SetResult(job[w]) /\ UNCHANGED error
                            ELSE SetError(job[w], outcome[w]) /\ UNCHANGED result
    /\ Goto(w, "status")
    /\ UNCHANGED <<status, attempts, cancelReq, index, queueVars, clientVars, job, seen, pumped,
                   attempt, outcome, faults, history>>

\* update_status; only a retry goes on from here.
WriteStatus(w) ==
    /\ pc[w] = "status"
    /\ \/ outcome[w] = "ok" /\ UpdateStatus(job[w], "succeeded") /\ Return(w)
       \/ outcome[w] \in Failures /\ UpdateStatus(job[w], "failed") /\ Return(w)
       \/ /\ outcome[w] = "retry_scheduled" /\ UpdateStatus(job[w], "queued")
          /\ Goto(w, "schedule") /\ UNCHANGED <<job, attempt, outcome>>
    /\ UNCHANGED <<attempts, result, error, cancelReq, index, queueVars, clientVars, seen,
                   pumped, faults, history>>

NotScheduled(w) == UNCHANGED delayed
Delay(w) == delayed' = delayed \union {job[w]}

\* schedule_delayed: ZADD with a fresh score.
ScheduleDelayed(w) ==
    /\ pc[w] = "schedule"
    /\ Delay(w)
    /\ due' = due \ {job[w]}
    /\ Return(w)
    /\ UNCHANGED <<hashVars, index, queue, clientVars, seen, pumped, faults, history>>

\* process_one raises, or the process dies: what it held is given up.
Abandon(w) ==
    /\ pc[w] # "idle" /\ faults < MaxFaults
    /\ faults' = faults + 1
    /\ Return(w)
    /\ seen' = [seen EXCEPT ![w] = {}]
    /\ pumped' = [pumped EXCEPT ![w] = 0]
    /\ due' = due \ {job[w]}
    /\ UNCHANGED <<hashVars, index, queue, delayed, clientVars, history>>

-----------------------------------------------------------------------------
ClientStep(c) ==
    \/ \E j \in Jobs : Create(c, j)
    \/ SandboxStart(c)
    \/ SandboxResult(c)
    \/ SandboxSucceed(c)
    \/ SandboxError(c)
    \/ SandboxFail(c)
    \/ SandboxReply(c)
    \/ Enqueue(c)

WorkerStep(w) ==
    \/ PumpStart(w)
    \/ \E j \in Jobs : PumpPop(w, j)
    \/ PumpDone(w)
    \/ PumpPush(w)
    \/ PumpBack(w)
    \/ Dequeue(w)
    \/ DequeueTimesOut(w)
    \/ ReadJob(w)
    \/ WriteCancelled(w)
    \/ MarkRunning(w)
    \/ CountAttempt(w)
    \/ RecordOutcome(w)
    \/ WriteStatus(w)
    \/ ScheduleDelayed(w)

AgentStep(w) == \E o \in Outcomes : AgentEnds(w, o)

\* Only in the sandbox branch does it matter to the state whether a caller waits.
Next ==
    \/ \E c \in Clients :
         \/ \E k \in Keys \union {NoKey}, waits \in {FALSE, Sandbox} : Lookup(c, k, waits)
         \/ ClientStep(c)
         \/ SandboxAnswers(c)
         \/ SandboxRaises(c)
         \/ RequestFails(c)
    \/ \E w \in Workers : WorkerStep(w) \/ AgentStep(w) \/ Abandon(w)
    \/ \E k \in Keys : ExpireKey(k)
    \/ \E j \in Jobs : RequestCancel(j) \/ ExpireJob(j) \/ BecomeDue(j)

Spec == Init /\ [][Next]_vars

\* Requests and workers go on, the join on the subprocess has a timeout and so has
\* the call of the sandbox (consumer_api.py:100), and the clock reaches every score.
FairSpec ==
    /\ Spec
    /\ \A c \in Clients : WF_vars(ClientStep(c)) /\ WF_vars(SandboxAnswers(c))
    /\ \A w \in Workers : WF_vars(WorkerStep(w)) /\ WF_vars(AgentStep(w))
    /\ \A j \in Jobs : WF_vars(BecomeDue(j))

-----------------------------------------------------------------------------
(* Safety *)

Held(j)     == \E w \in Workers : job[w] = j
Entering(j) == \E c \in Clients : cjob[c] = j /\ ~ reused[c]

\* The places j is in: the list, the sorted set, a worker, the request that created it.
Spots(j) == {p \in 1 .. 4 : \/ p = 1 /\ j \in ToSet(queue)
                            \/ p = 2 /\ j \in delayed
                            \/ p = 3 /\ Held(j)
                            \/ p = 4 /\ Entering(j)}

SinglePlace ==
    /\ IsInjective(queue)
    /\ \A w, v \in Workers : w # v /\ job[w] = job[v] => job[w] = NoJob
    /\ \A c, d \in Clients : c # d /\ ~ reused[c] /\ ~ reused[d] /\ cjob[c] = cjob[d]
                                => cjob[c] = NoJob
    /\ \A j \in Jobs : Cardinality(Spots(j)) <= 1

Lost == {j \in Jobs : /\ status[j] \in {"queued", "running"}
                      /\ j \notin ToSet(queue) \union delayed
                      /\ ~ Held(j)
                      /\ \A c \in Clients : cjob[c] # j}

\* A job id is in one place at a time: in the list once, in the sorted set, in
\* one worker's hands, or still with the request that created it.  So no two
\* workers run one job at once, and a retry never meets its own first attempt.
\* And every exception and every death costs at most one job: all other
\* unfinished jobs are in some place from which they go on (queueing.py:44-52
\* and worker_service.py:66-117 pop a job before they put it elsewhere).
PlacedOnce == SinglePlace /\ Cardinality(Lost) <= faults

\* A job is executed at most max_attempts times (worker_service.py:112-117), and
\* only a job with attempts left is waiting for a retry; a cancel request stops
\* it after at most the one attempt that was under way (lines 77-82): no retry
\* is made for it.  This counts the attempts of worker_service; what the sandbox
\* executed for the same job (consumer_api.py:97) is not among them.
ExecutionsBound == \A j \in Jobs :
    /\ attempts[j] <= MaxAttempts
    /\ j \in delayed /\ status[j] # "expired" => attempts[j] < MaxAttempts
    /\ late[j] <= 1

\* While a key lives, each request that runs beside the first one may create one
\* more job for it (the GET and the SETEX are two commands, job_store.py:71,
\* 106), but a client that tries again afterwards gets the job that exists: the
\* jobs of a key and the requests about to create another are at most as many
\* as there are clients.
IdempotencyBound == \A k \in Keys :
    Cardinality(created[k]) + Cardinality({c \in Clients : cpc[c] = "create" /\ ckey[c] = k})
        <= Cardinality(Clients)

\* A reader of GET /jobs/{id} sees no success without a result and no failure
\* without an error, at any point between the commands of the writers.  The
\* error of a failed job announces a retry only if a sandbox request and a worker
\* write to the job at the same time.
OutcomeRecorded == \A j \in Jobs :
    /\ status[j] = "succeeded" => j \in result
    /\ status[j] = "failed" => error[j] # "none"
    /\ status[j] = "failed" /\ error[j] = "retry_scheduled" => Sandbox

\* Without a sandbox a final status is never taken back, until the hash expires.
FinalIsFinal == [][\A j \in Jobs :
    status[j] \in Terminal => status'[j] \in {status[j], "expired"}]_vars

-----------------------------------------------------------------------------
(* Liveness *)

\* Every job ends, its retries included, unless an exception or a death came in
\* between or nobody got to it within the seven days.
JobEnds == \A j \in Jobs :
    status[j] = "queued" ~> (status[j] \in Terminal \union {"expired"} \/ faults > 0)
=============================================================================

# SynQc Temporal Dynamics backend: TLA+ specifications

This directory specifies and verifies the parts of `backend/synqc_backend` that
decide whether a submitted quantum experiment is executed, how often, at what
cost, and what its submitter is told. Paths below are relative to
`backend/synqc_backend/` unless they say otherwise.

## The system

A FastAPI service (`api.py`, `consumer_api.py`) accepts experiments and agent
runs. There are three ways in which work is executed:

| way | code | state | who runs it |
|---|---|---|---|
| embedded queue, no Redis configured | `jobs.py` | dictionaries of records, futures and timers under one lock; a thread pool | pool threads of the API process |
| Redis run queue | `run_queue.py`, `worker.py` | a list, a hash per job, counters in Redis | dedicated worker processes |
| agent jobs | `consumer_api.py`, `job_store.py`, `queueing.py`, `worker_service.py` | a list, a sorted set of delayed retries, a hash per job, idempotency keys in Redis | worker-service processes, or an HTTP sandbox |

An experiment is admitted (`api._enqueue_run`: remote targets allowed, target
known, credentials or simulation) and runs through the engine (`engine.py`), which
reserves shots from the session's budget (`budget.py`: a Lua script in Redis or a
table in memory), copies the control profile (`control_profiles.py`: an object
mirrored to a file), calls a hardware backend (`hardware_backends.py`, which routes
to a client of `provider_clients.py` or `qiskit_provider.py` or simulates), adjusts
the KPIs and adds the run to the experiment store (`storage.py`: a table in memory
mirrored to a JSON file, shared by the API and the workers). A preset for several
calls runs a polled workflow instead (`agents/multicall.py`, `orchestration/`) and
records events in its process.

In front of the endpoints are the middlewares (`middleware.py`: body size, API key,
a rate limit counted in Redis), the chat window and the health cache (`api.py`), and
accounts, sessions and API tokens (`auth/`: SQLite behind a lock and a pool of
connections). Beside them a metrics exporter with a guard thread (`metrics.py`),
recorders (`metrics_recorder.py`), qubit usage, a Redis event bus and the numerical
code (`grover*.py`, `stats.py`, `kpi_estimators.py`).

What is hard to test here, and what the properties are about:

* three threads may finish one embedded job: its worker, its timer and a caller
  of `cancel`; a fourth, `shutdown`, takes a snapshot of the futures;
* every function that makes several Redis calls can be interleaved, interrupted
  by an exception or cut off by a crash between any two of them; a reply may be
  lost after the server has executed the command;
* the engine checks a budget on a stale reading before it reserves;
* a job's outcome exists in several places (record, counters, store, metrics)
  that are written at different times;
* the experiment store reads its file without its lock, and the metrics summary
  is incremented without one;
* no transaction of the account database is ever committed, and a write that waits
  for the file lock holds the lock of the whole store;
* INCR and EXPIRE of a rate counter are two commands, and nobody repeats the second;
* the mtime that tells a reader whether to reload has the file system's granularity;
* the worker and the API have an event store each;
* caches (verified tokens, the health payload) and copies (the control profile of a
  run) are used after what they were made from has changed;
* a live provider fails in the middle of a run, which then becomes a simulation or
  a failure, and Grover runs spend their budget in batches.

`PROJECT.json` lists these hazards at their lines.

## Modules

| module | models | state ↔ code |
|---|---|---|
| `JobLifecycle` | the promise of a run queue (abstract): submitted once, started at most once, ended once, every failure counted once; a job that never started can only be cancelled | `outcome`, `failures` |
| `JobQueue` | `jobs.py` | `status`, `code`, `finished` = `JobRecord`; `counts` = `_failure_counts`; `future`, `registered`, `workq` = the futures, `_futures`, the executor's queue; `runPc` = the pool thread inside `_run_job`; `timer` = the job's `Timer`; `persisting` = callers about to call `_persist_failure`; `store`, `metrics` = what the experiment store and `run_metrics` hold |
| `JobQueueProofs` | theorems about `JobQueue` | |
| `Budget` | `budget.py` and `engine._apply_shot_guardrails` | `redis`, `redisAge` = the session key and its TTL; `memory`, `memoryAge` = `_in_memory_usage` of each replica; `stage`, `shots` = the engine calls; `mode` = the deployment's settings |
| `BudgetProofs` | theorems about `Budget` | |
| `RunQueue` | `run_queue.py`, `worker.py` | `status`, `code`, `result` = the job hash; `pending`, `counts`, `failures` = the other keys; `pc`, `job`, `raised` = a worker in `_process_job` |
| `RunQueueProofs` | theorems about `RunQueue` | |
| `AgentJobs` | `consumer_api.py`, `job_store.py`, `queueing.py`, `worker_service.py` | `status` ... `cancelReq` = the job hash; `index` = the idempotency keys; `queue`, `delayed`, `due` = list and sorted set; `cpc` ... = a request in `run_agent`; `pc` ... = a worker in `process_one` |
| `AgentJobsProofs` | theorems about `AgentJobs` | |
| `ExperimentStore` | `storage.py` | `runs`, `known`, `ok`, `lock` = the object's fields; `content`, `torn`, `mtime` = the JSON file; `sameTick` (history) = it was rewritten within the tick of its mtime |
| `ExperimentStoreProofs` | theorems about `ExperimentStore` | |
| `Clock` | `time.time`, `time.monotonic` | `now` |
| `Auth` | `auth/store.py`, `auth/routes.py`, `auth/deps.py` | `db` = the committed rows; `open`, `writer` = the open transaction and its connection; `head` = the pool; `cache` = `_token_cache`; `lock` = who waits for the file with `_lock` in hand; `req` = the request of each server thread |
| `Metrics` | `metrics.py` | `exporter` = the exporter's thread; `idle` = time since the guard's last attempt; `stats`, `gauge`, `labels` = what the sources report, what is exported, the known labels |
| `AuthProofs` | theorems about `Auth` and `Metrics` | |
| `Gateway` | `middleware.py`, `api.py` (keys, sessions, chat, health) | `hits` = the rate-limit keys in Redis, `leaked` (history) = past ones that never expire; `chat` = `chat_rate_windows`; `health` = `_HEALTH_CACHE`; `task` = the requests in flight |
| `Execution` | `api._enqueue_run`, `engine.py`, `providers/`, `hardware_backends.py`, `provider_clients.py`, `qiskit_provider.py`, `grover.energy_aware_search`, `control_profiles.py`, `metrics_recorder.py` | `worker` = a run from admission to the store; `config` = the environment; `controls`, `file`, `writing` = the control profile and its file; `counters`, `summary` = the recorder's two tables |
| `ExecutionProofs` | theorems about `Execution` | |
| `Orchestration` | `orchestration/workflow.py`, `orchestration/event_store.py`, `agents/multicall.py`, the events endpoints of `api.py` | `flow` = the poll loop; `events` = the event store of each process; `recorded` (history) = what was recorded and not cleared; `answer` = the latest answer to GET |
| `GatewayProofs` | theorems about `Gateway` | |
| `MC*` | instances for TLC | |

`JobQueue` and `RunQueue` are two implementations of `JobLifecycle` (refinement:
the outcome of a failed job is its error code). They differ in one parameter: the
Redis queue may take a success back (`RevokeCodes`).

Atomicity: an action is one critical section of a lock, one Redis command or
pipeline, one call of the executor, the experiment store or the engine, or one
step of a file operation. What a function reads in one action may be stale in the
next. Exceptions and crashes happen between actions; since a failing command
either took effect or did not, this covers both.

The coroutines of `Gateway` and `Orchestration` interleave at their awaits only.

`MCEngine` (`JobQueue`, `Budget`), `MCServices` (`Gateway`, `Execution`,
`ExperimentStore`) and `MCAuth` (`Auth`, `Metrics`, `Orchestration`) each hold several
modules that share no variable but the clock. A variable `part`, chosen at the start,
says which of them moves, so that one run explores each of them by itself; a property
of one module is checked in its part. They take threads, requests and replicas from
the same model values, for the sake of one symmetry set.

Left out of the models: payloads, timestamps (except where they order something),
log messages, HTTP formatting, hashes and passwords. KPIs are thousandths with a
value on each side of each threshold; random draws are any of them. Every branch of
`jobs.py` on `self._persist` is dead, because the class it imports does not exist.

Definitions that no specification uses (`HasRoomOffByOne`, `PeekFirst`, ...) stand
before the one they vary: each is a plausible mistake in the code, and
`PROJECT.json` names the property that catches it.

## Runs

All bounds are CONSTANTS of the configurations.

| run | instance | checks |
|---|---|---|
| `queue_and_budget` | 2 jobs, 2 clients, 2 pool threads, capacity 1, timeout on; 2 replicas, 2 concurrent calls, cap 4, Redis failing closed, failing open, or absent | types; failure counters = failed records; overrun of `max_pending`; queued jobs are reachable and a running record has a thread; record, store and metrics agree; refinement of `JobLifecycle`; the cap on shots; nothing granted outside Redis when failing closed; the sliding TTL |
| `job_queue_timed` | 2 jobs, 1 thread, the engine may hang | no job stays running; every failure reaches the store; every accepted job ends unless a call hangs or the queue was shut down |
| `run_queue` | 3 jobs, 2 workers, 1 crash, 1 lost reply | claimed at most once and stranded jobs ≤ crashes; counters; outcomes; refinement of `JobLifecycle`; every queued run ends unless a worker died |
| `agent_jobs` | 2 jobs, 1 client with or without the sandbox, 2 workers, 2 attempts, 1 exception or death, expiry, cancel, no keys | one place per job and lost jobs ≤ faults; attempts of the worker service and cancellation; outcomes |
| `agent_jobs_requests` | 1 job, 2 clients, 1 key, 1 worker, 1 fault, fair | jobs per idempotency key ≤ concurrent requests; a final status stays; every queued job ends, retries included |
| `auth` | 2 threads, 1 account, 2 connections, 1 session, 1 token, clock up to 3; 2 labels, backoff 2; 1 workflow, interval 1, timeout 3, clock up to 6 | a token outlives its revocation by the cache's time at most; every request ends; gauges; the exporter returns; a workflow that has started ends |
| `services` | 2 requests in flight, 6 kinds of request, clock up to 4, 1 outage; 2 threads, 2 runs, 7 submissions, 2 deployments, 1 update or restart; 3 threads on 1 experiment store, 3 runs, 1 failed write, 1 restart | rate limit and chat window; counters without an expiry ≤ outages; shots reported; failures shown; fallback; recorder; control file; the store is bounded and coherent with its file |

Five runs expect a violation; each shows a disagreement between the code and a
sentence of the repository, quoted in `PROJECT.json`:

* `job_queue_shutdown_ends`: `shutdown()` without a timeout waits for ever for
  futures that `cancel_futures=True` drained from the executor;
* `experiment_store_readers`: a reader's reload loses a run that was just added;
* `auth_bootstrap`: nothing commits, so a second first administrator can register.
  The instance has four connections, as the code does, and a single thread: no
  concurrency is needed;
* `execution_shots`: `energy_aware_search` executes batch after batch, each up to the
  budget, and together more than it, although "Implementations MUST obey the provided
  shot_budget (or lower)" (`hardware_backends.py:115`);
* `orchestration_events`: the events endpoint lists the store of the API process, to
  which no workflow ever writes.

Met while modelling, without a run of their own:

* `enqueue` registers a future after submitting it, so `shutdown()` can return
  while such a job runs (`jobs.py:166-168, 228`);
* a run is reported as failed before it is in `/experiments/recent`
  (`jobs.py:403, 426`), which `backend/tests/test_overbudget_listing.py:36-43`
  takes for granted;
* queued jobs do not survive a restart, although `jobs.py:73` says so: the spool
  class it imports does not exist;
* `docker-compose.yml` starts `worker_service`, and no process drains the run queue;
* a job that the sandbox has finished for a request that does not wait is queued as
  well, and the worker executes it again, below the comment "Non-sandbox path:
  enqueue job for the worker to process." (`consumer_api.py:156-158`);
* `require_api_key` accepts the key as a Bearer token (`api.py:256-331`), but the
  middleware in front of it looks at `X-Api-Key` only (`middleware.py:87-98`), so
  such a request is answered 401;
* a health payload is sampled before the ping of Redis and cached after it
  (`api.py:445-494`), and neither the client nor the ping has a timeout
  (`redis_bus.py:51-56, 77`), so a payload served from the cache may be of any age;
* two rewrites of the experiment file within one tick of its mtime look like one
  (`storage.py:104` compares with `<=`): a reload that read the first of them stays;
* a `submit` that meets a closed executor raises and leaves its record QUEUED
  (`jobs.py:166`); the properties about queued jobs exempt a queue that was shut down;
* a Redis that fails between INCR and EXPIRE leaves a rate counter for ever
  (`middleware.py:116-120`);
* a worker whose `complete_success` raised after it took effect reports the success
  as a failure and counts the job twice as leaving RUNNING (`worker.py:123, 168`);
* `providers.validate_credentials` does not know payload clients, so a target with
  a payload is refused unless simulation is allowed.

Why the bounds are enough: the races are between two or three parties (two
clients for a check-then-act, a worker with a timer and a canceller, a reader with
a writer), so two of each suffice to have every pair overlap; a third job or run is
there where ids would otherwise run out, and the two bounds on a check followed by
an act (`CapacityBound`, `IdempotencyBound`) count the callers between the two as
well, so that they can fail with as many ids as there are callers. Redis queues need
one fault to separate "lost with its holder" from "lost". In `auth` two connections
are enough for a transaction that blocks another write, and two threads for one that
waits on the other; the clock runs past a token's expiry, the cache's and the busy
timeout. In `services` the limits (2 per minute, 1 per chat span, a cap of 5 shots)
are met exactly and exceeded by one, the clock crosses a minute and the expiry of a
counter, the shot batches start below, at and above what is left, and three threads on
one store let a reload span two adds, with the mtime moving or not at every write. The
theorems below have no bounds.

Symmetry is used in `queue_and_budget`, `agent_jobs` and `services`,
whose ids, requests, replicas and workers are interchangeable; in no run with a
liveness property.

### Fairness

Weak fairness of the steps a thread or process takes by itself: a thread that has
the processor or a worker in its loop goes on. No request, cancel, shutdown, fault or
expiry has to happen. `JobQueue!TimedSpec` adds that a `Timer` fires;
it assumes nothing of the engine, which may hang in a provider call, and where a
property needs the calls to end it says so (`EngineCallsEnd`). `JobQueue!FairSpec`
adds that they do end; the counterexample to `ShutdownEnds` is one under this
assumption. `RunQueue!FairSpec` needs the restart
policy of `docker-compose.yml`. In `AgentJobs` the subprocess is joined with a
timeout, so `AgentEnds` is fair without an assumption on the agent, the sandbox is
called with a timeout (`consumer_api.py:97`), and the clock
reaches every score. `Auth!AuthFairness` lets each server thread go on (a step that
waits for a lock is not enabled) and time pass; `Metrics!MetricsFairness` lets the
guard's thread loop and time pass, and leaves the port to the other process.
`Orchestration!FlowFairness` is that of the worker's event loop: a sleep that is over is
noticed, and time passes while a workflow is in its loop; no job has to be claimed.

## Proofs

`JobQueueProofs` proves, for every finite set of jobs and clients, every pool
size, capacity and set of error codes: `TypeOK`, `FailureAccounting`,
`CapacityBound`, `RunningHasThread`, `StoreAgreement`, `MetricsAgreement`,
`QueuedIsReachable` and that `Spec` implements `JobLifecycle!Spec`.
Only `TypeOK` is inductive by itself. The invariant `Inv` adds what the threads' positions
say about the record: which records a pool thread at each point of `_run_job` can
belong to, that a job in the executor's queue has no thread yet and occurs there
once, that two clients never enqueue the same job, and that what is still to be
persisted is a failed record. `CapacityBound` is inductive relative to it, since it
counts the admitted clients. `InvInductive` has one step per
action. The failure counters need the fact that exactly one job enters
the set of failed jobs in a step that counts, which is a cardinality argument
kept in lemmas.

`RunQueueProofs` proves, for every finite set of jobs and workers, every
`MaxFaults` and `MaxCrashes` and every set of engine codes: a type invariant,
`ReportedOutcome`, `ClaimedOnce`, `CountsExact` and that `Spec` implements
`JobLifecycle!Spec`. The invariant `Inv` says where a job is (listed once, held by
one worker, or with nobody) and what its hash then holds at each position of the
worker that holds it; `ReportedOutcome` is one of its conjuncts. The bound on
stranded jobs in `ClaimedOnce` rests on `StrandedStep`: only `Crash` adds a stranded
job, at most one, and it adds one to `crashes`. `CountsExact` is
proved in two parts. The total of the counters equals the number of jobs
whatever fails, because each pipeline moves one job between two counters; each counter
is exact while nothing fails, up to the workers between the two commands of
`mark_running`. Both are cardinality arguments over the set of jobs in a state and
the set of workers at that point.

`BudgetProofs` proves `BudgetTypeOK`, `HardCap`, `FailClosed` and `SlidingTtl` for every number of
replicas and sessions, every limit and all three settings. `HardCap` is proved together with
`BudgetTypeOK`; its first conjunct (`spent <= redis`) is the strengthening: without it the
cap on what was granted does not follow from the cap on the key, since a lost reply
charges shots that were never granted. `SlidingTtl`, an action property, rests on
`InStep`: the age of a session's key is the time since the last reserve that reached
Redis, because a rejected reserve refreshes the key too.

`AgentJobsProofs` proves, for every finite set of jobs, clients and workers, every
set of keys, every `MaxAttempts` and `MaxFaults`, with and without a sandbox: a type
invariant, `PlacedOnce`, `ExecutionsBound`, `OutcomeRecorded` and `IdempotencyBound`,
and `FinalIsFinal` where there is no sandbox (where there is one, its request and a
worker write the same job, and the property is not claimed). `Inv` follows a job
through its places (the request that created it, the list, a worker, the sorted set)
and says what each holder knows of the job's hash that is still true when it
writes. `ExecutionsBound` is a conjunct of it. The bound on lost jobs in
`PlacedOnce` is `DoomedBound`, proved by cardinality lemmas (`DoomedStep`): a step
that makes a job unreachable counts a fault, and makes one unreachable only.
`OneWriter` is the part that needs `~ Sandbox`: a job that waits is not final.

`ExperimentStoreProofs` proves `Bounded` for any number of processes, threads and
runs, and `Coherent`, which is about a single process, for any number of its threads.
`Bounded` needs that what a reload has read is bounded as well. `Coherent` needs
`Locked` (the lock belongs to the thread inside `add`), `ReloadInv` (what a reload
holds is the content of the file unless its mtime has moved since) and `WrittenInv`
(what `add` has written stays until it has noted the mtime). An mtime may stay as it is
from one write to the next, as it does within a tick of the file system; the history
variable `sameTick` says that a readable file was rewritten without a new mtime, and
`Coherent` exempts just the states in which it is. A clock that is set back is not
modelled.

`ExecutionProofs` proves, for any number of threads, deployments, submissions and
profiles and all batch sizes and limits: a type invariant, `ReportedShots`,
`FailureShown`, `FallbackSound`, `SummarySound` and `ControlsDurable`. `RunInv` is what
holds of one run at each line of the engine, so that a step of another thread cannot
disturb it (`Quiet`). `SearchOverrunBounded` says how far the local search goes beyond
its budget (that it does is the run `execution_shots`). The factor 13/4 comes from
`SearchInv`: each batch of `energy_aware_search` is at least 9/5 of the one before, so
all of them together are at most 9/4 of the last, or, if that one was cut to the
budget, 13/4 of the budget. `SummarySound` needs `SeenInv`: what a thread is about to write back had
been counted when it read.

`GatewayProofs` proves `RequestLimits` and `CountersExpire` for any number of requests
in flight and any limits and spans. The rate limit needs that a counter's key outlives
the minute it counts (`SetThisMinute`, from the assumption `RateKeyTtl >= Minute`; the
code sets 90 seconds, `middleware.py:118`). The chat limit needs `Covers`: the window in
memory is the end of the list of requests let through, and what is gone from it is
older than the span. `CountersExpire` rests on `EndlessStep`: a request adds at most
its own key to the counters without an expiry, and only if it counts an outage.

`AuthProofs` proves `TokenGrace` of `Auth` for any number of threads, connections,
accounts, sessions and tokens and any lifetimes. The invariant `AuthInv` says that
nothing is ever committed, so a row is found on the writer's connection or not at
all, that a request on its way to a token carries a clock that has gone on since,
and that a cache entry reaches at most `CacheTtl` beyond its token's end
(`CacheInv`). The last is kept by a verification because it uses the clock read
*before* the lock, and by a revocation because no entry reaches beyond the present
plus `CacheTtl`. The same module proves `GaugesTell` of `Metrics` for any labels: a gauge that is not
zero belongs to a known label, which the next collection zeroes; labels are forgotten
only when an exporter starts, and it has set no gauge then.

The theorems are about each module's own specification (`Spec`, `BudgetSpec`,
`StoreSpec`, `ExecSpec`, `GateSpec`, `AuthSpec`, `MetricsSpec`). The proofs assume of the constants what the
`ASSUME`s of the modules say, which TLC evaluates in every run: numbers are naturals,
limits that the settings require to be positive are, the sets that are counted are
finite, and no sentinel is a member of the set it stands beside.

Only model-checked: liveness (`QueuedFinishes`, `RunningEnds`, `FailureReachesStore`,
`QueuedEnds`, `JobEnds`, `RequestsEnd`, `ExporterReturns`, `FlowEnds`), since the prover has no rule
for fairness or `ENABLED`. Every safety invariant, action property and refinement that
a passing run checks is also a theorem. No module uses recursion, which the prover
could not handle.

## Not modelled

See `components` in `PROJECT.json`. The numerical code (KPI details, Grover
circuits, statistics, physics contract) works on floating-point and complex
numbers and is outside TLC's data. The workflow trace, the read-only endpoints and
the response models are presentation. Qubit usage and the Redis event bus have no
effect on anything else (the bus has no caller in the backend). The bench store, the
Grover sandbox and the web page appear only through their effects on the modelled
parts. The archived Shor add-on and the notebooks are not part of the service.

## Plan

Done: every component that keeps state other than the tables named above, and the
proofs of every safety property that a passing run checks.

Next, in this order:

1. a composition of `Execution` with `Budget` (shots charged against shots executed)
   and with `ExperimentStore`, and what the theorems of the parts say about it;
2. proofs of what the liveness properties rest on (a queued job always has an enabled
   step, as far as it can be said without `ENABLED`);
3. larger instances of `auth`: two accounts, three connections.

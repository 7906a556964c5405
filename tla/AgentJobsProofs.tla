-------------------------- MODULE AgentJobsProofs --------------------------
(***************************************************************************)
(* Safety of the agent jobs, for any number of jobs, keys, requests and    *)
(* workers, with and without a sandbox, for every number of attempts and   *)
(* of faults.                                                              *)
(*                                                                         *)
(* Inv follows a job through the places it can be in: with the request     *)
(* that created it, in the list, in a worker's hands, in the sorted set,   *)
(* and says at each point of a worker or a request what the job's hash     *)
(* holds there.                                                            *)
(***************************************************************************)
EXTENDS AgentJobs, FiniteSetTheorems, TLAPS

USE AgentJobsAssumption

-----------------------------------------------------------------------------
(* Type correctness *)

AllStatuses == Statuses \union {"absent", "expired"}
Errors      == Outcomes \union {"none", "SANDBOX_ERROR"}
Jobless     == {"idle", "create"}               \* a request without a job
SandboxPcs  == {"route", "post", "result", "succeed", "event", "raised", "fail", "failevent"}
Handless    == {"idle", "pump", "dequeue"}      \* a worker without a job
Early       == {"popped", "claimed", "cancel", "start", "count"}
Executed    == {"agent", "record", "status", "schedule"}

HashType ==
    /\ status \in [Jobs -> AllStatuses]
    /\ attempts \in [Jobs -> Nat]
    /\ result \subseteq Jobs
    /\ error \in [Jobs -> Errors]
    /\ cancelReq \subseteq Jobs

QueueType ==
    /\ index \in [Keys -> Jobs \union {NoJob}]
    /\ queue \in Seq(Jobs)
    /\ delayed \subseteq Jobs
    /\ due \subseteq Jobs
    /\ created \in [Keys -> SUBSET Jobs]
    /\ late \in [Jobs -> Nat]
    /\ faults \in 0 .. MaxFaults

ClientType ==
    /\ cpc \in [Clients -> Jobless \union SandboxPcs \union {"enqueue"}]
    /\ cjob \in [Clients -> Jobs \union {NoJob}]
    /\ ckey \in [Clients -> Keys \union {NoKey}]
    /\ reused \in [Clients -> BOOLEAN]
    /\ wait \in [Clients -> BOOLEAN]
    /\ \A c \in Clients : /\ cpc[c] \in Jobless <=> cjob[c] = NoJob
                          /\ cpc[c] \in Jobless => ~ reused[c]
                          /\ cpc[c] \in SandboxPcs => Sandbox

WorkerType ==
    /\ pc \in [Workers -> Handless \union Early \union Executed]
    /\ job \in [Workers -> Jobs \union {NoJob}]
    /\ seen \in [Workers -> SUBSET Jobs]
    /\ pumped \in [Workers -> Nat]
    /\ attempt \in [Workers -> Nat]
    /\ outcome \in [Workers -> Outcomes \union {"none"}]
    /\ \A w \in Workers : pc[w] \in Handless <=> job[w] = NoJob

TypeOK == HashType /\ QueueType /\ ClientType /\ WorkerType

-----------------------------------------------------------------------------
(* The inductive invariant *)

Listed == ToSet(queue)

\* A job is in one place, and what no request has created is in none.
Apart(j) ==
    /\ j \in Listed => j \notin delayed
    /\ j \in Listed \union delayed =>
          /\ \A w \in Workers : job[w] # j
          /\ \A c \in Clients : cjob[c] = j => reused[c]
    /\ \A c \in Clients : cjob[c] = j /\ ~ reused[c] => \A w \in Workers : job[w] # j

Fresh(j) == status[j] = "absent" =>
    /\ j \notin Listed \union delayed
    /\ \A w \in Workers : job[w] # j
    /\ \A c \in Clients : cjob[c] # j
    /\ \A k \in Keys : index[k] # j /\ j \notin created[k]
    /\ attempts[j] = 0 /\ late[j] = 0

WorkersApart == \A v, w \in Workers : job[v] = job[w] /\ job[v] # NoJob => v = w

OwnersApart == \A c, d \in Clients :
    cjob[c] = cjob[d] /\ ~ reused[c] /\ ~ reused[d] /\ cjob[c] # NoJob => c = d

Places ==
    /\ IsInjective(queue)
    /\ WorkersApart /\ OwnersApart
    /\ \A j \in Jobs : Apart(j) /\ Fresh(j)

\* What a worker knows about the job in its hands.
WorkerInv(w) ==
    /\ pc[w] \in Early => attempts[job[w]] < MaxAttempts
    /\ pc[w] \in {"start", "count"} => late[job[w]] = 0
    /\ pc[w] \in {"cancel", "start", "count"} \union Executed => status[job[w]] # "expired"
    /\ pc[w] \in {"agent", "record", "status"} => attempt[w] = attempts[job[w]]
    /\ pc[w] \in {"record", "status", "schedule"} =>
          /\ outcome[w] \in Outcomes
          /\ outcome[w] = "retry_scheduled" => attempts[job[w]] < MaxAttempts
    /\ pc[w] = "schedule" => outcome[w] = "retry_scheduled"
    /\ pc[w] = "status" => IF outcome[w] = "ok" THEN job[w] \in result
                                                ELSE error[job[w]] # "none"

\* What a request knows about its job.
ClientInv(c) ==
    /\ cjob[c] # NoJob => status[cjob[c]] # "expired"
    /\ cjob[c] # NoJob /\ ~ reused[c] => attempts[cjob[c]] = 0
    /\ cpc[c] = "succeed" => cjob[c] \in result
    /\ cpc[c] = "fail" => error[cjob[c]] # "none"

JobInv(j) ==
    /\ attempts[j] <= MaxAttempts /\ late[j] <= 1
    /\ j \in Listed \union delayed => attempts[j] < MaxAttempts
    /\ late[j] > 0 => j \in cancelReq \/ status[j] = "expired"
    /\ status[j] = "succeeded" => j \in result
    /\ status[j] = "failed" => error[j] # "none"

KeyInv(k) ==
    /\ index[k] # NoJob => status[index[k]] # "expired"
    /\ index[k] = NoJob => created[k] = {}

Inv ==
    /\ Places
    /\ \A w \in Workers : WorkerInv(w)
    /\ \A c \in Clients : ClientInv(c)
    /\ \A j \in Jobs : JobInv(j)
    /\ \A k \in Keys : KeyInv(k)

\* Without a sandbox the worker is the only writer of the status.
WaitingSolo == \A j \in Listed \union delayed : status[j] \in {"queued", "expired"}

WorkerSolo(w) ==
    /\ pc[w] \in {"popped", "claimed"} => status[job[w]] \in {"queued", "expired"}
    /\ pc[w] \in {"cancel", "start", "schedule"} => status[job[w]] = "queued"
    /\ pc[w] \in {"count", "agent", "record", "status"} => status[job[w]] = "running"
    /\ pc[w] = "status" /\ outcome[w] # "ok" => error[job[w]] = outcome[w]

ClientSolo(c) == cjob[c] # NoJob /\ ~ reused[c] => status[cjob[c]] = "queued"

JobSolo(j) == status[j] = "failed" => error[j] # "retry_scheduled"

Solo ==
    /\ WaitingSolo
    /\ \A w \in Workers : WorkerSolo(w)
    /\ \A c \in Clients : ClientSolo(c)
    /\ \A j \in Jobs : JobSolo(j)

OneWriter == ~ Sandbox => Solo

\* A request that will still write the job's status or put the job in the list.
Carries(c, j) ==
    /\ cjob[c] = j
    /\ \/ cpc[c] \in {"route", "post", "result", "succeed", "raised", "fail"}
       \/ ~ reused[c] /\ (cpc[c] = "enqueue" \/ ~ wait[c])

\* Unfinished, and nobody will finish it.
Undone(j) ==
    /\ status[j] \in {"queued", "running"}
    /\ j \notin Listed \union delayed
    /\ \A w \in Workers : job[w] # j
    /\ \A c \in Clients : ~ Carries(c, j)

Doomed == {j \in Jobs : Undone(j)}
DoomedBound == Cardinality(Doomed) <= faults

-----------------------------------------------------------------------------
(* The type invariant *)

\* A request past create_job has a job; so has a worker past the pop.
LEMMA Carried ==
    ASSUME TypeOK, NEW c \in Clients, cpc[c] \notin Jobless
    PROVE  cjob[c] \in Jobs /\ cjob[c] # NoJob
  BY DEF TypeOK, ClientType

\* consumer_api and worker_service hold one job id at a time.
LEMMA InHand ==
    ASSUME TypeOK, NEW w \in Workers, pc[w] \notin Handless
    PROVE  job[w] \in Jobs /\ job[w] # NoJob
  BY DEF TypeOK, WorkerType

\* The variables are functions.
LEMMA Maps ==
    ASSUME TypeOK
    PROVE  /\ status \in [Jobs -> AllStatuses] /\ error \in [Jobs -> Errors]
           /\ attempts \in [Jobs -> Nat] /\ late \in [Jobs -> Nat]
           /\ index \in [Keys -> Jobs \union {NoJob}] /\ created \in [Keys -> SUBSET Jobs]
           /\ cjob \in [Clients -> Jobs \union {NoJob}] /\ reused \in [Clients -> BOOLEAN]
           /\ DOMAIN cpc = Clients
           /\ job \in [Workers -> Jobs \union {NoJob}] /\ attempt \in [Workers -> Nat]
           /\ DOMAIN pc = Workers /\ DOMAIN outcome = Workers
  BY DEF TypeOK, HashType, QueueType, ClientType, WorkerType

\* One step of any request, of any worker or of the clock keeps the types.
LEMMA TypeInductive == TypeOK /\ [Next]_vars => TypeOK'
<1> USE DEF hashVars, queueVars, clientVars, workerVars, history, Statuses, Terminal, Failures,
            Outcomes, AllStatuses, Errors, Jobless, SandboxPcs, Handless, Early, Executed
<1> SUFFICES ASSUME TypeOK, [Next]_vars PROVE TypeOK'
  OBVIOUS
<1>1. ASSUME NEW c \in Clients, NEW k \in Keys \union {NoKey}, NEW waits \in BOOLEAN,
             Lookup(c, k, waits)
      PROVE  TypeOK'
  <2>1. ClientType'
    <3>1. CASE k \in Keys /\ index[k] # NoJob
      BY <1>1, <3>1 DEF TypeOK, QueueType, ClientType, Lookup, CGoto, Routed
    <3>2. CASE ~ (k \in Keys /\ index[k] # NoJob)
      BY <1>1, <3>2 DEF TypeOK, QueueType, ClientType, Lookup, CGoto, Routed
    <3>3. QED
      BY <3>1, <3>2
  <2>2. HashType' /\ QueueType' /\ WorkerType'
    BY <1>1 DEF TypeOK, HashType, QueueType, WorkerType, Lookup
  <2>3. QED
    BY <2>1, <2>2 DEF TypeOK
<1>2. ASSUME NEW c \in Clients, NEW j \in Jobs, Create(c, j) PROVE TypeOK'
  <2>1. HashType'
    BY <1>2 DEF TypeOK, HashType, Create, UpdateStatus, SetIndex, CGoto, Routed
  <2>2. QueueType'
    BY <1>2 DEF TypeOK, QueueType, Create, UpdateStatus, SetIndex, CGoto, Routed
  <2>3. ClientType'
    BY <1>2 DEF TypeOK, ClientType, Create, UpdateStatus, SetIndex, CGoto, Routed
  <2>4. WorkerType'
    BY <1>2 DEF TypeOK, WorkerType, Create
  <2>5. QED
    BY <2>1, <2>2, <2>3, <2>4 DEF TypeOK
<1>3. ASSUME NEW c \in Clients, SandboxStart(c) PROVE TypeOK'
  <2>1. cjob[c] \in Jobs
    BY <1>3, Carried DEF SandboxStart
  <2>2. HashType'
    BY <1>3, <2>1 DEF TypeOK, HashType, SandboxStart, UpdateStatus, CGoto
  <2>3. ClientType'
    BY <1>3, <2>1 DEF TypeOK, ClientType, SandboxStart, UpdateStatus, CGoto
  <2>4. QueueType' /\ WorkerType'
    BY <1>3 DEF TypeOK, QueueType, WorkerType, SandboxStart
  <2>5. QED
    BY <2>2, <2>3, <2>4 DEF TypeOK
<1>4. ASSUME NEW c \in Clients, SandboxAnswers(c) PROVE TypeOK'
  <2>1. ClientType'
    BY <1>4 DEF TypeOK, ClientType, SandboxAnswers, CGoto
  <2>2. HashType' /\ QueueType' /\ WorkerType'
    BY <1>4 DEF TypeOK, HashType, QueueType, WorkerType, SandboxAnswers
  <2>3. QED
    BY <2>1, <2>2 DEF TypeOK
<1>5. ASSUME NEW c \in Clients, SandboxResult(c) PROVE TypeOK'
  <2>1. cjob[c] \in Jobs
    BY <1>5, Carried DEF SandboxResult
  <2>2. HashType'
    BY <1>5, <2>1 DEF TypeOK, HashType, SandboxResult, SetResult, CGoto
  <2>3. ClientType'
    BY <1>5, <2>1 DEF TypeOK, ClientType, SandboxResult, SetResult, CGoto
  <2>4. QueueType' /\ WorkerType'
    BY <1>5 DEF TypeOK, QueueType, WorkerType, SandboxResult
  <2>5. QED
    BY <2>2, <2>3, <2>4 DEF TypeOK
<1>6. ASSUME NEW c \in Clients, SandboxSucceed(c) PROVE TypeOK'
  <2>1. cjob[c] \in Jobs
    BY <1>6, Carried DEF SandboxSucceed
  <2>2. HashType'
    BY <1>6, <2>1 DEF TypeOK, HashType, SandboxSucceed, UpdateStatus, CGoto
  <2>3. ClientType'
    BY <1>6, <2>1 DEF TypeOK, ClientType, SandboxSucceed, UpdateStatus, CGoto
  <2>4. QueueType' /\ WorkerType'
    BY <1>6 DEF TypeOK, QueueType, WorkerType, SandboxSucceed
  <2>5. QED
    BY <2>2, <2>3, <2>4 DEF TypeOK
<1>7. ASSUME NEW c \in Clients, SandboxRaises(c) PROVE TypeOK'
  <2>1. QueueType'
    BY <1>7 DEF TypeOK, QueueType, SandboxRaises, CGoto
  <2>2. ClientType'
    BY <1>7 DEF TypeOK, ClientType, SandboxRaises, CGoto
  <2>3. HashType' /\ WorkerType'
    BY <1>7 DEF TypeOK, HashType, WorkerType, SandboxRaises
  <2>4. QED
    BY <2>1, <2>2, <2>3 DEF TypeOK
<1>8. ASSUME NEW c \in Clients, SandboxError(c) PROVE TypeOK'
  <2>1. cjob[c] \in Jobs
    BY <1>8, Carried DEF SandboxError
  <2>2. HashType'
    BY <1>8, <2>1 DEF TypeOK, HashType, SandboxError, SetError, CGoto
  <2>3. ClientType'
    BY <1>8, <2>1 DEF TypeOK, ClientType, SandboxError, SetError, CGoto
  <2>4. QueueType' /\ WorkerType'
    BY <1>8 DEF TypeOK, QueueType, WorkerType, SandboxError
  <2>5. QED
    BY <2>2, <2>3, <2>4 DEF TypeOK
<1>9. ASSUME NEW c \in Clients, SandboxFail(c) PROVE TypeOK'
  <2>1. cjob[c] \in Jobs
    BY <1>9, Carried DEF SandboxFail
  <2>2. HashType'
    BY <1>9, <2>1 DEF TypeOK, HashType, SandboxFail, UpdateStatus, CGoto
  <2>3. ClientType'
    BY <1>9, <2>1 DEF TypeOK, ClientType, SandboxFail, UpdateStatus, CGoto
  <2>4. QueueType' /\ WorkerType'
    BY <1>9 DEF TypeOK, QueueType, WorkerType, SandboxFail
  <2>5. QED
    BY <2>2, <2>3, <2>4 DEF TypeOK
<1>10. ASSUME NEW c \in Clients, SandboxReply(c) PROVE TypeOK'
  <2>1. ClientType'
    <3>1. /\ cpc[c] \in {"event", "failevent"}
          /\ \/ Done(c)
             \/ CGoto(c, "enqueue") /\ UNCHANGED <<cjob, ckey, reused, wait>>
      BY <1>10 DEF SandboxReply
    <3>2. CASE Done(c)
      BY <3>2 DEF TypeOK, ClientType, Done, CGoto
    <3>3. CASE CGoto(c, "enqueue") /\ UNCHANGED <<cjob, ckey, reused, wait>>
      BY <3>1, <3>3 DEF TypeOK, ClientType, CGoto
    <3>4. QED
      BY <3>1, <3>2, <3>3
  <2>2. HashType' /\ QueueType' /\ WorkerType'
    BY <1>10 DEF TypeOK, HashType, QueueType, WorkerType, SandboxReply
  <2>3. QED
    BY <2>1, <2>2 DEF TypeOK
<1>11. ASSUME NEW c \in Clients, Enqueue(c) PROVE TypeOK'
  <2>1. cjob[c] \in Jobs
    BY <1>11, Carried DEF Enqueue
  <2>2. QueueType'
    BY <1>11, <2>1 DEF TypeOK, QueueType, Enqueue, PushUnlessReused, Done, CGoto
  <2>3. ClientType'
    BY <1>11, <2>1 DEF TypeOK, ClientType, Enqueue, PushUnlessReused, Done, CGoto
  <2>4. HashType' /\ WorkerType'
    BY <1>11 DEF TypeOK, HashType, WorkerType, Enqueue
  <2>5. QED
    BY <2>2, <2>3, <2>4 DEF TypeOK
<1>12. ASSUME NEW c \in Clients, RequestFails(c) PROVE TypeOK'
  <2>1. QueueType'
    BY <1>12 DEF TypeOK, QueueType, RequestFails, Done, CGoto
  <2>2. ClientType'
    BY <1>12 DEF TypeOK, ClientType, RequestFails, Done, CGoto
  <2>3. HashType' /\ WorkerType'
    BY <1>12 DEF TypeOK, HashType, WorkerType, RequestFails
  <2>4. QED
    BY <2>1, <2>2, <2>3 DEF TypeOK
<1>13. ASSUME NEW j \in Jobs, RequestCancel(j) PROVE TypeOK'
  <2>1. HashType'
    BY <1>13 DEF TypeOK, HashType, RequestCancel
  <2>2. QueueType' /\ ClientType' /\ WorkerType'
    BY <1>13 DEF TypeOK, QueueType, ClientType, WorkerType, RequestCancel
  <2>3. QED
    BY <2>1, <2>2 DEF TypeOK
<1>14. ASSUME NEW k \in Keys, ExpireKey(k) PROVE TypeOK'
  <2>1. QueueType'
    BY <1>14 DEF TypeOK, QueueType, ExpireKey
  <2>2. HashType' /\ ClientType' /\ WorkerType'
    BY <1>14 DEF TypeOK, HashType, ClientType, WorkerType, ExpireKey
  <2>3. QED
    BY <2>1, <2>2 DEF TypeOK
<1>15. ASSUME NEW j \in Jobs, ExpireJob(j) PROVE TypeOK'
  <2>1. HashType'
    BY <1>15 DEF TypeOK, HashType, ExpireJob, UpdateStatus, SetError
  <2>2. QueueType' /\ ClientType' /\ WorkerType'
    BY <1>15 DEF TypeOK, QueueType, ClientType, WorkerType, ExpireJob
  <2>3. QED
    BY <2>1, <2>2 DEF TypeOK
<1>16. ASSUME NEW j \in Jobs, BecomeDue(j) PROVE TypeOK'
  <2>1. QueueType'
    BY <1>16 DEF TypeOK, QueueType, BecomeDue
  <2>2. HashType' /\ ClientType' /\ WorkerType'
    BY <1>16 DEF TypeOK, HashType, ClientType, WorkerType, BecomeDue
  <2>3. QED
    BY <2>1, <2>2 DEF TypeOK
<1>17. ASSUME NEW w \in Workers, PumpStart(w) PROVE TypeOK'
  <2>1. WorkerType'
    BY <1>17 DEF TypeOK, QueueType, WorkerType, PumpStart, Goto
  <2>2. HashType' /\ QueueType' /\ ClientType'
    BY <1>17 DEF TypeOK, HashType, QueueType, ClientType, PumpStart
  <2>3. QED
    BY <2>1, <2>2 DEF TypeOK
<1>18. ASSUME NEW w \in Workers, NEW j \in Jobs, PumpPop(w, j) PROVE TypeOK'
  <2>1. QueueType'
    BY <1>18 DEF TypeOK, QueueType, PumpPop, Goto, Hold
  <2>2. WorkerType'
    BY <1>18 DEF TypeOK, WorkerType, PumpPop, Goto, Hold
  <2>3. HashType' /\ ClientType'
    BY <1>18 DEF TypeOK, HashType, ClientType, PumpPop
  <2>4. QED
    BY <2>1, <2>2, <2>3 DEF TypeOK
<1>19. ASSUME NEW w \in Workers, PumpDone(w) PROVE TypeOK'
  <2>1. WorkerType'
    BY <1>19 DEF TypeOK, WorkerType, PumpDone, PumpReturns, Goto
  <2>2. HashType' /\ QueueType' /\ ClientType'
    BY <1>19 DEF TypeOK, HashType, QueueType, ClientType, PumpDone
  <2>3. QED
    BY <2>1, <2>2 DEF TypeOK
<1>20. ASSUME NEW w \in Workers, PumpPush(w) PROVE TypeOK'
  <2>1. job[w] \in Jobs
    BY <1>20, InHand DEF PumpPush
  <2>2. QueueType'
    BY <1>20, <2>1 DEF TypeOK, QueueType, PumpPush, Hold, Goto
  <2>3. WorkerType'
    BY <1>20, <2>1 DEF TypeOK, WorkerType, PumpPush, Hold, Goto
  <2>4. HashType' /\ ClientType'
    BY <1>20 DEF TypeOK, HashType, ClientType, PumpPush
  <2>5. QED
    BY <2>2, <2>3, <2>4 DEF TypeOK
<1>21. ASSUME NEW w \in Workers, PumpBack(w) PROVE TypeOK'
  <2>1. job[w] \in Jobs
    BY <1>21, InHand DEF PumpBack
  <2>2. QueueType'
    BY <1>21, <2>1 DEF TypeOK, QueueType, PumpBack, Hold, PumpReturns, Goto
  <2>3. WorkerType'
    BY <1>21, <2>1 DEF TypeOK, WorkerType, PumpBack, Hold, PumpReturns, Goto
  <2>4. HashType' /\ ClientType'
    BY <1>21 DEF TypeOK, HashType, ClientType, PumpBack
  <2>5. QED
    BY <2>2, <2>3, <2>4 DEF TypeOK
<1>22. ASSUME NEW w \in Workers, Dequeue(w) PROVE TypeOK'
  <2>1. QueueType'
    BY <1>22 DEF TypeOK, QueueType, Dequeue, PopJob, Hold, Goto
  <2>2. WorkerType'
    BY <1>22 DEF TypeOK, QueueType, WorkerType, Dequeue, PopJob, Hold, Goto
  <2>3. HashType' /\ ClientType'
    BY <1>22 DEF TypeOK, HashType, ClientType, Dequeue
  <2>4. QED
    BY <2>1, <2>2, <2>3 DEF TypeOK
<1>23. ASSUME NEW w \in Workers, DequeueTimesOut(w) PROVE TypeOK'
  <2>1. WorkerType'
    BY <1>23 DEF TypeOK, WorkerType, DequeueTimesOut, Goto
  <2>2. HashType' /\ QueueType' /\ ClientType'
    BY <1>23 DEF TypeOK, HashType, QueueType, ClientType, DequeueTimesOut
  <2>3. QED
    BY <2>1, <2>2 DEF TypeOK
<1>24. ASSUME NEW w \in Workers, ReadJob(w) PROVE TypeOK'
  <2>1. WorkerType'
    BY <1>24 DEF TypeOK, WorkerType, ReadJob, UnlessCancelled, Return, Hold, Goto
  <2>2. HashType' /\ QueueType' /\ ClientType'
    BY <1>24 DEF TypeOK, HashType, QueueType, ClientType, ReadJob
  <2>3. QED
    BY <2>1, <2>2 DEF TypeOK
<1>25. ASSUME NEW w \in Workers, WriteCancelled(w) PROVE TypeOK'
  <2>1. job[w] \in Jobs
    BY <1>25, InHand DEF WriteCancelled
  <2>2. HashType'
    BY <1>25, <2>1 DEF TypeOK, HashType, WriteCancelled, UpdateStatus, Return, Hold, Goto
  <2>3. WorkerType'
    BY <1>25, <2>1 DEF TypeOK, WorkerType, WriteCancelled, UpdateStatus, Return, Hold, Goto
  <2>4. QueueType' /\ ClientType'
    BY <1>25 DEF TypeOK, QueueType, ClientType, WriteCancelled
  <2>5. QED
    BY <2>2, <2>3, <2>4 DEF TypeOK
<1>26. ASSUME NEW w \in Workers, MarkRunning(w) PROVE TypeOK'
  <2>1. job[w] \in Jobs
    BY <1>26, InHand DEF MarkRunning
  <2>2. HashType'
    BY <1>26, <2>1 DEF TypeOK, HashType, MarkRunning, UpdateStatus, Goto
  <2>3. WorkerType'
    BY <1>26, <2>1 DEF TypeOK, WorkerType, MarkRunning, UpdateStatus, Goto
  <2>4. QueueType' /\ ClientType'
    BY <1>26 DEF TypeOK, QueueType, ClientType, MarkRunning
  <2>5. QED
    BY <2>2, <2>3, <2>4 DEF TypeOK
<1>27. ASSUME NEW w \in Workers, CountAttempt(w) PROVE TypeOK'
  <2>1. job[w] \in Jobs
    BY <1>27, InHand DEF CountAttempt
  <2>2. HashType'
    BY <1>27, <2>1 DEF TypeOK, HashType, CountAttempt, Goto
  <2>3. QueueType'
    BY <1>27, <2>1 DEF TypeOK, QueueType, CountAttempt, Goto
  <2>4. WorkerType'
    BY <1>27, <2>1 DEF TypeOK, HashType, WorkerType, CountAttempt, Goto
  <2>5. ClientType'
    BY <1>27 DEF TypeOK, ClientType, CountAttempt
  <2>6. QED
    BY <2>2, <2>3, <2>4, <2>5 DEF TypeOK
<1>28. ASSUME NEW w \in Workers, NEW o \in Outcomes, AgentEnds(w, o) PROVE TypeOK'
  <2>1. WorkerType'
    BY <1>28 DEF TypeOK, WorkerType, AgentEnds, MayRetry, Goto
  <2>2. HashType' /\ QueueType' /\ ClientType'
    BY <1>28 DEF TypeOK, HashType, QueueType, ClientType, AgentEnds
  <2>3. QED
    BY <2>1, <2>2 DEF TypeOK
<1>29. ASSUME NEW w \in Workers, RecordOutcome(w) PROVE TypeOK'
  <2>1. job[w] \in Jobs
    BY <1>29, InHand DEF RecordOutcome
  <2>2. HashType'
    <3>1. CASE outcome[w] = "ok"
      BY <1>29, <2>1, <3>1 DEF TypeOK, HashType, WorkerType, RecordOutcome, SetResult, SetError,
                               Goto
    <3>2. CASE outcome[w] # "ok"
      BY <1>29, <2>1, <3>2 DEF TypeOK, HashType, WorkerType, RecordOutcome, SetResult, SetError,
                               Goto
    <3>3. QED
      BY <3>1, <3>2
  <2>3. WorkerType'
    BY <1>29, <2>1 DEF TypeOK, WorkerType, RecordOutcome, SetResult, SetError, Goto
  <2>4. QueueType' /\ ClientType'
    BY <1>29 DEF TypeOK, QueueType, ClientType, RecordOutcome
  <2>5. QED
    BY <2>2, <2>3, <2>4 DEF TypeOK
<1>30. ASSUME NEW w \in Workers, WriteStatus(w) PROVE TypeOK'
  <2>1. job[w] \in Jobs
    BY <1>30, InHand DEF WriteStatus
  <2>2. HashType'
    BY <1>30, <2>1 DEF TypeOK, HashType, WriteStatus, UpdateStatus, Return, Hold, Goto
  <2>3. WorkerType'
    BY <1>30, <2>1 DEF TypeOK, WorkerType, WriteStatus, UpdateStatus, Return, Hold, Goto
  <2>4. QueueType' /\ ClientType'
    BY <1>30 DEF TypeOK, QueueType, ClientType, WriteStatus
  <2>5. QED
    BY <2>2, <2>3, <2>4 DEF TypeOK
<1>31. ASSUME NEW w \in Workers, ScheduleDelayed(w) PROVE TypeOK'
  <2>1. job[w] \in Jobs
    BY <1>31, InHand DEF ScheduleDelayed
  <2>2. QueueType'
    BY <1>31, <2>1 DEF TypeOK, QueueType, ScheduleDelayed, Delay, Return, Hold, Goto
  <2>3. WorkerType'
    BY <1>31, <2>1 DEF TypeOK, WorkerType, ScheduleDelayed, Delay, Return, Hold, Goto
  <2>4. HashType' /\ ClientType'
    BY <1>31 DEF TypeOK, HashType, ClientType, ScheduleDelayed
  <2>5. QED
    BY <2>2, <2>3, <2>4 DEF TypeOK
<1>32. ASSUME NEW w \in Workers, Abandon(w) PROVE TypeOK'
  <2>1. QueueType'
    BY <1>32 DEF TypeOK, QueueType, Abandon, Return, Hold, Goto
  <2>2. WorkerType'
    BY <1>32 DEF TypeOK, WorkerType, Abandon, Return, Hold, Goto
  <2>3. HashType' /\ ClientType'
    BY <1>32 DEF TypeOK, HashType, ClientType, Abandon
  <2>4. QED
    BY <2>1, <2>2, <2>3 DEF TypeOK
<1>33. CASE UNCHANGED vars
  BY <1>33 DEF TypeOK, HashType, QueueType, ClientType, WorkerType, vars
<1>34. QED
  BY <1>1, <1>2, <1>3, <1>4, <1>5, <1>6, <1>7, <1>8, <1>9, <1>10, <1>11, <1>12, <1>13, <1>14,
     <1>15, <1>16, <1>17, <1>18, <1>19, <1>20, <1>21, <1>22, <1>23, <1>24, <1>25, <1>26, <1>27,
     <1>28, <1>29, <1>30, <1>31, <1>32, <1>33
     DEF Next, ClientStep, WorkerStep, AgentStep

-----------------------------------------------------------------------------
(* The places of a job *)

\* LPUSH adds one job to the list
LEMMA Pushed ==
    ASSUME NEW q \in Seq(Jobs), NEW j \in Jobs
    PROVE  /\ ToSet(Append(q, j)) = ToSet(q) \union {j}
           /\ IsInjective(q) /\ j \notin ToSet(q) => IsInjective(Append(q, j))
<1>1. /\ Len(q) \in Nat /\ DOMAIN q = 1 .. Len(q)
      /\ DOMAIN Append(q, j) = 1 .. Len(q) + 1
      /\ Append(q, j)[Len(q) + 1] = j
      /\ \A i \in 1 .. Len(q) : Append(q, j)[i] = q[i]
  OBVIOUS
<1>2. ToSet(Append(q, j)) = ToSet(q) \union {j}
  BY <1>1 DEF ToSet
<1>3. IsInjective(q) /\ j \notin ToSet(q) => IsInjective(Append(q, j))
  BY <1>1 DEF ToSet, IsInjective
<1>4. QED
  BY <1>2, <1>3

\* and BRPOP takes the oldest one off it (queueing.py).
LEMMA Popped ==
    ASSUME NEW q \in Seq(Jobs), q # <<>>, IsInjective(q)
    PROVE  /\ Head(q) \in ToSet(q) /\ Head(q) \in Jobs
           /\ ToSet(Tail(q)) = ToSet(q) \ {Head(q)}
           /\ IsInjective(Tail(q))
<1>1. /\ Len(q) \in Nat \ {0} /\ DOMAIN q = 1 .. Len(q) /\ Head(q) = q[1] /\ Head(q) \in Jobs
      /\ DOMAIN Tail(q) = 1 .. Len(q) - 1
      /\ \A i \in 1 .. Len(q) - 1 : Tail(q)[i] = q[i + 1]
  OBVIOUS
<1>2. Head(q) \in ToSet(q)
  BY <1>1 DEF ToSet
<1>3. ASSUME NEW x PROVE x \in ToSet(Tail(q)) <=> x \in ToSet(q) /\ x # Head(q)
  <2>1. ASSUME NEW i \in 1 .. Len(q) - 1, x = Tail(q)[i] PROVE x \in ToSet(q) /\ x # Head(q)
    BY <1>1, <2>1 DEF ToSet, IsInjective
  <2>2. ASSUME NEW i \in 1 .. Len(q), x = q[i], x # Head(q) PROVE x \in ToSet(Tail(q))
    <3>1. i - 1 \in 1 .. Len(q) - 1 /\ Tail(q)[i - 1] = x
      BY <1>1, <2>2
    <3>2. QED
      BY <1>1, <3>1 DEF ToSet
  <2>3. QED
    BY <1>1, <2>1, <2>2 DEF ToSet
<1>4. IsInjective(Tail(q))
  BY <1>1 DEF IsInjective
<1>5. QED
  BY <1>1, <1>2, <1>3, <1>4

\* One step of any request, of any worker or of the clock keeps the invariant.
LEMMA InvInductive == TypeOK /\ Inv /\ [Next]_vars => Inv'
<1> USE DEF hashVars, queueVars, clientVars, workerVars, history, Statuses, Terminal, Failures,
            Outcomes, AllStatuses, Errors, Jobless, SandboxPcs, Handless, Early, Executed
<1> SUFFICES ASSUME TypeOK, Inv, [Next]_vars PROVE Inv'
  OBVIOUS
<1>1. ASSUME NEW c \in Clients, NEW k \in Keys \union {NoKey}, NEW waits \in BOOLEAN,
             Lookup(c, k, waits)
      PROVE  Inv'
  <2>1. CASE k \in Keys /\ index[k] # NoJob
    <3>1. /\ cpc[c] = "idle" /\ cpc' = [cpc EXCEPT ![c] = Routed]
          /\ cjob' = [cjob EXCEPT ![c] = index[k]] /\ reused' = [reused EXCEPT ![c] = TRUE]
          /\ Routed \in {"route", "enqueue"} /\ index[k] \in Jobs
          /\ UNCHANGED <<status, attempts, result, error, cancelReq, index, queue, delayed, pc,
                         job, attempt, outcome, created, late>>
      BY <1>1, <2>1 DEF TypeOK, ClientType, QueueType, Lookup, CGoto, Routed
    <3>2. OwnersApart'
      BY <3>1, <2>1, Maps DEF Inv, Places, OwnersApart
    <3>3. \A i \in Jobs : Apart(i)'
      BY <3>1, <2>1, Maps DEF Inv, Places, Apart, Listed
    <3>4. \A i \in Jobs : Fresh(i)'
      BY <3>1, <2>1, Maps DEF Inv, Places, Fresh, Listed
    <3>5. \A d \in Clients : ClientInv(d)'
      BY <3>1, <2>1, Maps DEF Inv, ClientInv, KeyInv
    <3>6. /\ IsInjective(queue)'
          /\ WorkersApart'
          /\ \A v \in Workers : WorkerInv(v)'
          /\ \A i \in Jobs : JobInv(i)'
          /\ \A x \in Keys : KeyInv(x)'
      BY <3>1 DEF Inv, Places, WorkersApart, WorkerInv, JobInv, KeyInv, Listed
    <3>7. QED
      BY <3>2, <3>3, <3>4, <3>5, <3>6 DEF Inv, Places
  <2>2. CASE ~ (k \in Keys /\ index[k] # NoJob)
    <3>1. /\ cpc[c] = "idle" /\ cpc' = [cpc EXCEPT ![c] = "create"]
          /\ UNCHANGED <<status, attempts, result, error, cancelReq, index, queue, delayed,
                         cjob, reused, pc, job, attempt, outcome, created, late>>
      BY <1>1, <2>2 DEF Lookup, CGoto
    <3>2. \A d \in Clients : ClientInv(d)'
      BY <3>1, <2>2, Maps DEF Inv, ClientInv
    <3>3. /\ IsInjective(queue)'
          /\ WorkersApart'
          /\ OwnersApart'
          /\ \A i \in Jobs : Apart(i)'
          /\ \A i \in Jobs : Fresh(i)'
          /\ \A v \in Workers : WorkerInv(v)'
          /\ \A i \in Jobs : JobInv(i)'
          /\ \A x \in Keys : KeyInv(x)'
      BY <3>1 DEF Inv, Places, WorkersApart, OwnersApart, Apart, Fresh, WorkerInv, JobInv,
                  KeyInv, Listed
    <3>4. QED
      BY <3>2, <3>3 DEF Inv, Places
  <2>3. QED
    BY <1>1, <2>1, <2>2
<1>2. ASSUME NEW c \in Clients, NEW j \in Jobs, Create(c, j) PROVE Inv'
  <2>1. OwnersApart'
    BY <1>2, Maps DEF Inv, Places, OwnersApart, Apart, Fresh, Listed, Create, UpdateStatus,
                      SetIndex, CGoto, Routed
  <2>2. \A i \in Jobs : Apart(i)'
    BY <1>2, Maps DEF Inv, Places, OwnersApart, Apart, Fresh, Listed, Create, UpdateStatus,
                      SetIndex, CGoto, Routed
  <2>3. \A i \in Jobs : Fresh(i)'
    BY <1>2, Maps DEF Inv, Places, Fresh, Listed, Create, UpdateStatus, SetIndex, CGoto, Routed
  <2>4. \A v \in Workers : WorkerInv(v)'
    BY <1>2, Maps DEF Inv, WorkerInv, Create, UpdateStatus, SetIndex, CGoto, Routed
  <2>5. \A d \in Clients : ClientInv(d)'
    BY <1>2, Maps DEF Inv, Places, Fresh, ClientInv, Create, UpdateStatus, SetIndex, CGoto,
                      Routed
  <2>6. \A i \in Jobs : JobInv(i)'
    BY <1>2, Maps DEF Inv, JobInv, Listed, Create, UpdateStatus, SetIndex, CGoto, Routed
  <2>7. \A x \in Keys : KeyInv(x)'
    BY <1>2, Maps DEF Inv, KeyInv, Create, UpdateStatus, SetIndex, CGoto, Routed
  <2>8. /\ IsInjective(queue)'
        /\ WorkersApart'
    BY <1>2 DEF Inv, Places, WorkersApart, Listed, Create
  <2>9. QED
    BY <2>1, <2>2, <2>3, <2>4, <2>5, <2>6, <2>7, <2>8 DEF Inv, Places
<1>3. ASSUME NEW c \in Clients, SandboxStart(c) PROVE Inv'
  <2>1. cjob[c] \in Jobs /\ cjob[c] # NoJob
    BY <1>3, Carried DEF SandboxStart
  <2>2. \A i \in Jobs : Fresh(i)'
    BY <1>3, <2>1, Maps DEF Inv, Places, Fresh, Listed, SandboxStart, UpdateStatus, CGoto
  <2>3. \A v \in Workers : WorkerInv(v)'
    BY <1>3, <2>1, Maps DEF Inv, WorkerInv, SandboxStart, UpdateStatus, CGoto
  <2>4. \A d \in Clients : ClientInv(d)'
    BY <1>3, <2>1, Maps DEF Inv, ClientInv, SandboxStart, UpdateStatus, CGoto
  <2>5. \A i \in Jobs : JobInv(i)'
    BY <1>3, <2>1, Maps DEF Inv, ClientInv, JobInv, Listed, SandboxStart, UpdateStatus, CGoto
  <2>6. \A x \in Keys : KeyInv(x)'
    BY <1>3, <2>1, Maps DEF Inv, KeyInv, SandboxStart, UpdateStatus, CGoto
  <2>7. /\ IsInjective(queue)'
        /\ WorkersApart'
        /\ OwnersApart'
        /\ \A i \in Jobs : Apart(i)'
    BY <1>3 DEF Inv, Places, WorkersApart, OwnersApart, Apart, Listed, SandboxStart
  <2>8. QED
    BY <2>2, <2>3, <2>4, <2>5, <2>6, <2>7 DEF Inv, Places
<1>4. ASSUME NEW c \in Clients, SandboxAnswers(c) PROVE Inv'
  <2>1. cjob[c] \in Jobs /\ cjob[c] # NoJob
    BY <1>4, Carried DEF SandboxAnswers
  <2>2. \A d \in Clients : ClientInv(d)'
    BY <1>4, <2>1, Maps DEF Inv, ClientInv, SandboxAnswers, CGoto
  <2>3. /\ IsInjective(queue)'
        /\ WorkersApart'
        /\ OwnersApart'
        /\ \A i \in Jobs : Apart(i)'
        /\ \A i \in Jobs : Fresh(i)'
        /\ \A v \in Workers : WorkerInv(v)'
        /\ \A i \in Jobs : JobInv(i)'
        /\ \A x \in Keys : KeyInv(x)'
    BY <1>4 DEF Inv, Places, WorkersApart, OwnersApart, Apart, Fresh, WorkerInv, JobInv, KeyInv,
                Listed, SandboxAnswers
  <2>4. QED
    BY <2>2, <2>3 DEF Inv, Places
<1>5. ASSUME NEW c \in Clients, SandboxResult(c) PROVE Inv'
  <2>1. cjob[c] \in Jobs /\ cjob[c] # NoJob
    BY <1>5, Carried DEF SandboxResult
  <2>2. \A v \in Workers : WorkerInv(v)'
    BY <1>5, <2>1, Maps DEF Inv, WorkerInv, SandboxResult, SetResult, CGoto
  <2>3. \A d \in Clients : ClientInv(d)'
    BY <1>5, <2>1, Maps DEF Inv, ClientInv, SandboxResult, SetResult, CGoto
  <2>4. \A i \in Jobs : JobInv(i)'
    BY <1>5, <2>1, Maps DEF Inv, JobInv, Listed, SandboxResult, SetResult, CGoto
  <2>5. /\ IsInjective(queue)'
        /\ WorkersApart'
        /\ OwnersApart'
        /\ \A i \in Jobs : Apart(i)'
        /\ \A i \in Jobs : Fresh(i)'
        /\ \A x \in Keys : KeyInv(x)'
    BY <1>5 DEF Inv, Places, WorkersApart, OwnersApart, Apart, Fresh, KeyInv, Listed,
                SandboxResult
  <2>6. QED
    BY <2>2, <2>3, <2>4, <2>5 DEF Inv, Places
<1>6. ASSUME NEW c \in Clients, SandboxSucceed(c) PROVE Inv'
  <2>1. cjob[c] \in Jobs /\ cjob[c] # NoJob
    BY <1>6, Carried DEF SandboxSucceed
  <2>2. \A i \in Jobs : Fresh(i)'
    BY <1>6, <2>1, Maps DEF Inv, Places, Fresh, Listed, SandboxSucceed, UpdateStatus, CGoto
  <2>3. \A v \in Workers : WorkerInv(v)'
    BY <1>6, <2>1, Maps DEF Inv, WorkerInv, SandboxSucceed, UpdateStatus, CGoto
  <2>4. \A d \in Clients : ClientInv(d)'
    BY <1>6, <2>1, Maps DEF Inv, ClientInv, SandboxSucceed, UpdateStatus, CGoto
  <2>5. \A i \in Jobs : JobInv(i)'
    BY <1>6, <2>1, Maps DEF Inv, ClientInv, JobInv, Listed, SandboxSucceed, UpdateStatus, CGoto
  <2>6. \A x \in Keys : KeyInv(x)'
    BY <1>6, <2>1, Maps DEF Inv, KeyInv, SandboxSucceed, UpdateStatus, CGoto
  <2>7. /\ IsInjective(queue)'
        /\ WorkersApart'
        /\ OwnersApart'
        /\ \A i \in Jobs : Apart(i)'
    BY <1>6 DEF Inv, Places, WorkersApart, OwnersApart, Apart, Listed, SandboxSucceed
  <2>8. QED
    BY <2>2, <2>3, <2>4, <2>5, <2>6, <2>7 DEF Inv, Places
<1>7. ASSUME NEW c \in Clients, SandboxRaises(c) PROVE Inv'
  <2>1. cjob[c] \in Jobs /\ cjob[c] # NoJob
    BY <1>7, Carried DEF SandboxRaises
  <2>2. \A d \in Clients : ClientInv(d)'
    BY <1>7, <2>1, Maps DEF Inv, ClientInv, SandboxRaises, CGoto
  <2>3. /\ IsInjective(queue)'
        /\ WorkersApart'
        /\ OwnersApart'
        /\ \A i \in Jobs : Apart(i)'
        /\ \A i \in Jobs : Fresh(i)'
        /\ \A v \in Workers : WorkerInv(v)'
        /\ \A i \in Jobs : JobInv(i)'
        /\ \A x \in Keys : KeyInv(x)'
    BY <1>7 DEF Inv, Places, WorkersApart, OwnersApart, Apart, Fresh, WorkerInv, JobInv, KeyInv,
                Listed, SandboxRaises
  <2>4. QED
    BY <2>2, <2>3 DEF Inv, Places
<1>8. ASSUME NEW c \in Clients, SandboxError(c) PROVE Inv'
  <2>1. cjob[c] \in Jobs /\ cjob[c] # NoJob
    BY <1>8, Carried DEF SandboxError
  <2>2. \A v \in Workers : WorkerInv(v)'
    BY <1>8, <2>1, Maps DEF Inv, WorkerInv, SandboxError, SetError, CGoto
  <2>3. \A d \in Clients : ClientInv(d)'
    BY <1>8, <2>1, Maps DEF Inv, ClientInv, SandboxError, SetError, CGoto
  <2>4. \A i \in Jobs : JobInv(i)'
    BY <1>8, <2>1, Maps DEF Inv, JobInv, Listed, SandboxError, SetError, CGoto
  <2>5. /\ IsInjective(queue)'
        /\ WorkersApart'
        /\ OwnersApart'
        /\ \A i \in Jobs : Apart(i)'
        /\ \A i \in Jobs : Fresh(i)'
        /\ \A x \in Keys : KeyInv(x)'
    BY <1>8 DEF Inv, Places, WorkersApart, OwnersApart, Apart, Fresh, KeyInv, Listed,
                SandboxError
  <2>6. QED
    BY <2>2, <2>3, <2>4, <2>5 DEF Inv, Places
<1>9. ASSUME NEW c \in Clients, SandboxFail(c) PROVE Inv'
  <2>1. cjob[c] \in Jobs /\ cjob[c] # NoJob
    BY <1>9, Carried DEF SandboxFail
  <2>2. \A i \in Jobs : Fresh(i)'
    BY <1>9, <2>1, Maps DEF Inv, Places, Fresh, Listed, SandboxFail, UpdateStatus, CGoto
  <2>3. \A v \in Workers : WorkerInv(v)'
    BY <1>9, <2>1, Maps DEF Inv, WorkerInv, SandboxFail, UpdateStatus, CGoto
  <2>4. \A d \in Clients : ClientInv(d)'
    BY <1>9, <2>1, Maps DEF Inv, ClientInv, SandboxFail, UpdateStatus, CGoto
  <2>5. \A i \in Jobs : JobInv(i)'
    BY <1>9, <2>1, Maps DEF Inv, ClientInv, JobInv, Listed, SandboxFail, UpdateStatus, CGoto
  <2>6. \A x \in Keys : KeyInv(x)'
    BY <1>9, <2>1, Maps DEF Inv, KeyInv, SandboxFail, UpdateStatus, CGoto
  <2>7. /\ IsInjective(queue)'
        /\ WorkersApart'
        /\ OwnersApart'
        /\ \A i \in Jobs : Apart(i)'
    BY <1>9 DEF Inv, Places, WorkersApart, OwnersApart, Apart, Listed, SandboxFail
  <2>8. QED
    BY <2>2, <2>3, <2>4, <2>5, <2>6, <2>7 DEF Inv, Places
<1>10. ASSUME NEW c \in Clients, SandboxReply(c) PROVE Inv'
  <2>1. cjob[c] \in Jobs /\ cjob[c] # NoJob
    BY <1>10, Carried DEF SandboxReply
  <2>2. CASE wait[c]
    <3>1. /\ cpc' = [cpc EXCEPT ![c] = "idle"] /\ cjob' = [cjob EXCEPT ![c] = NoJob]
          /\ reused' = [reused EXCEPT ![c] = FALSE]
          /\ UNCHANGED <<status, attempts, result, error, cancelReq, index, queue, delayed, pc,
                         job, attempt, outcome, created, late>>
      BY <1>10, <2>2 DEF Done, CGoto, SandboxReply
    <3>2. OwnersApart'
      BY <3>1, <2>1, <2>2, Maps DEF Inv, Places, OwnersApart
    <3>3. \A i \in Jobs : Apart(i)'
      BY <3>1, <2>1, <2>2, Maps DEF Inv, Places, Apart, Listed
    <3>4. \A i \in Jobs : Fresh(i)'
      BY <3>1, <2>1, <2>2, Maps DEF Inv, Places, Fresh, Listed
    <3>5. \A d \in Clients : ClientInv(d)'
      BY <3>1, <2>1, <2>2, Maps DEF Inv, ClientInv
    <3>6. /\ IsInjective(queue)'
          /\ WorkersApart'
          /\ \A v \in Workers : WorkerInv(v)'
          /\ \A i \in Jobs : JobInv(i)'
          /\ \A x \in Keys : KeyInv(x)'
      BY <3>1 DEF Inv, Places, WorkersApart, WorkerInv, JobInv, KeyInv, Listed
    <3>7. QED
      BY <3>2, <3>3, <3>4, <3>5, <3>6 DEF Inv, Places
  <2>3. CASE ~ wait[c]
    <3>1. /\ cpc[c] \in {"event", "failevent"} /\ cpc' = [cpc EXCEPT ![c] = "enqueue"]
          /\ UNCHANGED <<status, attempts, result, error, cancelReq, index, queue, delayed,
                         cjob, reused, pc, job, attempt, outcome, created, late>>
      BY <1>10, <2>3 DEF SandboxReply, CGoto
    <3>2. \A d \in Clients : ClientInv(d)'
      BY <3>1, <2>1, <2>3, Maps DEF Inv, ClientInv
    <3>3. /\ IsInjective(queue)'
          /\ WorkersApart'
          /\ OwnersApart'
          /\ \A i \in Jobs : Apart(i)'
          /\ \A i \in Jobs : Fresh(i)'
          /\ \A v \in Workers : WorkerInv(v)'
          /\ \A i \in Jobs : JobInv(i)'
          /\ \A x \in Keys : KeyInv(x)'
      BY <3>1 DEF Inv, Places, WorkersApart, OwnersApart, Apart, Fresh, WorkerInv, JobInv,
                  KeyInv, Listed
    <3>4. QED
      BY <3>2, <3>3 DEF Inv, Places
  <2>4. QED
    BY <1>10, <2>2, <2>3
<1>11. ASSUME NEW c \in Clients, Enqueue(c) PROVE Inv'
  <2>1. cjob[c] \in Jobs /\ cjob[c] # NoJob
    BY <1>11, Carried DEF Enqueue
  <2>2. CASE reused[c]
    <3>1. /\ cpc' = [cpc EXCEPT ![c] = "idle"] /\ cjob' = [cjob EXCEPT ![c] = NoJob]
          /\ reused' = [reused EXCEPT ![c] = FALSE]
          /\ UNCHANGED <<status, attempts, result, error, cancelReq, index, queue, delayed, pc,
                         job, attempt, outcome, created, late>>
      BY <1>11, <2>2 DEF Done, CGoto, Enqueue, PushUnlessReused
    <3>2. OwnersApart'
      BY <3>1, <2>1, <2>2, Maps DEF Inv, Places, OwnersApart
    <3>3. \A i \in Jobs : Apart(i)'
      BY <3>1, <2>1, <2>2, Maps DEF Inv, Places, WorkersApart, OwnersApart, Apart, Listed
    <3>4. \A i \in Jobs : Fresh(i)'
      BY <3>1, <2>1, <2>2, Maps DEF Inv, Places, Fresh, Listed
    <3>5. \A d \in Clients : ClientInv(d)'
      BY <3>1, <2>1, <2>2, Maps DEF Inv, ClientInv
    <3>6. /\ IsInjective(queue)'
          /\ WorkersApart'
          /\ \A v \in Workers : WorkerInv(v)'
          /\ \A i \in Jobs : JobInv(i)'
          /\ \A x \in Keys : KeyInv(x)'
      BY <3>1 DEF Inv, Places, WorkersApart, WorkerInv, JobInv, KeyInv, Listed
    <3>7. QED
      BY <3>2, <3>3, <3>4, <3>5, <3>6 DEF Inv, Places
  <2>3. CASE ~ reused[c]
    <3>1. /\ cpc' = [cpc EXCEPT ![c] = "idle"] /\ cjob' = [cjob EXCEPT ![c] = NoJob]
          /\ reused' = [reused EXCEPT ![c] = FALSE]
          /\ Listed' = Listed \union {cjob[c]}
          /\ IsInjective(queue) /\ cjob[c] \notin Listed => IsInjective(queue)'
          /\ UNCHANGED <<status, attempts, result, error, cancelReq, index, delayed, pc, job,
                         attempt, outcome, created, late>>
      BY <1>11, <2>3, <2>1, Pushed
         DEF Done, CGoto, Enqueue, PushUnlessReused, TypeOK, QueueType, Listed
    <3>2. IsInjective(queue)'
      BY <3>1, <2>1, <2>3, Maps DEF Inv, Places, Apart
    <3>3. OwnersApart'
      BY <3>1, <2>1, <2>3, Maps DEF Inv, Places, OwnersApart
    <3>4. \A i \in Jobs : Apart(i)'
      BY <3>1, <2>1, <2>3, Maps DEF Inv, Places, WorkersApart, OwnersApart, Apart, Listed
    <3>5. \A i \in Jobs : Fresh(i)'
      BY <3>1, <2>1, <2>3, Maps DEF Inv, Places, Fresh, Listed
    <3>6. \A d \in Clients : ClientInv(d)'
      BY <3>1, <2>1, <2>3, Maps DEF Inv, ClientInv
    <3>7. \A i \in Jobs : JobInv(i)'
      BY <3>1, <2>1, <2>3, Maps DEF Inv, ClientInv, JobInv, Listed
    <3>8. /\ WorkersApart'
          /\ \A v \in Workers : WorkerInv(v)'
          /\ \A x \in Keys : KeyInv(x)'
      BY <3>1 DEF Inv, Places, WorkersApart, WorkerInv, KeyInv, Listed
    <3>9. QED
      BY <3>2, <3>3, <3>4, <3>5, <3>6, <3>7, <3>8 DEF Inv, Places
  <2>4. QED
    BY <1>11, <2>2, <2>3
<1>12. ASSUME NEW c \in Clients, RequestFails(c) PROVE Inv'
  <2>1. /\ cpc' = [cpc EXCEPT ![c] = "idle"] /\ cjob' = [cjob EXCEPT ![c] = NoJob]
        /\ reused' = [reused EXCEPT ![c] = FALSE]
        /\ UNCHANGED <<status, attempts, result, error, cancelReq, index, queue, delayed, pc,
                       job, attempt, outcome, created, late>>
    BY <1>12 DEF Done, CGoto, RequestFails
  <2>2. OwnersApart'
    BY <2>1, Maps DEF Inv, Places, OwnersApart
  <2>3. \A i \in Jobs : Apart(i)'
    BY <2>1, Maps DEF Inv, Places, Apart, Listed
  <2>4. \A i \in Jobs : Fresh(i)'
    BY <2>1, Maps DEF Inv, Places, Fresh, Listed
  <2>5. \A d \in Clients : ClientInv(d)'
    BY <2>1, Maps DEF Inv, ClientInv
  <2>6. /\ IsInjective(queue)'
        /\ WorkersApart'
        /\ \A v \in Workers : WorkerInv(v)'
        /\ \A i \in Jobs : JobInv(i)'
        /\ \A x \in Keys : KeyInv(x)'
    BY <2>1 DEF Inv, Places, WorkersApart, WorkerInv, JobInv, KeyInv, Listed
  <2>7. QED
    BY <2>2, <2>3, <2>4, <2>5, <2>6 DEF Inv, Places
<1>13. ASSUME NEW j \in Jobs, RequestCancel(j) PROVE Inv'
  <2>1. \A i \in Jobs : JobInv(i)'
    BY <1>13, Maps DEF Inv, JobInv, Listed, RequestCancel
  <2>2. /\ IsInjective(queue)'
        /\ WorkersApart'
        /\ OwnersApart'
        /\ \A i \in Jobs : Apart(i)'
        /\ \A i \in Jobs : Fresh(i)'
        /\ \A v \in Workers : WorkerInv(v)'
        /\ \A d \in Clients : ClientInv(d)'
        /\ \A x \in Keys : KeyInv(x)'
    BY <1>13 DEF Inv, Places, WorkersApart, OwnersApart, Apart, Fresh, WorkerInv, ClientInv,
                 KeyInv, Listed, RequestCancel
  <2>3. QED
    BY <2>1, <2>2 DEF Inv, Places
<1>14. ASSUME NEW k \in Keys, ExpireKey(k) PROVE Inv'
  <2>1. \A i \in Jobs : Fresh(i)'
    BY <1>14, Maps DEF Inv, Places, Fresh, Listed, ExpireKey
  <2>2. \A x \in Keys : KeyInv(x)'
    BY <1>14, Maps DEF Inv, KeyInv, ExpireKey
  <2>3. /\ IsInjective(queue)'
        /\ WorkersApart'
        /\ OwnersApart'
        /\ \A i \in Jobs : Apart(i)'
        /\ \A v \in Workers : WorkerInv(v)'
        /\ \A d \in Clients : ClientInv(d)'
        /\ \A i \in Jobs : JobInv(i)'
    BY <1>14 DEF Inv, Places, WorkersApart, OwnersApart, Apart, WorkerInv, ClientInv, JobInv,
                 Listed, ExpireKey
  <2>4. QED
    BY <2>1, <2>2, <2>3 DEF Inv, Places
<1>15. ASSUME NEW j \in Jobs, ExpireJob(j) PROVE Inv'
  <2>1. \A i \in Jobs : Fresh(i)'
    BY <1>15, Maps DEF Inv, Places, Fresh, Listed, ExpireJob, UpdateStatus, SetError
  <2>2. \A v \in Workers : WorkerInv(v)'
    BY <1>15, Maps DEF Inv, WorkerInv, ExpireJob, UpdateStatus, SetError
  <2>3. \A d \in Clients : ClientInv(d)'
    BY <1>15, Maps DEF Inv, ClientInv, ExpireJob, UpdateStatus, SetError
  <2>4. \A i \in Jobs : JobInv(i)'
    BY <1>15, Maps DEF Inv, JobInv, Listed, ExpireJob, UpdateStatus, SetError
  <2>5. \A x \in Keys : KeyInv(x)'
    BY <1>15, Maps DEF Inv, KeyInv, ExpireJob, UpdateStatus, SetError
  <2>6. /\ IsInjective(queue)'
        /\ WorkersApart'
        /\ OwnersApart'
        /\ \A i \in Jobs : Apart(i)'
    BY <1>15 DEF Inv, Places, WorkersApart, OwnersApart, Apart, Listed, ExpireJob
  <2>7. QED
    BY <2>1, <2>2, <2>3, <2>4, <2>5, <2>6 DEF Inv, Places
<1>16. ASSUME NEW j \in Jobs, BecomeDue(j) PROVE Inv'
  <2>1. /\ IsInjective(queue)'
        /\ WorkersApart'
        /\ OwnersApart'
        /\ \A i \in Jobs : Apart(i)'
        /\ \A i \in Jobs : Fresh(i)'
        /\ \A v \in Workers : WorkerInv(v)'
        /\ \A d \in Clients : ClientInv(d)'
        /\ \A i \in Jobs : JobInv(i)'
        /\ \A x \in Keys : KeyInv(x)'
    BY <1>16 DEF Inv, Places, WorkersApart, OwnersApart, Apart, Fresh, WorkerInv, ClientInv,
                 JobInv, KeyInv, Listed, BecomeDue
  <2>2. QED
    BY <2>1 DEF Inv, Places
<1>17. ASSUME NEW w \in Workers, PumpStart(w) PROVE Inv'
  <2>1. \A v \in Workers : WorkerInv(v)'
    BY <1>17, Maps DEF Inv, WorkerInv, PumpStart, Goto
  <2>2. /\ IsInjective(queue)'
        /\ WorkersApart'
        /\ OwnersApart'
        /\ \A i \in Jobs : Apart(i)'
        /\ \A i \in Jobs : Fresh(i)'
        /\ \A d \in Clients : ClientInv(d)'
        /\ \A i \in Jobs : JobInv(i)'
        /\ \A x \in Keys : KeyInv(x)'
    BY <1>17 DEF Inv, Places, WorkersApart, OwnersApart, Apart, Fresh, ClientInv, JobInv,
                 KeyInv, Listed, PumpStart
  <2>3. QED
    BY <2>1, <2>2 DEF Inv, Places
<1>18. ASSUME NEW w \in Workers, NEW j \in Jobs, PumpPop(w, j) PROVE Inv'
  <2>1. WorkersApart'
    BY <1>18, Maps DEF Inv, Places, WorkersApart, OwnersApart, Apart, Listed, PumpPop, Goto,
                       Hold
  <2>2. \A i \in Jobs : Apart(i)'
    BY <1>18, Maps DEF Inv, Places, Apart, Listed, PumpPop, Goto, Hold
  <2>3. \A i \in Jobs : Fresh(i)'
    BY <1>18, Maps DEF Inv, Places, Fresh, Listed, PumpPop, Goto, Hold
  <2>4. \A v \in Workers : WorkerInv(v)'
    BY <1>18, Maps DEF Inv, WorkerInv, JobInv, Listed, PumpPop, Goto, Hold
  <2>5. \A i \in Jobs : JobInv(i)'
    BY <1>18, Maps DEF Inv, JobInv, Listed, PumpPop, Goto, Hold
  <2>6. /\ IsInjective(queue)'
        /\ OwnersApart'
        /\ \A d \in Clients : ClientInv(d)'
        /\ \A x \in Keys : KeyInv(x)'
    BY <1>18 DEF Inv, Places, OwnersApart, ClientInv, KeyInv, Listed, PumpPop
  <2>7. QED
    BY <2>1, <2>2, <2>3, <2>4, <2>5, <2>6 DEF Inv, Places
<1>19. ASSUME NEW w \in Workers, PumpDone(w) PROVE Inv'
  <2>1. \A v \in Workers : WorkerInv(v)'
    BY <1>19, Maps DEF Inv, WorkerInv, PumpDone, PumpReturns, Goto
  <2>2. /\ IsInjective(queue)'
        /\ WorkersApart'
        /\ OwnersApart'
        /\ \A i \in Jobs : Apart(i)'
        /\ \A i \in Jobs : Fresh(i)'
        /\ \A d \in Clients : ClientInv(d)'
        /\ \A i \in Jobs : JobInv(i)'
        /\ \A x \in Keys : KeyInv(x)'
    BY <1>19 DEF Inv, Places, WorkersApart, OwnersApart, Apart, Fresh, ClientInv, JobInv,
                 KeyInv, Listed, PumpDone
  <2>3. QED
    BY <2>1, <2>2 DEF Inv, Places
<1>20. ASSUME NEW w \in Workers, PumpPush(w) PROVE Inv'
  <2>1. job[w] \in Jobs /\ job[w] # NoJob
    BY <1>20, InHand DEF PumpPush
  <2>2. /\ pc[w] = "popped" /\ pc' = [pc EXCEPT ![w] = "pump"] /\ job' = [job EXCEPT ![w] = NoJob]
        /\ Listed' = Listed \union {job[w]}
        /\ IsInjective(queue) /\ job[w] \notin Listed => IsInjective(queue)'
        /\ UNCHANGED <<status, attempts, result, error, cancelReq, index, delayed, cpc, cjob,
                       reused, attempt, outcome, created, late>>
    BY <1>20, <2>1, Pushed DEF PumpPush, Hold, Goto, TypeOK, QueueType, Listed
  <2>3. IsInjective(queue)'
    BY <2>2, <2>1, Maps DEF Inv, Places, Apart, Listed
  <2>4. WorkersApart'
    BY <2>2, <2>1, Maps DEF Inv, Places, WorkersApart
  <2>5. \A i \in Jobs : Apart(i)'
    BY <2>2, <2>1, Maps DEF Inv, Places, WorkersApart, OwnersApart, Apart, Listed
  <2>6. \A i \in Jobs : Fresh(i)'
    BY <2>2, <2>1, Maps DEF Inv, Places, Fresh, Listed
  <2>7. \A v \in Workers : WorkerInv(v)'
    BY <2>2, <2>1, Maps DEF Inv, WorkerInv
  <2>8. \A i \in Jobs : JobInv(i)'
    BY <2>2, <2>1, Maps DEF Inv, WorkerInv, JobInv, Listed
  <2>9. /\ OwnersApart'
        /\ \A d \in Clients : ClientInv(d)'
        /\ \A x \in Keys : KeyInv(x)'
    BY <2>2 DEF Inv, Places, OwnersApart, ClientInv, KeyInv, Listed
  <2>10. QED
    BY <2>3, <2>4, <2>5, <2>6, <2>7, <2>8, <2>9 DEF Inv, Places
<1>21. ASSUME NEW w \in Workers, PumpBack(w) PROVE Inv'
  <2>1. job[w] \in Jobs /\ job[w] # NoJob
    BY <1>21, InHand DEF PumpBack
  <2>2. WorkersApart'
    BY <1>21, <2>1, Maps DEF Inv, Places, WorkersApart, PumpBack, Hold, PumpReturns, Goto
  <2>3. \A i \in Jobs : Apart(i)'
    BY <1>21, <2>1, Maps DEF Inv, Places, WorkersApart, OwnersApart, Apart, Listed, PumpBack,
                             Hold, PumpReturns, Goto
  <2>4. \A i \in Jobs : Fresh(i)'
    BY <1>21, <2>1, Maps DEF Inv, Places, Fresh, Listed, PumpBack, Hold, PumpReturns, Goto
  <2>5. \A v \in Workers : WorkerInv(v)'
    BY <1>21, <2>1, Maps DEF Inv, WorkerInv, PumpBack, Hold, PumpReturns, Goto
  <2>6. \A i \in Jobs : JobInv(i)'
    BY <1>21, <2>1, Maps DEF Inv, WorkerInv, JobInv, Listed, PumpBack, Hold, PumpReturns, Goto
  <2>7. /\ IsInjective(queue)'
        /\ OwnersApart'
        /\ \A d \in Clients : ClientInv(d)'
        /\ \A x \in Keys : KeyInv(x)'
    BY <1>21 DEF Inv, Places, OwnersApart, ClientInv, KeyInv, Listed, PumpBack
  <2>8. QED
    BY <2>2, <2>3, <2>4, <2>5, <2>6, <2>7 DEF Inv, Places
<1>22. ASSUME NEW w \in Workers, Dequeue(w) PROVE Inv'
  <2>1. /\ pc[w] = "dequeue" /\ pc' = [pc EXCEPT ![w] = "claimed"]
        /\ job' = [job EXCEPT ![w] = Head(queue)]
        /\ Head(queue) \in Listed /\ Listed' = Listed \ {Head(queue)} /\ IsInjective(queue)'
        /\ Head(queue) \in Jobs
        /\ UNCHANGED <<status, attempts, result, error, cancelReq, index, delayed, cpc, cjob,
                       reused, attempt, outcome, created, late>>
    BY <1>22, Popped DEF Dequeue, PopJob, Hold, Goto, TypeOK, QueueType, Listed, Inv, Places
  <2>2. IsInjective(queue)'
    BY <2>1, Maps DEF Inv, Places
  <2>3. WorkersApart'
    BY <2>1, Maps DEF Inv, Places, WorkersApart, OwnersApart, Apart, Listed
  <2>4. \A i \in Jobs : Apart(i)'
    BY <2>1, Maps DEF Inv, Places, Apart, Listed
  <2>5. \A i \in Jobs : Fresh(i)'
    BY <2>1, Maps DEF Inv, Places, Fresh, Listed
  <2>6. \A v \in Workers : WorkerInv(v)'
    BY <2>1, Maps DEF Inv, WorkerInv, JobInv, Listed
  <2>7. \A i \in Jobs : JobInv(i)'
    BY <2>1, Maps DEF Inv, JobInv
  <2>8. /\ OwnersApart'
        /\ \A d \in Clients : ClientInv(d)'
        /\ \A x \in Keys : KeyInv(x)'
    BY <2>1 DEF Inv, Places, OwnersApart, ClientInv, KeyInv, Listed
  <2>9. QED
    BY <2>2, <2>3, <2>4, <2>5, <2>6, <2>7, <2>8 DEF Inv, Places
<1>23. ASSUME NEW w \in Workers, DequeueTimesOut(w) PROVE Inv'
  <2>1. \A v \in Workers : WorkerInv(v)'
    BY <1>23, Maps DEF Inv, WorkerInv, DequeueTimesOut, Goto
  <2>2. /\ IsInjective(queue)'
        /\ WorkersApart'
        /\ OwnersApart'
        /\ \A i \in Jobs : Apart(i)'
        /\ \A i \in Jobs : Fresh(i)'
        /\ \A d \in Clients : ClientInv(d)'
        /\ \A i \in Jobs : JobInv(i)'
        /\ \A x \in Keys : KeyInv(x)'
    BY <1>23 DEF Inv, Places, WorkersApart, OwnersApart, Apart, Fresh, ClientInv, JobInv,
                 KeyInv, Listed, DequeueTimesOut
  <2>3. QED
    BY <2>1, <2>2 DEF Inv, Places
<1>24. ASSUME NEW w \in Workers, ReadJob(w) PROVE Inv'
  <2>1. job[w] \in Jobs /\ job[w] # NoJob
    BY <1>24, InHand DEF ReadJob
  <2>2. CASE status[job[w]] = "expired"
    <3>1. /\ pc' = [pc EXCEPT ![w] = "idle"] /\ job' = [job EXCEPT ![w] = NoJob]
          /\ attempt' = [attempt EXCEPT ![w] = 0] /\ outcome' = [outcome EXCEPT ![w] = "none"]
          /\ UNCHANGED <<status, attempts, result, error, cancelReq, index, queue, delayed, cpc,
                         cjob, reused, created, late>>
      BY <1>24, <2>2 DEF Return, Goto, Hold, ReadJob
    <3>2. WorkersApart'
      BY <3>1, <2>1, <2>2, Maps DEF Inv, Places, WorkersApart
    <3>3. \A i \in Jobs : Apart(i)'
      BY <3>1, <2>1, <2>2, Maps DEF Inv, Places, Apart, Listed
    <3>4. \A i \in Jobs : Fresh(i)'
      BY <3>1, <2>1, <2>2, Maps DEF Inv, Places, Fresh, Listed
    <3>5. \A v \in Workers : WorkerInv(v)'
      BY <3>1, <2>1, <2>2, Maps DEF Inv, WorkerInv
    <3>6. /\ IsInjective(queue)'
          /\ OwnersApart'
          /\ \A d \in Clients : ClientInv(d)'
          /\ \A i \in Jobs : JobInv(i)'
          /\ \A x \in Keys : KeyInv(x)'
      BY <3>1 DEF Inv, Places, OwnersApart, ClientInv, JobInv, KeyInv, Listed
    <3>7. QED
      BY <3>2, <3>3, <3>4, <3>5, <3>6 DEF Inv, Places
  <2>3. CASE status[job[w]] # "expired"
    <3>1. /\ pc[w] = "claimed" /\ pc' = [pc EXCEPT ![w] = UnlessCancelled(job[w])]
          /\ UNCHANGED <<status, attempts, result, error, cancelReq, index, queue, delayed, cpc,
                         cjob, reused, job, attempt, outcome, created, late>>
      BY <1>24, <2>3 DEF ReadJob, Goto
    <3>2. \A v \in Workers : WorkerInv(v)'
      BY <3>1, <2>1, <2>3, Maps DEF Inv, WorkerInv, JobInv, Listed, UnlessCancelled
    <3>3. /\ IsInjective(queue)'
          /\ WorkersApart'
          /\ OwnersApart'
          /\ \A i \in Jobs : Apart(i)'
          /\ \A i \in Jobs : Fresh(i)'
          /\ \A d \in Clients : ClientInv(d)'
          /\ \A i \in Jobs : JobInv(i)'
          /\ \A x \in Keys : KeyInv(x)'
      BY <3>1 DEF Inv, Places, WorkersApart, OwnersApart, Apart, Fresh, ClientInv, JobInv,
                  KeyInv, Listed
    <3>4. QED
      BY <3>2, <3>3 DEF Inv, Places
  <2>4. QED
    BY <1>24, <2>2, <2>3
<1>25. ASSUME NEW w \in Workers, WriteCancelled(w) PROVE Inv'
  <2>1. job[w] \in Jobs /\ job[w] # NoJob
    BY <1>25, InHand DEF WriteCancelled
  <2>2. /\ status' = [status EXCEPT ![job[w]] = "cancelled"]
        /\ pc' = [pc EXCEPT ![w] = "idle"] /\ job' = [job EXCEPT ![w] = NoJob]
        /\ attempt' = [attempt EXCEPT ![w] = 0] /\ outcome' = [outcome EXCEPT ![w] = "none"]
        /\ UNCHANGED <<attempts, result, error, cancelReq, index, queue, delayed, cpc, cjob,
                       reused, created, late>>
    BY <1>25 DEF Return, Goto, Hold, WriteCancelled, UpdateStatus
  <2>3. WorkersApart'
    BY <2>2, <2>1, <1>25, Maps DEF Inv, Places, WorkersApart, WriteCancelled
  <2>4. \A i \in Jobs : Apart(i)'
    BY <2>2, <2>1, <1>25, Maps DEF Inv, Places, Apart, Listed, WriteCancelled
  <2>5. \A i \in Jobs : Fresh(i)'
    BY <2>2, <2>1, <1>25, Maps DEF Inv, Places, Fresh, Listed, WriteCancelled
  <2>6. \A v \in Workers : WorkerInv(v)'
    BY <2>2, <2>1, <1>25, Maps DEF Inv, WorkerInv, WriteCancelled
  <2>7. \A d \in Clients : ClientInv(d)'
    BY <2>2, <2>1, <1>25, Maps DEF Inv, ClientInv, WriteCancelled
  <2>8. \A i \in Jobs : JobInv(i)'
    BY <2>2, <2>1, <1>25, Maps DEF Inv, WorkerInv, JobInv, Listed, WriteCancelled
  <2>9. \A x \in Keys : KeyInv(x)'
    BY <2>2, <2>1, <1>25, Maps DEF Inv, KeyInv, WriteCancelled
  <2>10. /\ IsInjective(queue)'
         /\ OwnersApart'
    BY <2>2 DEF Inv, Places, OwnersApart, Listed
  <2>11. QED
    BY <2>3, <2>4, <2>5, <2>6, <2>7, <2>8, <2>9, <2>10 DEF Inv, Places
<1>26. ASSUME NEW w \in Workers, MarkRunning(w) PROVE Inv'
  <2>1. job[w] \in Jobs /\ job[w] # NoJob
    BY <1>26, InHand DEF MarkRunning
  <2>2. \A i \in Jobs : Fresh(i)'
    BY <1>26, <2>1, Maps DEF Inv, Places, Fresh, Listed, MarkRunning, UpdateStatus, Goto
  <2>3. \A v \in Workers : WorkerInv(v)'
    BY <1>26, <2>1, Maps DEF Inv, WorkerInv, MarkRunning, UpdateStatus, Goto
  <2>4. \A d \in Clients : ClientInv(d)'
    BY <1>26, <2>1, Maps DEF Inv, ClientInv, MarkRunning, UpdateStatus, Goto
  <2>5. \A i \in Jobs : JobInv(i)'
    BY <1>26, <2>1, Maps DEF Inv, WorkerInv, JobInv, Listed, MarkRunning, UpdateStatus, Goto
  <2>6. \A x \in Keys : KeyInv(x)'
    BY <1>26, <2>1, Maps DEF Inv, KeyInv, MarkRunning, UpdateStatus, Goto
  <2>7. /\ IsInjective(queue)'
        /\ WorkersApart'
        /\ OwnersApart'
        /\ \A i \in Jobs : Apart(i)'
    BY <1>26 DEF Inv, Places, WorkersApart, OwnersApart, Apart, Listed, MarkRunning
  <2>8. QED
    BY <2>2, <2>3, <2>4, <2>5, <2>6, <2>7 DEF Inv, Places
<1>27. ASSUME NEW w \in Workers, CountAttempt(w) PROVE Inv'
  <2>1. job[w] \in Jobs /\ job[w] # NoJob
    BY <1>27, InHand DEF CountAttempt
  <2>2. \A i \in Jobs : Fresh(i)'
    BY <1>27, <2>1, Maps DEF Inv, Places, Fresh, Listed, CountAttempt, Goto
  <2>3. \A v \in Workers : WorkerInv(v)'
    BY <1>27, <2>1, Maps DEF Inv, Places, WorkersApart, WorkerInv, CountAttempt, Goto
  <2>4. \A d \in Clients : ClientInv(d)'
    BY <1>27, <2>1, Maps DEF Inv, Places, Apart, ClientInv, CountAttempt, Goto
  <2>5. \A i \in Jobs : JobInv(i)'
    BY <1>27, <2>1, Maps DEF Inv, Places, Apart, WorkerInv, JobInv, Listed, CountAttempt, Goto
  <2>6. /\ IsInjective(queue)'
        /\ WorkersApart'
        /\ OwnersApart'
        /\ \A i \in Jobs : Apart(i)'
        /\ \A x \in Keys : KeyInv(x)'
    BY <1>27 DEF Inv, Places, WorkersApart, OwnersApart, Apart, KeyInv, Listed, CountAttempt
  <2>7. QED
    BY <2>2, <2>3, <2>4, <2>5, <2>6 DEF Inv, Places
<1>28. ASSUME NEW w \in Workers, NEW o \in Outcomes, AgentEnds(w, o) PROVE Inv'
  <2>1. job[w] \in Jobs /\ job[w] # NoJob
    BY <1>28, InHand DEF AgentEnds
  <2>2. \A v \in Workers : WorkerInv(v)'
    BY <1>28, <2>1, Maps DEF Inv, WorkerInv, AgentEnds, MayRetry, Goto
  <2>3. /\ IsInjective(queue)'
        /\ WorkersApart'
        /\ OwnersApart'
        /\ \A i \in Jobs : Apart(i)'
        /\ \A i \in Jobs : Fresh(i)'
        /\ \A d \in Clients : ClientInv(d)'
        /\ \A i \in Jobs : JobInv(i)'
        /\ \A x \in Keys : KeyInv(x)'
    BY <1>28 DEF Inv, Places, WorkersApart, OwnersApart, Apart, Fresh, ClientInv, JobInv,
                 KeyInv, Listed, AgentEnds
  <2>4. QED
    BY <2>2, <2>3 DEF Inv, Places
<1>29. ASSUME NEW w \in Workers, RecordOutcome(w) PROVE Inv'
  <2>1. job[w] \in Jobs /\ job[w] # NoJob
    BY <1>29, InHand DEF RecordOutcome
  <2>2. CASE outcome[w] = "ok"
    <3>1. /\ pc[w] = "record" /\ pc' = [pc EXCEPT ![w] = "status"]
          /\ result' = result \union {job[w]}
          /\ UNCHANGED <<status, attempts, error, cancelReq, index, queue, delayed, cpc, cjob,
                         reused, job, attempt, outcome, created, late>>
      BY <1>29, <2>2 DEF RecordOutcome, SetResult, Goto
    <3>2. \A v \in Workers : WorkerInv(v)'
      BY <3>1, <2>1, <2>2, Maps DEF Inv, WorkerInv
    <3>3. \A d \in Clients : ClientInv(d)'
      BY <3>1, <2>1, <2>2, Maps DEF Inv, ClientInv
    <3>4. \A i \in Jobs : JobInv(i)'
      BY <3>1, <2>1, <2>2, Maps DEF Inv, JobInv, Listed
    <3>5. /\ IsInjective(queue)'
          /\ WorkersApart'
          /\ OwnersApart'
          /\ \A i \in Jobs : Apart(i)'
          /\ \A i \in Jobs : Fresh(i)'
          /\ \A x \in Keys : KeyInv(x)'
      BY <3>1 DEF Inv, Places, WorkersApart, OwnersApart, Apart, Fresh, KeyInv, Listed
    <3>6. QED
      BY <3>2, <3>3, <3>4, <3>5 DEF Inv, Places
  <2>3. CASE outcome[w] # "ok"
    <3>1. /\ pc[w] = "record" /\ pc' = [pc EXCEPT ![w] = "status"]
          /\ error' = [error EXCEPT ![job[w]] = outcome[w]]
          /\ UNCHANGED <<status, attempts, result, cancelReq, index, queue, delayed, cpc, cjob,
                         reused, job, attempt, outcome, created, late>>
      BY <1>29, <2>3 DEF RecordOutcome, SetError, Goto
    <3>2. \A v \in Workers : WorkerInv(v)'
      BY <3>1, <2>1, <2>3, Maps DEF Inv, WorkerInv
    <3>3. \A d \in Clients : ClientInv(d)'
      BY <3>1, <2>1, <2>3, Maps DEF Inv, ClientInv, WorkerInv
    <3>4. \A i \in Jobs : JobInv(i)'
      BY <3>1, <2>1, <2>3, Maps DEF Inv, WorkerInv, JobInv, Listed
    <3>5. /\ IsInjective(queue)'
          /\ WorkersApart'
          /\ OwnersApart'
          /\ \A i \in Jobs : Apart(i)'
          /\ \A i \in Jobs : Fresh(i)'
          /\ \A x \in Keys : KeyInv(x)'
      BY <3>1 DEF Inv, Places, WorkersApart, OwnersApart, Apart, Fresh, KeyInv, Listed
    <3>6. QED
      BY <3>2, <3>3, <3>4, <3>5 DEF Inv, Places
  <2>4. QED
    BY <1>29, <2>2, <2>3
<1>30. ASSUME NEW w \in Workers, WriteStatus(w) PROVE Inv'
  <2>1. job[w] \in Jobs /\ job[w] # NoJob
    BY <1>30, InHand DEF WriteStatus
  <2>2. CASE outcome[w] = "ok"
    <3>1. /\ pc[w] = "status" /\ status' = [status EXCEPT ![job[w]] = "succeeded"]
          /\ pc' = [pc EXCEPT ![w] = "idle"] /\ job' = [job EXCEPT ![w] = NoJob]
          /\ attempt' = [attempt EXCEPT ![w] = 0] /\ outcome' = [outcome EXCEPT ![w] = "none"]
          /\ UNCHANGED <<attempts, result, error, cancelReq, index, queue, delayed, cpc, cjob,
                         reused, created, late>>
      BY <1>30, <2>2 DEF Return, Goto, Hold, WriteStatus, UpdateStatus
    <3>2. WorkersApart'
      BY <3>1, <2>1, <2>2, Maps DEF Inv, Places, WorkersApart
    <3>3. \A i \in Jobs : Apart(i)'
      BY <3>1, <2>1, <2>2, Maps DEF Inv, Places, Apart, Listed
    <3>4. \A i \in Jobs : Fresh(i)'
      BY <3>1, <2>1, <2>2, Maps DEF Inv, Places, Fresh, Listed
    <3>5. \A v \in Workers : WorkerInv(v)'
      BY <3>1, <2>1, <2>2, Maps DEF Inv, WorkerInv
    <3>6. \A d \in Clients : ClientInv(d)'
      BY <3>1, <2>1, <2>2, Maps DEF Inv, ClientInv
    <3>7. \A i \in Jobs : JobInv(i)'
      BY <3>1, <2>1, <2>2, Maps DEF Inv, WorkerInv, JobInv, Listed
    <3>8. \A x \in Keys : KeyInv(x)'
      BY <3>1, <2>1, <2>2, Maps DEF Inv, KeyInv
    <3>9. /\ IsInjective(queue)'
          /\ OwnersApart'
      BY <3>1 DEF Inv, Places, OwnersApart, Listed
    <3>10. QED
      BY <3>2, <3>3, <3>4, <3>5, <3>6, <3>7, <3>8, <3>9 DEF Inv, Places
  <2>3. CASE outcome[w] \in Failures
    <3>1. /\ pc[w] = "status" /\ status' = [status EXCEPT ![job[w]] = "failed"]
          /\ pc' = [pc EXCEPT ![w] = "idle"] /\ job' = [job EXCEPT ![w] = NoJob]
          /\ attempt' = [attempt EXCEPT ![w] = 0] /\ outcome' = [outcome EXCEPT ![w] = "none"]
          /\ UNCHANGED <<attempts, result, error, cancelReq, index, queue, delayed, cpc, cjob,
                         reused, created, late>>
      BY <1>30, <2>3 DEF Return, Goto, Hold, WriteStatus, UpdateStatus
    <3>2. WorkersApart'
      BY <3>1, <2>1, <2>3, Maps DEF Inv, Places, WorkersApart
    <3>3. \A i \in Jobs : Apart(i)'
      BY <3>1, <2>1, <2>3, Maps DEF Inv, Places, Apart, Listed
    <3>4. \A i \in Jobs : Fresh(i)'
      BY <3>1, <2>1, <2>3, Maps DEF Inv, Places, Fresh, Listed
    <3>5. \A v \in Workers : WorkerInv(v)'
      BY <3>1, <2>1, <2>3, Maps DEF Inv, WorkerInv
    <3>6. \A d \in Clients : ClientInv(d)'
      BY <3>1, <2>1, <2>3, Maps DEF Inv, ClientInv
    <3>7. \A i \in Jobs : JobInv(i)'
      BY <3>1, <2>1, <2>3, Maps DEF Inv, WorkerInv, JobInv, Listed
    <3>8. \A x \in Keys : KeyInv(x)'
      BY <3>1, <2>1, <2>3, Maps DEF Inv, KeyInv
    <3>9. /\ IsInjective(queue)'
          /\ OwnersApart'
      BY <3>1 DEF Inv, Places, OwnersApart, Listed
    <3>10. QED
      BY <3>2, <3>3, <3>4, <3>5, <3>6, <3>7, <3>8, <3>9 DEF Inv, Places
  <2>4. CASE outcome[w] = "retry_scheduled"
    <3>1. /\ pc[w] = "status" /\ status' = [status EXCEPT ![job[w]] = "queued"]
          /\ pc' = [pc EXCEPT ![w] = "schedule"]
          /\ UNCHANGED <<attempts, result, error, cancelReq, index, queue, delayed, cpc, cjob,
                         reused, job, attempt, outcome, created, late>>
      BY <1>30, <2>4 DEF WriteStatus, UpdateStatus, Goto
    <3>2. \A i \in Jobs : Fresh(i)'
      BY <3>1, <2>1, <2>4, Maps DEF Inv, Places, Fresh, Listed
    <3>3. \A v \in Workers : WorkerInv(v)'
      BY <3>1, <2>1, <2>4, Maps DEF Inv, WorkerInv
    <3>4. \A d \in Clients : ClientInv(d)'
      BY <3>1, <2>1, <2>4, Maps DEF Inv, ClientInv
    <3>5. \A i \in Jobs : JobInv(i)'
      BY <3>1, <2>1, <2>4, Maps DEF Inv, WorkerInv, JobInv, Listed
    <3>6. \A x \in Keys : KeyInv(x)'
      BY <3>1, <2>1, <2>4, Maps DEF Inv, KeyInv
    <3>7. /\ IsInjective(queue)'
          /\ WorkersApart'
          /\ OwnersApart'
          /\ \A i \in Jobs : Apart(i)'
      BY <3>1 DEF Inv, Places, WorkersApart, OwnersApart, Apart, Listed
    <3>8. QED
      BY <3>2, <3>3, <3>4, <3>5, <3>6, <3>7 DEF Inv, Places
  <2>5. QED
    BY <1>30, <2>2, <2>3, <2>4 DEF WriteStatus
<1>31. ASSUME NEW w \in Workers, ScheduleDelayed(w) PROVE Inv'
  <2>1. job[w] \in Jobs /\ job[w] # NoJob
    BY <1>31, InHand DEF ScheduleDelayed
  <2>2. /\ pc[w] = "schedule" /\ delayed' = delayed \union {job[w]}
        /\ pc' = [pc EXCEPT ![w] = "idle"] /\ job' = [job EXCEPT ![w] = NoJob]
        /\ attempt' = [attempt EXCEPT ![w] = 0] /\ outcome' = [outcome EXCEPT ![w] = "none"]
        /\ UNCHANGED <<status, attempts, result, error, cancelReq, index, queue, cpc, cjob,
                       reused, created, late>>
    BY <1>31 DEF Return, Goto, Hold, ScheduleDelayed, Delay
  <2>3. WorkersApart'
    BY <2>2, <2>1, Maps DEF Inv, Places, WorkersApart
  <2>4. \A i \in Jobs : Apart(i)'
    BY <2>2, <2>1, Maps DEF Inv, Places, WorkersApart, OwnersApart, Apart, Listed
  <2>5. \A i \in Jobs : Fresh(i)'
    BY <2>2, <2>1, Maps DEF Inv, Places, Fresh, Listed
  <2>6. \A v \in Workers : WorkerInv(v)'
    BY <2>2, <2>1, Maps DEF Inv, WorkerInv
  <2>7. \A i \in Jobs : JobInv(i)'
    BY <2>2, <2>1, Maps DEF Inv, WorkerInv, JobInv, Listed
  <2>8. /\ IsInjective(queue)'
        /\ OwnersApart'
        /\ \A d \in Clients : ClientInv(d)'
        /\ \A x \in Keys : KeyInv(x)'
    BY <2>2 DEF Inv, Places, OwnersApart, ClientInv, KeyInv, Listed
  <2>9. QED
    BY <2>3, <2>4, <2>5, <2>6, <2>7, <2>8 DEF Inv, Places
<1>32. ASSUME NEW w \in Workers, Abandon(w) PROVE Inv'
  <2>1. /\ pc' = [pc EXCEPT ![w] = "idle"] /\ job' = [job EXCEPT ![w] = NoJob]
        /\ attempt' = [attempt EXCEPT ![w] = 0] /\ outcome' = [outcome EXCEPT ![w] = "none"]
        /\ UNCHANGED <<status, attempts, result, error, cancelReq, index, queue, delayed, cpc,
                       cjob, reused, created, late>>
    BY <1>32 DEF Return, Goto, Hold, Abandon
  <2>2. WorkersApart'
    BY <2>1, Maps DEF Inv, Places, WorkersApart
  <2>3. \A i \in Jobs : Apart(i)'
    BY <2>1, Maps DEF Inv, Places, Apart, Listed
  <2>4. \A i \in Jobs : Fresh(i)'
    BY <2>1, Maps DEF Inv, Places, Fresh, Listed
  <2>5. \A v \in Workers : WorkerInv(v)'
    BY <2>1, Maps DEF Inv, WorkerInv
  <2>6. /\ IsInjective(queue)'
        /\ OwnersApart'
        /\ \A d \in Clients : ClientInv(d)'
        /\ \A i \in Jobs : JobInv(i)'
        /\ \A x \in Keys : KeyInv(x)'
    BY <2>1 DEF Inv, Places, OwnersApart, ClientInv, JobInv, KeyInv, Listed
  <2>7. QED
    BY <2>2, <2>3, <2>4, <2>5, <2>6 DEF Inv, Places
<1>33. CASE UNCHANGED vars
  BY <1>33 DEF Inv, Places, WorkersApart, OwnersApart, Apart, Fresh, WorkerInv, ClientInv,
               JobInv, KeyInv, Listed, vars
<1>34. QED
  BY <1>1, <1>2, <1>3, <1>4, <1>5, <1>6, <1>7, <1>8, <1>9, <1>10, <1>11, <1>12, <1>13, <1>14,
     <1>15, <1>16, <1>17, <1>18, <1>19, <1>20, <1>21, <1>22, <1>23, <1>24, <1>25, <1>26, <1>27,
     <1>28, <1>29, <1>30, <1>31, <1>32, <1>33
     DEF Next, ClientStep, WorkerStep, AgentStep

-----------------------------------------------------------------------------
(* The only writer *)

\* Without a sandbox the branch of consumer_api that writes a status is never taken.
LEMMA OneWriterInductive == TypeOK /\ Inv /\ OneWriter /\ [Next]_vars => OneWriter'
<1> USE DEF hashVars, queueVars, clientVars, workerVars, history, Statuses, Terminal, Failures,
            Outcomes, AllStatuses, Errors, Jobless, SandboxPcs, Handless, Early, Executed
<1> SUFFICES ASSUME TypeOK, Inv, OneWriter, [Next]_vars, ~ Sandbox PROVE Solo'
  BY DEF OneWriter
<1>0. Solo
  BY DEF OneWriter
<1>1. ASSUME NEW c \in Clients, NEW k \in Keys \union {NoKey}, NEW waits \in BOOLEAN,
             Lookup(c, k, waits)
      PROVE  Solo'
  <2>1. CASE k \in Keys /\ index[k] # NoJob
    <3>1. /\ cpc[c] = "idle" /\ cpc' = [cpc EXCEPT ![c] = Routed]
          /\ cjob' = [cjob EXCEPT ![c] = index[k]] /\ reused' = [reused EXCEPT ![c] = TRUE]
          /\ Routed \in {"route", "enqueue"} /\ index[k] \in Jobs
          /\ UNCHANGED <<status, attempts, result, error, cancelReq, index, queue, delayed, pc,
                         job, attempt, outcome, created, late>>
      BY <1>1, <2>1 DEF TypeOK, ClientType, QueueType, Lookup, CGoto, Routed
    <3>2. \A d \in Clients : ClientSolo(d)'
      BY <1>0, <3>1, <2>1, Maps DEF Solo, ClientSolo
    <3>3. /\ WaitingSolo'
          /\ \A v \in Workers : WorkerSolo(v)'
          /\ \A i \in Jobs : JobSolo(i)'
      BY <1>0, <3>1 DEF Solo, WaitingSolo, WorkerSolo, JobSolo, Listed
    <3>4. QED
      BY <3>2, <3>3 DEF Solo
  <2>2. CASE ~ (k \in Keys /\ index[k] # NoJob)
    <3>1. /\ cpc[c] = "idle" /\ cpc' = [cpc EXCEPT ![c] = "create"]
          /\ UNCHANGED <<status, attempts, result, error, cancelReq, index, queue, delayed,
                         cjob, reused, pc, job, attempt, outcome, created, late>>
      BY <1>1, <2>2 DEF Lookup, CGoto
    <3>2. /\ WaitingSolo'
          /\ \A v \in Workers : WorkerSolo(v)'
          /\ \A d \in Clients : ClientSolo(d)'
          /\ \A i \in Jobs : JobSolo(i)'
      BY <1>0, <3>1 DEF Solo, WaitingSolo, WorkerSolo, ClientSolo, JobSolo, Listed
    <3>3. QED
      BY <3>2 DEF Solo
  <2>3. QED
    BY <1>1, <2>1, <2>2
<1>2. ASSUME NEW c \in Clients, NEW j \in Jobs, Create(c, j) PROVE Solo'
  <2>1. WaitingSolo'
    BY <1>0, <1>2, Maps DEF Solo, WaitingSolo, Listed, Create, UpdateStatus, SetIndex, CGoto,
                            Routed
  <2>2. \A v \in Workers : WorkerSolo(v)'
    BY <1>0, <1>2, Maps DEF Solo, WorkerSolo, Create, UpdateStatus, SetIndex, CGoto, Routed
  <2>3. \A d \in Clients : ClientSolo(d)'
    BY <1>0, <1>2, Maps DEF Solo, ClientSolo, Create, UpdateStatus, SetIndex, CGoto, Routed
  <2>4. \A i \in Jobs : JobSolo(i)'
    BY <1>0, <1>2, Maps DEF Solo, JobSolo, Create, UpdateStatus, SetIndex, CGoto, Routed
  <2>5. QED
    BY <2>1, <2>2, <2>3, <2>4 DEF Solo
<1>3. ASSUME NEW c \in Clients, SandboxStart(c) PROVE Solo'
  BY <1>3 DEF TypeOK, ClientType, SandboxStart
<1>4. ASSUME NEW c \in Clients, SandboxAnswers(c) PROVE Solo'
  BY <1>4 DEF TypeOK, ClientType, SandboxAnswers
<1>5. ASSUME NEW c \in Clients, SandboxResult(c) PROVE Solo'
  BY <1>5 DEF TypeOK, ClientType, SandboxResult
<1>6. ASSUME NEW c \in Clients, SandboxSucceed(c) PROVE Solo'
  BY <1>6 DEF TypeOK, ClientType, SandboxSucceed
<1>7. ASSUME NEW c \in Clients, SandboxRaises(c) PROVE Solo'
  BY <1>7 DEF TypeOK, ClientType, SandboxRaises
<1>8. ASSUME NEW c \in Clients, SandboxError(c) PROVE Solo'
  BY <1>8 DEF TypeOK, ClientType, SandboxError
<1>9. ASSUME NEW c \in Clients, SandboxFail(c) PROVE Solo'
  BY <1>9 DEF TypeOK, ClientType, SandboxFail
<1>10. ASSUME NEW c \in Clients, SandboxReply(c) PROVE Solo'
  BY <1>10 DEF TypeOK, ClientType, SandboxReply
<1>11. ASSUME NEW c \in Clients, Enqueue(c) PROVE Solo'
  <2>1. cjob[c] \in Jobs /\ cjob[c] # NoJob
    BY <1>11, Carried DEF Enqueue
  <2>2. CASE reused[c]
    <3>1. /\ cpc' = [cpc EXCEPT ![c] = "idle"] /\ cjob' = [cjob EXCEPT ![c] = NoJob]
          /\ reused' = [reused EXCEPT ![c] = FALSE]
          /\ UNCHANGED <<status, attempts, result, error, cancelReq, index, queue, delayed, pc,
                         job, attempt, outcome, created, late>>
      BY <1>11, <2>2 DEF Done, CGoto, Enqueue, PushUnlessReused
    <3>2. \A d \in Clients : ClientSolo(d)'
      BY <1>0, <3>1, <2>1, <2>2, Maps DEF Solo, ClientSolo
    <3>3. /\ WaitingSolo'
          /\ \A v \in Workers : WorkerSolo(v)'
          /\ \A i \in Jobs : JobSolo(i)'
      BY <1>0, <3>1 DEF Solo, WaitingSolo, WorkerSolo, JobSolo, Listed
    <3>4. QED
      BY <3>2, <3>3 DEF Solo
  <2>3. CASE ~ reused[c]
    <3>1. /\ cpc' = [cpc EXCEPT ![c] = "idle"] /\ cjob' = [cjob EXCEPT ![c] = NoJob]
          /\ reused' = [reused EXCEPT ![c] = FALSE]
          /\ Listed' = Listed \union {cjob[c]}
          /\ IsInjective(queue) /\ cjob[c] \notin Listed => IsInjective(queue)'
          /\ UNCHANGED <<status, attempts, result, error, cancelReq, index, delayed, pc, job,
                         attempt, outcome, created, late>>
      BY <1>11, <2>3, <2>1, Pushed
         DEF Done, CGoto, Enqueue, PushUnlessReused, TypeOK, QueueType, Listed
    <3>2. WaitingSolo'
      BY <1>0, <3>1, <2>1, <2>3, Maps DEF Solo, WaitingSolo, ClientSolo, Listed
    <3>3. \A d \in Clients : ClientSolo(d)'
      BY <1>0, <3>1, <2>1, <2>3, Maps DEF Solo, ClientSolo
    <3>4. /\ \A v \in Workers : WorkerSolo(v)'
          /\ \A i \in Jobs : JobSolo(i)'
      BY <1>0, <3>1 DEF Solo, WorkerSolo, JobSolo, Listed
    <3>5. QED
      BY <3>2, <3>3, <3>4 DEF Solo
  <2>4. QED
    BY <1>11, <2>2, <2>3
<1>12. ASSUME NEW c \in Clients, RequestFails(c) PROVE Solo'
  <2>1. /\ cpc' = [cpc EXCEPT ![c] = "idle"] /\ cjob' = [cjob EXCEPT ![c] = NoJob]
        /\ reused' = [reused EXCEPT ![c] = FALSE]
        /\ UNCHANGED <<status, attempts, result, error, cancelReq, index, queue, delayed, pc,
                       job, attempt, outcome, created, late>>
    BY <1>12 DEF Done, CGoto, RequestFails
  <2>2. \A d \in Clients : ClientSolo(d)'
    BY <1>0, <2>1, Maps DEF Solo, ClientSolo
  <2>3. /\ WaitingSolo'
        /\ \A v \in Workers : WorkerSolo(v)'
        /\ \A i \in Jobs : JobSolo(i)'
    BY <1>0, <2>1 DEF Solo, WaitingSolo, WorkerSolo, JobSolo, Listed
  <2>4. QED
    BY <2>2, <2>3 DEF Solo
<1>13. ASSUME NEW j \in Jobs, RequestCancel(j) PROVE Solo'
  <2>1. /\ WaitingSolo'
        /\ \A v \in Workers : WorkerSolo(v)'
        /\ \A d \in Clients : ClientSolo(d)'
        /\ \A i \in Jobs : JobSolo(i)'
    BY <1>0, <1>13 DEF Solo, WaitingSolo, WorkerSolo, ClientSolo, JobSolo, Listed, RequestCancel
  <2>2. QED
    BY <2>1 DEF Solo
<1>14. ASSUME NEW k \in Keys, ExpireKey(k) PROVE Solo'
  <2>1. /\ WaitingSolo'
        /\ \A v \in Workers : WorkerSolo(v)'
        /\ \A d \in Clients : ClientSolo(d)'
        /\ \A i \in Jobs : JobSolo(i)'
    BY <1>0, <1>14 DEF Solo, WaitingSolo, WorkerSolo, ClientSolo, JobSolo, Listed, ExpireKey
  <2>2. QED
    BY <2>1 DEF Solo
<1>15. ASSUME NEW j \in Jobs, ExpireJob(j) PROVE Solo'
  <2>1. WaitingSolo'
    BY <1>0, <1>15, Maps DEF Solo, WaitingSolo, Listed, ExpireJob, UpdateStatus, SetError
  <2>2. \A v \in Workers : WorkerSolo(v)'
    BY <1>0, <1>15, Maps DEF Solo, WorkerSolo, ExpireJob, UpdateStatus, SetError
  <2>3. \A d \in Clients : ClientSolo(d)'
    BY <1>0, <1>15, Maps DEF Solo, ClientSolo, ExpireJob, UpdateStatus, SetError
  <2>4. \A i \in Jobs : JobSolo(i)'
    BY <1>0, <1>15, Maps DEF Solo, JobSolo, ExpireJob, UpdateStatus, SetError
  <2>5. QED
    BY <2>1, <2>2, <2>3, <2>4 DEF Solo
<1>16. ASSUME NEW j \in Jobs, BecomeDue(j) PROVE Solo'
  <2>1. /\ WaitingSolo'
        /\ \A v \in Workers : WorkerSolo(v)'
        /\ \A d \in Clients : ClientSolo(d)'
        /\ \A i \in Jobs : JobSolo(i)'
    BY <1>0, <1>16 DEF Solo, WaitingSolo, WorkerSolo, ClientSolo, JobSolo, Listed, BecomeDue
  <2>2. QED
    BY <2>1 DEF Solo
<1>17. ASSUME NEW w \in Workers, PumpStart(w) PROVE Solo'
  <2>1. \A v \in Workers : WorkerSolo(v)'
    BY <1>0, <1>17, Maps DEF Solo, WorkerSolo, PumpStart, Goto
  <2>2. /\ WaitingSolo'
        /\ \A d \in Clients : ClientSolo(d)'
        /\ \A i \in Jobs : JobSolo(i)'
    BY <1>0, <1>17 DEF Solo, WaitingSolo, ClientSolo, JobSolo, Listed, PumpStart
  <2>3. QED
    BY <2>1, <2>2 DEF Solo
<1>18. ASSUME NEW w \in Workers, NEW j \in Jobs, PumpPop(w, j) PROVE Solo'
  <2>1. WaitingSolo'
    BY <1>0, <1>18, Maps DEF Solo, WaitingSolo, Listed, PumpPop, Goto, Hold
  <2>2. \A v \in Workers : WorkerSolo(v)'
    BY <1>0, <1>18, Maps DEF Solo, WaitingSolo, WorkerSolo, Listed, PumpPop, Goto, Hold
  <2>3. /\ \A d \in Clients : ClientSolo(d)'
        /\ \A i \in Jobs : JobSolo(i)'
    BY <1>0, <1>18 DEF Solo, ClientSolo, JobSolo, Listed, PumpPop
  <2>4. QED
    BY <2>1, <2>2, <2>3 DEF Solo
<1>19. ASSUME NEW w \in Workers, PumpDone(w) PROVE Solo'
  <2>1. \A v \in Workers : WorkerSolo(v)'
    BY <1>0, <1>19, Maps DEF Solo, WorkerSolo, PumpDone, PumpReturns, Goto
  <2>2. /\ WaitingSolo'
        /\ \A d \in Clients : ClientSolo(d)'
        /\ \A i \in Jobs : JobSolo(i)'
    BY <1>0, <1>19 DEF Solo, WaitingSolo, ClientSolo, JobSolo, Listed, PumpDone
  <2>3. QED
    BY <2>1, <2>2 DEF Solo
<1>20. ASSUME NEW w \in Workers, PumpPush(w) PROVE Solo'
  <2>1. job[w] \in Jobs /\ job[w] # NoJob
    BY <1>20, InHand DEF PumpPush
  <2>2. /\ pc[w] = "popped" /\ pc' = [pc EXCEPT ![w] = "pump"] /\ job' = [job EXCEPT ![w] = NoJob]
        /\ Listed' = Listed \union {job[w]}
        /\ IsInjective(queue) /\ job[w] \notin Listed => IsInjective(queue)'
        /\ UNCHANGED <<status, attempts, result, error, cancelReq, index, delayed, cpc, cjob,
                       reused, attempt, outcome, created, late>>
    BY <1>20, <2>1, Pushed DEF PumpPush, Hold, Goto, TypeOK, QueueType, Listed
  <2>3. WaitingSolo'
    BY <1>0, <2>2, <2>1, Maps DEF Solo, WaitingSolo, WorkerSolo, Listed
  <2>4. \A v \in Workers : WorkerSolo(v)'
    BY <1>0, <2>2, <2>1, Maps DEF Solo, WorkerSolo
  <2>5. /\ \A d \in Clients : ClientSolo(d)'
        /\ \A i \in Jobs : JobSolo(i)'
    BY <1>0, <2>2 DEF Solo, ClientSolo, JobSolo, Listed
  <2>6. QED
    BY <2>3, <2>4, <2>5 DEF Solo
<1>21. ASSUME NEW w \in Workers, PumpBack(w) PROVE Solo'
  <2>1. job[w] \in Jobs /\ job[w] # NoJob
    BY <1>21, InHand DEF PumpBack
  <2>2. WaitingSolo'
    BY <1>0, <1>21, <2>1, Maps DEF Solo, WaitingSolo, WorkerSolo, Listed, PumpBack, Hold,
                                   PumpReturns, Goto
  <2>3. \A v \in Workers : WorkerSolo(v)'
    BY <1>0, <1>21, <2>1, Maps DEF Solo, WorkerSolo, PumpBack, Hold, PumpReturns, Goto
  <2>4. /\ \A d \in Clients : ClientSolo(d)'
        /\ \A i \in Jobs : JobSolo(i)'
    BY <1>0, <1>21 DEF Solo, ClientSolo, JobSolo, Listed, PumpBack
  <2>5. QED
    BY <2>2, <2>3, <2>4 DEF Solo
<1>22. ASSUME NEW w \in Workers, Dequeue(w) PROVE Solo'
  <2>1. /\ pc[w] = "dequeue" /\ pc' = [pc EXCEPT ![w] = "claimed"]
        /\ job' = [job EXCEPT ![w] = Head(queue)]
        /\ Head(queue) \in Listed /\ Listed' = Listed \ {Head(queue)} /\ IsInjective(queue)'
        /\ Head(queue) \in Jobs
        /\ UNCHANGED <<status, attempts, result, error, cancelReq, index, delayed, cpc, cjob,
                       reused, attempt, outcome, created, late>>
    BY <1>22, Popped DEF Dequeue, PopJob, Hold, Goto, TypeOK, QueueType, Listed, Inv, Places
  <2>2. WaitingSolo'
    BY <1>0, <2>1, Maps DEF Solo, WaitingSolo, Listed
  <2>3. \A v \in Workers : WorkerSolo(v)'
    BY <1>0, <2>1, Maps DEF Solo, WaitingSolo, WorkerSolo, Listed
  <2>4. /\ \A d \in Clients : ClientSolo(d)'
        /\ \A i \in Jobs : JobSolo(i)'
    BY <1>0, <2>1 DEF Solo, ClientSolo, JobSolo, Listed
  <2>5. QED
    BY <2>2, <2>3, <2>4 DEF Solo
<1>23. ASSUME NEW w \in Workers, DequeueTimesOut(w) PROVE Solo'
  <2>1. \A v \in Workers : WorkerSolo(v)'
    BY <1>0, <1>23, Maps DEF Solo, WorkerSolo, DequeueTimesOut, Goto
  <2>2. /\ WaitingSolo'
        /\ \A d \in Clients : ClientSolo(d)'
        /\ \A i \in Jobs : JobSolo(i)'
    BY <1>0, <1>23 DEF Solo, WaitingSolo, ClientSolo, JobSolo, Listed, DequeueTimesOut
  <2>3. QED
    BY <2>1, <2>2 DEF Solo
<1>24. ASSUME NEW w \in Workers, ReadJob(w) PROVE Solo'
  <2>1. job[w] \in Jobs /\ job[w] # NoJob
    BY <1>24, InHand DEF ReadJob
  <2>2. CASE status[job[w]] = "expired"
    <3>1. /\ pc' = [pc EXCEPT ![w] = "idle"] /\ job' = [job EXCEPT ![w] = NoJob]
          /\ attempt' = [attempt EXCEPT ![w] = 0] /\ outcome' = [outcome EXCEPT ![w] = "none"]
          /\ UNCHANGED <<status, attempts, result, error, cancelReq, index, queue, delayed, cpc,
                         cjob, reused, created, late>>
      BY <1>24, <2>2 DEF Return, Goto, Hold, ReadJob
    <3>2. \A v \in Workers : WorkerSolo(v)'
      BY <1>0, <3>1, <2>1, <2>2, Maps DEF Solo, WorkerSolo
    <3>3. /\ WaitingSolo'
          /\ \A d \in Clients : ClientSolo(d)'
          /\ \A i \in Jobs : JobSolo(i)'
      BY <1>0, <3>1 DEF Solo, WaitingSolo, ClientSolo, JobSolo, Listed
    <3>4. QED
      BY <3>2, <3>3 DEF Solo
  <2>3. CASE status[job[w]] # "expired"
    <3>1. /\ pc[w] = "claimed" /\ pc' = [pc EXCEPT ![w] = UnlessCancelled(job[w])]
          /\ UNCHANGED <<status, attempts, result, error, cancelReq, index, queue, delayed, cpc,
                         cjob, reused, job, attempt, outcome, created, late>>
      BY <1>24, <2>3 DEF ReadJob, Goto
    <3>2. \A v \in Workers : WorkerSolo(v)'
      BY <1>0, <3>1, <2>1, <2>3, Maps DEF Solo, WorkerSolo, UnlessCancelled
    <3>3. /\ WaitingSolo'
          /\ \A d \in Clients : ClientSolo(d)'
          /\ \A i \in Jobs : JobSolo(i)'
      BY <1>0, <3>1 DEF Solo, WaitingSolo, ClientSolo, JobSolo, Listed
    <3>4. QED
      BY <3>2, <3>3 DEF Solo
  <2>4. QED
    BY <1>24, <2>2, <2>3
<1>25. ASSUME NEW w \in Workers, WriteCancelled(w) PROVE Solo'
  <2>1. job[w] \in Jobs /\ job[w] # NoJob
    BY <1>25, InHand DEF WriteCancelled
  <2>2. /\ status' = [status EXCEPT ![job[w]] = "cancelled"]
        /\ pc' = [pc EXCEPT ![w] = "idle"] /\ job' = [job EXCEPT ![w] = NoJob]
        /\ attempt' = [attempt EXCEPT ![w] = 0] /\ outcome' = [outcome EXCEPT ![w] = "none"]
        /\ UNCHANGED <<attempts, result, error, cancelReq, index, queue, delayed, cpc, cjob,
                       reused, created, late>>
    BY <1>25 DEF Return, Goto, Hold, WriteCancelled, UpdateStatus
  <2>3. WaitingSolo'
    BY <1>0, <2>2, <2>1, <1>25, Maps DEF Inv, Places, Apart, Solo, WaitingSolo, Listed,
                                         WriteCancelled
  <2>4. \A v \in Workers : WorkerSolo(v)'
    BY <1>0, <2>2, <2>1, <1>25, Maps DEF Inv, Places, WorkersApart, Solo, WorkerSolo,
                                         WriteCancelled
  <2>5. \A d \in Clients : ClientSolo(d)'
    BY <1>0, <2>2, <2>1, <1>25, Maps DEF Inv, Places, Apart, Solo, ClientSolo, WriteCancelled
  <2>6. \A i \in Jobs : JobSolo(i)'
    BY <1>0, <2>2, <2>1, <1>25, Maps DEF Solo, JobSolo, WriteCancelled
  <2>7. QED
    BY <2>3, <2>4, <2>5, <2>6 DEF Solo
<1>26. ASSUME NEW w \in Workers, MarkRunning(w) PROVE Solo'
  <2>1. job[w] \in Jobs /\ job[w] # NoJob
    BY <1>26, InHand DEF MarkRunning
  <2>2. WaitingSolo'
    BY <1>0, <1>26, <2>1, Maps DEF Inv, Places, Apart, Solo, WaitingSolo, Listed, MarkRunning,
                                   UpdateStatus, Goto
  <2>3. \A v \in Workers : WorkerSolo(v)'
    BY <1>0, <1>26, <2>1, Maps DEF Inv, Places, WorkersApart, Solo, WorkerSolo, MarkRunning,
                                   UpdateStatus, Goto
  <2>4. \A d \in Clients : ClientSolo(d)'
    BY <1>0, <1>26, <2>1, Maps DEF Inv, Places, Apart, Solo, ClientSolo, MarkRunning,
                                   UpdateStatus, Goto
  <2>5. \A i \in Jobs : JobSolo(i)'
    BY <1>0, <1>26, <2>1, Maps DEF Solo, JobSolo, MarkRunning, UpdateStatus, Goto
  <2>6. QED
    BY <2>2, <2>3, <2>4, <2>5 DEF Solo
<1>27. ASSUME NEW w \in Workers, CountAttempt(w) PROVE Solo'
  <2>1. job[w] \in Jobs /\ job[w] # NoJob
    BY <1>27, InHand DEF CountAttempt
  <2>2. \A v \in Workers : WorkerSolo(v)'
    BY <1>0, <1>27, <2>1, Maps DEF Solo, WorkerSolo, CountAttempt, Goto
  <2>3. /\ WaitingSolo'
        /\ \A d \in Clients : ClientSolo(d)'
        /\ \A i \in Jobs : JobSolo(i)'
    BY <1>0, <1>27 DEF Solo, WaitingSolo, ClientSolo, JobSolo, Listed, CountAttempt
  <2>4. QED
    BY <2>2, <2>3 DEF Solo
<1>28. ASSUME NEW w \in Workers, NEW o \in Outcomes, AgentEnds(w, o) PROVE Solo'
  <2>1. job[w] \in Jobs /\ job[w] # NoJob
    BY <1>28, InHand DEF AgentEnds
  <2>2. \A v \in Workers : WorkerSolo(v)'
    BY <1>0, <1>28, <2>1, Maps DEF Solo, WorkerSolo, AgentEnds, MayRetry, Goto
  <2>3. /\ WaitingSolo'
        /\ \A d \in Clients : ClientSolo(d)'
        /\ \A i \in Jobs : JobSolo(i)'
    BY <1>0, <1>28 DEF Solo, WaitingSolo, ClientSolo, JobSolo, Listed, AgentEnds
  <2>4. QED
    BY <2>2, <2>3 DEF Solo
<1>29. ASSUME NEW w \in Workers, RecordOutcome(w) PROVE Solo'
  <2>1. job[w] \in Jobs /\ job[w] # NoJob
    BY <1>29, InHand DEF RecordOutcome
  <2>2. CASE outcome[w] = "ok"
    <3>1. /\ pc[w] = "record" /\ pc' = [pc EXCEPT ![w] = "status"]
          /\ result' = result \union {job[w]}
          /\ UNCHANGED <<status, attempts, error, cancelReq, index, queue, delayed, cpc, cjob,
                         reused, job, attempt, outcome, created, late>>
      BY <1>29, <2>2 DEF RecordOutcome, SetResult, Goto
    <3>2. \A v \in Workers : WorkerSolo(v)'
      BY <1>0, <3>1, <2>1, <2>2, Maps DEF Solo, WorkerSolo
    <3>3. /\ WaitingSolo'
          /\ \A d \in Clients : ClientSolo(d)'
          /\ \A i \in Jobs : JobSolo(i)'
      BY <1>0, <3>1 DEF Solo, WaitingSolo, ClientSolo, JobSolo, Listed
    <3>4. QED
      BY <3>2, <3>3 DEF Solo
  <2>3. CASE outcome[w] # "ok"
    <3>1. /\ pc[w] = "record" /\ pc' = [pc EXCEPT ![w] = "status"]
          /\ error' = [error EXCEPT ![job[w]] = outcome[w]]
          /\ UNCHANGED <<status, attempts, result, cancelReq, index, queue, delayed, cpc, cjob,
                         reused, job, attempt, outcome, created, late>>
      BY <1>29, <2>3 DEF RecordOutcome, SetError, Goto
    <3>2. \A v \in Workers : WorkerSolo(v)'
      BY <1>0, <3>1, <2>1, <2>3, Maps DEF Inv, Places, WorkersApart, Solo, WorkerSolo
    <3>3. \A i \in Jobs : JobSolo(i)'
      BY <1>0, <3>1, <2>1, <2>3, Maps DEF Inv, WorkerInv, Solo, JobSolo, WorkerSolo
    <3>4. /\ WaitingSolo'
          /\ \A d \in Clients : ClientSolo(d)'
      BY <1>0, <3>1 DEF Solo, WaitingSolo, ClientSolo, Listed
    <3>5. QED
      BY <3>2, <3>3, <3>4 DEF Solo
  <2>4. QED
    BY <1>29, <2>2, <2>3
<1>30. ASSUME NEW w \in Workers, WriteStatus(w) PROVE Solo'
  <2>1. job[w] \in Jobs /\ job[w] # NoJob
    BY <1>30, InHand DEF WriteStatus
  <2>2. CASE outcome[w] = "ok"
    <3>1. /\ pc[w] = "status" /\ status' = [status EXCEPT ![job[w]] = "succeeded"]
          /\ pc' = [pc EXCEPT ![w] = "idle"] /\ job' = [job EXCEPT ![w] = NoJob]
          /\ attempt' = [attempt EXCEPT ![w] = 0] /\ outcome' = [outcome EXCEPT ![w] = "none"]
          /\ UNCHANGED <<attempts, result, error, cancelReq, index, queue, delayed, cpc, cjob,
                         reused, created, late>>
      BY <1>30, <2>2 DEF Return, Goto, Hold, WriteStatus, UpdateStatus
    <3>2. WaitingSolo'
      BY <1>0, <3>1, <2>1, <2>2, Maps DEF Solo, WaitingSolo, WorkerSolo, Listed
    <3>3. \A v \in Workers : WorkerSolo(v)'
      BY <1>0, <3>1, <2>1, <2>2, Maps DEF Inv, Places, WorkersApart, Solo, WorkerSolo
    <3>4. \A d \in Clients : ClientSolo(d)'
      BY <1>0, <3>1, <2>1, <2>2, Maps DEF Inv, Places, Apart, Solo, ClientSolo
    <3>5. \A i \in Jobs : JobSolo(i)'
      BY <1>0, <3>1, <2>1, <2>2, Maps DEF Solo, JobSolo
    <3>6. QED
      BY <3>2, <3>3, <3>4, <3>5 DEF Solo
  <2>3. CASE outcome[w] \in Failures
    <3>1. /\ pc[w] = "status" /\ status' = [status EXCEPT ![job[w]] = "failed"]
          /\ pc' = [pc EXCEPT ![w] = "idle"] /\ job' = [job EXCEPT ![w] = NoJob]
          /\ attempt' = [attempt EXCEPT ![w] = 0] /\ outcome' = [outcome EXCEPT ![w] = "none"]
          /\ UNCHANGED <<attempts, result, error, cancelReq, index, queue, delayed, cpc, cjob,
                         reused, created, late>>
      BY <1>30, <2>3 DEF Return, Goto, Hold, WriteStatus, UpdateStatus
    <3>2. WaitingSolo'
      BY <1>0, <3>1, <2>1, <2>3, Maps DEF Solo, WaitingSolo, WorkerSolo, Listed
    <3>3. \A v \in Workers : WorkerSolo(v)'
      BY <1>0, <3>1, <2>1, <2>3, Maps DEF Inv, Places, WorkersApart, Solo, WorkerSolo
    <3>4. \A d \in Clients : ClientSolo(d)'
      BY <1>0, <3>1, <2>1, <2>3, Maps DEF Inv, Places, Apart, Solo, ClientSolo
    <3>5. \A i \in Jobs : JobSolo(i)'
      BY <1>0, <3>1, <2>1, <2>3, Maps DEF Inv, WorkerInv, Solo, JobSolo, WorkerSolo
    <3>6. QED
      BY <3>2, <3>3, <3>4, <3>5 DEF Solo
  <2>4. CASE outcome[w] = "retry_scheduled"
    <3>1. /\ pc[w] = "status" /\ status' = [status EXCEPT ![job[w]] = "queued"]
          /\ pc' = [pc EXCEPT ![w] = "schedule"]
          /\ UNCHANGED <<attempts, result, error, cancelReq, index, queue, delayed, cpc, cjob,
                         reused, job, attempt, outcome, created, late>>
      BY <1>30, <2>4 DEF WriteStatus, UpdateStatus, Goto
    <3>2. WaitingSolo'
      BY <1>0, <3>1, <2>1, <2>4, Maps DEF Solo, WaitingSolo, Listed
    <3>3. \A v \in Workers : WorkerSolo(v)'
      BY <1>0, <3>1, <2>1, <2>4, Maps DEF Inv, Places, WorkersApart, Solo, WorkerSolo
    <3>4. \A d \in Clients : ClientSolo(d)'
      BY <1>0, <3>1, <2>1, <2>4, Maps DEF Solo, ClientSolo
    <3>5. \A i \in Jobs : JobSolo(i)'
      BY <1>0, <3>1, <2>1, <2>4, Maps DEF Solo, JobSolo
    <3>6. QED
      BY <3>2, <3>3, <3>4, <3>5 DEF Solo
  <2>5. QED
    BY <1>30, <2>2, <2>3, <2>4 DEF WriteStatus
<1>31. ASSUME NEW w \in Workers, ScheduleDelayed(w) PROVE Solo'
  <2>1. job[w] \in Jobs /\ job[w] # NoJob
    BY <1>31, InHand DEF ScheduleDelayed
  <2>2. /\ pc[w] = "schedule" /\ delayed' = delayed \union {job[w]}
        /\ pc' = [pc EXCEPT ![w] = "idle"] /\ job' = [job EXCEPT ![w] = NoJob]
        /\ attempt' = [attempt EXCEPT ![w] = 0] /\ outcome' = [outcome EXCEPT ![w] = "none"]
        /\ UNCHANGED <<status, attempts, result, error, cancelReq, index, queue, cpc, cjob,
                       reused, created, late>>
    BY <1>31 DEF Return, Goto, Hold, ScheduleDelayed, Delay
  <2>3. WaitingSolo'
    BY <1>0, <2>2, <2>1, Maps DEF Solo, WaitingSolo, WorkerSolo, Listed
  <2>4. \A v \in Workers : WorkerSolo(v)'
    BY <1>0, <2>2, <2>1, Maps DEF Solo, WorkerSolo
  <2>5. /\ \A d \in Clients : ClientSolo(d)'
        /\ \A i \in Jobs : JobSolo(i)'
    BY <1>0, <2>2 DEF Solo, ClientSolo, JobSolo, Listed
  <2>6. QED
    BY <2>3, <2>4, <2>5 DEF Solo
<1>32. ASSUME NEW w \in Workers, Abandon(w) PROVE Solo'
  <2>1. /\ pc' = [pc EXCEPT ![w] = "idle"] /\ job' = [job EXCEPT ![w] = NoJob]
        /\ attempt' = [attempt EXCEPT ![w] = 0] /\ outcome' = [outcome EXCEPT ![w] = "none"]
        /\ UNCHANGED <<status, attempts, result, error, cancelReq, index, queue, delayed, cpc,
                       cjob, reused, created, late>>
    BY <1>32 DEF Return, Goto, Hold, Abandon
  <2>2. \A v \in Workers : WorkerSolo(v)'
    BY <1>0, <2>1, Maps DEF Solo, WorkerSolo
  <2>3. /\ WaitingSolo'
        /\ \A d \in Clients : ClientSolo(d)'
        /\ \A i \in Jobs : JobSolo(i)'
    BY <1>0, <2>1 DEF Solo, WaitingSolo, ClientSolo, JobSolo, Listed
  <2>4. QED
    BY <2>2, <2>3 DEF Solo
<1>33. CASE UNCHANGED vars
  BY <1>0, <1>33 DEF WaitingSolo, WorkerSolo, ClientSolo, JobSolo, Solo, Listed, vars
<1>34. QED
  BY <1>1, <1>2, <1>3, <1>4, <1>5, <1>6, <1>7, <1>8, <1>9, <1>10, <1>11, <1>12, <1>13, <1>14,
     <1>15, <1>16, <1>17, <1>18, <1>19, <1>20, <1>21, <1>22, <1>23, <1>24, <1>25, <1>26, <1>27,
     <1>28, <1>29, <1>30, <1>31, <1>32, <1>33
     DEF Next, ClientStep, WorkerStep, AgentStep

-----------------------------------------------------------------------------
(* Lost jobs *)

\* The loss of a job is paid with a fault.
LEMMA DoomedStep ==
    ASSUME TypeOK, Inv, [Next]_vars
    PROVE  \/ faults' = faults /\ \A i \in Jobs : Undone(i)' => Undone(i)
           \/ /\ faults' = faults + 1
              /\ \E x : \A i \in Jobs : Undone(i)' => i = x \/ Undone(i)
<1> USE DEF hashVars, queueVars, clientVars, workerVars, history, Jobless, Handless, Early, Executed
<1> DEFINE Kept == \A i \in Jobs : Undone(i)' => Undone(i)
<1> DEFINE Lost1(x) == faults' = faults + 1 /\ \A i \in Jobs : Undone(i)' => i = x \/ Undone(i)
<1>1. ASSUME NEW c \in Clients, NEW k \in Keys \union {NoKey}, NEW waits \in BOOLEAN,
             Lookup(c, k, waits)
      PROVE  faults' = faults /\ Kept
  BY <1>1, Maps DEF
     Undone, Carries, Listed, TypeOK, ClientType, Lookup, CGoto, Routed
<1>2. ASSUME NEW c \in Clients, NEW j \in Jobs, Create(c, j) PROVE faults' = faults /\ Kept
  BY <1>2, Maps DEF
     Undone, Carries, Listed, TypeOK, ClientType, Create, UpdateStatus, SetIndex, CGoto, Routed
<1>3. ASSUME NEW c \in Clients, SandboxStart(c) PROVE faults' = faults /\ Kept
  <2>1. cjob[c] \in Jobs /\ cjob[c] # NoJob
    BY <1>3, Carried DEF SandboxStart
  <2>2. QED
    BY <1>3, <2>1, Maps DEF
       Undone, Carries, Listed, TypeOK, ClientType, SandboxStart, UpdateStatus, CGoto
<1>4. ASSUME NEW c \in Clients, SandboxAnswers(c) PROVE faults' = faults /\ Kept
  <2>1. cjob[c] \in Jobs /\ cjob[c] # NoJob
    BY <1>4, Carried DEF SandboxAnswers
  <2>2. QED
    BY <1>4, <2>1, Maps DEF
       Undone, Carries, Listed, TypeOK, ClientType, SandboxAnswers, CGoto
<1>5. ASSUME NEW c \in Clients, SandboxResult(c) PROVE faults' = faults /\ Kept
  <2>1. cjob[c] \in Jobs /\ cjob[c] # NoJob
    BY <1>5, Carried DEF SandboxResult
  <2>2. QED
    BY <1>5, <2>1, Maps DEF
       Undone, Carries, Listed, TypeOK, ClientType, SandboxResult, SetResult, CGoto
<1>6. ASSUME NEW c \in Clients, SandboxSucceed(c) PROVE faults' = faults /\ Kept
  <2>1. cjob[c] \in Jobs /\ cjob[c] # NoJob
    BY <1>6, Carried DEF SandboxSucceed
  <2>2. QED
    BY <1>6, <2>1, Maps DEF
       Undone, Carries, Listed, TypeOK, ClientType, SandboxSucceed, UpdateStatus, CGoto
<1>7. ASSUME NEW c \in Clients, SandboxRaises(c) PROVE Kept
  <2>1. cjob[c] \in Jobs /\ cjob[c] # NoJob
    BY <1>7, Carried DEF SandboxRaises
  <2>2. QED
    BY <1>7, <2>1, Maps DEF
       Undone, Carries, Listed, TypeOK, ClientType, SandboxRaises, CGoto
<1>8. ASSUME NEW c \in Clients, SandboxError(c) PROVE faults' = faults /\ Kept
  <2>1. cjob[c] \in Jobs /\ cjob[c] # NoJob
    BY <1>8, Carried DEF SandboxError
  <2>2. QED
    BY <1>8, <2>1, Maps DEF
       Undone, Carries, Listed, TypeOK, ClientType, SandboxError, SetError, CGoto
<1>9. ASSUME NEW c \in Clients, SandboxFail(c) PROVE faults' = faults /\ Kept
  <2>1. cjob[c] \in Jobs /\ cjob[c] # NoJob
    BY <1>9, Carried DEF SandboxFail
  <2>2. QED
    BY <1>9, <2>1, Maps DEF
       Undone, Carries, Listed, TypeOK, ClientType, SandboxFail, UpdateStatus, CGoto
<1>10. ASSUME NEW c \in Clients, SandboxReply(c) PROVE faults' = faults /\ Kept
  <2>1. cjob[c] \in Jobs /\ cjob[c] # NoJob
    BY <1>10, Carried DEF SandboxReply
  <2>2. QED
    BY <1>10, <2>1, Maps DEF
       Undone, Carries, Listed, TypeOK, ClientType, SandboxReply, Done, CGoto
<1>11. ASSUME NEW c \in Clients, Enqueue(c) PROVE faults' = faults /\ Kept
  <2>1. cjob[c] \in Jobs /\ cjob[c] # NoJob
    BY <1>11, Carried DEF Enqueue
  <2>2. Listed' = Listed \union (IF reused[c] THEN {} ELSE {cjob[c]})
    BY <1>11, <2>1, Pushed DEF Enqueue, PushUnlessReused, Listed, TypeOK, QueueType
  <2>3. QED
    BY <1>11, <2>1, <2>2, Maps DEF
       Undone, Carries, TypeOK, ClientType, Enqueue, PushUnlessReused, Done, CGoto
<1>12. ASSUME NEW c \in Clients, RequestFails(c) PROVE Lost1(cjob[c])
  BY <1>12, Maps DEF
     Undone, Carries, Listed, TypeOK, ClientType, RequestFails, Done, CGoto
<1>13. ASSUME NEW j \in Jobs, RequestCancel(j) PROVE faults' = faults /\ Kept
  BY <1>13, Maps DEF
     Undone, Carries, Listed, RequestCancel
<1>14. ASSUME NEW k \in Keys, ExpireKey(k) PROVE faults' = faults /\ Kept
  BY <1>14, Maps DEF
     Undone, Carries, Listed, ExpireKey
<1>15. ASSUME NEW j \in Jobs, ExpireJob(j) PROVE faults' = faults /\ Kept
  BY <1>15, Maps DEF
     Undone, Carries, Listed, ExpireJob, UpdateStatus, SetError
<1>16. ASSUME NEW j \in Jobs, BecomeDue(j) PROVE faults' = faults /\ Kept
  BY <1>16, Maps DEF
     Undone, Carries, Listed, BecomeDue
<1>17. ASSUME NEW w \in Workers, PumpStart(w) PROVE faults' = faults /\ Kept
  BY <1>17, Maps DEF
     Undone, Carries, Listed, TypeOK, WorkerType, PumpStart, Goto
<1>18. ASSUME NEW w \in Workers, NEW j \in Jobs, PumpPop(w, j) PROVE faults' = faults /\ Kept
  BY <1>18, Maps DEF
     Undone, Carries, Listed, TypeOK, WorkerType, PumpPop, Goto, Hold
<1>19. ASSUME NEW w \in Workers, PumpDone(w) PROVE faults' = faults /\ Kept
  BY <1>19, Maps DEF
     Undone, Carries, Listed, TypeOK, WorkerType, PumpDone, PumpReturns, Goto
<1>20. ASSUME NEW w \in Workers, PumpPush(w) PROVE faults' = faults /\ Kept
  <2>1. job[w] \in Jobs /\ job[w] # NoJob
    BY <1>20, InHand DEF PumpPush
  <2>2. Listed' = Listed \union {job[w]}
    BY <1>20, <2>1, Pushed DEF PumpPush, Listed, TypeOK, QueueType
  <2>3. QED
    BY <1>20, <2>1, <2>2, Maps DEF
       Undone, Carries, TypeOK, WorkerType, PumpPush, Hold, Goto
<1>21. ASSUME NEW w \in Workers, PumpBack(w) PROVE faults' = faults /\ Kept
  <2>1. job[w] \in Jobs /\ job[w] # NoJob
    BY <1>21, InHand DEF PumpBack
  <2>2. QED
    BY <1>21, <2>1, Maps DEF
       Undone, Carries, Listed, TypeOK, WorkerType, PumpBack, Hold, PumpReturns, Goto
<1>22. ASSUME NEW w \in Workers, Dequeue(w) PROVE faults' = faults /\ Kept
  <2>1. Listed' = Listed \ {Head(queue)}
    BY <1>22, Popped DEF Dequeue, PopJob, Listed, TypeOK, QueueType, Inv, Places
  <2>2. QED
    BY <1>22, <2>1, Maps DEF
       Undone, Carries, TypeOK, WorkerType, Dequeue, PopJob, Hold, Goto
<1>23. ASSUME NEW w \in Workers, DequeueTimesOut(w) PROVE faults' = faults /\ Kept
  BY <1>23, Maps DEF
     Undone, Carries, Listed, TypeOK, WorkerType, DequeueTimesOut, Goto
<1>24. ASSUME NEW w \in Workers, ReadJob(w) PROVE faults' = faults /\ Kept
  <2>1. job[w] \in Jobs /\ job[w] # NoJob
    BY <1>24, InHand DEF ReadJob
  <2>2. QED
    BY <1>24, <2>1, Maps DEF
       Undone, Carries, Listed, TypeOK, WorkerType, ReadJob, UnlessCancelled, Return, Hold, Goto
<1>25. ASSUME NEW w \in Workers, WriteCancelled(w) PROVE faults' = faults /\ Kept
  <2>1. job[w] \in Jobs /\ job[w] # NoJob
    BY <1>25, InHand DEF WriteCancelled
  <2>2. QED
    BY <1>25, <2>1, Maps DEF
       Undone, Carries, Listed, TypeOK, WorkerType, WriteCancelled, UpdateStatus, Return, Hold,
       Goto
<1>26. ASSUME NEW w \in Workers, MarkRunning(w) PROVE faults' = faults /\ Kept
  <2>1. job[w] \in Jobs /\ job[w] # NoJob
    BY <1>26, InHand DEF MarkRunning
  <2>2. QED
    BY <1>26, <2>1, Maps DEF
       Undone, Carries, Listed, TypeOK, WorkerType, MarkRunning, UpdateStatus, Goto
<1>27. ASSUME NEW w \in Workers, CountAttempt(w) PROVE faults' = faults /\ Kept
  <2>1. job[w] \in Jobs /\ job[w] # NoJob
    BY <1>27, InHand DEF CountAttempt
  <2>2. QED
    BY <1>27, <2>1, Maps DEF
       Undone, Carries, Listed, TypeOK, WorkerType, CountAttempt, Goto
<1>28. ASSUME NEW w \in Workers, NEW o \in Outcomes, AgentEnds(w, o) PROVE faults' = faults /\ Kept
  <2>1. job[w] \in Jobs /\ job[w] # NoJob
    BY <1>28, InHand DEF AgentEnds
  <2>2. QED
    BY <1>28, <2>1, Maps DEF
       Undone, Carries, Listed, TypeOK, WorkerType, AgentEnds, MayRetry, Goto
<1>29. ASSUME NEW w \in Workers, RecordOutcome(w) PROVE faults' = faults /\ Kept
  <2>1. job[w] \in Jobs /\ job[w] # NoJob
    BY <1>29, InHand DEF RecordOutcome
  <2>2. QED
    BY <1>29, <2>1, Maps DEF
       Undone, Carries, Listed, TypeOK, WorkerType, RecordOutcome, SetResult, SetError, Goto
<1>30. ASSUME NEW w \in Workers, WriteStatus(w) PROVE faults' = faults /\ Kept
  <2>1. job[w] \in Jobs /\ job[w] # NoJob
    BY <1>30, InHand DEF WriteStatus
  <2>2. QED
    BY <1>30, <2>1, Maps DEF
       Undone, Carries, Listed, TypeOK, WorkerType, WriteStatus, UpdateStatus, Return, Hold,
       Goto
<1>31. ASSUME NEW w \in Workers, ScheduleDelayed(w) PROVE faults' = faults /\ Kept
  <2>1. job[w] \in Jobs /\ job[w] # NoJob
    BY <1>31, InHand DEF ScheduleDelayed
  <2>2. QED
    BY <1>31, <2>1, Maps DEF
       Undone, Carries, Listed, TypeOK, WorkerType, ScheduleDelayed, Delay, Return, Hold, Goto
<1>32. ASSUME NEW w \in Workers, Abandon(w) PROVE Lost1(job[w])
  BY <1>32, Maps DEF
     Undone, Carries, Listed, TypeOK, WorkerType, Abandon, Return, Hold, Goto
<1>33. ASSUME NEW c \in Clients, SandboxRaises(c) PROVE faults' = faults \/ faults' = faults + 1
  BY <1>33 DEF SandboxRaises
<1>34. CASE UNCHANGED vars
  BY <1>34 DEF vars, Undone, Carries, Listed
<1>35. QED
  BY <1>1, <1>2, <1>3, <1>4, <1>5, <1>6, <1>7, <1>8, <1>9, <1>10, <1>11, <1>12, <1>13, <1>14,
     <1>15, <1>16, <1>17, <1>18, <1>19, <1>20, <1>21, <1>22, <1>23, <1>24, <1>25, <1>26, <1>27,
     <1>28, <1>29, <1>30, <1>31, <1>32, <1>33, <1>34
     DEF Next, ClientStep, WorkerStep, AgentStep

\* One more element.
LEMMA AddedOne ==
    ASSUME NEW S, NEW x, IsFiniteSet(S)
    PROVE  /\ IsFiniteSet(S \union {x}) /\ Cardinality(S \union {x}) \in Nat
           /\ Cardinality(S \union {x}) <= Cardinality(S) + 1
<1>1. Cardinality(S) \in Nat
  BY FS_CardinalityType
<1>2. /\ IsFiniteSet(S \union {x})
      /\ Cardinality(S \union {x}) = IF x \in S THEN Cardinality(S) ELSE Cardinality(S) + 1
  BY FS_AddElement
<1>3. QED
  BY <1>1, <1>2

\* The jobs given up for lost are at most as many as the faults.
LEMMA DoomedBoundInductive ==
    ASSUME TypeOK, Inv, DoomedBound, [Next]_vars PROVE DoomedBound'
<1>1. IsFiniteSet(Doomed) /\ Cardinality(Doomed) \in Nat /\ faults \in Nat
  BY FS_Subset, FS_CardinalityType DEF Doomed, TypeOK, QueueType
<1>2. CASE faults' = faults /\ \A i \in Jobs : Undone(i)' => Undone(i)
  <2>1. Doomed' \subseteq Doomed
    BY <1>2 DEF Doomed
  <2>2. QED
    BY <1>1, <1>2, <2>1, FS_Subset, FS_CardinalityType DEF DoomedBound
<1>3. ASSUME faults' = faults + 1, NEW x, \A i \in Jobs : Undone(i)' => i = x \/ Undone(i)
      PROVE  DoomedBound'
  <2>1. Doomed' \subseteq Doomed \union {x}
    BY <1>3 DEF Doomed
  <2>2. /\ IsFiniteSet(Doomed \union {x})
        /\ Cardinality(Doomed \union {x}) <= Cardinality(Doomed) + 1
    BY <1>1, AddedOne
  <2>3. Cardinality(Doomed') <= Cardinality(Doomed \union {x})
    BY <2>1, <2>2, FS_Subset
  <2>4. Cardinality(Doomed') \in Nat /\ Cardinality(Doomed \union {x}) \in Nat
    BY <2>1, <2>2, FS_Subset, FS_CardinalityType
  <2>5. QED
    BY <1>1, <1>3, <2>2, <2>3, <2>4 DEF DoomedBound
<1>4. QED
  BY <1>2, <1>3, DoomedStep

\* At most one place holds when any two that hold are the same.
LEMMA AtMostOne == ASSUME NEW S, \A p, q \in S : p = q PROVE Cardinality(S) <= 1
<1>1. CASE S = {}
  BY <1>1, FS_EmptySet
<1>2. CASE S # {}
  <2>1. PICK p \in S : TRUE
    BY <1>2
  <2>2. S = {p}
    BY <2>1
  <2>3. Cardinality({p}) = 1
    BY FS_Singleton
  <2>4. QED
    BY <2>2, <2>3
<1>3. QED
  BY <1>1, <1>2

\* The bound of PlacedOnce: what is lost is given up.
LEMMA PlacesAreApart == ASSUME TypeOK, Inv, DoomedBound PROVE PlacedOnce
<1>1. ASSUME NEW j \in Jobs PROVE Cardinality(Spots(j)) <= 1
  <2>1. \A p, q \in Spots(j) : p = q
    BY DEF Spots, Inv, Places, Apart, Listed, Held, Entering
  <2>2. QED
    BY <2>1, AtMostOne
<1>2. SinglePlace
  <2>1. IsInjective(queue)
    BY DEF Inv, Places
  <2>2. \A w, v \in Workers : w # v /\ job[w] = job[v] => job[w] = NoJob
    BY DEF Inv, Places, WorkersApart
  <2>3. \A c, d \in Clients :
            c # d /\ ~ reused[c] /\ ~ reused[d] /\ cjob[c] = cjob[d] => cjob[c] = NoJob
    BY DEF Inv, Places, OwnersApart
  <2>4. QED
    BY <1>1, <2>1, <2>2, <2>3 DEF SinglePlace
<1>3. Cardinality(Lost) <= faults
  <2>1. Lost \subseteq Doomed
    BY DEF Lost, Doomed, Undone, Carries, Held, Listed
  <2>2. /\ IsFiniteSet(Doomed) /\ Cardinality(Doomed) \in Nat /\ faults \in Nat
    BY FS_Subset, FS_CardinalityType DEF Doomed, TypeOK, QueueType
  <2>3. Cardinality(Lost) \in Nat /\ Cardinality(Lost) <= Cardinality(Doomed)
    BY <2>1, <2>2, FS_Subset, FS_CardinalityType
  <2>4. QED
    BY <2>2, <2>3 DEF DoomedBound
<1>4. QED
  BY <1>2, <1>3 DEF PlacedOnce

-----------------------------------------------------------------------------
(* Idempotency keys *)

\* The requests about to create a job under a key.
Making(k) == {c \in Clients : cpc[c] = "create" /\ ckey[c] = k}

\* What a step does to a key: nothing to its jobs, or it expires, or c adds j.
Same(k) == created'[k] = created[k] /\ Making(k)' \subseteq Making(k)
Emptied(k) == created'[k] = {}
Added(k, c, j) == created'[k] = created[k] \union {j} /\ Making(k)' \subseteq Making(k) \ {c}

\* What one step does to the jobs of a key and to the requests about to add one.
LEMMA KeyStep ==
    ASSUME TypeOK, Inv, [Next]_vars, NEW k \in Keys
    PROVE  \/ Same(k) \/ Emptied(k)
           \/ \E c \in Making(k), j \in Jobs : Added(k, c, j)
<1> USE DEF clientVars, workerVars, history
<1>1. ASSUME NEW c \in Clients, NEW x \in Keys \union {NoKey}, NEW waits \in BOOLEAN, Lookup(c, x, waits)
      PROVE  Same(k) \/ Emptied(k)
  BY <1>1, Maps DEF Making, Same, Emptied, TypeOK, ClientType, Inv, KeyInv, Lookup, CGoto,
                    Routed
<1>2. ASSUME NEW c \in Clients, NEW j \in Jobs, Create(c, j)
      PROVE  Same(k) \/ (c \in Making(k) /\ Added(k, c, j))
  BY <1>2, Maps DEF Create, CGoto, Routed, Making, Same, Added, TypeOK, ClientType
<1>3. ASSUME NEW c \in Clients, SandboxStart(c) PROVE Same(k)
  BY <1>3, Maps DEF Making, Same, Emptied, TypeOK, ClientType, SandboxStart, CGoto
<1>4. ASSUME NEW c \in Clients, SandboxAnswers(c) PROVE Same(k)
  BY <1>4, Maps DEF Making, Same, Emptied, TypeOK, ClientType, SandboxAnswers, CGoto
<1>5. ASSUME NEW c \in Clients, SandboxResult(c) PROVE Same(k)
  BY <1>5, Maps DEF Making, Same, Emptied, TypeOK, ClientType, SandboxResult, CGoto
<1>6. ASSUME NEW c \in Clients, SandboxSucceed(c) PROVE Same(k)
  BY <1>6, Maps DEF Making, Same, Emptied, TypeOK, ClientType, SandboxSucceed, CGoto
<1>7. ASSUME NEW c \in Clients, SandboxRaises(c) PROVE Same(k)
  BY <1>7, Maps DEF Making, Same, Emptied, TypeOK, ClientType, SandboxRaises, CGoto
<1>8. ASSUME NEW c \in Clients, SandboxError(c) PROVE Same(k)
  BY <1>8, Maps DEF Making, Same, Emptied, TypeOK, ClientType, SandboxError, CGoto
<1>9. ASSUME NEW c \in Clients, SandboxFail(c) PROVE Same(k)
  BY <1>9, Maps DEF Making, Same, Emptied, TypeOK, ClientType, SandboxFail, CGoto
<1>10. ASSUME NEW c \in Clients, SandboxReply(c) PROVE Same(k)
  BY <1>10, Maps DEF Making, Same, Emptied, TypeOK, ClientType, SandboxReply, Done, CGoto
<1>11. ASSUME NEW c \in Clients, Enqueue(c) PROVE Same(k)
  BY <1>11, Maps DEF Making, Same, Emptied, TypeOK, ClientType, Enqueue, Done, CGoto
<1>12. ASSUME NEW c \in Clients, RequestFails(c) PROVE Same(k)
  BY <1>12, Maps DEF Making, Same, Emptied, TypeOK, ClientType, RequestFails, Done, CGoto
<1>13. ASSUME NEW j \in Jobs, RequestCancel(j) PROVE Same(k)
  BY <1>13, Maps DEF Making, Same, Emptied, RequestCancel
<1>14. ASSUME NEW x \in Keys, ExpireKey(x) PROVE Same(k) \/ Emptied(k)
  BY <1>14, Maps DEF Making, Same, Emptied, ExpireKey
<1>15. ASSUME NEW j \in Jobs, ExpireJob(j) PROVE Same(k)
  BY <1>15, Maps DEF Making, Same, Emptied, ExpireJob
<1>16. ASSUME NEW j \in Jobs, BecomeDue(j) PROVE Same(k)
  BY <1>16, Maps DEF Making, Same, Emptied, BecomeDue
<1>17. ASSUME NEW w \in Workers, PumpStart(w) PROVE Same(k)
  BY <1>17, Maps DEF Making, Same, Emptied, PumpStart
<1>18. ASSUME NEW w \in Workers, NEW j \in Jobs, PumpPop(w, j) PROVE Same(k)
  BY <1>18, Maps DEF Making, Same, Emptied, PumpPop
<1>19. ASSUME NEW w \in Workers, PumpDone(w) PROVE Same(k)
  BY <1>19, Maps DEF Making, Same, Emptied, PumpDone
<1>20. ASSUME NEW w \in Workers, PumpPush(w) PROVE Same(k)
  BY <1>20, Maps DEF Making, Same, Emptied, PumpPush
<1>21. ASSUME NEW w \in Workers, PumpBack(w) PROVE Same(k)
  BY <1>21, Maps DEF Making, Same, Emptied, PumpBack
<1>22. ASSUME NEW w \in Workers, Dequeue(w) PROVE Same(k)
  BY <1>22, Maps DEF Making, Same, Emptied, Dequeue
<1>23. ASSUME NEW w \in Workers, DequeueTimesOut(w) PROVE Same(k)
  BY <1>23, Maps DEF Making, Same, Emptied, DequeueTimesOut
<1>24. ASSUME NEW w \in Workers, ReadJob(w) PROVE Same(k)
  BY <1>24, Maps DEF Making, Same, Emptied, ReadJob
<1>25. ASSUME NEW w \in Workers, WriteCancelled(w) PROVE Same(k)
  BY <1>25, Maps DEF Making, Same, Emptied, WriteCancelled
<1>26. ASSUME NEW w \in Workers, MarkRunning(w) PROVE Same(k)
  BY <1>26, Maps DEF Making, Same, Emptied, MarkRunning
<1>27. ASSUME NEW w \in Workers, CountAttempt(w) PROVE Same(k)
  BY <1>27, Maps DEF Making, Same, Emptied, CountAttempt
<1>28. ASSUME NEW w \in Workers, NEW o \in Outcomes, AgentEnds(w, o) PROVE Same(k)
  BY <1>28, Maps DEF Making, Same, Emptied, AgentEnds
<1>29. ASSUME NEW w \in Workers, RecordOutcome(w) PROVE Same(k)
  BY <1>29, Maps DEF Making, Same, Emptied, RecordOutcome
<1>30. ASSUME NEW w \in Workers, WriteStatus(w) PROVE Same(k)
  BY <1>30, Maps DEF Making, Same, Emptied, WriteStatus
<1>31. ASSUME NEW w \in Workers, ScheduleDelayed(w) PROVE Same(k)
  BY <1>31, Maps DEF Making, Same, Emptied, ScheduleDelayed
<1>32. ASSUME NEW w \in Workers, Abandon(w) PROVE Same(k)
  BY <1>32, Maps DEF Making, Same, Emptied, Abandon
<1>33. CASE UNCHANGED vars
  BY <1>33 DEF Making, Same, vars
<1>34. QED
  BY <1>1, <1>2, <1>3, <1>4, <1>5, <1>6, <1>7, <1>8, <1>9, <1>10, <1>11, <1>12, <1>13, <1>14,
     <1>15, <1>16, <1>17, <1>18, <1>19, <1>20, <1>21, <1>22, <1>23, <1>24, <1>25, <1>26, <1>27,
     <1>28, <1>29, <1>30, <1>31, <1>32, <1>33
     DEF Next, ClientStep, WorkerStep, AgentStep

\* A key has no more jobs and requests than there are clients.
LEMMA IdempotencyInductive ==
    ASSUME TypeOK, TypeOK', Inv, IdempotencyBound, [Next]_vars PROVE IdempotencyBound'
<1> SUFFICES ASSUME NEW k \in Keys
             PROVE  Cardinality(created'[k]) + Cardinality(Making(k)') <= Cardinality(Clients)
  BY DEF IdempotencyBound, Making
<1>1. /\ Cardinality(created[k]) + Cardinality(Making(k)) <= Cardinality(Clients)
      /\ Making(k) \subseteq Clients /\ Making(k)' \subseteq Clients
      /\ created[k] \subseteq Jobs /\ created'[k] \subseteq Jobs
  BY DEF IdempotencyBound, Making, TypeOK, QueueType
<1>2. /\ IsFiniteSet(Making(k)) /\ IsFiniteSet(Making(k)') /\ IsFiniteSet(created[k])
      /\ Cardinality(Making(k)) \in Nat /\ Cardinality(Making(k)') \in Nat
      /\ Cardinality(created[k]) \in Nat /\ Cardinality(Clients) \in Nat
      /\ Cardinality(Making(k)') <= Cardinality(Clients)
  BY <1>1, FS_Subset, FS_CardinalityType
<1>3. CASE Same(k)
  BY <1>1, <1>2, <1>3, FS_Subset DEF Same
<1>4. CASE Emptied(k)
  BY <1>2, <1>4, FS_EmptySet DEF Emptied
<1>5. ASSUME NEW c \in Making(k), NEW j \in Jobs, Added(k, c, j)
      PROVE  Cardinality(created'[k]) + Cardinality(Making(k)') <= Cardinality(Clients)
  <2>1. /\ Cardinality(created'[k]) \in Nat
        /\ Cardinality(created'[k]) <= Cardinality(created[k]) + 1
    BY <1>2, <1>5, AddedOne DEF Added
  <2>2. /\ IsFiniteSet(Making(k) \ {c})
        /\ Cardinality(Making(k) \ {c}) = Cardinality(Making(k)) - 1
    BY <1>2, <1>5, FS_RemoveElement
  <2>3. Cardinality(Making(k)') <= Cardinality(Making(k) \ {c})
    BY <1>5, <2>2, FS_Subset DEF Added
  <2>4. QED
    BY <1>1, <1>2, <2>1, <2>2, <2>3
<1>6. QED
  BY <1>3, <1>4, <1>5, KeyStep

-----------------------------------------------------------------------------
(* Final statuses *)

\* Without a sandbox only the worker writes a status, and none of a finished job.
LEMMA FinalStep ==
    ASSUME TypeOK, Inv, OneWriter, ~ Sandbox, [Next]_vars, NEW j \in Jobs, status[j] \in Terminal
    PROVE  status'[j] \in {status[j], "expired"}
<1> USE DEF Terminal, hashVars
<1>0. Solo
  BY DEF OneWriter
<1>1. ASSUME NEW c \in Clients, NEW k \in Keys \union {NoKey}, NEW waits \in BOOLEAN,
             Lookup(c, k, waits)
      PROVE  status'[j] \in {status[j], "expired"}
  BY <1>1 DEF Lookup
<1>2. ASSUME NEW c \in Clients, NEW i \in Jobs, Create(c, i)
      PROVE  status'[j] \in {status[j], "expired"}
  BY <1>2, Maps DEF Create, UpdateStatus
<1>3. ASSUME NEW c \in Clients, SandboxStart(c) PROVE status'[j] \in {status[j], "expired"}
  BY <1>3 DEF TypeOK, ClientType, SandboxPcs, SandboxStart
<1>4. ASSUME NEW c \in Clients, SandboxAnswers(c) PROVE status'[j] \in {status[j], "expired"}
  BY <1>4 DEF SandboxAnswers
<1>5. ASSUME NEW c \in Clients, SandboxResult(c) PROVE status'[j] \in {status[j], "expired"}
  BY <1>5 DEF SandboxResult
<1>6. ASSUME NEW c \in Clients, SandboxSucceed(c) PROVE status'[j] \in {status[j], "expired"}
  BY <1>6 DEF TypeOK, ClientType, SandboxPcs, SandboxSucceed
<1>7. ASSUME NEW c \in Clients, SandboxRaises(c) PROVE status'[j] \in {status[j], "expired"}
  BY <1>7 DEF SandboxRaises
<1>8. ASSUME NEW c \in Clients, SandboxError(c) PROVE status'[j] \in {status[j], "expired"}
  BY <1>8 DEF SandboxError
<1>9. ASSUME NEW c \in Clients, SandboxFail(c) PROVE status'[j] \in {status[j], "expired"}
  BY <1>9 DEF TypeOK, ClientType, SandboxPcs, SandboxFail
<1>10. ASSUME NEW c \in Clients, SandboxReply(c) PROVE status'[j] \in {status[j], "expired"}
  BY <1>10 DEF SandboxReply
<1>11. ASSUME NEW c \in Clients, Enqueue(c) PROVE status'[j] \in {status[j], "expired"}
  BY <1>11 DEF Enqueue
<1>12. ASSUME NEW c \in Clients, RequestFails(c) PROVE status'[j] \in {status[j], "expired"}
  BY <1>12 DEF RequestFails
<1>13. ASSUME NEW i \in Jobs, RequestCancel(i) PROVE status'[j] \in {status[j], "expired"}
  BY <1>13 DEF RequestCancel
<1>14. ASSUME NEW k \in Keys, ExpireKey(k) PROVE status'[j] \in {status[j], "expired"}
  BY <1>14 DEF ExpireKey
<1>15. ASSUME NEW i \in Jobs, ExpireJob(i) PROVE status'[j] \in {status[j], "expired"}
  BY <1>15, Maps DEF ExpireJob, UpdateStatus
<1>16. ASSUME NEW i \in Jobs, BecomeDue(i) PROVE status'[j] \in {status[j], "expired"}
  BY <1>16 DEF BecomeDue
<1>17. ASSUME NEW w \in Workers, PumpStart(w) PROVE status'[j] \in {status[j], "expired"}
  BY <1>17 DEF PumpStart
<1>18. ASSUME NEW w \in Workers, NEW i \in Jobs, PumpPop(w, i)
       PROVE  status'[j] \in {status[j], "expired"}
  BY <1>18 DEF PumpPop
<1>19. ASSUME NEW w \in Workers, PumpDone(w) PROVE status'[j] \in {status[j], "expired"}
  BY <1>19 DEF PumpDone
<1>20. ASSUME NEW w \in Workers, PumpPush(w) PROVE status'[j] \in {status[j], "expired"}
  BY <1>20 DEF PumpPush
<1>21. ASSUME NEW w \in Workers, PumpBack(w) PROVE status'[j] \in {status[j], "expired"}
  BY <1>21 DEF PumpBack
<1>22. ASSUME NEW w \in Workers, Dequeue(w) PROVE status'[j] \in {status[j], "expired"}
  BY <1>22 DEF Dequeue
<1>23. ASSUME NEW w \in Workers, DequeueTimesOut(w) PROVE status'[j] \in {status[j], "expired"}
  BY <1>23 DEF DequeueTimesOut
<1>24. ASSUME NEW w \in Workers, ReadJob(w) PROVE status'[j] \in {status[j], "expired"}
  BY <1>24 DEF ReadJob
<1>25. ASSUME NEW w \in Workers, WriteCancelled(w) PROVE status'[j] \in {status[j], "expired"}
  <2>1. job[w] \in Jobs
    BY <1>25, InHand DEF WriteCancelled, Handless
  <2>2. QED
    BY <1>0, <1>25, <2>1, Maps DEF WriteCancelled, UpdateStatus, Solo, WorkerSolo
<1>26. ASSUME NEW w \in Workers, MarkRunning(w) PROVE status'[j] \in {status[j], "expired"}
  <2>1. job[w] \in Jobs
    BY <1>26, InHand DEF MarkRunning, Handless
  <2>2. QED
    BY <1>0, <1>26, <2>1, Maps DEF MarkRunning, UpdateStatus, Solo, WorkerSolo
<1>27. ASSUME NEW w \in Workers, CountAttempt(w) PROVE status'[j] \in {status[j], "expired"}
  BY <1>27 DEF CountAttempt
<1>28. ASSUME NEW w \in Workers, NEW o \in Outcomes, AgentEnds(w, o)
       PROVE  status'[j] \in {status[j], "expired"}
  BY <1>28 DEF AgentEnds
<1>29. ASSUME NEW w \in Workers, RecordOutcome(w) PROVE status'[j] \in {status[j], "expired"}
  BY <1>29 DEF RecordOutcome
<1>30. ASSUME NEW w \in Workers, WriteStatus(w) PROVE status'[j] \in {status[j], "expired"}
  <2>1. job[w] \in Jobs
    BY <1>30, InHand DEF WriteStatus, Handless
  <2>2. QED
    BY <1>0, <1>30, <2>1, Maps DEF WriteStatus, UpdateStatus, Solo, WorkerSolo
<1>31. ASSUME NEW w \in Workers, ScheduleDelayed(w) PROVE status'[j] \in {status[j], "expired"}
  BY <1>31 DEF ScheduleDelayed
<1>32. ASSUME NEW w \in Workers, Abandon(w) PROVE status'[j] \in {status[j], "expired"}
  BY <1>32 DEF Abandon
<1>33. CASE UNCHANGED vars
  BY <1>33 DEF vars
<1>34. QED
  BY <1>1, <1>2, <1>3, <1>4, <1>5, <1>6, <1>7, <1>8, <1>9, <1>10, <1>11, <1>12, <1>13, <1>14,
     <1>15, <1>16, <1>17, <1>18, <1>19, <1>20, <1>21, <1>22, <1>23, <1>24, <1>25, <1>26, <1>27,
     <1>28, <1>29, <1>30, <1>31, <1>32, <1>33
     DEF Next, ClientStep, WorkerStep, AgentStep

-----------------------------------------------------------------------------
(* The theorems *)

\* The initial state.
LEMMA InitOK == Init => TypeOK /\ Inv /\ OneWriter /\ DoomedBound /\ IdempotencyBound
<1> SUFFICES ASSUME Init PROVE TypeOK /\ Inv /\ OneWriter /\ DoomedBound /\ IdempotencyBound
  OBVIOUS
<1>1. TypeOK
  BY DEF Init, TypeOK, HashType, QueueType, ClientType, WorkerType, AllStatuses, Errors, Jobless,
         Handless, SandboxPcs, Early, Executed
<1>2. Listed = {} /\ IsInjective(queue)
  BY DEF Init, Listed, ToSet, IsInjective
<1>3. Inv
  BY <1>2 DEF Init, Inv, Places, WorkersApart, OwnersApart, Apart, Fresh, WorkerInv, ClientInv,
              JobInv, KeyInv, Early, Executed
<1>4. OneWriter
  BY <1>2 DEF Init, OneWriter, Solo, WaitingSolo, WorkerSolo, ClientSolo, JobSolo
<1>5. DoomedBound
  <2>1. Doomed = {}
    BY DEF Init, Doomed, Undone
  <2>2. QED
    BY <2>1, FS_EmptySet DEF Init, DoomedBound
<1>6. IdempotencyBound
  <2>1. ASSUME NEW k \in Keys
        PROVE  created[k] = {} /\ {c \in Clients : cpc[c] = "create" /\ ckey[c] = k} = {}
    BY DEF Init
  <2>2. Cardinality(Clients) \in Nat /\ Cardinality({}) = 0
    BY FS_EmptySet, FS_CardinalityType
  <2>3. ASSUME NEW k \in Keys
        PROVE  /\ Cardinality(created[k]) = 0
               /\ Cardinality({c \in Clients : cpc[c] = "create" /\ ckey[c] = k}) = 0
    BY <2>1, <2>2
  <2>4. QED
    BY <2>2, <2>3 DEF IdempotencyBound
<1>7. QED
  BY <1>1, <1>3, <1>4, <1>5, <1>6

\* Every variable keeps its type, a request or a worker has a job exactly while
\* it has something to do with one, and only a sandbox's request is in the
\* sandbox branch (consumer_api.py, worker_service.py).
THEOREM TypeCorrect == Spec => []TypeOK
<1>1. Init => TypeOK
  BY InitOK
<1>2. QED
  BY <1>1, TypeInductive, PTL DEF Spec

\* A job is in one place, and each reader's knowledge of it is still true when
\* it writes (queueing.py, job_store.py, worker_service.py:66-117).
THEOREM InvHolds == Spec => []Inv
<1>1. Init => Inv
  BY InitOK
<1>2. QED
  BY <1>1, TypeCorrect, InvInductive, PTL DEF Spec

\* Where nothing posts to a sandbox, the queue's worker alone writes the status
\* of a job after its creation (worker_service.py:77-117).
THEOREM OneWriterHolds == Spec => []OneWriter
<1>1. Init => OneWriter
  BY InitOK
<1>2. QED
  BY <1>1, TypeCorrect, InvHolds, OneWriterInductive, PTL DEF Spec

\* No job is in two places at once, and every exception and every death costs at
\* most one job (queueing.py:44-52, worker_service.py:66-117).
THEOREM PlacedOnceHolds == Spec => []PlacedOnce
<1>1. Init => DoomedBound
  BY InitOK
<1>2. TypeOK /\ Inv /\ DoomedBound /\ [Next]_vars => DoomedBound'
  BY DoomedBoundInductive
<1>3. TypeOK /\ Inv /\ DoomedBound => PlacedOnce
  BY PlacesAreApart
<1>4. QED
  BY <1>1, <1>2, <1>3, TypeCorrect, InvHolds, PTL DEF Spec

\* A job runs at most max_attempts times, one that waits for a retry has attempts
\* left, and a cancel request stops it after the attempt under way
\* (worker_service.py:77-82 and 112-117).
THEOREM ExecutionsBoundHolds == Spec => []ExecutionsBound
<1>1. TypeOK /\ Inv => ExecutionsBound
  BY DEF Inv, JobInv, ExecutionsBound
<1>2. QED
  BY <1>1, TypeCorrect, InvHolds, PTL

\* A success has a result and a failure an error at every point between the
\* writers' commands (job_store.py, worker_service.py:94-117).
THEOREM OutcomeRecordedHolds == Spec => []OutcomeRecorded
<1>1. Inv /\ OneWriter => OutcomeRecorded
  BY DEF Inv, JobInv, OneWriter, Solo, JobSolo, OutcomeRecorded
<1>2. QED
  BY <1>1, InvHolds, OneWriterHolds, PTL

\* Only the requests that run side by side create more than one job under a key
\* (job_store.py:71 and 106).
THEOREM IdempotencyBoundHolds == Spec => []IdempotencyBound
<1>1. Init => IdempotencyBound
  BY InitOK
<1>2. TypeOK /\ TypeOK' /\ Inv /\ IdempotencyBound /\ [Next]_vars => IdempotencyBound'
  BY IdempotencyInductive
<1>3. QED
  BY <1>1, <1>2, TypeCorrect, InvHolds, PTL DEF Spec

\* Without a sandbox no step takes a final status back (worker_service.py:66-117
\* writes only jobs it popped, and those are unfinished).
THEOREM FinalIsFinalHolds == ASSUME ~ Sandbox PROVE Spec => FinalIsFinal
<1>1. TypeOK /\ Inv /\ OneWriter /\ [Next]_vars =>
        [\A j \in Jobs : status[j] \in Terminal => status'[j] \in {status[j], "expired"}]_vars
  BY FinalStep
<1>2. QED
  BY <1>1, TypeCorrect, InvHolds, OneWriterHolds, PTL DEF Spec, FinalIsFinal
=============================================================================

--------------------------- MODULE RunQueueProofs ---------------------------
(***************************************************************************)
(* Safety of the Redis run queue, for any number of jobs and workers and   *)
(* any numbers of crashes and lost replies.                                *)
(*                                                                         *)
(* No property of RunQueue is inductive by itself.  Inv says where a job   *)
(* is: in the list, in the hands of one worker, or with nobody; and what   *)
(* its hash then holds.                                                    *)
(***************************************************************************)
EXTENDS RunQueue, FiniteSetTheorems, TLAPS

USE RunQueueAssumption

TypeOK ==
    /\ status \in [Jobs -> Statuses \union {"absent"}]
    /\ code \in [Jobs -> Codes \union {"none"}]
    /\ result \subseteq Jobs
    /\ pending \in Seq(Jobs)
    /\ counts \in [Statuses -> Int]
    /\ failures \in [Codes -> Nat]
    /\ stored \subseteq Jobs
    /\ started \in [Jobs -> Nat]
    /\ pc \in [Workers -> {"idle", "claimed", "marked", "running", "draining",
                           "finished", "raised", "dead"}]
    /\ job \in [Workers -> Jobs \union {NoJob}]
    /\ raised \in [Workers -> Codes \union {"none"}]
    /\ \A w \in Workers : /\ pc[w] \in {"idle", "dead"} <=> job[w] = NoJob
                          /\ pc[w] = "raised" => raised[w] \in Codes
    /\ faults \in 0 .. MaxFaults /\ crashes \in 0 .. MaxCrashes

\* A job is listed once, and held by one worker.
PlaceInv ==
    /\ \A i, k \in DOMAIN pending : pending[i] = pending[k] => i = k
    /\ \A v, w \in Workers : job[v] = job[w] /\ job[v] # NoJob => v = w
    /\ \A i \in DOMAIN pending :
          /\ status[pending[i]] = "queued" /\ started[pending[i]] = 0
          /\ \A w \in Workers : job[w] # pending[i]

\* The worker's position against its job's hash.
WorkerInv(w) ==
    /\ pc[w] = "claimed" => status[job[w]] = "queued" /\ started[job[w]] = 0
    /\ pc[w] = "marked" => status[job[w]] = "running" /\ started[job[w]] = 0
    /\ pc[w] \in {"running", "draining"} =>
          status[job[w]] = "running" /\ started[job[w]] = 1 /\ job[w] \notin stored
    /\ pc[w] = "finished" =>
          status[job[w]] = "running" /\ started[job[w]] = 1 /\ job[w] \in stored
    /\ pc[w] = "raised" =>
          /\ started[job[w]] = 1
          /\ job[w] \in stored => raised[w] \in {"TIMEOUT", "INTERNAL_ERROR"}
          /\ \/ status[job[w]] = "running"
             \/ status[job[w]] = "succeeded" /\ raised[w] = "INTERNAL_ERROR" /\ faults > 0

JobInv(j) ==
    /\ started[j] <= 1
    /\ j \in stored => started[j] = 1
    /\ status[j] = "absent" => started[j] = 0

Inv ==
    /\ PlaceInv
    /\ \A w \in Workers : WorkerInv(w)
    /\ \A j \in Jobs : JobInv(j)
    /\ ReportedOutcome

-----------------------------------------------------------------------------
(* Type correctness *)

LEMMA Holder ==
    ASSUME TypeOK, NEW w \in Workers, pc[w] \notin {"idle", "dead"}
    PROVE  job[w] \in Jobs
  BY DEF TypeOK

LEMMA RecountType ==
    ASSUME counts \in [Statuses -> Int], NEW from \in Statuses, NEW to \in Statuses,
           Recount(from, to)
    PROVE  counts' \in [Statuses -> Int]
  BY DEF Recount, Statuses

LEMMA TypeInductive == TypeOK /\ [Next]_vars => TypeOK'
<1> USE DEF Codes, Statuses, redisVars, workerVars, envVars
<1> SUFFICES ASSUME TypeOK, [Next]_vars PROVE TypeOK'
  OBVIOUS
<1>1. ASSUME NEW j \in Jobs, Enqueue(j) PROVE TypeOK'
  BY <1>1 DEF TypeOK, Enqueue
<1>2. ASSUME NEW w \in Workers, Claim(w) PROVE TypeOK'
  <2>1. pending' \in Seq(Jobs) /\ Head(pending) \in Jobs
    BY <1>2 DEF TypeOK, Claim, PopFirst
  <2>2. /\ job' = [job EXCEPT ![w] = Head(pending)] /\ pc' = [pc EXCEPT ![w] = "claimed"]
        /\ UNCHANGED <<status, code, result, counts, failures, stored, started, raised, envVars>>
    BY <1>2 DEF Claim, Goto
  <2>3. QED
    BY <2>1, <2>2 DEF TypeOK
<1>3. ASSUME NEW w \in Workers, MarkRunning(w) PROVE TypeOK'
  <2>1. status' = [status EXCEPT ![job[w]] = "running"] /\ pc' = [pc EXCEPT ![w] = "marked"]
    BY <1>3 DEF MarkRunning, Goto
  <2>2. UNCHANGED <<code, result, pending, counts, failures, stored, started, job, raised, envVars>>
    BY <1>3 DEF MarkRunning
  <2>3. pc[w] = "claimed"
    BY <1>3 DEF MarkRunning
  <2>4. QED
    BY <2>1, <2>2, <2>3 DEF TypeOK
<1>4. ASSUME NEW w \in Workers, MarkCounts(w) PROVE TypeOK'
  <2>1. counts' \in [Statuses -> Int]
    BY <1>4, RecountType DEF TypeOK, MarkCounts
  <2>2. /\ started' = [started EXCEPT ![job[w]] = @ + 1] /\ pc' = [pc EXCEPT ![w] = "running"]
        /\ pc[w] = "marked"
        /\ UNCHANGED <<status, code, result, pending, failures, stored, job, raised, envVars>>
    BY <1>4 DEF MarkCounts, Goto
  <2>3. started' \in [Jobs -> Nat]
    <3>1. job[w] \in Jobs /\ started \in [Jobs -> Nat]
      BY <2>2, Holder DEF TypeOK
    <3>2. QED
      BY <2>2, <3>1
  <2>4. QED
    BY <2>1, <2>2, <2>3 DEF TypeOK
<1>5. ASSUME NEW w \in Workers, CompleteSuccess(w) PROVE TypeOK'
  <2>1. counts' \in [Statuses -> Int]
    BY <1>5, RecountType DEF TypeOK, CompleteSuccess, WriteSuccess
  <2>2. QED
    BY <1>5, <2>1 DEF TypeOK, CompleteSuccess, WriteSuccess, Release, Goto
<1>6. ASSUME NEW w \in Workers, CompleteFailure(w) PROVE TypeOK'
  <2>1. counts' \in [Statuses -> Int]
    BY <1>6, RecountType DEF TypeOK, CompleteFailure, WriteFailure
  <2>2. /\ status' \in [Jobs -> Statuses \union {"absent"}] /\ code' \in [Jobs -> Codes \union {"none"}]
        /\ failures' \in [Codes -> Nat]
        /\ UNCHANGED <<result, pending, stored, started, envVars>>
    <3>1. pc[w] = "raised" /\ WriteFailure(job[w], raised[w]) /\ UNCHANGED <<stored, started, envVars>>
      BY <1>6 DEF CompleteFailure
    <3>2. job[w] \in Jobs /\ raised[w] \in Codes
      BY <3>1, Holder DEF TypeOK
    <3>3. status \in [Jobs -> Statuses \union {"absent"}] /\ code \in [Jobs -> Codes \union {"none"}]
          /\ failures \in [Codes -> Nat]
      BY DEF TypeOK
    <3>4. status' = [status EXCEPT ![job[w]] = "failed"] /\ code' = [code EXCEPT ![job[w]] = raised[w]]
          /\ failures' = [failures EXCEPT ![raised[w]] = @ + 1] /\ UNCHANGED <<result, pending>>
      BY <3>1 DEF WriteFailure
    <3>5. QED
      BY <3>1, <3>2, <3>3, <3>4
  <2>3. Release(w)
    BY <1>6 DEF CompleteFailure
  <2>4. QED
    BY <2>1, <2>2, <2>3 DEF TypeOK, Release, Goto
<1>7. ASSUME NEW w \in Workers, Restart(w) PROVE TypeOK'
  BY <1>7 DEF TypeOK, Restart, Goto
<1>8. ASSUME NEW w \in Workers, RunReturns(w) PROVE TypeOK'
  BY <1>8 DEF TypeOK, RunReturns, Goto
<1>9. ASSUME NEW w \in Workers, NEW c \in EngineCodes, RunRaises(w, c) PROVE TypeOK'
  BY <1>9 DEF TypeOK, RunRaises, Goto
<1>10. ASSUME NEW w \in Workers, NEW ok \in BOOLEAN, RunDrains(w, ok) PROVE TypeOK'
  BY <1>10 DEF TypeOK, RunDrains, Goto
<1>11. ASSUME NEW w \in Workers, RunTimesOut(w) PROVE TypeOK'
  BY <1>11 DEF TypeOK, RunTimesOut, Goto
<1>12. ASSUME NEW w \in Workers, NEW executed \in BOOLEAN, SuccessFault(w, executed) PROVE TypeOK'
  <2>1. CASE executed
    <3>1. counts' \in [Statuses -> Int]
      BY <1>12, <2>1, RecountType DEF TypeOK, SuccessFault, WriteSuccess
    <3>2. /\ status' \in [Jobs -> Statuses \union {"absent"}] /\ result' \subseteq Jobs
          /\ UNCHANGED <<code, pending, failures, stored, started, job, crashes>>
      <4>1. pc[w] = "finished" /\ WriteSuccess(job[w]) /\ UNCHANGED <<stored, started, job, crashes>>
        BY <1>12, <2>1 DEF SuccessFault
      <4>2. job[w] \in Jobs
        BY <4>1, Holder
      <4>3. QED
        BY <4>1, <4>2 DEF TypeOK, WriteSuccess
    <3>3. /\ raised' = [raised EXCEPT ![w] = "INTERNAL_ERROR"] /\ pc' = [pc EXCEPT ![w] = "raised"]
          /\ pc[w] = "finished" /\ faults' \in 0 .. MaxFaults
      BY <1>12 DEF TypeOK, SuccessFault, Goto
    <3>4. QED
      BY <3>1, <3>2, <3>3 DEF TypeOK
  <2>2. CASE ~ executed
    BY <1>12, <2>2 DEF TypeOK, SuccessFault, Goto
  <2>3. QED
    BY <2>1, <2>2
<1>13. ASSUME NEW w \in Workers, Crash(w) PROVE TypeOK'
  BY <1>13 DEF TypeOK, Crash, Goto
<1>14. CASE UNCHANGED vars
  BY <1>14 DEF TypeOK, vars
<1>15. QED
  BY <1>1, <1>2, <1>3, <1>4, <1>5, <1>6, <1>7, <1>8, <1>9, <1>10, <1>11, <1>12, <1>13, <1>14
     DEF Next, WorkerStep, EngineStep

-----------------------------------------------------------------------------
(* The inductive invariant *)

LEMMA InvInit == Init => Inv
  BY DEF Init, Inv, PlaceInv, WorkerInv, JobInv, ReportedOutcome, Statuses

LEMMA InvInductive == TypeOK /\ Inv /\ [Next]_vars => Inv'
<1> USE DEF Codes, redisVars, workerVars, envVars
<1> SUFFICES ASSUME TypeOK, Inv, [Next]_vars PROVE Inv'
  OBVIOUS
<1>1. ASSUME NEW j \in Jobs, Enqueue(j) PROVE Inv'
  <2>2. PlaceInv'
    <3>1. /\ status[j] = "absent" /\ status' = [status EXCEPT ![j] = "queued"]
          /\ pending' = Append(pending, j) /\ UNCHANGED <<started, job>>
      BY <1>1 DEF Enqueue
    <3>2. ASSUME NEW w \in Workers PROVE job[w] # j
      <4>1. pc[w] \in {"claimed", "marked", "running", "draining", "finished", "raised"}
              => status[job[w]] # "absent"
        BY DEF Inv, WorkerInv
      <4>2. pc[w] \in {"idle", "dead"} => job[w] # j
        BY DEF TypeOK
      <4>3. QED
        BY <3>1, <4>1, <4>2 DEF TypeOK
    <3>3. started[j] = 0 /\ \A i \in DOMAIN pending : pending[i] # j
      BY <3>1 DEF Inv, PlaceInv, JobInv
    <3>4. /\ DOMAIN pending' = 1 .. Len(pending) + 1 /\ DOMAIN pending = 1 .. Len(pending)
          /\ pending'[Len(pending) + 1] = j
          /\ \A i \in DOMAIN pending : pending'[i] = pending[i] /\ pending[i] \in Jobs
      BY <3>1 DEF TypeOK
    <3>5. Len(pending) \in Nat
      BY DEF TypeOK
    <3>6. \A i, k \in DOMAIN pending' : pending'[i] = pending'[k] => i = k
      BY <3>3, <3>4, <3>5 DEF Inv, PlaceInv
    <3>7. ASSUME NEW i \in DOMAIN pending'
          PROVE  /\ status'[pending'[i]] = "queued" /\ started'[pending'[i]] = 0
                 /\ \A w \in Workers : job'[w] # pending'[i]
      <4>1. CASE i = Len(pending) + 1
        BY <3>1, <3>2, <3>3, <3>4, <4>1 DEF TypeOK
      <4>2. CASE i # Len(pending) + 1
        BY <3>1, <3>4, <3>5, <4>2 DEF Inv, PlaceInv, TypeOK
      <4>3. QED
        BY <4>1, <4>2
    <3>8. QED
      BY <3>1, <3>6, <3>7 DEF Inv, PlaceInv
  <2>3. ASSUME NEW v \in Workers PROVE WorkerInv(v)'
    BY <1>1, <2>3 DEF Enqueue, Inv, PlaceInv, WorkerInv, JobInv, TypeOK
  <2>4. ASSUME NEW k \in Jobs PROVE JobInv(k)'
    BY <1>1, <2>4 DEF Enqueue, Inv, WorkerInv, JobInv, TypeOK
  <2>5. ReportedOutcome'
    BY <1>1 DEF Enqueue, Inv, WorkerInv, JobInv, ReportedOutcome, TypeOK
  <2>6. QED
    BY <2>2, <2>3, <2>4, <2>5 DEF Inv
<1>2. ASSUME NEW w \in Workers, Claim(w) PROVE Inv'
  <2>2. PlaceInv'
    BY <1>2 DEF Claim, PopFirst, Goto, Inv, PlaceInv, WorkerInv, TypeOK
  <2>3. ASSUME NEW v \in Workers PROVE WorkerInv(v)'
    BY <1>2, <2>3 DEF Claim, PopFirst, Goto, Inv, PlaceInv, WorkerInv, JobInv, TypeOK
  <2>4. ASSUME NEW k \in Jobs PROVE JobInv(k)'
    BY <1>2, <2>4 DEF Claim, PopFirst, Goto, Inv, WorkerInv, JobInv, TypeOK
  <2>5. ReportedOutcome'
    BY <1>2 DEF Claim, PopFirst, Goto, Inv, WorkerInv, JobInv, ReportedOutcome, TypeOK
  <2>6. QED
    BY <2>2, <2>3, <2>4, <2>5 DEF Inv
<1>3. ASSUME NEW w \in Workers, MarkRunning(w) PROVE Inv'
  <2>1. job[w] \in Jobs
    BY <1>3, Holder DEF MarkRunning
  <2>2. PlaceInv'
    BY <1>3, <2>1 DEF MarkRunning, Goto, Inv, PlaceInv, WorkerInv, TypeOK
  <2>3. ASSUME NEW v \in Workers PROVE WorkerInv(v)'
    BY <1>3, <2>1, <2>3 DEF MarkRunning, Goto, Inv, PlaceInv, WorkerInv, JobInv, TypeOK
  <2>4. ASSUME NEW k \in Jobs PROVE JobInv(k)'
    BY <1>3, <2>1, <2>4 DEF MarkRunning, Goto, Inv, WorkerInv, JobInv, TypeOK
  <2>5. ReportedOutcome'
    BY <1>3, <2>1 DEF MarkRunning, Goto, Inv, WorkerInv, JobInv, ReportedOutcome, TypeOK
  <2>6. QED
    BY <2>2, <2>3, <2>4, <2>5 DEF Inv
<1>4. ASSUME NEW w \in Workers, MarkCounts(w) PROVE Inv'
  <2>1. job[w] \in Jobs
    BY <1>4, Holder DEF MarkCounts
  <2>2. PlaceInv'
    BY <1>4, <2>1 DEF MarkCounts, Recount, Goto, Inv, PlaceInv, WorkerInv, TypeOK
  <2>3. ASSUME NEW v \in Workers PROVE WorkerInv(v)'
    BY <1>4, <2>1, <2>3 DEF MarkCounts, Recount, Goto, Inv, PlaceInv, WorkerInv, JobInv, TypeOK
  <2>4. ASSUME NEW k \in Jobs PROVE JobInv(k)'
    BY <1>4, <2>1, <2>4 DEF MarkCounts, Recount, Goto, Inv, WorkerInv, JobInv, TypeOK
  <2>5. ReportedOutcome'
    BY <1>4, <2>1 DEF MarkCounts, Recount, Goto, Inv, WorkerInv, JobInv, ReportedOutcome, TypeOK
  <2>6. QED
    BY <2>2, <2>3, <2>4, <2>5 DEF Inv
<1>5. ASSUME NEW w \in Workers, CompleteSuccess(w) PROVE Inv'
  <2>1. job[w] \in Jobs
    BY <1>5, Holder DEF CompleteSuccess
  <2>2. PlaceInv'
    BY <1>5, <2>1 DEF CompleteSuccess, WriteSuccess, Release, Goto, Inv, PlaceInv, WorkerInv, TypeOK
  <2>3. ASSUME NEW v \in Workers PROVE WorkerInv(v)'
    BY <1>5, <2>1, <2>3 DEF CompleteSuccess, WriteSuccess, Release, Goto, Inv, PlaceInv, WorkerInv, JobInv, TypeOK
  <2>4. ASSUME NEW k \in Jobs PROVE JobInv(k)'
    BY <1>5, <2>1, <2>4 DEF CompleteSuccess, WriteSuccess, Release, Goto, Inv, WorkerInv, JobInv, TypeOK
  <2>5. ReportedOutcome'
    BY <1>5, <2>1 DEF CompleteSuccess, WriteSuccess, Release, Goto, Inv, WorkerInv, JobInv, ReportedOutcome, TypeOK
  <2>6. QED
    BY <2>2, <2>3, <2>4, <2>5 DEF Inv
<1>6. ASSUME NEW w \in Workers, CompleteFailure(w) PROVE Inv'
  <2>1. job[w] \in Jobs
    BY <1>6, Holder DEF CompleteFailure
  <2>2. PlaceInv'
    BY <1>6, <2>1 DEF CompleteFailure, WriteFailure, Release, Goto, Inv, PlaceInv, WorkerInv, TypeOK
  <2>3. ASSUME NEW v \in Workers PROVE WorkerInv(v)'
    BY <1>6, <2>1, <2>3 DEF CompleteFailure, WriteFailure, Release, Goto, Inv, PlaceInv, WorkerInv, JobInv, TypeOK
  <2>4. ASSUME NEW k \in Jobs PROVE JobInv(k)'
    BY <1>6, <2>1, <2>4 DEF CompleteFailure, WriteFailure, Release, Goto, Inv, WorkerInv, JobInv, TypeOK
  <2>5. ReportedOutcome'
    BY <1>6, <2>1 DEF CompleteFailure, WriteFailure, Release, Goto, Inv, WorkerInv, JobInv, ReportedOutcome, TypeOK
  <2>6. QED
    BY <2>2, <2>3, <2>4, <2>5 DEF Inv
<1>7. ASSUME NEW w \in Workers, Restart(w) PROVE Inv'
  <2>2. PlaceInv'
    BY <1>7 DEF Restart, Goto, Inv, PlaceInv, WorkerInv, TypeOK
  <2>3. ASSUME NEW v \in Workers PROVE WorkerInv(v)'
    BY <1>7, <2>3 DEF Restart, Goto, Inv, PlaceInv, WorkerInv, JobInv, TypeOK
  <2>4. ASSUME NEW k \in Jobs PROVE JobInv(k)'
    BY <1>7, <2>4 DEF Restart, Goto, Inv, WorkerInv, JobInv, TypeOK
  <2>5. ReportedOutcome'
    BY <1>7 DEF Restart, Goto, Inv, WorkerInv, JobInv, ReportedOutcome, TypeOK
  <2>6. QED
    BY <2>2, <2>3, <2>4, <2>5 DEF Inv
<1>8. ASSUME NEW w \in Workers, RunReturns(w) PROVE Inv'
  <2>1. job[w] \in Jobs
    BY <1>8, Holder DEF RunReturns
  <2>2. PlaceInv'
    BY <1>8, <2>1 DEF RunReturns, Goto, Inv, PlaceInv, WorkerInv, TypeOK
  <2>3. ASSUME NEW v \in Workers PROVE WorkerInv(v)'
    BY <1>8, <2>1, <2>3 DEF RunReturns, Goto, Inv, PlaceInv, WorkerInv, JobInv, TypeOK
  <2>4. ASSUME NEW k \in Jobs PROVE JobInv(k)'
    BY <1>8, <2>1, <2>4 DEF RunReturns, Goto, Inv, WorkerInv, JobInv, TypeOK
  <2>5. ReportedOutcome'
    BY <1>8, <2>1 DEF RunReturns, Goto, Inv, WorkerInv, JobInv, ReportedOutcome, TypeOK
  <2>6. QED
    BY <2>2, <2>3, <2>4, <2>5 DEF Inv
<1>9. ASSUME NEW w \in Workers, NEW c \in EngineCodes, RunRaises(w, c) PROVE Inv'
  <2>1. job[w] \in Jobs
    BY <1>9, Holder DEF RunRaises
  <2>2. PlaceInv'
    BY <1>9, <2>1 DEF RunRaises, Goto, Inv, PlaceInv, WorkerInv, TypeOK
  <2>3. ASSUME NEW v \in Workers PROVE WorkerInv(v)'
    BY <1>9, <2>1, <2>3 DEF RunRaises, Goto, Inv, PlaceInv, WorkerInv, JobInv, TypeOK
  <2>4. ASSUME NEW k \in Jobs PROVE JobInv(k)'
    BY <1>9, <2>1, <2>4 DEF RunRaises, Goto, Inv, WorkerInv, JobInv, TypeOK
  <2>5. ReportedOutcome'
    BY <1>9, <2>1 DEF RunRaises, Goto, Inv, WorkerInv, JobInv, ReportedOutcome, TypeOK
  <2>6. QED
    BY <2>2, <2>3, <2>4, <2>5 DEF Inv
<1>10. ASSUME NEW w \in Workers, NEW ok \in BOOLEAN, RunDrains(w, ok) PROVE Inv'
  <2>1. job[w] \in Jobs
    BY <1>10, Holder DEF RunDrains
  <2>2. PlaceInv'
    BY <1>10, <2>1 DEF RunDrains, Goto, Inv, PlaceInv, WorkerInv, TypeOK
  <2>3. ASSUME NEW v \in Workers PROVE WorkerInv(v)'
    BY <1>10, <2>1, <2>3 DEF RunDrains, Goto, Inv, PlaceInv, WorkerInv, JobInv, TypeOK
  <2>4. ASSUME NEW k \in Jobs PROVE JobInv(k)'
    BY <1>10, <2>1, <2>4 DEF RunDrains, Goto, Inv, WorkerInv, JobInv, TypeOK
  <2>5. ReportedOutcome'
    BY <1>10, <2>1 DEF RunDrains, Goto, Inv, WorkerInv, JobInv, ReportedOutcome, TypeOK
  <2>6. QED
    BY <2>2, <2>3, <2>4, <2>5 DEF Inv
<1>11. ASSUME NEW w \in Workers, RunTimesOut(w) PROVE Inv'
  <2>1. job[w] \in Jobs
    BY <1>11, Holder DEF RunTimesOut
  <2>2. PlaceInv'
    BY <1>11, <2>1 DEF RunTimesOut, Goto, Inv, PlaceInv, WorkerInv, TypeOK
  <2>3. ASSUME NEW v \in Workers PROVE WorkerInv(v)'
    BY <1>11, <2>1, <2>3 DEF RunTimesOut, Goto, Inv, PlaceInv, WorkerInv, JobInv, TypeOK
  <2>4. ASSUME NEW k \in Jobs PROVE JobInv(k)'
    BY <1>11, <2>1, <2>4 DEF RunTimesOut, Goto, Inv, WorkerInv, JobInv, TypeOK
  <2>5. ReportedOutcome'
    BY <1>11, <2>1 DEF RunTimesOut, Goto, Inv, WorkerInv, JobInv, ReportedOutcome, TypeOK
  <2>6. QED
    BY <2>2, <2>3, <2>4, <2>5 DEF Inv
<1>12. ASSUME NEW w \in Workers, NEW executed \in BOOLEAN, SuccessFault(w, executed) PROVE Inv'
  <2>1. job[w] \in Jobs
    BY <1>12, Holder DEF SuccessFault
  <2>2. PlaceInv'
    BY <1>12, <2>1 DEF SuccessFault, WriteSuccess, Goto, Inv, PlaceInv, WorkerInv, TypeOK
  <2>3. ASSUME NEW v \in Workers PROVE WorkerInv(v)'
    <3>1. CASE v = w
      BY <1>12, <2>1, <3>1 DEF SuccessFault, WriteSuccess, Goto, Inv, WorkerInv, TypeOK
    <3>2. CASE v # w
      <4>1. /\ job[v] = job[w] => job[v] = NoJob
            /\ pc'[v] = pc[v] /\ job'[v] = job[v] /\ raised'[v] = raised[v]
            /\ faults' = faults + 1 /\ UNCHANGED <<started, stored>>
        BY <1>12, <3>2 DEF SuccessFault, Goto, Inv, PlaceInv, TypeOK
      <4>2. \A k \in Jobs : k # job[w] => status'[k] = status[k]
        BY <1>12, <2>1 DEF SuccessFault, WriteSuccess, TypeOK
      <4>3. WorkerInv(v) /\ faults \in Nat
        BY DEF Inv, TypeOK
      <4>4. pc[v] \notin {"idle", "dead"} => job[v] \in Jobs /\ job[v] # job[w]
        BY <4>1, Holder DEF TypeOK
      <4>5. QED
        BY <4>1, <4>2, <4>3, <4>4 DEF WorkerInv
    <3>3. QED
      BY <3>1, <3>2
  <2>4. ASSUME NEW k \in Jobs PROVE JobInv(k)'
    BY <1>12, <2>1, <2>4 DEF SuccessFault, WriteSuccess, Goto, Inv, WorkerInv, JobInv, TypeOK
  <2>5. ReportedOutcome'
    BY <1>12, <2>1 DEF SuccessFault, WriteSuccess, Goto, Inv, WorkerInv, JobInv, ReportedOutcome, TypeOK
  <2>6. QED
    BY <2>2, <2>3, <2>4, <2>5 DEF Inv
<1>13. ASSUME NEW w \in Workers, Crash(w) PROVE Inv'
  <2>2. PlaceInv'
    BY <1>13 DEF Crash, Goto, Inv, PlaceInv, WorkerInv, TypeOK
  <2>3. ASSUME NEW v \in Workers PROVE WorkerInv(v)'
    BY <1>13, <2>3 DEF Crash, Goto, Inv, PlaceInv, WorkerInv, JobInv, TypeOK
  <2>4. ASSUME NEW k \in Jobs PROVE JobInv(k)'
    BY <1>13, <2>4 DEF Crash, Goto, Inv, WorkerInv, JobInv, TypeOK
  <2>5. ReportedOutcome'
    BY <1>13 DEF Crash, Goto, Inv, WorkerInv, JobInv, ReportedOutcome, TypeOK
  <2>6. QED
    BY <2>2, <2>3, <2>4, <2>5 DEF Inv
<1>14. CASE UNCHANGED vars
  BY <1>14 DEF Inv, PlaceInv, WorkerInv, JobInv, ReportedOutcome, vars
<1>15. QED
  BY <1>1, <1>2, <1>3, <1>4, <1>5, <1>6, <1>7, <1>8, <1>9, <1>10, <1>11, <1>12, <1>13, <1>14
     DEF Next, WorkerStep, EngineStep

-----------------------------------------------------------------------------
(* Theorems *)

\* The type invariant holds in every reachable state.
THEOREM TypeCorrect == Spec => []TypeOK
<1>1. Init => TypeOK
  BY DEF Init, TypeOK, Statuses
<1>2. QED
  BY <1>1, TypeInductive, PTL DEF Spec

\* The list, the workers and the hashes agree about every job.
THEOREM InvHolds == Spec => []Inv
  BY InvInit, InvInductive, TypeCorrect, PTL DEF Spec

\* A success has its result and its experiment; a failure with an experiment is a
\* timeout or a complete_success that raised (worker.py:31-33, 123, 168).
THEOREM ReportedOutcomeHolds == Spec => []ReportedOutcome
<1>1. Inv => ReportedOutcome
  BY DEF Inv
<1>2. QED
  BY <1>1, InvHolds, PTL

-----------------------------------------------------------------------------
(* Stranded jobs *)

LEMMA RangeAppend ==
    ASSUME NEW s \in Seq(Jobs), NEW j \in Jobs
    PROVE  j \in Range(Append(s, j)) /\ Range(s) \subseteq Range(Append(s, j))
<1>1. /\ Len(s) + 1 \in DOMAIN Append(s, j) /\ Append(s, j)[Len(s) + 1] = j
      /\ \A i \in DOMAIN s : i \in DOMAIN Append(s, j) /\ Append(s, j)[i] = s[i]
  OBVIOUS
<1>2. QED
  BY <1>1 DEF Range

LEMMA RangeTail ==
    ASSUME NEW s \in Seq(Jobs), s # <<>>
    PROVE  Range(s) \subseteq Range(Tail(s)) \union {Head(s)}
<1> SUFFICES ASSUME NEW i \in DOMAIN s, s[i] # Head(s) PROVE s[i] \in Range(Tail(s))
  BY DEF Range
<1>1. i - 1 \in DOMAIN Tail(s) /\ Tail(s)[i - 1] = s[i]
  OBVIOUS
<1>2. QED
  BY <1>1 DEF Range

LEMMA StrandedStep ==
    ASSUME TypeOK, Inv, [Next]_vars
    PROVE  \/ crashes' = crashes /\ Stranded' \subseteq Stranded
           \/ /\ crashes' = crashes + 1
              /\ \E j \in Jobs \union {NoJob} : Stranded' \subseteq Stranded \union {j}
<1> USE DEF redisVars, workerVars, envVars
<1>1. ASSUME NEW j \in Jobs, Enqueue(j) PROVE crashes' = crashes /\ Stranded' \subseteq Stranded
  <2>1. Range(pending') = Range(Append(pending, j)) /\ pending \in Seq(Jobs)
    BY <1>1 DEF Enqueue, TypeOK
  <2>2. j \in Range(pending') /\ Range(pending) \subseteq Range(pending')
    BY <2>1, RangeAppend
  <2>3. QED
    BY <1>1, <2>2 DEF Enqueue, Stranded, TypeOK
<1>2. ASSUME NEW w \in Workers, Claim(w) PROVE crashes' = crashes /\ Stranded' \subseteq Stranded
  <2>1. /\ pending' = Tail(pending) /\ pending # <<>> /\ job' = [job EXCEPT ![w] = Head(pending)]
        /\ pc[w] = "idle" /\ UNCHANGED <<status, crashes>>
    BY <1>2 DEF Claim, PopFirst
  <2>2. Range(pending) \subseteq Range(pending') \union {Head(pending)}
    BY <2>1, RangeTail DEF TypeOK
  <2>3. job[w] = NoJob
    BY <2>1 DEF TypeOK
  <2>4. QED
    BY <2>1, <2>2, <2>3 DEF Stranded, TypeOK
<1>3. ASSUME NEW w \in Workers, MarkRunning(w) PROVE crashes' = crashes /\ Stranded' \subseteq Stranded
  BY <1>3 DEF MarkRunning, Stranded, TypeOK
<1>4. ASSUME NEW w \in Workers,
             \/ MarkCounts(w) \/ RunReturns(w) \/ (\E c \in EngineCodes : RunRaises(w, c))
             \/ (\E ok \in BOOLEAN : RunDrains(w, ok)) \/ RunTimesOut(w) \/ Restart(w)
      PROVE  crashes' = crashes /\ Stranded' \subseteq Stranded
  <2>1. UNCHANGED <<status, pending, job, crashes>>
    BY <1>4 DEF MarkCounts, RunReturns, RunRaises, RunDrains, RunTimesOut, Restart
  <2>2. QED
    BY <2>1 DEF Stranded
<1>5. ASSUME NEW w \in Workers, CompleteSuccess(w) \/ CompleteFailure(w)
      PROVE  crashes' = crashes /\ Stranded' \subseteq Stranded
  <2>1. /\ job[w] \in Jobs /\ status'[job[w]] \in Terminal
        /\ \A k \in Jobs : k # job[w] => status'[k] = status[k]
    BY <1>5, Holder DEF CompleteSuccess, CompleteFailure, WriteSuccess, WriteFailure, Terminal, TypeOK
  <2>2. job' = [job EXCEPT ![w] = NoJob] /\ UNCHANGED <<pending, crashes>>
    BY <1>5 DEF CompleteSuccess, CompleteFailure, WriteSuccess, WriteFailure, Release
  <2>3. QED
    BY <2>1, <2>2 DEF Stranded, Terminal, TypeOK
<1>6. ASSUME NEW w \in Workers, NEW executed \in BOOLEAN, SuccessFault(w, executed)
      PROVE  crashes' = crashes /\ Stranded' \subseteq Stranded
  <2>1. UNCHANGED <<job, pending, crashes>>
    BY <1>6 DEF SuccessFault, WriteSuccess
  <2>2. \A k \in Jobs : k # job[w] => status'[k] = status[k]
    BY <1>6 DEF SuccessFault, WriteSuccess, TypeOK
  <2>3. QED
    BY <2>1, <2>2 DEF Stranded, TypeOK
<1>7. ASSUME NEW w \in Workers, Crash(w)
      PROVE  crashes' = crashes + 1 /\ Stranded' \subseteq Stranded \union {job[w]}
  BY <1>7 DEF Crash, Stranded, TypeOK
<1>8. CASE UNCHANGED vars
  BY <1>8 DEF Stranded, vars
<1>9. job \in [Workers -> Jobs \union {NoJob}]
  BY DEF TypeOK
<1>10. QED
  BY <1>1, <1>2, <1>3, <1>4, <1>5, <1>6, <1>7, <1>8, <1>9 DEF Next, WorkerStep, EngineStep

\* BLPOP hands a job to one worker (run_queue.py:76): it reaches the engine at
\* most once, and a dead worker strands at most the job it held.
THEOREM ClaimedOnceHolds == Spec => []ClaimedOnce
<1> DEFINE Bound == Cardinality(Stranded) <= crashes
<1>1. Init => Bound
  <2> SUFFICES ASSUME Init PROVE Bound
    OBVIOUS
  <2>1. Stranded = {} /\ crashes = 0
    BY DEF Init, Stranded
  <2>2. QED
    BY <2>1, FS_EmptySet
<1>2. TypeOK /\ Inv /\ Bound /\ [Next]_vars => Bound'
  <2> SUFFICES ASSUME TypeOK, Inv, Bound, [Next]_vars PROVE Bound'
    OBVIOUS
  <2>1. IsFiniteSet(Stranded) /\ Cardinality(Stranded) \in Nat
    BY FS_Subset, FS_CardinalityType DEF Stranded
  <2>2. crashes \in Nat
    BY DEF TypeOK
  <2>3. CASE crashes' = crashes /\ Stranded' \subseteq Stranded
    BY <2>1, <2>2, <2>3, FS_Subset, FS_CardinalityType
  <2>4. ASSUME NEW j, crashes' = crashes + 1, Stranded' \subseteq Stranded \union {j} PROVE Bound'
    <3>1. /\ IsFiniteSet(Stranded \union {j})
          /\ Cardinality(Stranded \union {j}) <= Cardinality(Stranded) + 1
      BY <2>1, FS_AddElement
    <3>2. /\ Cardinality(Stranded') <= Cardinality(Stranded \union {j})
          /\ Cardinality(Stranded \union {j}) \in Nat /\ Cardinality(Stranded') \in Nat
      BY <2>4, <3>1, FS_Subset, FS_CardinalityType
    <3>3. QED
      BY <2>1, <2>2, <2>4, <3>1, <3>2
  <2>5. QED
    BY <2>3, <2>4, StrandedStep
<1>3. Inv /\ Bound => ClaimedOnce
  BY DEF Inv, JobInv, ClaimedOnce
<1>4. QED
  BY <1>1, <1>2, <1>3, TypeCorrect, InvHolds, PTL DEF Spec

-----------------------------------------------------------------------------
(* Counters *)

Known == {j \in Jobs : status[j] # "absent"}
Total == counts["queued"] + counts["running"] + counts["succeeded"] + counts["failed"]

LEMMA CountSets ==
    /\ IsFiniteSet(Known) /\ Cardinality(Known) \in Nat
    /\ \A s : IsFiniteSet(With(s)) /\ Cardinality(With(s)) \in Nat
    /\ \A p : IsFiniteSet(At(p)) /\ Cardinality(At(p)) \in Nat
<1>1. Known \subseteq Jobs
  BY DEF Known
<1>2. \A s : With(s) \subseteq Jobs
  BY DEF With
<1>3. \A p : At(p) \subseteq Workers
  BY DEF At
<1>4. QED
  BY <1>1, <1>2, <1>3, FS_Subset, FS_CardinalityType

\* A job moves from one state to another.
LEMMA JobMoves ==
    ASSUME TypeOK, NEW j \in Jobs, NEW a, NEW b, a # b, status[j] = a,
           status' = [status EXCEPT ![j] = b]
    PROVE  /\ Cardinality(With(a)') = Cardinality(With(a)) - 1
           /\ Cardinality(With(b)') = Cardinality(With(b)) + 1
           /\ \A s : s \notin {a, b} => With(s)' = With(s)
<1>1. With(a)' = With(a) \ {j} /\ j \in With(a)
  BY DEF With, TypeOK
<1>2. With(b)' = With(b) \union {j} /\ j \notin With(b)
  BY DEF With, TypeOK
<1>3. \A s : s \notin {a, b} => With(s)' = With(s)
  BY DEF With, TypeOK
<1>4. Cardinality(With(a)') = Cardinality(With(a)) - 1
  <2>1. IsFiniteSet(With(a))
    BY CountSets
  <2>2. Cardinality(With(a) \ {j}) = Cardinality(With(a)) - 1
    BY <1>1, <2>1, FS_RemoveElement
  <2>3. QED
    BY <1>1, <2>2
<1>5. Cardinality(With(b)') = Cardinality(With(b)) + 1
  BY <1>2, CountSets, FS_AddElement
<1>6. QED
  BY <1>3, <1>4, <1>5

LEMMA WorkerEnters ==
    ASSUME TypeOK, NEW w \in Workers, NEW p, pc[w] # "marked", p # "marked",
           pc' = [pc EXCEPT ![w] = p]
    PROVE  At("marked")' = At("marked")
  BY DEF At, TypeOK

LEMMA RecountTotal ==
    ASSUME TypeOK, NEW from \in Statuses, NEW to \in Statuses, from # to, Recount(from, to)
    PROVE  /\ Total' = Total
           /\ counts'[from] = counts[from] - 1 /\ counts'[to] = counts[to] + 1
           /\ \A s \in Statuses \ {from, to} : counts'[s] = counts[s]
<1>1. counts \in [Statuses -> Int]
  BY DEF TypeOK
<1>2. /\ counts'[from] = counts[from] - 1 /\ counts'[to] = counts[to] + 1
      /\ \A s \in Statuses \ {from, to} : counts'[s] = counts[s]
  BY <1>1 DEF Recount
<1>3. /\ counts["queued"] \in Int /\ counts["running"] \in Int
      /\ counts["succeeded"] \in Int /\ counts["failed"] \in Int
  BY <1>1 DEF Statuses
<1>4. Total' = Total
  <2>1. CASE from = "queued"
    <3>1. CASE to = "running"
      BY <1>2, <1>3, <2>1, <3>1 DEF Total, Statuses
    <3>2. CASE to = "succeeded"
      BY <1>2, <1>3, <2>1, <3>2 DEF Total, Statuses
    <3>3. CASE to = "failed"
      BY <1>2, <1>3, <2>1, <3>3 DEF Total, Statuses
    <3>4. QED
      BY <2>1, <3>1, <3>2, <3>3 DEF Statuses
  <2>2. CASE from = "running"
    <3>1. CASE to = "queued"
      BY <1>2, <1>3, <2>2, <3>1 DEF Total, Statuses
    <3>2. CASE to = "succeeded"
      BY <1>2, <1>3, <2>2, <3>2 DEF Total, Statuses
    <3>3. CASE to = "failed"
      BY <1>2, <1>3, <2>2, <3>3 DEF Total, Statuses
    <3>4. QED
      BY <2>2, <3>1, <3>2, <3>3 DEF Statuses
  <2>3. CASE from = "succeeded"
    <3>1. CASE to = "queued"
      BY <1>2, <1>3, <2>3, <3>1 DEF Total, Statuses
    <3>2. CASE to = "running"
      BY <1>2, <1>3, <2>3, <3>2 DEF Total, Statuses
    <3>3. CASE to = "failed"
      BY <1>2, <1>3, <2>3, <3>3 DEF Total, Statuses
    <3>4. QED
      BY <2>3, <3>1, <3>2, <3>3 DEF Statuses
  <2>4. CASE from = "failed"
    <3>1. CASE to = "queued"
      BY <1>2, <1>3, <2>4, <3>1 DEF Total, Statuses
    <3>2. CASE to = "running"
      BY <1>2, <1>3, <2>4, <3>2 DEF Total, Statuses
    <3>3. CASE to = "succeeded"
      BY <1>2, <1>3, <2>4, <3>3 DEF Total, Statuses
    <3>4. QED
      BY <2>4, <3>1, <3>2, <3>3 DEF Statuses
  <2>5. QED
    BY <2>1, <2>2, <2>3, <2>4 DEF Statuses
<1>5. QED
  BY <1>2, <1>4

LEMMA KnownKept ==
    ASSUME TypeOK, NEW j \in Jobs, status[j] # "absent", NEW s, s # "absent",
           status' = [status EXCEPT ![j] = s]
    PROVE  Known' = Known
  BY DEF Known, TypeOK

TotalExact == Total = Cardinality(Known)

LEMMA TotalInductive == TypeOK /\ Inv /\ TotalExact /\ [Next]_vars => TotalExact'
<1> USE DEF redisVars, workerVars, envVars
<1> SUFFICES ASSUME TypeOK, Inv, TotalExact, [Next]_vars PROVE TotalExact'
  OBVIOUS
<1>0. \A w \in Workers : pc[w] \in {"claimed", "marked", "finished", "raised"} =>
         job[w] \in Jobs /\ status[job[w]] \in {"queued", "running", "succeeded"}
  BY Holder DEF Inv, WorkerInv
<1>1. ASSUME NEW j \in Jobs, Enqueue(j) PROVE TotalExact'
  <2>1. Known' = Known \union {j} /\ j \notin Known
    BY <1>1 DEF Enqueue, Known, TypeOK
  <2>2. Cardinality(Known') = Cardinality(Known) + 1
    BY <2>1, CountSets, FS_AddElement
  <2>3. counts' = [counts EXCEPT !["queued"] = @ + 1] /\ counts \in [Statuses -> Int]
    BY <1>1 DEF Enqueue, TypeOK
  <2>4. Total' = Total + 1
    BY <2>3 DEF Total, Statuses
  <2>5. QED
    BY <2>2, <2>4 DEF TotalExact
<1>2. ASSUME NEW w \in Workers, MarkRunning(w) PROVE TotalExact'
  <2>1. Known' = Known /\ UNCHANGED counts
    BY <1>0, <1>2, KnownKept DEF MarkRunning
  <2>2. QED
    BY <2>1 DEF TotalExact, Total
<1>3. ASSUME NEW w \in Workers, MarkCounts(w) PROVE TotalExact'
  <2>1. Recount("queued", "running") /\ UNCHANGED status
    BY <1>3 DEF MarkCounts
  <2>2. QED
    BY <2>1, RecountTotal DEF TotalExact, Known, Statuses
<1>4. ASSUME NEW w \in Workers, CompleteSuccess(w) \/ CompleteFailure(w) PROVE TotalExact'
  <2>1. Known' = Known
    BY <1>0, <1>4, KnownKept DEF CompleteSuccess, CompleteFailure, WriteSuccess, WriteFailure
  <2>2. Recount("running", "succeeded") \/ Recount("running", "failed")
    BY <1>4 DEF CompleteSuccess, CompleteFailure, WriteSuccess, WriteFailure
  <2>3. QED
    BY <2>1, <2>2, RecountTotal DEF TotalExact, Statuses
<1>5. ASSUME NEW w \in Workers, NEW executed \in BOOLEAN, SuccessFault(w, executed) PROVE TotalExact'
  <2>1. CASE executed
    <3>1. Known' = Known /\ Recount("running", "succeeded")
      BY <1>0, <1>5, <2>1, KnownKept DEF SuccessFault, WriteSuccess
    <3>2. QED
      BY <3>1, RecountTotal DEF TotalExact, Statuses
  <2>2. CASE ~ executed
    BY <1>5, <2>2 DEF SuccessFault, TotalExact, Total, Known
  <2>3. QED
    BY <2>1, <2>2
<1>6. ASSUME UNCHANGED <<status, counts>> PROVE TotalExact'
  BY <1>6 DEF TotalExact, Total, Known
<1>7. QED
  BY <1>1, <1>2, <1>3, <1>4, <1>5, <1>6
     DEF Next, WorkerStep, EngineStep, Claim, Restart, RunReturns, RunRaises, RunDrains,
         RunTimesOut, Crash, vars

\* The counters of the states, while nothing failed.
StatesExact ==
    faults = 0 /\ crashes = 0 =>
      /\ counts["queued"] = Cardinality(With("queued")) + Cardinality(At("marked"))
      /\ counts["running"] = Cardinality(With("running")) - Cardinality(At("marked"))
      /\ counts["succeeded"] = Cardinality(With("succeeded"))
      /\ counts["failed"] = Cardinality(With("failed"))

LEMMA StatesInductive == TypeOK /\ Inv /\ StatesExact /\ [Next]_vars => StatesExact'
<1> USE DEF redisVars, workerVars, envVars
<1> SUFFICES ASSUME TypeOK, Inv, StatesExact, [Next]_vars, faults' = 0, crashes' = 0
             PROVE  StatesExact'
  BY DEF StatesExact
<1>0. \A s \in Statuses : counts[s] \in Int
  BY DEF TypeOK
<1>1. ASSUME NEW j \in Jobs, Enqueue(j) PROVE StatesExact'
  <2>1. /\ status[j] = "absent" /\ status' = [status EXCEPT ![j] = "queued"]
        /\ counts' = [counts EXCEPT !["queued"] = @ + 1] /\ UNCHANGED <<pc, faults, crashes>>
    BY <1>1 DEF Enqueue
  <2>2. /\ Cardinality(With("queued")') = Cardinality(With("queued")) + 1
        /\ \A s : s \notin {"absent", "queued"} => With(s)' = With(s)
    BY <2>1, JobMoves
  <2>3. At("marked")' = At("marked")
    BY <2>1 DEF At
  <2>4. counts'["queued"] = counts["queued"] + 1
        /\ \A s \in {"running", "succeeded", "failed"} : counts'[s] = counts[s]
    BY <2>1 DEF TypeOK, Statuses
  <2>5. QED
    BY <1>0, <2>1, <2>2, <2>3, <2>4, CountSets DEF StatesExact, Statuses
<1>2. ASSUME NEW w \in Workers, MarkRunning(w) PROVE StatesExact'
  <2>1. /\ pc[w] = "claimed" /\ pc' = [pc EXCEPT ![w] = "marked"]
        /\ status' = [status EXCEPT ![job[w]] = "running"] /\ UNCHANGED <<counts, faults, crashes>>
    BY <1>2 DEF MarkRunning, Goto
  <2>2. job[w] \in Jobs /\ status[job[w]] = "queued"
    BY <2>1, Holder DEF Inv, WorkerInv
  <2>3. /\ Cardinality(With("queued")') = Cardinality(With("queued")) - 1
        /\ Cardinality(With("running")') = Cardinality(With("running")) + 1
        /\ \A s : s \notin {"queued", "running"} => With(s)' = With(s)
    BY <2>1, <2>2, JobMoves
  <2>4. At("marked")' = At("marked") \union {w} /\ w \notin At("marked")
    BY <2>1 DEF At, TypeOK
  <2>5. Cardinality(At("marked")') = Cardinality(At("marked")) + 1
    BY <2>4, CountSets, FS_AddElement
  <2>6. QED
    BY <1>0, <2>1, <2>3, <2>5, CountSets DEF StatesExact, Statuses
<1>3. ASSUME NEW w \in Workers, MarkCounts(w) PROVE StatesExact'
  <2>1. /\ pc[w] = "marked" /\ pc' = [pc EXCEPT ![w] = "running"]
        /\ Recount("queued", "running") /\ UNCHANGED <<status, faults, crashes>>
    BY <1>3 DEF MarkCounts, Goto
  <2>2. /\ counts'["queued"] = counts["queued"] - 1 /\ counts'["running"] = counts["running"] + 1
        /\ \A s \in {"succeeded", "failed"} : counts'[s] = counts[s]
    BY <2>1, RecountTotal DEF Statuses
  <2>3. At("marked")' = At("marked") \ {w} /\ w \in At("marked")
    BY <2>1 DEF At, TypeOK
  <2>4. Cardinality(At("marked")') = Cardinality(At("marked")) - 1
    BY <2>3, CountSets, FS_RemoveElement
  <2>5. \A s : With(s)' = With(s)
    BY <2>1 DEF With
  <2>6. QED
    BY <1>0, <2>1, <2>2, <2>4, <2>5, CountSets DEF StatesExact, Statuses
<1>4. ASSUME NEW w \in Workers, NEW s \in {"succeeded", "failed"},
             pc[w] \in {"finished", "raised"}, Recount("running", s),
             status' = [status EXCEPT ![job[w]] = s], pc' = [pc EXCEPT ![w] = "idle"],
             UNCHANGED <<faults, crashes>>
      PROVE  StatesExact'
  <2>1. job[w] \in Jobs /\ status[job[w]] = "running"
    BY <1>4, Holder DEF Inv, WorkerInv
  <2>2. /\ Cardinality(With("running")') = Cardinality(With("running")) - 1
        /\ Cardinality(With(s)') = Cardinality(With(s)) + 1
        /\ \A t : t \notin {"running", s} => With(t)' = With(t)
    BY <1>4, <2>1, JobMoves
  <2>3. /\ counts'["running"] = counts["running"] - 1 /\ counts'[s] = counts[s] + 1
        /\ \A t \in Statuses \ {"running", s} : counts'[t] = counts[t]
    BY <1>4, RecountTotal DEF Statuses
  <2>4. At("marked")' = At("marked")
    BY <1>4, WorkerEnters
  <2>5. QED
    BY <1>0, <1>4, <2>2, <2>3, <2>4, CountSets DEF StatesExact, Statuses
<1>5. ASSUME NEW w \in Workers, CompleteSuccess(w) PROVE StatesExact'
  BY <1>4, <1>5 DEF CompleteSuccess, WriteSuccess, Release, Goto
<1>6. ASSUME NEW w \in Workers, CompleteFailure(w) PROVE StatesExact'
  BY <1>4, <1>6 DEF CompleteFailure, WriteFailure, Release, Goto
<1>7. ASSUME UNCHANGED <<status, counts, faults, crashes>>, At("marked")' = At("marked")
      PROVE  StatesExact'
  <2>1. \A s : With(s)' = With(s)
    BY <1>7 DEF With
  <2>2. QED
    BY <1>7, <2>1 DEF StatesExact
<1>8. ASSUME NEW w \in Workers,
             \/ Claim(w) \/ RunReturns(w) \/ (\E c \in EngineCodes : RunRaises(w, c))
             \/ (\E ok \in BOOLEAN : RunDrains(w, ok)) \/ RunTimesOut(w) \/ Restart(w)
      PROVE  StatesExact'
  <2>1. /\ UNCHANGED <<status, counts, faults, crashes>> /\ pc[w] # "marked"
        /\ \E p : p # "marked" /\ pc' = [pc EXCEPT ![w] = p]
    BY <1>8 DEF Claim, RunReturns, RunRaises, RunDrains, RunTimesOut, Restart, Goto
  <2>2. QED
    BY <1>7, <2>1, WorkerEnters
<1>9. ASSUME NEW w \in Workers,
             Crash(w) \/ \E executed \in BOOLEAN : SuccessFault(w, executed)
      PROVE  FALSE
  BY <1>9 DEF Crash, SuccessFault, TypeOK
<1>10. CASE UNCHANGED vars
  BY <1>7, <1>10 DEF vars, At
<1>11. QED
  BY <1>1, <1>2, <1>3, <1>5, <1>6, <1>8, <1>9, <1>10 DEF Next, WorkerStep, EngineStep

\* The counters of /health (run_queue.py:95-153): the total is the number of jobs
\* whatever fails, and the states are exact while nothing does.
THEOREM CountsExactHolds == Spec => []CountsExact
<1>1. Init => TotalExact /\ StatesExact
  <2> SUFFICES ASSUME Init PROVE TotalExact /\ StatesExact
    OBVIOUS
  <2>1. Known = {} /\ At("marked") = {} /\ \A s \in Statuses : With(s) = {} /\ counts[s] = 0
    BY DEF Init, Known, At, With, Statuses
  <2>2. QED
    BY <2>1, FS_EmptySet DEF TotalExact, StatesExact, Total, Statuses
<1>2. TotalExact /\ StatesExact => CountsExact
  BY DEF TotalExact, StatesExact, CountsExact, Total, Known
<1>3. QED
  BY <1>1, <1>2, TotalInductive, StatesInductive, TypeCorrect, InvHolds, PTL DEF Spec

-----------------------------------------------------------------------------
(* Refinement *)

\* The Redis queue implements JobLifecycle: every job starts at most once and ends
\* once; only a success whose reply was lost is taken back, as an INTERNAL_ERROR.
THEOREM Refinement == Spec => LifecycleSpec
<1>1. Init => Lifecycle!Init
  BY DEF Init, Lifecycle!Init
<1>2. TypeOK /\ Inv /\ [Next]_vars => [Lifecycle!Next]_(Lifecycle!vars)
  <2> USE DEF redisVars, workerVars, envVars
  <2> SUFFICES ASSUME TypeOK, Inv, [Next]_vars PROVE [Lifecycle!Next]_(Lifecycle!vars)
    OBVIOUS
  <2>1. CASE UNCHANGED <<status, code, failures>>
    BY <2>1 DEF Lifecycle!vars
  <2>2. ASSUME NEW j \in Jobs, Enqueue(j) PROVE Lifecycle!Next
    <3>1. Lifecycle!Submit(j)
      BY <2>2 DEF Enqueue, Lifecycle!Submit, Lifecycle!Move, TypeOK
    <3>2. QED
      BY <3>1 DEF Lifecycle!Next
  <2>3. ASSUME NEW w \in Workers, MarkRunning(w) PROVE Lifecycle!Next
    <3>1. PICK j \in Jobs : j = job[w] /\ status[j] = "queued"
      BY <2>3, Holder DEF MarkRunning, Inv, WorkerInv
    <3>2. Lifecycle!Start(j)
      BY <2>3, <3>1 DEF MarkRunning, Lifecycle!Start, Lifecycle!Move, TypeOK
    <3>3. QED
      BY <3>2 DEF Lifecycle!Next
  <2>4. ASSUME NEW w \in Workers, pc[w] = "finished", WriteSuccess(job[w])
        PROVE  Lifecycle!Next
    <3>1. PICK j \in Jobs : j = job[w] /\ status[j] = "running"
      BY <2>4, Holder DEF Inv, WorkerInv
    <3>2. Lifecycle!Succeed(j)
      BY <2>4, <3>1 DEF WriteSuccess, Lifecycle!Succeed, Lifecycle!Move, TypeOK
    <3>3. QED
      BY <3>2 DEF Lifecycle!Next
  <2>5. ASSUME NEW w \in Workers, CompleteFailure(w) PROVE Lifecycle!Next
    <3>1. PICK j \in Jobs, c \in Codes : j = job[w] /\ c = raised[w] /\ pc[w] = "raised"
      BY <2>5, Holder DEF CompleteFailure, TypeOK
    <3>2. \/ status[j] = "running"
          \/ status[j] = "succeeded" /\ c = "INTERNAL_ERROR" /\ MaxFaults > 0
      BY <3>1 DEF Inv, WorkerInv, TypeOK
    <3>3. Lifecycle!Fail(j, c)
      BY <2>5, <3>1, <3>2
         DEF CompleteFailure, WriteFailure, Lifecycle!Fail, Lifecycle!Move, TypeOK
    <3>4. QED
      BY <3>3 DEF Lifecycle!Next
  <2>6. ASSUME NEW w \in Workers,
               CompleteSuccess(w) \/ \E executed \in BOOLEAN : SuccessFault(w, executed)
        PROVE  [Lifecycle!Next]_(Lifecycle!vars)
    <3>1. CASE pc[w] = "finished" /\ WriteSuccess(job[w])
      BY <2>4, <3>1
    <3>2. CASE UNCHANGED <<status, code, failures>>
      BY <2>1, <3>2
    <3>3. pc[w] = "finished" /\ (WriteSuccess(job[w]) \/ UNCHANGED <<status, code, failures>>)
      BY <2>6 DEF CompleteSuccess, SuccessFault
    <3>4. QED
      BY <3>1, <3>2, <3>3
  <2>7. ASSUME NEW w \in Workers,
               \/ Claim(w) \/ MarkCounts(w) \/ RunReturns(w) \/ RunTimesOut(w)
               \/ (\E c \in EngineCodes : RunRaises(w, c)) \/ (\E ok \in BOOLEAN : RunDrains(w, ok))
               \/ Restart(w) \/ Crash(w)
        PROVE  UNCHANGED <<status, code, failures>>
    BY <2>7 DEF Claim, MarkCounts, RunReturns, RunTimesOut, RunRaises, RunDrains, Restart, Crash
  <2>8. CASE UNCHANGED vars
    BY <2>1, <2>8 DEF vars
  <2>9. QED
    BY <2>1, <2>2, <2>3, <2>5, <2>6, <2>7, <2>8 DEF Next, WorkerStep, EngineStep
<1>3. QED
  BY <1>1, <1>2, TypeCorrect, InvHolds, PTL DEF Spec, LifecycleSpec, Lifecycle!Spec
=============================================================================

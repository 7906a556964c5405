--------------------------- MODULE JobQueueProofs ---------------------------
(***************************************************************************)
(* Safety of the embedded run queue, for any number of jobs, clients and   *)
(* workers, with and without timeouts.                                     *)
(*                                                                         *)
(* The properties of JobQueue are not inductive: whether a thread may      *)
(* touch a record depends on where every other thread is.  Inv states      *)
(* that, one conjunct per pair of variables that must agree.               *)
(***************************************************************************)
EXTENDS JobQueue, FiniteSetTheorems, TLAPS

USE JobQueueAssumption

-----------------------------------------------------------------------------
(* The inductive invariant *)

\* A client between insertion and submission owns a fresh record.
ClientInv ==
    /\ \A c \in Clients : clientPc[c] = "inserted" =>
          /\ clientJob[c] \in Jobs
          /\ status[clientJob[c]] \in {"queued", "failed"}
          /\ future[clientJob[c]] = "none"
    /\ \A c, d \in Clients :
          clientPc[c] = "inserted" /\ clientPc[d] = "inserted" /\ clientJob[c] = clientJob[d] => c = d

\* The executor's view of a job against the record and the pool thread.
FutureInv(j) ==
    /\ status[j] = "absent" => future[j] = "none"
    /\ future[j] = "none" => runPc[j] = "none"
    /\ future[j] = "pending" => runPc[j] = "none" /\ status[j] \in {"queued", "failed"}

\* The pool thread's position against the record.
ThreadInv(j) ==
    /\ runPc[j] = "begin" => status[j] \in {"queued", "failed"}
    /\ status[j] = "running" => runPc[j] \in {"arm", "call", "returned"}
    /\ runPc[j] \in {"arm", "call", "returned"} =>
          \/ status[j] = "running"
          \/ status[j] = "failed" /\ code[j] \in {"TIMEOUT", "CANCELLED"}
    /\ runPc[j] = "persist" => status[j] = "failed"
    /\ runPc[j] \in {"cleanup", "metrics"} => status[j] \in Terminal

\* What has been written outside the queue against the record.
OutputInv(j) ==
    /\ status[j] = "failed" => code[j] \in Codes
    /\ j \in persisting => status[j] = "failed"
    /\ runPc[j] \in {"none", "begin", "arm", "call", "persist"} => store[j] # "success"
    /\ runPc[j] = "returned" /\ status[j] = "running" => store[j] = "success"
    /\ metrics[j] # "none" => status[j] \in Terminal

Inv ==
    /\ ClientInv
    /\ \A j \in Jobs : FutureInv(j) /\ ThreadInv(j) /\ OutputInv(j)
    /\ StoreAgreement
    /\ MetricsAgreement

-----------------------------------------------------------------------------
(* Type correctness *)

\* The type invariant holds in every reachable state.
THEOREM TypeCorrect == Spec => []TypeOK
<1> USE DEF Codes, Terminal, recordVars, poolVars, clientVars, runVars, outVars, downVars
<1>1. Init => TypeOK
  BY DEF Init, TypeOK
<1>2. TypeOK /\ [Next]_vars => TypeOK'
  <2> SUFFICES ASSUME TypeOK, [Next]_vars PROVE TypeOK'
    OBVIOUS
  <2>1. ASSUME NEW c \in Clients, EnqueueCheck(c) PROVE TypeOK'
    BY <2>1 DEF TypeOK, EnqueueCheck
  <2>2. ASSUME NEW c \in Clients, NEW j \in Jobs, EnqueueInsert(c, j) PROVE TypeOK'
    BY <2>2 DEF TypeOK, EnqueueInsert
  <2>3. ASSUME NEW c \in Clients, EnqueueSubmit(c) PROVE TypeOK'
    <3> DEFINE j == clientJob[c]
    <3>1. j \in Jobs
      BY <2>3 DEF TypeOK, EnqueueSubmit
    <3>2. CASE ExecutorDown
      BY <2>3, <3>2 DEF TypeOK, EnqueueSubmit
    <3>3. CASE ~ExecutorDown
      <4>1. workq' = Append(workq, j) /\ workq \in Seq(Jobs)
        BY <2>3, <3>3, Zenon DEF TypeOK, EnqueueSubmit
      <4>2. workq' \in Seq(Jobs)
        BY <3>1, <4>1
      <4>3. future' = [future EXCEPT ![j] = "pending"] /\ UNCHANGED clientJob
        BY <2>3, <3>3, Zenon DEF EnqueueSubmit
      <4>4. clientPc' = [clientPc EXCEPT ![c] = "submitted"]
        BY <2>3, <3>3, Zenon DEF EnqueueSubmit
      <4>5. /\ clientPc' \in [Clients -> {"idle", "admitted", "inserted", "submitted"}]
            /\ \A d \in Clients : clientPc'[d] \in {"inserted", "submitted"} => clientJob'[d] \in Jobs
        BY <3>1, <4>3, <4>4 DEF TypeOK
      <4>6. future' \in [Jobs -> {"none", "pending", "running", "cancelled", "notified", "finished"}]
        BY <3>1, <4>3 DEF TypeOK
      <4>7. UNCHANGED <<recordVars, registered, runVars, outVars, downVars>>
        BY <2>3, Zenon DEF EnqueueSubmit
      <4>8. QED
        BY <4>2, <4>3, <4>5, <4>6, <4>7 DEF TypeOK
    <3>4. QED
      BY <3>2, <3>3
  <2>4. ASSUME NEW c \in Clients, EnqueueRegister(c) PROVE TypeOK'
    BY <2>4 DEF TypeOK, EnqueueRegister
  <2>5. ASSUME NEW j \in Jobs, Cancel(j) PROVE TypeOK'
    BY <2>5 DEF TypeOK, Cancel, Cancellable, MarkFailed, CancelFuture
  <2>6. ASSUME NEW j \in Jobs, PersistFailure(j) PROVE TypeOK'
    BY <2>6 DEF TypeOK, PersistFailure
  <2>7. ASSUME NEW j \in Jobs, PoolTake(j) PROVE TypeOK'
    <3>1. workq' \in Seq(Jobs)
      BY <2>7 DEF TypeOK, PoolTake
    <3>2. future' \in [Jobs -> {"none", "pending", "running", "cancelled", "notified", "finished"}]
      BY <2>7 DEF TypeOK, PoolTake
    <3>3. runPc' \in [Jobs -> {"none", "begin", "arm", "call", "returned", "persist",
                               "cleanup", "metrics", "done"}]
      BY <2>7 DEF TypeOK, PoolTake
    <3>4. UNCHANGED <<recordVars, registered, clientVars, timer, outVars, downVars>>
      BY <2>7, Zenon DEF PoolTake
    <3>5. QED
      BY <3>1, <3>2, <3>3, <3>4 DEF TypeOK
  <2>8. ASSUME NEW j \in Jobs, RunBegin(j) PROVE TypeOK'
    <3>1. runPc' \in [Jobs -> {"none", "begin", "arm", "call", "returned", "persist",
                               "cleanup", "metrics", "done"}]
      BY <2>8 DEF TypeOK, RunBegin
    <3>2. future' \in [Jobs -> {"none", "pending", "running", "cancelled", "notified", "finished"}]
      BY <2>8 DEF TypeOK, RunBegin
    <3>3. status' \in [Jobs -> {"absent", "queued", "running"} \union Terminal]
      BY <2>8 DEF TypeOK, RunBegin
    <3>4. UNCHANGED <<code, finished, signalled, counts, registered, workq, clientVars,
                      timer, outVars, downVars>>
      BY <2>8, Zenon DEF RunBegin
    <3>5. QED
      BY <3>1, <3>2, <3>3, <3>4 DEF TypeOK
  <2>9. ASSUME NEW j \in Jobs, RunArm(j) PROVE TypeOK'
    BY <2>9 DEF TypeOK, RunArm
  <2>10. ASSUME NEW j \in Jobs, RunComplete(j) PROVE TypeOK'
    BY <2>10 DEF TypeOK, RunComplete, Completable
  <2>11. ASSUME NEW j \in Jobs, RunPersist(j) PROVE TypeOK'
    BY <2>11 DEF TypeOK, RunPersist
  <2>12. ASSUME NEW j \in Jobs, RunCleanup(j) PROVE TypeOK'
    BY <2>12 DEF TypeOK, RunCleanup
  <2>13. ASSUME NEW j \in Jobs, ObserveMetrics(j) PROVE TypeOK'
    BY <2>13 DEF TypeOK, ObserveMetrics
  <2>14. ASSUME NEW j \in Jobs, EngineReturn(j) PROVE TypeOK'
    BY <2>14 DEF TypeOK, EngineReturn
  <2>15. ASSUME NEW j \in Jobs, NEW e \in EngineCodes, FailRecord(j, e) PROVE TypeOK'
    <3>1. CASE Completable(j)
      BY <2>15, <3>1 DEF TypeOK, FailRecord, MarkFailed
    <3>2. CASE ~Completable(j)
      BY <2>15, <3>2 DEF TypeOK, FailRecord
    <3>3. QED
      BY <3>1, <3>2
  <2>16. ASSUME NEW j \in Jobs, TimerFire(j) PROVE TypeOK'
    BY <2>16 DEF TypeOK, TimerFire
  <2>17. ASSUME NEW j \in Jobs, TimeoutJob(j) PROVE TypeOK'
    BY <2>17 DEF TypeOK, TimeoutJob, MayTimeOut, MarkFailed, CancelFuture
  <2>18. CASE ShutdownFlag
    BY <2>18 DEF TypeOK, ShutdownFlag
  <2>19. CASE ShutdownExecutor
    BY <2>19 DEF TypeOK, ShutdownExecutor
  <2>20. CASE ShutdownReturn
    BY <2>20 DEF TypeOK, ShutdownReturn
  <2>21. CASE UNCHANGED vars
    BY <2>21 DEF TypeOK, vars
  <2>22. QED
    BY <2>1, <2>2, <2>3, <2>4, <2>5, <2>6, <2>7, <2>8, <2>9, <2>10, <2>11,
       <2>12, <2>13, <2>14, <2>15, <2>16, <2>17, <2>18, <2>19, <2>20, <2>21 DEF
       Next, Enqueue, PoolStep, EngineStep, TimerStep, ShutdownStep
<1>3. QED
  BY <1>1, <1>2, PTL DEF Spec

-----------------------------------------------------------------------------
(* How a step may change the records *)

Inserts(j)  == \E c \in Clients : EnqueueInsert(c, j)
Starts(j)   == /\ runPc[j] = "begin" /\ status[j] # "failed"
               /\ status' = [status EXCEPT ![j] = "running"]
Succeeds(j) == status[j] = "running" /\ status' = [status EXCEPT ![j] = "succeeded"]
Fails(j, c) == /\ status[j] = "running" \/ (status[j] = "queued" /\ c = "CANCELLED")
               /\ MarkFailed(j, c)

\* Every step leaves the records alone or moves one of them one stage on.
LEMMA RecordStep ==
    ASSUME [Next]_vars
    PROVE  \/ UNCHANGED <<status, code, counts>>
           \/ UNCHANGED <<code, counts>> /\ \E j \in Jobs : Inserts(j) \/ Starts(j) \/ Succeeds(j)
           \/ \E j \in Jobs, c \in Codes : Fails(j, c)
<1> USE DEF recordVars
<1>1. ASSUME NEW c \in Clients, Enqueue(c)
      PROVE  \/ UNCHANGED <<status, code, counts>>
             \/ UNCHANGED <<code, counts>> /\ \E j \in Jobs : Inserts(j)
  BY <1>1 DEF Enqueue, EnqueueCheck, EnqueueInsert, EnqueueSubmit, EnqueueRegister, Inserts
<1>2. ASSUME NEW j \in Jobs, Cancel(j) PROVE Fails(j, "CANCELLED")
  BY <1>2 DEF Cancel, Cancellable, Fails
<1>3. ASSUME NEW j \in Jobs, PoolStep(j)
      PROVE  UNCHANGED <<code, counts>> /\ (UNCHANGED status \/ Starts(j) \/ Succeeds(j))
  BY <1>3 DEF PoolStep, PoolTake, RunBegin, NotCancelledYet, RunArm, RunComplete, Completable,
              RunPersist, RunCleanup, ObserveMetrics, Starts, Succeeds
<1>4. ASSUME NEW j \in Jobs, EngineStep(j)
      PROVE  \/ UNCHANGED <<status, code, counts>>
             \/ \E c \in EngineCodes : Fails(j, c)
  BY <1>4 DEF EngineStep, EngineReturn, FailRecord, Completable, Fails
<1>5. ASSUME NEW j \in Jobs, TimerStep(j)
      PROVE  UNCHANGED <<status, code, counts>> \/ Fails(j, "TIMEOUT")
  BY <1>5 DEF TimerStep, TimerFire, TimeoutJob, MayTimeOut, Fails
<1>6. ASSUME \/ \E j \in Jobs : PersistFailure(j)
             \/ ShutdownFlag \/ ShutdownStep
             \/ UNCHANGED vars
      PROVE  UNCHANGED <<status, code, counts>>
  BY <1>6 DEF PersistFailure, ShutdownFlag, ShutdownStep, ShutdownExecutor, ShutdownReturn, vars
<1>7. QED
  BY <1>1, <1>2, <1>3, <1>4, <1>5, <1>6 DEF Next, Codes

-----------------------------------------------------------------------------
(* Failure accounting *)

LEMMA FailedWithFinite ==
    ASSUME NEW c PROVE IsFiniteSet(FailedWith(c)) /\ Cardinality(FailedWith(c)) \in Nat
  BY FS_Subset, FS_CardinalityType DEF FailedWith

\* _failure_counts (jobs.py:198, 267, 405) counts every failed job exactly once,
\* under its own code, whatever the number of threads racing for it.
THEOREM FailureAccountingHolds == Spec => []FailureAccounting
<1>1. Init => FailureAccounting
  <2> SUFFICES ASSUME Init, NEW c \in Codes PROVE counts[c] = Cardinality(FailedWith(c))
    BY DEF FailureAccounting
  <2>1. FailedWith(c) = {}
    BY DEF Init, FailedWith
  <2>2. counts[c] = 0
    BY DEF Init
  <2>3. QED
    BY <2>1, <2>2, FS_EmptySet
<1>2. TypeOK /\ FailureAccounting /\ [Next]_vars => FailureAccounting'
  <2> SUFFICES ASSUME TypeOK, FailureAccounting, [Next]_vars, NEW c \in Codes
               PROVE  counts'[c] = Cardinality(FailedWith(c)')
    BY DEF FailureAccounting
  <2>0. counts[c] = Cardinality(FailedWith(c)) /\ counts[c] \in Nat
    BY DEF FailureAccounting, TypeOK
  <2>1. CASE UNCHANGED <<status, code, counts>>
    BY <2>0, <2>1 DEF FailedWith
  <2>2. ASSUME NEW j \in Jobs, Inserts(j) \/ Starts(j) \/ Succeeds(j), UNCHANGED <<code, counts>>
        PROVE  counts'[c] = Cardinality(FailedWith(c)')
    <3>1. \A k \in Jobs : status'[k] = "failed" <=> status[k] = "failed"
      BY <2>2 DEF Inserts, EnqueueInsert, Starts, Succeeds, TypeOK
    <3>2. FailedWith(c)' = FailedWith(c)
      BY <2>2, <3>1 DEF FailedWith
    <3>3. QED
      BY <2>0, <2>2, <3>2
  <2>3. ASSUME NEW j \in Jobs, NEW e \in Codes, Fails(j, e)
        PROVE  counts'[c] = Cardinality(FailedWith(c)')
    <3>1. status[j] # "failed" /\ j \notin FailedWith(c)
      BY <2>3 DEF Fails, FailedWith
    <3>2. CASE c = e
      <4>1. FailedWith(c)' = FailedWith(c) \union {j}
        BY <2>3, <3>1, <3>2 DEF Fails, MarkFailed, FailedWith, TypeOK
      <4>2. counts'[c] = counts[c] + 1
        BY <2>3, <3>2 DEF Fails, MarkFailed, TypeOK
      <4>3. Cardinality(FailedWith(c) \union {j}) = Cardinality(FailedWith(c)) + 1
        BY <3>1, FailedWithFinite, FS_AddElement
      <4>4. QED
        BY <2>0, <4>1, <4>2, <4>3
    <3>3. CASE c # e
      <4>1. FailedWith(c)' = FailedWith(c)
        BY <2>3, <3>1, <3>3 DEF Fails, MarkFailed, FailedWith, TypeOK
      <4>2. counts'[c] = counts[c]
        BY <2>3, <3>3 DEF Fails, MarkFailed, TypeOK
      <4>3. QED
        BY <2>0, <4>1, <4>2
    <3>4. QED
      BY <3>2, <3>3
  <2>4. QED
    BY <2>1, <2>2, <2>3, RecordStep
<1>3. QED
  BY <1>1, <1>2, TypeCorrect, PTL DEF Spec

-----------------------------------------------------------------------------
(* The invariant is inductive: one step per action, one sub-step per part. *)

LEMMA InvInit == Init => Inv
  BY DEF Init, Inv, ClientInv, FutureInv, ThreadInv, OutputInv, StoreAgreement,
         MetricsAgreement, Terminal, Codes

LEMMA InvInductive ==
    ASSUME TypeOK, Inv, [Next]_vars
    PROVE  Inv'
<1> USE DEF Terminal, Codes, recordVars, poolVars, clientVars, runVars, outVars, downVars
<1> USE DEF TypeOK, Inv, ClientInv, FutureInv, ThreadInv, OutputInv, StoreAgreement,
            MetricsAgreement
<1>1. ASSUME NEW c \in Clients, EnqueueCheck(c) PROVE Inv'
  BY <1>1 DEF EnqueueCheck
<1>2. ASSUME NEW c \in Clients, NEW j \in Jobs, EnqueueInsert(c, j) PROVE Inv'
  BY <1>2 DEF EnqueueInsert
<1>3. ASSUME NEW c \in Clients, EnqueueSubmit(c) PROVE Inv'
  BY <1>3 DEF EnqueueSubmit
<1>4. ASSUME NEW c \in Clients, EnqueueRegister(c) PROVE Inv'
  BY <1>4 DEF EnqueueRegister
<1>5. ASSUME NEW j \in Jobs, Cancel(j) PROVE Inv'
  BY <1>5 DEF Cancel, Cancellable, MarkFailed, CancelFuture
<1>6. ASSUME NEW j \in Jobs, PersistFailure(j) PROVE Inv'
  BY <1>6 DEF PersistFailure
<1>7. ASSUME NEW j \in Jobs, PoolTake(j) PROVE Inv'
  BY <1>7 DEF PoolTake
<1>8. ASSUME NEW j \in Jobs, RunBegin(j) PROVE Inv'
  <2>1. CASE NotCancelledYet(j)
    BY <1>8, <2>1 DEF RunBegin, NotCancelledYet
  <2>2. CASE ~NotCancelledYet(j)
    BY <1>8, <2>2 DEF RunBegin, NotCancelledYet
  <2>3. QED
    BY <2>1, <2>2
<1>9. ASSUME NEW j \in Jobs, RunArm(j) PROVE Inv'
  BY <1>9 DEF RunArm
<1>10. ASSUME NEW j \in Jobs, RunComplete(j) PROVE Inv'
  BY <1>10 DEF RunComplete, Completable
<1>11. ASSUME NEW j \in Jobs, RunPersist(j) PROVE Inv'
  BY <1>11 DEF RunPersist
<1>12. ASSUME NEW j \in Jobs, RunCleanup(j) PROVE Inv'
  BY <1>12 DEF RunCleanup
<1>13. ASSUME NEW j \in Jobs, ObserveMetrics(j) PROVE Inv'
  BY <1>13 DEF ObserveMetrics
<1>14. ASSUME NEW j \in Jobs, EngineReturn(j) PROVE Inv'
  BY <1>14 DEF EngineReturn
<1>15. ASSUME NEW j \in Jobs, NEW e \in EngineCodes, FailRecord(j, e) PROVE Inv'
  <2>1. CASE Completable(j)
    BY <1>15, <2>1 DEF FailRecord, MarkFailed, Completable
  <2>2. CASE ~Completable(j)
    BY <1>15, <2>2 DEF FailRecord, MarkFailed, Completable
  <2>3. QED
    BY <2>1, <2>2
<1>16. ASSUME NEW j \in Jobs, TimerFire(j) PROVE Inv'
  BY <1>16 DEF TimerFire
<1>17. ASSUME NEW j \in Jobs, TimeoutJob(j) PROVE Inv'
  <2>1. CASE MayTimeOut(j)
    <3>1. runPc[j] \in {"arm", "call", "returned"} /\ future[j] \notin {"none", "pending"}
      BY <2>1 DEF MayTimeOut
    <3>2. ClientInv'
      BY <1>17, <2>1, <3>1 DEF TimeoutJob, MayTimeOut, MarkFailed, CancelFuture
    <3>3. ASSUME NEW k \in Jobs PROVE FutureInv(k)' /\ ThreadInv(k)' /\ OutputInv(k)'
      BY <1>17, <2>1, <3>1 DEF TimeoutJob, MayTimeOut, MarkFailed, CancelFuture
    <3>4. StoreAgreement' /\ MetricsAgreement'
      BY <1>17, <2>1, <3>1 DEF TimeoutJob, MayTimeOut, MarkFailed
    <3>5. QED
      BY <3>2, <3>3, <3>4
  <2>2. CASE ~MayTimeOut(j)
    BY <1>17, <2>2 DEF TimeoutJob, MayTimeOut, MarkFailed, CancelFuture
  <2>3. QED
    BY <2>1, <2>2
<1>18. CASE ShutdownFlag
  BY <1>18 DEF ShutdownFlag
<1>19. CASE ShutdownExecutor
  BY <1>19 DEF ShutdownExecutor
<1>20. CASE ShutdownReturn
  BY <1>20 DEF ShutdownReturn
<1>21. CASE UNCHANGED vars
  BY <1>21 DEF vars
<1>22. QED
  BY <1>1, <1>2, <1>3, <1>4, <1>5, <1>6, <1>7, <1>8, <1>9, <1>10, <1>11,
     <1>12, <1>13, <1>14, <1>15, <1>16, <1>17, <1>18, <1>19, <1>20, <1>21 DEF
     Next, Enqueue, PoolStep, EngineStep, TimerStep, ShutdownStep

\* Where every thread stands agrees with what the records say.
THEOREM InvHolds == Spec => []Inv
  BY InvInit, InvInductive, TypeCorrect, PTL DEF Spec

-----------------------------------------------------------------------------
(* Capacity *)

LEMMA PendingSets ==
    /\ IsFiniteSet(Active) /\ Cardinality(Active) \in Nat
    /\ IsFiniteSet(Admitted) /\ Cardinality(Admitted) \in Nat
    /\ Cardinality(Clients) \in Nat
<1>1. Active \in SUBSET Jobs /\ Admitted \in SUBSET Clients
  BY DEF Active, Admitted
<1>2. QED
  BY <1>1, FS_Subset, FS_CardinalityType

\* Only enqueue admits, and only an admitted client adds an active job; every
\* other step leaves the active jobs as they are or retires some.
LEMMA AdmissionStep ==
    ASSUME TypeOK, [Next]_vars
    PROVE  \/ Active' \subseteq Active /\ Admitted' = Admitted
           \/ \E c \in Clients : EnqueueCheck(c)
           \/ \E c \in Clients, j \in Jobs : EnqueueInsert(c, j)
           \/ \E j \in Jobs : Starts(j) /\ Admitted' = Admitted
<1> USE DEF recordVars, clientVars
<1>1. ASSUME NEW c \in Clients, EnqueueSubmit(c) \/ EnqueueRegister(c)
      PROVE  Active' = Active /\ Admitted' = Admitted
  BY <1>1 DEF EnqueueSubmit, EnqueueRegister, Active, Admitted, TypeOK
<1>2. ASSUME UNCHANGED clientPc PROVE Admitted' = Admitted
  BY <1>2 DEF Admitted
<1>3. ASSUME UNCHANGED status PROVE Active' = Active
  BY <1>3 DEF Active
<1>4. ASSUME NEW j \in Jobs, NEW c, Fails(j, c) PROVE Active' \subseteq Active
  BY <1>4 DEF Fails, MarkFailed, Active, TypeOK
<1>5. ASSUME NEW j \in Jobs, Succeeds(j) PROVE Active' \subseteq Active
  BY <1>5 DEF Succeeds, Active, TypeOK
<1>6. \/ \E c \in Clients : Enqueue(c)
      \/ UNCHANGED clientPc
  BY DEF Next, PoolStep, EngineStep, TimerStep, ShutdownStep, Cancel, PersistFailure,
         PoolTake, RunBegin, RunArm, RunComplete, RunPersist, RunCleanup, ObserveMetrics,
         EngineReturn, FailRecord, TimerFire, TimeoutJob, ShutdownFlag, ShutdownExecutor,
         ShutdownReturn, vars
<1>7. CASE \E c \in Clients : Enqueue(c)
  BY <1>1, <1>7 DEF Enqueue
<1>8. CASE UNCHANGED clientPc
  BY <1>2, <1>3, <1>4, <1>5, <1>8, RecordStep DEF Inserts
<1>9. QED
  BY <1>6, <1>7, <1>8

\* Without the place an admitted client holds, the check says nothing about
\* the insertion; without Inv, a pool thread could revive a finished record.
LEMMA CapacityInductive ==
    ASSUME TypeOK, Inv, CapacityBound, [Next]_vars
    PROVE  CapacityBound'
<1>0. Cardinality(Active) + Cardinality(Admitted) <= MaxPending + Cardinality(Clients) - 1
  BY DEF CapacityBound
<1>1. CASE Active' \subseteq Active /\ Admitted' = Admitted
  <2>1. Cardinality(Active') <= Cardinality(Active) /\ Cardinality(Active') \in Nat
    BY <1>1, PendingSets, FS_Subset, FS_CardinalityType
  <2>2. QED
    BY <1>0, <1>1, <2>1, PendingSets DEF CapacityBound
<1>2. ASSUME NEW c \in Clients, EnqueueCheck(c) PROVE CapacityBound'
  <2>1. Active' = Active
    BY <1>2 DEF EnqueueCheck, Active, recordVars
  <2>2. Admitted' = Admitted \union {c} /\ c \notin Admitted /\ Admitted \subseteq Clients \ {c}
    BY <1>2 DEF EnqueueCheck, Admitted, TypeOK
  <2>3. Cardinality(Admitted') = Cardinality(Admitted) + 1
    BY <2>2, PendingSets, FS_AddElement
  <2>4. IsFiniteSet(Clients \ {c}) /\ Cardinality(Clients \ {c}) = Cardinality(Clients) - 1
    BY FS_RemoveElement
  <2>5. Cardinality(Admitted) <= Cardinality(Clients) - 1
    BY <2>2, <2>4, FS_Subset
  <2>6. Cardinality(Active) < MaxPending
    BY <1>2 DEF EnqueueCheck, HasRoom
  <2>7. QED
    BY <2>1, <2>3, <2>5, <2>6, PendingSets DEF CapacityBound
<1>3. ASSUME NEW c \in Clients, NEW j \in Jobs, EnqueueInsert(c, j) PROVE CapacityBound'
  <2>1. Active' = Active \union {j} /\ j \notin Active
    BY <1>3 DEF EnqueueInsert, Active, TypeOK
  <2>2. Admitted' = Admitted \ {c} /\ c \in Admitted
    BY <1>3 DEF EnqueueInsert, Admitted, TypeOK
  <2>3. Cardinality(Active') = Cardinality(Active) + 1
    BY <2>1, PendingSets, FS_AddElement
  <2>4. Cardinality(Admitted') = Cardinality(Admitted) - 1
    BY <2>2, PendingSets, FS_RemoveElement
  <2>5. QED
    BY <1>0, <2>3, <2>4, PendingSets DEF CapacityBound
<1>4. ASSUME NEW j \in Jobs, Starts(j) PROVE Active' \subseteq Active
  BY <1>4 DEF Starts, Active, TypeOK, Inv, ThreadInv
<1>5. QED
  BY <1>1, <1>2, <1>3, <1>4, AdmissionStep

\* max_pending (jobs.py:140-146) is overrun by at most the other clients inside
\* enqueue, for any number of clients and jobs.
THEOREM CapacityBoundHolds == Spec => []CapacityBound
<1>1. Init => CapacityBound
  <2> SUFFICES ASSUME Init PROVE CapacityBound
    OBVIOUS
  <2>1. Active = {} /\ Admitted = {}
    BY DEF Init, Active, Admitted
  <2>2. Cardinality(Active) = 0 /\ Cardinality(Admitted) = 0
    BY <2>1, FS_EmptySet
  <2>3. Cardinality(Clients) \in Nat
    BY FS_CardinalityType
  <2>4. Cardinality(Clients) # 0
    BY FS_EmptySet
  <2>5. QED
    BY <2>2, <2>3, <2>4 DEF CapacityBound
<1>2. QED
  BY <1>1, CapacityInductive, InvHolds, TypeCorrect, PTL DEF Spec

-----------------------------------------------------------------------------
(* The experiment store, the metrics and the pool *)

\* No RUNNING record is without a pool thread that will finish it.
THEOREM RunningHasThreadHolds == Spec => []RunningHasThread
<1>1. Inv => RunningHasThread
  BY DEF Inv, ThreadInv, RunningHasThread
<1>2. QED
  BY <1>1, InvHolds, PTL

\* The experiment store never contradicts a record, except for a run that a
\* timeout or a cancel overtook (jobs.py:322, engine.py:393).
THEOREM StoreAgreementHolds == Spec => []StoreAgreement
  BY InvHolds, PTL DEF Inv

\* The metrics record the outcome the record ends with (jobs.py:434).
THEOREM MetricsAgreementHolds == Spec => []MetricsAgreement
  BY InvHolds, PTL DEF Inv

-----------------------------------------------------------------------------
(* Nothing queued is forgotten *)

LEMMA RangeAppend ==
    ASSUME NEW s \in Seq(Jobs), NEW j \in Jobs
    PROVE  j \in Range(Append(s, j)) /\ Range(s) \subseteq Range(Append(s, j))
<1>1. Append(s, j)[Len(s) + 1] = j /\ Len(s) + 1 \in DOMAIN Append(s, j)
  OBVIOUS
<1>2. \A i \in DOMAIN s : i \in DOMAIN Append(s, j) /\ Append(s, j)[i] = s[i]
  OBVIOUS
<1>3. QED
  BY <1>1, <1>2 DEF Range

LEMMA RangeTail ==
    ASSUME NEW s \in Seq(Jobs), s # <<>>
    PROVE  Range(s) \subseteq Range(Tail(s)) \union {Head(s)}
<1> SUFFICES ASSUME NEW i \in DOMAIN s, s[i] # Head(s) PROVE s[i] \in Range(Tail(s))
  BY DEF Range
<1>1. i - 1 \in DOMAIN Tail(s) /\ Tail(s)[i - 1] = s[i]
  OBVIOUS
<1>2. QED
  BY <1>1 DEF Range

\* A QUEUED record always has a client, the work queue or a pool thread that
\* will take it on, until the executor is shut down (jobs.py:166, 234).
THEOREM QueuedIsReachableHolds == Spec => []QueuedIsReachable
<1>1. Init => QueuedIsReachable
  BY DEF Init, QueuedIsReachable
<1>2. TypeOK /\ Inv /\ QueuedIsReachable /\ [Next]_vars => QueuedIsReachable'
  <2> USE DEF recordVars, poolVars, clientVars, runVars, outVars, downVars
  <2> DEFINE Held(k) == \/ \E c \in Clients : clientPc[c] = "inserted" /\ clientJob[c] = k
                        \/ k \in Range(workq) /\ future[k] = "pending"
                        \/ runPc[k] = "begin"
                        \/ ExecutorDown
  <2> SUFFICES ASSUME TypeOK, Inv, QueuedIsReachable, [Next]_vars,
                      NEW k \in Jobs, status'[k] = "queued"
               PROVE  Held(k)'
    BY DEF QueuedIsReachable
  <2>0. status[k] = "queued" => Held(k)
    BY DEF QueuedIsReachable
  <2>1. ASSUME NEW c \in Clients, EnqueueCheck(c) \/ EnqueueRegister(c) PROVE Held(k)'
    <3>1. UNCHANGED <<status, workq, future, runPc, shutdownPc>>
      BY <2>1 DEF EnqueueCheck, EnqueueRegister
    <3>2. \A d \in Clients : clientPc[d] = "inserted" =>
             clientPc'[d] = "inserted" /\ clientJob'[d] = clientJob[d]
      BY <2>1 DEF EnqueueCheck, EnqueueRegister, TypeOK
    <3>3. QED
      BY <2>0, <3>1, <3>2 DEF ExecutorDown
  <2>2. ASSUME NEW c \in Clients, NEW j \in Jobs, EnqueueInsert(c, j) PROVE Held(k)'
    BY <2>0, <2>2 DEF EnqueueInsert, ExecutorDown, TypeOK
  <2>3. ASSUME NEW c \in Clients, EnqueueSubmit(c) PROVE Held(k)'
    <3>1. CASE ExecutorDown
      BY <2>3, <3>1 DEF EnqueueSubmit, ExecutorDown
    <3>2. CASE ~ExecutorDown
      <4>1. /\ clientJob[c] \in Jobs
            /\ workq' = Append(workq, clientJob[c])
            /\ future' = [future EXCEPT ![clientJob[c]] = "pending"]
            /\ clientPc' = [clientPc EXCEPT ![c] = "submitted"]
            /\ UNCHANGED <<clientJob, runPc, status>>
        BY <2>3, <3>2 DEF EnqueueSubmit, TypeOK
      <4>2. workq \in Seq(Jobs)
        BY DEF TypeOK
      <4>3. clientJob[c] \in Range(workq') /\ Range(workq) \subseteq Range(workq')
        BY <4>1, <4>2, RangeAppend
      <4>4. CASE k = clientJob[c]
        BY <4>1, <4>3, <4>4 DEF TypeOK
      <4>5. CASE k # clientJob[c]
        BY <2>0, <3>2, <4>1, <4>3, <4>5 DEF TypeOK
      <4>6. QED
        BY <4>4, <4>5
    <3>3. QED
      BY <3>1, <3>2
  <2>4. ASSUME NEW j \in Jobs, PoolTake(j) PROVE Held(k)'
    <3>1. workq \in Seq(Jobs) /\ Range(workq) \subseteq Range(workq') \union {j}
      BY <2>4, RangeTail DEF PoolTake, TypeOK
    <3>2. QED
      BY <2>0, <2>4, <3>1 DEF PoolTake, ExecutorDown, TypeOK
  <2>5. ASSUME NEW j \in Jobs, Cancel(j) PROVE Held(k)'
    BY <2>0, <2>5 DEF Cancel, MarkFailed, CancelFuture, ExecutorDown, TypeOK
  <2>6. ASSUME NEW j \in Jobs, TimerStep(j) PROVE Held(k)'
    BY <2>0, <2>6 DEF TimerStep, TimerFire, TimeoutJob, MarkFailed, CancelFuture, ExecutorDown, TypeOK
  <2>7. ASSUME NEW j \in Jobs, RunBegin(j) PROVE Held(k)'
    BY <2>0, <2>7 DEF RunBegin, NotCancelledYet, ExecutorDown, TypeOK, Inv, ThreadInv, FutureInv
  <2>8. ASSUME NEW j \in Jobs,
               \/ RunArm(j) \/ RunComplete(j) \/ RunPersist(j) \/ RunCleanup(j)
               \/ EngineReturn(j) \/ \E e \in EngineCodes : FailRecord(j, e)
        PROVE  Held(k)'
    BY <2>0, <2>8 DEF RunArm, RunComplete, RunPersist, RunCleanup, EngineReturn, FailRecord,
                      MarkFailed, ExecutorDown, TypeOK
  <2>9. ASSUME NEW j \in Jobs, ObserveMetrics(j) PROVE Held(k)'
    BY <2>0, <2>9 DEF ObserveMetrics, ExecutorDown, TypeOK, Inv, FutureInv
  <2>10. CASE ShutdownExecutor \/ ShutdownReturn
    BY <2>10 DEF ShutdownExecutor, ShutdownReturn, ExecutorDown
  <2>11. CASE ShutdownFlag \/ UNCHANGED vars \/ \E j \in Jobs : PersistFailure(j)
    BY <2>0, <2>11 DEF ShutdownFlag, PersistFailure, ExecutorDown, vars
  <2>12. QED
    BY <2>1, <2>2, <2>3, <2>4, <2>5, <2>6, <2>7, <2>8, <2>9, <2>10, <2>11
       DEF Next, Enqueue, PoolStep, EngineStep, ShutdownStep
<1>3. QED
  BY <1>1, <1>2, TypeCorrect, InvHolds, PTL DEF Spec

-----------------------------------------------------------------------------
(* Refinement *)

\* The queue implements JobLifecycle: every job starts at most once, ends at
\* most once, and each failure is counted with the end it belongs to.
THEOREM Refinement == Spec => LifecycleSpec
<1>1. Init => Lifecycle!Init
  BY DEF Init, Lifecycle!Init
<1>2. TypeOK /\ Inv /\ [Next]_vars => [Lifecycle!Next]_(Lifecycle!vars)
  <2> SUFFICES ASSUME TypeOK, Inv, [Next]_vars PROVE [Lifecycle!Next]_(Lifecycle!vars)
    OBVIOUS
  <2>1. CASE UNCHANGED <<status, code, counts>>
    BY <2>1 DEF Lifecycle!vars
  <2>2. ASSUME NEW j \in Jobs, UNCHANGED <<code, counts>>, Inserts(j)
        PROVE  Lifecycle!Submit(j)
    <3>1. status[j] = "absent" /\ status' = [status EXCEPT ![j] = "queued"]
      BY <2>2 DEF Inserts, EnqueueInsert
    <3>2. QED
      BY <2>2, <3>1 DEF Lifecycle!Submit, Lifecycle!Move, TypeOK
  <2>3. ASSUME NEW j \in Jobs, UNCHANGED <<code, counts>>, Starts(j)
        PROVE  Lifecycle!Start(j)
    BY <2>3 DEF Starts, Lifecycle!Start, Lifecycle!Move, TypeOK, Inv, ThreadInv
  <2>4. ASSUME NEW j \in Jobs, UNCHANGED <<code, counts>>, Succeeds(j)
        PROVE  Lifecycle!Succeed(j)
    BY <2>4 DEF Succeeds, Lifecycle!Succeed, Lifecycle!Move, TypeOK
  <2>5. ASSUME NEW j \in Jobs, NEW c \in Codes, Fails(j, c)
        PROVE  Lifecycle!Fail(j, c)
    BY <2>5 DEF Fails, MarkFailed, Lifecycle!Fail, Lifecycle!Move, TypeOK
  <2>6. QED
    BY <2>1, <2>2, <2>3, <2>4, <2>5, RecordStep DEF Lifecycle!Next
<1>3. QED
  BY <1>1, <1>2, TypeCorrect, InvHolds, PTL DEF Spec, LifecycleSpec, Lifecycle!Spec
=============================================================================

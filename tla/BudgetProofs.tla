---------------------------- MODULE BudgetProofs ----------------------------
(***************************************************************************)
(* The session budget's hard cap, its fail-closed mode and its sliding     *)
(* TTL, for any number of sessions, replicas and concurrent runs and any   *)
(* limits.                                                                 *)
(***************************************************************************)
EXTENDS Budget, TLAPS

USE BudgetAssumption

\* An eviction only ever clears entries.
LEMMA EvictedType ==
    ASSUME BudgetTypeOK, NEW p \in Replicas
    PROVE  /\ Evicted(p) \in [Sessions -> Nat]
           /\ \A s \in Sessions : Evicted(p)[s] \in {0, memory[p][s]}
  BY DEF BudgetTypeOK, Evicted

\* The type invariant holds in every reachable state.
THEOREM TypeCorrect == BudgetSpec => []BudgetTypeOK
<1>1. BudgetInit => BudgetTypeOK
  BY DEF BudgetInit, BudgetTypeOK
<1>2. BudgetTypeOK /\ [BudgetNext]_budgetVars => BudgetTypeOK'
  <2> SUFFICES ASSUME BudgetTypeOK, [BudgetNext]_budgetVars PROVE BudgetTypeOK'
    OBVIOUS
  <2>0. mode' = mode
    BY DEF BudgetNext, budgetVars
  <2> USE <2>0
  <2>1. ASSUME NEW r \in Calls, NEW s \in Sessions, NEW p \in Replicas,
               NEW n \in ShotRequests, NEW ok \in BOOLEAN, Precheck(r, s, p, n, ok)
        PROVE  BudgetTypeOK'
    <3> DEFINE requested == IF n = 0 THEN DefaultBudget ELSE n
    <3>1. /\ memory' \in [Replicas -> [Sessions -> Nat]]
          /\ memoryAge' \in [Replicas -> [Sessions -> 0 .. Ttl]]
      BY <2>1, EvictedType DEF BudgetTypeOK, Precheck, EvictIn, localVars
    <3>2. UNCHANGED <<redis, redisAge, spent, quiet>>
      BY <2>1 DEF Precheck, serverVars
    <3>3. CASE UNCHANGED callVars
      BY <3>1, <3>2, <3>3 DEF BudgetTypeOK, callVars
    <3>4. CASE /\ requested > 0
               /\ stage' = [stage EXCEPT ![r] = "checked"]
               /\ session' = [session EXCEPT ![r] = s]
               /\ replica' = [replica EXCEPT ![r] = p]
               /\ shots' = [shots EXCEPT ![r] = Capped(requested)]
      <4>1. Capped(requested) \in 1 .. MaxExperiment
        BY <3>4 DEF Smaller, Capped
      <4>2. QED
        BY <3>1, <3>2, <3>4, <4>1 DEF BudgetTypeOK
    <3>5. QED
      BY <2>1, <3>3, <3>4 DEF Precheck
  <2>2. ASSUME NEW r \in Calls, stage[r] = "checked", ReserveMemory(r),
               UNCHANGED <<session, replica, shots>>
        PROVE  /\ memory' \in [Replicas -> [Sessions -> Nat]]
               /\ memoryAge' \in [Replicas -> [Sessions -> 0 .. Ttl]]
               /\ stage' \in [Calls -> {"idle", "checked", "granted"}]
    BY <2>2, EvictedType DEF BudgetTypeOK, ReserveMemory, Fits
  <2>3. ASSUME NEW r \in Calls, OnRedisError(r), stage[r] = "checked",
               UNCHANGED <<session, replica, shots>>
        PROVE  /\ memory' \in [Replicas -> [Sessions -> Nat]]
               /\ memoryAge' \in [Replicas -> [Sessions -> 0 .. Ttl]]
               /\ stage' \in [Calls -> {"idle", "checked", "granted"}]
    BY <2>2, <2>3 DEF BudgetTypeOK, OnRedisError, localVars
  <2>4. ASSUME NEW r \in Calls, LuaReserve(session[r], shots[r])
        PROVE  /\ redis' \in [Sessions -> Nat]
               /\ redisAge' \in [Sessions -> 0 .. Ttl]
               /\ quiet' \in [Sessions -> 0 .. Ttl]
    BY <2>4 DEF BudgetTypeOK, LuaReserve, Refresh, Fits
  <2>5. ASSUME NEW r \in Calls, ReserveRedis(r) PROVE BudgetTypeOK'
    BY <2>4, <2>5 DEF BudgetTypeOK, ReserveRedis, localVars
  <2>6. ASSUME NEW r \in Calls, ReserveLost(r) PROVE BudgetTypeOK'
    BY <2>3, <2>4, <2>6 DEF BudgetTypeOK, ReserveLost
  <2>7. ASSUME NEW r \in Calls, ReserveDown(r) PROVE BudgetTypeOK'
    BY <2>3, <2>7 DEF BudgetTypeOK, ReserveDown, serverVars
  <2>8. ASSUME NEW r \in Calls, ReserveLocal(r) PROVE BudgetTypeOK'
    BY <2>2, <2>8 DEF BudgetTypeOK, ReserveLocal, serverVars
  <2>9. ASSUME NEW r \in Calls, Finish(r) PROVE BudgetTypeOK'
    BY <2>9 DEF BudgetTypeOK, Finish, serverVars, localVars
  <2>10. ASSUME NEW p \in Replicas, HealthSummary(p) PROVE BudgetTypeOK'
    BY <2>10, EvictedType DEF BudgetTypeOK, HealthSummary, EvictIn, serverVars, callVars
  <2>11. ASSUME NEW p \in Replicas, RestartReplica(p) PROVE BudgetTypeOK'
    BY <2>11 DEF BudgetTypeOK, RestartReplica, serverVars
  <2>12. ASSUME NEW s \in Sessions, NEW p \in Replicas, NEW ok \in BOOLEAN,
                ResetSession(s, p, ok)
         PROVE  BudgetTypeOK'
    <3>1. \/ redis' = redis /\ spent' = spent
          \/ /\ redis' = [redis EXCEPT ![s] = 0]
             /\ spent' = [spent EXCEPT ![s] = 0]
      BY <2>12, Zenon DEF ResetSession
    <3>2. /\ memory' = [memory EXCEPT ![p][s] = 0]
          /\ UNCHANGED <<redisAge, quiet, memoryAge, stage, session, replica, shots>>
      BY <2>12 DEF ResetSession, callVars
    <3>3. memory' \in [Replicas -> [Sessions -> Nat]]
      BY <3>2 DEF BudgetTypeOK
    <3>4. redis' \in [Sessions -> Nat] /\ spent' \in [Sessions -> Nat]
      <4>1. CASE redis' = redis /\ spent' = spent
        BY <4>1 DEF BudgetTypeOK
      <4>2. CASE /\ redis' = [redis EXCEPT ![s] = 0]
                 /\ spent' = [spent EXCEPT ![s] = 0]
        BY <4>2 DEF BudgetTypeOK
      <4>3. QED
        BY <3>1, <4>1, <4>2
    <3>5. QED
      BY <3>2, <3>3, <3>4 DEF BudgetTypeOK
  <2>13. CASE BudgetTick
    BY <2>13 DEF BudgetTypeOK, BudgetTick, Smaller, callVars
  <2>14. CASE UNCHANGED budgetVars
    BY <2>14 DEF BudgetTypeOK, budgetVars, serverVars, localVars, callVars
  <2>15. QED
    BY <2>1, <2>5, <2>6, <2>7, <2>8, <2>9, <2>10, <2>11, <2>12, <2>13, <2>14
       DEF BudgetNext, Reserve
<1>3. QED
  BY <1>1, <1>2, PTL DEF BudgetSpec

-----------------------------------------------------------------------------
\* One action of Redis or of a replica's table keeps the cap of that table.
LEMMA ReserveMemoryCap ==
    ASSUME BudgetTypeOK, HardCap, NEW r \in Calls, ReserveMemory(r)
    PROVE  \A p \in Replicas, s \in Sessions : memory'[p][s] <= MaxSession
<1> DEFINE q == replica[r]
           t == session[r]
           total == Evicted(q)[t] + shots[r]
<1>1. q \in Replicas /\ t \in Sessions
  BY DEF BudgetTypeOK
<1>2. /\ Evicted(q) \in [Sessions -> Nat]
      /\ \A s \in Sessions : Evicted(q)[s] <= MaxSession
  BY <1>1, EvictedType DEF HardCap
<1>3. PICK n \in Nat : /\ n <= MaxSession
                       /\ memory' = [memory EXCEPT ![q] = [Evicted(q) EXCEPT ![t] = n]]
  <2>1. CASE total <= MaxSession
    <3>1. total \in Nat /\ memory' = [memory EXCEPT ![q] = [Evicted(q) EXCEPT ![t] = total]]
      BY <1>1, <1>2, <2>1 DEF ReserveMemory, Fits, BudgetTypeOK
    <3>2. QED
      BY <2>1, <3>1
  <2>2. CASE ~(total <= MaxSession)
    <3>1. memory' = [memory EXCEPT ![q] = [Evicted(q) EXCEPT ![t] = Evicted(q)[t]]]
      BY <2>2 DEF ReserveMemory, Fits
    <3>2. QED
      BY <1>1, <1>2, <3>1
  <2>3. QED
    BY <2>1, <2>2
<1>4. QED
  BY <1>2, <1>3 DEF HardCap, BudgetTypeOK

LEMMA OnRedisErrorCap ==
    ASSUME BudgetTypeOK, HardCap, NEW r \in Calls, OnRedisError(r)
    PROVE  \A p \in Replicas, s \in Sessions : memory'[p][s] <= MaxSession
  BY ReserveMemoryCap DEF HardCap, OnRedisError, localVars

\* The script charges what it grants and grants only what fits.
LEMMA LuaReserveCap ==
    ASSUME BudgetTypeOK, HardCap, NEW r \in Calls, LuaReserve(session[r], shots[r])
    PROVE  \A s \in Sessions : redis[s] <= redis'[s] /\ redis'[s] <= MaxSession
  BY DEF BudgetTypeOK, HardCap, LuaReserve, Fits

\* The hard cap (budget.py:19-23), for every number of sessions, replicas and
\* runs and every limit: what Redis granted is charged, and no counter passes
\* max_shots_per_session.
THEOREM HardCapHolds == BudgetSpec => []HardCap
<1>1. BudgetInit => HardCap
  <2> SUFFICES ASSUME BudgetInit, NEW s \in Sessions
               PROVE  /\ spent[s] <= redis[s]
                      /\ redis[s] <= MaxSession
                      /\ \A p \in Replicas : memory[p][s] <= MaxSession
    BY DEF HardCap
  <2>1. spent[s] = 0 /\ redis[s] = 0
    BY DEF BudgetInit
  <2>2. \A p \in Replicas : memory[p][s] = 0
    BY DEF BudgetInit
  <2>3. QED
    BY <2>1, <2>2
<1>2. BudgetTypeOK /\ HardCap /\ [BudgetNext]_budgetVars => HardCap'
  <2> SUFFICES ASSUME BudgetTypeOK, HardCap, [BudgetNext]_budgetVars PROVE HardCap'
    OBVIOUS
  <2>1. ASSUME NEW r \in Calls, NEW s \in Sessions, NEW p \in Replicas,
               NEW n \in ShotRequests, NEW ok \in BOOLEAN, Precheck(r, s, p, n, ok)
        PROVE  HardCap'
    <3>1. \/ UNCHANGED <<memory, memoryAge>>
          \/ memory' = [memory EXCEPT ![p] = Evicted(p)]
      BY <2>1, Zenon DEF Precheck, localVars, EvictIn
    <3>2. redis' = redis /\ spent' = spent
      BY <2>1 DEF Precheck, serverVars
    <3>3. \A q \in Replicas, t \in Sessions : memory'[q][t] \in {0, memory[q][t]}
      BY <3>1, EvictedType DEF BudgetTypeOK
    <3>4. \A q \in Replicas, t \in Sessions : memory'[q][t] <= MaxSession
      BY <3>3 DEF HardCap
    <3>5. QED
      BY <3>2, <3>4 DEF HardCap
  <2>2. ASSUME NEW r \in Calls, ReserveRedis(r) PROVE HardCap'
    <3>1. CASE Fits(redis[session[r]], shots[r])
      BY <2>2, <3>1 DEF BudgetTypeOK, HardCap, ReserveRedis, LuaReserve, Fits, localVars
    <3>2. CASE ~Fits(redis[session[r]], shots[r])
      BY <2>2, <3>2 DEF BudgetTypeOK, HardCap, ReserveRedis, LuaReserve, localVars
    <3>3. QED
      BY <3>1, <3>2
  <2>3. ASSUME NEW r \in Calls, ReserveLost(r) PROVE HardCap'
    <3>1. \A s \in Sessions : redis[s] <= redis'[s] /\ redis'[s] <= MaxSession
      BY <2>3, LuaReserveCap DEF ReserveLost
    <3>2. \A p \in Replicas, s \in Sessions : memory'[p][s] <= MaxSession
      BY <2>3, OnRedisErrorCap DEF ReserveLost
    <3>3. redis' \in [Sessions -> Nat] /\ UNCHANGED spent
      BY <2>3 DEF BudgetTypeOK, ReserveLost, LuaReserve
    <3>4. QED
      BY <3>1, <3>2, <3>3 DEF BudgetTypeOK, HardCap
  <2>4. ASSUME NEW r \in Calls, ReserveDown(r) PROVE HardCap'
    BY <2>4, OnRedisErrorCap DEF HardCap, ReserveDown, serverVars
  <2>5. ASSUME NEW r \in Calls, ReserveLocal(r) PROVE HardCap'
    BY <2>5, ReserveMemoryCap DEF HardCap, ReserveLocal, serverVars
  <2>6. ASSUME NEW r \in Calls, Finish(r) PROVE HardCap'
    BY <2>6 DEF HardCap, Finish, serverVars, localVars
  <2>7. ASSUME NEW p \in Replicas, HealthSummary(p) PROVE HardCap'
    <3>1. \A q \in Replicas, t \in Sessions : memory'[q][t] \in {0, memory[q][t]}
      BY <2>7, EvictedType DEF BudgetTypeOK, HealthSummary, EvictIn
    <3>2. \A q \in Replicas, t \in Sessions : memory'[q][t] <= MaxSession
      BY <3>1 DEF HardCap
    <3>3. redis' = redis /\ spent' = spent
      BY <2>7 DEF HealthSummary, serverVars
    <3>4. QED
      BY <3>2, <3>3 DEF HardCap
  <2>8. ASSUME NEW p \in Replicas, RestartReplica(p) PROVE HardCap'
    BY <2>8 DEF BudgetTypeOK, HardCap, RestartReplica, serverVars
  <2>9. ASSUME NEW s \in Sessions, NEW p \in Replicas, NEW ok \in BOOLEAN,
               ResetSession(s, p, ok)
        PROVE  HardCap'
    <3>1. \/ redis' = redis /\ spent' = spent
          \/ /\ redis' = [redis EXCEPT ![s] = 0]
             /\ spent' = [spent EXCEPT ![s] = 0]
      BY <2>9, Zenon DEF ResetSession
    <3>2. memory' = [memory EXCEPT ![p][s] = 0]
      BY <2>9 DEF ResetSession
    <3>3. QED
      BY <3>1, <3>2 DEF BudgetTypeOK, HardCap
  <2>10. CASE BudgetTick
    BY <2>10 DEF BudgetTypeOK, HardCap, BudgetTick
  <2>11. CASE UNCHANGED budgetVars
    BY <2>11 DEF HardCap, budgetVars, serverVars, localVars
  <2>12. QED
    BY <2>1, <2>2, <2>3, <2>4, <2>5, <2>6, <2>7, <2>8, <2>9, <2>10, <2>11
       DEF BudgetNext, Reserve
<1>3. QED
  BY <1>1, <1>2, TypeCorrect, PTL DEF BudgetSpec

-----------------------------------------------------------------------------
\* Fail-closed mode (budget.py:115-119): a replica's own table stays empty, so
\* Redis is the only source of grants, for any interleaving and any failure.
THEOREM FailClosedHolds == BudgetSpec => []FailClosed
<1>1. BudgetInit => FailClosed
  BY DEF BudgetInit, FailClosed
<1>2. BudgetTypeOK /\ FailClosed /\ [BudgetNext]_budgetVars => FailClosed'
  <2> SUFFICES ASSUME BudgetTypeOK, FailClosed, [BudgetNext]_budgetVars, UseRedis, ~FailOpen,
                      NEW q \in Replicas, NEW t \in Sessions
               PROVE  memory'[q][t] = 0
    BY DEF FailClosed, UseRedis, FailOpen, BudgetNext, budgetVars
  <2>0. memory[q][t] = 0
    BY DEF FailClosed
  <2>1. ASSUME NEW r \in Calls, NEW s \in Sessions, NEW p \in Replicas,
               NEW n \in ShotRequests, NEW ok \in BOOLEAN, Precheck(r, s, p, n, ok)
        PROVE  memory'[q][t] = 0
    <3>1. \/ UNCHANGED <<memory, memoryAge>>
          \/ memory' = [memory EXCEPT ![p] = Evicted(p)]
      BY <2>1, Zenon DEF Precheck, localVars, EvictIn
    <3>2. QED
      BY <2>0, <3>1, EvictedType DEF BudgetTypeOK, FailClosed
  <2>2. ASSUME NEW r \in Calls, Reserve(r) PROVE memory'[q][t] = 0
    <3>1. UNCHANGED memory
      BY <2>2 DEF Reserve, ReserveRedis, ReserveLost, ReserveDown, ReserveLocal,
                  OnRedisError, localVars
    <3>2. QED
      BY <2>0, <3>1
  <2>3. ASSUME NEW r \in Calls, Finish(r) PROVE memory'[q][t] = 0
    BY <2>0, <2>3 DEF Finish, localVars
  <2>4. ASSUME NEW p \in Replicas, HealthSummary(p) PROVE memory'[q][t] = 0
    BY <2>4 DEF HealthSummary
  <2>5. ASSUME NEW p \in Replicas, RestartReplica(p) PROVE memory'[q][t] = 0
    BY <2>0, <2>5 DEF BudgetTypeOK, RestartReplica
  <2>6. ASSUME NEW s \in Sessions, NEW p \in Replicas, NEW ok \in BOOLEAN,
               ResetSession(s, p, ok)
        PROVE  memory'[q][t] = 0
    BY <2>0, <2>6 DEF BudgetTypeOK, ResetSession
  <2>7. CASE BudgetTick
    BY <2>0, <2>7 DEF BudgetTick
  <2>8. CASE UNCHANGED budgetVars
    BY <2>0, <2>8 DEF budgetVars, localVars
  <2>9. QED
    BY <2>1, <2>2, <2>3, <2>4, <2>5, <2>6, <2>7, <2>8 DEF BudgetNext
<1>3. QED
  BY <1>1, <1>2, TypeCorrect, PTL DEF BudgetSpec
-----------------------------------------------------------------------------
(* The sliding TTL *)

\* The server forgets nothing on its own but by the clock: a step of a replica
\* leaves the key's age, or is the script, and only a reset takes usage away.
LEMMA ServerStep ==
    ASSUME BudgetTypeOK, [BudgetNext]_budgetVars
    PROVE  \/ UNCHANGED <<redisAge, quiet>> /\ \A s \in Sessions : redis'[s] \in {redis[s], 0}
           \/ \E r \in Calls : LuaReserve(session[r], shots[r])
           \/ BudgetTick
<1> DEFINE Kept == UNCHANGED <<redisAge, quiet>> /\ \A s \in Sessions : redis'[s] \in {redis[s], 0}
<1>1. ASSUME NEW r \in Calls, NEW s \in Sessions, NEW p \in Replicas,
             NEW n \in ShotRequests, NEW ok \in BOOLEAN, Precheck(r, s, p, n, ok)
      PROVE  Kept
  BY <1>1 DEF Precheck, serverVars
<1>2. ASSUME NEW r \in Calls, Reserve(r) PROVE Kept \/ LuaReserve(session[r], shots[r])
  BY <1>2 DEF Reserve, ReserveRedis, ReserveLost, ReserveDown, ReserveLocal, serverVars
<1>3. ASSUME NEW r \in Calls, Finish(r) PROVE Kept
  BY <1>3 DEF Finish, serverVars
<1>4. ASSUME NEW p \in Replicas, HealthSummary(p) \/ RestartReplica(p) PROVE Kept
  BY <1>4 DEF HealthSummary, RestartReplica, serverVars
<1>5. ASSUME NEW s \in Sessions, NEW p \in Replicas, NEW ok \in BOOLEAN, ResetSession(s, p, ok)
      PROVE  Kept
  <2>1. UNCHANGED <<redisAge, quiet>> /\ (redis' = redis \/ redis' = [redis EXCEPT ![s] = 0])
    BY <1>5, Zenon DEF ResetSession
  <2>2. QED
    BY <2>1 DEF BudgetTypeOK
<1>6. CASE UNCHANGED budgetVars
  BY <1>6 DEF budgetVars, serverVars
<1>7. QED
  BY <1>1, <1>2, <1>3, <1>4, <1>5, <1>6 DEF BudgetNext

\* The age of a session's key is the time since the last reserve that reached
\* Redis: every reserve refreshes it, a rejected one too (budget.py:43).
InStep == redisAge = quiet

\* No action of a replica, of the script or of the clock moves the one without
\* the other.
THEOREM InStepHolds == BudgetSpec => []InStep
<1>1. BudgetInit => InStep
  BY DEF BudgetInit, InStep
<1>2. BudgetTypeOK /\ InStep /\ [BudgetNext]_budgetVars => InStep'
  <2> SUFFICES ASSUME BudgetTypeOK, InStep, [BudgetNext]_budgetVars PROVE InStep'
    OBVIOUS
  <2>1. CASE UNCHANGED <<redisAge, quiet>>
    BY <2>1 DEF InStep
  <2>2. ASSUME NEW r \in Calls, LuaReserve(session[r], shots[r]) PROVE InStep'
    BY <2>2 DEF LuaReserve, Refresh, InStep
  <2>3. CASE BudgetTick
    BY <2>3 DEF BudgetTick, InStep
  <2>4. QED
    BY <2>1, <2>2, <2>3, ServerStep
<1>3. QED
  BY <1>1, <1>2, TypeCorrect, PTL DEF BudgetSpec

\* The sliding TTL (budget.py:43 and 135), for every TTL and number of sessions:
\* without a reset, usage is forgotten only when no reserve, accepted or not, has
\* reached Redis for Ttl.
THEOREM SlidingTtlHolds == BudgetSpec => SlidingTtl
<1> DEFINE Slides == \A s \in Sessions :
        redis'[s] < redis[s] => quiet'[s] = Ttl \/ (redis'[s] = 0 /\ UNCHANGED quiet)
<1>1. BudgetTypeOK /\ InStep /\ [BudgetNext]_budgetVars => [Slides]_budgetVars
  <2> SUFFICES ASSUME BudgetTypeOK, InStep, [BudgetNext]_budgetVars, NEW s \in Sessions, redis'[s] < redis[s]
               PROVE  quiet'[s] = Ttl \/ (redis'[s] = 0 /\ UNCHANGED quiet)
    OBVIOUS
  <2>1. CASE UNCHANGED <<redisAge, quiet>> /\ \A t \in Sessions : redis'[t] \in {redis[t], 0}
    BY <2>1 DEF BudgetTypeOK
  <2>2. ASSUME NEW r \in Calls, LuaReserve(session[r], shots[r]) PROVE FALSE
    <3>1. redis' = redis \/ redis' = [redis EXCEPT ![session[r]] = @ + shots[r]]
      BY <2>2 DEF LuaReserve
    <3>2. QED
      BY <3>1 DEF BudgetTypeOK
  <2>3. CASE BudgetTick
    <3>1. redisAge[s] + 1 >= Ttl
      BY <2>3 DEF BudgetTick, BudgetTypeOK
    <3>2. quiet'[s] = Smaller(redisAge[s] + 1, Ttl)
      BY <2>3 DEF BudgetTick, InStep
    <3>3. QED
      BY <3>1, <3>2 DEF Smaller, BudgetTypeOK
  <2>4. QED
    BY <2>1, <2>2, <2>3, ServerStep
<1>2. QED
  BY <1>1, TypeCorrect, InStepHolds, PTL DEF BudgetSpec, SlidingTtl
=============================================================================

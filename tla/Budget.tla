------------------------------- MODULE Budget -------------------------------
(***************************************************************************)
(* The per-session shot budget: BudgetTracker (budget.py) and the engine's *)
(* guardrails that use it (engine.py, _apply_shot_guardrails), run by      *)
(* several replicas of the backend that share one Redis.                   *)
(*                                                                         *)
(* Time passes in Ticks; a usage entry lives Ttl ticks after the last      *)
(* reserve that touched it.  Every Redis call may succeed, fail before     *)
(* the server saw it, or fail after the server executed it.                *)
(***************************************************************************)
EXTENDS Integers

CONSTANTS
    Sessions, Replicas,
    Calls,         \* engine calls in flight
    ShotRequests,  \* the shot budgets a request may ask for
    MaxSession,    \* max_shots_per_session
    MaxExperiment, \* max_shots_per_experiment
    DefaultBudget, \* default_shot_budget, used when a request carries 0 or none
    Ttl,           \* session_budget_ttl_seconds
    Modes          \* the settings a deployment may have: see UseRedis, FailOpen

ASSUME BudgetAssumption ==
    /\ ShotRequests \subseteq Int
    /\ MaxSession \in Nat \ {0}
    /\ MaxExperiment \in Nat \ {0}
    /\ DefaultBudget \in Nat \ {0}
    /\ Ttl \in Nat \ {0}
    /\ Modes \subseteq {"local", "closed", "open"}

VARIABLES
    mode,       \* the settings of this deployment
    redis,      \* usage under synqc:session:<id>:shots, 0 when the key is missing
    redisAge,   \* ticks since the key's TTL was last refreshed
    memory,     \* a replica's _in_memory_usage
    memoryAge,  \* ticks since the entry's last_seen_ts
    stage,      \* where a run is in the engine
    session, replica, shots, \* the run's session, replica and effective shot budget
    spent,      \* history: shots granted by Redis since the key last vanished
    quiet       \* history: ticks since the last reserve that reached Redis

serverVars == <<redis, redisAge, spent, quiet>>
localVars  == <<memory, memoryAge>>
callVars   == <<stage, session, replica, shots>>
budgetVars == <<mode, serverVars, localVars, callVars>>

UseRedis == mode # "local"  \* a redis_url is configured
FailOpen == mode = "open"   \* budget_fail_open_on_redis_error

BudgetTypeOK ==
    /\ mode \in Modes
    /\ redis \in [Sessions -> Nat]
    /\ redisAge \in [Sessions -> 0 .. Ttl]
    /\ memory \in [Replicas -> [Sessions -> Nat]]
    /\ memoryAge \in [Replicas -> [Sessions -> 0 .. Ttl]]
    /\ stage \in [Calls -> {"idle", "checked", "granted"}]
    /\ session \in [Calls -> Sessions]
    /\ replica \in [Calls -> Replicas]
    /\ shots \in [Calls -> 1 .. MaxExperiment]
    /\ spent \in [Sessions -> Nat]
    /\ quiet \in [Sessions -> 0 .. Ttl]

BudgetInit ==
    /\ mode \in Modes
    /\ redis = [s \in Sessions |-> 0]
    /\ redisAge = [s \in Sessions |-> 0]
    /\ memory = [p \in Replicas |-> [s \in Sessions |-> 0]]
    /\ memoryAge = [p \in Replicas |-> [s \in Sessions |-> 0]]
    /\ stage = [r \in Calls |-> "idle"]
    /\ session \in [Calls -> Sessions]
    /\ replica \in [Calls -> Replicas]
    /\ shots = [r \in Calls |-> 1]
    /\ spent = [s \in Sessions |-> 0]
    /\ quiet = [s \in Sessions |-> 0]

-----------------------------------------------------------------------------
(* BudgetTracker *)

Smaller(a, b) == IF a < b THEN a ELSE b
Larger(a, b)  == IF a > b THEN a ELSE b

\* _evict_expired_locked: what a replica's table holds once its expired
\* entries are dropped.
Evicted(p) == [s \in Sessions |-> IF memoryAge[p][s] >= Ttl THEN 0 ELSE memory[p][s]]

EvictIn(p) ==
    /\ memory' = [memory EXCEPT ![p] = Evicted(p)]
    /\ UNCHANGED memoryAge

FitsOldTotal(current, n) == current <= MaxSession
Fits(current, n) == current + n <= MaxSession

\* _LUA_RESERVE.  A rejected attempt refreshes the TTL too.
RefreshAcceptedOnly(s, n) ==
    redisAge' = IF Fits(redis[s], n) THEN [redisAge EXCEPT ![s] = 0] ELSE redisAge
Refresh(s, n) == redisAge' = [redisAge EXCEPT ![s] = 0]

LuaReserve(s, n) ==
    /\ redis' = IF Fits(redis[s], n) THEN [redis EXCEPT ![s] = @ + n] ELSE redis
    /\ Refresh(s, n)
    /\ quiet' = [quiet EXCEPT ![s] = 0]

\* _reserve_memory, by run r.
ReserveMemory(r) ==
    LET p == replica[r]  s == session[r]  current == Evicted(p)[s]  ok == Fits(current, shots[r])
    IN  /\ memory' = [memory EXCEPT ![p] =
                [Evicted(p) EXCEPT ![s] = IF ok THEN current + shots[r] ELSE current]]
        /\ memoryAge' = [memoryAge EXCEPT ![p][s] = 0]
        /\ stage' = [stage EXCEPT ![r] = IF ok THEN "granted" ELSE "idle"]

\* reserve's except clause: deny, or fall back to the replica's own table.
FallbackAlways(r) == ReserveMemory(r)
OnRedisError(r) ==
    \/ FailOpen /\ ReserveMemory(r)
    \/ ~FailOpen /\ stage' = [stage EXCEPT ![r] = "idle"] /\ UNCHANGED localVars

-----------------------------------------------------------------------------
(* The engine *)

Uncapped(n) == n
Capped(n)   == Smaller(n, MaxExperiment)

\* _apply_shot_guardrails up to the reservation.  get_usage reads Redis, and
\* the replica's table when Redis is not used or the read fails.  A request
\* that does not fit, or is not positive, raises and leaves the run idle.
Precheck(r, s, p, n, readOk) ==
    LET viaRedis  == UseRedis /\ readOk
        usage     == IF viaRedis THEN redis[s] ELSE Evicted(p)[s]
        requested == IF n = 0 THEN DefaultBudget ELSE n
        passes    == /\ requested <= Larger(0, MaxSession - usage)
                     /\ requested <= MaxSession
                     /\ requested > 0
    IN  /\ stage[r] = "idle"
        /\ IF viaRedis THEN UNCHANGED localVars ELSE EvictIn(p)
        /\ IF passes
           THEN /\ stage' = [stage EXCEPT ![r] = "checked"]
                /\ session' = [session EXCEPT ![r] = s]
                /\ replica' = [replica EXCEPT ![r] = p]
                /\ shots' = [shots EXCEPT ![r] = Capped(requested)]
           ELSE UNCHANGED callVars
        /\ UNCHANGED serverVars

\* The reservation when Redis executes the script and the reply arrives.
ReserveRedis(r) ==
    LET s == session[r]  ok == Fits(redis[s], shots[r])
    IN  /\ stage[r] = "checked" /\ UseRedis
        /\ LuaReserve(s, shots[r])
        /\ stage' = [stage EXCEPT ![r] = IF ok THEN "granted" ELSE "idle"]
        /\ spent' = IF ok THEN [spent EXCEPT ![s] = @ + shots[r]] ELSE spent
        /\ UNCHANGED <<localVars, session, replica, shots>>

\* Redis executes the script but the call raises (the reply is lost).
ReserveLost(r) ==
    /\ stage[r] = "checked" /\ UseRedis
    /\ LuaReserve(session[r], shots[r])
    /\ OnRedisError(r)
    /\ UNCHANGED <<spent, session, replica, shots>>

\* The call raises before Redis saw it.
ReserveDown(r) ==
    /\ stage[r] = "checked" /\ UseRedis
    /\ OnRedisError(r)
    /\ UNCHANGED <<serverVars, session, replica, shots>>

\* No Redis is configured.
ReserveLocal(r) ==
    /\ stage[r] = "checked" /\ ~UseRedis
    /\ ReserveMemory(r)
    /\ UNCHANGED <<serverVars, session, replica, shots>>

\* The provider call and the rest of run_experiment end, well or with an
\* exception: in neither case are the reserved shots given back.
Finish(r) ==
    /\ stage[r] = "granted"
    /\ stage' = [stage EXCEPT ![r] = "idle"]
    /\ UNCHANGED <<serverVars, localVars, session, replica, shots>>

-----------------------------------------------------------------------------
(* The environment *)

\* health_summary, or a read of the in-memory table.
HealthSummary(p) ==
    /\ ~UseRedis
    /\ EvictIn(p)
    /\ UNCHANGED <<serverVars, callVars>>

\* reset_session: a Redis error is swallowed and the local entry goes anyway.
ResetSession(s, p, ok) ==
    /\ IF UseRedis /\ ok
       THEN /\ redis' = [redis EXCEPT ![s] = 0]
            /\ spent' = [spent EXCEPT ![s] = 0]
       ELSE UNCHANGED <<redis, spent>>
    /\ memory' = [memory EXCEPT ![p][s] = 0]
    /\ UNCHANGED <<redisAge, quiet, memoryAge, callVars>>

\* A replica dies and restarts: its table and its runs are gone, Redis is not.
RestartReplica(p) ==
    /\ memory' = [memory EXCEPT ![p] = [s \in Sessions |-> 0]]
    /\ stage' = [r \in Calls |-> IF replica[r] = p THEN "idle" ELSE stage[r]]
    /\ UNCHANGED <<serverVars, memoryAge, session, replica, shots>>

\* Redis drops a key when its TTL is over; a table entry waits for an eviction.
BudgetTick ==
    LET expired == {s \in Sessions : redisAge[s] + 1 >= Ttl}
        older(a) == Smaller(a + 1, Ttl)
    IN  /\ redis' = [s \in Sessions |-> IF s \in expired THEN 0 ELSE redis[s]]
        /\ spent' = [s \in Sessions |-> IF s \in expired THEN 0 ELSE spent[s]]
        /\ redisAge' = [s \in Sessions |-> older(redisAge[s])]
        /\ quiet' = [s \in Sessions |-> older(quiet[s])]
        /\ memoryAge' = [p \in Replicas |-> [s \in Sessions |-> older(memoryAge[p][s])]]
        /\ UNCHANGED <<memory, callVars>>

Reserve(r) == ReserveRedis(r) \/ ReserveLost(r) \/ ReserveDown(r) \/ ReserveLocal(r)

\* The settings do not change while the service runs.
BudgetNext ==
    /\ UNCHANGED mode
    /\ \/ \E r \in Calls, s \in Sessions, p \in Replicas, n \in ShotRequests, ok \in BOOLEAN :
             Precheck(r, s, p, n, ok)
       \/ \E r \in Calls : Reserve(r) \/ Finish(r)
       \/ \E p \in Replicas : HealthSummary(p) \/ RestartReplica(p)
       \/ \E s \in Sessions, p \in Replicas, ok \in BOOLEAN : ResetSession(s, p, ok)
       \/ BudgetTick

BudgetSpec == BudgetInit /\ [][BudgetNext]_budgetVars

-----------------------------------------------------------------------------
(* Properties *)

\* BudgetTracker's "hard cap" (budget.py:19-23): whatever the replicas' stale
\* reads, lost replies and restarts, the shots Redis granted to a session in
\* one lifetime of its key are all charged to the key and never exceed
\* max_shots_per_session; a replica that falls back to its own table is held
\* to the same cap, separately.
HardCap == \A s \in Sessions :
    /\ spent[s] <= redis[s]
    /\ redis[s] <= MaxSession
    /\ \A p \in Replicas : memory[p][s] <= MaxSession

\* "Fail CLOSED on Redis errors" (budget.py:23, 116): with Redis configured and
\* fail-open disabled no replica ever grants shots from its own table, and
\* so every shot a run executes was charged to the shared key.
FailClosed == UseRedis /\ ~FailOpen =>
    \A p \in Replicas, s \in Sessions : memory[p][s] = 0

\* The sliding TTL (budget.py:43, 135): without a reset, a session's usage is
\* forgotten only when no reserve, accepted or not, has reached Redis for Ttl.
SlidingTtl == [][\A s \in Sessions :
    redis'[s] < redis[s] => quiet'[s] = Ttl \/ (redis'[s] = 0 /\ UNCHANGED quiet)]_budgetVars
=============================================================================

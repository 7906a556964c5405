-------------------------- MODULE ExecutionProofs --------------------------
(***************************************************************************)
(* Proofs about Execution, for any number of threads, deployments,         *)
(* submissions and profiles, and any sizes of batches and limits.          *)
(*                                                                         *)
(* Most of a run concerns its own thread alone: RunInv is what holds of    *)
(* one run at every line of the engine, and Quiet says that a step is of   *)
(* that kind.  The threads meet in the provider metrics, which nothing     *)
(* locks: MetricsInv relates what each of them has read to what all of     *)
(* them have counted.                                                      *)
(***************************************************************************)
EXTENDS Execution, TLAPS

Pcs == {"idle", "guard", "controls", "backend", "record", "recording", "fallback",
        "adjust", "stored", "failed"}
Whys == {"none", "budget", "limit", "dependency", "credentials", "queue", "capacity",
         "error", "simulation disabled"}
AllProfiles == Profiles \union {NoProfile, DefaultProfile}

Run == [pc : Pcs, target : Targets, preset : Presets, budget : Int, warn : BOOLEAN,
        profile : AllProfiles, executed : Nat, shots : Nat, batch : Nat,
        fidelity : Nat, back : Nat, status : {"OK", "WARN", "FAIL"},
        simulated : BOOLEAN, failed : BOOLEAN, seen : Nat, why : Whys]

Counts == [Targets -> [Statuses -> Nat]]

TypeOK ==
    /\ config \in Deployments
    /\ worker \in [Workers -> Run]
    /\ started \in Nat /\ seeds \in Nat /\ updates \in Nat
    /\ controls \in Profiles \union {DefaultProfile} /\ file \in AllProfiles
    /\ writing \in BOOLEAN /\ unsaved \in BOOLEAN
    /\ counters \in Counts /\ summary \in Counts

\* The targets a payload file answers for.
Payloads == {t \in Targets : Client(t) = "payload"}

\* The provider has answered, and the run has kept its answer.
Answered(r) == r.pc \in {"adjust", "stored"} \/ (r.pc \in {"record", "recording"} /\ ~ r.failed)

\* The budget is positive once the guardrails have passed, and a run starts clean.
BudgetInv(r) ==
    /\ r.pc \notin {"idle", "guard", "failed"} => r.budget >= 1
    /\ r.pc \in {"idle", "guard", "controls", "failed"} => r.executed = 0 /\ r.batch = 0
    /\ r.pc \in {"guard", "controls", "backend"} => ~ r.failed /\ ~ r.simulated

\* What an answer reports.
ReportInv(r, payloads) == Answered(r) =>
    r.shots <= r.budget \/ (r.target \in payloads /\ ~ r.simulated)

\* Batches on hardware never spend more than the budget.
HardwareInv(r) == r.pc = "backend" /\ r.target \in Hardware => r.executed <= r.budget

\* Each batch of the simulator is at least 9/5 of the one before, but the last,
\* which is cut to the budget.
SearchInv(r) == r.target = "sim_local" =>
    /\ r.pc = "backend" =>
         IF r.batch = 0 THEN r.executed = 0
         ELSE /\ r.batch <= r.budget
              /\ \/ 4 * r.executed <= 5 * r.batch
                 \/ r.batch = r.budget /\ 4 * r.executed <= 9 * r.budget
    /\ r.executed > 0 => 4 * r.executed <= 13 * r.budget

\* A fidelity that failed is a failure until the profile is applied.
StatusInv(r) ==
    /\ Answered(r) /\ r.pc # "stored" /\ r.fidelity < 900 => r.status = "FAIL"
    /\ r.pc = "stored" /\ r.fidelity < 900 => r.status = "FAIL" \/ Unguarded(r.profile)

FallbackInv(r, simulation) ==
    /\ simulation /\ r.pc = "failed" => r.why \in {"budget", "limit", "dependency"}
    /\ r.simulated => simulation

RunInv(r, payloads, simulation) ==
    /\ BudgetInv(r) /\ ReportInv(r, payloads) /\ HardwareInv(r) /\ SearchInv(r)
    /\ StatusInv(r) /\ FallbackInv(r, simulation)

RunsInv == \A w \in Workers : RunInv(worker[w], Payloads, config.allow_simulation)

\* What a thread is about to write was counted before, and a status that was counted
\* is in the summary, or is about to be written to it.
SeenInv == \A w \in Workers : worker[w].pc = "recording" =>
    worker[w].seen + 1 <= counters[worker[w].target][Outcome(worker[w])]

Writing(w, t, k) == worker[w].pc = "recording" /\ worker[w].target = t /\ Outcome(worker[w]) = k

SummaryInv == \A t \in Targets, k \in Statuses :
    /\ summary[t][k] <= counters[t][k]
    /\ counters[t][k] > 0 => summary[t][k] > 0 \/ \E w \in Workers : Writing(w, t, k)

Inv == RunsInv /\ SeenInv /\ SummaryInv

-----------------------------------------------------------------------------
(* Operators *)

\* Min and Max of two numbers, as the guardrails and the batches use them.
LEMMA MinOfTwo ==
    ASSUME NEW a \in Int, NEW b \in Int
    PROVE  Min({a, b}) = IF a <= b THEN a ELSE b
<1> DEFINE m == IF a <= b THEN a ELSE b
<1>1. m \in {a, b} /\ \A y \in {a, b} : m <= y
  OBVIOUS
<1>2. \A x \in {a, b} : (\A y \in {a, b} : x <= y) => x = m
  OBVIOUS
<1> HIDE DEF m
<1>3. (CHOOSE x \in {a, b} : \A y \in {a, b} : x <= y) = m
  BY <1>1, <1>2
<1> QED
  BY <1>3 DEF Min, m

LEMMA MaxOfTwo ==
    ASSUME NEW a \in Int, NEW b \in Int
    PROVE  Max({a, b}) = IF a >= b THEN a ELSE b
<1> DEFINE m == IF a >= b THEN a ELSE b
<1>1. m \in {a, b} /\ \A y \in {a, b} : m >= y
  OBVIOUS
<1>2. \A x \in {a, b} : (\A y \in {a, b} : x >= y) => x = m
  OBVIOUS
<1> HIDE DEF m
<1>3. (CHOOSE x \in {a, b} : \A y \in {a, b} : x >= y) = m
  BY <1>1, <1>2
<1> QED
  BY <1>3 DEF Max, m

\* grover.py:240-243: a batch grows by at least 9/5.
LEMMA GrownEnough ==
    ASSUME NEW n \in Nat
    PROVE  Grown(n) \in Nat /\ 5 * Grown(n) >= 9 * n
BY DEF Grown

\* What a result keeps of its run, and what it sets.
LEMMA ResultFields ==
    ASSUME NEW r \in Run, NEW n \in Nat, NEW kind, NEW k \in Result(r, n, kind)
    PROVE  /\ k \in Run
           /\ k.pc = r.pc /\ k.target = r.target /\ k.budget = r.budget /\ k.batch = r.batch
           /\ k.profile = r.profile /\ k.warn = r.warn /\ k.preset = r.preset
           /\ k.simulated = r.simulated /\ k.failed = r.failed /\ k.why = r.why
           /\ k.seen = r.seen
           /\ k.shots = n
           /\ k.executed = IF r.executed = 0 THEN n ELSE r.executed
           /\ k.fidelity < 900 => k.status = "FAIL"
<1>1. PICK f \in Fidelities(kind), b \in Backactions(kind) :
        k = WithKpis(r, n, f, b)
  BY DEF Result
<1>2. f \in Nat /\ b \in Nat
  BY DEF Fidelities, Backactions
<1>3. StatusOf(f, b) \in {"OK", "WARN", "FAIL"} /\ (f < 900 => StatusOf(f, b) = "FAIL")
  BY <1>2 DEF StatusOf
<1>4. (IF r.executed = 0 THEN n ELSE r.executed) \in Nat
  BY DEF Run
<1> QED
  BY <1>1, <1>2, <1>3, <1>4 DEF Run, WithKpis

LEMMA NoRunType == NoRun \in Run
BY DEF NoRun, Run, Pcs, Targets, Presets, AllProfiles, Whys

-----------------------------------------------------------------------------
(* The steps of one run *)

\* The run of thread w becomes r, which is sound, and no metric is written.
Becomes(w, r) ==
    /\ r \in Run /\ RunInv(r, Payloads, config.allow_simulation)
    /\ worker' = [worker EXCEPT ![w] = r]
    /\ worker[w].pc # "recording" /\ r.pc # "recording"

\* A run that fails reports nothing: what is left to show is the reason it gives.
LEMMA FailsStep ==
    ASSUME NEW w \in Workers, NEW why \in Whys, worker[w].pc # "recording", Fails(w, why),
           config.allow_simulation => why \in {"budget", "limit", "dependency"}
    PROVE  \E r \in Run : Becomes(w, r)
<1> DEFINE r == [NoRun EXCEPT !.pc = "failed", !.why = why]
<1>1. r \in Run
  BY NoRunType DEF Run, Pcs
<1>2. /\ r.pc = "failed" /\ r.why = why /\ r.executed = 0 /\ r.batch = 0
      /\ ~ r.simulated /\ r.target = "sim_local"
  BY DEF NoRun
<1>3. worker' = [worker EXCEPT ![w] = r]
  BY DEF Fails, Set
<1> HIDE DEF r
<1>4. RunInv(r, Payloads, config.allow_simulation)
  BY <1>2 DEF RunInv, BudgetInv, ReportInv, Answered, HardwareInv, SearchInv, StatusInv,
              FallbackInv
<1> QED
  BY <1>1, <1>2, <1>3, <1>4 DEF Becomes

\* _enqueue_run and _seed_demo_runs.
LEMMA StartsStep ==
    ASSUME NEW w \in Workers, NEW q \in Submissions, q.target \in Targets, Starts(w, q, "guard")
    PROVE  \E r \in Run : Becomes(w, r)
<1> DEFINE r == [NoRun EXCEPT !.pc = "guard", !.target = q.target, !.preset = q.preset,
                              !.budget = q.shots, !.profile = q.overrides]
<1>1. r \in Run
  BY NoRunType, ExecAssumption DEF Run, Pcs, AllProfiles
<1>2. /\ r.pc = "guard" /\ r.executed = 0 /\ r.batch = 0
      /\ ~ r.simulated /\ ~ r.failed
  BY DEF NoRun
<1>3. worker' = [worker EXCEPT ![w] = r] /\ worker[w].pc = "idle"
  BY DEF Starts, Set
<1> HIDE DEF r
<1>4. RunInv(r, Payloads, config.allow_simulation)
  BY <1>2 DEF RunInv, BudgetInv, ReportInv, Answered, HardwareInv, SearchInv, StatusInv,
              FallbackInv
<1> QED
  BY <1>1, <1>2, <1>3, <1>4 DEF Becomes

\* _apply_shot_guardrails: what it lets through is positive.
LEMMA GuardrailsStep ==
    ASSUME TypeOK, NEW w \in Workers, RunInv(worker[w], Payloads, config.allow_simulation),
           ApplyShotGuardrails(w)
    PROVE  \E r \in Run : Becomes(w, r)
<1> DEFINE old       == worker[w]
           requested == IF old.budget = 0 THEN DefaultShots ELSE old.budget
           shots     == Min({requested, MaxShots})
           r == [old EXCEPT !.pc = "controls", !.budget = shots,
                            !.warn = old.target # "sim_local" /\ shots > DefaultShots]
<1>1. old \in Run /\ old.pc = "guard"
  BY DEF TypeOK, ApplyShotGuardrails
<1>2. old.executed = 0 /\ old.batch = 0 /\ ~ old.failed /\ ~ old.simulated
  BY <1>1 DEF RunInv, BudgetInv
<1>3. CASE Fails(w, "budget")
  BY <1>1, <1>3, FailsStep DEF Whys
<1>4. CASE requested > 0 /\ Set(w, r)
  <2>1. requested \in Int /\ MaxShots \in Nat \ {0} /\ DefaultShots \in Nat
    BY <1>1, ExecAssumption DEF Run
  <2>7. requested > 0
    BY <1>4
  <2> HIDE DEF requested
  <2>8. shots = IF requested <= MaxShots THEN requested ELSE MaxShots
    BY <2>1, MinOfTwo
  <2> HIDE DEF shots
  <2>2. shots \in Int /\ shots >= 1
    BY <2>1, <2>7, <2>8
  <2>3. r \in Run
    BY <1>1, <2>2 DEF Run, Pcs
  <2>4. /\ r.pc = "controls" /\ r.budget = shots /\ r.executed = 0 /\ r.batch = 0
        /\ ~ r.failed /\ ~ r.simulated
    BY <1>1, <1>2 DEF Run
  <2>5. worker' = [worker EXCEPT ![w] = r]
    BY <1>4 DEF Set
  <2> HIDE DEF r
  <2>6. RunInv(r, Payloads, config.allow_simulation)
    BY <2>2, <2>4 DEF RunInv, BudgetInv, ReportInv, Answered, HardwareInv, SearchInv, StatusInv,
                      FallbackInv
  <2> QED
    BY <1>1, <2>3, <2>4, <2>5, <2>6 DEF Becomes
<1> QED
  BY <1>3, <1>4 DEF ApplyShotGuardrails

\* The overrides or the profile of this moment, and the provider's limit.
LEMMA ControlsStep ==
    ASSUME TypeOK, NEW w \in Workers, RunInv(worker[w], Payloads, config.allow_simulation),
           ReadControls(w)
    PROVE  \E r \in Run : Becomes(w, r)
<1> DEFINE old == worker[w]
           p   == IF old.profile # NoProfile THEN old.profile ELSE controls
           r   == [old EXCEPT !.profile = p, !.pc = "backend"]
<1>1. old \in Run /\ old.pc = "controls"
  BY DEF TypeOK, ReadControls
<1>2. /\ old.executed = 0 /\ old.batch = 0 /\ ~ old.failed /\ ~ old.simulated
      /\ old.budget >= 1
  BY <1>1 DEF RunInv, BudgetInv
<1>3. CASE Fails(w, "limit")
  BY <1>1, <1>3, FailsStep DEF Whys
<1>4. CASE Set(w, r)
  <2>1. p \in AllProfiles
    BY <1>1 DEF TypeOK, Run, AllProfiles
  <2> HIDE DEF p
  <2>2. r \in Run
    BY <1>1, <2>1 DEF Run, Pcs
  <2>3. /\ r.pc = "backend" /\ r.budget = old.budget /\ r.executed = 0 /\ r.batch = 0
        /\ ~ r.failed /\ ~ r.simulated
    BY <1>1, <1>2 DEF Run
  <2>4. worker' = [worker EXCEPT ![w] = r]
    BY <1>4 DEF Set
  <2>5. r.budget \in Int
    BY <2>2 DEF Run
  <2> HIDE DEF r
  <2>6. RunInv(r, Payloads, config.allow_simulation)
    BY <1>2, <2>3, <2>5 DEF RunInv, BudgetInv, ReportInv, Answered, HardwareInv, SearchInv,
                            StatusInv, FallbackInv
  <2> QED
    BY <1>1, <2>2, <2>3, <2>4, <2>6 DEF Becomes
<1> QED
  BY <1>3, <1>4 DEF ReadControls

\* An answer of the local simulator goes on to the engine: its shots are within the
\* budget, and what it executed within 13/4 of it.
LEMMA LocalAnswer ==
    ASSUME NEW w \in Workers, NEW k \in Run, k.pc = "backend", k.target = "sim_local",
           k.budget >= 1, k.shots <= k.budget, 4 * k.executed <= 13 * k.budget,
           ~ k.failed, ~ k.simulated, k.fidelity < 900 => k.status = "FAIL",
           worker[w].pc = "backend",
           \/ Set(w, [k EXCEPT !.pc = "adjust"])
           \/ Set(w, [k EXCEPT !.pc = "adjust", !.batch = 0])
    PROVE  \E r \in Run : Becomes(w, r)
<1>1. PICK r : /\ r = [k EXCEPT !.pc = "adjust"] \/ r = [k EXCEPT !.pc = "adjust", !.batch = 0]
               /\ worker' = [worker EXCEPT ![w] = r]
  BY DEF Set
<1>2. r \in Run
  <2>1. CASE r = [k EXCEPT !.pc = "adjust"]
    BY <2>1 DEF Run, Pcs
  <2>2. CASE r = [k EXCEPT !.pc = "adjust", !.batch = 0]
    BY <2>2 DEF Run, Pcs
  <2> QED
    BY <1>1, <2>1, <2>2
<1>3. /\ r.pc = "adjust" /\ r.budget = k.budget /\ r.executed = k.executed
      /\ r.shots = k.shots /\ r.target = "sim_local" /\ ~ r.failed /\ ~ r.simulated
      /\ r.fidelity = k.fidelity /\ r.status = k.status
  BY <1>1 DEF Run
<1>4. "sim_local" \notin Hardware
  BY DEF Hardware
<1>5. RunInv(r, Payloads, config.allow_simulation)
  BY <1>3, <1>4 DEF RunInv, BudgetInv, ReportInv, Answered, HardwareInv, SearchInv, StatusInv,
                    FallbackInv
<1> QED
  BY <1>1, <1>2, <1>3, <1>5 DEF Becomes

\* LocalSimulatorBackend spends its budget at once.
LEMMA LocalSimulatorStep ==
    ASSUME TypeOK, NEW w \in Workers, RunInv(worker[w], Payloads, config.allow_simulation),
           LocalSimulator(w)
    PROVE  \E r \in Run : Becomes(w, r)
<1> DEFINE old == worker[w]
<1>1. old \in Run /\ old.pc = "backend" /\ old.target = "sim_local"
  BY DEF TypeOK, LocalSimulator
<1>2. /\ old.budget \in Int /\ old.budget >= 1 /\ ~ old.failed /\ ~ old.simulated
      /\ old.executed \in Nat /\ (old.executed > 0 => 4 * old.executed <= 13 * old.budget)
  BY <1>1 DEF RunInv, BudgetInv, SearchInv, Run
<1>3. PICK k \in Result(old, old.budget, "local") : Set(w, [k EXCEPT !.pc = "adjust"])
  BY DEF LocalSimulator
<1>4. /\ k \in Run /\ k.pc = "backend" /\ k.target = "sim_local" /\ k.budget = old.budget
      /\ k.shots = old.budget /\ k.executed = IF old.executed = 0 THEN old.budget ELSE old.executed
      /\ ~ k.failed /\ ~ k.simulated /\ (k.fidelity < 900 => k.status = "FAIL")
  BY <1>1, <1>2, ResultFields
<1>5. 4 * k.executed <= 13 * k.budget /\ k.shots <= k.budget /\ k.budget >= 1
  BY <1>2, <1>4
<1> QED
  BY <1>1, <1>3, <1>4, <1>5, LocalAnswer

\* _run_grover_preset: the batches of the search.
LEMMA SearchStep ==
    ASSUME TypeOK, NEW w \in Workers, RunInv(worker[w], Payloads, config.allow_simulation),
           RunGroverPreset(w)
    PROVE  \E r \in Run : Becomes(w, r)
<1> DEFINE old   == worker[w]
           start == Max({MinBatch, Min({Confidence, old.budget})})
           batch == IF old.batch # 0 THEN old.batch ELSE start
           next  == Min({old.budget, Grown(batch)})
           spent == [old EXCEPT !.executed = @ + batch]
<1>1. old \in Run /\ old.pc = "backend" /\ old.target = "sim_local"
  BY DEF TypeOK, RunGroverPreset
<1>2. /\ old.budget \in Int /\ old.budget >= 1 /\ old.executed \in Nat /\ old.batch \in Nat
      /\ ~ old.failed /\ ~ old.simulated
  BY <1>1 DEF RunInv, BudgetInv, Run
<1>3. /\ old.batch = 0 => old.executed = 0
      /\ old.batch # 0 =>
           /\ old.batch <= old.budget
           /\ \/ 4 * old.executed <= 5 * old.batch
              \/ old.batch = old.budget /\ 4 * old.executed <= 9 * old.budget
  BY <1>1 DEF RunInv, SearchInv
<1>4. start \in Nat /\ start >= 1
  <2> DEFINE first == Min({Confidence, old.budget})
  <2>1. first \in Int /\ MinBatch \in Nat \ {0}
    BY <1>2, ExecAssumption, MinOfTwo
  <2> HIDE DEF first
  <2>2. Max({MinBatch, first}) = IF MinBatch >= first THEN MinBatch ELSE first
    BY <2>1, MaxOfTwo
  <2>3. Max({MinBatch, first}) \in Nat /\ Max({MinBatch, first}) >= 1
    BY <2>1, <2>2
  <2> QED
    BY <2>3 DEF first
<1>5. /\ batch \in Nat /\ batch >= 1
      /\ batch > old.budget => old.executed = 0
      /\ \/ 4 * old.executed <= 5 * batch
         \/ batch = old.budget /\ 4 * old.executed <= 9 * old.budget
  <2> HIDE DEF start
  <2> QED
    BY <1>2, <1>3, <1>4
<1> HIDE DEF batch
<1>6. /\ next \in Nat /\ next >= 1 /\ next <= old.budget
      /\ \/ 5 * next >= 9 * batch
         \/ next = old.budget
  <2>1. Grown(batch) \in Nat /\ 5 * Grown(batch) >= 9 * batch
    BY <1>5, GrownEnough
  <2>2. next = IF old.budget <= Grown(batch) THEN old.budget ELSE Grown(batch)
    BY <1>2, <2>1, MinOfTwo
  <2> QED
    BY <1>2, <1>5, <2>1, <2>2
<1>7. batch <= old.budget => 4 * (old.executed + batch) <= 13 * old.budget
  BY <1>2, <1>5
<1>8. batch = old.budget => next = batch
  <2>1. Grown(batch) \in Nat /\ 5 * Grown(batch) >= 9 * batch
    BY <1>5, GrownEnough
  <2> QED
    BY <1>2, <1>5, <2>1, MinOfTwo
<1> HIDE DEF next
<1>9. spent \in Run
  BY <1>1, <1>2, <1>5 DEF Run
<1>10. CASE Fails(w, "dependency")
  BY <1>1, <1>10, FailsStep DEF Whys
<1>11. CASE /\ batch > old.budget
            /\ \E k \in Result(old, old.budget, "local") : Set(w, [k EXCEPT !.pc = "adjust"])
  <2>1. PICK k \in Result(old, old.budget, "local") : Set(w, [k EXCEPT !.pc = "adjust"])
    BY <1>11
  <2>2. /\ k \in Run /\ k.pc = "backend" /\ k.target = "sim_local" /\ k.budget = old.budget
        /\ k.shots = old.budget /\ k.executed = old.budget
        /\ ~ k.failed /\ ~ k.simulated /\ (k.fidelity < 900 => k.status = "FAIL")
    BY <1>1, <1>2, <1>5, <1>11, ResultFields
  <2>3. 4 * k.executed <= 13 * k.budget /\ k.shots <= k.budget /\ k.budget >= 1
    BY <1>2, <2>2
  <2> QED
    BY <1>1, <2>1, <2>2, <2>3, LocalAnswer
<1>12. CASE /\ batch <= old.budget
            /\ \E k \in Result(spent, batch, "local") : Set(w, [k EXCEPT !.pc = "adjust", !.batch = 0])
  <2>1. PICK k \in Result(spent, batch, "local") : Set(w, [k EXCEPT !.pc = "adjust", !.batch = 0])
    BY <1>12
  <2>2. /\ spent.pc = "backend" /\ spent.target = "sim_local" /\ spent.budget = old.budget
        /\ spent.executed = old.executed + batch /\ ~ spent.failed /\ ~ spent.simulated
    BY <1>1, <1>2 DEF Run
  <2> HIDE DEF spent
  <2>3. /\ k \in Run /\ k.pc = "backend" /\ k.target = "sim_local" /\ k.budget = old.budget
        /\ k.shots = batch /\ k.executed = old.executed + batch
        /\ ~ k.failed /\ ~ k.simulated /\ (k.fidelity < 900 => k.status = "FAIL")
    BY <1>2, <1>5, <1>9, <2>1, <2>2, ResultFields
  <2>4. 4 * k.executed <= 13 * k.budget /\ k.shots <= k.budget /\ k.budget >= 1
    BY <1>2, <1>7, <1>12, <2>3
  <2> QED
    BY <1>1, <2>1, <2>3, <2>4, LocalAnswer
<1>13. CASE /\ batch <= old.budget /\ next # batch
            /\ Set(w, [old EXCEPT !.executed = @ + batch, !.batch = next])
  <2> DEFINE r == [old EXCEPT !.executed = @ + batch, !.batch = next]
  <2>1. r \in Run
    <3>1. old.executed + batch \in Nat /\ next \in Nat
      BY <1>2, <1>5, <1>6
    <3> QED
      BY <1>1, <3>1 DEF Run
  <2>2. /\ r.pc = "backend" /\ r.target = "sim_local" /\ r.budget = old.budget
        /\ r.executed = old.executed + batch /\ r.batch = next /\ ~ r.failed /\ ~ r.simulated
    BY <1>1, <1>2 DEF Run
  <2>3. worker' = [worker EXCEPT ![w] = r]
    BY <1>13 DEF Set
  <2> HIDE DEF r
  <2>4. 4 * old.executed <= 5 * batch
    BY <1>5, <1>8, <1>13
  <2>5. \/ 4 * r.executed <= 5 * r.batch
        \/ r.batch = r.budget /\ 4 * r.executed <= 9 * r.budget
    <3>1. 4 * (old.executed + batch) <= 9 * batch
      BY <1>2, <1>5, <2>4
    <3>2. CASE 5 * next >= 9 * batch
      BY <1>2, <1>5, <1>6, <2>2, <3>1, <3>2
    <3>3. CASE next = old.budget
      BY <1>2, <1>5, <1>13, <2>2, <3>1, <3>3
    <3> QED
      BY <1>6, <3>2, <3>3
  <2>6. r.batch # 0 /\ r.batch <= r.budget /\ 4 * r.executed <= 13 * r.budget /\ r.budget >= 1
    BY <1>2, <1>6, <1>7, <1>13, <2>2
  <2>7. "sim_local" \notin Hardware
    BY DEF Hardware
  <2>8. RunInv(r, Payloads, config.allow_simulation)
    BY <2>2, <2>5, <2>6, <2>7 DEF RunInv, BudgetInv, ReportInv, Answered, HardwareInv, SearchInv,
                                  StatusInv, FallbackInv
  <2> QED
    BY <1>1, <2>1, <2>2, <2>3, <2>8 DEF Becomes
<1>14. EnergyAwareSearch(w, old) \/ Fails(w, "dependency")
  BY DEF RunGroverPreset
<1> QED
  BY <1>10, <1>11, <1>12, <1>13, <1>14 DEF EnergyAwareSearch, next, batch

\* An answer of a client is within the budget, or a payload's.
LEMMA ClientAnswer ==
    ASSUME NEW w \in Workers, NEW k \in Run, k.target \in Hardware, k.budget >= 1,
           k.shots <= k.budget \/ k.target \in Payloads,
           ~ k.failed, ~ k.simulated, k.fidelity < 900 => k.status = "FAIL",
           worker[w].pc = "backend",
           \/ Set(w, [k EXCEPT !.pc = "record"])
           \/ Set(w, [k EXCEPT !.pc = "record", !.batch = 0])
    PROVE  \E r \in Run : Becomes(w, r)
<1>1. PICK r : /\ r = [k EXCEPT !.pc = "record"] \/ r = [k EXCEPT !.pc = "record", !.batch = 0]
               /\ worker' = [worker EXCEPT ![w] = r]
  BY DEF Set
<1>2. r \in Run
  <2>1. CASE r = [k EXCEPT !.pc = "record"]
    BY <2>1 DEF Run, Pcs
  <2>2. CASE r = [k EXCEPT !.pc = "record", !.batch = 0]
    BY <2>2 DEF Run, Pcs
  <2> QED
    BY <1>1, <2>1, <2>2
<1>3. /\ r.pc = "record" /\ r.budget = k.budget /\ r.shots = k.shots /\ r.target = k.target
      /\ ~ r.failed /\ ~ r.simulated /\ r.fidelity = k.fidelity /\ r.status = k.status
  BY <1>1 DEF Run
<1>4. k.target # "sim_local"
  BY DEF Hardware
<1>5. RunInv(r, Payloads, config.allow_simulation)
  BY <1>3, <1>4 DEF RunInv, BudgetInv, ReportInv, Answered, HardwareInv, SearchInv, StatusInv,
                    FallbackInv
<1> QED
  BY <1>1, <1>2, <1>3, <1>5 DEF Becomes

\* QiskitProviderClient.run: the next batch is cut to what remains of the budget.
LEMMA QiskitStep ==
    ASSUME TypeOK, NEW w \in Workers, RunInv(worker[w], Payloads, config.allow_simulation),
           QiskitGrover(w)
    PROVE  \E r \in Run : Becomes(w, r)
<1> DEFINE old   == worker[w]
           n     == QiskitNow(old)
           total == old.executed + n
           spent == [old EXCEPT !.executed = total]
<1>1. old \in Run /\ old.pc = "backend" /\ old.target \in Hardware
  BY DEF TypeOK, QiskitGrover
<1>2. /\ old.budget \in Int /\ old.budget >= 1 /\ old.executed \in Nat /\ old.batch \in Nat
      /\ ~ old.failed /\ ~ old.simulated /\ old.executed <= old.budget
  BY <1>1 DEF RunInv, BudgetInv, HardwareInv, Run
<1>3. n \in Nat /\ n <= old.budget - old.executed
  <2> DEFINE ask == IF old.batch = 0 THEN Min({QiskitBatch, old.budget}) ELSE old.batch
  <2>1. Min({QiskitBatch, old.budget}) \in Nat
    BY <1>2, ExecAssumption, MinOfTwo
  <2>2. ask \in Nat
    BY <1>2, <2>1
  <2> HIDE DEF ask
  <2>3. Min({ask, old.budget - old.executed}) =
          IF ask <= old.budget - old.executed THEN ask ELSE old.budget - old.executed
    BY <1>2, <2>2, MinOfTwo
  <2>4. /\ Min({ask, old.budget - old.executed}) \in Nat
        /\ Min({ask, old.budget - old.executed}) <= old.budget - old.executed
    BY <1>2, <2>2, <2>3
  <2> QED
    BY <2>4 DEF QiskitNow, ask
<1> HIDE DEF n
<1>4. total \in Nat /\ total <= old.budget
  BY <1>2, <1>3
<1> HIDE DEF total
<1>5. /\ spent \in Run /\ spent.target = old.target /\ spent.budget = old.budget
      /\ spent.pc = "backend" /\ ~ spent.failed /\ ~ spent.simulated
  BY <1>1, <1>2, <1>4 DEF Run
<1>6. CASE \E k \in Result(spent, total, "qiskit") : Set(w, [k EXCEPT !.pc = "record", !.batch = 0])
  <2>1. PICK k \in Result(spent, total, "qiskit") : Set(w, [k EXCEPT !.pc = "record", !.batch = 0])
    BY <1>6
  <2> HIDE DEF spent
  <2>2. /\ k \in Run /\ k.target \in Hardware /\ k.budget = old.budget
        /\ k.shots = total /\ ~ k.failed /\ ~ k.simulated /\ (k.fidelity < 900 => k.status = "FAIL")
    BY <1>1, <1>4, <1>5, <2>1, ResultFields
  <2>3. k.shots <= k.budget /\ k.budget >= 1
    BY <1>2, <1>4, <2>2
  <2> QED
    BY <1>1, <2>1, <2>2, <2>3, ClientAnswer
<1>7. CASE Set(w, [old EXCEPT !.executed = total, !.batch = Min({2 * n, old.budget})])
  <2> DEFINE m == Min({2 * n, old.budget})
             r == [old EXCEPT !.executed = total, !.batch = m]
  <2>1. m \in Nat
    BY <1>2, <1>3, MinOfTwo
  <2> HIDE DEF m
  <2>2. r \in Run
    BY <1>1, <1>4, <2>1 DEF Run
  <2>3. /\ r.pc = "backend" /\ r.target = old.target /\ r.budget = old.budget
        /\ r.executed = total /\ ~ r.failed /\ ~ r.simulated
    BY <1>1, <1>2 DEF Run
  <2>4. worker' = [worker EXCEPT ![w] = r]
    BY <1>7 DEF Set, m
  <2>5. old.target # "sim_local"
    BY <1>1 DEF Hardware
  <2> HIDE DEF r
  <2>6. RunInv(r, Payloads, config.allow_simulation)
    BY <1>2, <1>4, <2>3, <2>5 DEF RunInv, BudgetInv, ReportInv, Answered, HardwareInv, SearchInv,
                                  StatusInv, FallbackInv
  <2> QED
    BY <1>1, <2>2, <2>3, <2>4, <2>6 DEF Becomes
<1> QED
  BY <1>6, <1>7 DEF QiskitGrover, total, n

\* What a client raises is one of the reasons a run may give.
LEMMA ClientErrorsType ==
    ASSUME NEW t, NEW e \in ClientErrors(t)
    PROVE  e \in Whys
BY DEF ClientErrors, QiskitErrors, Whys

\* _run_live: the shots are the budget, but for a payload.
LEMMA LiveStep ==
    ASSUME TypeOK, NEW w \in Workers, RunInv(worker[w], Payloads, config.allow_simulation),
           RunLive(w)
    PROVE  \E r \in Run : Becomes(w, r)
<1> DEFINE old  == worker[w]
           kind == Client(old.target)
<1>1. old \in Run /\ old.pc = "backend" /\ old.target \in Hardware
  BY DEF TypeOK, RunLive
<1>2. old.budget \in Int /\ old.budget >= 1 /\ ~ old.failed /\ ~ old.simulated
  BY <1>1 DEF RunInv, BudgetInv, Run
<1>3. CASE \E n \in ClientShots(old.target, old.budget) : \E k \in Result(old, n, kind) :
             Set(w, [k EXCEPT !.pc = "record"])
  <2>1. PICK n \in ClientShots(old.target, old.budget) :
           \E k \in Result(old, n, kind) : Set(w, [k EXCEPT !.pc = "record"])
    BY <1>3
  <2>2. PICK k \in Result(old, n, kind) : Set(w, [k EXCEPT !.pc = "record"])
    BY <2>1
  <2>3. n \in Nat /\ (n <= old.budget \/ old.target \in Payloads)
    <3>1. CASE kind = "payload"
      BY <1>1, <2>1, <3>1, ExecAssumption DEF ClientShots, Payloads, Targets
    <3>2. CASE kind # "payload"
      <4>1. n = Max({1, old.budget})
        BY <2>1, <3>2 DEF ClientShots
      <4>2. Max({1, old.budget}) = old.budget
        BY <1>2, MaxOfTwo
      <4> QED
        BY <1>2, <4>1, <4>2
    <3> QED
      BY <3>1, <3>2
  <2> HIDE DEF kind
  <2>4. /\ k \in Run /\ k.target = old.target /\ k.budget = old.budget
        /\ k.shots = n /\ ~ k.failed /\ ~ k.simulated /\ (k.fidelity < 900 => k.status = "FAIL")
    BY <1>1, <1>2, <2>2, <2>3, ResultFields
  <2> QED
    BY <1>1, <1>2, <2>2, <2>3, <2>4, ClientAnswer
<1>4. CASE \E e \in ClientErrors(old.target) :
             Set(w, [old EXCEPT !.pc = "record", !.failed = TRUE, !.batch = 0, !.why = e])
  <2>1. PICK e \in ClientErrors(old.target) :
           Set(w, [old EXCEPT !.pc = "record", !.failed = TRUE, !.batch = 0, !.why = e])
    BY <1>4
  <2> DEFINE r == [old EXCEPT !.pc = "record", !.failed = TRUE, !.batch = 0, !.why = e]
  <2>2. e \in Whys
    BY <2>1, ClientErrorsType
  <2>3. r \in Run
    BY <1>1, <2>2 DEF Run, Pcs
  <2>4. /\ r.pc = "record" /\ r.target = old.target /\ r.budget = old.budget
        /\ r.failed /\ ~ r.simulated
    BY <1>1, <1>2 DEF Run
  <2>5. worker' = [worker EXCEPT ![w] = r]
    BY <2>1 DEF Set
  <2>6. old.target # "sim_local"
    BY <1>1 DEF Hardware
  <2> HIDE DEF r
  <2>7. RunInv(r, Payloads, config.allow_simulation)
    BY <1>2, <2>4, <2>6 DEF RunInv, BudgetInv, ReportInv, Answered, HardwareInv, SearchInv,
                            StatusInv, FallbackInv
  <2> QED
    BY <1>1, <2>3, <2>4, <2>5, <2>7 DEF Becomes
<1> QED
  BY <1>3, <1>4 DEF RunLive

\* No client, or one that failed: a simulation only where it is allowed, and then
\* no failure.
LEMMA SimulateStep ==
    ASSUME TypeOK, NEW w \in Workers, RunInv(worker[w], Payloads, config.allow_simulation),
           Simulate(w)
    PROVE  \E r \in Run : Becomes(w, r)
<1> DEFINE old   == worker[w]
           clean == [old EXCEPT !.executed = 0]
<1>1. old \in Run /\ old.pc \in {"fallback", "backend"}
  BY DEF TypeOK, Simulate
<1>2. old.budget \in Int /\ old.budget >= 1
  BY <1>1 DEF RunInv, BudgetInv, Run
<1>3. config.allow_simulation \in BOOLEAN
  BY ExecAssumption DEF TypeOK
<1>4. CASE config.allow_simulation
  <2>1. PICK k \in Result(clean, old.budget, "simulated") :
           Set(w, [k EXCEPT !.pc = "record", !.simulated = TRUE, !.failed = FALSE, !.why = "none"])
    BY <1>4 DEF Simulate, MaySimulate
  <2>2. clean \in Run /\ clean.executed = 0 /\ clean.budget = old.budget
    BY <1>1 DEF Run
  <2> HIDE DEF clean
  <2>3. /\ k \in Run /\ k.budget = old.budget /\ k.shots = old.budget /\ k.executed = old.budget
        /\ (k.fidelity < 900 => k.status = "FAIL")
    BY <1>2, <2>1, <2>2, ResultFields
  <2> DEFINE r == [k EXCEPT !.pc = "record", !.simulated = TRUE, !.failed = FALSE, !.why = "none"]
  <2>4. r \in Run
    BY <2>3 DEF Run, Pcs, Whys
  <2>5. /\ r.pc = "record" /\ r.simulated /\ ~ r.failed
        /\ r.budget = k.budget /\ r.shots = k.shots /\ r.executed = k.executed
        /\ r.fidelity = k.fidelity /\ r.status = k.status
    BY <2>3 DEF Run
  <2>6. worker' = [worker EXCEPT ![w] = r]
    BY <2>1 DEF Set
  <2> HIDE DEF r
  <2>7. RunInv(r, Payloads, config.allow_simulation)
    BY <1>2, <1>4, <2>3, <2>5 DEF RunInv, BudgetInv, ReportInv, Answered, HardwareInv, SearchInv,
                                  StatusInv, FallbackInv
  <2> QED
    BY <1>1, <2>4, <2>5, <2>6, <2>7 DEF Becomes
<1>5. CASE ~ config.allow_simulation
  <2> DEFINE why == IF old.failed THEN old.why ELSE "simulation disabled"
  <2>1. Fails(w, why)
    BY <1>5 DEF Simulate, MaySimulate
  <2>2. why \in Whys
    BY <1>1 DEF Run, Whys
  <2> HIDE DEF why
  <2> QED
    BY <1>1, <1>5, <2>1, <2>2, FailsStep
<1> QED
  BY <1>3, <1>4, <1>5

\* The engine's adjustments: a failure is hidden only where the guards are off.
LEMMA StoreStep ==
    ASSUME TypeOK, NEW w \in Workers, RunInv(worker[w], Payloads, config.allow_simulation),
           StoreRun(w)
    PROVE  \E r \in Run : Becomes(w, r)
<1> DEFINE old == worker[w]
           s   == AdjustedStatus(old)
           st  == IF old.warn /\ s # "FAIL" THEN "WARN" ELSE s
           r   == [old EXCEPT !.pc = "stored", !.back = 0, !.preset = "other",
                              !.executed = 0, !.warn = FALSE, !.why = "none", !.status = st]
<1>1. old \in Run /\ old.pc = "adjust"
  BY DEF TypeOK, StoreRun
<1>2. s \in {"OK", "WARN", "FAIL"} /\ (s = old.status \/ Unguarded(old.profile))
  BY <1>1 DEF AdjustedStatus, Run
<1> HIDE DEF s
<1>3. /\ st \in {"OK", "WARN", "FAIL"}
      /\ old.status = "FAIL" => st = "FAIL" \/ Unguarded(old.profile)
  BY <1>2
<1>4. /\ old.budget >= 1 /\ (old.fidelity < 900 => old.status = "FAIL")
      /\ old.shots <= old.budget \/ (old.target \in Payloads /\ ~ old.simulated)
      /\ old.simulated => config.allow_simulation
  BY <1>1 DEF RunInv, BudgetInv, ReportInv, StatusInv, Answered, FallbackInv
<1> HIDE DEF st
<1>5. r \in Run
  BY <1>1, <1>3 DEF Run, Pcs, Presets, Whys
<1>6. /\ r.pc = "stored" /\ r.budget = old.budget /\ r.shots = old.shots /\ r.target = old.target
      /\ r.simulated = old.simulated /\ r.executed = 0 /\ r.fidelity = old.fidelity
      /\ r.status = st /\ r.profile = old.profile
  BY <1>1 DEF Run
<1>7. worker' = [worker EXCEPT ![w] = r]
  BY DEF StoreRun, Set, st, s
<1> HIDE DEF r
<1>8. RunInv(r, Payloads, config.allow_simulation)
  BY <1>3, <1>4, <1>6 DEF RunInv, BudgetInv, ReportInv, Answered, HardwareInv, SearchInv,
                          StatusInv, FallbackInv
<1> QED
  BY <1>1, <1>5, <1>6, <1>7, <1>8 DEF Becomes

\* The thread's next run starts from nothing.
LEMMA NoRunSound == ASSUME NEW payloads, NEW simulation PROVE RunInv(NoRun, payloads, simulation)
BY DEF NoRun, RunInv, BudgetInv, ReportInv, Answered, HardwareInv, SearchInv, StatusInv,
       FallbackInv

LEMMA DoneStep ==
    ASSUME NEW w \in Workers, Done(w)
    PROVE  \E r \in Run : Becomes(w, r)
<1>1. worker' = [worker EXCEPT ![w] = NoRun] /\ worker[w].pc # "recording"
  BY DEF Done, Set
<1>2. NoRun.pc # "recording"
  BY DEF NoRun
<1> QED
  BY <1>1, <1>2, NoRunType, NoRunSound DEF Becomes

-----------------------------------------------------------------------------
(* The threads together *)

\* The steps of a run that write no metric.
Quietly(w) ==
    \/ Submit(w) \/ SeedDemoRun(w) \/ ApplyShotGuardrails(w) \/ ReadControls(w)
    \/ LocalSimulator(w) \/ RunGroverPreset(w) \/ QiskitGrover(w) \/ RunLive(w) \/ Simulate(w)
    \/ StoreRun(w) \/ Done(w)

controlVars == <<controls, file, writing, unsaved, updates>>
metricVars  == <<counters, summary>>

\* Which client serves a target is settled when the process starts.
LEMMA PayloadsStay ==
    ASSUME config' = config
    PROVE  Payloads' = Payloads
BY DEF Payloads, Client

LEMMA QuietStep ==
    ASSUME TypeOK, RunsInv, NEW w \in Workers, Quietly(w)
    PROVE  /\ \E r \in Run : Becomes(w, r)
           /\ UNCHANGED <<config, controlVars, metricVars>>
           /\ started' \in Nat /\ seeds' \in Nat
<1>1. RunInv(worker[w], Payloads, config.allow_simulation)
  BY DEF RunsInv
<1>2. CASE Submit(w)
  <2>1. PICK q \in Submissions : Admitted(q) /\ Starts(w, q, "guard")
    BY <1>2 DEF Submit
  <2>2. q.target \in Targets /\ started' = started + 1
    BY <2>1 DEF Admitted, Starts
  <2>3. \E r \in Run : Becomes(w, r)
    BY <2>1, <2>2, StartsStep
  <2> QED
    BY <1>2, <2>2, <2>3 DEF Submit, TypeOK, controlVars, metricVars
<1>3. CASE SeedDemoRun(w)
  <2>1. PICK q \in Submissions : q.target \in Targets /\ Starts(w, q, "guard")
    BY <1>3 DEF SeedDemoRun
  <2>2. started' = started + 1
    BY <2>1 DEF Starts
  <2>3. \E r \in Run : Becomes(w, r)
    BY <2>1, StartsStep
  <2>4. seeds' \in Nat /\ started' \in Nat
    BY <1>3, <2>2 DEF SeedDemoRun, TypeOK
  <2> QED
    BY <1>3, <2>3, <2>4 DEF SeedDemoRun, controlVars, metricVars
<1>4. CASE ApplyShotGuardrails(w)
  BY <1>1, <1>4, GuardrailsStep DEF ApplyShotGuardrails, TypeOK, controlVars, metricVars
<1>5. CASE ReadControls(w)
  BY <1>1, <1>5, ControlsStep DEF ReadControls, TypeOK, controlVars, metricVars
<1>6. CASE LocalSimulator(w)
  BY <1>1, <1>6, LocalSimulatorStep DEF LocalSimulator, TypeOK, controlVars, metricVars
<1>7. CASE RunGroverPreset(w)
  BY <1>1, <1>7, SearchStep DEF RunGroverPreset, TypeOK, controlVars, metricVars
<1>8. CASE QiskitGrover(w)
  BY <1>1, <1>8, QiskitStep DEF QiskitGrover, TypeOK, controlVars, metricVars
<1>9. CASE RunLive(w)
  BY <1>1, <1>9, LiveStep DEF RunLive, TypeOK, controlVars, metricVars
<1>10. CASE Simulate(w)
  BY <1>1, <1>10, SimulateStep DEF Simulate, TypeOK, controlVars, metricVars
<1>11. CASE StoreRun(w)
  BY <1>1, <1>11, StoreStep DEF StoreRun, TypeOK, controlVars, metricVars
<1>12. CASE Done(w)
  BY <1>1, <1>12, DoneStep DEF Done, TypeOK, controlVars, metricVars
<1> QED
  BY <1>2, <1>3, <1>4, <1>5, <1>6, <1>7, <1>8, <1>9, <1>10, <1>11, <1>12 DEF Quietly

\* record_*: the run itself only moves on.
LEMMA RecordStep ==
    ASSUME TypeOK, RunsInv, NEW w \in Workers, RecordReads(w) \/ RecordWrites(w)
    PROVE  \E r \in Run :
             /\ RunInv(r, Payloads, config.allow_simulation)
             /\ worker' = [worker EXCEPT ![w] = r]
             /\ RecordReads(w) => /\ r.pc = "recording" /\ r.target = worker[w].target
                                  /\ r.failed = worker[w].failed
                                  /\ r.simulated = worker[w].simulated
                                  /\ r.seen = summary[worker[w].target][Outcome(worker[w])]
             /\ RecordWrites(w) => r.pc # "recording"
<1> DEFINE old == worker[w]
<1>1. old \in Run /\ RunInv(old, Payloads, config.allow_simulation)
  BY DEF TypeOK, RunsInv
<1>2. Outcome(old) \in Statuses /\ old.target \in Targets
  BY <1>1 DEF Outcome, Statuses, Run
<1>3. CASE RecordReads(w)
  <2> DEFINE n == summary[old.target][Outcome(old)]
             r == [old EXCEPT !.pc = "recording", !.seen = n]
  <2>1. n \in Nat
    BY <1>2 DEF TypeOK, Counts
  <2> HIDE DEF n
  <2>2. r \in Run
    BY <1>1, <2>1 DEF Run, Pcs
  <2>3. worker' = [worker EXCEPT ![w] = r] /\ old.pc = "record"
    BY <1>3 DEF RecordReads, Set, n
  <2>4. /\ r.pc = "recording" /\ r.target = old.target /\ r.failed = old.failed
        /\ r.simulated = old.simulated /\ r.seen = n /\ r.budget = old.budget
        /\ r.shots = old.shots /\ r.executed = old.executed
        /\ r.fidelity = old.fidelity /\ r.status = old.status
    BY <1>1 DEF Run
  <2> HIDE DEF r
  <2>5. RunInv(r, Payloads, config.allow_simulation)
    BY <1>1, <2>3, <2>4 DEF RunInv, BudgetInv, ReportInv, Answered, HardwareInv, SearchInv,
                            StatusInv, FallbackInv
  <2>6. ~ RecordWrites(w)
    BY <2>3 DEF RecordWrites
  <2> QED
    BY <2>2, <2>3, <2>4, <2>5, <2>6 DEF n
<1>4. CASE RecordWrites(w)
  <2> DEFINE p == IF old.failed THEN "fallback" ELSE "adjust"
             r == [old EXCEPT !.pc = p, !.seen = 0]
  <2>1. p \in Pcs /\ p \in {"fallback", "adjust"} /\ (p = "adjust" => ~ old.failed)
    BY <1>1 DEF Pcs, Run
  <2>2. worker' = [worker EXCEPT ![w] = r] /\ old.pc = "recording"
    BY <1>4 DEF RecordWrites, Set
  <2> HIDE DEF p
  <2>3. r \in Run
    BY <1>1, <2>1 DEF Run
  <2>4. /\ r.pc = p /\ r.target = old.target /\ r.failed = old.failed
        /\ r.simulated = old.simulated /\ r.budget = old.budget
        /\ r.shots = old.shots /\ r.executed = old.executed
        /\ r.fidelity = old.fidelity /\ r.status = old.status
    BY <1>1 DEF Run
  <2> HIDE DEF r
  <2>5. RunInv(r, Payloads, config.allow_simulation)
    BY <1>1, <2>1, <2>2, <2>4 DEF RunInv, BudgetInv, ReportInv, Answered, HardwareInv, SearchInv,
                                  StatusInv, FallbackInv
  <2>6. ~ RecordReads(w)
    BY <2>2 DEF RecordReads
  <2> QED
    BY <2>1, <2>2, <2>3, <2>4, <2>5, <2>6
<1> QED
  BY <1>3, <1>4

-----------------------------------------------------------------------------
(* The inductive invariant *)

LEMMA InitInv == ExecInit => TypeOK /\ Inv /\ ControlsDurable
<1> SUFFICES ASSUME ExecInit PROVE TypeOK /\ Inv /\ ControlsDurable
  OBVIOUS
<1>1. \A w \in Workers : worker[w] = NoRun
  BY DEF ExecInit
<1>2. TypeOK
  <2>1. worker \in [Workers -> Run] /\ config \in Deployments
    BY NoRunType DEF ExecInit
  <2>2. started \in Nat /\ seeds \in Nat /\ updates \in Nat
    BY ExecAssumption DEF ExecInit
  <2>3. controls \in Profiles \union {DefaultProfile} /\ file \in AllProfiles
    BY DEF ExecInit, AllProfiles
  <2>4. writing \in BOOLEAN /\ unsaved \in BOOLEAN
    BY DEF ExecInit
  <2>5. counters \in Counts /\ summary \in Counts
    BY DEF ExecInit, Counts
  <2> QED
    BY <2>1, <2>2, <2>3, <2>4, <2>5 DEF TypeOK
<1>3. RunsInv
  BY <1>1, NoRunSound DEF RunsInv
<1>4. SeenInv
  BY <1>1 DEF SeenInv, NoRun
<1>5. SummaryInv
  BY DEF ExecInit, SummaryInv
<1>6. ControlsDurable
  BY DEF ExecInit, ControlsDurable
<1> QED
  BY <1>2, <1>3, <1>4, <1>5, <1>6 DEF Inv

\* Which fields a metric's update touches.
LEMMA Bumped ==
    ASSUME NEW m \in Counts, NEW t \in Targets, NEW k \in Statuses, NEW n \in Nat
    PROVE  /\ [m EXCEPT ![t][k] = n] \in Counts
           /\ \A u \in Targets, j \in Statuses :
                [m EXCEPT ![t][k] = n][u][j] = IF u = t /\ j = k THEN n ELSE m[u][j]
BY DEF Counts

LEMMA TypeInductive == TypeOK /\ RunsInv /\ [ExecNext]_execVars => TypeOK'
<1> SUFFICES ASSUME TypeOK, RunsInv, [ExecNext]_execVars PROVE TypeOK'
  OBVIOUS
<1>1. ASSUME NEW w \in Workers, Quietly(w) PROVE TypeOK'
  <2>1. PICK r \in Run : Becomes(w, r)
    BY <1>1, QuietStep
  <2>2. worker' \in [Workers -> Run]
    BY <2>1 DEF Becomes, TypeOK
  <2>3. UNCHANGED <<config, controlVars, metricVars>> /\ started' \in Nat /\ seeds' \in Nat
    BY <1>1, QuietStep
  <2> QED
    BY <2>2, <2>3 DEF TypeOK, controlVars, metricVars
<1>2. ASSUME NEW w \in Workers, RecordReads(w) \/ RecordWrites(w) PROVE TypeOK'
  <2> DEFINE t == worker[w].target
             k == Outcome(worker[w])
  <2>1. worker[w] \in Run
    BY DEF TypeOK
  <2>2. t \in Targets /\ k \in Statuses /\ worker[w].seen + 1 \in Nat
    BY <2>1 DEF Run, Outcome, Statuses
  <2>3. PICK r \in Run : worker' = [worker EXCEPT ![w] = r]
    BY <1>2, RecordStep
  <2>4. worker' \in [Workers -> Run]
    BY <2>3 DEF TypeOK
  <2>5. counters \in Counts /\ summary \in Counts
    BY DEF TypeOK
  <2>6. counters[t][k] + 1 \in Nat
    BY <2>2, <2>5 DEF Counts
  <2>7. CASE RecordReads(w)
    <3>1. counters' = [counters EXCEPT ![t][k] = counters[t][k] + 1]
      BY <2>7 DEF RecordReads
    <3> HIDE DEF t, k
    <3>2. counters' \in Counts
      BY <2>2, <2>5, <2>6, <3>1, Bumped
    <3> QED
      BY <2>4, <2>7, <3>2 DEF RecordReads, TypeOK
  <2>8. CASE RecordWrites(w)
    <3>1. summary' = [summary EXCEPT ![t][k] = worker[w].seen + 1]
      BY <2>8 DEF RecordWrites, Counted
    <3> HIDE DEF t, k
    <3>2. summary' \in Counts
      BY <2>2, <2>5, <3>1, Bumped
    <3> QED
      BY <2>4, <2>8, <3>2 DEF RecordWrites, TypeOK
  <2> QED
    BY <1>2, <2>7, <2>8
<1>3. CASE UpdateControls
  <2>1. controls' \in Profiles \union {DefaultProfile} /\ updates' \in Nat
    BY <1>3 DEF UpdateControls, TypeOK
  <2>2. file' \in AllProfiles /\ writing' \in BOOLEAN /\ unsaved' \in BOOLEAN
    BY <1>3 DEF UpdateControls, TypeOK, AllProfiles
  <2> QED
    BY <1>3, <2>1, <2>2 DEF UpdateControls, TypeOK
<1>4. CASE PersistControls
  <2>1. file' \in AllProfiles /\ writing' \in BOOLEAN /\ unsaved' \in BOOLEAN
    BY <1>4 DEF PersistControls, TypeOK, AllProfiles, Written
  <2> QED
    BY <1>4, <2>1 DEF PersistControls, TypeOK
<1>5. CASE ExecRestart
  <2>1. worker' \in [Workers -> Run]
    BY <1>5, NoRunType DEF ExecRestart
  <2>2. controls' \in Profiles \union {DefaultProfile}
    BY <1>5 DEF ExecRestart, TypeOK, AllProfiles
  <2>3. counters' \in Counts /\ summary' \in Counts
    BY <1>5 DEF ExecRestart, Counts
  <2>4. updates' \in Nat
    BY <1>5 DEF ExecRestart, TypeOK
  <2>5. writing' \in BOOLEAN /\ unsaved' \in BOOLEAN
    BY <1>5, Zenon DEF ExecRestart
  <2> QED
    BY <1>5, <2>1, <2>2, <2>3, <2>4, <2>5 DEF ExecRestart, TypeOK
<1>6. CASE UNCHANGED execVars
  BY <1>6 DEF execVars, TypeOK
<1> QED
  BY <1>1, <1>2, <1>3, <1>4, <1>5, <1>6 DEF ExecNext, Quietly

LEMMA RunsInductive == TypeOK /\ RunsInv /\ [ExecNext]_execVars => RunsInv'
<1> SUFFICES ASSUME TypeOK, RunsInv, [ExecNext]_execVars, NEW v \in Workers
             PROVE  RunInv(worker'[v], Payloads', config'.allow_simulation)
  BY DEF RunsInv
<1>1. config' = config /\ Payloads' = Payloads
  <2>1. config' = config
    BY DEF ExecNext, execVars, Submit, SeedDemoRun, ApplyShotGuardrails, ReadControls,
           LocalSimulator, RunGroverPreset, QiskitGrover, RunLive, Simulate, RecordReads,
           RecordWrites, StoreRun, Done, UpdateControls, PersistControls, ExecRestart
  <2> QED
    BY <2>1, PayloadsStay
<1>2. RunInv(worker[v], Payloads, config.allow_simulation) /\ worker \in [Workers -> Run]
  BY DEF RunsInv, TypeOK
<1>3. ASSUME NEW w \in Workers, NEW r \in Run, worker' = [worker EXCEPT ![w] = r],
             RunInv(r, Payloads, config.allow_simulation)
      PROVE  RunInv(worker'[v], Payloads, config.allow_simulation)
  <2>1. worker'[v] = r \/ worker'[v] = worker[v]
    BY <1>2, <1>3
  <2> QED
    BY <1>2, <1>3, <2>1
<1>4. ASSUME NEW w \in Workers, Quietly(w)
      PROVE  RunInv(worker'[v], Payloads, config.allow_simulation)
  BY <1>3, <1>4, QuietStep DEF Becomes
<1>5. ASSUME NEW w \in Workers, RecordReads(w) \/ RecordWrites(w)
      PROVE  RunInv(worker'[v], Payloads, config.allow_simulation)
  BY <1>3, <1>5, RecordStep
<1>6. ASSUME worker' = worker
      PROVE  RunInv(worker'[v], Payloads, config.allow_simulation)
  BY <1>2, <1>6
<1>7. ASSUME ExecRestart
      PROVE  RunInv(worker'[v], Payloads, config.allow_simulation)
  <2>1. worker'[v] = NoRun
    BY <1>7 DEF ExecRestart
  <2> QED
    BY <2>1, NoRunSound
<1>8. UpdateControls \/ PersistControls \/ UNCHANGED execVars => worker' = worker
  BY DEF UpdateControls, PersistControls, execVars
<1>9. RunInv(worker'[v], Payloads, config.allow_simulation)
  BY <1>4, <1>5, <1>6, <1>7, <1>8 DEF ExecNext, Quietly
<1> QED
  BY <1>1, <1>9

\* While no metric is written and nobody starts or stops recording, what the
\* threads have read stays as it was.
LEMMA MetricsKept ==
    ASSUME TypeOK, SeenInv, SummaryInv, UNCHANGED metricVars,
           NEW w \in Workers, NEW r \in Run, Becomes(w, r)
    PROVE  SeenInv' /\ SummaryInv'
<1>1. \A v \in Workers : worker'[v].pc = "recording" => worker'[v] = worker[v]
  BY DEF TypeOK, Becomes
<1>2. \A v \in Workers : worker[v].pc = "recording" => worker'[v] = worker[v]
  BY DEF TypeOK, Becomes
<1>3. counters' = counters /\ summary' = summary
  BY DEF metricVars
<1>4. SeenInv'
  <2> SUFFICES ASSUME NEW v \in Workers, worker'[v].pc = "recording"
               PROVE  worker'[v].seen + 1 <= counters'[worker'[v].target][Outcome(worker[v])']
    BY DEF SeenInv
  <2>1. Outcome(worker[v])' = Outcome(worker[v])
    BY <1>1 DEF Outcome
  <2> QED
    BY <1>1, <1>3, <2>1 DEF SeenInv
<1>5. ASSUME NEW t \in Targets, NEW k \in Statuses, NEW v \in Workers, Writing(v, t, k)
      PROVE  Writing(v, t, k)'
  BY <1>2, <1>5 DEF Writing, Outcome
<1>6. SummaryInv'
  BY <1>3, <1>5 DEF SummaryInv
<1> QED
  BY <1>4, <1>6

\* record_*, first half: the counter moves, and the thread will write at most that.
LEMMA ReadKeeps ==
    ASSUME TypeOK, RunsInv, SeenInv, SummaryInv, NEW w \in Workers, RecordReads(w)
    PROVE  SeenInv' /\ SummaryInv'
<1> DEFINE t == worker[w].target
           k == Outcome(worker[w])
<1>1. worker[w] \in Run /\ worker \in [Workers -> Run] /\ counters \in Counts /\ summary \in Counts
  BY DEF TypeOK
<1>2. t \in Targets /\ k \in Statuses
  BY <1>1 DEF Run, Outcome, Statuses
<1>3. PICK r \in Run : /\ worker' = [worker EXCEPT ![w] = r]
                       /\ r.pc = "recording" /\ r.target = t /\ r.failed = worker[w].failed
                       /\ r.simulated = worker[w].simulated /\ r.seen = summary[t][k]
  BY RecordStep
<1>4. worker'[w] = r /\ \A v \in Workers : v # w => worker'[v] = worker[v]
  BY <1>1, <1>3
<1>5. Outcome(r) = k
  BY <1>3 DEF Outcome
<1>6. counters' = [counters EXCEPT ![t][k] = counters[t][k] + 1] /\ summary' = summary
  BY DEF RecordReads
<1>7. worker[w].pc = "record"
  BY DEF RecordReads
<1> HIDE DEF t, k
<1>8. counters[t][k] \in Nat /\ summary[t][k] \in Nat
  BY <1>1, <1>2 DEF Counts
<1>9. \A u \in Targets, j \in Statuses :
        counters'[u][j] = IF u = t /\ j = k THEN counters[t][k] + 1 ELSE counters[u][j]
  BY <1>1, <1>2, <1>6, <1>8, Bumped
<1>10. \A u \in Targets, j \in Statuses :
        /\ counters[u][j] \in Nat /\ counters'[u][j] \in Nat /\ summary[u][j] \in Nat
        /\ counters[u][j] <= counters'[u][j]
  <2>1. \A u \in Targets, j \in Statuses : counters[u][j] \in Nat /\ summary[u][j] \in Nat
    BY <1>1 DEF Counts
  <2> QED
    BY <1>8, <1>9, <2>1
<1>11. ASSUME NEW v \in Workers, worker'[v].pc = "recording"
       PROVE  worker'[v].seen + 1 <= counters'[worker'[v].target][Outcome(worker[v])']
  <2>1. CASE v = w
    <3>1. Outcome(worker[v])' = k /\ worker'[v].target = t /\ worker'[v].seen = summary[t][k]
      BY <1>3, <1>4, <1>5, <2>1 DEF Outcome
    <3>2. summary[t][k] <= counters[t][k]
      BY <1>2 DEF SummaryInv
    <3> QED
      BY <1>2, <1>8, <1>9, <3>1, <3>2
  <2>2. CASE v # w
    <3>1. worker'[v] = worker[v] /\ Outcome(worker[v])' = Outcome(worker[v])
      BY <1>4, <2>2 DEF Outcome
    <3>2. worker[v] \in Run
      BY <1>1
    <3>3. worker[v].target \in Targets /\ Outcome(worker[v]) \in Statuses /\ worker[v].seen \in Nat
      BY <3>2 DEF Run, Outcome, Statuses
    <3>4. worker[v].seen + 1 <= counters[worker[v].target][Outcome(worker[v])]
      BY <1>11, <3>1 DEF SeenInv
    <3>5. /\ counters[worker[v].target][Outcome(worker[v])] \in Nat
          /\ counters'[worker[v].target][Outcome(worker[v])] \in Nat
          /\ counters[worker[v].target][Outcome(worker[v])]
               <= counters'[worker[v].target][Outcome(worker[v])]
      BY <1>10, <3>3
    <3> QED
      BY <3>1, <3>3, <3>4, <3>5
  <2> QED
    BY <2>1, <2>2
<1>12. ASSUME NEW u \in Targets, NEW j \in Statuses
       PROVE  /\ summary'[u][j] <= counters'[u][j]
              /\ counters'[u][j] > 0 =>
                   summary'[u][j] > 0 \/ \E v \in Workers : Writing(v, u, j)'
  <2>1. summary[u][j] <= counters[u][j]
    BY DEF SummaryInv
  <2>2. summary'[u][j] <= counters'[u][j]
    BY <1>6, <1>10, <2>1
  <2>3. CASE u = t /\ j = k
    <3>1. Writing(w, u, j)'
      BY <1>3, <1>4, <1>5, <2>3 DEF Writing, Outcome
    <3> QED
      BY <2>2, <3>1
  <2>4. CASE ~ (u = t /\ j = k)
    <3>1. counters'[u][j] = counters[u][j]
      BY <1>9, <2>4
    <3>2. \A v \in Workers : Writing(v, u, j) => Writing(v, u, j)'
      BY <1>4, <1>7 DEF Writing, Outcome
    <3> QED
      BY <1>6, <2>2, <3>1, <3>2 DEF SummaryInv
  <2> QED
    BY <2>3, <2>4
<1>13. SeenInv'
  BY <1>11 DEF SeenInv
<1>14. SummaryInv'
  BY <1>12 DEF SummaryInv
<1> QED
  BY <1>13, <1>14

\* record_*, second half: the summary may go back, but not to nothing.
LEMMA WriteKeeps ==
    ASSUME TypeOK, RunsInv, SeenInv, SummaryInv, NEW w \in Workers, RecordWrites(w)
    PROVE  SeenInv' /\ SummaryInv'
<1> DEFINE t == worker[w].target
           k == Outcome(worker[w])
           n == worker[w].seen + 1
<1>1. worker[w] \in Run /\ worker \in [Workers -> Run] /\ counters \in Counts /\ summary \in Counts
  BY DEF TypeOK
<1>2. t \in Targets /\ k \in Statuses /\ n \in Nat /\ n > 0
  BY <1>1 DEF Run, Outcome, Statuses
<1>3. PICK r \in Run : worker' = [worker EXCEPT ![w] = r] /\ r.pc # "recording"
  BY RecordStep
<1>4. worker'[w].pc # "recording" /\ \A v \in Workers : v # w => worker'[v] = worker[v]
  BY <1>1, <1>3
<1>5. summary' = [summary EXCEPT ![t][k] = n] /\ counters' = counters
  BY DEF RecordWrites, Counted
<1>6. n <= counters[t][k]
  BY DEF RecordWrites, SeenInv
<1>7. SeenInv'
  <2> SUFFICES ASSUME NEW v \in Workers, worker'[v].pc = "recording"
               PROVE  worker'[v].seen + 1 <= counters'[worker'[v].target][Outcome(worker[v])']
    BY DEF SeenInv
  <2>1. worker'[v] = worker[v]
    BY <1>4
  <2>2. Outcome(worker[v])' = Outcome(worker[v])
    BY <2>1 DEF Outcome
  <2> QED
    BY <1>5, <2>1, <2>2 DEF SeenInv
<1>8. ASSUME NEW v \in Workers, NEW u \in Targets, NEW j \in Statuses, Writing(v, u, j),
             ~ (u = t /\ j = k)
      PROVE  Writing(v, u, j)'
  <2>1. v # w
    BY <1>8 DEF Writing
  <2>2. worker'[v] = worker[v]
    BY <1>4, <2>1
  <2> QED
    BY <1>8, <2>2 DEF Writing, Outcome
<1> HIDE DEF t, k, n
<1>9. \A u \in Targets, j \in Statuses :
        summary'[u][j] = IF u = t /\ j = k THEN n ELSE summary[u][j]
  BY <1>1, <1>2, <1>5, Bumped
<1>10. ASSUME NEW u \in Targets, NEW j \in Statuses
       PROVE  /\ summary'[u][j] <= counters'[u][j]
              /\ counters'[u][j] > 0 =>
                   summary'[u][j] > 0 \/ \E v \in Workers : Writing(v, u, j)'
  <2>1. CASE u = t /\ j = k
    BY <1>2, <1>5, <1>6, <1>9, <2>1
  <2>2. CASE ~ (u = t /\ j = k)
    <3>1. summary'[u][j] = summary[u][j]
      BY <1>9, <2>2
    <3>2. \A v \in Workers : Writing(v, u, j) => Writing(v, u, j)'
      BY <1>8, <2>2
    <3> QED
      BY <1>5, <3>1, <3>2 DEF SummaryInv
  <2> QED
    BY <2>1, <2>2
<1>11. SummaryInv'
  BY <1>10 DEF SummaryInv
<1> QED
  BY <1>7, <1>11

LEMMA MetricsInductive ==
    TypeOK /\ RunsInv /\ SeenInv /\ SummaryInv /\ [ExecNext]_execVars => SeenInv' /\ SummaryInv'
<1> SUFFICES ASSUME TypeOK, RunsInv, SeenInv, SummaryInv, [ExecNext]_execVars
             PROVE  SeenInv' /\ SummaryInv'
  OBVIOUS
<1>1. ASSUME NEW w \in Workers, Quietly(w) PROVE SeenInv' /\ SummaryInv'
  <2>1. PICK r \in Run : Becomes(w, r)
    BY <1>1, QuietStep
  <2>2. UNCHANGED metricVars
    BY <1>1, QuietStep
  <2> QED
    BY <2>1, <2>2, MetricsKept
<1>2. ASSUME NEW w \in Workers, RecordReads(w) \/ RecordWrites(w) PROVE SeenInv' /\ SummaryInv'
  BY <1>2, ReadKeeps, WriteKeeps
<1>3. CASE ExecRestart
  <2>1. \A v \in Workers : worker'[v] = NoRun
    BY <1>3 DEF ExecRestart
  <2>2. SeenInv'
    BY <2>1 DEF SeenInv, NoRun
  <2>3. SummaryInv'
    BY <1>3 DEF ExecRestart, SummaryInv
  <2> QED
    BY <2>2, <2>3
<1>4. CASE UNCHANGED <<worker, counters, summary>>
  <2>1. \A v \in Workers, t \in Targets, k \in Statuses : Writing(v, t, k) => Writing(v, t, k)'
    BY <1>4 DEF Writing, Outcome
  <2>2. \A v \in Workers : Outcome(worker[v])' = Outcome(worker[v])
    BY <1>4 DEF Outcome
  <2>3. SeenInv'
    BY <1>4, <2>2 DEF SeenInv
  <2>4. SummaryInv'
    BY <1>4, <2>1 DEF SummaryInv
  <2> QED
    BY <2>3, <2>4
<1>5. UpdateControls \/ PersistControls \/ UNCHANGED execVars => UNCHANGED <<worker, counters, summary>>
  BY DEF UpdateControls, PersistControls, execVars
<1> QED
  BY <1>1, <1>2, <1>3, <1>4, <1>5 DEF ExecNext, Quietly

\* What a restart reads back.
LEMMA DurableInductive ==
    TypeOK /\ RunsInv /\ ControlsDurable /\ [ExecNext]_execVars => ControlsDurable'
<1> SUFFICES ASSUME TypeOK, RunsInv, ControlsDurable, [ExecNext]_execVars PROVE ControlsDurable'
  OBVIOUS
<1>1. ASSUME NEW w \in Workers, Quietly(w) PROVE ControlsDurable'
  <2>1. UNCHANGED controlVars
    BY <1>1, QuietStep
  <2> QED
    BY <2>1 DEF ControlsDurable, controlVars
<1>2. ASSUME NEW w \in Workers, RecordReads(w) \/ RecordWrites(w) PROVE ControlsDurable'
  BY <1>2 DEF ControlsDurable, RecordReads, RecordWrites
<1>3. CASE UpdateControls
  BY <1>3 DEF UpdateControls, ControlsDurable
<1>4. CASE PersistControls
  BY <1>4 DEF PersistControls, ControlsDurable, Written
<1>5. CASE ExecRestart
  BY <1>5 DEF ExecRestart, ControlsDurable
<1>6. CASE UNCHANGED execVars
  BY <1>6 DEF execVars, ControlsDurable
<1> QED
  BY <1>1, <1>2, <1>3, <1>4, <1>5, <1>6 DEF ExecNext, Quietly

-----------------------------------------------------------------------------
(* Theorems *)

\* Every variable has its type along every run, batch, failure and restart.
THEOREM TypeCorrect == ExecSpec => []TypeOK
<1>1. TypeOK /\ RunsInv /\ [ExecNext]_execVars => (TypeOK /\ RunsInv)'
  BY TypeInductive, RunsInductive
<1>2. ExecInit => TypeOK /\ RunsInv
  BY InitInv DEF Inv
<1> QED
  BY <1>1, <1>2, PTL DEF ExecSpec

\* What holds of every run at every line of the engine, and of the metrics between
\* them: the invariant the other theorems rest on.
THEOREM InvHolds == ExecSpec => [](TypeOK /\ Inv)
<1>1. TypeOK /\ Inv /\ [ExecNext]_execVars => (TypeOK /\ Inv)'
  BY TypeInductive, RunsInductive, MetricsInductive DEF Inv
<1>2. ExecInit => TypeOK /\ Inv
  BY InitInv
<1> QED
  BY <1>1, <1>2, PTL DEF ExecSpec

\* qiskit_provider.py:281-295, hardware_backends.py:140, 291 and engine.py:330-335:
\* however a run's shots are spent, batched, simulated or after a fallback, it
\* reports no more than its budget, unless a payload file does, and its batches on
\* hardware add up to no more either.
THEOREM ReportedShotsHolds == ExecSpec => []ReportedShots
<1>1. TypeOK /\ Inv => ReportedShots
  <2> SUFFICES ASSUME TypeOK, Inv, NEW w \in Workers
               PROVE  /\ worker[w].pc = "stored" =>
                           \/ worker[w].shots <= worker[w].budget
                           \/ Client(worker[w].target) = "payload" /\ ~ worker[w].simulated
                      /\ worker[w].pc = "backend" /\ worker[w].target \in Hardware
                           => worker[w].executed <= worker[w].budget
    BY DEF ReportedShots
  <2>1. RunInv(worker[w], Payloads, config.allow_simulation)
    BY DEF Inv, RunsInv
  <2> QED
    BY <2>1 DEF RunInv, ReportInv, Answered, HardwareInv, Payloads
<1> QED
  BY <1>1, InvHolds, PTL

\* How far the local search may go past its budget.
SearchOverrun == \A w \in Workers :
    worker[w].target = "sim_local" /\ worker[w].executed > 0
      => 4 * worker[w].executed <= 13 * worker[w].budget

\* grover.py:225-243: the local search does not keep to the budget (ShotBudgetObeyed
\* fails), but its batches, each 9/5 of the one before and the last cut to the
\* budget, add up to at most 13/4 of it, whatever the size of the first.
THEOREM SearchOverrunBounded == ExecSpec => []SearchOverrun
<1>1. TypeOK /\ Inv => SearchOverrun
  BY DEF Inv, RunsInv, RunInv, SearchInv, SearchOverrun
<1> QED
  BY <1>1, InvHolds, PTL

\* engine.py:123-127 and 337-339: a fidelity that failed is stored as a failure,
\* unless the profile the run is stored with has its guards off, whichever profiles
\* were set while it ran.
THEOREM FailureShownHolds == ExecSpec => []FailureShown
<1>1. Inv => FailureShown
  BY DEF Inv, RunsInv, RunInv, StatusInv, FailureShown
<1> QED
  BY <1>1, InvHolds, PTL

\* api.py:747-800 and hardware_backends.py:399-480: a simulation happens only where
\* it is allowed, and where it is, no run fails for what its provider did.
THEOREM FallbackSoundHolds == ExecSpec => []FallbackSound
<1>1. Inv => FallbackSound
  BY DEF Inv, RunsInv, RunInv, FallbackInv, FallbackSound
<1> QED
  BY <1>1, InvHolds, PTL

\* metrics_recorder.py:68-103: with any number of threads reading and writing back
\* unlocked, the summary never counts too much and never misses a status for good.
THEOREM SummarySoundHolds == ExecSpec => []SummarySound
<1>1. Inv => SummarySound
  BY DEF Inv, SummaryInv, Writing, SummarySound
<1> QED
  BY <1>1, InvHolds, PTL

\* control_profiles.py:88-108: unless a write failed since, a restart reads back the
\* profile in force.
THEOREM ControlsDurableHolds == ExecSpec => []ControlsDurable
<1>1. (TypeOK /\ RunsInv) /\ ControlsDurable /\ [ExecNext]_execVars => ControlsDurable'
  BY DurableInductive
<1>2. ExecInit => ControlsDurable
  BY InitInv
<1>3. TypeOK /\ Inv => TypeOK /\ RunsInv
  BY DEF Inv
<1> QED
  BY <1>1, <1>2, <1>3, InvHolds, PTL DEF ExecSpec
=============================================================================

----------------------------- MODULE Execution -----------------------------
(***************************************************************************)
(* A run from its admission by POST /runs (api.py) through the engine      *)
(* (engine.py) to a provider (providers/, hardware_backends.py,            *)
(* provider_clients.py, qiskit_provider.py, grover.py) and into the store, *)
(* with the control profile it is adjusted by (control_profiles.py) and    *)
(* the provider metrics it leaves (metrics_recorder.py).                   *)
(*                                                                         *)
(* Slots are the threads of the job queue; the queue itself is JobQueue,   *)
(* the shot reservation Budget, the store ExperimentStore.  KPIs are in    *)
(* thousandths and keep a value on each side of every threshold of the     *)
(* code; what is drawn at random there is any of these values here.        *)
(***************************************************************************)
EXTENDS Integers, FiniteSetsExt

CONSTANTS
    Workers,
    Deployments,    \* [env, payload, qiskit, allow_remote, allow_simulation]
    Submissions,    \* [target, preset, shots, overrides]
    Profiles,       \* control profiles a client may set
    NoProfile,      \* no overrides; a file that does not parse
    MaxShots,       \* settings.max_shots_per_experiment
    DefaultShots,   \* settings.default_shot_budget
    MaxProviderShots, \* capabilities: the limit of every hardware target
    MinBatch,       \* energy_aware_search: 16
    Confidence,     \* min_shots_for_confidence(0.08, 0.05): 289
    QiskitBatch,    \* first batch of the Qiskit client: 64
    PayloadShots,   \* shots_used in the payload file; 0 stands for none
    DemoRuns,       \* bound: runs seeded into an empty store
    MaxRuns,        \* bound
    MaxUpdates      \* bound: updates of the control profile, and restarts

VARIABLES
    config,     \* the deployment: the SYNQC_* variables that are set (env), the targets
                \* with a payload or a Qiskit backend, and two settings
    worker,     \* the run of each thread
    started,    \* runs started
    seeds,      \* demo runs still to be made at startup
    controls,   \* ControlProfileStore._profile
    file,       \* its file; NoProfile if it does not parse
    writing,    \* update holds the store's lock and has truncated the file
    unsaved,    \* a write failed since the last that did not
    updates,
    counters,   \* Prometheus: provider invocations by target and status
    summary     \* ProviderMetricsRecorder._summary

execVars == <<config, worker, started, seeds, controls, file, writing, unsaved, updates,
              counters, summary>>

Hardware == {"aws_braket", "ibm_quantum", "azure_quantum", "ionq_cloud", "rigetti_forest"}
Targets  == Hardware \union {"sim_local"}
Statuses == {"success", "failure", "simulated"}
Presets  == {"grover", "other"}

ASSUME ExecAssumption ==
    /\ Profiles # {} /\ NoProfile \notin Profiles
    /\ {MaxShots, DefaultShots, MinBatch, Confidence, QiskitBatch} \subseteq Nat \ {0}
    /\ PayloadShots \subseteq Nat /\ DemoRuns \in Nat
    /\ \A d \in Deployments : d.allow_simulation \in BOOLEAN
    /\ \A q \in Submissions : /\ q.shots \in Int /\ q.preset \in Presets
                              /\ q.overrides \in Profiles \union {NoProfile}
    /\ \A p \in Profiles : p.safety_clamp_ns \in Nat /\ p.thermal_guard_enabled \in BOOLEAN

DefaultProfile == [drive_bias |-> 1000, probe_window_ns |-> 120, safety_clamp_ns |-> 600,
                   thermal_guard_enabled |-> TRUE]

NoRun == [pc |-> "idle", target |-> "sim_local", preset |-> "other", budget |-> 0,
          warn |-> FALSE, profile |-> NoProfile, executed |-> 0, shots |-> 0,
          batch |-> 0, fidelity |-> 0, back |-> 0, status |-> "OK",
          simulated |-> FALSE, failed |-> FALSE, seen |-> 0, why |-> "none"]

Clamp(x) == Max({0, Min({1000, x})})
Set(w, r) == worker' = [worker EXCEPT ![w] = r]

-----------------------------------------------------------------------------
(* Provider clients *)

\* load_provider_clients: a payload, replaced by Qiskit, replaced by the vendor's
\* own; ibm_quantum falls back to Qiskit.
Client(target) ==
    CASE target = "ionq_cloud" /\ {"IONQ_API_KEY", "ENABLE_IONQ_DEMO"} \cap config.env # {} -> "ionq"
      [] target = "azure_quantum" /\ "ENABLE_AZURE_SDK_STUB" \in config.env -> "azure"
      [] target = "rigetti_forest" /\ "ENABLE_RIGETTI_SDK_STUB" \in config.env -> "rigetti"
      [] OTHER ->
         IF target \in config.qiskit THEN "qiskit"
         ELSE IF target \in config.payload THEN "payload"
         ELSE IF target = "ibm_quantum" THEN "qiskit" ELSE "none"

\* validate_credentials of the Qiskit client: installed, with a token if any
\* runtime variable is set.
RuntimeConfigured ==
    {"QISKIT_RUNTIME_TOKEN", "QISKIT_RUNTIME_CHANNEL", "QISKIT_RUNTIME_INSTANCE"} \cap config.env # {}
QiskitAvailable ==
    /\ "qiskit" \in config.env
    /\ IF RuntimeConfigured THEN "qiskit_ibm_runtime" \in config.env
                            ELSE "qiskit_aer" \in config.env
QiskitCredentials ==
    QiskitAvailable /\ (RuntimeConfigured => "QISKIT_RUNTIME_TOKEN" \in config.env)

\* providers.validate_credentials; a payload client has none to validate.
ValidateCredentials(target) ==
    IF target = "sim_local" THEN TRUE
    ELSE CASE Client(target) = "ionq"    -> "IONQ_API_KEY" \in config.env
           [] Client(target) = "azure"   -> "AZURE_API_KEY" \in config.env
           [] Client(target) = "rigetti" -> "RIGETTI_API_KEY" \in config.env
           [] Client(target) = "qiskit"  -> QiskitCredentials
           [] OTHER -> config.allow_simulation

\* An exception of Qiskit or of IBM's runtime, by what its message says.
QiskitErrors == IF QiskitAvailable THEN {"credentials", "queue", "error"} ELSE {"credentials"}

\* What a client's run may raise.
ClientErrors(target) ==
    CASE Client(target) = "ionq"    -> {}
      [] Client(target) = "azure"   ->
           IF "AZURE_API_KEY" \notin config.env THEN {"credentials"}
           ELSE IF "AZURE_QUEUE_BUSY" \in config.env THEN {"queue"} ELSE {}
      [] Client(target) = "rigetti" ->
           IF "RIGETTI_API_KEY" \notin config.env THEN {"credentials"}
           ELSE IF "RIGETTI_CAPACITY_EXHAUSTED" \in config.env THEN {"capacity"} ELSE {}
      [] Client(target) = "qiskit"  -> QiskitErrors
      [] OTHER -> {"error"}    \* a payload that cannot be read or does not parse

\* ... unless it returns: an error that is certain leaves no result.
ClientReturns(target) ==
    ClientErrors(target) = {} \/ Client(target) = "payload"
        \/ (Client(target) = "qiskit" /\ QiskitAvailable)

\* The shots a client reports: the stubs cap, the payload says what it says
\* (or, without shots_used, what its counts add up to).
ClientShots(target, budget) ==
    IF Client(target) = "payload" THEN PayloadShots ELSE {Max({1, budget})}

\* Fidelity and backaction a result may have, from the ranges in the clients and
\* in _simulate.  Only a payload carries values outside the vendors' ranges.
Fidelities(kind) ==
    IF kind \in {"ionq", "azure", "rigetti"} THEN {930, 950} ELSE {890, 930, 950}
Backactions(kind) == IF kind = "payload" THEN {200, 400} ELSE {200, 330}

\* The status every backend derives.
StatusOf(fidelity, back) ==
    IF fidelity < 900 THEN "FAIL" ELSE IF fidelity < 940 \/ back > 350 THEN "WARN" ELSE "OK"

-----------------------------------------------------------------------------
(* Admission and guardrails *)

\* The checks of _enqueue_run.
Admitted(q) ==
    /\ config.allow_remote \/ q.target = "sim_local"
    /\ q.target \in Targets
    /\ q.target \in Hardware => ValidateCredentials(q.target) \/ config.allow_simulation

Starts(w, q, pc) ==
    /\ worker[w].pc = "idle" /\ started < MaxRuns
    /\ started' = started + 1
    /\ Set(w, [NoRun EXCEPT !.pc = pc, !.target = q.target, !.preset = q.preset,
                            !.budget = q.shots, !.profile = q.overrides])

Submit(w) ==
    /\ seeds = 0
    /\ \E q \in Submissions : Admitted(q) /\ Starts(w, q, "guard")
    /\ UNCHANGED <<config, seeds, controls, file, writing, unsaved, updates, counters, summary>>

\* _seed_demo_runs: the engine directly, one after the other, before the app serves.
SeedDemoRun(w) ==
    /\ seeds > 0 /\ \A v \in Workers : worker[v].pc = "idle"
    /\ seeds' = seeds - 1
    /\ \E q \in Submissions :
         q.target \in Targets /\ q.overrides = NoProfile /\ Starts(w, q, "guard")
    /\ UNCHANGED <<config, controls, file, writing, unsaved, updates, counters, summary>>

Fails(w, why) == Set(w, [NoRun EXCEPT !.pc = "failed", !.why = why])

\* _apply_shot_guardrails; the reservation is Budget's.
ApplyShotGuardrails(w) ==
    LET requested == IF worker[w].budget = 0 THEN DefaultShots ELSE worker[w].budget
        shots     == Min({requested, MaxShots})
    IN  /\ worker[w].pc = "guard"
        /\ \/ Fails(w, "budget")
           \/ /\ requested > 0
              /\ Set(w, [worker[w] EXCEPT !.pc = "controls", !.budget = shots,
                           !.warn = worker[w].target # "sim_local" /\ shots > DefaultShots])
        /\ UNCHANGED <<config, started, seeds, controls, file, writing, unsaved, updates, counters, summary>>

\* The run asks for more than the provider's limit.
OverCapacity(r) == r.target # "sim_local" /\ r.budget > MaxProviderShots

\* Overrides, or a copy of the profile of this moment; then the provider's limit.
ReadControls(w) ==
    LET r == worker[w]
        p == IF r.profile # NoProfile THEN r.profile ELSE controls
    IN  /\ r.pc = "controls"
        /\ r.profile = NoProfile => ~ writing
        /\ IF OverCapacity(r) THEN Fails(w, "limit")
                              ELSE Set(w, [r EXCEPT !.profile = p, !.pc = "backend"])
        /\ UNCHANGED <<config, started, seeds, controls, file, writing, unsaved, updates, counters, summary>>

-----------------------------------------------------------------------------
(* Backends *)

\* The run with the KPIs of a provider's answer; all its shots were executed, unless
\* batches were counted before.
WithKpis(r, shots, f, b) ==
    [r EXCEPT !.shots = shots, !.executed = IF @ = 0 THEN shots ELSE @,
              !.fidelity = f, !.back = b, !.status = StatusOf(f, b)]

Result(r, shots, kind) ==
    {WithKpis(r, shots, f, b) : f \in Fidelities(kind), b \in Backactions(kind)}

\* ceil(1.8 * n)
Grown(n) == (9 * n + 4) \div 5

\* LocalSimulatorBackend, but for the Grover preset.
LocalSimulator(w) ==
    LET r == worker[w]
    IN  /\ r.pc = "backend" /\ r.target = "sim_local" /\ r.preset # "grover"
        /\ \E k \in Result(r, r.budget, "local") : Set(w, [k EXCEPT !.pc = "adjust"])
        /\ UNCHANGED <<config, started, seeds, controls, file, writing, unsaved, updates, counters, summary>>

\* energy_aware_search: one more batch, until one succeeds or is as large as the
\* cap; the last batch is the result.
EnergyAwareSearch(w, r) ==
    LET batch == IF r.batch # 0 THEN r.batch ELSE Max({MinBatch, Min({Confidence, r.budget})})
        next  == Min({r.budget, Grown(batch)})
    IN  \/ /\ batch > r.budget                                  \* the cap is below MinBatch
           /\ \E k \in Result(r, r.budget, "local") : Set(w, [k EXCEPT !.pc = "adjust"])
        \/ /\ batch <= r.budget
           /\ \E k \in Result([r EXCEPT !.executed = @ + batch], batch, "local") :
                Set(w, [k EXCEPT !.pc = "adjust", !.batch = 0])
        \/ /\ batch <= r.budget /\ next # batch
           /\ Set(w, [r EXCEPT !.executed = @ + batch, !.batch = next])

\* _run_grover_preset: the search, or an error if Qiskit is not installed.
RunGroverPreset(w) ==
    LET r == worker[w]
    IN  /\ r.pc = "backend" /\ r.target = "sim_local" /\ r.preset = "grover"
        /\ EnergyAwareSearch(w, r) \/ Fails(w, "dependency")
        /\ UNCHANGED <<config, started, seeds, controls, file, writing, unsaved, updates, counters, summary>>

\* A batch that does not look at what remains.
QiskitNowUncut(r) == IF r.batch = 0 THEN Min({QiskitBatch, r.budget}) ELSE r.batch

\* QiskitProviderClient.run for the Grover preset: one more batch of what remains.
\* It succeeds, or spends the budget, and the run ends; or the next is twice as large.
QiskitNow(r) == Min({IF r.batch = 0 THEN Min({QiskitBatch, r.budget}) ELSE r.batch,
                     r.budget - r.executed})

QiskitGrover(w) ==
    LET r     == worker[w]
        n     == QiskitNow(r)
        spent == r.executed + n
    IN  /\ r.pc = "backend" /\ r.target \in Hardware /\ r.preset = "grover"
        /\ Client(r.target) = "qiskit" /\ QiskitAvailable
        /\ \/ \E k \in Result([r EXCEPT !.executed = spent], spent, "qiskit") :
                Set(w, [k EXCEPT !.pc = "record", !.batch = 0])
           \/ /\ spent < r.budget
              /\ Set(w, [r EXCEPT !.executed = spent, !.batch = Min({2 * n, r.budget})])
        /\ UNCHANGED <<config, started, seeds, controls, file, writing, unsaved, updates, counters, summary>>

\* _run_live: the client's result, or what it raises.
RunLive(w) ==
    LET r    == worker[w]
        kind == Client(r.target)
    IN  /\ r.pc = "backend" /\ r.target \in Hardware /\ kind # "none"
        /\ \/ /\ ClientReturns(r.target) /\ ~ (kind = "qiskit" /\ r.preset = "grover")
              /\ \E n \in ClientShots(r.target, r.budget) : \E k \in Result(r, n, kind) :
                   Set(w, [k EXCEPT !.pc = "record"])
           \/ \E e \in ClientErrors(r.target) :
                Set(w, [r EXCEPT !.pc = "record", !.failed = TRUE, !.batch = 0, !.why = e])
        /\ UNCHANGED <<config, started, seeds, controls, file, writing, unsaved, updates, counters, summary>>

\* A failure of the client is final.
MaySimulateMissing(r) == config.allow_simulation /\ ~ r.failed
MaySimulate(r) == config.allow_simulation

\* No client, or one that failed: simulate if that is allowed.
Simulate(w) ==
    LET r == worker[w]
    IN  /\ r.pc = "fallback" \/ (r.pc = "backend" /\ r.target \in Hardware /\ Client(r.target) = "none")
        /\ IF MaySimulate(r)
             THEN \E k \in Result([r EXCEPT !.executed = 0], r.budget, "simulated") :
                    Set(w, [k EXCEPT !.pc = "record", !.simulated = TRUE, !.failed = FALSE,
                                    !.why = "none"])
             ELSE Fails(w, IF r.failed THEN r.why ELSE "simulation disabled")
        /\ UNCHANGED <<config, started, seeds, controls, file, writing, unsaved, updates, counters, summary>>

-----------------------------------------------------------------------------
(* Provider metrics *)

Outcome(r) == IF r.failed THEN "failure" ELSE IF r.simulated THEN "simulated" ELSE "success"

\* record_*: the Prometheus counter, and the summary's count as it is read ...
RecordReads(w) ==
    LET r == worker[w]
    IN  /\ r.pc = "record"
        /\ counters' = [counters EXCEPT ![r.target][Outcome(r)] = @ + 1]
        /\ Set(w, [r EXCEPT !.pc = "recording", !.seen = summary[r.target][Outcome(r)]])
        /\ UNCHANGED <<config, started, seeds, controls, file, writing, unsaved, updates, summary>>

\* A count of what is left rather than of what was.
Uncounted(r) == r.seen

Counted(r) == r.seen + 1

\* ... and as it is written back: nothing locks it.
RecordWrites(w) ==
    LET r == worker[w]
    IN  /\ r.pc = "recording"
        /\ summary' = [summary EXCEPT ![r.target][Outcome(r)] = Counted(r)]
        /\ Set(w, [r EXCEPT !.pc = IF r.failed THEN "fallback" ELSE "adjust", !.seen = 0])
        /\ UNCHANGED <<config, started, seeds, controls, file, writing, unsaved, updates, counters>>

-----------------------------------------------------------------------------
(* The engine, after the provider *)

\* _apply_control_profile; the fidelity stays the provider's here, since no status
\* is derived from the adjusted one.
AdjustedBack(r) == Clamp(r.back + (r.profile.probe_window_ns - 500) \div 10
                         + IF r.profile.thermal_guard_enabled THEN 0 ELSE 40)
Unguarded(p) == ~ p.thermal_guard_enabled \/ p.safety_clamp_ns = 0

\* The backaction alone decides.
AdjustedStatusAlways(r) == IF AdjustedBack(r) > 320 THEN "WARN" ELSE r.status

AdjustedStatus(r) == IF AdjustedBack(r) > 320 /\ Unguarded(r.profile) THEN "WARN" ELSE r.status

\* ... and the rest of run_experiment: the warning for a large budget never hides
\* a failure; the usage record cannot fail the run; the store gets it.  Locals that
\* nothing reads any more are reset.
StoreRun(w) ==
    LET r == worker[w]
        s == AdjustedStatus(r)
    IN  /\ r.pc = "adjust"
        /\ Set(w, [r EXCEPT !.pc = "stored", !.back = 0, !.preset = "other",
                            !.executed = 0, !.warn = FALSE, !.why = "none",
                            !.status = IF r.warn /\ s # "FAIL" THEN "WARN" ELSE s])
        /\ UNCHANGED <<config, started, seeds, controls, file, writing, unsaved, updates, counters, summary>>

\* The thread takes its next run; a seeded run's failure is only logged.
Done(w) ==
    /\ worker[w].pc \in {"stored", "failed"}
    /\ Set(w, NoRun)
    /\ UNCHANGED <<config, started, seeds, controls, file, writing, unsaved, updates, counters, summary>>

-----------------------------------------------------------------------------
(* The control profile *)

\* update: the merge, then _persist, which truncates the file first.  A patch that
\* does not validate changes nothing.
UpdateControls ==
    /\ ~ writing /\ updates < MaxUpdates
    /\ updates' = updates + 1
    /\ controls' \in Profiles
    /\ \/ writing' = TRUE /\ file' = NoProfile /\ UNCHANGED unsaved
       \/ unsaved' = TRUE /\ UNCHANGED <<file, writing>>          \* it cannot be opened
    /\ UNCHANGED <<config, worker, started, seeds, counters, summary>>

\* The profile of before the merge.
WrittenStale == DefaultProfile

Written == controls
\* The rest of write_text, or an error that leaves the file short.
PersistControls ==
    /\ writing
    /\ writing' = FALSE
    /\ \/ file' = Written /\ unsaved' = FALSE
       \/ unsaved' = TRUE /\ UNCHANGED file
    /\ UNCHANGED <<config, worker, started, seeds, controls, updates, counters, summary>>

\* The process dies and starts again: the profile is the file's, or the default.
ExecRestart ==
    /\ updates < MaxUpdates
    /\ updates' = updates + 1
    /\ worker' = [w \in Workers |-> NoRun]
    /\ controls' = IF file = NoProfile THEN DefaultProfile ELSE file
    /\ writing' = FALSE /\ unsaved' = (file = NoProfile)
    /\ counters' = [t \in Targets |-> [k \in Statuses |-> 0]]
    /\ summary' = [t \in Targets |-> [k \in Statuses |-> 0]]
    /\ UNCHANGED <<config, started, seeds, file>>

ExecInit ==
    /\ config \in Deployments
    /\ worker = [w \in Workers |-> NoRun]
    /\ started = 0 /\ seeds \in {0, DemoRuns}
    /\ controls = DefaultProfile /\ file = DefaultProfile
    /\ writing = FALSE /\ unsaved = FALSE /\ updates = 0
    /\ counters = [t \in Targets |-> [k \in Statuses |-> 0]]
    /\ summary = [t \in Targets |-> [k \in Statuses |-> 0]]

ExecNext ==
    \/ \E w \in Workers :
         \/ Submit(w) \/ SeedDemoRun(w) \/ ApplyShotGuardrails(w) \/ ReadControls(w)
         \/ LocalSimulator(w) \/ RunGroverPreset(w) \/ QiskitGrover(w) \/ RunLive(w) \/ Simulate(w)
         \/ RecordReads(w) \/ RecordWrites(w) \/ StoreRun(w) \/ Done(w)
    \/ UpdateControls \/ PersistControls \/ ExecRestart

ExecSpec == ExecInit /\ [][ExecNext]_execVars

-----------------------------------------------------------------------------
\* qiskit_provider.py:281-295, hardware_backends.py:140, 291 and engine.py:330-335:
\* a stored run reports no more shots than its budget allowed, along the live, the
\* batched and the simulated path and after a fallback; only a payload file, which
\* carries its own count, may say more.  On hardware the batches of a run never
\* add up to more than its budget either.
ReportedShots == \A w \in Workers :
    /\ worker[w].pc = "stored" =>
         \/ worker[w].shots <= worker[w].budget
         \/ Client(worker[w].target) = "payload" /\ ~ worker[w].simulated
    /\ worker[w].pc = "backend" /\ worker[w].target \in Hardware
         => worker[w].executed <= worker[w].budget

\* "Implementations MUST obey the provided shot_budget (or lower)"
\* (hardware_backends.py:115): what a run has executed is within its budget.  A
\* payload file reports shots that were not executed for this run.
ShotBudgetObeyed == \A w \in Workers :
    worker[w].executed > 0 /\ Client(worker[w].target) # "payload"
      => worker[w].executed <= worker[w].budget

\* engine.py:123-127 and 337-339: a run whose fidelity failed is reported as
\* something else only if the profile it ran with, and is stored with, has its
\* guards off, whatever the profile of the store has become meanwhile.
FailureShown == \A w \in Workers : worker[w].pc = "stored" /\ worker[w].fidelity < 900 =>
    worker[w].status = "FAIL" \/ Unguarded(worker[w].profile)

\* api.py:747-800 and hardware_backends.py:399-480: with simulation allowed, an
\* admitted run never fails for what a provider does (its own limits, the budget and
\* a missing Qiskit still fail it); without it, no run on
\* hardware is a simulation, however its client fails.
FallbackSound == \A w \in Workers :
    /\ config.allow_simulation /\ worker[w].pc = "failed"
         => worker[w].why \in {"budget", "limit", "dependency"}
    /\ worker[w].simulated => config.allow_simulation

\* metrics_recorder.py:68-103: threads may lose each other's updates of the
\* summary, yet it never counts too much, and once nobody is writing it names
\* every target that failed (health_summary, lines 127-128).
SummarySound == \A t \in Targets, k \in Statuses :
    /\ summary[t][k] <= counters[t][k]
    /\ counters[t][k] > 0 => \/ summary[t][k] > 0
                             \/ \E w \in Workers : worker[w].pc = "recording"

\* control_profiles.py:88-108: unless a write failed since, what a restart would
\* read back is the profile in force.
ControlsDurable == ~ writing /\ ~ unsaved => file = controls
=============================================================================

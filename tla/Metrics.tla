------------------------------ MODULE Metrics ------------------------------
(***************************************************************************)
(* The metrics exporter, its collection loop, and the guard that brings up *)
(* an exporter whose start failed (metrics.py, and its use in api.py and   *)
(* worker.py).  Nothing calls stop, and the loop catches what a collection *)
(* raises: a running exporter goes on.  The guard's backoff is counted in  *)
(* ticks since its last attempt, up to Backoff.                            *)
(***************************************************************************)
EXTENDS Naturals

CONSTANTS
    Labels,     \* error codes, targets
    Backoff     \* metrics_guard_restart_backoff_seconds

VARIABLES
    portTaken,  \* another process listens on the metrics port
    exporter,   \* "down", or where the exporter's thread is
    idle,       \* ticks since the guard's last attempt
    stats,      \* what queue.stats and provider_metrics report: a count per label
    gauge,      \* the exported gauge of every label, 0 if it was never set
    labels,     \* _known_failure_labels, _known_failure_targets, _provider_seen_targets
    read        \* the counts of the last collection that was not cut short

metricsVars == <<portTaken, exporter, idle, stats, gauge, labels, read>>

ASSUME MetricsAssumption == Backoff \in Nat

Families == {"queue", "provider"}
NoCounts == [f \in Families |-> [l \in Labels |-> 0]]

\* MetricsExporter.start: the server's port, then the thread.
CanStart == ~ portTaken

\* The backoff runs from an attempt at time 0 of the system's clock.
MetricsInit ==
    /\ portTaken \in BOOLEAN
    /\ exporter = IF CanStart THEN "budget" ELSE "down"
    /\ idle \in {0, Backoff}
    /\ stats = NoCounts /\ gauge = NoCounts /\ read = NoCounts
    /\ labels = [f \in Families |-> {}]

-----------------------------------------------------------------------------
(* Collection *)

\* _collect_with_guard: an exception ends this round, not the loop.
Next3(at) == CASE at = "wait" -> "budget" [] at = "budget" -> "queue"
               [] at = "queue" -> "provider" [] OTHER -> "wait"

\* Labels that are gone keep their last value.
ExportedOnly(f) ==
    [l \in Labels |-> IF stats[f][l] > 0 THEN stats[f][l] ELSE gauge[f][l]]

\* Labels with a count are set, labels known from before are zeroed.
Exported(f) ==
    LET current == {l \in Labels : stats[f][l] > 0}
    IN  [l \in Labels |-> IF l \in current THEN stats[f][l]
                          ELSE IF l \in labels[f] \ current THEN 0 ELSE gauge[f][l]]

\* _collect_queue_metrics, _collect_provider_metrics.
CollectCounts(f) ==
    /\ exporter = f
    /\ gauge' = [gauge EXCEPT ![f] = Exported(f)]
    /\ labels' = [labels EXCEPT ![f] = @ \union {l \in Labels : stats[f][l] > 0}]
    /\ read' = [read EXCEPT ![f] = stats[f]]
    /\ exporter' = Next3(f)
    /\ UNCHANGED <<portTaken, idle, stats>>

\* The wait of the interval, and _collect_budget_metrics.
CollectBudget ==
    /\ exporter \in {"wait", "budget"}
    /\ exporter' = Next3(exporter)
    /\ UNCHANGED <<portTaken, idle, stats, gauge, labels, read>>

\* A source raises (Redis is away; a dict changes size while it is read).
CollectionFails ==
    /\ exporter \in {"budget", "queue", "provider"}
    /\ exporter' = "wait"
    /\ UNCHANGED <<portTaken, idle, stats, gauge, labels, read>>

-----------------------------------------------------------------------------
(* The guard *)

\* A guard that notes the attempt it did not make.
HoldsBackAgain == /\ exporter = "down" /\ idle < Backoff
                  /\ idle' = 0

\* ensure_running found the exporter down, and the last attempt is recent.
HoldsBack == /\ exporter = "down" /\ idle < Backoff
             /\ UNCHANGED idle

EnsureRunning ==
    /\ \/ HoldsBack /\ UNCHANGED <<exporter, labels>>
       \/ /\ exporter = "down" /\ idle >= Backoff
          /\ idle' = 0
          /\ IF CanStart THEN exporter' = "budget" /\ labels' = [f \in Families |-> {}]
                         ELSE UNCHANGED <<exporter, labels>>
    /\ UNCHANGED <<portTaken, stats, gauge, read>>

GuardTick ==
    /\ idle < Backoff /\ idle' = idle + 1
    /\ UNCHANGED <<portTaken, exporter, stats, gauge, labels, read>>

\* Counts come and go with the jobs the queue still tracks.
CountsChange ==
    /\ \E f \in Families, l \in Labels, n \in 0 .. 1 : stats' = [stats EXCEPT ![f][l] = n]
    /\ UNCHANGED <<portTaken, exporter, idle, gauge, labels, read>>

\* The other process, while the port is not ours.
PortChanges ==
    /\ exporter = "down"
    /\ portTaken' = ~ portTaken
    /\ UNCHANGED <<exporter, idle, stats, gauge, labels, read>>

MetricsNext ==
    \/ CollectBudget \/ CollectCounts("queue") \/ CollectCounts("provider") \/ CollectionFails
    \/ EnsureRunning \/ GuardTick \/ CountsChange \/ PortChanges

MetricsSpec == MetricsInit /\ [][MetricsNext]_metricsVars

\* The guard's thread loops, and time passes.
MetricsFairness == WF_metricsVars(EnsureRunning) /\ WF_metricsVars(GuardTick)

-----------------------------------------------------------------------------
\* metrics.py:261-281, 287-305: what is exported is what the last completed
\* collection read, label by label: a count that went away does not stay on the
\* dashboard, also when collections in between were cut short.
GaugesTell == gauge = read

\* metrics.py:346-374: once the port stays free the exporter runs, although the
\* guard gives up after each failed attempt and backs off in between.
ExporterReturns == <>[](~ portTaken) => <>(exporter # "down")
=============================================================================

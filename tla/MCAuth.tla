------------------------------ MODULE MCAuth ------------------------------
(***************************************************************************)
(* Auth, Metrics and Orchestration share no state: "part" says which of    *)
(* them moves.  The others start where they have nothing to do (no request *)
(* may start any more; the exporter runs; no workflow has started), so     *)
(* that each keeps its own fairness.                                       *)
(***************************************************************************)
EXTENDS Auth, Metrics, Orchestration

VARIABLE part

vars == <<part, now, authVars, metricsVars, flowVars>>

Init ==
    /\ AuthInit /\ MetricsInit /\ FlowInit
    /\ \/ part \in {"auth", "flow"} /\ ClockInit /\ ~ portTaken /\ idle = Backoff
       \/ part = "metrics" /\ now = AuthEnd

AuthPart    == part = "auth" /\ AuthNext /\ UNCHANGED <<part, metricsVars, flowVars>>
MetricsPart == part = "metrics" /\ MetricsNext /\ UNCHANGED <<part, now, authVars, flowVars>>
FlowPart    == part = "flow" /\ FlowNext /\ UNCHANGED <<part, authVars, metricsVars>>

Spec == Init /\ [][AuthPart \/ MetricsPart \/ FlowPart]_vars

FairSpec == Spec /\ AuthFairness /\ MetricsFairness /\ FlowFairness
=============================================================================

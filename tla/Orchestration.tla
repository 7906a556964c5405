--------------------------- MODULE Orchestration ---------------------------
(***************************************************************************)
(* The multi-call workflow a worker process runs for one preset            *)
(* (agents/multicall.py, orchestration/workflow.py) and the event store of *)
(* each process (orchestration/event_store.py): the worker's, to which the *)
(* workflow writes, and the API's, which GET and DELETE                    *)
(* /experiments/{id}/events list and clear.  The provider is simulated:    *)
(* its first poll says RUNNING, the second SUCCEEDED.                      *)
(***************************************************************************)
EXTENDS Clock, Sequences

CONSTANTS
    Interval,       \* interval_seconds of the poll
    Timeout,        \* timeout_seconds of the step
    Limits,         \* limit of GET
    FlowEnd         \* bound: the clock stops here

VARIABLES
    flow,       \* the workflow: pc, deadline, attempt, when its sleep ends
    events,     \* event store of each process, or NoStore before its first use
    recorded,   \* history: the experiment's events that no client has cleared
    answer      \* the latest answer to GET: what was listed, and what was recorded

flowVars == <<flow, events, recorded, answer>>

ASSUME FlowAssumption == /\ Interval \in Nat \ {0} /\ Timeout \in Nat
                         /\ Limits \subseteq Nat \ {0}

Processes == {"api", "worker"}
NoStore   == <<"none">>     \* not a list of events

FlowInit ==
    /\ flow = [pc |-> "claimed", deadline |-> 0, attempt |-> 0, wakes |-> 0]
    /\ events = [p \in Processes |-> NoStore]
    /\ recorded = <<>>
    /\ answer = [got |-> <<>>, due |-> <<>>]

\* get_event_store: the process's own, made on first use.
Store(p) == IF events[p] = NoStore THEN <<>> ELSE events[p]

\* EventStore.list: the latest of them.
Listed(items, limit) ==
    IF limit >= Len(items) THEN items ELSE SubSeq(items, Len(items) - limit + 1, Len(items))

Records(e) ==
    /\ events' = [events EXCEPT !["worker"] = Append(Store("worker"), e)]
    /\ recorded' = Append(recorded, e)
    /\ UNCHANGED answer

\* PollHttpStep.run up to its loop.
StartStep ==
    /\ flow.pc = "claimed"
    /\ now + Timeout + Interval <= FlowEnd  \* bound: the clock does not stop before it ends
    /\ Records("start")
    /\ flow' = [flow EXCEPT !.pc = "poll", !.deadline = now + Timeout, !.wakes = now]

\* _simulate_http
Response(attempt) == IF attempt = 0 THEN "RUNNING" ELSE "SUCCEEDED"

\* The workflow is in its loop, and not asleep.
Awake == flow.pc = "poll" /\ now >= flow.wakes

\* One turn of the loop: a poll, and the sleep if the job is not done.
Poll ==
    /\ Awake /\ now < flow.deadline
    /\ Records(Response(flow.attempt))
    /\ flow' = [flow EXCEPT !.attempt = @ + 1,
                  !.pc = IF Response(flow.attempt) = "SUCCEEDED" THEN "done" ELSE "poll",
                  !.wakes = IF Response(flow.attempt) = "SUCCEEDED" THEN @ ELSE now + Interval]

\* A loop that sleeps on when its time is over.
SleepsOn ==
    /\ Awake /\ now >= flow.deadline
    /\ flow' = [flow EXCEPT !.wakes = now + Interval]
    /\ UNCHANGED <<events, recorded, answer>>

\* The loop's condition fails: TimeoutError, which fails the job.
TimesOut ==
    /\ Awake /\ now >= flow.deadline
    /\ flow' = [flow EXCEPT !.pc = "timeout"]
    /\ UNCHANGED <<events, recorded, answer>>

\* GET of an experiment's events: the API process lists the latest of its own store.
ListEvents(limit) ==
    /\ events' = [events EXCEPT !["api"] = Store("api")]
    /\ answer' = [got |-> Listed(Store("api"), limit), due |-> Listed(recorded, limit)]
    /\ UNCHANGED <<flow, recorded>>

\* DELETE: it clears its own store.
ClearEvents ==
    /\ events' = [events EXCEPT !["api"] = <<>>]
    /\ recorded' = <<>>
    /\ UNCHANGED <<flow, answer>>

FlowNext ==
    \/ /\ \/ StartStep \/ Poll \/ TimesOut \/ ClearEvents
          \/ \E limit \in Limits : ListEvents(limit)
       /\ UNCHANGED now
    \/ Tick(FlowEnd) /\ UNCHANGED flowVars

FlowSpec == ClockInit /\ FlowInit /\ [][FlowNext]_<<now, flowVars>>

\* The worker's event loop runs what can run, and time passes while it does.  Nobody
\* has to claim the job.
FlowFairness == /\ WF_<<now, flowVars>>(flow.pc = "poll" /\ Tick(FlowEnd) /\ UNCHANGED flowVars)
                /\ WF_<<now, flowVars>>((Poll \/ TimesOut) /\ UNCHANGED now)

-----------------------------------------------------------------------------
\* workflow.py:67-90: a workflow that has started ends, done or timed out, although
\* a sleep may take it past its deadline and nothing outside it ends it: the worker's
\* job timeout does not cover this preset (worker.py:92-95).
FlowEnds == flow.pc = "poll" ~> flow.pc \in {"done", "timeout"}

\* "Return recent orchestration events for an experiment." (api.py:865): what GET
\* lists is what was recorded for the experiment, the latest of it, and not cleared.
EventsListed == answer.got = answer.due
=============================================================================

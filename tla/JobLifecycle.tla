---------------------------- MODULE JobLifecycle ----------------------------
(***************************************************************************)
(* What a run queue promises the API about its jobs, whatever its threads  *)
(* do: a job is submitted, started at most once, and ends exactly once,    *)
(* with one outcome; every failure is counted once, under the code the job *)
(* carries; a job that never started can only fail by being cancelled, and *)
(* a success may only be taken back for one of RevokeCodes.                *)
(***************************************************************************)
EXTENDS Naturals

CONSTANTS Jobs, Codes, RevokeCodes

VARIABLES outcome, failures

vars == <<outcome, failures>>

Init ==
    /\ outcome = [j \in Jobs |-> "absent"]
    /\ failures = [c \in Codes |-> 0]

Move(j, from, to) ==
    /\ outcome[j] = from
    /\ outcome' = [outcome EXCEPT ![j] = to]

Submit(j)  == Move(j, "absent", "queued") /\ UNCHANGED failures
Start(j)   == Move(j, "queued", "running") /\ UNCHANGED failures
Succeed(j) == Move(j, "running", "succeeded") /\ UNCHANGED failures

Fail(j, c) ==
    /\ \/ Move(j, "running", c)
       \/ c = "CANCELLED" /\ Move(j, "queued", c)
       \/ c \in RevokeCodes /\ Move(j, "succeeded", c)
    /\ failures' = [failures EXCEPT ![c] = @ + 1]

Next == \E j \in Jobs :
    \/ Submit(j)
    \/ Start(j)
    \/ Succeed(j)
    \/ \E c \in Codes : Fail(j, c)

Spec == Init /\ [][Next]_vars
=============================================================================

---------------------------- MODULE MCServices ----------------------------
(***************************************************************************)
(* Gateway, Execution and ExperimentStore share no state here: "part" says *)
(* which of them moves, and one run explores each of them.                 *)
(***************************************************************************)
EXTENDS Gateway, MCExecution, MCExperimentStore, TLC

VARIABLE part

vars == <<part, now, gateVars, execVars, storeVars>>

Req(path, xkey, bearer, declared, streamed, body) ==
    [path |-> path, sid |-> None, xkey |-> xkey, bearer |-> bearer, host |-> "h",
     declared |-> declared, streamed |-> streamed, body |-> body]

\* Two callers of the rate limit that are one session of the chat; bodies of every
\* kind, at the limit and above it.
MCRequests == {
    Req("chat", "k", None, "length", FALSE, 1),
    Req("chat", None, "k", "absent", TRUE, 1),
    Req("chat", "k", None, "malformed", FALSE, 1),
    Req("chat", "k", None, "length", TRUE, 2),
    Req("health", "k", None, "absent", FALSE, 0),
    Req("health", "k", None, "absent", FALSE, 2) }

\* The parts that do not move start in one of their initial states.
Init ==
    /\ part \in {"gate", "exec", "store"}
    /\ ClockInit /\ GateInit /\ ExecInit /\ StoreInit
    /\ part # "exec" => config = Deployed(TRUE) /\ seeds = 0

GatePart  == part = "gate" /\ GateNext /\ UNCHANGED <<part, execVars, storeVars>>
ExecPart  == part = "exec" /\ ExecNext /\ UNCHANGED <<part, now, gateVars, storeVars>>
StorePart == part = "store" /\ StoreNext /\ UNCHANGED <<part, now, gateVars, execVars>>

Spec == Init /\ [][GatePart \/ ExecPart \/ StorePart]_vars

\* Tasks and Workers are the same two values, and two of the Threads: one swap is a
\* symmetry of every part.
Sym == Permutations(Tasks)
=============================================================================

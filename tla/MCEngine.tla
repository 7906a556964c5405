----------------------------- MODULE MCEngine -----------------------------
(***************************************************************************)
(* JobQueue and Budget share no state here: "part" says which of them      *)
(* moves, and one run explores both.                                       *)
(***************************************************************************)
EXTENDS MCJobQueue, Budget

VARIABLE part

allVars == <<part, vars, budgetVars>>

\* A budget that is rejected, none (the default), one that needs clamping.
MCShotRequests == {-1, 0, 3}

\* Calls and Replicas are the Clients' values, so that a swap of them is a symmetry
\* of both parts; where Budget does not move, it starts in a state the swap keeps.
MCInit ==
    /\ part \in {"queue", "budget"}
    /\ Init /\ BudgetInit
    /\ part = "queue" => mode = "local" /\ \A r \in Calls : replica[r] = r

QueuePart  == part = "queue" /\ Next /\ UNCHANGED <<part, budgetVars>>
BudgetPart == part = "budget" /\ BudgetNext /\ UNCHANGED <<part, vars>>

MCSpec == MCInit /\ [][QueuePart \/ BudgetPart]_allVars
=============================================================================

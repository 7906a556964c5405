----------------------------- MODULE MCJobQueue -----------------------------
(* TLC instances of JobQueue. *)
EXTENDS JobQueue, TLC

\* Job ids and client threads are interchangeable.
Symmetry == Permutations(Jobs) \union Permutations(Clients)
=============================================================================

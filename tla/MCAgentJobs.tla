---------------------------- MODULE MCAgentJobs ----------------------------
(***************************************************************************)
(* Instances of AgentJobs for TLC.                                         *)
(***************************************************************************)
EXTENDS AgentJobs, TLC

\* The ids, requests, workers and keys are interchangeable.
Symmetry == Permutations(Jobs) \union Permutations(Clients) \union Permutations(Workers)
=============================================================================

----------------------------- MODULE MCRunQueue -----------------------------
(* The TLC instance of RunQueue. *)
EXTENDS RunQueue
=============================================================================

------------------------- MODULE MCExperimentStore -------------------------
(* The TLC instances of ExperimentStore. *)
EXTENDS ExperimentStore

CONSTANT p1

OneProcess == [t \in Threads |-> p1]
=============================================================================

------------------------------- MODULE Clock -------------------------------
(* The clock, in ticks, of the modules whose code compares times. *)
EXTENDS Naturals

VARIABLE now

ClockInit == now = 1

\* "last" bounds the model, not the code.
Tick(last) == now < last /\ now' = now + 1
=============================================================================

------------------------------- MODULE MCTaxi -------------------------------
(* Taxi on a small instance. *)
EXTENDS Taxi
=============================================================================

------------------------------ MODULE MCMqChat ------------------------------
(* MqChat on a small instance. *)
EXTENDS MqChat
=============================================================================

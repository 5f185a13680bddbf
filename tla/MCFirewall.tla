----------------------------- MODULE MCFirewall ------------------------------
(* Model-checking instance of Firewall.                                     *)
EXTENDS Firewall
CONSTANTS a, b, c, d
=============================================================================

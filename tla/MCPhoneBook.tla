----------------------------- MODULE MCPhoneBook -----------------------------
(* PhoneBook on a small instance: the addresses are interchangeable. *)
EXTENDS PhoneBook

Symmetry == Permutations(Nodes)
=============================================================================

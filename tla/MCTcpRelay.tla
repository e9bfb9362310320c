---------------------------- MODULE MCTcpRelay ----------------------------
(* Three connections of two client ports through a table of three. *)
EXTENDS TcpRelay, TLC

Symmetry == Permutations(Keys) \cup Permutations(Dests)
===========================================================================

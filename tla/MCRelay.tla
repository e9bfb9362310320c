------------------------------ MODULE MCRelay ------------------------------
(* Connections with a head of one to four bytes against limits of three and two. *)
EXTENDS Relay
=============================================================================

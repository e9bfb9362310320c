---------------------------- MODULE MCTethering ----------------------------
(* A caller that starts and stops the hotspot as often as it likes, under two *)
(* names and two passphrases.                                                *)
EXTENDS Tethering
=============================================================================

---------------------------- MODULE MCFlowTable ----------------------------
(* Two threads, three clients' flows in a table of two: eviction, refresh at *)
(* capacity and stale stamps all happen within four clock ticks.             *)
EXTENDS FlowTable, TLC

Symmetry == Permutations(Keys) \cup Permutations(Dests) \cup Permutations(Threads)
=============================================================================

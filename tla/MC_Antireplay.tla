--------------------------- MODULE MC_Antireplay ----------------------------
(* The replay filter with 2 slots, 3-bit counters and three threads.       *)
EXTENDS Antireplay, TLC

Symmetry == Permutations(Threads)
=============================================================================

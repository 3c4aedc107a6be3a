---------------------------- MODULE MC_Handshake ----------------------------
(* Bundle lifetimes for the handshake runs: the second bundle of a party   *)
(* is not valid yet when the clock starts, the first one expires.          *)
EXTENDS Handshake, TLC

Lifetimes == <<[not_before |-> 0, not_after |-> 1], [not_before |-> 1, not_after |-> 2]>>

OneLifetime == <<[not_before |-> 0, not_after |-> 0]>>

Symmetry == Permutations(Reliable)
=============================================================================

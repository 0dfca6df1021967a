----------------------------- MODULE MCStatePool -----------------------------
(* StatePool for TLC: model values for the threads, interchangeable in the   *)
(* safety runs.                                                              *)
EXTENDS StatePool, TLC

Symmetry == Permutations(Clients) \cup Permutations(Resetters)
=============================================================================

-------------------------- MODULE MCLevelWorkerPool --------------------------
(* LevelWorkerPool for TLC: interchangeable worker threads.                  *)
EXTENDS LevelWorkerPool, TLC

Symmetry == Permutations(Workers)
=============================================================================

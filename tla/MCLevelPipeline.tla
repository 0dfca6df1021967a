--------------------------- MODULE MCLevelPipeline ---------------------------
(* LevelPipeline for TLC: four clusters over five active detectors, in the   *)
(* hierarchies growing-only clustering can leave.                            *)
EXTENDS LevelPipeline, TLC

MCDetectors == 1..5
MCClusters == 0..3
Own == [c \in MCClusters |-> IF c = 0 THEN {1, 2} ELSE {c + 2}]

Shape(l0, l1, l2, l3, shared) ==
    [level |-> [c \in MCClusters |->
                  CASE c = 0 -> l0 [] c = 1 -> l1 [] c = 2 -> l2 [] c = 3 -> l3],
     own |-> Own, shared |-> shared]

\* Residual roots on the shared MWPM over one, two and three levels; all
\* clusters promoted to roots, with a level nobody was accepted at, with a
\* single unforced root below forced ones.
MCHierarchies ==
    {Shape(1, 1, 1, 2, {3}), Shape(1, 1, 2, 3, {3}), Shape(1, 2, 3, 4, {3}),
     Shape(1, 1, 2, 2, {}), Shape(1, 2, 2, 3, {}), Shape(1, 1, 3, 3, {}),
     Shape(1, 2, 3, 3, {0})}

SlotSymmetry == Permutations(Slots)
=============================================================================

------------------------- MODULE MCLockstepScheduler -------------------------
(* LockstepScheduler for TLC.  A star has children of one or of two levels   *)
(* under one root; the root of an empty star has no detectors of its own; a  *)
(* forest has roots only; a nest has a grandchild.                           *)
EXTENDS LockstepScheduler

CONSTANTS a, b, z

Config(mode, checkpoints, fallback) ==
    [mode |-> mode, checkpoints |-> checkpoints, fallback |-> fallback]

Star ==
    [level |-> (0 :> 0 @@ 1 :> 0 @@ 2 :> 1), parent |-> (0 :> 2 @@ 1 :> 2 @@ 2 :> None),
     own |-> (0 :> {a} @@ 1 :> {b} @@ 2 :> {z}),
     reach |-> (0 :> {z} @@ 1 :> {} @@ 2 :> {a, b})]
TallStar == [Star EXCEPT !.level = (0 :> 0 @@ 1 :> 1 @@ 2 :> 2)]
Emptied(h) ==
    [h EXCEPT !.own = (0 :> {a, z} @@ 1 :> {b} @@ 2 :> {}),
              !.reach = (0 :> {} @@ 1 :> {a} @@ 2 :> {a, b, z})]
EmptyStar == Emptied(Star)
EmptyTallStar == Emptied(TallStar)
Forest == [TallStar EXCEPT !.parent = (0 :> None @@ 1 :> None @@ 2 :> None)]
Single == [level |-> (0 :> 0), parent |-> (0 :> None), own |-> (0 :> {a, b, z}), reach |-> (0 :> {})]
Nest == [TallStar EXCEPT !.parent = (0 :> 1 @@ 1 :> 2 @@ 2 :> None)]

\* Levels do not matter to the mode event_time, nor the mode to a forest.
Flat == {Star, TallStar, EmptyStar, Forest}

FlatShots ==
    {h @@ Config("root_global", FALSE, FALSE) : h \in Flat}
    \cup {h @@ Config("event_time", FALSE, h = Star) : h \in {Single, Star, EmptyTallStar}}
    \cup {Star @@ Config("event_time", TRUE, TRUE)}
    \cup {h @@ Config("level_batched", FALSE, FALSE) : h \in {Star, TallStar, EmptyTallStar}}
    \cup {h @@ Config("parentless", FALSE, FALSE) : h \in Flat}

NestedShots == {Nest @@ Config(mode, FALSE, FALSE) : mode \in {"event_time", "level_batched"}}
=============================================================================

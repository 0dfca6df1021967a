------------------------------- MODULE ForkJoin -------------------------------
(***************************************************************************)
(* What ParentlessLevelWorkerPool::parallel_for promises its caller: every *)
(* index of the loop is run exactly once before the call ends, and the     *)
(* call ends with an exception iff some body threw.                        *)
(***************************************************************************)
EXTENDS Naturals

CONSTANTS Counts,       \* the possible numbers of iterations
          Indices       \* all indices a call may have

VARIABLES
    loop,       \* "open", or how the last call ended
    bound,      \* the indices of the current call are 0..bound-1
    ran,        \* how often the body of each index has ended
    threw       \* the indices whose body threw

fvars == <<loop, bound, ran, threw>>

FInit ==
    /\ loop = "returned" /\ bound = 0
    /\ ran = [k \in Indices |-> 0] /\ threw = {}

Fork ==
    /\ loop # "open"
    /\ loop' = "open"
    /\ bound' \in Counts
    /\ ran' = [k \in Indices |-> 0] /\ threw' = {}

Do(k) ==
    /\ loop = "open"
    /\ ran[k] = 0
    /\ ran' = [ran EXCEPT ![k] = 1]
    /\ threw' \in {threw, threw \cup {k}}
    /\ UNCHANGED <<loop, bound>>

Join ==
    /\ loop = "open"
    /\ \A k \in 0..(bound - 1) : ran[k] = 1
    /\ loop' = IF threw = {} THEN "returned" ELSE "threw"
    /\ UNCHANGED <<bound, ran, threw>>

FNext == Fork \/ Join \/ \E k \in 0..(bound - 1) : Do(k)

FSpec == FInit /\ [][FNext]_fvars
=============================================================================

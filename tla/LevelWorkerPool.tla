--------------------------- MODULE LevelWorkerPool ---------------------------
(***************************************************************************)
(* The thread pool that runs the clusters of one level in parallel,        *)
(* ParentlessLevelWorkerPool of parallel/lockstep_scheduler.cc: a caller   *)
(* queues one closure per index, the workers run them, and the caller      *)
(* waits on a counter that lives in its own stack frame.                   *)
(*                                                                         *)
(* Each step is one critical section of the pool mutex or of the call's    *)
(* done_mutex, or the work between two of them.  Only loops of at least    *)
(* two iterations reach the pool (run_parentless_all_root_direct_io_path   *)
(* uses it for more than one root), and one thread calls it.               *)
(***************************************************************************)
EXTENDS Naturals, Sequences, FiniteSets

CONSTANTS
    Workers,        \* the pool's threads
    Counts          \* the possible numbers of iterations of a call

ASSUME LoopAssumption ==
    /\ IsFiniteSet(Workers) /\ Workers # {}
    /\ Counts \subseteq Nat \ {0, 1}
    /\ \E n \in Counts : \A m \in Counts : m =< n

VARIABLES
    tasks,          \* queued closures, by their index
    stopping,       \* set by the destructor
    wpc,            \* where each worker is
    wtask,          \* the index of the closure each worker runs, or NoTask
    caller,         \* where the caller is
    count,          \* the loop's number of iterations
    frame,          \* do done_mutex, done_cv, remaining... exist?
    remaining,      \* iterations not yet counted down
    firstException, \* the index whose exception is kept, or NoTask
    threw,          \* indices whose body threw
    ran             \* how often the body of each index has ended

poolVars == <<tasks, stopping>>
workerVars == <<wpc, wtask>>
frameVars == <<frame, remaining, firstException>>
bodyVars == <<threw, ran>>
vars == <<poolVars, workerVars, caller, count, frameVars, bodyVars>>

MaxCount == CHOOSE n \in Counts : \A m \in Counts : m =< n
Indices == 0..(MaxCount - 1)
NoTask == MaxCount
Sleeping == {w \in Workers : wpc[w] = "waiting"}

Init ==
    /\ tasks = <<>> /\ stopping = FALSE
    /\ wpc = [w \in Workers |-> "check"]
    /\ wtask = [w \in Workers |-> NoTask]
    /\ caller = "idle" /\ count = 0
    /\ frame = FALSE /\ remaining = 0 /\ firstException = NoTask
    /\ threw = {} /\ ran = [k \in Indices |-> 0]

-----------------------------------------------------------------------------
(* parallel_for.                                                           *)

\* The frame is set up and every iteration is queued, in order.
Enqueue ==
    /\ caller \in {"idle", "returned", "threw"}
    /\ \E n \in Counts :
         /\ count' = n
         /\ remaining' = n
         /\ tasks' = tasks \o [i \in 1..n |-> i - 1]
    /\ frame' = TRUE /\ firstException' = NoTask
    /\ threw' = {} /\ ran' = [k \in Indices |-> 0]
    /\ caller' = "notify"
    /\ UNCHANGED <<stopping, workerVars>>

\* cv.notify_all(), after the mutex is released.
NotifyAll ==
    /\ caller = "notify"
    /\ caller' = "wait"
    /\ wpc' = [w \in Workers |-> IF w \in Sleeping THEN "check" ELSE wpc[w]]
    /\ UNCHANGED <<poolVars, wtask, count, frameVars, bodyVars>>

\* done_cv.wait: block unless everything has been counted down.
WaitDone ==
    /\ caller = "wait"
    /\ remaining # 0
    /\ caller' = "blocked"
    /\ UNCHANGED <<poolVars, workerVars, count, frameVars, bodyVars>>

\* The wait is over: rethrow or return, and the frame is gone.
Finish ==
    /\ caller = "wait"
    /\ remaining = 0
    /\ caller' = IF firstException = NoTask THEN "returned" ELSE "threw"
    /\ frame' = FALSE
    /\ UNCHANGED <<poolVars, workerVars, count, remaining, firstException,
                   bodyVars>>

\* Between calls a pool of another size may be asked for: the old one's
\* destructor runs and, once it has joined its threads, a new one takes over.
Destroy ==
    /\ caller \in {"idle", "returned", "threw"}
    /\ stopping' = TRUE
    /\ caller' = "stop"
    /\ UNCHANGED <<tasks, workerVars, count, frameVars, bodyVars>>

NotifyStop ==
    /\ caller = "stop"
    /\ caller' = "join"
    /\ wpc' = [w \in Workers |-> IF w \in Sleeping THEN "check" ELSE wpc[w]]
    /\ UNCHANGED <<poolVars, wtask, count, frameVars, bodyVars>>

Replace ==
    /\ caller = "join"
    /\ \A w \in Workers : wpc[w] = "exited"
    /\ stopping' = FALSE
    /\ wpc' = [w \in Workers |-> "check"]
    /\ caller' = "idle"
    /\ UNCHANGED <<tasks, wtask, count, frameVars, bodyVars>>

-----------------------------------------------------------------------------
(* worker_loop and the closure it runs.                                    *)

\* Mutant: the closure is not removed from the queue.
PopKeeping(w) ==
    /\ wpc[w] = "check"
    /\ tasks # <<>>
    /\ wtask' = [wtask EXCEPT ![w] = Head(tasks)]
    /\ wpc' = [wpc EXCEPT ![w] = "body"]
    /\ UNCHANGED <<poolVars, caller, count, frameVars, bodyVars>>

Pop(w) ==
    /\ wpc[w] = "check"
    /\ tasks # <<>>
    /\ tasks' = Tail(tasks)
    /\ wtask' = [wtask EXCEPT ![w] = Head(tasks)]
    /\ wpc' = [wpc EXCEPT ![w] = "body"]
    /\ UNCHANGED <<stopping, caller, count, frameVars, bodyVars>>

Sleep(w) ==
    /\ wpc[w] = "check"
    /\ tasks = <<>>
    /\ wpc' = [wpc EXCEPT ![w] = IF stopping THEN "exited" ELSE "waiting"]
    /\ UNCHANGED <<poolVars, wtask, caller, count, frameVars, bodyVars>>

\* body(k) ends, normally or by throwing.
Body(w) ==
    /\ wpc[w] = "body"
    /\ ran' = [ran EXCEPT ![wtask[w]] = @ + 1]
    /\ \/ /\ wpc' = [wpc EXCEPT ![w] = "count"]
          /\ UNCHANGED threw
       \/ /\ wpc' = [wpc EXCEPT ![w] = "catch"]
          /\ threw' = threw \cup {wtask[w]}
    /\ UNCHANGED <<poolVars, wtask, caller, count, frameVars>>

\* Mutant: the exception is swallowed.
CatchSwallowing(w) ==
    /\ wpc[w] = "catch"
    /\ wpc' = [wpc EXCEPT ![w] = "count"]
    /\ UNCHANGED <<poolVars, wtask, caller, count, frameVars, bodyVars>>

\* The catch block keeps the first exception, under done_mutex.
Catch(w) ==
    /\ wpc[w] = "catch"
    /\ firstException' = IF firstException = NoTask THEN wtask[w]
                         ELSE firstException
    /\ wpc' = [wpc EXCEPT ![w] = "count"]
    /\ UNCHANGED <<poolVars, wtask, caller, count, frame, remaining, bodyVars>>

\* Mutants: the closure gives up done_mutex before it notifies; it never
\* notifies.
CountDownUnlocked(w) ==
    /\ wpc[w] = "count"
    /\ remaining' = remaining - 1
    /\ caller' = IF remaining' = 0 /\ caller = "blocked" THEN "wait" ELSE caller
    /\ wpc' = [wpc EXCEPT ![w] = "check"]
    /\ UNCHANGED <<poolVars, wtask, count, frame, firstException, bodyVars>>

CountDownSilently(w) ==
    /\ wpc[w] = "count"
    /\ remaining' = remaining - 1
    /\ wtask' = [wtask EXCEPT ![w] = NoTask]
    /\ wpc' = [wpc EXCEPT ![w] = "check"]
    /\ UNCHANGED <<poolVars, caller, count, frame, firstException, bodyVars>>

\* remaining-- and, for the last iteration, done_cv.notify_one() while
\* done_mutex is still held.
CountDown(w) ==
    /\ wpc[w] = "count"
    /\ remaining' = remaining - 1
    /\ caller' = IF remaining' = 0 /\ caller = "blocked" THEN "wait" ELSE caller
    /\ wtask' = [wtask EXCEPT ![w] = NoTask]
    /\ wpc' = [wpc EXCEPT ![w] = "check"]
    /\ UNCHANGED <<poolVars, count, frame, firstException, bodyVars>>

SpuriousWake ==
    \/ /\ \E w \in Sleeping : wpc' = [wpc EXCEPT ![w] = "check"]
       /\ UNCHANGED <<poolVars, wtask, caller, count, frameVars, bodyVars>>
    \/ /\ caller = "blocked"
       /\ caller' = "wait"
       /\ UNCHANGED <<poolVars, workerVars, count, frameVars, bodyVars>>

WorkerStep(w) == Pop(w) \/ Sleep(w) \/ Body(w) \/ Catch(w) \/ CountDown(w)
CallerWaits == NotifyAll \/ WaitDone \/ Finish \/ NotifyStop \/ Replace

Next ==
    \/ Enqueue \/ Destroy \/ CallerWaits
    \/ \E w \in Workers : WorkerStep(w)
    \/ SpuriousWake

\* Threads run; nothing is assumed of when the caller calls again.
Fairness == WF_vars(CallerWaits) /\ \A w \in Workers : WF_vars(WorkerStep(w))

Spec == Init /\ [][Next]_vars /\ Fairness

-----------------------------------------------------------------------------
(* Properties.                                                             *)

\* The types of the pool, of the call's frame and of the threads' states.
TypeOK ==
    /\ tasks \in Seq(Indices) /\ stopping \in BOOLEAN
    /\ wpc \in [Workers -> {"check", "waiting", "body", "catch", "count", "exited"}]
    /\ wtask \in [Workers -> Indices \cup {NoTask}]
    /\ caller \in {"idle", "notify", "wait", "blocked", "returned", "threw",
                   "stop", "join"}
    /\ count \in Counts \cup {0}
    /\ frame \in BOOLEAN /\ remaining \in 0..MaxCount
    /\ firstException \in Indices \cup {NoTask}
    /\ threw \in SUBSET Indices /\ ran \in [Indices -> 0..1]

\* The counter is exact: it counts the iterations that are queued or running.
\* And as every closure captures the caller's frame by reference, parallel_for
\* returns only when none of them is left.  (The last closure's notify must
\* happen before it lets go of done_mutex for this to hold.)
CountsWhatIsLeft ==
    LET left == Len(tasks) + Cardinality({w \in Workers : wtask[w] # NoTask}) IN
    IF frame THEN remaining = left ELSE left = 0

\* Every call ends, and a pool that is being replaced loses all its threads.
CallsAndShutdownsEnd ==
    /\ caller = "notify" ~> caller \in {"returned", "threw"}
    /\ stopping ~> ~ stopping

-----------------------------------------------------------------------------
(* The pool implements ForkJoin.                                           *)

Outcome == IF firstException = NoTask THEN "returned" ELSE "threw"

Promise == INSTANCE ForkJoin WITH
    loop <- IF frame THEN "open" ELSE Outcome,
    bound <- count

\* Every behaviour of the pool is one of ForkJoin: each index runs exactly
\* once, the call ends after all have, and with an exception iff one threw.
ImplementsForkJoin == Promise!FSpec
=============================================================================

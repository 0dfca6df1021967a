------------------------ MODULE LevelWorkerPool_proofs ------------------------
(***************************************************************************)
(* Proofs about LevelWorkerPool, for any number of workers and iterations: *)
(* its types, that the counter in the caller's frame is exact and nothing  *)
(* refers to the frame when it is gone, and that the pool is a ForkJoin.   *)
(***************************************************************************)
EXTENDS LevelWorkerPool, FiniteSetTheorems, TLAPS

-----------------------------------------------------------------------------
(* The inductive invariant.  That the counter is exact does not say which  *)
(* iterations are left: for each body to run once, an index that is queued *)
(* must be queued once, be held by nobody and not have run.                *)

Queued(k) == \E i \in DOMAIN tasks : tasks[i] = k
Holders == {w \in Workers : wtask[w] # NoTask}

QueueIsFresh ==
    /\ \A i, j \in DOMAIN tasks : tasks[i] = tasks[j] => i = j
    /\ \A i \in DOMAIN tasks :
         /\ tasks[i] < count /\ ran[tasks[i]] = 0
         /\ \A w \in Workers : wtask[w] # tasks[i]

HoldersAreThere ==
    \A w \in Workers :
        /\ wtask[w] # NoTask <=> wpc[w] \in {"body", "catch", "count"}
        /\ wtask[w] # NoTask =>
             /\ wtask[w] < count
             /\ ran[wtask[w]] = IF wpc[w] = "body" THEN 0 ELSE 1
             /\ \A v \in Workers : wtask[v] = wtask[w] => v = w

FrameIsTheCallers == frame <=> caller \in {"notify", "wait", "blocked"}

NoneIsSkipped ==
    \A k \in Indices : k < count =>
        ran[k] = 1 \/ Queued(k) \/ \E w \in Workers : wtask[w] = k

ExceptionIsKept ==
    /\ \A w \in Workers : wpc[w] = "catch" => wtask[w] \in threw
    /\ firstException # NoTask => threw # {}
    /\ firstException = NoTask =>
         \A k \in threw : \E w \in Workers : wpc[w] = "catch" /\ wtask[w] = k

IInv ==
    /\ TypeOK
    /\ CountsWhatIsLeft
    /\ QueueIsFresh
    /\ HoldersAreThere
    /\ FrameIsTheCallers
    /\ NoneIsSkipped
    /\ ExceptionIsKept

-----------------------------------------------------------------------------
(* Facts about the constants, the queue and the holders.                   *)

\* NoTask is no index, and an index is below a number of iterations.
LEMMA MaxCountIsMax ==
    /\ MaxCount \in Counts /\ \A n \in Counts : n =< MaxCount
    /\ Counts \subseteq Nat \ {0, 1} /\ MaxCount \in Nat \ {0, 1}
    /\ Indices = 0..(MaxCount - 1) /\ NoTask = MaxCount /\ NoTask \notin Indices
<1>1. \E n \in Counts : \A m \in Counts : m =< n
  BY LoopAssumption
<1>2. MaxCount \in Counts /\ \A n \in Counts : n =< MaxCount
  BY <1>1 DEF MaxCount
<1> QED BY <1>2, LoopAssumption DEF Indices, NoTask

\* How many workers hold an iteration, before and after one of them takes or
\* ends one.
LEMMA HoldersCount ==
    /\ IsFiniteSet(Holders) /\ Cardinality(Holders) \in Nat
    /\ Cardinality(Holders) = 0 <=> Holders = {}
    /\ \A w \in Workers \ Holders :
         Cardinality(Holders \cup {w}) = Cardinality(Holders) + 1
    /\ \A w \in Holders :
         Cardinality(Holders \ {w}) = Cardinality(Holders) - 1
<1>1. IsFiniteSet(Holders)
  BY FS_Subset, LoopAssumption DEF Holders
<1> QED BY <1>1, FS_CardinalityType, FS_EmptySet, FS_AddElement, FS_RemoveElement

\* The front of the queue and what is left behind it.
LEMMA PopQueue ==
    ASSUME NEW q \in Seq(Indices), q # <<>>
    PROVE  /\ Head(q) \in Indices /\ Tail(q) \in Seq(Indices)
           /\ DOMAIN q = 1..Len(q) /\ Len(q) \in Nat \ {0} /\ Head(q) = q[1]
           /\ DOMAIN Tail(q) = 1..(Len(q) - 1) /\ Len(Tail(q)) = Len(q) - 1
           /\ \A i \in DOMAIN Tail(q) : i + 1 \in DOMAIN q /\ Tail(q)[i] = q[i + 1]
OBVIOUS

\* An iteration exists only while the frame does.
LEMMA HeldInFrame ==
    ASSUME IInv, ~ frame
    PROVE  tasks = <<>> /\ Holders = {}
<1>1. tasks \in Seq(Indices) /\ Len(tasks) \in Nat
  BY DEF IInv, TypeOK
<1>2. Len(tasks) + Cardinality(Holders) = 0
  BY DEF IInv, CountsWhatIsLeft, Holders
<1>3. Len(tasks) = 0 /\ Cardinality(Holders) = 0
  BY <1>1, <1>2, HoldersCount
<1> QED BY <1>1, <1>3, HoldersCount

-----------------------------------------------------------------------------
(* Every step keeps it.                                                    *)

\* At first nothing is queued, held or counted.
LEMMA InitEstablishes == Init => IInv
<1> SUFFICES ASSUME Init PROVE IInv OBVIOUS
<1> USE MaxCountIsMax DEF Init
<1>1. TypeOK
  <2>1. tasks \in Seq(Indices) OBVIOUS
  <2>2. remaining \in 0..MaxCount OBVIOUS
  <2>3. ran \in [Indices -> 0..1] /\ threw \in SUBSET Indices OBVIOUS
  <2>4. wtask \in [Workers -> Indices \cup {NoTask}] OBVIOUS
  <2> QED BY ONLY <2>1, <2>2, <2>3, <2>4, Init DEF Init, TypeOK
<1>2. Holders = {} /\ Cardinality(Holders) = 0
  BY HoldersCount DEF Holders
<1>3. CountsWhatIsLeft BY <1>2 DEF CountsWhatIsLeft, Holders
<1>4. QueueIsFresh /\ HoldersAreThere /\ FrameIsTheCallers /\ ExceptionIsKept
  BY DEF QueueIsFresh, HoldersAreThere, FrameIsTheCallers, ExceptionIsKept
<1>5. NoneIsSkipped BY DEF NoneIsSkipped, Indices
<1> QED BY <1>1, <1>3, <1>4, <1>5 DEF IInv

\* The steps that move control only, and no worker that holds an iteration.
LEMMA ControlStepKeeps ==
    ASSUME IInv,
           UNCHANGED <<tasks, wtask, count, frameVars, bodyVars>>,
           TypeOK', FrameIsTheCallers',
           \A w \in Workers :
               \/ wpc'[w] = wpc[w]
               \/ wpc[w] \notin {"body", "catch", "count"}
                  /\ wpc'[w] \notin {"body", "catch", "count"}
    PROVE  IInv'
<1> USE DEF IInv, frameVars, bodyVars
<1>1. CountsWhatIsLeft' BY DEF CountsWhatIsLeft
<1>2. QueueIsFresh' BY DEF QueueIsFresh
<1>3. HoldersAreThere' BY DEF HoldersAreThere
<1>4. NoneIsSkipped' BY DEF NoneIsSkipped, Queued
<1>5. ExceptionIsKept' BY DEF ExceptionIsKept
<1> QED BY <1>1, <1>2, <1>3, <1>4, <1>5

\* Waking the workers changes nothing that is queued or held.
LEMMA NotifyAllKeeps == ASSUME IInv, NotifyAll PROVE IInv'
<1> USE DEF NotifyAll, Sleeping, poolVars, frameVars, bodyVars
<1>1. TypeOK' BY DEF IInv, TypeOK
<1>2. FrameIsTheCallers' BY DEF IInv, FrameIsTheCallers
<1>3. \A w \in Workers : \/ wpc'[w] = wpc[w]
                         \/ wpc[w] = "waiting" /\ wpc'[w] = "check"
  BY DEF IInv, TypeOK
<1> QED BY <1>1, <1>2, <1>3, ControlStepKeeps

\* The caller goes to sleep inside its own frame.
LEMMA WaitDoneKeeps == ASSUME IInv, WaitDone PROVE IInv'
<1> USE DEF WaitDone, poolVars, workerVars, frameVars, bodyVars
<1>1. TypeOK' BY DEF IInv, TypeOK
<1>2. FrameIsTheCallers' BY DEF IInv, FrameIsTheCallers
<1> QED BY <1>1, <1>2, ControlStepKeeps

\* The destructor starts between calls, when there is no frame.
LEMMA DestroyKeeps == ASSUME IInv, Destroy PROVE IInv'
<1> USE DEF Destroy, workerVars, frameVars, bodyVars
<1>1. TypeOK' BY DEF IInv, TypeOK
<1>2. FrameIsTheCallers' BY DEF IInv, FrameIsTheCallers
<1> QED BY <1>1, <1>2, ControlStepKeeps

\* The destructor wakes the workers.
LEMMA NotifyStopKeeps == ASSUME IInv, NotifyStop PROVE IInv'
<1> USE DEF NotifyStop, Sleeping, poolVars, frameVars, bodyVars
<1>1. TypeOK' BY DEF IInv, TypeOK
<1>2. FrameIsTheCallers' BY DEF IInv, FrameIsTheCallers
<1>3. \A w \in Workers : \/ wpc'[w] = wpc[w]
                         \/ wpc[w] = "waiting" /\ wpc'[w] = "check"
  BY DEF IInv, TypeOK
<1> QED BY <1>1, <1>2, <1>3, ControlStepKeeps

\* The new pool's workers hold nothing, as the old ones did.
LEMMA ReplaceKeeps == ASSUME IInv, Replace PROVE IInv'
<1> USE DEF Replace, frameVars, bodyVars
<1>1. TypeOK' BY DEF IInv, TypeOK
<1>2. FrameIsTheCallers' BY DEF IInv, FrameIsTheCallers
<1>3. \A w \in Workers : wpc[w] = "exited" /\ wpc'[w] = "check"
  OBVIOUS
<1> QED BY <1>1, <1>2, <1>3, ControlStepKeeps

\* A worker that finds the queue empty waits or exits with nothing held.
LEMMA SleepKeeps ==
    ASSUME IInv, NEW w \in Workers, Sleep(w) PROVE IInv'
<1> USE DEF Sleep, poolVars, frameVars, bodyVars
<1>1. TypeOK' BY DEF IInv, TypeOK
<1>2. FrameIsTheCallers' BY DEF IInv, FrameIsTheCallers
<1>3. \A v \in Workers : \/ wpc'[v] = wpc[v]
                         \/ wpc[v] = "check" /\ wpc'[v] \in {"exited", "waiting"}
  BY DEF IInv, TypeOK
<1> QED BY <1>1, <1>2, <1>3, ControlStepKeeps

\* A wakeup nobody sent moves a thread to its test again.
LEMMA SpuriousWakeKeeps == ASSUME IInv, SpuriousWake PROVE IInv'
<1> USE DEF SpuriousWake, Sleeping, poolVars, workerVars, frameVars, bodyVars
<1>1. TypeOK' BY DEF IInv, TypeOK
<1>2. FrameIsTheCallers' BY DEF IInv, FrameIsTheCallers
<1>3. \A v \in Workers : \/ wpc'[v] = wpc[v]
                         \/ wpc[v] = "waiting" /\ wpc'[v] = "check"
  BY DEF IInv, TypeOK
<1>4. UNCHANGED <<tasks, wtask, count, frameVars, bodyVars>>
  OBVIOUS
<1> QED BY <1>1, <1>2, <1>3, <1>4, ControlStepKeeps

\* A new call: nothing was queued or held, and everything is queued.
LEMMA EnqueueKeeps == ASSUME IInv, Enqueue PROVE IInv'
<1> USE MaxCountIsMax
<1>1. ~ frame
  BY DEF IInv, Enqueue, FrameIsTheCallers
<1>2. tasks = <<>> /\ Holders = {}
  BY <1>1, HeldInFrame
<1>3. PICK n \in Counts :
        /\ count' = n /\ remaining' = n
        /\ tasks' = tasks \o [i \in 1..n |-> i - 1]
  BY DEF Enqueue
<1>4. /\ n \in Nat /\ n =< MaxCount /\ DOMAIN tasks' = 1..n /\ Len(tasks') = n
      /\ tasks' \in Seq(Indices)
      /\ \A i \in 1..n : tasks'[i] = i - 1
  <2>1. n \in Nat /\ n =< MaxCount OBVIOUS
  <2>2. [i \in 1..n |-> i - 1] \in Seq(Indices) BY <2>1
  <2>3. tasks' = [i \in 1..n |-> i - 1] BY <1>2, <1>3, <2>2
  <2> QED BY <2>1, <2>2, <2>3
<1>5. \A w \in Workers : wtask[w] = NoTask /\ wtask'[w] = NoTask
  BY <1>2 DEF Holders, Enqueue, workerVars
<1>6. TypeOK'
  BY <1>3, <1>4 DEF IInv, TypeOK, Enqueue, workerVars
<1>7. CountsWhatIsLeft'
  <2>1. {w \in Workers : wtask'[w] # NoTask} = {} BY <1>5
  <2>2. Cardinality({w \in Workers : wtask'[w] # NoTask}) = 0
    BY <2>1, FS_EmptySet
  <2> QED BY <2>2, <1>3, <1>4 DEF CountsWhatIsLeft, Enqueue
<1>8. QueueIsFresh'
  <2>1. \A i, j \in 1..n : tasks'[i] = tasks'[j] => i = j BY <1>4
  <2>2. \A i \in 1..n : tasks'[i] \in Indices /\ tasks'[i] < n BY <1>4
  <2>3. \A k \in Indices : ran'[k] = 0 BY DEF Enqueue
  <2>4. \A i \in 1..n : \A w \in Workers : wtask'[w] # tasks'[i]
    BY <2>2, <1>5
  <2> QED BY <2>1, <2>2, <2>3, <2>4, <1>3, <1>4 DEF QueueIsFresh
<1>9. HoldersAreThere'
  BY <1>5 DEF IInv, HoldersAreThere, Enqueue, workerVars
<1>10. FrameIsTheCallers' BY DEF FrameIsTheCallers, Enqueue
<1>11. NoneIsSkipped'
  <2> SUFFICES ASSUME NEW k \in Indices, k < n PROVE Queued(k)'
    BY <1>3 DEF NoneIsSkipped
  <2>1. k + 1 \in 1..n /\ tasks'[k + 1] = k BY <1>4
  <2> QED BY <2>1, <1>4 DEF Queued
<1>12. ExceptionIsKept'
  <2>1. \A w \in Workers : wpc'[w] # "catch"
    BY <1>5 DEF IInv, HoldersAreThere, Enqueue, workerVars
  <2> QED BY <2>1 DEF ExceptionIsKept, Enqueue
<1> QED BY <1>6, <1>7, <1>8, <1>9, <1>10, <1>11, <1>12 DEF IInv

\* The call is over: with the counter at 0 nothing is left that captured the frame.
LEMMA FinishKeeps == ASSUME IInv, Finish PROVE IInv'
<1> USE DEF Finish, poolVars, workerVars, bodyVars
<1>1. TypeOK' BY DEF IInv, TypeOK
<1>2. CountsWhatIsLeft'
  BY DEF IInv, CountsWhatIsLeft, FrameIsTheCallers
<1>3. QueueIsFresh' BY DEF IInv, QueueIsFresh
<1>4. HoldersAreThere' BY DEF IInv, HoldersAreThere
<1>5. FrameIsTheCallers' BY DEF FrameIsTheCallers
<1>6. NoneIsSkipped' BY DEF IInv, NoneIsSkipped, Queued
<1>7. ExceptionIsKept' BY DEF IInv, ExceptionIsKept
<1> QED BY <1>1, <1>2, <1>3, <1>4, <1>5, <1>6, <1>7 DEF IInv

\* The front of the queue goes to a worker that held nothing.
LEMMA PopKeeps == ASSUME IInv, NEW w \in Workers, Pop(w) PROVE IInv'
<1> DEFINE k == Head(tasks)
<1> USE MaxCountIsMax DEF Pop
<1>1. /\ tasks \in Seq(Indices) /\ tasks # <<>>
      /\ wtask \in [Workers -> Indices \cup {NoTask}]
      /\ wpc \in [Workers -> {"check", "waiting", "body", "catch", "count", "exited"}]
  BY DEF IInv, TypeOK
<1>2. /\ k \in Indices /\ tasks' \in Seq(Indices)
      /\ DOMAIN tasks = 1..Len(tasks) /\ Len(tasks) \in Nat \ {0} /\ k = tasks[1]
      /\ DOMAIN tasks' = 1..(Len(tasks) - 1) /\ Len(tasks') = Len(tasks) - 1
      /\ \A i \in DOMAIN tasks' : i + 1 \in DOMAIN tasks /\ tasks'[i] = tasks[i + 1]
  BY <1>1, PopQueue
<1>3. /\ wtask[w] = NoTask /\ wtask'[w] = k /\ wpc'[w] = "body"
      /\ \A v \in Workers \ {w} : wtask'[v] = wtask[v] /\ wpc'[v] = wpc[v]
  BY <1>1 DEF IInv, HoldersAreThere
<1>4. /\ k < count /\ ran[k] = 0 /\ \A v \in Workers : wtask[v] # k
      /\ \A i \in DOMAIN tasks' : tasks'[i] # k
  <2>1. 1 \in DOMAIN tasks BY <1>2
  <2>2. k < count /\ ran[k] = 0 /\ \A v \in Workers : wtask[v] # k
    BY <1>2, <2>1 DEF IInv, QueueIsFresh
  <2>3. \A i \in DOMAIN tasks' : i + 1 # 1 /\ i + 1 \in DOMAIN tasks
    BY <1>2
  <2>4. \A i, j \in DOMAIN tasks : tasks[i] = tasks[j] => i = j
    BY DEF IInv, QueueIsFresh
  <2> QED BY <1>2, <2>1, <2>2, <2>3, <2>4
<1>5. TypeOK' BY <1>1, <1>2 DEF IInv, TypeOK, frameVars, bodyVars
<1>6. CountsWhatIsLeft'
  <2>1. {v \in Workers : wtask'[v] # NoTask} = Holders \cup {w} /\ w \in Workers \ Holders
    BY <1>2, <1>3 DEF Holders
  <2>2. Cardinality({v \in Workers : wtask'[v] # NoTask}) = Cardinality(Holders) + 1
    BY <2>1, HoldersCount
  <2>3. frame
    <3> SUFFICES ASSUME ~ frame PROVE FALSE OBVIOUS
    <3> QED BY <1>1, HeldInFrame
  <2>4. remaining = Len(tasks) + Cardinality(Holders)
    BY <2>3 DEF IInv, CountsWhatIsLeft, Holders
  <2>5. remaining' = remaining /\ frame' = frame BY DEF frameVars
  <2> QED BY <1>2, <2>2, <2>3, <2>4, <2>5, HoldersCount DEF CountsWhatIsLeft
<1>7. QueueIsFresh'
  <2>1. \A i, j \in DOMAIN tasks' : tasks'[i] = tasks'[j] => i = j
    <3> SUFFICES ASSUME NEW i \in DOMAIN tasks', NEW j \in DOMAIN tasks',
                        tasks'[i] = tasks'[j]
                 PROVE  i = j
      OBVIOUS
    <3>1. tasks[i + 1] = tasks[j + 1] /\ i + 1 \in DOMAIN tasks /\ j + 1 \in DOMAIN tasks
      BY <1>2
    <3>2. i + 1 = j + 1 BY <3>1 DEF IInv, QueueIsFresh
    <3> QED BY <3>2, <1>2
  <2>2. \A i \in DOMAIN tasks' :
          /\ tasks'[i] < count /\ ran[tasks'[i]] = 0
          /\ \A v \in Workers : wtask[v] # tasks'[i]
    BY <1>2 DEF IInv, QueueIsFresh
  <2>3. \A i \in DOMAIN tasks' : \A v \in Workers : wtask'[v] # tasks'[i]
    BY <1>3, <1>4, <2>2
  <2> QED BY <2>1, <2>2, <2>3 DEF QueueIsFresh, bodyVars
<1>8. HoldersAreThere'
  <2> SUFFICES ASSUME NEW v \in Workers
               PROVE  /\ wtask'[v] # NoTask <=> wpc'[v] \in {"body", "catch", "count"}
                      /\ wtask'[v] # NoTask =>
                           /\ wtask'[v] < count'
                           /\ ran'[wtask'[v]] = IF wpc'[v] = "body" THEN 0 ELSE 1
                           /\ \A u \in Workers : wtask'[u] = wtask'[v] => u = v
    BY DEF HoldersAreThere
  <2>1. CASE v = w BY <2>1, <1>2, <1>3, <1>4 DEF bodyVars
  <2>2. CASE v # w
    <3>1. wtask'[v] = wtask[v] /\ wpc'[v] = wpc[v] /\ wtask[v] # k BY <2>2, <1>3, <1>4
    <3>2. ran' = ran /\ count' = count BY DEF bodyVars
    <3> QED BY <3>1, <3>2, <1>3 DEF IInv, HoldersAreThere
  <2> QED BY <2>1, <2>2
<1>9. FrameIsTheCallers' BY DEF IInv, FrameIsTheCallers, frameVars
<1>10. NoneIsSkipped'
  <2> SUFFICES ASSUME NEW j \in Indices, j < count, ran[j] # 1
               PROVE  Queued(j)' \/ \E v \in Workers : wtask'[v] = j
    BY DEF NoneIsSkipped, bodyVars
  <2>1. Queued(j) \/ \E v \in Workers : wtask[v] = j
    BY DEF IInv, NoneIsSkipped
  <2>2. CASE j = k BY <2>2, <1>3
  <2>3. CASE Queued(j) /\ j # k
    <3>1. PICK i \in DOMAIN tasks : tasks[i] = j BY <2>3 DEF Queued
    <3>2. i - 1 \in DOMAIN tasks' /\ tasks'[i - 1] = tasks[(i - 1) + 1]
      BY <3>1, <2>3, <1>2
    <3>3. tasks'[i - 1] = j BY <3>1, <3>2, <1>2
    <3> QED BY <3>2, <3>3 DEF Queued
  <2>4. CASE \E v \in Workers : wtask[v] = j
    BY <2>4, <1>3
  <2> QED BY <2>1, <2>2, <2>3, <2>4
<1>11. ExceptionIsKept'
  <2>1. \A v \in Workers : wpc'[v] = "catch" <=> wpc[v] = "catch"
    BY <1>1, <1>3
  <2>2. \A v \in Workers : wpc[v] = "catch" => wtask'[v] = wtask[v]
    BY <1>1, <1>3
  <2> QED BY <2>1, <2>2 DEF IInv, ExceptionIsKept, frameVars, bodyVars
<1> QED BY <1>5, <1>6, <1>7, <1>8, <1>9, <1>10, <1>11 DEF IInv

\* The body has run once for the index its worker holds.
LEMMA BodyKeeps == ASSUME IInv, NEW w \in Workers, Body(w) PROVE IInv'
<1> DEFINE k == wtask[w]
<1> USE MaxCountIsMax DEF Body, poolVars, frameVars
<1>1. /\ wtask \in [Workers -> Indices \cup {NoTask}]
      /\ wpc \in [Workers -> {"check", "waiting", "body", "catch", "count", "exited"}]
      /\ ran \in [Indices -> 0..1] /\ threw \in SUBSET Indices
  BY DEF IInv, TypeOK
<1>2. /\ k \in Indices /\ ran[k] = 0
      /\ \A v \in Workers : wtask[v] = k => v = w
  BY <1>1 DEF IInv, HoldersAreThere
<1>3. /\ ran'[k] = 1 /\ \A j \in Indices \ {k} : ran'[j] = ran[j]
      /\ ran' \in [Indices -> 0..1]
  BY <1>1, <1>2
<1>4. /\ wpc'[w] \in {"count", "catch"}
      /\ \A v \in Workers \ {w} : wpc'[v] = wpc[v]
      /\ wpc' \in [Workers -> {"check", "waiting", "body", "catch", "count", "exited"}]
  BY <1>1
<1>5. threw' \in SUBSET Indices BY <1>1, <1>2
<1>6. TypeOK' BY <1>3, <1>4, <1>5 DEF IInv, TypeOK
<1>7. CountsWhatIsLeft' BY DEF IInv, CountsWhatIsLeft
<1>8. QueueIsFresh'
  <2>1. \A i \in DOMAIN tasks : tasks[i] \in Indices /\ tasks[i] # k
    BY DEF IInv, TypeOK, QueueIsFresh
  <2> QED BY <2>1, <1>3 DEF IInv, QueueIsFresh
<1>9. HoldersAreThere'
  <2> SUFFICES ASSUME NEW v \in Workers
               PROVE  /\ wtask[v] # NoTask <=> wpc'[v] \in {"body", "catch", "count"}
                      /\ wtask[v] # NoTask =>
                           /\ wtask[v] < count
                           /\ ran'[wtask[v]] = IF wpc'[v] = "body" THEN 0 ELSE 1
                           /\ \A u \in Workers : wtask[u] = wtask[v] => u = v
    BY DEF HoldersAreThere
  <2>1. CASE v = w BY <2>1, <1>2, <1>3, <1>4 DEF IInv, HoldersAreThere
  <2>2. CASE v # w
    <3>1. wpc'[v] = wpc[v] BY <2>2, <1>4
    <3>2. wtask[v] # NoTask => ran'[wtask[v]] = ran[wtask[v]]
      BY <2>2, <1>1, <1>2, <1>3
    <3> QED BY <3>1, <3>2 DEF IInv, HoldersAreThere
  <2> QED BY <2>1, <2>2
<1>10. FrameIsTheCallers' BY DEF IInv, FrameIsTheCallers
<1>11. NoneIsSkipped'
  BY <1>3 DEF IInv, NoneIsSkipped, Queued
<1>12. ExceptionIsKept'
  <2>1. \A v \in Workers : wpc'[v] = "catch" => wtask[v] \in threw'
    BY <1>1, <1>4 DEF IInv, ExceptionIsKept
  <2>2. threw # {} => threw' # {} OBVIOUS
  <2>3. \A j \in threw' : j \in threw \/ (j = k /\ wpc'[w] = "catch")
    BY <1>1
  <2>4. \A v \in Workers : wpc[v] = "catch" => wpc'[v] = "catch"
    BY <1>4
  <2> QED BY <2>1, <2>2, <2>3, <2>4 DEF IInv, ExceptionIsKept
<1> QED BY <1>6, <1>7, <1>8, <1>9, <1>10, <1>11, <1>12 DEF IInv

\* An index whose body threw gives its exception, or another was first.
LEMMA CatchKeeps == ASSUME IInv, NEW w \in Workers, Catch(w) PROVE IInv'
<1> USE MaxCountIsMax DEF Catch, poolVars, bodyVars
<1>1. /\ wtask \in [Workers -> Indices \cup {NoTask}]
      /\ wpc \in [Workers -> {"check", "waiting", "body", "catch", "count", "exited"}]
  BY DEF IInv, TypeOK
<1>2. /\ wpc'[w] = "count" /\ wpc[w] = "catch"
      /\ \A v \in Workers \ {w} : wpc'[v] = wpc[v]
      /\ wpc' \in [Workers -> {"check", "waiting", "body", "catch", "count", "exited"}]
  BY <1>1
<1>3. wtask[w] # NoTask /\ wtask[w] \in threw
  BY <1>2 DEF IInv, HoldersAreThere, ExceptionIsKept
<1>4. TypeOK'
  <2>1. firstException' \in Indices \cup {NoTask}
    BY <1>1 DEF IInv, TypeOK
  <2> QED BY <1>2, <2>1 DEF IInv, TypeOK
<1>5. CountsWhatIsLeft' BY DEF IInv, CountsWhatIsLeft
<1>6. QueueIsFresh' BY DEF IInv, QueueIsFresh
<1>7. HoldersAreThere'
  <2>1. \A v \in Workers : /\ wpc'[v] = "body" <=> wpc[v] = "body"
                          /\ wpc'[v] \in {"body", "catch", "count"}
                               <=> wpc[v] \in {"body", "catch", "count"}
    BY <1>2
  <2> QED BY <2>1 DEF IInv, HoldersAreThere
<1>8. FrameIsTheCallers' BY DEF IInv, FrameIsTheCallers
<1>9. NoneIsSkipped' BY DEF IInv, NoneIsSkipped, Queued
<1>10. ExceptionIsKept'
  <2>1. \A v \in Workers : wpc'[v] = "catch" => wpc[v] = "catch"
    BY <1>2
  <2>2. firstException' # NoTask BY <1>3
  <2> QED BY <2>1, <2>2, <1>3 DEF IInv, ExceptionIsKept
<1> QED BY <1>4, <1>5, <1>6, <1>7, <1>8, <1>9, <1>10 DEF IInv

\* The counter goes down with the number of holders.
LEMMA CountDownKeeps == ASSUME IInv, NEW w \in Workers, CountDown(w) PROVE IInv'
<1> USE MaxCountIsMax DEF CountDown, poolVars, bodyVars
<1>1. /\ wtask \in [Workers -> Indices \cup {NoTask}]
      /\ wpc \in [Workers -> {"check", "waiting", "body", "catch", "count", "exited"}]
      /\ tasks \in Seq(Indices) /\ Len(tasks) \in Nat /\ remaining \in 0..MaxCount
  BY DEF IInv, TypeOK
<1>2. /\ wtask[w] # NoTask /\ wtask'[w] = NoTask
      /\ wpc[w] = "count" /\ wpc'[w] = "check"
      /\ \A v \in Workers \ {w} : wtask'[v] = wtask[v] /\ wpc'[v] = wpc[v]
      /\ wtask' \in [Workers -> Indices \cup {NoTask}]
      /\ wpc' \in [Workers -> {"check", "waiting", "body", "catch", "count", "exited"}]
  BY <1>1 DEF IInv, HoldersAreThere
<1>3. /\ w \in Holders
      /\ {v \in Workers : wtask'[v] # NoTask} = Holders \ {w}
  BY <1>2 DEF Holders
<1>4. Cardinality(Holders) \in Nat \ {0}
  BY <1>3, HoldersCount
<1>5. frame
  BY <1>3, HeldInFrame
<1>6. /\ remaining = Len(tasks) + Cardinality(Holders) /\ remaining > 0
      /\ remaining' = remaining - 1
  BY <1>1, <1>4, <1>5 DEF IInv, CountsWhatIsLeft, Holders
<1>7. TypeOK'
  <2>1. remaining' \in 0..MaxCount BY <1>1, <1>6
  <2>2. caller' \in {"idle", "notify", "wait", "blocked", "returned", "threw",
                     "stop", "join"}
    BY DEF IInv, TypeOK
  <2> QED BY <1>2, <2>1, <2>2 DEF IInv, TypeOK
<1>8. CountsWhatIsLeft'
  <2>1. Cardinality({v \in Workers : wtask'[v] # NoTask}) = Cardinality(Holders) - 1
    BY <1>3, HoldersCount
  <2> QED BY <2>1, <1>1, <1>4, <1>5, <1>6 DEF CountsWhatIsLeft
<1>9. QueueIsFresh'
  <2>1. \A i \in DOMAIN tasks : tasks[i] \in Indices BY <1>1
  <2>2. \A i \in DOMAIN tasks : \A v \in Workers : wtask'[v] # tasks[i]
    BY <2>1, <1>2 DEF IInv, QueueIsFresh
  <2> QED BY <2>2 DEF IInv, QueueIsFresh
<1>10. HoldersAreThere'
  BY <1>2 DEF IInv, HoldersAreThere
<1>11. FrameIsTheCallers' BY DEF IInv, FrameIsTheCallers
<1>12. NoneIsSkipped'
  <2> SUFFICES ASSUME NEW j \in Indices, j < count, ran[j] # 1, ~ Queued(j)
               PROVE  \E v \in Workers : wtask'[v] = j
    BY DEF NoneIsSkipped, Queued
  <2>1. PICK v \in Workers : wtask[v] = j
    BY DEF IInv, NoneIsSkipped
  <2>2. v # w
    BY <2>1, <1>2 DEF IInv, HoldersAreThere
  <2> QED BY <2>1, <2>2, <1>2
<1>13. ExceptionIsKept'
  <2>1. \A v \in Workers : /\ wpc'[v] = "catch" <=> wpc[v] = "catch"
                          /\ wpc[v] = "catch" => wtask'[v] = wtask[v]
    BY <1>2
  <2> QED BY <2>1 DEF IInv, ExceptionIsKept
<1> QED BY <1>7, <1>8, <1>9, <1>10, <1>11, <1>12, <1>13 DEF IInv

\* So does a step that changes nothing.
LEMMA StutterKeeps == ASSUME IInv, UNCHANGED vars PROVE IInv'
<1> USE DEF vars, poolVars, workerVars, frameVars, bodyVars
<1>1. TypeOK' BY DEF IInv, TypeOK
<1>2. FrameIsTheCallers' BY DEF IInv, FrameIsTheCallers
<1> QED BY <1>1, <1>2, ControlStepKeeps

-----------------------------------------------------------------------------
(* The theorems.                                                           *)

\* Every step of the pool or of its caller keeps the invariant.
LEMMA NextKeeps == ASSUME IInv, [Next]_vars PROVE IInv'
<1>1. CASE Enqueue BY <1>1, EnqueueKeeps
<1>2. CASE Destroy BY <1>2, DestroyKeeps
<1>3. CASE CallerWaits
  BY <1>3, NotifyAllKeeps, WaitDoneKeeps, FinishKeeps, NotifyStopKeeps, ReplaceKeeps
  DEF CallerWaits
<1>4. ASSUME NEW w \in Workers, WorkerStep(w) PROVE IInv'
  BY <1>4, PopKeeps, SleepKeeps, BodyKeeps, CatchKeeps, CountDownKeeps DEF WorkerStep
<1>5. CASE SpuriousWake BY <1>5, SpuriousWakeKeeps
<1>6. CASE UNCHANGED vars BY <1>6, StutterKeeps
<1> QED BY <1>1, <1>2, <1>3, <1>4, <1>5, <1>6 DEF Next

\* The inductive invariant holds in every reachable state, for any number of
\* threads and iterations.
THEOREM PoolInvariance == Spec => []IInv
<1>1. Init => IInv BY InitEstablishes
<1>2. IInv /\ [Next]_vars => IInv' BY NextKeeps
<1> QED BY <1>1, <1>2, PTL DEF Spec

\* The pool, the frame and the threads have their types; in particular no
\* body runs twice in a call.
THEOREM PoolTypes == Spec => []TypeOK
<1>1. IInv => TypeOK BY DEF IInv
<1> QED BY <1>1, PoolInvariance, PTL

\* The counter in the caller's frame counts what is queued or running, and
\* nothing is when the frame is gone.
THEOREM CounterIsExact == Spec => []CountsWhatIsLeft
<1>1. IInv => CountsWhatIsLeft BY DEF IInv
<1> QED BY <1>1, PoolInvariance, PTL

-----------------------------------------------------------------------------
(* The refinement: forking is Enqueue, an iteration is Body, joining is    *)
(* Finish, and everything else stutters.                                   *)

\* A call that ends has run every iteration, and throws iff one threw.
LEMMA FinishJoins == ASSUME IInv, Finish PROVE Promise!Join
<1> USE DEF Finish, poolVars, workerVars, bodyVars
<1>1. frame /\ ~ frame'
  BY DEF IInv, FrameIsTheCallers
<1>2. tasks = <<>> /\ Holders = {}
  <2>1. Len(tasks) \in Nat /\ tasks \in Seq(Indices) BY DEF IInv, TypeOK
  <2>2. Len(tasks) + Cardinality(Holders) = 0
    BY <1>1 DEF IInv, CountsWhatIsLeft, Holders
  <2>3. Len(tasks) = 0 /\ Cardinality(Holders) = 0
    BY <2>1, <2>2, HoldersCount
  <2> QED BY <2>1, <2>3, HoldersCount
<1>3. \A k \in Indices : ~ Queued(k) /\ \A w \in Workers : wtask[w] # k
  BY <1>2, MaxCountIsMax DEF Queued, Holders
<1>4. \A k \in 0..(count - 1) : ran[k] = 1
  <2> SUFFICES ASSUME NEW k \in 0..(count - 1) PROVE ran[k] = 1 OBVIOUS
  <2>1. count \in Nat /\ count =< MaxCount BY MaxCountIsMax DEF IInv, TypeOK
  <2>2. k \in Indices /\ k < count BY <2>1, MaxCountIsMax
  <2> QED BY <2>2, <1>3 DEF IInv, NoneIsSkipped
<1>5. firstException = NoTask <=> threw = {}
  <2>1. \A k \in threw : ~ \E w \in Workers : wtask[w] = k
    BY <1>3 DEF IInv, TypeOK
  <2> QED BY <2>1 DEF IInv, ExceptionIsKept
<1> QED BY <1>1, <1>4, <1>5 DEF Promise!Join, Outcome

\* A body runs inside a call, for an index of the call that had not run.
LEMMA BodyDoes ==
    ASSUME IInv, NEW w \in Workers, Body(w)
    PROVE  \E k \in 0..(count - 1) : Promise!Do(k)
<1> USE MaxCountIsMax DEF Body, poolVars, frameVars
<1>1. /\ wtask \in [Workers -> Indices \cup {NoTask}] /\ ran \in [Indices -> 0..1]
      /\ count \in Nat
  BY DEF IInv, TypeOK
<1>2. /\ wtask[w] \in Indices /\ wtask[w] \in 0..(count - 1) /\ ran[wtask[w]] = 0
  BY <1>1 DEF IInv, HoldersAreThere
<1>3. frame /\ frame' = frame
  <2>1. w \in Holders BY <1>2 DEF Holders
  <2> QED BY <2>1, HeldInFrame
<1>4. ran' = [ran EXCEPT ![wtask[w]] = 1]
  BY <1>1, <1>2
<1>5. threw' \in {threw, threw \cup {wtask[w]}}
  OBVIOUS
<1>6. Promise!Do(wtask[w])
  BY <1>2, <1>3, <1>4, <1>5 DEF Promise!Do, Outcome
<1> QED BY <1>2, <1>6

\* A call that starts, starts a loop of ForkJoin.
LEMMA EnqueueForks == ASSUME IInv, Enqueue PROVE Promise!Fork
<1>1. ~ frame /\ frame'
  BY DEF IInv, Enqueue, FrameIsTheCallers
<1>2. Outcome # "open" BY DEF Outcome
<1> QED BY <1>1, <1>2 DEF Enqueue, Promise!Fork

\* Every behaviour of the pool is one of ForkJoin.
THEOREM PoolIsForkJoin == Spec => ImplementsForkJoin
<1>1. Init => Promise!FInit
  BY DEF Init, Promise!FInit, Outcome
<1>2. IInv /\ [Next]_vars => [Promise!FNext]_(Promise!fvars)
  <2> SUFFICES ASSUME IInv, [Next]_vars PROVE [Promise!FNext]_(Promise!fvars)
    OBVIOUS
  <2> USE DEF poolVars, workerVars, frameVars, bodyVars
  <2>1. CASE Enqueue BY <2>1, EnqueueForks DEF Promise!FNext
  <2>2. CASE Finish BY <2>2, FinishJoins DEF Promise!FNext
  <2>3. ASSUME NEW w \in Workers, Body(w)
        PROVE  [Promise!FNext]_(Promise!fvars)
    BY <2>3, BodyDoes DEF Promise!FNext
  <2>4. ASSUME NEW w \in Workers, Catch(w)
        PROVE  [Promise!FNext]_(Promise!fvars)
    <3>1. w \in Holders /\ frame
      <4>1. w \in Holders BY <2>4 DEF Catch, IInv, HoldersAreThere, Holders
      <4> QED BY <4>1, HeldInFrame
    <3> QED BY <3>1, <2>4 DEF Catch, Promise!fvars
  <2>5. CASE \/ Destroy \/ NotifyAll \/ WaitDone \/ NotifyStop \/ Replace
            \/ SpuriousWake
    <3>1. UNCHANGED <<frame, firstException, count, ran, threw>>
      BY <2>5 DEF Destroy, NotifyAll, WaitDone, NotifyStop, Replace, SpuriousWake
    <3> QED BY <3>1 DEF Promise!fvars, Outcome
  <2>6. ASSUME NEW w \in Workers, Pop(w) \/ Sleep(w) \/ CountDown(w)
        PROVE  [Promise!FNext]_(Promise!fvars)
    <3>1. UNCHANGED <<frame, firstException, count, ran, threw>>
      BY <2>6 DEF Pop, Sleep, CountDown
    <3> QED BY <3>1 DEF Promise!fvars, Outcome
  <2>7. CASE UNCHANGED vars
    BY <2>7 DEF vars, Promise!fvars, Outcome
  <2> QED BY <2>1, <2>2, <2>3, <2>4, <2>5, <2>6, <2>7
          DEF Next, CallerWaits, WorkerStep
<1>3. Spec => []IInv BY PoolInvariance
<1> QED BY <1>1, <1>2, <1>3, PTL DEF Spec, ImplementsForkJoin, Promise!FSpec
=============================================================================

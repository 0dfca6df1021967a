-------------------------- MODULE StatePool_proofs --------------------------
(***************************************************************************)
(* Proofs about StatePool, for any number of clients, reset threads, slots *)
(* and tasks: its types, the ownership of slots, that a slot is clean      *)
(* whenever it is handed out, and that no wake-up is lost, although both   *)
(* condition variables are notified after the mutex is released, waking    *)
(* one thread of possibly two kinds, and woken threads may be overtaken.   *)
(***************************************************************************)
EXTENDS StatePool, FiniteSetTheorems, TLAPS

-----------------------------------------------------------------------------
(* What the queue operations do to membership and to duplicates.           *)

\* Appending adds exactly one element, and no duplicate if it is new.
LEMMA AppendQueue ==
    ASSUME NEW q \in Seq(Slots), NEW s \in Slots
    PROVE  /\ Append(q, s) \in Seq(Slots)
           /\ \A x : InQueue(Append(q, s), x) <=> InQueue(q, x) \/ x = s
           /\ Once(q) /\ ~ InQueue(q, s) => Once(Append(q, s))
<1>1. /\ Append(q, s) \in Seq(Slots)
      /\ Len(Append(q, s)) = Len(q) + 1
      /\ Append(q, s)[Len(q) + 1] = s
      /\ \A i \in 1..Len(q) : Append(q, s)[i] = q[i]
  OBVIOUS
<1>2. /\ Len(q) \in Nat
      /\ DOMAIN q = 1..Len(q)
      /\ DOMAIN Append(q, s) = 1..(Len(q) + 1)
  BY <1>1
<1>3. \A x : InQueue(Append(q, s), x) <=> InQueue(q, x) \/ x = s
  BY <1>1, <1>2 DEF InQueue
<1>4. Once(q) /\ ~ InQueue(q, s) => Once(Append(q, s))
  BY <1>1, <1>2 DEF InQueue, Once
<1> QED BY <1>1, <1>3, <1>4

\* Popping the front removes exactly that element if there are no duplicates.
LEMMA PopQueue ==
    ASSUME NEW q \in Seq(Slots), q # <<>>
    PROVE  /\ Tail(q) \in Seq(Slots) /\ Head(q) \in Slots
           /\ InQueue(q, Head(q))
           /\ \A x : InQueue(q, x) <=> x = Head(q) \/ InQueue(Tail(q), x)
           /\ Once(q) => Once(Tail(q)) /\ ~ InQueue(Tail(q), Head(q))
<1>1. /\ Tail(q) \in Seq(Slots) /\ Head(q) \in Slots
      /\ Head(q) = q[1]
      /\ Len(q) \in Nat \ {0}
      /\ Len(Tail(q)) = Len(q) - 1
      /\ \A i \in 1..(Len(q) - 1) : Tail(q)[i] = q[i + 1]
  OBVIOUS
<1>2. DOMAIN q = 1..Len(q) /\ DOMAIN Tail(q) = 1..(Len(q) - 1)
  BY <1>1
<1>3. InQueue(q, Head(q))
  BY <1>1, <1>2 DEF InQueue
<1>4. ASSUME NEW x PROVE InQueue(q, x) <=> x = Head(q) \/ InQueue(Tail(q), x)
  <2>1. ASSUME InQueue(q, x), x # Head(q) PROVE InQueue(Tail(q), x)
    <3>1. PICK i \in 1..Len(q) : q[i] = x BY <2>1, <1>2 DEF InQueue
    <3>2. i - 1 \in 1..(Len(q) - 1) /\ Tail(q)[i - 1] = x
      BY <3>1, <2>1, <1>1
    <3> QED BY <3>2, <1>2 DEF InQueue
  <2>2. ASSUME InQueue(Tail(q), x) PROVE InQueue(q, x)
    <3>1. PICK i \in 1..(Len(q) - 1) : Tail(q)[i] = x
      BY <2>2, <1>2 DEF InQueue
    <3>2. i + 1 \in 1..Len(q) /\ q[i + 1] = x BY <3>1, <1>1
    <3> QED BY <3>2, <1>2 DEF InQueue
  <2> QED BY <2>1, <2>2, <1>3
<1>5. ASSUME Once(q) PROVE Once(Tail(q)) /\ ~ InQueue(Tail(q), Head(q))
  <2>1. \A i, j \in 1..Len(q) : q[i] = q[j] => i = j
    BY <1>5, <1>2 DEF Once
  <2>2. \A i \in 1..(Len(q) - 1) : i + 1 \in 1..Len(q) /\ i + 1 # 1
    BY <1>1
  <2> QED BY <2>1, <2>2, <1>1, <1>2 DEF Once, InQueue
<1> QED BY <1>1, <1>3, <1>4, <1>5

\* What is queued is a slot.
LEMMA QueuedInSet ==
    ASSUME NEW q \in Seq(Slots), NEW x, InQueue(q, x)
    PROVE  x \in Slots
BY DEF InQueue

-----------------------------------------------------------------------------
(* The inductive invariant.  Ownership alone is not inductive: which       *)
(* threads hold a slot depends on where they are, prewarm must find an     *)
(* untouched pool, and a slot is clean only once its reset thread is past  *)
(* Reset.                                                                  *)

HoldersAreThere ==
    /\ \A c \in Clients : cslot[c] # None <=> cpc[c] \in {"using", "ran"}
    /\ \A r \in Resetters : rslot[r] # None <=> rpc[r] \in {"resetting", "publish"}

NewBeyondSize == \A s \in Slots : slotState[s] = New <=> s >= size

CleanWhenIdle ==
    /\ \A s \in Slots : slotState[s] \in {New, Ready} => clean[s]
    /\ \A r \in Resetters : rpc[r] = "publish" => clean[rslot[r]]

ColdIsUntouched ==
    phase = "cold" =>
        /\ size = 0 /\ todo = 0 /\ dirty = <<>>
        /\ \A c \in Clients : cpc[c] = "idle"
        /\ \A r \in Resetters : rpc[r] = "off"

IInv ==
    /\ TypeOK
    /\ Ownership
    /\ HoldersAreThere
    /\ NewBeyondSize
    /\ CleanWhenIdle
    /\ ColdIsUntouched

-----------------------------------------------------------------------------
(* Every step keeps it.                                                    *)

USE DEF Slots, None, New, Ready, InUse, Resetting

\* The constants' facts the steps use.
LEMMA ConstantFacts ==
    PoolSlots \in Nat \ {0} /\ Tasks \in Nat /\ None \notin Slots
BY PoolAssumption

\* The initial pool is empty and untouched.
LEMMA InitEstablishes == Init => IInv
<1> SUFFICES ASSUME Init PROVE IInv OBVIOUS
<1> USE ConstantFacts DEF Init
<1>1. TypeOK BY DEF TypeOK, CPC, RPC, Phases
<1>2. Ownership BY DEF Ownership, QueuesOnce, ReadyIsQueued, InUseIsHeld, ResettingIsQueuedOrHeld, Once, InQueue
<1>3. HoldersAreThere /\ NewBeyondSize /\ CleanWhenIdle /\ ColdIsUntouched
  BY DEF HoldersAreThere, NewBeyondSize, CleanWhenIdle, ColdIsUntouched
<1> QED BY <1>1, <1>2, <1>3 DEF IInv

\* The steps that move control only: no slot, queue or holder changes.
LEMMA ControlStepKeeps ==
    ASSUME IInv,
           UNCHANGED <<slotState, ready, dirty, size, clean, cslot, rslot>>,
           TypeOK', HoldersAreThere', ColdIsUntouched',
           \A q \in Resetters : rpc'[q] = "publish" => rpc[q] = "publish"
    PROVE  IInv'
<1>1. Ownership'
  BY DEF IInv, Ownership, QueuesOnce, ReadyIsQueued, InUseIsHeld, ResettingIsQueuedOrHeld
<1>2. NewBeyondSize' /\ CleanWhenIdle'
  BY DEF IInv, NewBeyondSize, CleanWhenIdle
<1> QED BY <1>1, <1>2 DEF IInv

\* Decoding an unprewarmed pool changes the phase only.
LEMMA SkipPrewarmKeeps ==
    ASSUME IInv, SkipPrewarm
    PROVE  IInv'
<1> USE ConstantFacts DEF SkipPrewarm, poolVars, clientVars, resetterVars, callerVars
<1>1. TypeOK'
  BY DEF IInv, TypeOK, CPC, RPC, Phases
<1>2. HoldersAreThere'
  BY DEF IInv, TypeOK, HoldersAreThere
<1>3. ColdIsUntouched'
  BY DEF IInv, TypeOK, ColdIsUntouched
<1>4. \A q \in Resetters : rpc'[q] = "publish" => rpc[q] = "publish"
  BY DEF IInv, TypeOK
<1> QED BY <1>1, <1>2, <1>3, <1>4, ControlStepKeeps

\* Starting a shot changes todo only.
LEMMA StartDecodeKeeps ==
    ASSUME IInv, StartDecode
    PROVE  IInv'
<1> USE ConstantFacts DEF StartDecode, poolVars, clientVars, resetterVars, callerVars
<1>1. TypeOK'
  BY DEF IInv, TypeOK, CPC, RPC, Phases
<1>2. HoldersAreThere'
  BY DEF IInv, TypeOK, HoldersAreThere
<1>3. ColdIsUntouched'
  BY DEF IInv, TypeOK, ColdIsUntouched
<1>4. \A q \in Resetters : rpc'[q] = "publish" => rpc[q] = "publish"
  BY DEF IInv, TypeOK
<1> QED BY <1>1, <1>2, <1>3, <1>4, ControlStepKeeps

\* The settle wait reads the ready queue.
LEMMA SettleKeeps ==
    ASSUME IInv, Settle
    PROVE  IInv'
<1> USE ConstantFacts DEF Settle, poolVars, clientVars, resetterVars, callerVars
<1>1. TypeOK'
  BY DEF IInv, TypeOK, CPC, RPC, Phases
<1>2. HoldersAreThere'
  BY DEF IInv, TypeOK, HoldersAreThere
<1>3. ColdIsUntouched'
  BY DEF IInv, TypeOK, ColdIsUntouched
<1>4. \A q \in Resetters : rpc'[q] = "publish" => rpc[q] = "publish"
  BY DEF IInv, TypeOK
<1> QED BY <1>1, <1>2, <1>3, <1>4, ControlStepKeeps

\* Beginning a task holds nothing yet.
LEMMA BeginTaskKeeps ==
    ASSUME IInv, NEW c \in Clients, BeginTask(c)
    PROVE  IInv'
<1> USE ConstantFacts DEF BeginTask, poolVars, clientVars, resetterVars, callerVars
<1>1. TypeOK'
  BY DEF IInv, TypeOK, CPC, RPC, Phases
<1>2. HoldersAreThere'
  BY DEF IInv, TypeOK, HoldersAreThere
<1>3. ColdIsUntouched'
  BY DEF IInv, TypeOK, ColdIsUntouched
<1>4. \A q \in Resetters : rpc'[q] = "publish" => rpc[q] = "publish"
  BY DEF IInv, TypeOK
<1> QED BY <1>1, <1>2, <1>3, <1>4, ControlStepKeeps

\* Blocking on ready_cv holds nothing.
LEMMA BlockKeeps ==
    ASSUME IInv, NEW c \in Clients, Block(c)
    PROVE  IInv'
<1> USE ConstantFacts DEF Block, poolVars, clientVars, resetterVars, callerVars
<1>1. TypeOK'
  BY DEF IInv, TypeOK, CPC, RPC, Phases
<1>2. HoldersAreThere'
  BY DEF IInv, TypeOK, HoldersAreThere
<1>3. ColdIsUntouched'
  BY DEF IInv, TypeOK, ColdIsUntouched
<1>4. \A q \in Resetters : rpc'[q] = "publish" => rpc[q] = "publish"
  BY DEF IInv, TypeOK
<1> QED BY <1>1, <1>2, <1>3, <1>4, ControlStepKeeps

\* A notify of work_cv wakes at most one reset thread.
LEMMA NotifyWorkKeeps ==
    ASSUME IInv, NEW c \in Clients, NotifyWork(c)
    PROVE  IInv'
<1> USE ConstantFacts DEF NotifyWork, poolVars, clientVars, resetterVars, callerVars
<1>1. TypeOK'
  BY DEF IInv, TypeOK, CPC, RPC, Phases, WorkWaiters
<1>2. HoldersAreThere'
  BY DEF IInv, TypeOK, HoldersAreThere, WorkWaiters
<1>3. ColdIsUntouched'
  BY DEF IInv, TypeOK, ColdIsUntouched, WorkWaiters
<1>4. \A q \in Resetters : rpc'[q] = "publish" => rpc[q] = "publish"
  BY DEF IInv, TypeOK, WorkWaiters
<1> QED BY <1>1, <1>2, <1>3, <1>4, ControlStepKeeps

\* Blocking on work_cv holds nothing.
LEMMA BlockWorkKeeps ==
    ASSUME IInv, NEW r \in Resetters, BlockWork(r)
    PROVE  IInv'
<1> USE ConstantFacts DEF BlockWork, poolVars, clientVars, resetterVars, callerVars
<1>1. TypeOK'
  BY DEF IInv, TypeOK, CPC, RPC, Phases
<1>2. HoldersAreThere'
  BY DEF IInv, TypeOK, HoldersAreThere
<1>3. ColdIsUntouched'
  BY DEF IInv, TypeOK, ColdIsUntouched
<1>4. \A q \in Resetters : rpc'[q] = "publish" => rpc[q] = "publish"
  BY DEF IInv, TypeOK
<1> QED BY <1>1, <1>2, <1>3, <1>4, ControlStepKeeps

\* Prewarm queues every slot of an untouched pool once.
LEMMA PrewarmKeeps ==
    ASSUME IInv, Prewarm
    PROVE  IInv'
<1> USE ConstantFacts DEF Prewarm, poolVars, clientVars, resetterVars, callerVars
<1>0. TypeOK /\ Ownership /\ HoldersAreThere /\ NewBeyondSize /\ CleanWhenIdle
      /\ ColdIsUntouched
  BY DEF IInv
<1>1. /\ ready' \in Seq(Slots) /\ DOMAIN ready' = 1..PoolSlots
      /\ \A i \in 1..PoolSlots : ready'[i] = i - 1
  OBVIOUS
<1>2. Once(ready') /\ \A s \in Slots : InQueue(ready', s)
  <2>1. \A s \in Slots : s + 1 \in 1..PoolSlots /\ ready'[s + 1] = s
    BY <1>1
  <2> QED BY <1>1, <2>1 DEF Once, InQueue
<1>3. \A s \in Slots : slotState[s] = New /\ slotState'[s] = Ready /\ clean[s]
  BY <1>0 DEF TypeOK, NewBeyondSize, ColdIsUntouched, CleanWhenIdle
<1>4. /\ \A c \in Clients : cslot[c] = None
      /\ \A r \in Resetters : rslot[r] = None
  BY <1>0 DEF TypeOK, HoldersAreThere, ColdIsUntouched
<1>5. dirty' = <<>> /\ \A x : ~ InQueue(dirty', x)
  BY <1>0 DEF ColdIsUntouched, InQueue
<1>10. TypeOK'
  BY <1>0, <1>1 DEF TypeOK, CPC, RPC, Phases
<1>11. QueuesOnce'
  BY <1>0, <1>2 DEF TypeOK, QueuesOnce, Ownership, QueuesOnce
<1>12. ReadyIsQueued'
  BY <1>0, <1>1, <1>2, <1>3, <1>4, <1>5 DEF TypeOK, ReadyIsQueued
<1>13. InUseIsHeld'
  BY <1>0, <1>1, <1>2, <1>3, <1>4, <1>5 DEF TypeOK, InUseIsHeld
<1>14. ResettingIsQueuedOrHeld'
  BY <1>0, <1>1, <1>2, <1>3, <1>4, <1>5 DEF TypeOK, ResettingIsQueuedOrHeld
<1>15. HoldersAreThere'
  BY <1>0, <1>4 DEF TypeOK, HoldersAreThere
<1>16. NewBeyondSize'
  BY <1>0, <1>1, <1>2, <1>3, <1>4, <1>5 DEF TypeOK, NewBeyondSize
<1>17. CleanWhenIdle'
  BY <1>0, <1>3 DEF TypeOK, CleanWhenIdle
<1>18. ColdIsUntouched'
  BY <1>0, <1>1, <1>2, <1>3, <1>4, <1>5 DEF TypeOK, ColdIsUntouched
<1> QED BY <1>10, <1>11, <1>12, <1>13, <1>14, <1>15, <1>16, <1>17, <1>18 DEF IInv, Ownership

\* The slot a client adds was new and is queued once.
LEMMA GrowKeeps ==
    ASSUME IInv, NEW c \in Clients, Grow(c)
    PROVE  IInv'
<1> USE ConstantFacts DEF Grow, poolVars, clientVars, resetterVars, callerVars
<1>0. TypeOK /\ Ownership /\ HoldersAreThere /\ NewBeyondSize /\ CleanWhenIdle
      /\ ColdIsUntouched
  BY DEF IInv
<1>1. size \in Slots /\ slotState[size] = New /\ clean[size]
  BY <1>0 DEF TypeOK, NewBeyondSize, CleanWhenIdle
<1>2. ~ InQueue(ready, size)
  BY <1>0, <1>1 DEF Ownership, ReadyIsQueued
<1>3. /\ ready' \in Seq(Slots) /\ Once(ready')
      /\ \A x : InQueue(ready', x) <=> InQueue(ready, x) \/ x = size
  <2>1. ready \in Seq(Slots) /\ Once(ready) /\ ready' = Append(ready, size)
    BY <1>0 DEF TypeOK, Ownership, QueuesOnce
  <2> QED BY ONLY <1>1, <1>2, <2>1, AppendQueue
<1>10. TypeOK'
  BY <1>0, <1>1, <1>3 DEF TypeOK, CPC, RPC, Phases
<1>11. QueuesOnce'
  BY <1>0, <1>3 DEF TypeOK, QueuesOnce, Ownership
<1>12. ReadyIsQueued'
  BY <1>0, <1>1, <1>3 DEF TypeOK, ReadyIsQueued, Ownership
<1>13. InUseIsHeld'
  BY <1>0, <1>1 DEF TypeOK, InUseIsHeld, Ownership
<1>14. ResettingIsQueuedOrHeld'
  BY <1>0, <1>1 DEF TypeOK, ResettingIsQueuedOrHeld, Ownership
<1>15. HoldersAreThere'
  BY <1>0 DEF TypeOK, HoldersAreThere
<1>16. NewBeyondSize'
  BY <1>0, <1>1, <1>3 DEF TypeOK, NewBeyondSize
<1>17. CleanWhenIdle'
  BY <1>0, <1>1, <1>3 DEF TypeOK, CleanWhenIdle
<1>18. ColdIsUntouched'
  BY <1>0, <1>1, <1>3 DEF TypeOK, ColdIsUntouched
<1> QED BY <1>10, <1>11, <1>12, <1>13, <1>14, <1>15, <1>16, <1>17, <1>18 DEF IInv, Ownership

\* The front of the ready queue changes hands.
LEMMA TakeKeeps ==
    ASSUME IInv, NEW c \in Clients, Take(c)
    PROVE  IInv'
<1> USE ConstantFacts DEF Take, poolVars, clientVars, resetterVars, callerVars
<1>0. TypeOK /\ Ownership /\ HoldersAreThere /\ NewBeyondSize /\ CleanWhenIdle
      /\ ColdIsUntouched
  BY DEF IInv
<1> DEFINE s == Head(ready)
<1>1. s \in Slots /\ slotState[s] = Ready
  BY <1>0, PopQueue DEF TypeOK, Ownership, ReadyIsQueued
<1>2. /\ ready' \in Seq(Slots) /\ Once(ready') /\ ~ InQueue(ready', s)
      /\ \A x : InQueue(ready, x) <=> x = s \/ InQueue(ready', x)
  BY <1>0, PopQueue DEF TypeOK, Ownership, QueuesOnce
<1>3. cslot[c] = None /\ \A d \in Clients : cslot[d] # s
  <2>1. cslot[c] = None BY <1>0 DEF HoldersAreThere
  <2>2. \A d \in Clients : cslot[d] # s
    BY <1>0, <1>1 DEF Ownership, InUseIsHeld
  <2> QED BY <2>1, <2>2
<1> HIDE DEF s
<1>4. /\ slotState' = [slotState EXCEPT ![s] = InUse]
      /\ cslot' = [cslot EXCEPT ![c] = s]
  BY DEF s
<1>10. TypeOK'
  BY <1>0, <1>1, <1>2, <1>4 DEF TypeOK, CPC, RPC, Phases
<1>11. QueuesOnce'
  BY <1>0, <1>2 DEF TypeOK, QueuesOnce, Ownership
<1>12. ReadyIsQueued'
  BY <1>0, <1>1, <1>2, <1>4 DEF TypeOK, ReadyIsQueued, Ownership
<1>13. InUseIsHeld'
  BY <1>0, <1>1, <1>3, <1>4 DEF TypeOK, InUseIsHeld, Ownership
<1>14. ResettingIsQueuedOrHeld'
  BY <1>0, <1>1, <1>4 DEF TypeOK, ResettingIsQueuedOrHeld, Ownership
<1>15. HoldersAreThere'
  BY <1>0, <1>1, <1>4 DEF TypeOK, HoldersAreThere
<1>16. NewBeyondSize'
  BY <1>0, <1>1, <1>4 DEF TypeOK, NewBeyondSize
<1>17. CleanWhenIdle'
  BY <1>0, <1>1, <1>4 DEF TypeOK, CleanWhenIdle
<1>18. ColdIsUntouched'
  BY <1>0, <1>1, <1>4 DEF TypeOK, ColdIsUntouched
<1> QED BY <1>10, <1>11, <1>12, <1>13, <1>14, <1>15, <1>16, <1>17, <1>18 DEF IInv, Ownership

\* The body dirties a slot its client holds, hence no idle one.
LEMMA RunKeeps ==
    ASSUME IInv, NEW c \in Clients, Run(c)
    PROVE  IInv'
<1> USE ConstantFacts DEF Run, poolVars, clientVars, resetterVars, callerVars
<1>0. TypeOK /\ Ownership /\ HoldersAreThere /\ NewBeyondSize /\ CleanWhenIdle
      /\ ColdIsUntouched
  BY DEF IInv
<1>1. cslot[c] \in Slots /\ slotState[cslot[c]] = InUse
  BY <1>0 DEF TypeOK, HoldersAreThere, Ownership, InUseIsHeld
<1>2. \A r \in Resetters : rslot[r] # cslot[c]
  BY <1>0, <1>1 DEF TypeOK, Ownership, ResettingIsQueuedOrHeld
<1>10. TypeOK'
  BY <1>0, <1>1 DEF TypeOK, CPC, RPC, Phases
<1>11. QueuesOnce'
  BY <1>0 DEF TypeOK, QueuesOnce, Ownership
<1>12. ReadyIsQueued'
  BY <1>0 DEF TypeOK, ReadyIsQueued, Ownership
<1>13. InUseIsHeld'
  BY <1>0 DEF TypeOK, InUseIsHeld, Ownership
<1>14. ResettingIsQueuedOrHeld'
  BY <1>0 DEF TypeOK, ResettingIsQueuedOrHeld, Ownership
<1>15. HoldersAreThere'
  BY <1>0 DEF TypeOK, HoldersAreThere, Ownership
<1>16. NewBeyondSize'
  BY <1>0 DEF TypeOK, NewBeyondSize, Ownership
<1>17. CleanWhenIdle'
  BY <1>0, <1>1, <1>2 DEF TypeOK, CleanWhenIdle
<1>18. ColdIsUntouched'
  BY <1>0 DEF TypeOK, ColdIsUntouched, Ownership
<1> QED BY <1>10, <1>11, <1>12, <1>13, <1>14, <1>15, <1>16, <1>17, <1>18 DEF IInv, Ownership

\* A released slot leaves its client for the dirty queue.
LEMMA ReleaseKeeps ==
    ASSUME IInv, NEW c \in Clients, Release(c)
    PROVE  IInv'
<1> USE ConstantFacts DEF Release, poolVars, clientVars, resetterVars, callerVars
<1>0. TypeOK /\ Ownership /\ HoldersAreThere /\ NewBeyondSize /\ CleanWhenIdle
      /\ ColdIsUntouched
  BY DEF IInv
<1> DEFINE s == cslot[c]
<1>1. s \in Slots /\ slotState[s] = InUse
  BY <1>0 DEF TypeOK, HoldersAreThere, Ownership, InUseIsHeld
<1>2. ~ InQueue(dirty, s) /\ \A r \in Resetters : rslot[r] # s
  BY <1>0, <1>1 DEF TypeOK, Ownership, ResettingIsQueuedOrHeld
<1>3. /\ dirty' \in Seq(Slots) /\ Once(dirty')
      /\ \A x : InQueue(dirty', x) <=> InQueue(dirty, x) \/ x = s
  <2>1. dirty \in Seq(Slots) /\ Once(dirty) /\ dirty' = Append(dirty, s)
    BY <1>0, <1>1 DEF TypeOK, Ownership, QueuesOnce
  <2> QED BY ONLY <1>1, <1>2, <2>1, AppendQueue
<1>4. \A d \in Clients : cslot[d] = s => d = c
  BY <1>0, <1>1 DEF TypeOK, Ownership, InUseIsHeld
<1>5. /\ slotState' = [slotState EXCEPT ![s] = Resetting]
      /\ cpc' = [cpc EXCEPT ![c] = "notify"]
      /\ cslot' = [cslot EXCEPT ![c] = None]
  BY <1>1
<1> HIDE DEF s
<1>10. TypeOK'
  BY <1>0, <1>1, <1>3, <1>5 DEF TypeOK, CPC, RPC, Phases
<1>11. QueuesOnce'
  BY <1>0, <1>3 DEF TypeOK, QueuesOnce, Ownership
<1>12. ReadyIsQueued'
  BY <1>0, <1>1, <1>5 DEF TypeOK, ReadyIsQueued, Ownership
<1>13. InUseIsHeld'
  BY <1>0, <1>1, <1>4, <1>5 DEF TypeOK, InUseIsHeld, Ownership
<1>14. ResettingIsQueuedOrHeld'
  BY <1>0, <1>1, <1>2, <1>3, <1>5 DEF TypeOK, ResettingIsQueuedOrHeld, Ownership
<1>15. HoldersAreThere'
  BY <1>0, <1>1, <1>5 DEF TypeOK, HoldersAreThere
<1>16. NewBeyondSize'
  BY <1>0, <1>1, <1>5 DEF TypeOK, NewBeyondSize
<1>17. CleanWhenIdle'
  BY <1>0, <1>1, <1>5 DEF TypeOK, CleanWhenIdle
<1>18. ColdIsUntouched'
  BY <1>0, <1>1, <1>5 DEF TypeOK, ColdIsUntouched
<1> QED BY <1>10, <1>11, <1>12, <1>13, <1>14, <1>15, <1>16, <1>17, <1>18 DEF IInv, Ownership

\* The front of the dirty queue passes to one reset thread.
LEMMA PopDirtyKeeps ==
    ASSUME IInv, NEW r \in Resetters, PopDirty(r)
    PROVE  IInv'
<1> USE ConstantFacts DEF PopDirty, poolVars, clientVars, resetterVars, callerVars
<1>0. TypeOK /\ Ownership /\ HoldersAreThere /\ NewBeyondSize /\ CleanWhenIdle
      /\ ColdIsUntouched
  BY DEF IInv
<1> DEFINE s == Head(dirty)
<1>1. s \in Slots /\ slotState[s] = Resetting
  BY <1>0, PopQueue DEF TypeOK, Ownership, ResettingIsQueuedOrHeld
<1>2. /\ dirty' \in Seq(Slots) /\ Once(dirty') /\ ~ InQueue(dirty', s)
      /\ \A x : InQueue(dirty, x) <=> x = s \/ InQueue(dirty', x)
  BY <1>0, PopQueue DEF TypeOK, Ownership, QueuesOnce
<1>3. rslot[r] = None /\ \A q \in Resetters : rslot[q] # s
  BY <1>0, <1>2 DEF TypeOK, HoldersAreThere, Ownership, ResettingIsQueuedOrHeld
<1>4. rslot' = [rslot EXCEPT ![r] = s]
  OBVIOUS
<1>5. ~ InQueue(dirty', None)
  BY <1>0, <1>2, QueuedInSet DEF TypeOK
<1> HIDE DEF s
<1>10. TypeOK'
  BY <1>0, <1>1, <1>2, <1>4 DEF TypeOK, CPC, RPC, Phases
<1>11. QueuesOnce'
  BY <1>0, <1>2 DEF TypeOK, QueuesOnce, Ownership
<1>12. ReadyIsQueued'
  BY <1>0 DEF TypeOK, ReadyIsQueued, Ownership
<1>13. InUseIsHeld'
  BY <1>0 DEF TypeOK, InUseIsHeld, Ownership
<1>14. ResettingIsQueuedOrHeld'
  BY <1>0, <1>1, <1>2, <1>3, <1>4, <1>5 DEF TypeOK, ResettingIsQueuedOrHeld, Ownership
<1>15. HoldersAreThere'
  BY <1>0, <1>1, <1>4 DEF TypeOK, HoldersAreThere
<1>16. NewBeyondSize'
  BY <1>0 DEF TypeOK, NewBeyondSize, Ownership
<1>17. CleanWhenIdle'
  BY <1>0, <1>4 DEF TypeOK, CleanWhenIdle
<1>18. ColdIsUntouched'
  BY <1>0 DEF TypeOK, ColdIsUntouched, Ownership
<1> QED BY <1>10, <1>11, <1>12, <1>13, <1>14, <1>15, <1>16, <1>17, <1>18 DEF IInv, Ownership

\* A reset thread cleans the slot it holds.
LEMMA ResetKeeps ==
    ASSUME IInv, NEW r \in Resetters, Reset(r)
    PROVE  IInv'
<1> USE ConstantFacts DEF Reset, poolVars, clientVars, resetterVars, callerVars
<1>0. TypeOK /\ Ownership /\ HoldersAreThere /\ NewBeyondSize /\ CleanWhenIdle
      /\ ColdIsUntouched
  BY DEF IInv
<1>1. rslot[r] \in Slots
  BY <1>0 DEF TypeOK, HoldersAreThere
<1>10. TypeOK'
  BY <1>0, <1>1 DEF TypeOK, CPC, RPC, Phases
<1>11. QueuesOnce'
  BY <1>0 DEF TypeOK, QueuesOnce, Ownership
<1>12. ReadyIsQueued'
  BY <1>0 DEF TypeOK, ReadyIsQueued, Ownership
<1>13. InUseIsHeld'
  BY <1>0 DEF TypeOK, InUseIsHeld, Ownership
<1>14. ResettingIsQueuedOrHeld'
  BY <1>0 DEF TypeOK, ResettingIsQueuedOrHeld, Ownership
<1>15. HoldersAreThere'
  BY <1>0 DEF TypeOK, HoldersAreThere, Ownership
<1>16. NewBeyondSize'
  BY <1>0 DEF TypeOK, NewBeyondSize, Ownership
<1>17. CleanWhenIdle'
  BY <1>0, <1>1 DEF TypeOK, CleanWhenIdle
<1>18. ColdIsUntouched'
  BY <1>0 DEF TypeOK, ColdIsUntouched, Ownership
<1> QED BY <1>10, <1>11, <1>12, <1>13, <1>14, <1>15, <1>16, <1>17, <1>18 DEF IInv, Ownership

\* A cleaned slot passes from its reset thread to the ready queue.
LEMMA PublishKeeps ==
    ASSUME IInv, NEW r \in Resetters, Publish(r)
    PROVE  IInv'
<1> USE ConstantFacts DEF Publish, poolVars, clientVars, resetterVars, callerVars
<1>0. TypeOK /\ Ownership /\ HoldersAreThere /\ NewBeyondSize /\ CleanWhenIdle
      /\ ColdIsUntouched
  BY DEF IInv
<1> DEFINE s == rslot[r]
<1>1. s \in Slots /\ slotState[s] = Resetting /\ clean[s]
  BY <1>0 DEF TypeOK, HoldersAreThere, CleanWhenIdle, Ownership,
              ResettingIsQueuedOrHeld
<1>2. /\ ~ InQueue(ready, s)
      /\ ~ InQueue(dirty, s)
      /\ \A q \in Resetters : rslot[q] = s => q = r
  BY <1>0, <1>1 DEF TypeOK, Ownership, ReadyIsQueued, ResettingIsQueuedOrHeld
<1>3. /\ ready' \in Seq(Slots) /\ Once(ready')
      /\ \A x : InQueue(ready', x) <=> InQueue(ready, x) \/ x = s
  <2>1. ready \in Seq(Slots) /\ Once(ready) /\ ready' = Append(ready, s)
    BY <1>0 DEF TypeOK, Ownership, QueuesOnce
  <2> QED BY ONLY <1>1, <1>2, <2>1, AppendQueue
<1>4. /\ slotState' = [slotState EXCEPT ![s] = Ready]
      /\ rslot' = [rslot EXCEPT ![r] = None]
  OBVIOUS
<1>5. ~ InQueue(dirty', None)
  BY <1>0, QueuedInSet DEF TypeOK
<1> HIDE DEF s
<1>10. TypeOK'
  BY <1>0, <1>1, <1>3, <1>4 DEF TypeOK, CPC, RPC, Phases
<1>11. QueuesOnce'
  BY <1>0, <1>3 DEF TypeOK, QueuesOnce, Ownership
<1>12. ReadyIsQueued'
  BY <1>0, <1>1, <1>3, <1>4 DEF TypeOK, ReadyIsQueued, Ownership
<1>13. InUseIsHeld'
  <2>1. \A x \in Slots : slotState'[x] = InUse <=> slotState[x] = InUse
    BY <1>0, <1>1, <1>4 DEF TypeOK
  <2>2. cslot' = cslot OBVIOUS
  <2> QED BY <1>0, <2>1, <2>2 DEF Ownership, InUseIsHeld
<1>14. ResettingIsQueuedOrHeld'
  BY <1>0, <1>1, <1>2, <1>4, <1>5 DEF TypeOK, ResettingIsQueuedOrHeld, Ownership
<1>15. HoldersAreThere'
  BY <1>0, <1>1, <1>4 DEF TypeOK, HoldersAreThere, Ownership
<1>16. NewBeyondSize'
  BY <1>0, <1>1, <1>4 DEF TypeOK, NewBeyondSize, Ownership
<1>17. CleanWhenIdle'
  BY <1>0, <1>1, <1>4 DEF TypeOK, CleanWhenIdle, Ownership
<1>18. ColdIsUntouched'
  BY <1>0, <1>1, <1>4 DEF TypeOK, ColdIsUntouched, Ownership
<1> QED BY <1>10, <1>11, <1>12, <1>13, <1>14, <1>15, <1>16, <1>17, <1>18 DEF IInv, Ownership

\* A notify of ready_cv wakes at most one client or the caller.
LEMMA NotifyReadyKeeps ==
    ASSUME IInv, NEW r \in Resetters, NotifyReady(r)
    PROVE  IInv'
<1> USE ConstantFacts DEF NotifyReady, poolVars, clientVars, resetterVars, callerVars
<1>1. CASE phase = "blocked" /\ phase' = "settle" /\ UNCHANGED cpc
  <2>1. TypeOK'
    BY <1>1 DEF IInv, TypeOK, CPC, RPC, Phases, ReadyWaiters
  <2>2. HoldersAreThere'
    BY <1>1 DEF IInv, TypeOK, HoldersAreThere, ReadyWaiters
  <2>3. ColdIsUntouched'
    BY <1>1 DEF IInv, TypeOK, ColdIsUntouched, ReadyWaiters
  <2>4. \A q \in Resetters : rpc'[q] = "publish" => rpc[q] = "publish"
    BY <1>1 DEF IInv, TypeOK, ReadyWaiters
  <2> QED BY <2>1, <2>2, <2>3, <2>4, <1>1, ControlStepKeeps
<1>2. CASE (\E c \in ReadyWaiters : cpc' = [cpc EXCEPT ![c] = "recheck"]) /\ UNCHANGED phase
  <2>1. TypeOK'
    BY <1>2 DEF IInv, TypeOK, CPC, RPC, Phases, ReadyWaiters
  <2>2. HoldersAreThere'
    BY <1>2 DEF IInv, TypeOK, HoldersAreThere, ReadyWaiters
  <2>3. ColdIsUntouched'
    BY <1>2 DEF IInv, TypeOK, ColdIsUntouched, ReadyWaiters
  <2>4. \A q \in Resetters : rpc'[q] = "publish" => rpc[q] = "publish"
    BY <1>2 DEF IInv, TypeOK, ReadyWaiters
  <2> QED BY <2>1, <2>2, <2>3, <2>4, <1>2, ControlStepKeeps
<1>3. CASE UNCHANGED <<phase, cpc>>
  <2>1. TypeOK'
    BY <1>3 DEF IInv, TypeOK, CPC, RPC, Phases, ReadyWaiters
  <2>2. HoldersAreThere'
    BY <1>3 DEF IInv, TypeOK, HoldersAreThere, ReadyWaiters
  <2>3. ColdIsUntouched'
    BY <1>3 DEF IInv, TypeOK, ColdIsUntouched, ReadyWaiters
  <2>4. \A q \in Resetters : rpc'[q] = "publish" => rpc[q] = "publish"
    BY <1>3 DEF IInv, TypeOK, ReadyWaiters
  <2> QED BY <2>1, <2>2, <2>3, <2>4, <1>3, ControlStepKeeps
<1> QED BY <1>1, <1>2, <1>3

\* A spurious wake-up only makes a thread look again.
LEMMA SpuriousWakeKeeps ==
    ASSUME IInv, SpuriousWake
    PROVE  IInv'
<1> USE ConstantFacts DEF SpuriousWake, poolVars, clientVars, resetterVars, callerVars
<1>1. CASE (\E c \in ReadyWaiters : cpc' = [cpc EXCEPT ![c] = "recheck"])
          /\ UNCHANGED <<poolVars, cslot, resetterVars, callerVars>>
  <2>1. TypeOK'
    BY <1>1 DEF IInv, TypeOK, CPC, RPC, Phases, ReadyWaiters, WorkWaiters
  <2>2. HoldersAreThere'
    BY <1>1 DEF IInv, TypeOK, HoldersAreThere, ReadyWaiters, WorkWaiters
  <2>3. ColdIsUntouched'
    BY <1>1 DEF IInv, TypeOK, ColdIsUntouched, ReadyWaiters, WorkWaiters
  <2>4. \A q \in Resetters : rpc'[q] = "publish" => rpc[q] = "publish"
    BY <1>1 DEF IInv, TypeOK, ReadyWaiters, WorkWaiters
  <2> QED BY <2>1, <2>2, <2>3, <2>4, <1>1, ControlStepKeeps
<1>2. CASE (\E r \in WorkWaiters : rpc' = [rpc EXCEPT ![r] = "check"])
          /\ UNCHANGED <<poolVars, clientVars, rslot, callerVars>>
  <2>1. TypeOK'
    BY <1>2 DEF IInv, TypeOK, CPC, RPC, Phases, ReadyWaiters, WorkWaiters
  <2>2. HoldersAreThere'
    BY <1>2 DEF IInv, TypeOK, HoldersAreThere, ReadyWaiters, WorkWaiters
  <2>3. ColdIsUntouched'
    BY <1>2 DEF IInv, TypeOK, ColdIsUntouched, ReadyWaiters, WorkWaiters
  <2>4. \A q \in Resetters : rpc'[q] = "publish" => rpc[q] = "publish"
    BY <1>2 DEF IInv, TypeOK, ReadyWaiters, WorkWaiters
  <2> QED BY <2>1, <2>2, <2>3, <2>4, <1>2, ControlStepKeeps
<1>3. CASE phase = "blocked" /\ phase' = "settle"
          /\ UNCHANGED <<poolVars, clientVars, resetterVars, todo>>
  <2>1. TypeOK'
    BY <1>3 DEF IInv, TypeOK, CPC, RPC, Phases, ReadyWaiters, WorkWaiters
  <2>2. HoldersAreThere'
    BY <1>3 DEF IInv, TypeOK, HoldersAreThere, ReadyWaiters, WorkWaiters
  <2>3. ColdIsUntouched'
    BY <1>3 DEF IInv, TypeOK, ColdIsUntouched, ReadyWaiters, WorkWaiters
  <2>4. \A q \in Resetters : rpc'[q] = "publish" => rpc[q] = "publish"
    BY <1>3 DEF IInv, TypeOK, ReadyWaiters, WorkWaiters
  <2> QED BY <2>1, <2>2, <2>3, <2>4, <1>3, ControlStepKeeps
<1> QED BY <1>1, <1>2, <1>3

\* A stuttering step keeps it.
LEMMA StutterKeeps ==
    ASSUME IInv, UNCHANGED vars
    PROVE  IInv'
<1> USE DEF vars, poolVars, clientVars, resetterVars, callerVars
<1>1. TypeOK' BY DEF IInv, TypeOK
<1>2. HoldersAreThere' BY DEF IInv, HoldersAreThere
<1>3. ColdIsUntouched' BY DEF IInv, ColdIsUntouched
<1> QED BY <1>1, <1>2, <1>3, ControlStepKeeps

\* The inductive invariant holds in every reachable state.
THEOREM Invariance == Spec => []IInv
<1>1. IInv /\ [Next]_vars => IInv'
  <2> SUFFICES ASSUME IInv, [Next]_vars PROVE IInv' OBVIOUS
  <2>1. CASE CallerStep
    BY <2>1, PrewarmKeeps, SkipPrewarmKeeps, StartDecodeKeeps, SettleKeeps
    DEF CallerStep
  <2>2. ASSUME NEW c \in Clients, ClientStep(c) PROVE IInv'
    BY <2>2, BeginTaskKeeps, GrowKeeps, BlockKeeps, TakeKeeps, RunKeeps,
       ReleaseKeeps, NotifyWorkKeeps DEF ClientStep
  <2>3. ASSUME NEW r \in Resetters, ResetterStep(r) PROVE IInv'
    BY <2>3, PopDirtyKeeps, BlockWorkKeeps, ResetKeeps, PublishKeeps,
       NotifyReadyKeeps DEF ResetterStep
  <2>4. CASE SpuriousWake BY <2>4, SpuriousWakeKeeps
  <2>5. CASE UNCHANGED vars BY <2>5, StutterKeeps
  <2> QED BY <2>1, <2>2, <2>3, <2>4, <2>5 DEF Next
<1> QED BY <1>1, InitEstablishes, PTL DEF Spec

\* slot_states, the two queues and the threads' holdings always agree, for
\* any number of threads, slots and tasks (cluster_subgraph.cc 520-808).
THEOREM OwnershipHolds == Spec => []Ownership
BY Invariance, PTL DEF IInv

\* Every field of the pool and every thread stays within its type.
THEOREM TypesHold == Spec => []TypeOK
BY Invariance, PTL DEF IInv

\* Only Take brings a slot into use, and it takes from the ready queue, whose
\* slots are clean.
THEOREM HandoutIsClean == Spec => CleanHandout
<1> DEFINE P == \A s \in Slots :
                  slotState[s] # InUse /\ slotState'[s] = InUse => clean[s]
<1>1. IInv /\ [Next]_vars => [P]_vars
  <2> SUFFICES ASSUME IInv, Next, NEW s \in Slots,
                      slotState[s] # InUse, slotState'[s] = InUse
               PROVE  clean[s]
    OBVIOUS
  <2> USE ConstantFacts DEF poolVars, clientVars, resetterVars, callerVars
  <2>1. TypeOK /\ Ownership /\ CleanWhenIdle BY DEF IInv
  <2>2. CASE CallerStep
    BY <2>1, <2>2 DEF CallerStep, Prewarm, SkipPrewarm, StartDecode, Settle,
                      TypeOK
  <2>3. ASSUME NEW c \in Clients, ClientStep(c) PROVE clean[s]
    <3>1. CASE Take(c)
      <4>1. slotState[Head(ready)] = Ready
        BY <2>1, <3>1, PopQueue DEF Take, TypeOK, Ownership, ReadyIsQueued
      <4>2. s = Head(ready)
        BY <2>1, <3>1 DEF Take, TypeOK
      <4> QED BY <2>1, <4>1, <4>2 DEF CleanWhenIdle
    <3>2. CASE ~ Take(c)
      BY <2>1, <2>3, <3>2 DEF ClientStep, BeginTask, Grow, Block, Run, Release,
                              NotifyWork, TypeOK
    <3> QED BY <3>1, <3>2
  <2>4. ASSUME NEW r \in Resetters, ResetterStep(r) PROVE clean[s]
    BY <2>1, <2>4 DEF ResetterStep, PopDirty, BlockWork, Reset, Publish,
                      NotifyReady, TypeOK
  <2>5. CASE SpuriousWake BY <2>5 DEF SpuriousWake
  <2> QED BY <2>2, <2>3, <2>4, <2>5 DEF Next
<1> QED BY <1>1, Invariance, PTL DEF Spec, CleanHandout

-----------------------------------------------------------------------------
(* The pool implements ResourcePool.                                       *)

\* What PoolOwner says of each slot; a held slot is owned by its one holder.
OwnerSays ==
    \A s \in Slots :
        /\ slotState[s] = New => PoolOwner[s] = "absent"
        /\ slotState[s] = Ready => PoolOwner[s] = "free"
        /\ slotState[s] = Resetting => PoolOwner[s] = "dirty"
        /\ \A c \in Clients : cslot[c] = s => PoolOwner[s] = c

LEMMA OwnerFacts == IInv => OwnerSays
<1> SUFFICES ASSUME IInv PROVE OwnerSays OBVIOUS
<1>1. ASSUME NEW s \in Slots, NEW c \in Clients, cslot[c] = s
      PROVE  slotState[s] = InUse /\ LentTo(s) = c
  <2>1. slotState[s] = InUse /\ \A d \in Clients : cslot[d] = s => d = c
    BY <1>1, ConstantFacts DEF IInv, Ownership, InUseIsHeld
  <2>2. LentTo(s) \in Clients /\ cslot[LentTo(s)] = s
    BY <1>1 DEF LentTo
  <2> QED BY <2>1, <2>2
<1> QED BY <1>1 DEF PoolOwner, OwnerSays

\* A slot whose state and holder do not change keeps its owner.
LEMMA SameOwner ==
    ASSUME IInv, IInv', NEW s \in Slots, slotState'[s] = slotState[s],
           \A c \in Clients : cslot[c] = s => cslot'[c] = s
    PROVE  PoolOwner'[s] = PoolOwner[s]
<1>1. OwnerSays BY OwnerFacts
<1>2. OwnerSays' BY OwnerFacts, PTL
<1>3. slotState[s] \in {New, Ready, InUse, Resetting}
  <2>1. slotState \in [Slots -> New..Resetting] BY DEF IInv, TypeOK
  <2> QED BY <2>1
<1>4. CASE slotState[s] = InUse
  <2>1. PICK c \in Clients : cslot[c] = s
    BY <1>4 DEF IInv, Ownership, InUseIsHeld
  <2> QED BY <2>1, <1>1, <1>2 DEF OwnerSays
<1>5. CASE slotState[s] # InUse
  BY <1>1, <1>2, <1>3, <1>5 DEF OwnerSays
<1> QED BY <1>4, <1>5

\* A step that leaves slots, holders and cleanliness alone is a stutter.
LEMMA ControlStutters ==
    ASSUME UNCHANGED <<slotState, cslot, clean>>
    PROVE  UNCHANGED Promise!rvars
BY DEF PoolOwner, LentTo, Promise!rvars

\* Two owner functions that differ at one slot.
LEMMA OwnerChanges ==
    ASSUME NEW t \in Slots, NEW v, PoolOwner'[t] = v,
           \A s \in Slots \ {t} : PoolOwner'[s] = PoolOwner[s]
    PROVE  PoolOwner' = [PoolOwner EXCEPT ![t] = v]
<1>1. PoolOwner = [s \in Slots |-> PoolOwner[s]] BY DEF PoolOwner
<1>2. PoolOwner' = [s \in Slots |-> PoolOwner'[s]] BY DEF PoolOwner
<1> HIDE DEF PoolOwner
<1> QED BY <1>1, <1>2

\* Each step of the pool is a step of ResourcePool or a stutter.
LEMMA StepRefines ==
    ASSUME IInv, IInv', [Next]_vars
    PROVE  [Promise!RNext]_Promise!rvars
<1> USE ConstantFacts DEF poolVars, clientVars, resetterVars, callerVars
<1>1. TypeOK /\ Ownership /\ HoldersAreThere /\ NewBeyondSize
      /\ CleanWhenIdle /\ ColdIsUntouched /\ OwnerSays
  BY OwnerFacts DEF IInv
<1>2. OwnerSays' BY OwnerFacts, PTL
<1>3. PoolOwner = [s \in Slots |-> PoolOwner[s]] /\ PoolOwner' = [s \in Slots |-> PoolOwner'[s]]
  BY DEF PoolOwner
<1>4. CASE Prewarm
  <2>1. \A s \in Slots : slotState[s] = New
    BY <1>1, <1>4 DEF TypeOK, NewBeyondSize, ColdIsUntouched, Prewarm
  <2>2. \A s \in Slots : PoolOwner[s] = "absent" /\ PoolOwner'[s] = "free"
    BY <2>1, <1>1, <1>2, <1>4 DEF OwnerSays, Prewarm
  <2>3. Slots = {s \in Slots : PoolOwner[s] = "absent"} BY <2>2
  <2>4. PoolOwner' = [s \in Slots |-> IF s \in Slots THEN "free" ELSE PoolOwner[s]]
    BY <2>2, <1>3
  <2>5. clean' = clean BY <1>4 DEF Prewarm
  <2> HIDE DEF Slots
  <2> QED BY <2>3, <2>4, <2>5 DEF Promise!RNext, Promise!Build
<1>5. ASSUME NEW c \in Clients, Grow(c) PROVE Promise!Build
  <2>1. size \in Slots /\ slotState[size] = New /\ slotState'[size] = Ready
    BY <1>1, <1>5 DEF TypeOK, NewBeyondSize, Grow
  <2>2. PoolOwner[size] = "absent" /\ PoolOwner'[size] = "free"
    BY <2>1, <1>1, <1>2 DEF OwnerSays
  <2>3. \A s \in Slots \ {size} : PoolOwner'[s] = PoolOwner[s]
    BY <1>1, <1>5, SameOwner DEF TypeOK, Grow
  <2>4. PoolOwner' = [s \in Slots |-> IF s \in {size} THEN "free" ELSE PoolOwner[s]]
    BY <2>1, <2>2, <2>3, <1>3
  <2>5. {size} \in SUBSET {s \in Slots : PoolOwner[s] = "absent"}
    BY <2>1, <2>2
  <2>6. clean' = clean BY <1>5 DEF Grow
  <2> QED BY <2>4, <2>5, <2>6 DEF Promise!Build
<1>6. ASSUME NEW c \in Clients, Take(c)
      PROVE  \E s \in Slots : Promise!Lend(c, s)
  <2> DEFINE t == Head(ready)
  <2>1. t \in Slots /\ slotState[t] = Ready /\ clean[t]
    BY <1>1, <1>6, PopQueue DEF TypeOK, Ownership, ReadyIsQueued, CleanWhenIdle, Take
  <2>2. cslot' = [cslot EXCEPT ![c] = t] /\ slotState' = [slotState EXCEPT ![t] = InUse]
        /\ clean' = clean
    BY <1>6 DEF Take
  <2>3. cslot[c] = None BY <1>1, <1>6 DEF HoldersAreThere, Take
  <2> HIDE DEF t
  <2>4. PoolOwner[t] = "free" /\ PoolOwner'[t] = c
    BY <2>1, <2>2, <1>1, <1>2 DEF OwnerSays, TypeOK
  <2>5. \A s \in Slots \ {t} : PoolOwner'[s] = PoolOwner[s]
    BY <2>2, <2>3, <1>1, SameOwner DEF TypeOK
  <2>6. PoolOwner' = [PoolOwner EXCEPT ![t] = c]
    BY <2>1, <2>4, <2>5, OwnerChanges
  <2> QED BY <2>1, <2>2, <2>4, <2>6 DEF Promise!Lend
<1>7. ASSUME NEW c \in Clients, Run(c)
      PROVE  \E s \in Slots : Promise!Use(c, s)
  <2>1. cslot[c] \in Slots BY <1>1, <1>7 DEF TypeOK, HoldersAreThere, Run
  <2>2. PoolOwner[cslot[c]] = c BY <2>1, <1>1 DEF OwnerSays
  <2>3. PoolOwner' = PoolOwner BY <1>7 DEF Run, PoolOwner, LentTo
  <2> QED BY <2>1, <2>2, <2>3, <1>7 DEF Run, Promise!Use
<1>8. ASSUME NEW c \in Clients, Release(c)
      PROVE  \E s \in Slots : Promise!Return(c, s)
  <2> DEFINE t == cslot[c]
  <2>1. t \in Slots /\ slotState[t] = InUse
    BY <1>1, <1>8 DEF TypeOK, HoldersAreThere, Ownership, InUseIsHeld, Release
  <2>2. cslot' = [cslot EXCEPT ![c] = None] /\ clean' = clean
        /\ slotState' = [slotState EXCEPT ![t] = Resetting]
    BY <2>1, <1>8 DEF Release
  <2>3. PoolOwner[t] = c /\ PoolOwner'[t] = "dirty"
    BY <2>1, <2>2, <1>1, <1>2 DEF OwnerSays, TypeOK
  <2>4. \A s \in Slots \ {t} : PoolOwner'[s] = PoolOwner[s]
    BY <2>2, <1>1, SameOwner DEF TypeOK
  <2> HIDE DEF t
  <2>5. PoolOwner' = [PoolOwner EXCEPT ![t] = "dirty"]
    BY <2>1, <2>3, <2>4, OwnerChanges
  <2> QED BY <2>1, <2>2, <2>3, <2>5 DEF Promise!Return
<1>9. ASSUME NEW r \in Resetters, Reset(r)
      PROVE  \E s \in Slots : Promise!Clean(s)
  <2>1. rslot[r] \in Slots /\ slotState[rslot[r]] = Resetting
    BY <1>1, <1>9 DEF TypeOK, HoldersAreThere, Ownership,
                      ResettingIsQueuedOrHeld, Reset
  <2>2. PoolOwner[rslot[r]] = "dirty" BY <2>1, <1>1 DEF OwnerSays
  <2>3. PoolOwner' = PoolOwner BY <1>9 DEF Reset, PoolOwner, LentTo
  <2> QED BY <2>1, <2>2, <2>3, <1>9 DEF Reset, Promise!Clean
<1>10. ASSUME NEW r \in Resetters, Publish(r)
       PROVE  \E s \in Slots : Promise!Offer(s)
  <2> DEFINE t == rslot[r]
  <2>1. t \in Slots /\ slotState[t] = Resetting /\ clean[t]
    BY <1>1, <1>10 DEF TypeOK, HoldersAreThere, Ownership, CleanWhenIdle,
                       ResettingIsQueuedOrHeld, Publish
  <2>2. cslot' = cslot /\ clean' = clean /\ slotState' = [slotState EXCEPT ![t] = Ready]
    BY <1>10 DEF Publish
  <2>3. PoolOwner[t] = "dirty" /\ PoolOwner'[t] = "free"
    BY <2>1, <2>2, <1>1, <1>2 DEF OwnerSays, TypeOK
  <2>4. \A s \in Slots \ {t} : PoolOwner'[s] = PoolOwner[s]
    BY <2>2, <1>1, SameOwner DEF TypeOK
  <2> HIDE DEF t
  <2>5. PoolOwner' = [PoolOwner EXCEPT ![t] = "free"]
    BY <2>1, <2>3, <2>4, OwnerChanges
  <2> QED BY <2>1, <2>2, <2>3, <2>5 DEF Promise!Offer
<1>11. CASE UNCHANGED <<slotState, cslot, clean>>
  BY <1>11, ControlStutters
<1>12. CASE CallerStep
  BY <1>12, <1>4, <1>11 DEF CallerStep, SkipPrewarm, StartDecode, Settle
<1>13. ASSUME NEW c \in Clients, ClientStep(c)
       PROVE  [Promise!RNext]_Promise!rvars
  <2>1. CASE BeginTask(c) \/ Block(c) \/ NotifyWork(c)
    BY <2>1, <1>11 DEF BeginTask, Block, NotifyWork
  <2> QED BY <2>1, <1>13, <1>5, <1>6, <1>7, <1>8 DEF ClientStep, Promise!RNext
<1>14. ASSUME NEW r \in Resetters, ResetterStep(r)
       PROVE  [Promise!RNext]_Promise!rvars
  <2>1. CASE PopDirty(r) \/ BlockWork(r) \/ NotifyReady(r)
    BY <2>1, <1>11 DEF PopDirty, BlockWork, NotifyReady
  <2> QED BY <2>1, <1>14, <1>9, <1>10 DEF ResetterStep, Promise!RNext
<1>15. CASE SpuriousWake BY <1>15, <1>11 DEF SpuriousWake
<1>16. CASE UNCHANGED vars BY <1>16, <1>11 DEF vars
<1> QED BY <1>12, <1>13, <1>14, <1>15, <1>16 DEF Next

\* The pool of MWPM states keeps the promise of ResourcePool: a state has one
\* user at a time and is clean for each of them.
THEOREM PoolKeepsPromise == Spec => KeepsPromise
<1>1. Init => Promise!RInit
  BY ConstantFacts DEF Init, Promise!RInit, PoolOwner
<1> QED BY <1>1, StepRefines, Invariance, PTL DEF Spec, KeepsPromise, Promise!RSpec
-----------------------------------------------------------------------------
(* Wake-ups.  That none is lost depends on two facts about the rest of the *)
(* pool: a slot is never added while a client waits for one, and the       *)
(* caller, whose settle wait shares ready_cv with the clients and could    *)
(* take their notify, waits only while there are none.                     *)

Rechecking == {c \in Clients : cpc[c] = "recheck"}
Notifying == {c \in Clients : cpc[c] = "notify"}
Publishing == {r \in Resetters : rpc[r] = "notify"}
Checking == {r \in Resetters : rpc[r] = "check"}

WaitersSawAllSlots ==
    (\E c \in Clients : cpc[c] \in {"waiting", "recheck"}) =>
        configured # 0 /\ size >= configured

CallerWaitsAlone == phase \in {"settle", "blocked"} => Quiet

ReadyWakeups ==
    ReadyWaiters # {} =>
        Len(ready) =< Cardinality(Publishing) + Cardinality(Rechecking)

WorkWakeups ==
    WorkWaiters # {} =>
        Len(dirty) =< Cardinality(Notifying) + Cardinality(Checking)

WInv ==
    /\ WaitersSawAllSlots
    /\ CallerWaitsAlone
    /\ ReadyWakeups
    /\ WorkWakeups

-----------------------------------------------------------------------------
(* Counting.                                                               *)

\* What one more or one less element does to the size of a finite set.
LEMMA OneMoreOrLess ==
    ASSUME NEW S, IsFiniteSet(S), NEW x
    PROVE  /\ Cardinality(S) \in Nat
           /\ Cardinality(S \cup {x}) = IF x \in S THEN Cardinality(S)
                                        ELSE Cardinality(S) + 1
           /\ Cardinality(S \ {x}) = IF x \in S THEN Cardinality(S) - 1
                                     ELSE Cardinality(S)
BY FS_CardinalityType, FS_AddElement, FS_RemoveElement

\* The threads that are about to notify or to look at a queue can be counted.
LEMMA ThreadsAreFinite ==
    /\ IsFiniteSet(Rechecking) /\ IsFiniteSet(Notifying)
    /\ IsFiniteSet(Publishing) /\ IsFiniteSet(Checking)
    /\ Cardinality(Rechecking) \in Nat /\ Cardinality(Notifying) \in Nat
    /\ Cardinality(Publishing) \in Nat /\ Cardinality(Checking) \in Nat
<1>1. IsFiniteSet(Clients) /\ IsFiniteSet(Resetters) BY PoolAssumption
<1>2. /\ Rechecking \subseteq Clients /\ Notifying \subseteq Clients
      /\ Publishing \subseteq Resetters /\ Checking \subseteq Resetters
  BY DEF Rechecking, Notifying, Publishing, Checking
<1>3. /\ IsFiniteSet(Rechecking) /\ IsFiniteSet(Notifying)
      /\ IsFiniteSet(Publishing) /\ IsFiniteSet(Checking)
  BY ONLY <1>1, <1>2, FS_Subset
<1> QED BY ONLY <1>3, FS_CardinalityType

\* How long the queues are after an append or a pop.
LEMMA QueueLengths ==
    ASSUME NEW q \in Seq(Slots)
    PROVE  /\ Len(q) \in Nat
           /\ Len(q) = 0 <=> q = <<>>
           /\ \A s \in Slots : Len(Append(q, s)) = Len(q) + 1
           /\ q # <<>> => Len(Tail(q)) = Len(q) - 1 /\ Len(q) > 0
OBVIOUS

-----------------------------------------------------------------------------
(* Who is where after a step.                                              *)

\* The step of one client to another place, seen by the sets of clients.
LEMMA ClientMoves ==
    ASSUME TypeOK, NEW c \in Clients, NEW place, cpc' = [cpc EXCEPT ![c] = place]
    PROVE  /\ Rechecking' = IF place = "recheck" THEN Rechecking \cup {c}
                            ELSE Rechecking \ {c}
           /\ Notifying' = IF place = "notify" THEN Notifying \cup {c}
                           ELSE Notifying \ {c}
           /\ ReadyWaiters' = IF place = "waiting" THEN ReadyWaiters \cup {c}
                              ELSE ReadyWaiters \ {c}
BY DEF TypeOK, Rechecking, Notifying, ReadyWaiters

\* ... and of one reset thread.
LEMMA ResetterMoves ==
    ASSUME TypeOK, NEW r \in Resetters, NEW place, rpc' = [rpc EXCEPT ![r] = place]
    PROVE  /\ Publishing' = IF place = "notify" THEN Publishing \cup {r}
                            ELSE Publishing \ {r}
           /\ Checking' = IF place = "check" THEN Checking \cup {r}
                          ELSE Checking \ {r}
           /\ WorkWaiters' = IF place = "waiting" THEN WorkWaiters \cup {r}
                             ELSE WorkWaiters \ {r}
BY DEF TypeOK, Publishing, Checking, WorkWaiters

\* A set of threads changes only with the threads' places.
LEMMA SameClients ==
    ASSUME cpc' = cpc
    PROVE  UNCHANGED <<Rechecking, Notifying, ReadyWaiters>>
BY DEF Rechecking, Notifying, ReadyWaiters

\* The same of the reset threads.
LEMMA SameResetters ==
    ASSUME rpc' = rpc
    PROVE  UNCHANGED <<Publishing, Checking, WorkWaiters>>
BY DEF Publishing, Checking, WorkWaiters
-----------------------------------------------------------------------------
(* Every step keeps it.                                                    *)

\* At first nobody waits.
LEMMA NobodyWaits == Init => WInv
BY DEF Init, WInv, WaitersSawAllSlots, CallerWaitsAlone, ReadyWakeups, WorkWakeups,
       ReadyWaiters, WorkWaiters

\* A client that is somewhere has been seen by no settle wait.
LEMMA BusyClient ==
    ASSUME WInv, NEW c \in Clients, cpc[c] # "idle"
    PROVE  phase \notin {"settle", "blocked"}
BY DEF WInv, CallerWaitsAlone, Quiet

\* Prewarming finds no client and puts every reset thread to work.
LEMMA PrewarmWakes == ASSUME IInv, WInv, Prewarm PROVE WInv'
<1>1. \A c \in Clients : cpc'[c] = "idle"
  BY DEF IInv, ColdIsUntouched, Prewarm, clientVars
<1>2. \A r \in Resetters : rpc'[r] = "check" BY DEF Prewarm
<1>3. ReadyWaiters' = {} /\ WorkWaiters' = {}
  BY <1>1, <1>2 DEF ReadyWaiters, WorkWaiters
<1>4. WaitersSawAllSlots' BY <1>1 DEF WaitersSawAllSlots
<1>5. CallerWaitsAlone' BY DEF Prewarm, CallerWaitsAlone
<1> QED BY <1>3, <1>4, <1>5 DEF WInv, ReadyWakeups, WorkWakeups

\* The caller's other steps move no thread; it waits when all is quiet.
LEMMA CallerWakes ==
    ASSUME IInv, WInv, SkipPrewarm \/ StartDecode \/ Settle
    PROVE  WInv'
<1> USE DEF SkipPrewarm, StartDecode, Settle, poolVars, clientVars, resetterVars
<1>1. cpc' = cpc /\ rpc' = rpc /\ UNCHANGED poolVars OBVIOUS
<1>2. ReadyWakeups' /\ WorkWakeups'
  BY <1>1, SameClients, SameResetters DEF WInv, ReadyWakeups, WorkWakeups
<1>3. WaitersSawAllSlots' BY DEF WInv, WaitersSawAllSlots
<1>4. CallerWaitsAlone' BY DEF WInv, CallerWaitsAlone, Quiet
<1> QED BY <1>2, <1>3, <1>4 DEF WInv

\* A task begins only while the caller is not in its settle wait.
LEMMA BeginTaskWakes ==
    ASSUME IInv, WInv, NEW c \in Clients, BeginTask(c) PROVE WInv'
<1> USE DEF BeginTask, poolVars, resetterVars
<1>1. /\ c \notin Rechecking /\ c \notin Notifying /\ c \notin ReadyWaiters
  BY DEF Rechecking, Notifying, ReadyWaiters
<1>2. UNCHANGED <<Rechecking, Notifying, ReadyWaiters, Publishing, Checking, WorkWaiters>>
  <2>1. \A d \in Clients : cpc'[d] = IF d = c THEN "acquire" ELSE cpc[d]
    BY DEF IInv, TypeOK
  <2>2. UNCHANGED <<Rechecking, Notifying, ReadyWaiters>>
    BY <2>1, <1>1 DEF Rechecking, Notifying, ReadyWaiters
  <2> QED BY <2>2, SameResetters
<1>3. ReadyWakeups' /\ WorkWakeups'
  BY <1>2 DEF WInv, ReadyWakeups, WorkWakeups
<1>4. WaitersSawAllSlots' BY DEF IInv, TypeOK, WInv, WaitersSawAllSlots
<1>5. CallerWaitsAlone'
  BY ConstantFacts DEF IInv, TypeOK, WInv, CallerWaitsAlone, Quiet
<1> QED BY <1>3, <1>4, <1>5 DEF WInv

\* A slot is added only while no client waits: one waits only when it has seen
\* the pool complete.
LEMMA GrowWakes ==
    ASSUME IInv, WInv, NEW c \in Clients, Grow(c) PROVE WInv'
<1> USE DEF Grow, clientVars, resetterVars, callerVars
<1>1. size \in Nat /\ configured \in Nat BY DEF IInv, TypeOK
<1>2. ~ \E d \in Clients : cpc[d] \in {"waiting", "recheck"}
  BY <1>1 DEF WInv, WaitersSawAllSlots
<1>3. ReadyWaiters' = {} BY <1>2 DEF ReadyWaiters
<1>4. ReadyWakeups' BY <1>3 DEF ReadyWakeups
<1>5. WorkWakeups' BY SameClients, SameResetters DEF WInv, WorkWakeups
<1>6. WaitersSawAllSlots' BY <1>2 DEF WaitersSawAllSlots
<1>7. CallerWaitsAlone' BY DEF WInv, CallerWaitsAlone, Quiet
<1> QED BY <1>4, <1>5, <1>6, <1>7 DEF WInv

\* A client waits when there is nothing to wake it for.
LEMMA BlockWakes ==
    ASSUME IInv, WInv, NEW c \in Clients, Block(c) PROVE WInv'
<1> USE DEF Block, poolVars, resetterVars, callerVars
<1>1. Rechecking' = Rechecking \ {c} /\ Notifying' = Notifying
  BY ClientMoves DEF IInv, Notifying
<1>2. IsFiniteSet(Rechecking') /\ Cardinality(Rechecking') \in Nat
  BY <1>1, ThreadsAreFinite, FS_Subset, FS_CardinalityType
<1>3. UNCHANGED <<Publishing, Checking, WorkWaiters>> BY SameResetters
<1>4. ReadyWakeups'
  <2>1. Len(ready') = 0 OBVIOUS
  <2> QED BY <2>1, <1>2, <1>3, ThreadsAreFinite DEF ReadyWakeups
<1>5. WorkWakeups' BY <1>1, <1>3 DEF WInv, WorkWakeups
<1>6. WaitersSawAllSlots' BY DEF IInv, TypeOK, WInv, WaitersSawAllSlots
<1>7. CallerWaitsAlone' BY BusyClient DEF CallerWaitsAlone
<1> QED BY <1>4, <1>5, <1>6, <1>7 DEF WInv

\* A client that takes a slot uses up at most the wake-up it got.
LEMMA TakeWakes ==
    ASSUME IInv, WInv, NEW c \in Clients, Take(c) PROVE WInv'
<1> USE DEF Take, resetterVars, callerVars
<1>1. /\ Rechecking' = Rechecking \ {c} /\ Notifying' = Notifying
      /\ ReadyWaiters' = ReadyWaiters
  <2>1. \A d \in Clients : cpc'[d] = IF d = c THEN "using" ELSE cpc[d]
    BY DEF IInv, TypeOK
  <2> QED BY <2>1 DEF Rechecking, Notifying, ReadyWaiters
<1>2. /\ Cardinality(Rechecking') \in Nat
      /\ Cardinality(Rechecking') >= Cardinality(Rechecking) - 1
  <2>1. /\ IsFiniteSet(Rechecking) /\ Rechecking' = Rechecking \ {c}
        /\ Cardinality(Rechecking) \in Nat
    BY <1>1, ThreadsAreFinite
  <2>2. CASE c \in Rechecking BY ONLY <2>1, <2>2, OneMoreOrLess, FS_RemoveElement, FS_CardinalityType
  <2>3. CASE c \notin Rechecking
    <3>1. Rechecking' = Rechecking BY <2>1, <2>3
    <3> QED BY ONLY <2>1, <3>1
  <2> QED BY <2>2, <2>3
<1>3. UNCHANGED <<Publishing, Checking, WorkWaiters>> BY SameResetters
<1>4. Len(ready) \in Nat /\ Len(ready') = Len(ready) - 1
  BY QueueLengths DEF IInv, TypeOK
<1>5. ReadyWakeups'
  BY <1>1, <1>2, <1>3, <1>4, ThreadsAreFinite DEF WInv, ReadyWakeups
<1>6. WorkWakeups' BY <1>1, <1>3 DEF WInv, WorkWakeups
<1>7. WaitersSawAllSlots' BY DEF IInv, TypeOK, WInv, WaitersSawAllSlots
<1>8. CallerWaitsAlone' BY BusyClient DEF CallerWaitsAlone
<1> QED BY <1>5, <1>6, <1>7, <1>8 DEF WInv

\* The body has nothing to do with the queues.
LEMMA RunWakes ==
    ASSUME IInv, WInv, NEW c \in Clients, Run(c) PROVE WInv'
<1> USE DEF Run, resetterVars, callerVars
<1>1. UNCHANGED <<Rechecking, Notifying, ReadyWaiters>>
  BY ClientMoves DEF IInv, Rechecking, Notifying, ReadyWaiters
<1>2. UNCHANGED <<Publishing, Checking, WorkWaiters>> BY SameResetters
<1>3. ReadyWakeups' /\ WorkWakeups'
  BY <1>1, <1>2 DEF WInv, ReadyWakeups, WorkWakeups
<1>4. WaitersSawAllSlots' BY DEF IInv, TypeOK, WInv, WaitersSawAllSlots
<1>5. CallerWaitsAlone' BY BusyClient DEF CallerWaitsAlone
<1> QED BY <1>3, <1>4, <1>5 DEF WInv

\* A released slot comes with a notify.
LEMMA ReleaseWakes ==
    ASSUME IInv, WInv, NEW c \in Clients, Release(c) PROVE WInv'
<1> USE DEF Release, resetterVars, callerVars
<1>1. cslot[c] \in Slots /\ slotState[cslot[c]] = InUse
  BY DEF IInv, TypeOK, HoldersAreThere, Ownership, InUseIsHeld
<1>2. /\ dirty' = Append(dirty, cslot[c]) /\ cpc' = [cpc EXCEPT ![c] = "notify"]
      /\ rpc' = rpc /\ ready' = ready
  BY <1>1
<1>3. /\ Rechecking' = Rechecking /\ ReadyWaiters' = ReadyWaiters
      /\ Notifying' = Notifying \cup {c} /\ c \notin Notifying
  BY <1>2, ClientMoves DEF IInv, Rechecking, ReadyWaiters, Notifying
<1>4. Cardinality(Notifying') = Cardinality(Notifying) + 1
  BY <1>3, ThreadsAreFinite, OneMoreOrLess
<1>5. UNCHANGED <<Publishing, Checking, WorkWaiters>> BY <1>2, SameResetters
<1>6. Len(dirty) \in Nat /\ Len(dirty') = Len(dirty) + 1
  BY <1>1, <1>2, QueueLengths DEF IInv, TypeOK
<1>7. WorkWakeups'
  BY <1>4, <1>5, <1>6, ThreadsAreFinite DEF WInv, WorkWakeups
<1>8. ReadyWakeups' BY <1>2, <1>3, <1>5 DEF WInv, ReadyWakeups
<1>9. WaitersSawAllSlots' BY <1>2 DEF IInv, TypeOK, WInv, WaitersSawAllSlots
<1>10. CallerWaitsAlone' BY BusyClient DEF CallerWaitsAlone
<1> QED BY <1>7, <1>8, <1>9, <1>10 DEF WInv

\* The notify of a release is handed on to a reset thread, if one waits.
LEMMA NotifyWorkWakes ==
    ASSUME IInv, WInv, NEW c \in Clients, NotifyWork(c) PROVE WInv'
<1> USE DEF NotifyWork, poolVars, callerVars
<1>1. /\ Rechecking' = Rechecking /\ ReadyWaiters' = ReadyWaiters
      /\ Notifying' = Notifying \ {c} /\ c \in Notifying
  <2>1. \A d \in Clients : cpc'[d] = IF d = c THEN "idle" ELSE cpc[d]
    BY DEF IInv, TypeOK
  <2> QED BY <2>1 DEF Rechecking, Notifying, ReadyWaiters
<1>2. Cardinality(Notifying') = Cardinality(Notifying) - 1
  BY <1>1, ThreadsAreFinite, OneMoreOrLess
<1>3. Len(dirty) \in Nat BY QueueLengths DEF IInv, TypeOK
<1>4. WorkWakeups' /\ Publishing' = Publishing
  <2>1. CASE WorkWaiters = {}
    <3>1. rpc' = rpc BY <2>1
    <3> QED BY <2>1, <3>1, SameResetters DEF WorkWakeups
  <2>2. CASE WorkWaiters # {}
    <3>1. PICK r \in WorkWaiters : rpc' = [rpc EXCEPT ![r] = "check"] BY <2>2
    <3>2. r \in Resetters /\ r \notin Checking /\ r \notin Publishing
      BY <3>1 DEF WorkWaiters, Checking, Publishing
    <3>3. Publishing' = Publishing /\ Checking' = Checking \cup {r}
      <4>1. \A q \in Resetters : rpc'[q] = IF q = r THEN "check" ELSE rpc[q]
        BY <3>1, <3>2 DEF IInv, TypeOK
      <4> QED BY <3>2, <4>1 DEF Publishing, Checking
    <3>4. Cardinality(Checking') = Cardinality(Checking) + 1
      BY <3>2, <3>3, ThreadsAreFinite, OneMoreOrLess
    <3> QED BY <2>2, <3>3, <3>4, <1>2, <1>3, ThreadsAreFinite DEF WInv, WorkWakeups
  <2> QED BY <2>1, <2>2
<1>5. ReadyWakeups' BY <1>1, <1>4 DEF WInv, ReadyWakeups
<1>6. WaitersSawAllSlots' BY DEF IInv, TypeOK, WInv, WaitersSawAllSlots
<1>7. CallerWaitsAlone' BY BusyClient DEF CallerWaitsAlone
<1> QED BY <1>4, <1>5, <1>6, <1>7 DEF WInv

-----------------------------------------------------------------------------
(* Steps of the reset threads, which leave the clients where they are but  *)
(* for a notify.                                                           *)

\* A reset thread that takes a slot uses up the wake-up it got.
LEMMA PopDirtyWakes ==
    ASSUME IInv, WInv, NEW r \in Resetters, PopDirty(r) PROVE WInv'
<1> USE DEF PopDirty, clientVars, callerVars
<1>1. /\ Publishing' = Publishing /\ WorkWaiters' = WorkWaiters
      /\ Checking' = Checking \ {r} /\ r \in Checking
  <2>1. \A d \in Resetters : rpc'[d] = IF d = r THEN "resetting" ELSE rpc[d]
    BY DEF IInv, TypeOK
  <2> QED BY <2>1 DEF Publishing, WorkWaiters, Checking
<1>2. Cardinality(Checking') = Cardinality(Checking) - 1
  BY <1>1, ThreadsAreFinite, OneMoreOrLess
<1>3. UNCHANGED <<Rechecking, Notifying, ReadyWaiters>> BY SameClients
<1>4. Len(dirty) \in Nat /\ Len(dirty') = Len(dirty) - 1
  BY QueueLengths DEF IInv, TypeOK
<1>5. WorkWakeups'
  BY <1>1, <1>2, <1>3, <1>4, ThreadsAreFinite DEF WInv, WorkWakeups
<1>6. ReadyWakeups' BY <1>1, <1>3 DEF WInv, ReadyWakeups
<1>7. WaitersSawAllSlots' /\ CallerWaitsAlone'
  BY DEF WInv, WaitersSawAllSlots, CallerWaitsAlone, Quiet
<1> QED BY <1>5, <1>6, <1>7 DEF WInv

\* A reset thread waits when there is nothing to wake it for.
LEMMA BlockWorkWakes ==
    ASSUME IInv, WInv, NEW r \in Resetters, BlockWork(r) PROVE WInv'
<1> USE DEF BlockWork, poolVars, clientVars, callerVars
<1>1. Publishing' = Publishing /\ Checking' = Checking \ {r}
  BY ResetterMoves DEF IInv, Publishing
<1>2. Cardinality(Checking') \in Nat
  BY <1>1, ThreadsAreFinite, FS_Subset, FS_CardinalityType
<1>3. UNCHANGED <<Rechecking, Notifying, ReadyWaiters>> BY SameClients
<1>4. WorkWakeups'
  <2>1. Len(dirty') = 0 OBVIOUS
  <2> QED BY <2>1, <1>2, <1>3, ThreadsAreFinite DEF WorkWakeups
<1>5. ReadyWakeups' BY <1>1, <1>3 DEF WInv, ReadyWakeups
<1>6. WaitersSawAllSlots' /\ CallerWaitsAlone'
  BY DEF WInv, WaitersSawAllSlots, CallerWaitsAlone, Quiet
<1> QED BY <1>4, <1>5, <1>6 DEF WInv

\* Resetting has nothing to do with the queues.
LEMMA ResetWakes ==
    ASSUME IInv, WInv, NEW r \in Resetters, Reset(r) PROVE WInv'
<1> USE DEF Reset, clientVars, callerVars
<1>1. UNCHANGED <<Publishing, Checking, WorkWaiters>>
  BY ResetterMoves DEF IInv, Publishing, Checking, WorkWaiters
<1>2. UNCHANGED <<Rechecking, Notifying, ReadyWaiters>> BY SameClients
<1>3. ReadyWakeups' /\ WorkWakeups'
  BY <1>1, <1>2 DEF WInv, ReadyWakeups, WorkWakeups
<1>4. WaitersSawAllSlots' /\ CallerWaitsAlone'
  BY DEF WInv, WaitersSawAllSlots, CallerWaitsAlone, Quiet
<1> QED BY <1>3, <1>4 DEF WInv

\* A published slot comes with a notify.
LEMMA PublishWakes ==
    ASSUME IInv, WInv, NEW r \in Resetters, Publish(r) PROVE WInv'
<1> USE DEF Publish, clientVars, callerVars
<1>1. /\ Checking' = Checking /\ WorkWaiters' = WorkWaiters
      /\ Publishing' = Publishing \cup {r} /\ r \notin Publishing
  BY ResetterMoves DEF IInv, Publishing, WorkWaiters, Checking
<1>2. Cardinality(Publishing') = Cardinality(Publishing) + 1
  BY <1>1, ThreadsAreFinite, OneMoreOrLess
<1>3. UNCHANGED <<Rechecking, Notifying, ReadyWaiters>> BY SameClients
<1>4. rslot[r] \in Slots BY DEF IInv, TypeOK, HoldersAreThere
<1>5. Len(ready) \in Nat /\ Len(ready') = Len(ready) + 1
  BY <1>4, QueueLengths DEF IInv, TypeOK
<1>6. ReadyWakeups'
  BY <1>2, <1>3, <1>5, ThreadsAreFinite DEF WInv, ReadyWakeups
<1>7. WorkWakeups' BY <1>1, <1>3 DEF WInv, WorkWakeups
<1>8. WaitersSawAllSlots' /\ CallerWaitsAlone'
  BY DEF WInv, WaitersSawAllSlots, CallerWaitsAlone, Quiet
<1> QED BY <1>6, <1>7, <1>8 DEF WInv

\* The notify of a published slot goes to a client if one waits: then the caller
\* does not.  The reset thread will look at its own queue next.
LEMMA NotifyReadyWakes ==
    ASSUME IInv, WInv, NEW r \in Resetters, NotifyReady(r) PROVE WInv'
<1> USE DEF NotifyReady, poolVars
<1>1. /\ WorkWaiters' = WorkWaiters
      /\ Publishing' = Publishing \ {r} /\ r \in Publishing
      /\ Checking' = Checking \cup {r} /\ r \notin Checking
  BY ResetterMoves DEF IInv, Publishing, WorkWaiters, Checking
<1>2. /\ Cardinality(Publishing') = Cardinality(Publishing) - 1
      /\ Cardinality(Checking') = Cardinality(Checking) + 1
  BY <1>1, ThreadsAreFinite, OneMoreOrLess
<1>3. Len(ready) \in Nat /\ Len(dirty) \in Nat BY QueueLengths DEF IInv, TypeOK
<1>4. CASE phase = "blocked" /\ phase' = "settle" /\ cpc' = cpc
  <2>1. UNCHANGED <<Rechecking, Notifying, ReadyWaiters>> BY <1>4, SameClients
  <2>2. ReadyWaiters = {} BY <1>4 DEF WInv, CallerWaitsAlone, Quiet, ReadyWaiters
  <2>3. ReadyWakeups' BY <2>1, <2>2 DEF ReadyWakeups
  <2>4. WorkWakeups'
    BY <2>1, <1>1, <1>2, <1>3, ThreadsAreFinite DEF WInv, WorkWakeups
  <2>5. WaitersSawAllSlots' /\ CallerWaitsAlone'
    BY <1>4 DEF WInv, WaitersSawAllSlots, CallerWaitsAlone, Quiet
  <2> QED BY <2>3, <2>4, <2>5 DEF WInv
<1>5. ASSUME NEW c \in ReadyWaiters, cpc' = [cpc EXCEPT ![c] = "recheck"], phase' = phase
      PROVE  WInv'
  <2>1. c \in Clients /\ cpc[c] = "waiting" BY DEF ReadyWaiters
  <2>2. /\ Rechecking' = Rechecking \cup {c} /\ c \notin Rechecking
        /\ Notifying' = Notifying
    BY <2>1, <1>5, ClientMoves DEF IInv, Rechecking, Notifying
  <2>3. Cardinality(Rechecking') = Cardinality(Rechecking) + 1
    BY <2>2, ThreadsAreFinite, OneMoreOrLess
  <2>4. ReadyWakeups'
    BY <2>3, <1>2, <1>3, <1>5, ThreadsAreFinite DEF WInv, ReadyWakeups
  <2>5. WorkWakeups'
    BY <2>2, <1>1, <1>2, <1>3, ThreadsAreFinite DEF WInv, WorkWakeups
  <2>6. WaitersSawAllSlots'
    BY <2>1, <1>5 DEF IInv, TypeOK, WInv, WaitersSawAllSlots
  <2>7. CallerWaitsAlone' BY <2>1, <1>5, BusyClient DEF CallerWaitsAlone
  <2> QED BY <2>4, <2>5, <2>6, <2>7 DEF WInv
<1>6. CASE phase # "blocked" /\ ReadyWaiters = {} /\ phase' = phase /\ cpc' = cpc
  <2>1. UNCHANGED <<Rechecking, Notifying, ReadyWaiters>> BY <1>6, SameClients
  <2>2. ReadyWakeups' BY <1>6, <2>1 DEF ReadyWakeups
  <2>3. WorkWakeups'
    BY <2>1, <1>1, <1>2, <1>3, ThreadsAreFinite DEF WInv, WorkWakeups
  <2>4. WaitersSawAllSlots' /\ CallerWaitsAlone'
    BY <1>6 DEF WInv, WaitersSawAllSlots, CallerWaitsAlone, Quiet
  <2> QED BY <2>2, <2>3, <2>4 DEF WInv
<1> QED BY <1>4, <1>5, <1>6

\* A wake-up nobody sent adds a thread on its way to a queue.
LEMMA SpuriousWakes == ASSUME IInv, WInv, SpuriousWake PROVE WInv'
<1> USE DEF SpuriousWake, poolVars, clientVars, resetterVars, callerVars
<1>1. Len(ready) \in Nat /\ Len(dirty) \in Nat BY QueueLengths DEF IInv, TypeOK
<1>2. ASSUME NEW c \in ReadyWaiters, cpc' = [cpc EXCEPT ![c] = "recheck"],
             UNCHANGED <<poolVars, cslot, resetterVars, callerVars>>
      PROVE  WInv'
  <2>1. c \in Clients /\ cpc[c] = "waiting" BY DEF ReadyWaiters
  <2>2. /\ Rechecking' = Rechecking \cup {c} /\ c \notin Rechecking
        /\ Notifying' = Notifying
    BY <2>1, <1>2, ClientMoves DEF IInv, Rechecking, Notifying
  <2>3. Cardinality(Rechecking') = Cardinality(Rechecking) + 1
    BY <2>2, ThreadsAreFinite, OneMoreOrLess
  <2>4. UNCHANGED <<Publishing, Checking, WorkWaiters, ready, dirty>>
    BY <1>2, SameResetters
  <2>5. ReadyWakeups'
    BY <2>3, <2>4, <1>1, ThreadsAreFinite DEF WInv, ReadyWakeups
  <2>6. WorkWakeups' BY <2>2, <2>4 DEF WInv, WorkWakeups
  <2>7. WaitersSawAllSlots'
    BY <2>1, <1>2 DEF IInv, TypeOK, WInv, WaitersSawAllSlots
  <2>8. CallerWaitsAlone' BY <2>1, <1>2, BusyClient DEF CallerWaitsAlone
  <2> QED BY <2>5, <2>6, <2>7, <2>8 DEF WInv
<1>3. ASSUME NEW r \in WorkWaiters, rpc' = [rpc EXCEPT ![r] = "check"],
             UNCHANGED <<poolVars, clientVars, rslot, callerVars>>
      PROVE  WInv'
  <2>1. r \in Resetters /\ rpc[r] = "waiting" BY DEF WorkWaiters
  <2>2. /\ Checking' = Checking \cup {r} /\ r \notin Checking
        /\ Publishing' = Publishing
    BY <2>1, <1>3, ResetterMoves DEF IInv, Checking, Publishing
  <2>3. Cardinality(Checking') = Cardinality(Checking) + 1
    BY <2>2, ThreadsAreFinite, OneMoreOrLess
  <2>4. UNCHANGED <<Rechecking, Notifying, ReadyWaiters, ready, dirty>>
    BY <1>3, SameClients
  <2>5. WorkWakeups'
    BY <2>3, <2>4, <1>1, ThreadsAreFinite DEF WInv, WorkWakeups
  <2>6. ReadyWakeups' BY <2>2, <2>4 DEF WInv, ReadyWakeups
  <2>7. WaitersSawAllSlots' /\ CallerWaitsAlone'
    BY <1>3 DEF WInv, WaitersSawAllSlots, CallerWaitsAlone, Quiet
  <2> QED BY <2>5, <2>6, <2>7 DEF WInv
<1>4. CASE phase = "blocked" /\ phase' = "settle"
           /\ UNCHANGED <<poolVars, clientVars, resetterVars, todo>>
  <2>1. ReadyWakeups' /\ WorkWakeups'
    BY <1>4, SameClients, SameResetters DEF WInv, ReadyWakeups, WorkWakeups
  <2>2. WaitersSawAllSlots' /\ CallerWaitsAlone'
    BY <1>4 DEF WInv, WaitersSawAllSlots, CallerWaitsAlone, Quiet
  <2> QED BY <2>1, <2>2 DEF WInv
<1> QED BY <1>2, <1>3, <1>4

\* A stuttering step keeps it.
LEMMA StutterWakes == ASSUME WInv, UNCHANGED vars PROVE WInv'
<1> USE DEF vars, poolVars, clientVars, resetterVars, callerVars
<1>1. ReadyWakeups' /\ WorkWakeups'
  BY SameClients, SameResetters DEF WInv, ReadyWakeups, WorkWakeups
<1>2. WaitersSawAllSlots' /\ CallerWaitsAlone'
  BY DEF WInv, WaitersSawAllSlots, CallerWaitsAlone, Quiet
<1> QED BY <1>1, <1>2 DEF WInv

-----------------------------------------------------------------------------
\* While threads are blocked on a condition variable, there is for each slot in
\* its queue a notify still to come or a thread on its way to the queue, for
\* any number of threads and slots (cluster_subgraph.cc 613-808).
THEOREM NoWakeupIsLost == Spec => []NoLostWakeup
<1>1. IInv /\ WInv /\ [Next]_vars => WInv'
  <2> SUFFICES ASSUME IInv, WInv, [Next]_vars PROVE WInv' OBVIOUS
  <2>1. CASE CallerStep BY <2>1, PrewarmWakes, CallerWakes DEF CallerStep
  <2>2. ASSUME NEW c \in Clients, ClientStep(c) PROVE WInv'
    BY <2>2, BeginTaskWakes, GrowWakes, BlockWakes, TakeWakes, RunWakes,
       ReleaseWakes, NotifyWorkWakes DEF ClientStep
  <2>3. ASSUME NEW r \in Resetters, ResetterStep(r) PROVE WInv'
    BY <2>3, PopDirtyWakes, BlockWorkWakes, ResetWakes, PublishWakes,
       NotifyReadyWakes DEF ResetterStep
  <2>4. CASE SpuriousWake BY <2>4, SpuriousWakes
  <2>5. CASE UNCHANGED vars BY <2>5, StutterWakes
  <2> QED BY <2>1, <2>2, <2>3, <2>4, <2>5 DEF Next
<1>2. WInv => NoLostWakeup
  BY DEF WInv, ReadyWakeups, WorkWakeups, NoLostWakeup, Publishing, Rechecking,
         Notifying, Checking
<1> QED BY <1>1, <1>2, Invariance, NobodyWaits, PTL DEF Spec
=============================================================================

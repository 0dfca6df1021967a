------------------------------ MODULE StatePool ------------------------------
(***************************************************************************)
(* The pool of pre-distributed full-graph MWPM states of                   *)
(* parallel/cluster_subgraph.cc, driven the way local_parallel_bench.cc    *)
(* drives it: the main thread prewarms the pool, decodes warm-up shots,    *)
(* waits until enough states are clean again and then decodes measured     *)
(* shots.  A decode is Tasks cluster tasks, run by the client threads;     *)
(* every task acquires one state, runs on it and releases it dirty, and    *)
(* background reset threads return dirty states to the ready queue.        *)
(*                                                                         *)
(* Every step is one critical section of the runtime mutex, or the work    *)
(* done between two of them.  A condition variable is the set of threads   *)
(* blocked on it; notify_one picks any one of them.                        *)
(***************************************************************************)
EXTENDS Naturals, Sequences, FiniteSets

CONSTANTS
    Clients,            \* the threads that run cluster tasks
    Resetters,          \* the reset threads prewarm starts
    PoolSlots,          \* PYMATCHING_PARENTLESS_STATE_POOL_SLOTS
    MinReady,           \* PYMATCHING_REQUIRED_READY_STATES
    Tasks,              \* clusters of one shot
    PrewarmOptional     \* may the caller forget prewarm?

ASSUME PoolAssumption ==
    /\ IsFiniteSet(Clients) /\ IsFiniteSet(Resetters)
    /\ Clients \cap Resetters = {}
    /\ PoolSlots \in Nat \ {0}
    /\ MinReady \in 1..PoolSlots
    /\ Tasks \in Nat
    /\ PrewarmOptional \in BOOLEAN

Slots == 0..(PoolSlots - 1)
None == PoolSlots                       \* SIZE_MAX

\* The values of slot_states.
New == 0
Ready == 1
InUse == 2
Resetting == 3

VARIABLES
    slotState,      \* slot_states
    ready,          \* ready_slots, a FIFO
    dirty,          \* dirty_slots, a FIFO
    size,           \* worker_mwpms.size(): slots 0..size-1 exist
    configured,     \* configured_pool_slots
    clean,          \* is the slot's MWPM as after reset()?
    cpc,            \* where each client is
    cslot,          \* the slot each client holds
    rpc,            \* where each reset thread is
    rslot,          \* the slot each reset thread holds
    phase,          \* the caller: cold, warmup, settle, blocked, measured
    todo            \* cluster tasks of the current shot nobody has begun

poolVars == <<slotState, ready, dirty, size, configured, clean>>
clientVars == <<cpc, cslot>>
resetterVars == <<rpc, rslot>>
callerVars == <<phase, todo>>
vars == <<poolVars, clientVars, resetterVars, callerVars>>

-----------------------------------------------------------------------------
Init ==
    /\ slotState = [s \in Slots |-> New]
    /\ ready = <<>> /\ dirty = <<>>
    /\ size = 0 /\ configured = 0
    /\ clean = [s \in Slots |-> TRUE]
    /\ cpc = [c \in Clients |-> "idle"] /\ cslot = [c \in Clients |-> None]
    /\ rpc = [r \in Resetters |-> "off"] /\ rslot = [r \in Resetters |-> None]
    /\ phase = "cold" /\ todo = 0

ReadyWaiters == {c \in Clients : cpc[c] = "waiting"}
WorkWaiters == {r \in Resetters : rpc[r] = "waiting"}
Quiet == todo = 0 /\ \A c \in Clients : cpc[c] = "idle"

-----------------------------------------------------------------------------
(* The caller (main thread of the benchmark).                              *)

\* prewarm_persistent_full_graph_worker_states: every slot is built and made
\* ready, in order, and the reset threads start.
Prewarm ==
    /\ phase = "cold"
    /\ phase' = "warmup"
    /\ size' = PoolSlots
    /\ configured' = PoolSlots
    /\ slotState' = [s \in Slots |-> Ready]
    /\ ready' = [i \in 1..PoolSlots |-> i - 1]
    /\ rpc' = [r \in Resetters |-> "check"]
    /\ UNCHANGED <<dirty, clean, clientVars, rslot, todo>>

\* A caller that decodes without prewarming: no slot and no reset thread.
SkipPrewarm ==
    /\ PrewarmOptional
    /\ phase = "cold"
    /\ phase' = "measured"
    /\ UNCHANGED <<poolVars, clientVars, resetterVars, todo>>

\* The next shot: its clusters become tasks.
StartDecode ==
    /\ phase \in {"warmup", "measured"}
    /\ Quiet
    /\ todo' = Tasks
    /\ UNCHANGED <<poolVars, clientVars, resetterVars, phase>>

\* wait_for_persistent_full_graph_worker_states_ready: evaluate the predicate
\* under the mutex, then go on or block.
Settle ==
    /\ \/ phase = "warmup" /\ Quiet
       \/ phase = "settle"
    /\ phase' = IF Len(ready) >= MinReady THEN "measured" ELSE "blocked"
    /\ UNCHANGED <<poolVars, clientVars, resetterVars, todo>>

-----------------------------------------------------------------------------
(* The clients: acquire_clean..., the body, release....                    *)

\* Mutant: a task is begun although none is left.
BeginTaskOfNone(c) ==
    /\ cpc[c] = "idle"
    /\ phase # "cold"
    /\ todo' = todo - 1
    /\ cpc' = [cpc EXCEPT ![c] = "acquire"]
    /\ UNCHANGED <<poolVars, cslot, resetterVars, phase>>

\* Growing the pool reallocates vectors that other threads read without a
\* lock, so an unprewarmed pool is only ever used by one thread at a time.
MayBegin == configured = PoolSlots \/ \A c \in Clients : cpc[c] = "idle"

BeginTask(c) ==
    /\ cpc[c] = "idle"
    /\ todo > 0
    /\ MayBegin
    /\ todo' = todo - 1
    /\ cpc' = [cpc EXCEPT ![c] = "acquire"]
    /\ UNCHANGED <<poolVars, cslot, resetterVars, phase>>

\* No ready slot and the pool is not fully materialised: build one more slot,
\* publish it and look again.
Grow(c) ==
    /\ cpc[c] = "acquire"
    /\ ready = <<>>
    /\ configured = 0 \/ size < configured
    /\ size < PoolSlots
    /\ size' = size + 1
    /\ slotState' = [slotState EXCEPT ![size] = Ready]
    /\ ready' = Append(ready, size)
    /\ configured' = IF configured < size + 1 THEN size + 1 ELSE configured
    /\ UNCHANGED <<dirty, clean, clientVars, resetterVars, callerVars>>

\* No ready slot and the pool is complete: block on ready_cv.
Block(c) ==
    /\ \/ cpc[c] = "acquire" /\ configured # 0 /\ size >= configured
       \/ cpc[c] = "recheck"
    /\ ready = <<>>
    /\ cpc' = [cpc EXCEPT ![c] = "waiting"]
    /\ UNCHANGED <<poolVars, cslot, resetterVars, callerVars>>

\* Take the front of ready_slots, at once or after a wake-up: a thread that
\* arrives may overtake one that was woken and has not yet run.
Take(c) ==
    /\ cpc[c] \in {"acquire", "recheck"}
    /\ ready # <<>>
    /\ ready' = Tail(ready)
    /\ slotState' = [slotState EXCEPT ![Head(ready)] = InUse]
    /\ cslot' = [cslot EXCEPT ![c] = Head(ready)]
    /\ cpc' = [cpc EXCEPT ![c] = "using"]
    /\ UNCHANGED <<dirty, size, configured, clean, resetterVars, callerVars>>

\* The body initialises and advances the MWPM: its regions, queue and
\* trackers are no longer those of a reset one.
Run(c) ==
    /\ cpc[c] = "using"
    /\ cpc' = [cpc EXCEPT ![c] = "ran"]
    /\ clean' = [clean EXCEPT ![cslot[c]] = FALSE]
    /\ UNCHANGED <<slotState, ready, dirty, size, configured, cslot,
                   resetterVars, callerVars>>

\* release_persistent_full_graph_worker_mwpm, after the body or from its
\* catch block (also one entered before the body changed anything).  A slot
\* that is not in use is left alone.
Release(c) ==
    /\ cpc[c] \in {"using", "ran"}
    /\ LET s == cslot[c] IN
         IF slotState[s] = InUse
         THEN /\ slotState' = [slotState EXCEPT ![s] = Resetting]
              /\ dirty' = Append(dirty, s)
              /\ cpc' = [cpc EXCEPT ![c] = "notify"]
         ELSE /\ cpc' = [cpc EXCEPT ![c] = "idle"]
              /\ UNCHANGED <<slotState, dirty>>
    /\ cslot' = [cslot EXCEPT ![c] = None]
    /\ UNCHANGED <<ready, size, configured, clean, resetterVars, callerVars>>

\* work_cv.notify_one(), after the mutex is released.
NotifyWork(c) ==
    /\ cpc[c] = "notify"
    /\ cpc' = [cpc EXCEPT ![c] = "idle"]
    /\ IF WorkWaiters = {}
       THEN UNCHANGED rpc
       ELSE \E r \in WorkWaiters : rpc' = [rpc EXCEPT ![r] = "check"]
    /\ UNCHANGED <<poolVars, cslot, rslot, callerVars>>

-----------------------------------------------------------------------------
(* The reset threads: reset_loop.                                          *)

\* Mutant: the popped slot is published without being reset.
PopDirtyUnreset(r) ==
    /\ rpc[r] = "check"
    /\ dirty # <<>>
    /\ dirty' = Tail(dirty)
    /\ rslot' = [rslot EXCEPT ![r] = Head(dirty)]
    /\ rpc' = [rpc EXCEPT ![r] = "publish"]
    /\ UNCHANGED <<slotState, ready, size, configured, clean, clientVars,
                   callerVars>>

\* The wait predicate holds: take the front of dirty_slots.
PopDirty(r) ==
    /\ rpc[r] = "check"
    /\ dirty # <<>>
    /\ dirty' = Tail(dirty)
    /\ rslot' = [rslot EXCEPT ![r] = Head(dirty)]
    /\ rpc' = [rpc EXCEPT ![r] = "resetting"]
    /\ UNCHANGED <<slotState, ready, size, configured, clean, clientVars,
                   callerVars>>

\* It does not: block on work_cv.
BlockWork(r) ==
    /\ rpc[r] = "check"
    /\ dirty = <<>>
    /\ rpc' = [rpc EXCEPT ![r] = "waiting"]
    /\ UNCHANGED <<poolVars, clientVars, rslot, callerVars>>

\* Mwpm::reset(), outside the mutex.
Reset(r) ==
    /\ rpc[r] = "resetting"
    /\ clean' = [clean EXCEPT ![rslot[r]] = TRUE]
    /\ rpc' = [rpc EXCEPT ![r] = "publish"]
    /\ UNCHANGED <<slotState, ready, dirty, size, configured, clientVars,
                   rslot, callerVars>>

\* Mutants: slot_states is not updated; nobody is notified.
PublishUnmarked(r) ==
    /\ rpc[r] = "publish"
    /\ ready' = Append(ready, rslot[r])
    /\ rslot' = [rslot EXCEPT ![r] = None]
    /\ rpc' = [rpc EXCEPT ![r] = "notify"]
    /\ UNCHANGED <<slotState, dirty, size, configured, clean, clientVars,
                   callerVars>>

PublishSilently(r) ==
    /\ rpc[r] = "publish"
    /\ slotState' = [slotState EXCEPT ![rslot[r]] = Ready]
    /\ ready' = Append(ready, rslot[r])
    /\ rslot' = [rslot EXCEPT ![r] = None]
    /\ rpc' = [rpc EXCEPT ![r] = "check"]
    /\ UNCHANGED <<dirty, size, configured, clean, clientVars, callerVars>>

Publish(r) ==
    /\ rpc[r] = "publish"
    /\ slotState' = [slotState EXCEPT ![rslot[r]] = Ready]
    /\ ready' = Append(ready, rslot[r])
    /\ rslot' = [rslot EXCEPT ![r] = None]
    /\ rpc' = [rpc EXCEPT ![r] = "notify"]
    /\ UNCHANGED <<dirty, size, configured, clean, clientVars, callerVars>>

\* ready_cv.notify_one(), after the mutex is released.  Acquiring clients and
\* the caller in its settle wait block on the same condition variable.
NotifyReady(r) ==
    /\ rpc[r] = "notify"
    /\ rpc' = [rpc EXCEPT ![r] = "check"]
    /\ \/ /\ phase = "blocked"
          /\ phase' = "settle"
          /\ UNCHANGED cpc
       \/ /\ \E c \in ReadyWaiters : cpc' = [cpc EXCEPT ![c] = "recheck"]
          /\ UNCHANGED phase
       \/ /\ phase # "blocked" /\ ReadyWaiters = {}
          /\ UNCHANGED <<phase, cpc>>
    /\ UNCHANGED <<poolVars, cslot, rslot, todo>>

-----------------------------------------------------------------------------
(* A condition variable may wake a thread nobody notified.                 *)

SpuriousWake ==
    \/ /\ \E c \in ReadyWaiters : cpc' = [cpc EXCEPT ![c] = "recheck"]
       /\ UNCHANGED <<poolVars, cslot, resetterVars, callerVars>>
    \/ /\ \E r \in WorkWaiters : rpc' = [rpc EXCEPT ![r] = "check"]
       /\ UNCHANGED <<poolVars, clientVars, rslot, callerVars>>
    \/ /\ phase = "blocked"
       /\ phase' = "settle"
       /\ UNCHANGED <<poolVars, clientVars, resetterVars, todo>>

ClientStep(c) ==
    \/ BeginTask(c) \/ Grow(c) \/ Block(c) \/ Take(c)
    \/ Run(c) \/ Release(c) \/ NotifyWork(c)
ResetterStep(r) ==
    PopDirty(r) \/ BlockWork(r) \/ Reset(r) \/ Publish(r) \/ NotifyReady(r)
CallerStep == Prewarm \/ SkipPrewarm \/ StartDecode \/ Settle

Next ==
    \/ CallerStep
    \/ \E c \in Clients : ClientStep(c)
    \/ \E r \in Resetters : ResetterStep(r)
    \/ SpuriousWake

\* Every thread that can run eventually does; nothing is assumed of spurious
\* wake-ups, nor of when the caller starts another shot.
Fairness ==
    /\ \A c \in Clients : WF_vars(ClientStep(c))
    /\ \A r \in Resetters : WF_vars(ResetterStep(r))
    /\ WF_vars(phase = "settle" /\ Settle)

Spec == Init /\ [][Next]_vars /\ Fairness

-----------------------------------------------------------------------------
(* Properties.                                                             *)

CPC == {"idle", "acquire", "waiting", "recheck", "using", "ran", "notify"}
RPC == {"off", "check", "waiting", "resetting", "publish", "notify"}
Phases == {"cold", "warmup", "settle", "blocked", "measured"}

\* The types of the pool's fields, of the threads' control states and of the
\* caller's.
TypeOK ==
    /\ slotState \in [Slots -> New..Resetting]
    /\ ready \in Seq(Slots) /\ dirty \in Seq(Slots)
    /\ size \in 0..PoolSlots /\ configured \in 0..PoolSlots
    /\ clean \in [Slots -> BOOLEAN]
    /\ cpc \in [Clients -> CPC] /\ cslot \in [Clients -> Slots \cup {None}]
    /\ rpc \in [Resetters -> RPC] /\ rslot \in [Resetters -> Slots \cup {None}]
    /\ phase \in Phases /\ todo \in 0..Tasks

InQueue(q, s) == \E i \in DOMAIN q : q[i] = s
Once(q) == \A i, j \in DOMAIN q : q[i] = q[j] => i = j

QueuesOnce == Once(ready) /\ Once(dirty)

ReadyIsQueued ==
    \A s \in Slots : slotState[s] = Ready <=> InQueue(ready, s)

InUseIsHeld ==
    /\ \A s \in Slots : slotState[s] = InUse <=> \E c \in Clients : cslot[c] = s
    /\ \A c, d \in Clients : cslot[c] = cslot[d] /\ cslot[c] # None => c = d

ResettingIsQueuedOrHeld ==
    /\ \A s \in Slots :
         slotState[s] = Resetting <=>
             InQueue(dirty, s) \/ \E r \in Resetters : rslot[r] = s
    /\ \A r \in Resetters : ~ InQueue(dirty, rslot[r])
    /\ \A q, r \in Resetters : rslot[q] = rslot[r] /\ rslot[q] # None => q = r

\* slot_states, the two queues and the threads tell one story: a slot is ready
\* iff it is in ready_slots, in use iff a client holds it, being reset iff it
\* is in dirty_slots or a reset thread holds it - and nowhere twice.  A slot
\* released twice, published twice or dropped breaks it.
Ownership ==
    QueuesOnce /\ ReadyIsQueued /\ InUseIsHeld /\ ResettingIsQueuedOrHeld

\* A slot that enters use is one whose MWPM was reset since its last use: the
\* "acquire clean" promise, across the hand-over through both queues.
CleanHandout ==
    [][\A s \in Slots :
         slotState[s] # InUse /\ slotState'[s] = InUse => clean[s]]_vars

\* While threads are blocked on a condition variable, there is for each entry
\* of its queue a notify still to come or a thread on its way to the queue:
\* notify_one after the unlock, with overtaking, loses no wake-up.
NoLostWakeup ==
    /\ ReadyWaiters # {} =>
         Len(ready) =< Cardinality({r \in Resetters : rpc[r] = "notify"})
                     + Cardinality({c \in Clients : cpc[c] = "recheck"})
    /\ WorkWaiters # {} =>
         Len(dirty) =< Cardinality({c \in Clients : cpc[c] = "notify"})
                     + Cardinality({r \in Resetters : rpc[r] = "check"})

\* A shot that was started completes: all its tasks get a state, however few
\* states there are, because released ones come back from the reset threads.
DecodeCompletes == todo > 0 ~> Quiet

\* ... which the pool delivers to a caller that has prewarmed it; and one that waits for
\* MinReady clean states before measuring gets them.
PrewarmedPoolServes ==
    /\ todo > 0 /\ configured = PoolSlots ~> Quiet
    /\ phase = "blocked" ~> phase = "measured"

-----------------------------------------------------------------------------
(* The pool implements the promise of ResourcePool.                        *)

LentTo(s) == CHOOSE c \in Clients : cslot[c] = s

PoolOwner ==
    [s \in Slots |->
        CASE slotState[s] = New -> "absent"
          [] slotState[s] = Ready -> "free"
          [] slotState[s] = InUse -> LentTo(s)
          [] OTHER -> "dirty"]

Promise == INSTANCE ResourcePool WITH
    Resources <- Slots, Borrowers <- Clients,
    Absent <- "absent", Free <- "free", Dirty <- "dirty",
    owner <- PoolOwner, pristine <- clean

\* Every behaviour of the pool is one of ResourcePool: a state has one user at
\* a time and is clean for each.
KeepsPromise == Promise!RSpec
=============================================================================

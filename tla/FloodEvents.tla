----------------------------- MODULE FloodEvents -----------------------------
(***************************************************************************)
(* The event machinery of one graph flooder: the tracker of every detector *)
(* node and of every region (tracker/queued_event_tracker.h), the radix    *)
(* heap of look events (tracker/radix_heap_queue.h) with its cyclic times  *)
(* (tracker/cyclic.h), and the calls the flooder and the importer of       *)
(* stopped states make.  It is sequential; what is hard is that events are *)
(* never removed from the heap when they are superseded, that the objects  *)
(* they point to are cleared and reused meanwhile, and that the buckets    *)
(* are relative to a clock and to times that wrap around.                  *)
(***************************************************************************)
EXTENDS Integers, Sequences, FiniteSets, SequencesExt, FiniteSetsExt

CONSTANTS
    Nodes,          \* detector nodes
    Regions,        \* slots of the region arena
    Width,          \* bits of cyclic_time_int (32 in the code)
    Ahead,          \* the longest time a look is scheduled ahead
    MaxClock,       \* bound: the clock and the wishes stop here
    MaxPending      \* bound: events in the heap

Objects == Nodes \cup Regions
\* 1 << n
Power[n \in Nat] == IF n = 0 THEN 1 ELSE 2 * Power[n - 1]
Cycle == Power[Width]
Half == Power[Width - 1]
Cyclic == 0..(Cycle - 1)

\* A time half a cycle ahead would compare as the past.
ASSUME EventAssumption ==
    /\ Width \in Nat \ {0, 1}
    /\ Ahead \in 0..(Half - 1)
    /\ MaxClock \in Nat /\ MaxPending \in Nat
    /\ Nodes \cap Regions = {}

VARIABLES
    clock,      \* cur_time, a cumulative time
    buckets,    \* bit_buckets, each a stack of events
    tracker     \* node_event_tracker or shrink_event_tracker

vars == <<clock, buckets, tracker>>

-----------------------------------------------------------------------------
(* Cyclic times.                                                           *)

\* a > b
After(a, b) == (a - b - 1) % Cycle < Half - 1

\* The cumulative time near ref that wraps to c.
Widen(c, ref) ==
    LET up == ref + ((c - ref) % Cycle) IN
    IF After(ref % Cycle, c) THEN up - Cycle ELSE up

\* bit_width of the bits in which two times differ
BitBucket(c, now) ==
    Min({b \in 0..Width : c \div Power[b] = (now % Cycle) \div Power[b]})

-----------------------------------------------------------------------------
(* The radix heap.                                                         *)

EmptyBuckets == [b \in 0..Width |-> <<>>]
Places(heap) == UNION {{b} \X DOMAIN heap[b] : b \in 0..Width}
Pending == Cardinality(Places(buckets))
Empty == Pending = 0

\* enqueue, at a clock that shows now
Put(heap, event, now) ==
    [heap EXCEPT ![BitBucket(event.time, now)] = Append(@, event)]

LowestBucket == Min({b \in 0..Width : buckets[b] # <<>>})

\* The clock and the heap once bucket 0 holds the soonest events.
RefilledClock ==
    CASE LowestBucket = 0 -> clock
      [] LowestBucket = 1 -> clock + 1
      [] OTHER -> Widen(Min({e.time : e \in ToSet(buckets[LowestBucket])}), clock)

\* The heap once the first i events of the bucket have been moved.
Moved(source, now) ==
    LET moved[i \in 0..Len(buckets[source])] ==
          IF i = 0 THEN [buckets EXCEPT ![source] = <<>>]
          ELSE Put(moved[i - 1], buckets[source][i], now)
    IN moved

Redistribute(source, now) == Moved(source, now)[Len(buckets[source])]

RefilledBuckets ==
    CASE LowestBucket = 0 -> buckets
      [] LowestBucket = 1 -> [buckets EXCEPT ![0] = buckets[1], ![1] = <<>>]
      [] OTHER -> Redistribute(LowestBucket, RefilledClock)

\* What dequeue returns and what it leaves.
Soonest == Last(RefilledBuckets[0])
Popped == [RefilledBuckets EXCEPT ![0] = Front(@)]

-----------------------------------------------------------------------------
(* The trackers.                                                           *)

Idle == [desired |-> 0, queued |-> 0, hasDesired |-> FALSE, hasQueued |-> FALSE]

Init ==
    /\ clock = 0
    /\ buckets = EmptyBuckets
    /\ tracker = [o \in Objects |-> Idle]

\* set_desired_event: an event is queued unless one is that comes no later.
SetDesired(o, time) ==
    LET t == tracker[o] IN
    IF ~ t.hasQueued \/ After(t.queued, time)
    THEN /\ tracker' = [tracker EXCEPT ![o] = [desired |-> time, queued |-> time,
                                               hasDesired |-> TRUE, hasQueued |-> TRUE]]
         /\ buckets' = Put(buckets, [at |-> o, time |-> time], clock)
    ELSE /\ tracker' = [tracker EXCEPT ![o].desired = time, ![o].hasDesired = TRUE]
         /\ UNCHANGED buckets

SetNoDesired(o) ==
    /\ tracker' = [tracker EXCEPT ![o].hasDesired = FALSE]
    /\ UNCHANGED buckets

-----------------------------------------------------------------------------
(* The flooder.  It computes the time of an object's next event from the   *)
(* geometry of the regions, which is not modelled: any time from now on.   *)

Reschedule(o) ==
    /\ \/ /\ Pending < MaxPending
          /\ \E t \in clock..Min({clock + Ahead, MaxClock}) : SetDesired(o, t % Cycle)
       \/ SetNoDesired(o)
    /\ UNCHANGED clock

\* DetectorNode::reset, and the importer before it reschedules a node: events
\* that point to the node stay in the heap.
ResetNode(n) ==
    /\ tracker' = [tracker EXCEPT ![n] = Idle]
    /\ UNCHANGED <<clock, buckets>>

\* A region nothing is scheduled for is deleted and its memory used for a new
\* one: events that point to the old one now point to the new one.
ReuseRegion(r) ==
    /\ ~ tracker[r].hasDesired
    /\ tracker' = [tracker EXCEPT ![r] = Idle]
    /\ UNCHANGED <<clock, buckets>>

\* One turn of dequeue_valid.
Discard ==
    /\ ~ Empty
    /\ LET t == tracker[Soonest.at] IN
       /\ ~ (t.hasQueued /\ Soonest.time = t.queued /\ t.hasDesired)
       /\ tracker' = IF t.hasQueued /\ Soonest.time = t.queued
                     THEN [tracker EXCEPT ![Soonest.at].hasQueued = FALSE]
                     ELSE tracker
    /\ clock' = RefilledClock
    /\ buckets' = Popped

\* Mutant: the early event stays in the heap.
DeferKeeping ==
    /\ ~ Empty
    /\ LET t == tracker[Soonest.at] IN
       /\ t.hasQueued /\ Soonest.time = t.queued
       /\ t.hasDesired /\ Soonest.time # t.desired
       /\ tracker' = [tracker EXCEPT ![Soonest.at].queued = t.desired]
       /\ clock' = RefilledClock
       /\ buckets' = Put(RefilledBuckets, [at |-> Soonest.at, time |-> t.desired],
                           RefilledClock)

\* The object is wanted later than the event says: the event is queued again.
Defer ==
    /\ ~ Empty
    /\ LET t == tracker[Soonest.at] IN
       /\ t.hasQueued /\ Soonest.time = t.queued
       /\ t.hasDesired /\ Soonest.time # t.desired
       /\ tracker' = [tracker EXCEPT ![Soonest.at].queued = t.desired]
       /\ clock' = RefilledClock
       /\ buckets' = Put(Popped, [at |-> Soonest.at, time |-> t.desired], RefilledClock)

\* Mutant: any live event is good enough to look.
ProcessEarly ==
    /\ ~ Empty
    /\ LET t == tracker[Soonest.at] IN
       /\ t.hasQueued /\ Soonest.time = t.queued /\ t.hasDesired
       /\ tracker' = [tracker EXCEPT ![Soonest.at].hasQueued = FALSE,
                                     ![Soonest.at].hasDesired = FALSE]
    /\ clock' = RefilledClock
    /\ buckets' = Popped

\* The flooder looks at the object; what it does next are actions above.
Process ==
    /\ ~ Empty
    /\ LET t == tracker[Soonest.at] IN
       /\ t.hasQueued /\ Soonest.time = t.queued
       /\ t.hasDesired /\ Soonest.time = t.desired
       /\ tracker' = [tracker EXCEPT ![Soonest.at].hasQueued = FALSE,
                                     ![Soonest.at].hasDesired = FALSE]
    /\ clock' = RefilledClock
    /\ buckets' = Popped

Wanted == [o \in Objects |-> IF tracker[o].hasDesired
                             THEN Widen(tracker[o].desired, clock)
                             ELSE MaxClock + 1]

\* Mutant: the clock is advanced under the events in the heap.
AdvanceClockUnguarded ==
    /\ \E t \in clock..MaxClock :
         /\ t = clock \/ \A o \in Objects : t < Wanted[o]
         /\ clock' = t
    /\ UNCHANGED <<buckets, tracker>>

\* The importer of a child's stopped state moves its parent's clock to the time
\* the child stopped at.  All clusters run in lockstep, so the parent has done
\* what it wanted up to then.
AdvanceClock ==
    /\ Empty
    /\ \E t \in clock..MaxClock :
         /\ t = clock \/ \A o \in Objects : t < Wanted[o]
         /\ clock' = t
    /\ UNCHANGED <<buckets, tracker>>

\* Mwpm::reset, after an error or before the state goes back to its pool.
ResetAll ==
    /\ buckets' = EmptyBuckets
    /\ tracker' = [o \in Objects |-> Idle]
    /\ UNCHANGED clock

\* initialize_mwpm_for_detection_events
Restart ==
    /\ Empty
    /\ clock' = 0
    /\ UNCHANGED <<buckets, tracker>>

Next ==
    \/ \E o \in Objects : Reschedule(o)
    \/ \E n \in Nodes : ResetNode(n)
    \/ \E r \in Regions : ReuseRegion(r)
    \/ Discard \/ Defer \/ Process
    \/ AdvanceClock \/ ResetAll \/ Restart

Spec == Init /\ [][Next]_vars

-----------------------------------------------------------------------------
(* Properties.                                                             *)

\* Times in the heap and in the trackers are cyclic, the clock is not, and the
\* heap stays within its bound.
TypeOK ==
    /\ clock \in 0..MaxClock
    /\ buckets \in [0..Width -> Seq([at : Objects, time : Cyclic])]
    /\ tracker \in [Objects -> [desired : Cyclic, queued : Cyclic,
                                hasDesired : BOOLEAN, hasQueued : BOOLEAN]]
    /\ Pending <= MaxPending

\* An object that is wanted has an event in the heap that comes no later than it
\* is wanted, so an empty heap means that nothing is left to do: the flooder
\* stops there, and clusters are exported.  And every event is in the bucket its
\* time and the clock ask for (satisfies_invariants), so that it is found in time.
NothingForgotten ==
  /\ \A b \in 0..Width : \A e \in ToSet(buckets[b]) : BitBucket(e.time, clock) = b
  /\ \A o \in Objects :
        LET t == tracker[o] IN
        t.hasDesired =>
            /\ t.hasQueued /\ ~ After(t.queued, t.desired)
            /\ [at |-> o, time |-> t.queued] \in UNION {ToSet(buckets[b]) : b \in 0..Width}

\* Superseded events, reused objects and wrapping times do not show: each object
\* is looked at once, at the time wanted, in the order of time.
Schedule == INSTANCE LookSchedule WITH now <- clock, wanted <- Wanted
KeepsSchedule == Schedule!ScheduleSpec

=============================================================================

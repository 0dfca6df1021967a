---------------------------- MODULE LookSchedule ----------------------------
(***************************************************************************)
(* What the flooder is promised by its event trackers and its queue: every *)
(* object it wants to look at is looked at exactly once, exactly at the    *)
(* wanted time and in the order of time, unless the wish is changed or     *)
(* withdrawn first.                                                        *)
(***************************************************************************)
EXTENDS Naturals

CONSTANTS Objects, MaxClock

VARIABLES now, wanted

Never == MaxClock + 1

SInit == now = 0 /\ wanted = [o \in Objects |-> Never]

\* Wish for a look at o at a time that has not passed.
Want(o) ==
    /\ \E t \in now..MaxClock : wanted' = [wanted EXCEPT ![o] = t]
    /\ UNCHANGED now

Withdraw(os) ==
    /\ wanted' = [o \in Objects |-> IF o \in os THEN Never ELSE wanted[o]]
    /\ UNCHANGED now

\* The next wanted look happens.
Look(o) ==
    /\ wanted[o] # Never
    /\ \A p \in Objects : wanted[o] <= wanted[p]
    /\ now' = wanted[o]
    /\ wanted' = [wanted EXCEPT ![o] = Never]

\* Time may pass, but over no wanted look.
Wait ==
    /\ \E t \in now..MaxClock : (\A o \in Objects : t <= wanted[o]) /\ now' = t
    /\ UNCHANGED wanted

\* A new matching starts at time zero, when nothing is wanted.
Rewind ==
    /\ \A o \in Objects : wanted[o] = Never
    /\ now' = 0
    /\ UNCHANGED wanted

SNext ==
    \/ \E o \in Objects : Want(o) \/ Look(o)
    \/ \E os \in SUBSET Objects : Withdraw(os)
    \/ Wait
    \/ Rewind

ScheduleSpec == SInit /\ [][SNext]_<<now, wanted>>

=============================================================================

----------------------------- MODULE ResourcePool -----------------------------
(***************************************************************************)
(* What the pool of MWPM states promises its users, without queues, locks  *)
(* or threads: a resource is lent to at most one borrower at a time, it is *)
(* pristine when it is lent, and it is lent again only after it has been   *)
(* cleaned.                                                                *)
(***************************************************************************)
CONSTANTS Resources, Borrowers,
          Absent, Free, Dirty   \* three values that are no borrower

VARIABLES
    owner,      \* Absent, Free, Dirty or the borrower, for each resource
    pristine    \* is the resource as good as new?

rvars == <<owner, pristine>>

RInit ==
    /\ owner = [x \in Resources |-> Absent]
    /\ pristine = [x \in Resources |-> TRUE]

\* Some absent resources are built; a new resource is free.
Build ==
    /\ \E X \in SUBSET {x \in Resources : owner[x] = Absent} :
         owner' = [x \in Resources |-> IF x \in X THEN Free ELSE owner[x]]
    /\ UNCHANGED pristine

Lend(b, x) ==
    /\ owner[x] = Free
    /\ pristine[x]
    /\ owner' = [owner EXCEPT ![x] = b]
    /\ UNCHANGED pristine

Use(b, x) ==
    /\ owner[x] = b
    /\ pristine' = [pristine EXCEPT ![x] = FALSE]
    /\ UNCHANGED owner

Return(b, x) ==
    /\ owner[x] = b
    /\ owner' = [owner EXCEPT ![x] = Dirty]
    /\ UNCHANGED pristine

Clean(x) ==
    /\ owner[x] = Dirty
    /\ pristine' = [pristine EXCEPT ![x] = TRUE]
    /\ UNCHANGED owner

Offer(x) ==
    /\ owner[x] = Dirty
    /\ pristine[x]
    /\ owner' = [owner EXCEPT ![x] = Free]
    /\ UNCHANGED pristine

RNext ==
    \/ Build
    \/ \E x \in Resources :
         \/ \E b \in Borrowers : Lend(b, x) \/ Use(b, x) \/ Return(b, x)
         \/ Clean(x) \/ Offer(x)

RSpec == RInit /\ [][RNext]_rvars
=============================================================================

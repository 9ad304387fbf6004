---- MODULE ResourceLock ----
(***************************************************************************)
(* What pkg/distlock promises to its callers: a resource key is owned by   *)
(* at most one holder, it is granted only while it is free, and it becomes *)
(* free when its owner unlocks it or when the owner's database session     *)
(* ends.                                                                   *)
(***************************************************************************)
CONSTANTS
    Keys,       \* resource keys passed to DistributedLocker.Lock
    Owners,     \* callers of Lock
    Nobody      \* owner of a free key

VARIABLE owner  \* owner[k]: who holds key k

Init == owner = [k \in Keys |-> Nobody]

\* Mutant of Acquire: the shared variant of the advisory lock.
AcquireShared(p, k) == owner' = [owner EXCEPT ![k] = p]

\* Lock with Wait: the call blocks until the key is free, then owns it.
Acquire(p, k) ==
    /\ owner[k] = Nobody
    /\ owner' = [owner EXCEPT ![k] = p]

\* LockedResources.Unlock by the owner.
Release(p, k) ==
    /\ owner[k] = p
    /\ owner' = [owner EXCEPT ![k] = Nobody]

\* The sessions of the owners in P end (process death): the server frees
\* every key they held.
EndSessions(P) ==
    owner' = [k \in Keys |-> IF owner[k] \in P THEN Nobody ELSE owner[k]]

Next ==
    \/ \E p \in Owners, k \in Keys : Acquire(p, k) \/ Release(p, k)
    \/ \E P \in SUBSET Owners : EndSessions(P)

Spec == Init /\ [][Next]_owner
====

---- MODULE MCAdvisoryLock ----
(* Finite instances of AdvisoryLock for TLC. *)
EXTENDS AdvisoryLock, TLC

CONSTANTS a, b, s1, s2

\* Two callers of one process, whose pool may open two sessions.
MCPool == (a :> {s1, s2}) @@ (b :> {s1, s2})

Waiting(ks) == [keys |-> ks, wait |-> TRUE]
NotWaiting(ks) == [keys |-> ks, wait |-> FALSE]

\* Two keys in both orders, the larger one alone, and both modes.
MCRequests == {Waiting(<<1, 2>>), Waiting(<<2, 1>>), NotWaiting(<<1, 2>>), Waiting(<<2>>)}

MCSymmetry == Permutations({a, b}) \cup Permutations({s1, s2})
====

---- MODULE MCPostgresBus ----
(* Finite instances of PostgresBus for TLC. *)
EXTENDS PostgresBus, TLC

CONSTANTS s1, s2, w1, w2

\* One worker for each subscription.
MCSubOf == (w1 :> s1) @@ (w2 :> s2)
MCOneSub == w1 :> s1
====

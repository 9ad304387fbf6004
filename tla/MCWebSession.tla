---- MODULE MCWebSession ----
(* Finite instances of WebSession for TLC. *)
EXTENDS WebSession, TLC

CONSTANTS x1, x2, tab, c1, c2, c3, u1, p1, t1, t2, t3

MCRequests == Pages \X {"refresh", "login", "logout"}

\* The page after the reload goes on with the session of the one before.
MCForms == {x1} \X {"login", "logout"}

\* Two loads by one tab: the second one is a reload.
MCTabOf == [x \in Pages |-> tab]

MCPageOf == (c1 :> x1) @@ (c2 :> x1) @@ (c3 :> x2)
====

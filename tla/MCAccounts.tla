---- MODULE MCAccounts ----
(* Finite instances of Accounts for TLC. *)
EXTENDS Accounts, TLC

CONSTANTS u1, u2, p1, t1, t2, t3, r1, r2

MCUpdates == {[role |-> "owner"], [role |-> "member"], [active |-> FALSE]}

MCSymmetry == Permutations(Users) \cup Permutations(Tokens) \cup Permutations(Requests)
====

---- MODULE MCChatTurns ----
(* Finite instances of ChatTurns for TLC. *)
EXTENDS ChatTurns

CONSTANTS ann, bob, k1, r1, r2
====

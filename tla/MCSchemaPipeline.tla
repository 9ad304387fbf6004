---- MODULE MCSchemaPipeline ----
(* Finite instances of SchemaPipeline for TLC. *)
EXTENDS SchemaPipeline, TLC

CONSTANTS c1, n1, n2, w1, w2, r1, r2, q1

\* Two schema contents: one with two chunks, one without tables or views.
MCHashes == {"full", "empty"}
MCParts == {1, 2}
MCChunksOf == [h \in MCHashes |-> IF h = "full" THEN MCParts ELSE {}]

\* One worker on each of two instances (EmbeddingConcurrency = 1).
MCInstanceOf == (w1 :> n1) @@ (w2 :> n2)

\* Requests are interchangeable, and so are the instances together with their
\* workers; every property of the safety run is symmetric in both.
MCSymmetry ==
    {f \in Permutations({r1, r2, w1, w2, n1, n2}) :
        /\ f[r1] \in {r1, r2}
        /\ \A w \in {w1, w2} :
              f[w] \in {w1, w2} /\ MCInstanceOf[f[w]] = f[MCInstanceOf[w]]}
====

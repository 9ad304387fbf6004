---- MODULE MCChunkSplitting ----
(***************************************************************************)
(* Texts of a few lines around the limit of 8 runes, and long ones.  Parts *)
(* are counted in base 5, so that headers of four, six and eight runes     *)
(* occur in texts of this size; the last kind leaves no room.              *)
(***************************************************************************)
EXTENDS ChunkSplitting, FiniteSetsExt, SequencesExt

\* The text whose lines have these lengths.
MCText(lengths) == [i \in DOMAIN lengths |-> FoldLeft(+, 0, SubSeq(lengths, 1, i))]

MCTexts ==
    {MCText(<<l>> \o s) : l \in {0, 3, 7}, s \in BoundedSeq({1, 2, 4, 5, 8}, 4)}
        \cup {MCText([i \in 1 .. n |-> d]) : n \in 6 .. 13, d \in {1, 3, 4, 6}}

Digits(n) == IF n < 5 THEN 1 ELSE IF n < 25 THEN 2 ELSE 3

MCHeaderRunes(part, total) == 2 + Digits(part) + Digits(total)
====

---- MODULE ChunkSplitting ----
(***************************************************************************)
(* splitChunkContent: the rendered text of a table or a view is cut into   *)
(* chunks of at most maxChunkContentRunes runes, each under a header that  *)
(* names the object, the part and the number of parts.  The header's       *)
(* length depends on the number of parts, which depends on the room the    *)
(* headers leave: the text is split again, more narrowly, until they fit.  *)
(*                                                                         *)
(* A text is the sequence of its lines, given by where each ends, in runes *)
(* from the start; every line but the first begins with its newline.  A    *)
(* body is the interval of the text it holds.                              *)
(***************************************************************************)
EXTENDS Integers, Sequences

CONSTANTS
    Texts,
    MaxContent,         \* maxChunkContentRunes
    Reserve,            \* splitChunkHeaderReserve
    HeaderRunes(_, _)   \* length of the header of a part, given part and total

\* Lines have a length, all but the first not zero; the header of the last part
\* is the longest.
ASSUME ChunkSplittingAssumption ==
    /\ MaxContent \in Nat
    /\ Reserve \in Nat
    /\ \A ends \in Texts :
          /\ ends \in Seq(Nat)
          /\ Len(ends) > 0
          /\ \A i, j \in 1 .. Len(ends) : i < j => ends[i] < ends[j]
          /\ \A total \in 1 .. ends[Len(ends)] : \A part \in 1 .. total :
                /\ HeaderRunes(part, total) \in Nat
                /\ HeaderRunes(part, total) <= HeaderRunes(total, total)

VARIABLES
    ends,       \* the text
    pc,
    limit,      \* bodyLimit
    bodies,
    line,       \* the line splitContentIntoBodies is at
    from        \* where the text begins that is in no body yet

vars == <<ends, pc, limit, bodies, line, from>>

\* MUTANT of AtLeastOne: the limit is not kept positive.
Unclamped(n) == n

AtLeastOne(n) == IF n < 1 THEN 1 ELSE n     \* minSplitChunkBodyRunes

Length == ends[Len(ends)]

\* Where line i begins; also where the text collected before line i ends.
LineStart(i) == IF i = 1 THEN 0 ELSE ends[i - 1]

Body == [from : Nat, to : Nat]

TypeOK ==
    /\ ends \in Seq(Nat) /\ Len(ends) > 0
    /\ pc \in {"start", "line", "pieces", "measure", "whole", "split"}
    /\ limit \in Nat \ {0}
    /\ bodies \in Seq(Body)
    /\ line \in 1 .. Len(ends) + 1
    /\ from \in 0 .. Length

Init ==
    /\ ends \in Texts
    /\ pc = "start"
    /\ limit = AtLeastOne(MaxContent - Reserve)
    /\ bodies = <<>>
    /\ line = 1
    /\ from = 0

-----------------------------------------------------------------------------
\* A text that fits is one chunk without a header.
Fits ==
    /\ pc = "start"
    /\ Length <= MaxContent
    /\ bodies' = <<[from |-> 0, to |-> Length]>>
    /\ pc' = "whole"
    /\ UNCHANGED <<ends, limit, line, from>>

TooLong ==
    /\ pc = "start"
    /\ Length > MaxContent
    /\ pc' = "line"
    /\ UNCHANGED <<ends, limit, bodies, line, from>>

\* flush: what has been collected becomes a body.
Flushed ==
    IF from < LineStart(line)
    THEN Append(bodies, [from |-> from, to |-> LineStart(line)])
    ELSE bodies

\* MUTANT of ShortLine: a body is filled up before the next one begins.
ShortLineWrapped ==
    /\ pc = "line"
    /\ line <= Len(ends)
    /\ ends[line] - LineStart(line) <= limit
    /\ IF ends[line] - from > limit
       THEN /\ bodies' = Append(bodies, [from |-> from, to |-> from + limit])
            /\ from' = from + limit
       ELSE UNCHANGED <<bodies, from>>
    /\ line' = line + 1
    /\ UNCHANGED <<ends, pc, limit>>

\* A line no longer than a body joins the text collected if it fits beside it.
ShortLine ==
    /\ pc = "line"
    /\ line <= Len(ends)
    /\ ends[line] - LineStart(line) <= limit
    /\ IF ends[line] - from > limit
       THEN bodies' = Flushed /\ from' = LineStart(line)
       ELSE UNCHANGED <<bodies, from>>
    /\ line' = line + 1
    /\ UNCHANGED <<ends, pc, limit>>

\* MUTANT of LongLine: flush is forgotten, the text collected is lost.
LongLineUnflushed ==
    /\ pc = "line"
    /\ line <= Len(ends)
    /\ ends[line] - LineStart(line) > limit
    /\ from' = LineStart(line)
    /\ pc' = "pieces"
    /\ UNCHANGED <<ends, limit, bodies, line>>

\* A longer one is cut into pieces of its own.
LongLine ==
    /\ pc = "line"
    /\ line <= Len(ends)
    /\ ends[line] - LineStart(line) > limit
    /\ bodies' = Flushed
    /\ from' = LineStart(line)
    /\ pc' = "pieces"
    /\ UNCHANGED <<ends, limit, line>>

\* A pass of the loop of splitRunes.
Piece ==
    LET to == IF from + limit > ends[line] THEN ends[line] ELSE from + limit
    IN /\ pc = "pieces"
       /\ bodies' = Append(bodies, [from |-> from, to |-> to])
       /\ from' = to
       /\ IF to = ends[line]
          THEN pc' = "line" /\ line' = line + 1
          ELSE UNCHANGED <<pc, line>>
       /\ UNCHANGED <<ends, limit>>

LastLine ==
    /\ pc = "line"
    /\ line > Len(ends)
    /\ bodies' = Flushed
    /\ from' = Length
    /\ pc' = "measure"
    /\ UNCHANGED <<ends, limit, line>>

\* nextBodyLimit
Room == AtLeastOne(MaxContent - HeaderRunes(Len(bodies), Len(bodies)))

\* MUTANT of HeadersFit: the text is split once, whatever the headers take.
HeadersFitAnyway ==
    /\ pc = "measure"
    /\ pc' = "split"
    /\ UNCHANGED <<ends, limit, bodies, line, from>>

HeadersFit ==
    /\ pc = "measure"
    /\ Room >= limit
    /\ pc' = "split"
    /\ UNCHANGED <<ends, limit, bodies, line, from>>

\* MUTANT of SplitAgain: < has become <=.
SplitAgainAtEqual ==
    /\ pc = "measure"
    /\ Room <= limit
    /\ limit' = Room
    /\ bodies' = <<>>
    /\ line' = 1
    /\ from' = 0
    /\ pc' = "line"
    /\ UNCHANGED ends

SplitAgain ==
    /\ pc = "measure"
    /\ Room < limit
    /\ limit' = Room
    /\ bodies' = <<>>
    /\ line' = 1
    /\ from' = 0
    /\ pc' = "line"
    /\ UNCHANGED ends

Done == pc \in {"whole", "split"} /\ UNCHANGED vars

Next ==
    \/ Fits
    \/ TooLong
    \/ ShortLine
    \/ LongLine
    \/ Piece
    \/ LastLine
    \/ HeadersFit
    \/ SplitAgain
    \/ Done

Spec == Init /\ [][Next]_vars

\* A sequential function runs on.
FairSpec == Spec /\ WF_vars(Next)

-----------------------------------------------------------------------------
(* Properties *)

\* The bodies, one after the other, are the text: nothing is lost, repeated or
\* out of order (embed_snapshot_content.go:334).
BodiesAreTheText ==
    pc \in {"whole", "split"} =>
        /\ bodies # <<>>
        /\ bodies[1].from = 0
        /\ bodies[Len(bodies)].to = Length
        /\ \A i \in 1 .. Len(bodies) - 1 : bodies[i].to = bodies[i + 1].from

\* No chunk is longer than MaxContent, its header included, unless the name in
\* the header leaves no room for a body at all (embed_snapshot_content.go:312).
PartsFit ==
    /\ pc = "whole" => Length <= MaxContent
    /\ pc = "split" /\ HeaderRunes(Len(bodies), Len(bodies)) < MaxContent =>
          \A i \in 1 .. Len(bodies) :
              HeaderRunes(i, Len(bodies)) + (bodies[i].to - bodies[i].from) <= MaxContent

\* A line is cut only if it is longer than a body may be: a column's definition
\* is otherwise found whole in one chunk (embed_snapshot_content.go:358).
LinesStayWhole ==
    pc = "split" =>
        \A i \in 1 .. Len(bodies), l \in 1 .. Len(ends) :
            LineStart(l) < bodies[i].to /\ bodies[i].to < ends[l] => ends[l] - LineStart(l) > limit

\* The splitting comes to an end (embed_snapshot_content.go:319).
Terminates == <>(pc \in {"whole", "split"})
====

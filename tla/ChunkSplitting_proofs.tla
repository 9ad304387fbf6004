---- MODULE ChunkSplitting_proofs ----
(***************************************************************************)
(* For every set of texts, every limit and every length of headers: the    *)
(* bodies are the text, the chunks fit, and only long lines are cut.       *)
(***************************************************************************)
EXTENDS ChunkSplitting, TLAPS

\* The bodies b, none longer than m, are the text up to f.
Tiles(b, f, m) ==
    /\ b \in Seq(Body)
    /\ Len(b) <= f
    /\ b = <<>> => f = 0
    /\ b # <<>> => b[1].from = 0 /\ b[Len(b)].to = f
    /\ \A i \in 1 .. Len(b) - 1 : b[i].to = b[i + 1].from
    /\ \A i \in 1 .. Len(b) : b[i].to - b[i].from <= m

\* No body of b ends inside a line of at most m runes.
CutsLongLines(b, m) ==
    \A i \in 1 .. Len(b), l \in 1 .. Len(ends) :
        LineStart(l) < b[i].to /\ b[i].to < ends[l] => ends[l] - LineStart(l) > m

\* Where the splitting is when it is at pc.
Position ==
    /\ pc = "start" => bodies = <<>> /\ line = 1 /\ from = 0
    /\ pc = "line" => from <= LineStart(line) /\ LineStart(line) <= from + limit
    /\ pc = "pieces" => /\ line <= Len(ends)
                        /\ LineStart(line) <= from
                        /\ from < ends[line]
                        /\ ends[line] - LineStart(line) > limit
    /\ pc \in {"measure", "split"} => from = Length
    /\ pc = "split" => Room >= limit
    /\ pc \in {"line", "pieces", "measure", "split"} => Length > MaxContent

IInv ==
    /\ TypeOK
    /\ ends \in Texts
    /\ Position
    /\ pc = "whole" => bodies = <<[from |-> 0, to |-> Length]>> /\ Length <= MaxContent
    /\ pc # "whole" => Tiles(bodies, from, limit) /\ CutsLongLines(bodies, limit)

-----------------------------------------------------------------------------
(* Lines *)

\* Lines follow one another up to the end of the text.
LEMMA LinesInOrder ==
    ASSUME ends \in Texts
    PROVE  /\ ends \in Seq(Nat) /\ Len(ends) \in Nat /\ Len(ends) > 0
           /\ Length \in Nat
           /\ \A l \in 1 .. Len(ends) + 1 : LineStart(l) \in 0 .. Length
           /\ \A l \in 1 .. Len(ends) : /\ ends[l] \in Nat
                                        /\ LineStart(l) <= ends[l]
                                        /\ ends[l] <= Length
                                        /\ LineStart(l + 1) = ends[l]
           /\ LineStart(Len(ends) + 1) = Length
           /\ \A l, k \in 1 .. Len(ends) + 1 : l < k => ends[l] <= LineStart(k)
<1>1. ends \in Seq(Nat) /\ Len(ends) \in Nat /\ Len(ends) > 0
  BY ChunkSplittingAssumption
<1>2. \A i, j \in 1 .. Len(ends) : i < j => ends[i] < ends[j]
  BY ChunkSplittingAssumption
<1>3. \A l \in 1 .. Len(ends) : ends[l] \in Nat
  BY <1>1
<1>4. Length \in Nat /\ \A l \in 1 .. Len(ends) : ends[l] <= Length
  BY <1>1, <1>2, <1>3 DEF Length
<1>5. \A l \in 1 .. Len(ends) + 1 : l # 1 => l - 1 \in 1 .. Len(ends)
  BY <1>1
<1>6. \A l \in 1 .. Len(ends) + 1 : LineStart(l) \in 0 .. Length
  BY <1>3, <1>4, <1>5 DEF LineStart
<1>7. \A l \in 1 .. Len(ends) : LineStart(l) <= ends[l]
  <2> SUFFICES ASSUME NEW l \in 1 .. Len(ends) PROVE LineStart(l) <= ends[l]
    OBVIOUS
  <2>1. CASE l = 1
    BY <2>1, <1>3 DEF LineStart
  <2>2. CASE l # 1
    <3>1. l - 1 \in 1 .. Len(ends) /\ l - 1 < l
      BY <2>2, <1>1
    <3>2. ends[l - 1] < ends[l]
      BY <3>1, <1>2
    <3> QED
      BY <2>2, <3>1, <3>2, <1>3 DEF LineStart
  <2> QED
    BY <2>1, <2>2
<1>8. \A l \in 1 .. Len(ends) : LineStart(l + 1) = ends[l]
  BY <1>1 DEF LineStart
<1>9. LineStart(Len(ends) + 1) = Length
  BY <1>1 DEF LineStart, Length
<1>10. \A l, k \in 1 .. Len(ends) + 1 : l < k => ends[l] <= LineStart(k)
  <2> SUFFICES ASSUME NEW l \in 1 .. Len(ends) + 1, NEW k \in 1 .. Len(ends) + 1, l < k
               PROVE  ends[l] <= LineStart(k)
    OBVIOUS
  <2>1. LineStart(k) = ends[k - 1] /\ k - 1 \in 1 .. Len(ends) /\ l \in 1 .. Len(ends)
    BY <1>1 DEF LineStart
  <2>2. l = k - 1 \/ l < k - 1
    BY <1>1
  <2> QED
    BY <2>1, <2>2, <1>2, <1>3
<1> QED
  BY <1>1, <1>3, <1>4, <1>6, <1>7, <1>8, <1>9, <1>10

\* The position at which a line ends or begins is inside no line.
LEMMA NotInside ==
    ASSUME ends \in Texts, NEW k \in 1 .. Len(ends) + 1, NEW l \in 1 .. Len(ends)
    PROVE  ~(LineStart(l) < LineStart(k) /\ LineStart(k) < ends[l])
<1>1. CASE l < k
  BY <1>1, LinesInOrder
<1>2. CASE l = k
  BY <1>2, LinesInOrder
<1>3. CASE k < l
  <2>1. ends[k] <= LineStart(l) /\ LineStart(k) <= ends[k]
    BY <1>3, LinesInOrder
  <2>2. ends[k] \in Nat /\ LineStart(k) \in Nat /\ LineStart(l) \in Nat
    BY <1>3, LinesInOrder
  <2> QED
    BY <2>1, <2>2
<1> QED
  BY <1>1, <1>2, <1>3, LinesInOrder

\* A position inside line k, or at its end, is inside no other line.
LEMMA InsideOne ==
    ASSUME ends \in Texts, NEW k \in 1 .. Len(ends), NEW l \in 1 .. Len(ends), NEW p \in Nat,
           LineStart(k) < p, p <= ends[k], LineStart(l) < p, p < ends[l]
    PROVE  l = k
<1>1. l \in 1 .. Len(ends) + 1 /\ k \in 1 .. Len(ends) + 1
  <2>1. Len(ends) \in Nat
    BY LinesInOrder
  <2> QED
    BY <2>1
<1>2. /\ ends[l] \in Nat /\ ends[k] \in Nat
      /\ LineStart(l) \in 0 .. Length /\ LineStart(k) \in 0 .. Length
      /\ Length \in Nat
  BY <1>1, LinesInOrder
<1>3. l < k => ends[l] <= LineStart(k)
  BY <1>1, LinesInOrder
<1>4. k < l => ends[k] <= LineStart(l)
  BY <1>1, LinesInOrder
<1> QED
  BY <1>1, <1>2, <1>3, <1>4

-----------------------------------------------------------------------------
(* Bodies *)

\* Another body makes the tiling longer.
LEMMA TilesAppend ==
    ASSUME NEW b, NEW f \in Nat, NEW m \in Nat, NEW t \in Nat,
           Tiles(b, f, m), f < t, t <= f + m
    PROVE  Tiles(Append(b, [from |-> f, to |-> t]), t, m)
<1> DEFINE x == [from |-> f, to |-> t]
           c == Append(b, x)
<1>1. b \in Seq(Body) /\ x \in Body /\ Len(b) \in Nat
  BY DEF Tiles, Body
<1>2. c \in Seq(Body) /\ Len(c) = Len(b) + 1 /\ c # <<>>
  BY <1>1
<1>3. c[Len(b) + 1] = x /\ \A i \in 1 .. Len(b) : c[i] = b[i]
  BY <1>1
<1>4. Len(c) <= t
  BY <1>1, <1>2 DEF Tiles
<1>5. c[1].from = 0
  <2>1. CASE b = <<>>
    BY <2>1, <1>3 DEF Tiles
  <2>2. CASE b # <<>>
    BY <2>2, <1>1, <1>3 DEF Tiles
  <2> QED
    BY <2>1, <2>2
<1>6. c[Len(c)].to = t
  BY <1>2, <1>3
<1>7. ASSUME NEW i \in 1 .. Len(c) - 1 PROVE c[i].to = c[i + 1].from
  <2>1. CASE i = Len(b)
    <3>1. b # <<>> /\ b[i].to = f
      BY <2>1, <1>1, <1>2 DEF Tiles
    <3>2. c[i] = b[i] /\ c[i + 1] = x
      BY <2>1, <1>1, <1>2, <1>3
    <3> QED
      BY <3>1, <3>2
  <2>2. CASE i # Len(b)
    <3>1. i \in 1 .. Len(b) - 1 /\ i + 1 \in 1 .. Len(b) /\ i \in 1 .. Len(b)
      BY <2>2, <1>1, <1>2
    <3>2. c[i] = b[i] /\ c[i + 1] = b[i + 1]
      BY <3>1, <1>3
    <3> QED
      BY <3>1, <3>2 DEF Tiles
  <2> QED
    BY <2>1, <2>2
<1>8. ASSUME NEW i \in 1 .. Len(c) PROVE c[i].to - c[i].from <= m
  <2>1. CASE i = Len(b) + 1
    BY <2>1, <1>3
  <2>2. CASE i # Len(b) + 1
    <3>1. i \in 1 .. Len(b)
      BY <2>2, <1>1, <1>2
    <3> QED
      BY <3>1, <1>3 DEF Tiles
  <2> QED
    BY <2>1, <2>2
<1> QED
  BY <1>2, <1>4, <1>5, <1>6, <1>7, <1>8 DEF Tiles

\* Another body that ends well makes no bad cut.
LEMMA CutsAppend ==
    ASSUME NEW b \in Seq(Body), NEW x \in Body, NEW m,
           CutsLongLines(b, m),
           \A l \in 1 .. Len(ends) :
              LineStart(l) < x.to /\ x.to < ends[l] => ends[l] - LineStart(l) > m
    PROVE  CutsLongLines(Append(b, x), m)
<1>1. \A i \in 1 .. Len(Append(b, x)) :
          Append(b, x)[i] = IF i = Len(b) + 1 THEN x ELSE b[i]
  OBVIOUS
<1>2. \A i \in 1 .. Len(Append(b, x)) : i = Len(b) + 1 \/ i \in 1 .. Len(b)
  OBVIOUS
<1> QED
  BY <1>1, <1>2 DEF CutsLongLines

-----------------------------------------------------------------------------
(* The invariant *)

LEMMA InitIInv == Init => IInv
<1> SUFFICES ASSUME Init PROVE IInv
  OBVIOUS
<1>1. ends \in Texts /\ pc = "start" /\ bodies = <<>> /\ line = 1 /\ from = 0
  BY DEF Init
<1>2. limit \in Nat \ {0}
  BY ChunkSplittingAssumption DEF Init, AtLeastOne
<1>3. TypeOK
  BY <1>1, <1>2, LinesInOrder DEF TypeOK
<1>4. Position
  BY <1>1 DEF Position
<1>5. Tiles(bodies, from, limit) /\ CutsLongLines(bodies, limit)
  BY <1>1 DEF Tiles, CutsLongLines
<1> QED
  BY <1>1, <1>3, <1>4, <1>5 DEF IInv

\* flush keeps the tiling, which then ends where the line begins.
LEMMA FlushedTiles ==
    ASSUME IInv, pc = "line"
    PROVE  Tiles(Flushed, LineStart(line), limit) /\ CutsLongLines(Flushed, limit)
<1>1. /\ Tiles(bodies, from, limit) /\ CutsLongLines(bodies, limit)
      /\ from <= LineStart(line) /\ LineStart(line) <= from + limit
  BY DEF IInv, Position
<1>2. /\ ends \in Texts /\ limit \in Nat /\ bodies \in Seq(Body)
      /\ line \in 1 .. Len(ends) + 1 /\ from \in Nat
  BY LinesInOrder DEF IInv, TypeOK
<1>3. LineStart(line) \in Nat
  BY <1>2, LinesInOrder
<1>4. CASE from < LineStart(line)
  <2> DEFINE x == [from |-> from, to |-> LineStart(line)]
  <2>1. Flushed = Append(bodies, x)
    BY <1>4 DEF Flushed
  <2>2. Tiles(Flushed, LineStart(line), limit)
    BY <2>1, <1>1, <1>2, <1>3, <1>4, TilesAppend
  <2>3. x \in Body
    BY <1>2, <1>3 DEF Body
  <2>4. \A l \in 1 .. Len(ends) : ~(LineStart(l) < x.to /\ x.to < ends[l])
    BY <1>2, NotInside
  <2>5. CutsLongLines(Flushed, limit)
    <3> HIDE DEF x
    <3> QED
      BY <2>1, <2>3, <2>4, <1>1, <1>2, CutsAppend
  <2> QED
    BY <2>2, <2>5
<1>5. CASE ~(from < LineStart(line))
  <2>1. Flushed = bodies /\ from = LineStart(line)
    BY <1>1, <1>2, <1>3, <1>5 DEF Flushed
  <2> QED
    BY <2>1, <1>1
<1> QED
  BY <1>4, <1>5

-----------------------------------------------------------------------------
(* Steps *)

LEMMA StepIInv == IInv /\ [Next]_vars => IInv'
<1> SUFFICES ASSUME IInv, [Next]_vars PROVE IInv'
  OBVIOUS
<1>0. /\ ends \in Texts /\ ends \in Seq(Nat) /\ Len(ends) \in Nat /\ Len(ends) > 0
      /\ Length \in Nat
      /\ limit \in Nat \ {0} /\ bodies \in Seq(Body)
      /\ line \in 1 .. Len(ends) + 1 /\ from \in 0 .. Length
      /\ MaxContent \in Nat
  BY LinesInOrder, ChunkSplittingAssumption DEF IInv, TypeOK
<1>1. CASE Fits
  <2>1. [from |-> 0, to |-> Length] \in Body
    BY <1>0 DEF Body
  <2>2. bodies' \in Seq(Body)
    BY <1>1, <2>1 DEF Fits
  <2>3. TypeOK'
    BY <1>0, <1>1, <2>2 DEF Fits, TypeOK, Length, Body
  <2>4. ends' \in Texts /\ bodies' = <<[from |-> 0, to |-> Length']>> /\ Length' <= MaxContent
        /\ pc' = "whole"
    BY <1>0, <1>1 DEF Fits, Length
  <2> QED
    BY <2>3, <2>4 DEF IInv, Position
<1>2. CASE TooLong
  <2>1. bodies = <<>> /\ line = 1 /\ from = 0
    BY <1>2 DEF IInv, Position, TooLong
  <2>2. TypeOK'
    BY <1>0, <1>2 DEF TooLong, TypeOK, Length, Body
  <2>3. Position'
    BY <1>0, <1>2, <2>1 DEF TooLong, Position, LineStart, Length
  <2>4. Tiles(bodies, from, limit)' /\ CutsLongLines(bodies, limit)'
    BY <1>0, <1>2, <2>1 DEF TooLong, Tiles, CutsLongLines
  <2> QED
    BY <1>0, <1>2, <2>2, <2>3, <2>4 DEF IInv, TooLong
<1>3. CASE ShortLine
  <2>1. /\ pc = "line" /\ pc' = "line" /\ line \in 1 .. Len(ends) /\ line' = line + 1
        /\ ends' = ends /\ limit' = limit /\ ends[line] - LineStart(line) <= limit
    BY <1>0, <1>3 DEF ShortLine
  <2>2. /\ LineStart(line) \in 0 .. Length /\ ends[line] \in Nat /\ ends[line] <= Length
        /\ LineStart(line) <= ends[line]
        /\ LineStart(line + 1) = ends[line]
    BY <1>0, <2>1, LinesInOrder
  <2>3. /\ from <= LineStart(line) /\ Length > MaxContent
        /\ Tiles(bodies, from, limit) /\ CutsLongLines(bodies, limit)
    BY <2>1 DEF IInv, Position
  <2>4. Tiles(bodies', from', limit) /\ CutsLongLines(bodies', limit)
    <3>1. CASE ends[line] - from > limit
      BY <1>3, <2>1, <3>1, FlushedTiles DEF ShortLine
    <3>2. CASE ~(ends[line] - from > limit)
      BY <1>3, <2>3, <3>2 DEF ShortLine
    <3> QED
      BY <3>1, <3>2
  <2>5. from' \in 0 .. Length /\ from' <= ends[line] /\ ends[line] <= from' + limit
    <3>1. CASE ends[line] - from > limit
      BY <1>0, <1>3, <2>1, <2>2, <3>1 DEF ShortLine
    <3>2. CASE ~(ends[line] - from > limit)
      <4>1. from' = from
        BY <1>3, <3>2 DEF ShortLine
      <4>2. from \in 0 .. Length /\ Length \in Nat /\ limit \in Nat
        BY <1>0
      <4> QED
        BY <2>2, <2>3, <3>2, <4>1, <4>2
    <3> QED
      BY <3>1, <3>2
  <2>6. LineStart(line)' = ends[line] /\ Length' = Length
    BY <2>1, <2>2 DEF LineStart, Length
  <2>7. TypeOK'
    BY <1>0, <2>1, <2>4, <2>5, <2>6 DEF TypeOK, Tiles
  <2>8. Position'
    BY <2>1, <2>3, <2>5, <2>6 DEF Position
  <2>9. Tiles(bodies, from, limit)' /\ CutsLongLines(bodies, limit)'
    BY <2>1, <2>4 DEF Tiles, CutsLongLines, LineStart
  <2> QED
    BY <1>0, <2>1, <2>7, <2>8, <2>9 DEF IInv
<1>4. CASE LongLine
  <2>1. /\ pc = "line" /\ pc' = "pieces" /\ line \in 1 .. Len(ends) /\ line' = line
        /\ ends' = ends /\ limit' = limit /\ ends[line] - LineStart(line) > limit
        /\ bodies' = Flushed /\ from' = LineStart(line)
    BY <1>0, <1>4 DEF LongLine
  <2>2. LineStart(line) \in 0 .. Length /\ ends[line] \in Nat
    BY <1>0, <2>1, LinesInOrder
  <2>3. Tiles(bodies', from', limit) /\ CutsLongLines(bodies', limit)
    BY <2>1, FlushedTiles
  <2>4. LineStart(line)' = LineStart(line) /\ Length' = Length
    BY <2>1 DEF LineStart, Length
  <2>5. TypeOK'
    BY <1>0, <2>1, <2>2, <2>3, <2>4 DEF TypeOK, Tiles
  <2>6. Length > MaxContent
    BY <2>1 DEF IInv, Position
  <2>7. Position'
    BY <1>0, <2>1, <2>2, <2>4, <2>6 DEF Position
  <2>8. Tiles(bodies, from, limit)' /\ CutsLongLines(bodies, limit)'
    BY <2>1, <2>3 DEF Tiles, CutsLongLines, LineStart
  <2> QED
    BY <1>0, <2>1, <2>5, <2>7, <2>8 DEF IInv
<1>5. CASE Piece
  <2> DEFINE to == IF from + limit > ends[line] THEN ends[line] ELSE from + limit
             x  == [from |-> from, to |-> to]
  <2>1. /\ pc = "pieces" /\ ends' = ends /\ limit' = limit
        /\ bodies' = Append(bodies, x) /\ from' = to
        /\ to = ends[line] => pc' = "line" /\ line' = line + 1
        /\ to # ends[line] => pc' = pc /\ line' = line
    BY <1>5 DEF Piece
  <2>2. /\ line \in 1 .. Len(ends) /\ LineStart(line) <= from /\ from < ends[line]
        /\ ends[line] - LineStart(line) > limit /\ Length > MaxContent
        /\ Tiles(bodies, from, limit) /\ CutsLongLines(bodies, limit)
    BY <1>0, <2>1 DEF IInv, Position
  <2>3. /\ LineStart(line) \in 0 .. Length /\ ends[line] \in Nat /\ ends[line] <= Length
        /\ LineStart(line + 1) = ends[line]
    BY <1>0, <2>2, LinesInOrder
  <2>4. to \in Nat /\ from < to /\ to <= from + limit /\ to <= ends[line] /\ LineStart(line) < to
    <3>1. from \in Nat /\ limit \in Nat \ {0} /\ LineStart(line) \in Nat /\ ends[line] \in Nat
      BY <1>0, <2>3
    <3>2. CASE from + limit > ends[line]
      <4>1. to = ends[line]
        BY <3>2
      <4> QED
        BY <2>2, <3>1, <3>2, <4>1
    <3>3. CASE ~(from + limit > ends[line])
      <4>1. to = from + limit
        BY <3>3
      <4> QED
        BY <2>2, <3>1, <3>3, <4>1
    <3> QED
      BY <3>2, <3>3
  <2>5. Tiles(bodies', from', limit)
    <3> HIDE DEF to
    <3> QED
      BY <1>0, <2>1, <2>2, <2>4, TilesAppend
  <2>6. CutsLongLines(bodies', limit)
    <3> HIDE DEF to
    <3>1. x \in Body
      BY <1>0, <2>4 DEF Body
    <3>2. \A l \in 1 .. Len(ends) :
             LineStart(l) < x.to /\ x.to < ends[l] => ends[l] - LineStart(l) > limit
      <4> SUFFICES ASSUME NEW l \in 1 .. Len(ends), LineStart(l) < to, to < ends[l]
                   PROVE  ends[l] - LineStart(l) > limit
        OBVIOUS
      <4>1. l = line
        BY <1>0, <2>2, <2>4, InsideOne
      <4> QED
        BY <4>1, <2>2
    <3> HIDE DEF x
    <3> QED
      BY <1>0, <2>1, <2>2, <3>1, <3>2, CutsAppend
  <2>7. /\ LineStart(line)' = IF to = ends[line] THEN ends[line] ELSE LineStart(line)
        /\ Length' = Length
    <3> HIDE DEF to
    <3> QED
      BY <2>1, <2>3 DEF LineStart, Length
  <2>8. TypeOK'
    <3> HIDE DEF to
    <3>1. bodies' \in Seq(Body)
      BY <2>5 DEF Tiles
    <3>2. from' \in 0 .. Length
      BY <1>0, <2>1, <2>3, <2>4
    <3>3. line' \in 1 .. Len(ends) + 1 /\ pc' \in {"line", "pieces"}
      BY <1>0, <2>1, <2>2
    <3> QED
      BY <1>0, <2>1, <2>7, <3>1, <3>2, <3>3 DEF TypeOK
  <2>9. Position'
    <3> HIDE DEF to
    <3>1. CASE to = ends[line]
      <4>1. pc' = "line" /\ from' = to /\ LineStart(line)' = to
        BY <2>1, <2>7, <3>1
      <4>2. from' <= LineStart(line)' /\ LineStart(line)' <= from' + limit'
        BY <1>0, <2>1, <2>4, <4>1
      <4> QED
        BY <2>2, <2>7, <4>1, <4>2 DEF Position
    <3>2. CASE to # ends[line]
      <4>1. pc' = "pieces" /\ from' = to /\ line' = line /\ ends' = ends /\ limit' = limit
            /\ LineStart(line)' = LineStart(line)
        BY <2>1, <2>7, <3>2
      <4>2. LineStart(line) \in Nat /\ line \in Nat
        BY <1>0, <2>3
      <4>3. LineStart(line) <= to /\ to < ends[line]
        BY <2>3, <2>4, <3>2, <4>2
      <4>4. line <= Len(ends)
        BY <1>0, <2>2
      <4> QED
        BY <2>2, <2>7, <4>1, <4>3, <4>4 DEF Position
    <3> QED
      BY <3>1, <3>2
  <2>10. Tiles(bodies, from, limit)' /\ CutsLongLines(bodies, limit)'
    BY <2>1, <2>5, <2>6 DEF Tiles, CutsLongLines, LineStart
  <2> QED
    BY <1>0, <2>1, <2>8, <2>9, <2>10 DEF IInv
<1>6. CASE LastLine
  <2>1. /\ pc = "line" /\ pc' = "measure" /\ line = Len(ends) + 1 /\ line' = line
        /\ ends' = ends /\ limit' = limit /\ bodies' = Flushed /\ from' = Length
    BY <1>0, <1>6 DEF LastLine
  <2>2. LineStart(line) = Length
    BY <1>0, <2>1, LinesInOrder
  <2>3. Tiles(bodies', from', limit) /\ CutsLongLines(bodies', limit)
    BY <2>1, <2>2, FlushedTiles
  <2>4. Length' = Length /\ Length > MaxContent
    BY <2>1 DEF Length, IInv, Position
  <2>5. TypeOK'
    BY <1>0, <2>1, <2>3, <2>4 DEF TypeOK, Tiles
  <2>6. Position'
    BY <2>1, <2>4 DEF Position
  <2>7. Tiles(bodies, from, limit)' /\ CutsLongLines(bodies, limit)'
    BY <2>1, <2>3 DEF Tiles, CutsLongLines, LineStart
  <2> QED
    BY <1>0, <2>1, <2>5, <2>6, <2>7 DEF IInv
<1>7. CASE HeadersFit
  <2>1. /\ pc = "measure" /\ pc' = "split" /\ Room >= limit
        /\ UNCHANGED <<ends, limit, bodies, line, from>>
    BY <1>7 DEF HeadersFit
  <2>2. Room' = Room /\ Length' = Length
    BY <2>1 DEF Room, Length
  <2>3. TypeOK'
    BY <1>0, <2>1, <2>2 DEF TypeOK
  <2>4. Position'
    BY <2>1, <2>2 DEF IInv, Position
  <2>5. Tiles(bodies, from, limit)' /\ CutsLongLines(bodies, limit)'
    BY <2>1 DEF IInv, Tiles, CutsLongLines, LineStart
  <2> QED
    BY <1>0, <2>1, <2>3, <2>4, <2>5 DEF IInv
<1>8. CASE SplitAgain
  <2>1. /\ pc = "measure" /\ pc' = "line" /\ limit' = Room /\ bodies' = <<>> /\ line' = 1
        /\ from' = 0 /\ ends' = ends
    BY <1>8 DEF SplitAgain
  <2>2. /\ Len(bodies) \in Nat /\ Len(bodies) <= Length /\ Len(bodies) > 0
        /\ Length > MaxContent
    BY <1>0, <2>1 DEF IInv, Position, Tiles
  <2>3. HeaderRunes(Len(bodies), Len(bodies)) \in Nat
    BY <1>0, <2>2, ChunkSplittingAssumption DEF Length
  <2>4. Room \in Nat \ {0}
    BY <1>0, <2>3 DEF Room, AtLeastOne
  <2>5. Length' = Length /\ LineStart(line)' = 0
    BY <2>1 DEF Length, LineStart
  <2>6. TypeOK'
    BY <1>0, <2>1, <2>4, <2>5 DEF TypeOK
  <2>7. Position'
    BY <2>1, <2>2, <2>4, <2>5 DEF Position
  <2>8. Tiles(bodies, from, limit)' /\ CutsLongLines(bodies, limit)'
    BY <2>1 DEF Tiles, CutsLongLines
  <2> QED
    BY <1>0, <2>1, <2>6, <2>7, <2>8 DEF IInv
<1>9. CASE UNCHANGED vars
  <2>1. UNCHANGED <<ends, pc, limit, bodies, line, from>>
    BY <1>9 DEF vars
  <2> QED
    BY <2>1 DEF IInv, TypeOK, Position, Tiles, CutsLongLines, LineStart, Length, Room
<1> QED
  BY <1>1, <1>2, <1>3, <1>4, <1>5, <1>6, <1>7, <1>8, <1>9 DEF Next, Done

LEMMA AlwaysIInv == Spec => []IInv
BY InitIInv, StepIInv, PTL DEF Spec

-----------------------------------------------------------------------------
(* Theorems *)

\* The bounds and types of the state are kept; above all the limit stays
\* positive, so that every pass of the loop cuts something off.
THEOREM SplittingTypeOK == Spec => []TypeOK
<1>1. IInv => TypeOK
  BY DEF IInv
<1> QED
  BY <1>1, AlwaysIInv, PTL

\* The bodies are the text, for every text and limit (splitContentIntoBodies).
THEOREM SplittingKeepsText == Spec => []BodiesAreTheText
<1>1. ASSUME IInv PROVE BodiesAreTheText
  <2>0. Length \in Nat /\ MaxContent \in Nat
    BY <1>1, LinesInOrder, ChunkSplittingAssumption DEF IInv
  <2>1. CASE pc = "whole"
    <3>1. bodies = <<[from |-> 0, to |-> Length]>>
      BY <1>1, <2>1 DEF IInv
    <3>2. Len(bodies) = 1 /\ bodies[1] = [from |-> 0, to |-> Length] /\ bodies # <<>>
      BY <3>1
    <3> QED
      BY <3>2 DEF BodiesAreTheText
  <2>2. CASE pc = "split"
    <3>1. Tiles(bodies, Length, limit) /\ Length > MaxContent
      BY <1>1, <2>2 DEF IInv, Position
    <3>2. bodies # <<>>
      BY <2>0, <3>1 DEF Tiles
    <3> QED
      BY <2>2, <3>1, <3>2 DEF Tiles, BodiesAreTheText
  <2> QED
    BY <2>1, <2>2 DEF BodiesAreTheText
<1> QED
  BY <1>1, AlwaysIInv, PTL

\* No chunk is longer than MaxContent, whatever the lengths of the headers, if
\* they leave any room (splitChunkContent).
THEOREM SplittingFits == Spec => []PartsFit
<1>1. ASSUME IInv PROVE PartsFit
  <2>1. pc = "whole" => Length <= MaxContent
    BY <1>1 DEF IInv
  <2> DEFINE n == Len(bodies)
  <2>2. ASSUME pc = "split", HeaderRunes(n, n) < MaxContent, NEW i \in 1 .. n
        PROVE  HeaderRunes(i, n) + (bodies[i].to - bodies[i].from) <= MaxContent
    <3>1. /\ Tiles(bodies, Length, limit) /\ Room >= limit /\ ends \in Texts
          /\ bodies \in Seq(Body) /\ limit \in Nat \ {0}
      BY <1>1, <2>2 DEF IInv, Position, TypeOK
    <3>2. Length \in Nat /\ MaxContent \in Nat
      BY <3>1, LinesInOrder, ChunkSplittingAssumption
    <3>3. n \in 1 .. Length
      BY <2>2, <3>1, <3>2 DEF Tiles
    <3>4. /\ HeaderRunes(i, n) \in Nat /\ HeaderRunes(n, n) \in Nat
          /\ HeaderRunes(i, n) <= HeaderRunes(n, n)
      BY <2>2, <3>1, <3>3, ChunkSplittingAssumption DEF Length
    <3>5. limit <= MaxContent - HeaderRunes(n, n)
      BY <2>2, <3>1, <3>2, <3>4 DEF Room, AtLeastOne
    <3>6. bodies[i] \in Body /\ bodies[i].to - bodies[i].from <= limit
      BY <3>1 DEF Tiles
    <3>7. bodies[i].to \in Nat /\ bodies[i].from \in Nat /\ limit \in Nat
      BY <3>1, <3>6 DEF Body
    <3> QED
      BY <3>1, <3>2, <3>4, <3>5, <3>6, <3>7
  <2> QED
    BY <2>1, <2>2 DEF PartsFit
<1> QED
  BY <1>1, AlwaysIInv, PTL

\* Only a line longer than a body may be is cut (splitContentIntoBodies).
THEOREM SplittingKeepsLines == Spec => []LinesStayWhole
<1>1. IInv => LinesStayWhole
  BY DEF IInv, LinesStayWhole, CutsLongLines
<1> QED
  BY <1>1, AlwaysIInv, PTL
====

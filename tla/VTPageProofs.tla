---------------------------- MODULE VTPageProofs ----------------------------
(***************************************************************************)
(* Theorems about VTPage, for every set of sizes, counts and history sizes.  *)
(***************************************************************************)
EXTENDS VTPage, SequenceTheorems, TLAPS

USE PageAssumption DEF PageAssumption

\* The view and the margins.
Framed ==
    /\ size \in Sizes /\ margins \in Rects
    /\ 1 <= margins.left /\ margins.left < margins.right /\ margins.right <= size.cx
    /\ 1 <= margins.top /\ margins.top < margins.bottom /\ margins.bottom <= size.cy

\* What InPage says of a cursor that was placed.
Placed(c) == /\ ViewContains(c)
             /\ c.displaced => MarginsContain(c)
             /\ c.eol => c.x >= margins.right

\* A move that sets the row leaves c somewhere in a column, and the other way round.
ColOK(c) == c.x \in 1 .. size.cx /\ (c.displaced => HorzMarginsContain(c.x))
RowOK(c) == c.y \in 1 .. size.cy /\ (c.displaced => VertMarginsContain(c.y))

LEMMA FrameFacts ==
  ASSUME Framed
  PROVE  /\ size.cx \in Nat /\ size.cy \in Nat /\ size.cx > 1 /\ size.cy > 1
         /\ margins.left \in Nat /\ margins.right \in Nat
         /\ margins.top \in Nat /\ margins.bottom \in Nat
         /\ 1 <= margins.left /\ margins.left < margins.right /\ margins.right <= size.cx
         /\ 1 <= margins.top /\ margins.top < margins.bottom /\ margins.bottom <= size.cy
  BY DEF Framed, Rects

LEMMA Spans ==
  ASSUME Framed, NEW c \in Cursors, NEW m \in BOOLEAN
  PROVE  /\ ColSpan(c, m).lo \in Nat /\ ColSpan(c, m).hi \in Nat
         /\ 1 <= ColSpan(c, m).lo /\ ColSpan(c, m).lo <= ColSpan(c, m).hi
         /\ ColSpan(c, m).hi <= size.cx
         /\ c.displaced => ColSpan(c, m).lo = margins.left /\ ColSpan(c, m).hi = margins.right
         /\ RowSpan(c, m).lo \in Nat /\ RowSpan(c, m).hi \in Nat
         /\ 1 <= RowSpan(c, m).lo /\ RowSpan(c, m).lo <= RowSpan(c, m).hi
         /\ RowSpan(c, m).hi <= size.cy
         /\ c.displaced => RowSpan(c, m).lo = margins.top /\ RowSpan(c, m).hi = margins.bottom
<1>1. \A l, h : Span(l, h).lo = l /\ Span(l, h).hi = h
  BY DEF Span
<1>2. c.x \in Nat /\ c.y \in Nat
  BY DEF Cursors
<1> QED
  BY <1>1, <1>2, FrameFacts DEF ColSpan, RowSpan, HorzMarginsExist, VertMarginsExist,
     HorzMarginsContain, VertMarginsContain

LEMMA CursorFields ==
  ASSUME NEW c \in Cursors, NEW w \in Nat \ {0}
  PROVE  /\ c.x \in Nat \ {0} /\ c.y \in Nat \ {0}
         /\ LET d == [c EXCEPT !.x = w, !.eol = FALSE]
            IN  d \in Cursors /\ d.x = w /\ d.y = c.y /\ ~d.eol /\ (d.displaced <=> c.displaced)
         /\ LET d == [c EXCEPT !.y = w, !.eol = FALSE]
            IN  d \in Cursors /\ d.x = c.x /\ d.y = w /\ ~d.eol /\ (d.displaced <=> c.displaced)
         /\ LET d == [c EXCEPT !.eol = FALSE]
            IN  d \in Cursors /\ d.x = c.x /\ d.y = c.y /\ ~d.eol /\ (d.displaced <=> c.displaced)
         /\ LET d == [c EXCEPT !.eol = TRUE]
            IN  d \in Cursors /\ d.x = c.x /\ d.y = c.y /\ d.eol /\ (d.displaced <=> c.displaced)
  BY DEF Cursors

LEMMA MoveHorzOK ==
  ASSUME Framed, NEW c \in Cursors, NEW pos \in Int, NEW m \in BOOLEAN
  PROVE  LET d == MoveHorz(c, pos, m)
         IN  d \in Cursors /\ ColOK(d) /\ d.y = c.y /\ (d.displaced <=> c.displaced) /\ ~d.eol
<1> DEFINE v == Clamp(pos, ColSpan(c, m).lo, ColSpan(c, m).hi)
           D(w) == [c EXCEPT !.x = w, !.eol = FALSE]
<1>1. /\ v \in Nat \ {0} /\ v \in 1 .. size.cx
      /\ c.displaced => HorzMarginsContain(v)
  BY Spans, FrameFacts DEF Clamp, HorzMarginsContain
<1>2. MoveHorz(c, pos, m) = D(v)
  BY DEF MoveHorz
<1>3. ASSUME NEW w \in Nat \ {0}
      PROVE  /\ D(w) \in Cursors /\ D(w).x = w /\ D(w).y = c.y
             /\ ~D(w).eol /\ (D(w).displaced <=> c.displaced)
  BY DEF Cursors
<1> HIDE DEF v, D
<1> QED BY <1>1, <1>2, <1>3 DEF ColOK

LEMMA MoveVertOK ==
  ASSUME Framed, NEW c \in Cursors, NEW pos \in Int, NEW m \in BOOLEAN
  PROVE  LET d == MoveVert(c, pos, m)
         IN  d \in Cursors /\ RowOK(d) /\ d.x = c.x /\ (d.displaced <=> c.displaced) /\ ~d.eol
<1> DEFINE v == Clamp(pos, RowSpan(c, m).lo, RowSpan(c, m).hi)
           D(w) == [c EXCEPT !.y = w, !.eol = FALSE]
<1>1. /\ v \in Nat \ {0} /\ v \in 1 .. size.cy
      /\ c.displaced => VertMarginsContain(v)
  BY Spans, FrameFacts DEF Clamp, VertMarginsContain
<1>2. MoveVert(c, pos, m) = D(v)
  BY DEF MoveVert
<1>3. ASSUME NEW w \in Nat \ {0}
      PROVE  /\ D(w) \in Cursors /\ D(w).y = w /\ D(w).x = c.x
             /\ ~D(w).eol /\ (D(w).displaced <=> c.displaced)
  BY DEF Cursors
<1> HIDE DEF v, D
<1> QED BY <1>1, <1>2, <1>3 DEF RowOK

LEMMA PlacedParts ==
  ASSUME Framed, NEW c \in Cursors
  PROVE  /\ ColOK(c) /\ RowOK(c) /\ ~c.eol => Placed(c)
         /\ Placed(c) => ColOK(c) /\ RowOK(c)
  BY DEF ColOK, RowOK, Placed, ViewContains, MarginsContain

\* A horizontal or vertical move keeps a placed cursor placed.
LEMMA MovesPlaced ==
  ASSUME Framed, NEW c \in Cursors, NEW pos \in Int, NEW m \in BOOLEAN
  PROVE  /\ MoveHorz(c, pos, m) \in Cursors /\ MoveVert(c, pos, m) \in Cursors
         /\ Placed(c) => Placed(MoveHorz(c, pos, m)) /\ Placed(MoveVert(c, pos, m))
<1>1. /\ ColOK(MoveHorz(c, pos, m)) /\ MoveHorz(c, pos, m) \in Cursors
      /\ RowOK(c) => RowOK(MoveHorz(c, pos, m))
      /\ ~MoveHorz(c, pos, m).eol
  BY MoveHorzOK DEF RowOK
<1>2. /\ RowOK(MoveVert(c, pos, m)) /\ MoveVert(c, pos, m) \in Cursors
      /\ ColOK(c) => ColOK(MoveVert(c, pos, m))
      /\ ~MoveVert(c, pos, m).eol
  BY MoveVertOK DEF ColOK
<1> QED BY <1>1, <1>2, PlacedParts

LEMMA Composed ==
  ASSUME Framed, NEW c \in Cursors, NEW n \in Int
  PROVE  /\ ToLine(c, n) \in Cursors /\ ToColumn(c, n) \in Cursors
         /\ Right(c, n) \in Cursors /\ Home(c) \in Cursors /\ End(c) \in Cursors
         /\ Placed(c) => /\ Placed(ToLine(c, n)) /\ Placed(ToColumn(c, n))
                         /\ Placed(Right(c, n)) /\ Placed(Home(c)) /\ Placed(End(c))
<1>1. ASSUME NEW m \in BOOLEAN
      PROVE  /\ ColSpan(c, m).lo \in Int /\ ColSpan(c, m).hi \in Int
             /\ RowSpan(c, m).lo + n - 1 \in Int /\ ColSpan(c, m).lo + n - 1 \in Int
             /\ c.x + n \in Int
  BY Spans DEF Cursors
<1>2. ASSUME NEW m \in BOOLEAN, NEW p \in Int
      PROVE  /\ MoveHorz(c, p, m) \in Cursors /\ MoveVert(c, p, m) \in Cursors
             /\ Placed(c) => Placed(MoveHorz(c, p, m)) /\ Placed(MoveVert(c, p, m))
  BY MovesPlaced
<1> QED
  BY <1>1, <1>2, Zenon DEF ToLine, ToColumn, Right, Home, End

\* A cursor that is given a column and a row is placed, wherever it was.
LEMMA Corners ==
  ASSUME Framed, NEW c \in Cursors, NEW x \in Int, NEW y \in Int
  PROVE  /\ MoveTo(c, x, y) \in Cursors /\ Placed(MoveTo(c, x, y))
         /\ TopLeft(c) \in Cursors /\ Placed(TopLeft(c))
         /\ BottomRight(c) \in Cursors /\ Placed(BottomRight(c))
<1>1. ASSUME NEW d \in Cursors, NEW p \in Int, NEW q \in Int, NEW m \in BOOLEAN
      PROVE  /\ MoveHorz(MoveVert(d, p, m), q, m) \in Cursors
             /\ Placed(MoveHorz(MoveVert(d, p, m), q, m))
  <2>1. MoveVert(d, p, m) \in Cursors /\ RowOK(MoveVert(d, p, m))
    BY MoveVertOK
  <2>2. /\ MoveHorz(MoveVert(d, p, m), q, m) \in Cursors
        /\ ColOK(MoveHorz(MoveVert(d, p, m), q, m)) /\ RowOK(MoveHorz(MoveVert(d, p, m), q, m))
        /\ ~MoveHorz(MoveVert(d, p, m), q, m).eol
    BY <2>1, MoveHorzOK DEF RowOK
  <2> QED BY <2>2, PlacedParts
<1>2. ASSUME NEW d \in Cursors, NEW p \in Int, NEW q \in Int, NEW m \in BOOLEAN
      PROVE  /\ MoveVert(MoveHorz(d, q, m), p, m) \in Cursors
             /\ Placed(MoveVert(MoveHorz(d, q, m), p, m))
  <2>1. MoveHorz(d, q, m) \in Cursors /\ ColOK(MoveHorz(d, q, m))
    BY MoveHorzOK
  <2>2. /\ MoveVert(MoveHorz(d, q, m), p, m) \in Cursors
        /\ ColOK(MoveVert(MoveHorz(d, q, m), p, m)) /\ RowOK(MoveVert(MoveHorz(d, q, m), p, m))
        /\ ~MoveVert(MoveHorz(d, q, m), p, m).eol
    BY <2>1, MoveVertOK DEF ColOK
  <2> QED BY <2>2, PlacedParts
<1>3. ASSUME NEW d \in Cursors, NEW m \in BOOLEAN
      PROVE  /\ ColSpan(d, m).lo \in Int /\ ColSpan(d, m).hi \in Int
             /\ RowSpan(d, m).lo \in Int /\ RowSpan(d, m).hi \in Int
  BY Spans
<1>4. MoveTo(c, x, y) \in Cursors /\ Placed(MoveTo(c, x, y))
  <2> DEFINE p(m) == RowSpan(c, m).lo + y - 1
             q(m) == ColSpan(MoveVert(c, p(m), m), m).lo + x - 1
  <2>1. \A m \in BOOLEAN : p(m) \in Int
    BY <1>3
  <2>2. \A m \in BOOLEAN : q(m) \in Int
    BY <1>3, <2>1, MoveVertOK
  <2>3. MoveTo(c, x, y) = MoveHorz(MoveVert(c, p(FALSE), FALSE), q(FALSE), FALSE)
    BY DEF MoveTo, ToColumn, ToLine
  <2> HIDE DEF p, q
  <2> QED BY <1>1, <2>1, <2>2, <2>3, Zenon
<1>5. TopLeft(c) \in Cursors /\ Placed(TopLeft(c))
  <2> DEFINE q == ColSpan(c, TRUE).lo
             p == RowSpan(MoveHorz(c, q, TRUE), TRUE).lo
  <2>1. q \in Int
    BY <1>3
  <2>2. p \in Int
    BY <1>3, <2>1, MoveHorzOK
  <2>3. TopLeft(c) = MoveVert(MoveHorz(c, q, TRUE), p, TRUE)
    BY DEF TopLeft, Home
  <2> HIDE DEF p, q
  <2> QED BY <1>2, <2>1, <2>2, <2>3
<1>6. BottomRight(c) \in Cursors /\ Placed(BottomRight(c))
  <2> DEFINE q == ColSpan(c, TRUE).hi
             p == RowSpan(MoveHorz(c, q, TRUE), TRUE).hi
  <2>1. q \in Int
    BY <1>3
  <2>2. p \in Int
    BY <1>3, <2>1, MoveHorzOK
  <2>3. BottomRight(c) = MoveVert(MoveHorz(c, q, TRUE), p, TRUE)
    BY DEF BottomRight, End
  <2> HIDE DEF p, q
  <2> QED BY <1>2, <2>1, <2>2, <2>3
<1> QED BY <1>4, <1>5, <1>6

---------------------------------------------------------------------------
\* Pages.

Pages == [c : Cursors, l : Seq(Rows), s : Seq(Rows), r : Nat]

\* The page of a call in the view that is not resized.
Filled(p) == /\ p \in Pages
             /\ Len(p.l) = size.cy
             /\ \A i \in 1 .. size.cy : p.l[i].cells >= size.cx

\* A call moves the cursor c to d.
Follows(c, d) == d \in Cursors /\ (Placed(c) => Placed(d))

LEMMA ArrayOfRows ==
  ASSUME NEW n \in Nat, NEW f \in [1 .. n -> Rows]
  PROVE  f \in Seq(Rows) /\ Len(f) = n
  OBVIOUS

LEMMA TrimmedOK ==
  ASSUME NEW s \in Seq(Rows), NEW k \in Nat
  PROVE  Trimmed(s, k) \in Seq(Rows) /\ Len(Trimmed(s, k)) <= k /\ Len(Trimmed(s, k)) <= Len(s)
<1> DEFINE m == Least(Len(s), k)
<1>1. m \in Nat /\ m <= k /\ m <= Len(s)
  BY DEF Least
<1>2. \A i \in 1 .. m : s[Len(s) - m + i] \in Rows
  BY <1>1
<1>3. Tip(s, m) \in [1 .. m -> Rows]
  BY <1>2 DEF Tip
<1> HIDE DEF m
<1>4. Tip(s, m) \in Seq(Rows) /\ Len(Tip(s, m)) = m
  BY <1>1, <1>3, ArrayOfRows
<1> QED BY <1>1, <1>4 DEF Trimmed, m

LEMMA EolCleared ==
  ASSUME Framed, NEW c \in Cursors
  PROVE  Follows(c, ClearEol(c))
<1>1. /\ ClearEol(c) \in Cursors /\ ClearEol(c).x = c.x /\ ClearEol(c).y = c.y
      /\ ~ClearEol(c).eol /\ (ClearEol(c).displaced <=> c.displaced)
  BY DEF Cursors, ClearEol
<1> QED BY <1>1, PlacedParts DEF Follows, ColOK, RowOK

LEMMA FreshRow ==
  ASSUME Framed, NEW p \in Pages, NEW k \in Nat
  PROVE  Fresh(p, k) \in Rows /\ Fresh(p, k).cells = size.cx
  BY FrameFacts DEF Fresh, Rows, Pages

LEMMA PageFields ==
  ASSUME NEW p \in Pages, NEW c \in Cursors, NEW l \in Seq(Rows), NEW s \in Seq(Rows), NEW r \in Nat
  PROVE  LET q == [p EXCEPT !.c = c, !.r = r, !.s = s, !.l = l]
         IN  q \in Pages /\ q.c = c /\ q.l = l /\ q.s = s /\ q.r = r
  BY DEF Pages

LEMMA LineInsertOK ==
  ASSUME Framed, historysize \in Nat, NEW p, Filled(p),
         NEW pos \in Nat \ {0}, pos <= margins.bottom, NEW n0 \in Int
  PROVE  Filled(LineInsert(p, pos, n0)) /\ Follows(p.c, LineInsert(p, pos, n0).c)
<1> DEFINE n == Clamp(n0, 0, margins.bottom - pos + 1)
           f == [i \in 1 .. size.cy |->
                   IF i < pos \/ i > margins.bottom THEN p.l[i]
                   ELSE IF i < pos + n THEN Fresh(p, i - pos + 1) ELSE p.l[i - n]]
           q == LineInsert(p, pos, n0)
<1>1. n \in Nat /\ n <= margins.bottom - pos + 1 /\ p \in Pages
  BY FrameFacts DEF Clamp, Filled
<1>2. p.c \in Cursors /\ p.l \in Seq(Rows) /\ p.s \in Seq(Rows) /\ p.r \in Nat /\ Len(p.l) = size.cy
  BY DEF Filled, Pages
<1> HIDE DEF n
<1>9. /\ \A k \in Nat : Fresh(p, k) \in Rows /\ Fresh(p, k).cells >= size.cx
      /\ \A k \in 1 .. size.cy : p.l[k] \in Rows /\ p.l[k].cells >= size.cx
      /\ ClearEol(p.c) \in Cursors /\ p.r + n \in Nat
  <2>1. \A k \in Nat : Fresh(p, k) \in Rows /\ Fresh(p, k).cells >= size.cx
    BY <1>1, FreshRow, FrameFacts
  <2>2. \A k \in 1 .. size.cy : p.l[k] \in Rows /\ p.l[k].cells >= size.cx
    BY <1>2 DEF Filled
  <2>3. ClearEol(p.c) \in Cursors /\ p.r + n \in Nat
    BY <1>1, <1>2, EolCleared DEF Follows
  <2> QED BY <2>1, <2>2, <2>3
<1>3. ASSUME NEW i \in 1 .. size.cy
      PROVE  f[i] \in Rows /\ f[i].cells >= size.cx
  <2>1. /\ i \in Nat /\ 1 <= i /\ i <= size.cy /\ size.cy \in Nat
        /\ margins.bottom \in Nat /\ margins.bottom <= size.cy
    BY FrameFacts
  <2>2. CASE i < pos \/ i > margins.bottom
    <3>1. f[i] = p.l[i]
      BY <2>2
    <3> HIDE DEF f
    <3> QED BY <1>9, <3>1
  <2>3. CASE ~(i < pos \/ i > margins.bottom) /\ i < pos + n
    <3>1. f[i] = Fresh(p, i - pos + 1)
      BY <2>3
    <3>2. i - pos + 1 \in Nat
      BY <1>1, <2>1, <2>3
    <3> HIDE DEF f
    <3> QED BY <1>9, <3>1, <3>2
  <2>4. CASE ~(i < pos \/ i > margins.bottom) /\ ~(i < pos + n)
    <3>1. f[i] = p.l[i - n]
      BY <2>4
    <3>2. i - n \in 1 .. size.cy
      BY <1>1, <2>1, <2>4
    <3> HIDE DEF f
    <3> QED BY <1>9, <3>1, <3>2
  <2> QED BY <2>2, <2>3, <2>4
<1>4. f \in Seq(Rows) /\ Len(f) = size.cy
  <2> f \in [1 .. size.cy -> Rows]
    BY <1>3
  <2> QED BY ArrayOfRows, FrameFacts
<1>5. CASE n = 0
  <2> q = p
    BY <1>5 DEF LineInsert, n
  <2> QED BY <1>2 DEF Follows
<1>6. CASE n # 0 /\ HorzMarginsExist
  <2> q = [p EXCEPT !.c = ClearEol(p.c)]
    BY <1>6 DEF LineInsert, n
  <2> q \in Pages /\ q.c = ClearEol(p.c) /\ q.l = p.l /\ q.s = p.s
    BY <1>1, <1>2, EolCleared DEF Pages, Follows
  <2> QED BY <1>2, EolCleared DEF Filled
<1>7. CASE n # 0 /\ ~HorzMarginsExist
  <2>1. q = [p EXCEPT !.c = ClearEol(p.c), !.r = p.r + n, !.l = f]
    BY <1>7 DEF LineInsert, n
  <2> HIDE DEF f, q, n
  <2>2. q \in Pages /\ q.c = ClearEol(p.c) /\ q.l = f /\ q.s = p.s
    BY <2>1, <1>1, <1>2, <1>4, <1>9 DEF Pages
  <2> QED BY <2>2, <1>2, <1>3, <1>4, EolCleared DEF Filled, q
<1> QED BY <1>5, <1>6, <1>7

LEMMA LineRemoveOK ==
  ASSUME Framed, historysize \in Nat, NEW p, Filled(p),
         NEW pos \in Nat \ {0}, pos <= margins.bottom, NEW n0 \in Int
  PROVE  Filled(LineRemove(p, pos, n0)) /\ Follows(p.c, LineRemove(p, pos, n0).c)
<1> DEFINE n == Clamp(n0, 0, margins.bottom - pos + 1)
           f == [i \in 1 .. size.cy |->
                   IF i < pos \/ i > margins.bottom THEN p.l[i]
                   ELSE IF i + n <= margins.bottom THEN p.l[i + n]
                   ELSE Fresh(p, i + n - margins.bottom)]
           h == IF history /\ pos = 1 /\ margins = ViewOf(size) THEN Scrolled(p, n) ELSE p.s
           q == LineRemove(p, pos, n0)
<1>1. n \in Nat /\ n <= margins.bottom - pos + 1 /\ p \in Pages
  BY FrameFacts DEF Clamp, Filled
<1>2. p.c \in Cursors /\ p.l \in Seq(Rows) /\ p.s \in Seq(Rows) /\ p.r \in Nat /\ Len(p.l) = size.cy
  BY DEF Filled, Pages
<1> HIDE DEF n
<1>9. /\ \A k \in Nat : Fresh(p, k) \in Rows /\ Fresh(p, k).cells >= size.cx
      /\ \A k \in 1 .. size.cy : p.l[k] \in Rows /\ p.l[k].cells >= size.cx
      /\ ClearEol(p.c) \in Cursors /\ p.r + n \in Nat
  <2>1. \A k \in Nat : Fresh(p, k) \in Rows /\ Fresh(p, k).cells >= size.cx
    BY <1>1, FreshRow, FrameFacts
  <2>2. \A k \in 1 .. size.cy : p.l[k] \in Rows /\ p.l[k].cells >= size.cx
    BY <1>2 DEF Filled
  <2>3. ClearEol(p.c) \in Cursors /\ p.r + n \in Nat
    BY <1>1, <1>2, EolCleared DEF Follows
  <2> QED BY <2>1, <2>2, <2>3
<1>3. ASSUME NEW i \in 1 .. size.cy
      PROVE  f[i] \in Rows /\ f[i].cells >= size.cx
  <2>1. /\ i \in Nat /\ 1 <= i /\ i <= size.cy /\ size.cy \in Nat
        /\ margins.bottom \in Nat /\ margins.bottom <= size.cy
    BY FrameFacts
  <2>2. CASE i < pos \/ i > margins.bottom
    <3>1. f[i] = p.l[i]
      BY <2>2
    <3> HIDE DEF f
    <3> QED BY <1>9, <3>1
  <2>3. CASE ~(i < pos \/ i > margins.bottom) /\ i + n <= margins.bottom
    <3>1. f[i] = p.l[i + n]
      BY <2>3
    <3>2. i + n \in 1 .. size.cy
      BY <1>1, <2>1, <2>3
    <3> HIDE DEF f
    <3> QED BY <1>9, <3>1, <3>2
  <2>4. CASE ~(i < pos \/ i > margins.bottom) /\ ~(i + n <= margins.bottom)
    <3>1. f[i] = Fresh(p, i + n - margins.bottom)
      BY <2>4
    <3>2. i + n - margins.bottom \in Nat
      BY <1>1, <2>1, <2>4
    <3> HIDE DEF f
    <3> QED BY <1>9, <3>1, <3>2
  <2> QED BY <2>2, <2>3, <2>4
<1>4. f \in Seq(Rows) /\ Len(f) = size.cy
  <2> f \in [1 .. size.cy -> Rows]
    BY <1>3
  <2> QED BY ArrayOfRows, FrameFacts
<1>5. h \in Seq(Rows)
  <2>1. CASE history /\ pos = 1 /\ margins = ViewOf(size)
    <3>1. n <= Len(p.l)
      BY <1>1, <1>2, <2>1, FrameFacts
    <3>2. SubSeq(p.l, 1, n) \in Seq(Rows)
      <4> \A i \in 1 .. n : p.l[i] \in Rows
        BY <1>1, <1>2, <3>1
      <4> QED BY <1>1, SubSeqProperties
    <3>3. p.s \o SubSeq(p.l, 1, n) \in Seq(Rows)
      BY <1>2, <3>2, ConcatProperties
    <3> DEFINE all == p.s \o SubSeq(p.l, 1, n)
    <3>4. h = Trimmed(all, historysize + 1)
      BY <2>1 DEF Scrolled
    <3>5. all \in Seq(Rows) /\ historysize + 1 \in Nat
      BY <3>3
    <3> HIDE DEF h, all
    <3> QED BY <3>4, <3>5, TrimmedOK
  <2>2. CASE ~(history /\ pos = 1 /\ margins = ViewOf(size))
    BY <1>2, <2>2 DEF Filled
  <2> QED BY <2>1, <2>2
<1>6. CASE n = 0
  <2> q = p
    BY <1>6 DEF LineRemove, n
  <2> QED BY <1>2 DEF Follows
<1>7. CASE n # 0 /\ HorzMarginsExist
  <2> q = [p EXCEPT !.c = ClearEol(p.c)]
    BY <1>7 DEF LineRemove, n
  <2> q \in Pages /\ q.c = ClearEol(p.c) /\ q.l = p.l /\ q.s = p.s
    BY <1>1, <1>2, EolCleared DEF Pages, Follows
  <2> QED BY <1>2, EolCleared DEF Filled
<1>8. CASE n # 0 /\ ~HorzMarginsExist
  <2>1. q = [p EXCEPT !.c = ClearEol(p.c), !.r = p.r + n, !.s = h, !.l = f]
    BY <1>8 DEF LineRemove, n
  <2> HIDE DEF f, h, q, n
  <2>2. q \in Pages /\ q.c = ClearEol(p.c) /\ q.l = f /\ q.s = h
    BY <2>1, <1>1, <1>2, <1>4, <1>5, <1>9 DEF Pages
  <2>3. Filled(q)
    BY <2>2, <1>3, <1>4, <1>5 DEF Filled
  <2>4. Follows(p.c, q.c)
    BY <2>2, <1>2, EolCleared
  <2> QED BY <2>3, <2>4 DEF q
<1> QED BY <1>6, <1>7, <1>8

LEMMA FollowsTwice ==
  ASSUME NEW c, NEW d, NEW e, Follows(c, d), Follows(d, e)
  PROVE  Follows(c, e)
  BY DEF Follows

LEMMA CursorSet ==
  ASSUME NEW p, Filled(p), NEW c \in Cursors
  PROVE  Filled([p EXCEPT !.c = c]) /\ [p EXCEPT !.c = c].c = c
<1>1. p \in Pages
  BY DEF Filled
<1>2. LET q == [p EXCEPT !.c = c]
      IN  q \in Pages /\ q.c = c /\ q.l = p.l /\ q.s = p.s
  BY <1>1 DEF Pages
<1> QED BY <1>2 DEF Filled

\* Where a cursor scrolls, the first row it reaches lies within the margins.
LEMMA ScrollTop ==
  ASSUME Framed, NEW c \in Cursors,
         c.displaced \/ ~VertMarginsExist \/ VertMarginsContain(c.y)
  PROVE  RowSpan(c, TRUE).lo \in Nat \ {0} /\ RowSpan(c, TRUE).lo <= margins.bottom
<1>1. \A l, h : Span(l, h).lo = l /\ Span(l, h).hi = h
  BY DEF Span
<1>2. c.x \in Nat /\ c.y \in Nat
  BY DEF Cursors
<1> QED
  BY <1>1, <1>2, FrameFacts DEF RowSpan, VertMarginsExist, VertMarginsContain

LEMMA StepLineOK ==
  ASSUME Framed, historysize \in Nat, NEW p, Filled(p), NEW n \in Int
  PROVE  Filled(StepLine(p, n)) /\ Follows(p.c, StepLine(p, n).c)
<1> DEFINE pos == p.c.y + n
           s == RowSpan(p.c, TRUE)
           q == [p EXCEPT !.c = MoveVert(p.c, pos, TRUE)]
           scrollable == p.c.displaced \/ ~VertMarginsExist \/ VertMarginsContain(p.c.y)
<1>1. p.c \in Cursors /\ pos \in Int
  BY DEF Filled, Pages, Cursors
<1>2. \A m \in BOOLEAN : /\ MoveVert(p.c, pos, m) \in Cursors
                         /\ Placed(p.c) => Placed(MoveVert(p.c, pos, m))
  <2> HIDE DEF pos
  <2> QED BY <1>1, MovesPlaced
<1>3. Filled(q) /\ Follows(p.c, q.c)
  <2> HIDE DEF pos
  <2>1. Follows(p.c, MoveVert(p.c, pos, TRUE))
    BY <1>2, Zenon DEF Follows
  <2>2. MoveVert(p.c, pos, TRUE) \in Cursors
    BY <2>1 DEF Follows
  <2> QED BY <2>1, <2>2, CursorSet
<1>4. s.lo \in Int /\ s.hi \in Int /\ s.lo <= s.hi
  <2>1. \A m \in BOOLEAN : /\ RowSpan(p.c, m).lo \in Int /\ RowSpan(p.c, m).hi \in Int
                           /\ RowSpan(p.c, m).lo <= RowSpan(p.c, m).hi
    BY <1>1, Spans
  <2> QED BY <2>1, Zenon
<1> HIDE DEF q
<1>5. CASE scrollable /\ pos < s.lo
  <2>1. StepLine(p, n) = LineInsert(q, s.lo, s.lo - pos)
    BY <1>5 DEF StepLine, q
  <2>2. s.lo \in Nat \ {0} /\ s.lo <= margins.bottom
    BY <1>1, <1>5, ScrollTop
  <2> HIDE DEF s, pos
  <2>3. /\ Filled(LineInsert(q, s.lo, s.lo - pos))
        /\ Follows(q.c, LineInsert(q, s.lo, s.lo - pos).c)
    BY <1>1, <1>3, <1>4, <2>2, LineInsertOK
  <2> QED BY <1>3, <2>1, <2>3, FollowsTwice
<1>6. CASE scrollable /\ pos > s.hi
  <2>1. StepLine(p, n) = LineRemove(q, s.lo, pos - s.hi)
    <3>1. ~(pos < s.lo)
      <4> HIDE DEF s, pos
      <4> QED BY <1>1, <1>4, <1>6
    <3> QED BY <1>6, <3>1 DEF StepLine, q
  <2>2. s.lo \in Nat \ {0} /\ s.lo <= margins.bottom
    BY <1>1, <1>6, ScrollTop
  <2> HIDE DEF s, pos
  <2>4. pos - s.hi \in Int
    BY <1>1, <1>4
  <2>3. /\ Filled(LineRemove(q, s.lo, pos - s.hi))
        /\ Follows(q.c, LineRemove(q, s.lo, pos - s.hi).c)
    BY <1>3, <2>2, <2>4, LineRemoveOK
  <2> QED BY <1>3, <2>1, <2>3, FollowsTwice
<1>7. CASE ~(scrollable /\ pos < s.lo) /\ ~(scrollable /\ pos > s.hi)
  <2> StepLine(p, n) = q
    BY <1>7 DEF StepLine, q
  <2> QED BY <1>3
<1> QED BY <1>5, <1>6, <1>7

LEMMA HomeOf ==
  ASSUME Framed, NEW p, Filled(p)
  PROVE  LET q == [p EXCEPT !.c = Home(@)] IN Filled(q) /\ Follows(p.c, q.c)
<1>1. p.c \in Cursors
  BY DEF Filled, Pages
<1>2. Home(p.c) \in Cursors /\ (Placed(p.c) => Placed(Home(p.c)))
  BY <1>1, Composed
<1> QED BY <1>2, CursorSet DEF Follows

LEMMA PutOK ==
  ASSUME Framed, NEW c \in Cursors, NEW width
  PROVE  Follows(c, PutCell(c, width))
<1>1. ASSUME NEW d \in Cursors PROVE Follows(d, PutOne(d))
  <2>1. CASE d.x + 1 <= margins.right
    <3>1. Right(d, 1) \in Cursors /\ (Placed(d) => Placed(Right(d, 1)))
      <4>1. \A n \in Int : Right(d, n) \in Cursors /\ (Placed(d) => Placed(Right(d, n)))
        BY Composed
      <4> QED BY <4>1
    <3> QED BY <2>1, <3>1 DEF PutOne, Follows
  <2>2. CASE ~(d.x + 1 <= margins.right)
    <3>1. PutOne(d) = [d EXCEPT !.eol = TRUE] /\ d.x >= margins.right
      BY <2>2, FrameFacts DEF PutOne, Cursors
    <3>2. /\ PutOne(d) \in Cursors /\ PutOne(d).x = d.x /\ PutOne(d).y = d.y
          /\ PutOne(d).displaced <=> d.displaced
      BY <3>1 DEF Cursors
    <3> QED BY <3>1, <3>2 DEF Follows, Placed, ViewContains, MarginsContain
  <2> QED BY <2>1, <2>2
<1>2. PutOne(c) \in Cursors
  BY <1>1 DEF Follows
<1>3. Follows(c, PutOne(PutOne(c)))
  BY <1>1, <1>2, FollowsTwice
<1> QED BY <1>1, <1>3 DEF PutCell

LEMMA CellAddOK ==
  ASSUME Framed, historysize \in Nat, NEW p, Filled(p), NEW width
  PROVE  Filled(CellAdd(p, width)) /\ Follows(p.c, CellAdd(p, width).c)
<1> DEFINE w == StepLine(p, 1)
           h == [w EXCEPT !.c = Home(@)]
           q == IF autowrap /\ p.c.eol THEN h ELSE p
<1>1. Filled(w) /\ Follows(p.c, w.c)
  BY StepLineOK
<1>2. Filled(h) /\ Follows(w.c, h.c)
  <2> HIDE DEF w
  <2> QED BY <1>1, HomeOf
<1>3. p.c \in Cursors
  BY DEF Filled, Pages
<1>4. Filled(q) /\ Follows(p.c, q.c)
  <2> HIDE DEF w, h
  <2>1. Follows(p.c, h.c)
    BY <1>1, <1>2, FollowsTwice
  <2> QED BY <1>2, <1>3, <2>1 DEF Follows
<1>5. CellAdd(p, width) = [q EXCEPT !.c = PutCell(@, width)]
  BY DEF CellAdd
<1> HIDE DEF w, h, q
<1>6. q.c \in Cursors
  BY <1>4 DEF Follows
<1>7. Follows(q.c, PutCell(q.c, width)) /\ PutCell(q.c, width) \in Cursors
  BY <1>6, PutOK DEF Follows
<1>8. Filled(CellAdd(p, width)) /\ CellAdd(p, width).c = PutCell(q.c, width)
  BY <1>4, <1>5, <1>7, CursorSet
<1> QED BY <1>4, <1>7, <1>8, FollowsTwice

---------------------------------------------------------------------------
\* The steps.

LEMMA HereFilled ==
  ASSUME PageInv
  PROVE  /\ Framed /\ historysize \in Nat /\ cursor \in Cursors
         /\ Here \in Pages /\ Filled(Here)
         /\ Here.c = cursor /\ Here.l = lines /\ Here.s = saved /\ Here.r = rows
         /\ ~stale => Placed(cursor)
<1>1. Framed /\ historysize \in Nat /\ cursor \in Cursors
  BY DEF PageInv, TypeOK, InPage, Framed
<1>2. Here \in Pages /\ Here.c = cursor /\ Here.l = lines /\ Here.s = saved /\ Here.r = rows
  BY <1>1 DEF Here, Pages, PageInv, TypeOK
<1>3. Filled(Here)
  BY <1>2 DEF PageInv, LinesFit, Filled
<1>4. ~stale => Placed(cursor)
  BY DEF PageInv, InPage, Placed
<1> QED BY <1>1, <1>2, <1>3, <1>4

\* A call that keeps the view, and moves the cursor from where it was.
LEMMA BecomesOK ==
  ASSUME PageInv, NEW p, Filled(p), Follows(cursor, p.c), Becomes(p)
  PROVE  PageInv'
<1>1. /\ cursor' = p.c /\ lines' = p.l /\ saved' = p.s /\ rows' = p.r
      /\ size' = size /\ margins' = margins /\ backup' = backup /\ stale' = stale
      /\ autowrap' = autowrap /\ history' = history /\ historysize' = historysize
  BY DEF Becomes, view, conf
<1>2. cursor' \in Cursors /\ lines' \in Seq(Rows) /\ saved' \in Seq(Rows) /\ rows' \in Nat
  BY <1>1 DEF Filled, Pages
<1>3. TypeOK'
  BY <1>1, <1>2, Zenon DEF PageInv, TypeOK
<1>4. LinesFit'
  BY <1>1 DEF Filled, LinesFit
<1>5. ~stale => Placed(p.c)
  BY HereFilled DEF Follows
<1>6. InPage'
  BY <1>1, <1>5 DEF PageInv, InPage, Placed, ViewContains, MarginsContain,
     HorzMarginsContain, VertMarginsContain
<1> QED BY <1>3, <1>4, <1>6 DEF PageInv

LEMMA MovesOK ==
  ASSUME PageInv, NEW c, Follows(cursor, c), Moves(c)
  PROVE  PageInv'
<1>1. Filled([Here EXCEPT !.c = c]) /\ [Here EXCEPT !.c = c].c = c
  BY HereFilled, CursorSet DEF Follows
<1> QED BY <1>1, BecomesOK DEF Moves

\* A call that places the cursor, and leaves the view and the lines alone.
LEMMA PlacesOK ==
  ASSUME PageInv, cursor' \in Cursors, Placed(cursor'), stale' = FALSE,
         UNCHANGED <<view, backup, conf, text>>
  PROVE  PageInv'
<1>1. /\ size' = size /\ margins' = margins /\ backup' = backup
      /\ autowrap' = autowrap /\ history' = history /\ historysize' = historysize
      /\ lines' = lines /\ saved' = saved /\ rows' = rows
  BY DEF view, conf, text
<1>2. TypeOK'
  BY <1>1, Zenon DEF PageInv, TypeOK
<1>3. LinesFit'
  BY <1>1 DEF PageInv, LinesFit
<1>4. InPage'
  BY <1>1 DEF PageInv, InPage, Placed, ViewContains, MarginsContain,
     HorzMarginsContain, VertMarginsContain
<1> QED BY <1>2, <1>3, <1>4 DEF PageInv

LEMMA AddCellStep == ASSUME PageInv, NEW width, AddCell(width) PROVE PageInv'
<1> DEFINE h == ShrinkLine(Here)
<1>1. cursor.y \in 1 .. size.cy /\ cursor \in Cursors /\ lines \in Seq(Rows) /\ Len(lines) = size.cy
  BY HereFilled DEF AddCell, OnPage, ViewContains, Filled, Pages
<1>2. lines[cursor.y] \in Rows /\ lines[cursor.y].cells >= size.cx
  BY <1>1, HereFilled DEF Filled
<1> DEFINE row == [lines[cursor.y] EXCEPT !.cells = Least(@, size.cx)]
           l   == [lines EXCEPT ![cursor.y] = row]
<1>3. row \in Rows /\ row.cells >= size.cx
  BY <1>2, HereFilled, FrameFacts DEF Rows, Least
<1>4. h = [Here EXCEPT !.l = l]
  BY HereFilled DEF ShrinkLine
<1> HIDE DEF row
<1>5. l \in Seq(Rows) /\ Len(l) = size.cy /\ \A i \in 1 .. size.cy : l[i].cells >= size.cx
  BY <1>1, <1>3, HereFilled DEF Filled
<1> HIDE DEF l, h
<1>6. h \in Pages /\ h.c = cursor /\ h.l = l /\ h.s = saved
  BY <1>4, <1>5, HereFilled DEF Pages
<1>7. Filled(h) /\ h.c = cursor
  BY <1>5, <1>6, HereFilled DEF Filled
<1>8. Filled(CellAdd(h, width)) /\ Follows(cursor, CellAdd(h, width).c)
  BY <1>7, HereFilled, CellAddOK
<1> QED BY <1>8, BecomesOK DEF AddCell, h

LEMMA InsertCellStep == ASSUME PageInv, NEW width, InsertCell(width) PROVE PageInv'
<1> DEFINE c == IF HorzMarginsContain(cursor.x) THEN ClearEol(cursor) ELSE cursor
           h == [Here EXCEPT !.c = c]
<1>1. Follows(cursor, c)
  BY HereFilled, EolCleared DEF Follows
<1>2. Filled(h) /\ h.c = c
  <2> HIDE DEF c
  <2> QED BY <1>1, HereFilled, CursorSet DEF Follows
<1>3. Becomes(CellAdd(h, width))
  BY DEF InsertCell
<1> HIDE DEF c, h
<1>4. Filled(CellAdd(h, width)) /\ Follows(cursor, CellAdd(h, width).c)
  BY <1>1, <1>2, HereFilled, CellAddOK, FollowsTwice
<1> QED BY <1>3, <1>4, BecomesOK

LEMMA EditSteps == ASSUME PageInv, EditStep PROVE PageInv'
<1> USE HereFilled
<1>1. ASSUME NEW w \in {1, 2}, AddCell(w) \/ InsertCell(w) PROVE PageInv'
  BY <1>1, AddCellStep, InsertCellStep
<1>2. CASE EditCells
  BY <1>2, EolCleared, MovesOK DEF EditCells
<1>3. margins.top \in Nat \ {0} /\ margins.top <= margins.bottom /\ Counts \subseteq Int
  BY FrameFacts
<1>4. ASSUME NEW n \in Counts, ScrollUp(n) PROVE PageInv'
  <2>1. /\ Filled(LineInsert(Here, margins.top, n))
        /\ Follows(cursor, LineInsert(Here, margins.top, n).c)
    BY <1>3, LineInsertOK
  <2> QED BY <1>4, <2>1, BecomesOK DEF ScrollUp
<1>5. ASSUME NEW n \in Counts, ScrollDown(n) PROVE PageInv'
  <2>1. /\ Filled(LineRemove(Here, margins.top, n))
        /\ Follows(cursor, LineRemove(Here, margins.top, n).c)
    BY <1>3, LineRemoveOK
  <2> QED BY <1>5, <2>1, BecomesOK DEF ScrollDown
<1>6. MarginsContain(cursor) => cursor.y \in Nat \ {0} /\ cursor.y <= margins.bottom
  BY DEF MarginsContain, VertMarginsContain, Cursors
<1>7. ASSUME NEW p, Filled(p), Follows(cursor, p.c), Becomes([p EXCEPT !.c = Home(@)])
      PROVE  PageInv'
  <2>1. /\ Filled([p EXCEPT !.c = Home(@)])
        /\ Follows(p.c, [p EXCEPT !.c = Home(@)].c)
    BY <1>7, HomeOf
  <2> QED BY <1>7, <2>1, FollowsTwice, BecomesOK
<1>8. ASSUME NEW n \in Counts, InsertLines(n) PROVE PageInv'
  <2>1. /\ Filled(LineInsert(Here, cursor.y, n))
        /\ Follows(cursor, LineInsert(Here, cursor.y, n).c)
    BY <1>3, <1>6, <1>8, LineInsertOK DEF InsertLines
  <2> QED BY <1>7, <1>8, <2>1 DEF InsertLines
<1>9. ASSUME NEW n \in Counts, RemoveLines(n) PROVE PageInv'
  <2>1. /\ Filled(LineRemove(Here, cursor.y, n))
        /\ Follows(cursor, LineRemove(Here, cursor.y, n).c)
    BY <1>3, <1>6, <1>9, LineRemoveOK DEF RemoveLines
  <2> QED BY <1>7, <1>9, <2>1 DEF RemoveLines
<1> QED BY <1>1, <1>2, <1>4, <1>5, <1>8, <1>9 DEF EditStep

LEMMA MoveSteps == ASSUME PageInv, MoveStep PROVE PageInv'
<1> USE HereFilled
<1>1. Counts \subseteq Int /\ cursor.x \in Int /\ cursor.y \in Int
  BY DEF Cursors
<1>2. ASSUME NEW n \in Int
      PROVE  /\ Follows(cursor, ToLine(cursor, n)) /\ Follows(cursor, ToColumn(cursor, n))
             /\ Follows(cursor, Right(cursor, n))
             /\ Follows(cursor, Home(cursor)) /\ Follows(cursor, End(cursor))
  BY Composed DEF Follows
<1>3. ASSUME NEW n \in Int, NEW m \in BOOLEAN
      PROVE  Follows(cursor, MoveHorz(cursor, n, m)) /\ Follows(cursor, MoveVert(cursor, n, m))
  BY MovesPlaced DEF Follows
<1>4. ASSUME NEW n \in Counts, NextLine(n) \/ PrevLine(n) PROVE PageInv'
  <2>1. \A k \in Int : Filled(StepLine(Here, k)) /\ Follows(cursor, StepLine(Here, k).c)
    BY StepLineOK
  <2>2. n \in Int /\ -n \in Int
    BY <1>1
  <2> QED BY <1>4, <2>1, <2>2, BecomesOK DEF NextLine, PrevLine
<1>5. ASSUME NEW n \in Counts, MoveToLine(n) \/ MoveToColumn(n) PROVE PageInv'
  BY <1>1, <1>2, <1>5, MovesOK DEF MoveToLine, MoveToColumn
<1>6. ASSUME NEW n \in Int, MoveVertBy(n) PROVE PageInv'
  <2>1. \A m \in BOOLEAN : Follows(cursor, MoveVert(cursor, cursor.y + n, m))
    BY <1>1, <1>3
  <2>2. Follows(cursor, MoveVert(cursor, cursor.y + n, TRUE))
    BY <2>1, Zenon
  <2> QED BY <1>6, <2>2, MovesOK DEF MoveVertBy
<1>7. ASSUME NEW n \in Int, MoveHorzBy(n) PROVE PageInv'
  BY <1>2, <1>7, MovesOK DEF MoveHorzBy
<1>8. ASSUME NEW x \in Counts, NEW y \in Counts, MoveToPoint(x, y) PROVE PageInv'
  <2>1. MoveTo(cursor, x, y) \in Cursors /\ Placed(MoveTo(cursor, x, y))
    BY <1>1, Corners
  <2>2. cursor' = MoveTo(cursor, x, y) /\ stale' = FALSE /\ UNCHANGED <<view, backup, conf, text>>
    BY <1>8 DEF MoveToPoint
  <2> QED BY <2>1, <2>2, PlacesOK
<1>9. ASSUME MoveHome \/ MoveEnd PROVE PageInv'
  BY <1>2, <1>9, MovesOK DEF MoveHome, MoveEnd
<1>10. CASE MoveToCorner
  <2>1. cursor' \in Cursors /\ Placed(cursor')
    BY <1>10, Corners DEF MoveToCorner
  <2> QED BY <1>10, <2>1, PlacesOK DEF MoveToCorner
<1>11. ASSUME NEW i \in Int, Moves(MoveHorz(cursor, i, FALSE)) PROVE PageInv'
  <2>1. Follows(cursor, MoveHorz(cursor, i, FALSE))
    BY <1>3, Zenon
  <2> QED BY <1>11, <2>1, MovesOK
<1>12. CASE NextTab
  <2> PICK i \in cursor.x + 1 .. margins.right : Moves(MoveHorz(cursor, i, FALSE))
    BY <1>12 DEF NextTab
  <2> i \in Int
    BY <1>1, FrameFacts
  <2> QED BY <1>11
<1>13. CASE PrevTab
  <2> DEFINE left == IF cursor.displaced THEN margins.left ELSE 1
  <2>1. left \in Int
    BY FrameFacts
  <2> HIDE DEF left
  <2>2. ASSUME NEW i \in left .. cursor.x - 1, Moves(MoveHorz(cursor, i, FALSE)) PROVE PageInv'
    <3> i \in Int
      BY <1>1, <2>1
    <3> QED BY <1>11, <2>2
  <2>3. ASSUME Moves(Home(cursor)) PROVE PageInv'
    BY <1>2, <2>3, MovesOK
  <2> QED BY <1>13, <2>2, <2>3 DEF PrevTab, left
<1>14. CASE NewLine
  <2>1. Filled(StepLine(Here, 1)) /\ Follows(cursor, StepLine(Here, 1).c)
    <3> \A k \in Int : Filled(StepLine(Here, k)) /\ Follows(cursor, StepLine(Here, k).c)
      BY StepLineOK
    <3> QED OBVIOUS
  <2> DEFINE q == StepLine(Here, 1)
             h == [q EXCEPT !.c = Home(@)]
  <2>2. Becomes(h)
    BY <1>14 DEF NewLine
  <2> HIDE DEF q
  <2>3. Filled(h) /\ Follows(q.c, h.c)
    BY <2>1, HomeOf DEF q
  <2> HIDE DEF h
  <2> QED BY <2>1, <2>2, <2>3, FollowsTwice, BecomesOK DEF q
<1>15. ASSUME NEW n \in Counts,
              MoveVertBy(n) \/ MoveVertBy(-n) \/ MoveHorzBy(n) \/ MoveHorzBy(-n)
       PROVE  PageInv'
  <2> n \in Int /\ -n \in Int
    BY <1>1
  <2> QED BY <1>6, <1>7, <1>15
<1> QED BY <1>4, <1>5, <1>8, <1>9, <1>10, <1>12, <1>13, <1>14, <1>15 DEF MoveStep

\* A call that sets the margins, and puts the cursor at the first row and column
\* it may reach.
LEMMA MarginsOK ==
  ASSUME PageInv, size' = size, stale' = FALSE, UNCHANGED <<backup, conf, text>>,
         margins' \in Rects,
         1 <= margins'.left, margins'.left < margins'.right, margins'.right <= size.cx,
         1 <= margins'.top, margins'.top < margins'.bottom, margins'.bottom <= size.cy,
         cursor' \in Cursors, ~cursor'.eol,
         cursor'.displaced => cursor'.x = margins'.left /\ cursor'.y = margins'.top,
         ~cursor'.displaced => cursor'.x = 1 /\ cursor'.y = 1
  PROVE  PageInv'
<1>3. /\ backup' = backup /\ autowrap' = autowrap /\ history' = history
      /\ historysize' = historysize /\ lines' = lines /\ saved' = saved /\ rows' = rows
  BY DEF conf, text
<1>4. TypeOK'
  BY <1>3, Zenon DEF PageInv, TypeOK
<1>5. LinesFit'
  BY <1>3 DEF PageInv, LinesFit
<1>6. InPage'
  BY HereFilled, FrameFacts DEF InPage, ViewContains, MarginsContain,
     HorzMarginsContain, VertMarginsContain, Rects
<1> QED BY <1>4, <1>5, <1>6 DEF PageInv

LEMMA MarginSteps ==
  ASSUME PageInv,
         (\E l \in 1 .. size.cx, r \in 1 .. size.cx : SetHorzMargins(l, r))
           \/ (\E t \in 1 .. size.cy, b \in 1 .. size.cy : SetVertMargins(t, b))
           \/ (\E b \in BOOLEAN : DECom(b))
  PROVE  PageInv'
<1>1. Framed /\ margins \in Rects
  BY HereFilled DEF Framed
<1>2. ASSUME size' = size, stale' = FALSE, UNCHANGED <<backup, conf, text>>,
             margins' \in Rects,
             1 <= margins'.left, margins'.left < margins'.right, margins'.right <= size.cx,
             1 <= margins'.top, margins'.top < margins'.bottom, margins'.bottom <= size.cy,
             cursor' = [cursor EXCEPT !.x = (IF cursor.displaced THEN <<margins'.left, margins'.top>>
                                                                  ELSE <<1, 1>>)[1],
                                      !.y = (IF cursor.displaced THEN <<margins'.left, margins'.top>>
                                                                  ELSE <<1, 1>>)[2],
                                      !.eol = FALSE]
      PROVE  PageInv'
  <2> DEFINE a == (IF cursor.displaced THEN <<margins'.left, margins'.top>> ELSE <<1, 1>>)[1]
             b == (IF cursor.displaced THEN <<margins'.left, margins'.top>> ELSE <<1, 1>>)[2]
  <2>1. /\ a = (IF cursor.displaced THEN margins'.left ELSE 1)
        /\ b = (IF cursor.displaced THEN margins'.top ELSE 1)
    OBVIOUS
  <2>2. a \in Nat \ {0} /\ b \in Nat \ {0}
    BY <1>2, <2>1 DEF Rects
  <2> DEFINE D(v, w) == [cursor EXCEPT !.x = v, !.y = w, !.eol = FALSE]
  <2>3. ASSUME NEW v \in Nat \ {0}, NEW w \in Nat \ {0}
        PROVE  /\ D(v, w) \in Cursors /\ D(v, w).x = v /\ D(v, w).y = w
               /\ ~D(v, w).eol /\ (D(v, w).displaced <=> cursor.displaced)
    BY HereFilled DEF Cursors
  <2>4. cursor' = D(a, b)
    BY <1>2
  <2> HIDE DEF a, b, D
  <2>5. /\ cursor' \in Cursors /\ ~cursor'.eol
        /\ cursor'.displaced => cursor'.x = margins'.left /\ cursor'.y = margins'.top
        /\ ~cursor'.displaced => cursor'.x = 1 /\ cursor'.y = 1
    BY <2>1, <2>2, <2>3, <2>4
  <2> QED BY <1>2, <2>5, MarginsOK
<1>3. ASSUME NEW l \in 1 .. size.cx, NEW r \in 1 .. size.cx, SetHorzMargins(l, r)
      PROVE  PageInv'
  <2>1. /\ margins' \in Rects
        /\ 1 <= margins'.left /\ margins'.left < margins'.right /\ margins'.right <= size.cx
        /\ margins'.top = margins.top /\ margins'.bottom = margins.bottom
    <3>1. CASE l < r /\ l \in 1 .. size.cx /\ r \in 1 .. size.cx
      <4>1. margins' = [margins EXCEPT !.left = l, !.right = r]
        BY <1>3, <3>1 DEF SetHorzMargins
      <4>2. l \in Nat /\ r \in Nat /\ 1 <= l /\ l < r /\ r <= size.cx
        BY <1>1, <3>1, FrameFacts
      <4>3. /\ margins' \in Rects /\ margins'.left = l /\ margins'.right = r
            /\ margins'.top = margins.top /\ margins'.bottom = margins.bottom
        BY <1>1, <4>1, <4>2 DEF Rects
      <4> QED BY <4>2, <4>3
    <3>2. CASE ~(l < r /\ l \in 1 .. size.cx /\ r \in 1 .. size.cx)
      <4>1. margins' = [margins EXCEPT !.left = 1, !.right = size.cx]
        BY <1>3, <3>2 DEF SetHorzMargins
      <4>2. 1 \in Nat /\ size.cx \in Nat /\ 1 <= 1 /\ 1 < size.cx /\ size.cx <= size.cx
        BY <1>1, FrameFacts
      <4>3. /\ margins' \in Rects /\ margins'.left = 1 /\ margins'.right = size.cx
            /\ margins'.top = margins.top /\ margins'.bottom = margins.bottom
        BY <1>1, <4>1, <4>2 DEF Rects
      <4> QED BY <4>2, <4>3
    <3> QED BY <3>1, <3>2
  <2> DEFINE lo == IF cursor.displaced THEN <<margins'.left, margins'.top>> ELSE <<1, 1>>
  <2>2. cursor' = [cursor EXCEPT !.x = lo[1], !.y = lo[2], !.eol = FALSE]
    BY <1>3 DEF SetHorzMargins
  <2>3. size' = size /\ stale' = FALSE /\ UNCHANGED <<backup, conf, text>>
    BY <1>3 DEF SetHorzMargins
  <2> QED BY <1>1, <1>2, <2>1, <2>2, <2>3, FrameFacts
<1>4. ASSUME NEW t \in 1 .. size.cy, NEW b \in 1 .. size.cy, SetVertMargins(t, b)
      PROVE  PageInv'
  <2>1. /\ margins' \in Rects
        /\ 1 <= margins'.top /\ margins'.top < margins'.bottom /\ margins'.bottom <= size.cy
        /\ margins'.left = margins.left /\ margins'.right = margins.right
    <3>1. CASE t < b /\ t \in 1 .. size.cy /\ b \in 1 .. size.cy
      <4>1. margins' = [margins EXCEPT !.top = t, !.bottom = b]
        BY <1>4, <3>1 DEF SetVertMargins
      <4>2. t \in Nat /\ b \in Nat /\ 1 <= t /\ t < b /\ b <= size.cy
        BY <1>1, <3>1, FrameFacts
      <4>3. /\ margins' \in Rects /\ margins'.top = t /\ margins'.bottom = b
            /\ margins'.left = margins.left /\ margins'.right = margins.right
        BY <1>1, <4>1, <4>2 DEF Rects
      <4> QED BY <4>2, <4>3
    <3>2. CASE ~(t < b /\ t \in 1 .. size.cy /\ b \in 1 .. size.cy)
      <4>1. margins' = [margins EXCEPT !.top = 1, !.bottom = size.cy]
        BY <1>4, <3>2 DEF SetVertMargins
      <4>2. 1 \in Nat /\ size.cy \in Nat /\ 1 <= 1 /\ 1 < size.cy /\ size.cy <= size.cy
        BY <1>1, FrameFacts
      <4>3. /\ margins' \in Rects /\ margins'.top = 1 /\ margins'.bottom = size.cy
            /\ margins'.left = margins.left /\ margins'.right = margins.right
        BY <1>1, <4>1, <4>2 DEF Rects
      <4> QED BY <4>2, <4>3
    <3> QED BY <3>1, <3>2
  <2> DEFINE lo == IF cursor.displaced THEN <<margins'.left, margins'.top>> ELSE <<1, 1>>
  <2>2. cursor' = [cursor EXCEPT !.x = lo[1], !.y = lo[2], !.eol = FALSE]
    BY <1>4 DEF SetVertMargins
  <2>3. size' = size /\ stale' = FALSE /\ UNCHANGED <<backup, conf, text>>
    BY <1>4 DEF SetVertMargins
  <2> QED BY <1>1, <1>2, <2>1, <2>2, <2>3, FrameFacts
<1>5. ASSUME NEW b \in BOOLEAN, DECom(b) PROVE PageInv'
  <2>1. /\ margins' \in Rects
        /\ 1 <= margins'.left /\ margins'.left < margins'.right /\ margins'.right <= size.cx
        /\ 1 <= margins'.top /\ margins'.top < margins'.bottom /\ margins'.bottom <= size.cy
    <3>1. CASE b
      BY <1>1, <1>5, <3>1, FrameFacts DEF DECom
    <3>2. CASE ~b
      BY <1>1, <1>5, <3>2, FrameFacts DEF DECom, ViewOf, Rects
    <3> QED BY <3>1, <3>2
  <2>2. size' = size /\ stale' = FALSE /\ UNCHANGED <<backup, conf, text>>
    BY <1>5 DEF DECom
  <2>3. /\ cursor' \in Cursors /\ ~cursor'.eol
        /\ cursor'.displaced => cursor'.x = margins'.left /\ cursor'.y = margins'.top
        /\ ~cursor'.displaced => cursor'.x = 1 /\ cursor'.y = 1
    <3>1. CASE b
      <4>1. /\ margins' = margins
            /\ cursor' = [x |-> margins.left, y |-> margins.top, eol |-> FALSE, displaced |-> TRUE]
        BY <1>5, <3>1 DEF DECom
      <4>2. margins.left \in Nat \ {0} /\ margins.top \in Nat \ {0}
        BY <1>1, FrameFacts
      <4> QED BY <4>1, <4>2 DEF Cursors
    <3>2. CASE ~b
      <4>1. cursor' = HomeCursor
        BY <1>5, <3>2 DEF DECom
      <4> QED BY <4>1 DEF Cursors, HomeCursor
    <3> QED BY <3>1, <3>2
  <2> QED BY <2>1, <2>2, <2>3, MarginsOK
<1> QED BY <1>3, <1>4, <1>5

---------------------------------------------------------------------------
\* Resizing.

LEMMA UnwindOK ==
  ASSUME size \in Sizes, NEW p \in Pages, NEW sz \in Sizes
  PROVE  Unwind(p, sz) \in Pages
<1> DEFINE k == Least(sz.cy - size.cy, Len(p.s))
           l == Tip(p.s, k) \o p.l
           s == SubSeq(p.s, 1, Len(p.s) - k)
<1>1. p.c \in Cursors /\ p.l \in Seq(Rows) /\ p.s \in Seq(Rows)
  BY DEF Pages
<1>2. CASE sz.cy <= size.cy
  BY <1>2 DEF Unwind
<1>3. CASE ~(sz.cy <= size.cy)
  <2>1. k \in Nat /\ k <= Len(p.s)
    BY <1>1, <1>3 DEF Least
  <2>2. Unwind(p, sz) = [p EXCEPT !.l = l, !.s = s, !.c.y = @ + k]
    BY <1>3 DEF Unwind
  <2>3. Tip(p.s, k) \in Seq(Rows)
    <3> \A i \in 1 .. k : p.s[Len(p.s) - k + i] \in Rows
      BY <1>1, <2>1
    <3> HIDE DEF k
    <3> Tip(p.s, k) \in [1 .. k -> Rows]
      BY DEF Tip
    <3> QED BY <2>1, ArrayOfRows
  <2>4. l \in Seq(Rows)
    <3> HIDE DEF k
    <3> QED BY <1>1, <2>3, ConcatProperties
  <2>5. s \in Seq(Rows)
    <3> \A i \in 1 .. Len(p.s) - k : p.s[i] \in Rows
      BY <1>1, <2>1
    <3> Len(p.s) - k \in Int
      BY <1>1, <2>1
    <3> HIDE DEF k
    <3> QED BY SubSeqProperties
  <2> HIDE DEF k, l, s
  <2>6. [p.c EXCEPT !.y = @ + k] \in Cursors
    <3>1. \A c \in Cursors, w \in Nat \ {0} : [c EXCEPT !.y = w] \in Cursors
      BY DEF Cursors
    <3>2. p.c.y \in Nat \ {0}
      BY <1>1 DEF Cursors
    <3>3. p.c.y + k \in Nat \ {0}
      <4>1. \A a \in Nat \ {0}, b \in Nat : a + b \in Nat \ {0}
        OBVIOUS
      <4> QED BY <2>1, <3>2, <4>1
    <3> QED BY <1>1, <3>1, <3>3
  <2> QED BY <2>2, <2>4, <2>5, <2>6 DEF Pages
<1> QED BY <1>2, <1>3

LEMMA RewindOK ==
  ASSUME NEW p \in Pages, NEW sz \in Sizes
  PROVE  Rewind(p, sz) \in Pages
<1> DEFINE k == Least(p.c.y - sz.cy, Len(p.l))
           l == SubSeq(p.l, k + 1, Len(p.l))
           s == p.s \o SubSeq(p.l, 1, k)
<1>1. p.c.y \in Nat /\ p.l \in Seq(Rows) /\ p.s \in Seq(Rows)
  BY DEF Pages, Cursors
<1>2. CASE sz.cy >= size.cy \/ k <= 0
  BY <1>2 DEF Rewind
<1>3. CASE ~(sz.cy >= size.cy \/ k <= 0)
  <2>1. k \in Nat /\ k <= Len(p.l)
    BY <1>1, <1>3 DEF Least
  <2>2. Rewind(p, sz) = [p EXCEPT !.s = s, !.l = l]
    BY <1>3 DEF Rewind
  <2>3. \A i \in 1 .. Len(p.l) : p.l[i] \in Rows
    BY <1>1
  <2> HIDE DEF k
  <2>4. SubSeq(p.l, 1, k) \in Seq(Rows) /\ l \in Seq(Rows)
    <3>1. \A i \in 1 .. k : p.l[i] \in Rows
      BY <1>1, <2>1, <2>3
    <3>2. \A i \in k + 1 .. Len(p.l) : p.l[i] \in Rows
      BY <1>1, <2>1, <2>3
    <3>3. SubSeq(p.l, 1, k) \in Seq(Rows)
      BY <2>1, <3>1, SubSeqProperties
    <3>4. l \in Seq(Rows)
      <4> k + 1 \in Int /\ Len(p.l) \in Int
        BY <1>1, <2>1
      <4> QED BY <3>2, SubSeqProperties
    <3> QED BY <3>3, <3>4
  <2>5. s \in Seq(Rows)
    BY <1>1, <2>4, ConcatProperties
  <2> HIDE DEF l, s
  <2> QED BY <2>2, <2>4, <2>5 DEF Pages
<1> QED BY <1>2, <1>3

LEMMA FittedOK ==
  ASSUME NEW p \in Pages, NEW sz \in Sizes
  PROVE  LET q == Fitted(p, sz)
         IN  /\ q.l \in Seq(Rows) /\ Len(q.l) = sz.cy
             /\ \A i \in 1 .. sz.cy : q.l[i].cells >= sz.cx
             /\ q.s = p.s /\ q.c = p.c /\ q.r \in Nat
<1> DEFINE f == [i \in 1 .. sz.cy |->
                   IF i <= Len(p.l) THEN [p.l[i] EXCEPT !.cells = Most(@, sz.cx)]
                   ELSE [id |-> p.r + i - Len(p.l), cells |-> sz.cx]]
           r == p.r + Most(0, sz.cy - Len(p.l))
           q == Fitted(p, sz)
<1>1. p.l \in Seq(Rows) /\ p.r \in Nat /\ sz.cx \in Nat /\ sz.cy \in Nat /\ Len(p.l) \in Nat
  BY DEF Pages
<1>2. ASSUME NEW i \in 1 .. sz.cy PROVE f[i] \in Rows /\ f[i].cells >= sz.cx
  <2>1. CASE i <= Len(p.l)
    <3>1. p.l[i] \in Rows
      BY <1>1, <2>1
    <3>2. ASSUME NEW row \in Rows
          PROVE  LET d == [row EXCEPT !.cells = Most(@, sz.cx)] IN d \in Rows /\ d.cells >= sz.cx
      BY <1>1 DEF Rows, Most
    <3>3. f[i] = [p.l[i] EXCEPT !.cells = Most(@, sz.cx)]
      BY <2>1
    <3> HIDE DEF f
    <3> QED BY <3>1, <3>2, <3>3
  <2>2. CASE ~(i <= Len(p.l))
    BY <1>1, <2>2 DEF Rows
  <2> QED BY <2>1, <2>2
<1>3. f \in Seq(Rows) /\ Len(f) = sz.cy
  <2> f \in [1 .. sz.cy -> Rows]
    BY <1>2
  <2> HIDE DEF f
  <2> QED BY <1>1, ArrayOfRows
<1>4. r \in Nat
  BY <1>1 DEF Most
<1>5. q = [p EXCEPT !.l = f, !.r = r]
  BY DEF Fitted
<1> HIDE DEF f, r, q
<1>6. q.l = f /\ q.s = p.s /\ q.c = p.c /\ q.r = r
  BY <1>5 DEF Pages
<1> QED BY <1>2, <1>3, <1>4, <1>6 DEF q

LEMMA SetSizeStep == ASSUME PageInv, NEW sz \in Sizes, SetSize(sz) PROVE PageInv'
<1> DEFINE q == IF history THEN Rewind(Unwind(Here, sz), sz) ELSE Here
           t == IF history THEN Trimmed(q.s, historysize) ELSE q.s
           u == [q EXCEPT !.s = t]
           p == Resized(sz)
<1>1. q \in Pages
  BY HereFilled, UnwindOK, RewindOK DEF Framed
<1>2. t \in Seq(Rows)
  <2>1. CASE history
    <3>1. q.s \in Seq(Rows)
      BY <1>1 DEF Pages
    <3> HIDE DEF q
    <3>2. Trimmed(q.s, historysize) \in Seq(Rows)
      BY <3>1, HereFilled, TrimmedOK
    <3> QED BY <2>1, <3>2
  <2>2. CASE ~history
    BY <2>2, HereFilled DEF Filled, Pages
  <2> QED BY <2>1, <2>2
<1>3. p = Fitted(u, sz)
  BY DEF Resized
<1> HIDE DEF q, t
<1>4. u \in Pages /\ u.s = t /\ u.c \in Cursors
  BY <1>1, <1>2 DEF Pages
<1> HIDE DEF u, p
<1>5. /\ p.l \in Seq(Rows) /\ Len(p.l) = sz.cy /\ p.s \in Seq(Rows) /\ p.r \in Nat
      /\ \A i \in 1 .. sz.cy : p.l[i].cells >= sz.cx
      /\ p.c \in Cursors
  BY <1>2, <1>3, <1>4, FittedOK
<1>6. /\ size' = sz /\ margins' = ViewOf(sz) /\ lines' = p.l /\ saved' = p.s /\ rows' = p.r
      /\ stale' = FALSE /\ backup' = backup
      /\ autowrap' = autowrap /\ history' = history /\ historysize' = historysize
      /\ cursor' = [p.c EXCEPT !.x = Clamp(@, 1, sz.cx), !.y = Clamp(@, 1, sz.cy), !.eol = FALSE]
  BY DEF SetSize, conf, p
<1>7. sz.cx \in Nat /\ sz.cy \in Nat /\ 1 < sz.cx /\ 1 < sz.cy
  OBVIOUS
<1>8. /\ Clamp(p.c.x, 1, sz.cx) \in 1 .. sz.cx /\ Clamp(p.c.y, 1, sz.cy) \in 1 .. sz.cy
  BY <1>5, <1>7 DEF Clamp, Cursors
<1> DEFINE D(v, w) == [p.c EXCEPT !.x = v, !.y = w, !.eol = FALSE]
<1>9. ASSUME NEW v \in 1 .. sz.cx, NEW w \in 1 .. sz.cy
      PROVE  D(v, w) \in Cursors /\ D(v, w).x = v /\ D(v, w).y = w /\ ~D(v, w).eol
  <2>1. v \in Nat \ {0} /\ w \in Nat \ {0}
    BY <1>7
  <2>2. ASSUME NEW c \in Cursors
        PROVE  LET d == [c EXCEPT !.x = v, !.y = w, !.eol = FALSE]
               IN  d \in Cursors /\ d.x = v /\ d.y = w /\ ~d.eol
    BY <2>1 DEF Cursors
  <2> QED BY <1>5, <2>2
<1>10. cursor' = D(Clamp(p.c.x, 1, sz.cx), Clamp(p.c.y, 1, sz.cy))
  BY <1>6
<1> HIDE DEF D
<1>11. cursor' \in Cursors /\ cursor'.x \in 1 .. sz.cx /\ cursor'.y \in 1 .. sz.cy /\ ~cursor'.eol
  BY <1>8, <1>9, <1>10
<1>12. /\ margins' \in Rects /\ margins'.left = 1 /\ margins'.right = sz.cx
       /\ margins'.top = 1 /\ margins'.bottom = sz.cy
  BY <1>6, <1>7 DEF ViewOf, Rects
<1>13. TypeOK'
  BY <1>5, <1>6, <1>11, <1>12, Zenon DEF PageInv, TypeOK
<1>14. InPage'
  BY <1>6, <1>7, <1>11, <1>12 DEF InPage, ViewContains, MarginsContain,
     HorzMarginsContain, VertMarginsContain
<1>15. LinesFit'
  BY <1>5, <1>6 DEF LinesFit
<1> QED BY <1>13, <1>14, <1>15 DEF PageInv

---------------------------------------------------------------------------
\* The remaining steps change the settings, the history or the stored cursor.

LEMMA SettingSteps ==
  ASSUME PageInv,
         ResetMargins \/ (\E b \in BOOLEAN : SetAutoWrap(b) \/ SetHistory(b))
           \/ (\E n \in HistorySizes : SetHistorySize(n))
           \/ EraseHistory \/ Backup \/ Discard \/ Restore \/ Reset
  PROVE  PageInv'
<1> USE HereFilled
<1>1. Framed /\ historysize \in Nat /\ cursor \in Cursors
  OBVIOUS
<1>2. ClearEol(cursor) \in Cursors /\ (Placed(cursor) => Placed(ClearEol(cursor)))
  BY EolCleared DEF Follows
<1>3. HomeCursor \in Cursors
  BY DEF HomeCursor, Cursors
<1>4. CASE ResetMargins
  <2>1. /\ margins' \in Rects /\ margins'.left = 1 /\ margins'.right = size.cx
        /\ margins'.top = 1 /\ margins'.bottom = size.cy
    BY <1>4, FrameFacts DEF ResetMargins, ViewOf, Rects
  <2>2. /\ cursor' = ClearEol(cursor) /\ size' = size /\ stale' = stale /\ backup' = backup
        /\ autowrap' = autowrap /\ history' = history /\ historysize' = historysize
        /\ lines' = lines /\ saved' = saved /\ rows' = rows
    BY <1>4 DEF ResetMargins, conf, text
  <2>3. TypeOK'
    BY <1>2, <2>1, <2>2, Zenon DEF PageInv, TypeOK
  <2>4. ~ClearEol(cursor).eol
    BY DEF ClearEol, Cursors
  <2>5. InPage'
    BY <1>2, <2>1, <2>2, <2>4, FrameFacts DEF InPage, Placed, ViewContains, MarginsContain,
       HorzMarginsContain, VertMarginsContain
  <2>6. LinesFit'
    BY <2>2 DEF PageInv, LinesFit
  <2> QED BY <2>3, <2>5, <2>6 DEF PageInv
<1>5. ASSUME NEW b \in BOOLEAN, SetAutoWrap(b) PROVE PageInv'
  <2>1. /\ cursor' = (IF b THEN cursor ELSE ClearEol(cursor)) /\ autowrap' = b
        /\ size' = size /\ margins' = margins /\ stale' = stale /\ backup' = backup
        /\ history' = history /\ historysize' = historysize
        /\ lines' = lines /\ saved' = saved /\ rows' = rows
    BY <1>5 DEF SetAutoWrap, view, text
  <2>2. cursor' \in Cursors /\ (Placed(cursor) => Placed(cursor'))
    BY <1>2, <2>1
  <2>3. TypeOK'
    BY <2>1, <2>2, Zenon DEF PageInv, TypeOK
  <2>4. InPage'
    BY <2>1, <2>2 DEF PageInv, InPage, Placed, ViewContains, MarginsContain,
       HorzMarginsContain, VertMarginsContain
  <2>5. LinesFit'
    BY <2>1 DEF PageInv, LinesFit
  <2> QED BY <2>3, <2>4, <2>5 DEF PageInv
<1>6. ASSUME NEW b \in BOOLEAN, SetHistory(b) PROVE PageInv'
  <2>1. /\ cursor' = cursor /\ autowrap' = autowrap /\ history' = b
        /\ size' = size /\ margins' = margins /\ stale' = stale /\ backup' = backup
        /\ historysize' = historysize /\ lines' = lines /\ saved' = saved /\ rows' = rows
    BY <1>6 DEF SetHistory, view, text
  <2>2. TypeOK'
    BY <2>1, Zenon DEF PageInv, TypeOK
  <2> QED BY <2>1, <2>2 DEF PageInv, InPage, LinesFit, ViewContains,
             MarginsContain, HorzMarginsContain, VertMarginsContain
<1>7. ASSUME NEW n \in HistorySizes, SetHistorySize(n) PROVE PageInv'
  <2>1. /\ cursor' = cursor /\ autowrap' = autowrap /\ history' = history
        /\ size' = size /\ margins' = margins /\ stale' = stale /\ backup' = backup
        /\ historysize' = n /\ lines' = lines /\ saved' = Trimmed(saved, n) /\ rows' = rows
    BY <1>7 DEF SetHistorySize, view
  <2>2. saved \in Seq(Rows) /\ n \in Nat
    BY DEF PageInv, TypeOK
  <2>3. saved' \in Seq(Rows) /\ Len(saved') <= n /\ Len(saved') \in Nat
    BY <2>1, <2>2, TrimmedOK
  <2>4. TypeOK'
    BY <2>1, <2>3, Zenon DEF PageInv, TypeOK
  <2>5. InPage' /\ LinesFit'
    BY <2>1 DEF PageInv, InPage, LinesFit, ViewContains, MarginsContain,
       HorzMarginsContain, VertMarginsContain
  <2> QED BY <2>4, <2>5 DEF PageInv
<1>8. CASE EraseHistory
  <2>1. /\ cursor' = cursor /\ autowrap' = autowrap /\ history' = history
        /\ size' = size /\ margins' = margins /\ stale' = stale /\ backup' = backup
        /\ historysize' = historysize /\ lines' = lines /\ rows' = rows
        /\ saved' \in Seq(Rows) /\ Len(saved') = 0
    BY <1>8 DEF EraseHistory, view, conf
  <2>2. TypeOK'
    BY <2>1, Zenon DEF PageInv, TypeOK
  <2> QED BY <2>1, <2>2 DEF PageInv, InPage, LinesFit, ViewContains,
             MarginsContain, HorzMarginsContain, VertMarginsContain
<1>9. CASE Backup \/ Discard
  <2>1. /\ cursor' = cursor /\ autowrap' = autowrap /\ history' = history
        /\ size' = size /\ margins' = margins /\ stale' = stale /\ backup' \in Cursors
        /\ historysize' = historysize /\ lines' = lines /\ saved' = saved /\ rows' = rows
    BY <1>3, <1>9 DEF Backup, Discard, view, conf, text
  <2>2. TypeOK'
    BY <2>1, Zenon DEF PageInv, TypeOK
  <2> QED BY <2>1, <2>2 DEF PageInv, InPage, LinesFit, ViewContains,
             MarginsContain, HorzMarginsContain, VertMarginsContain
<1>10. CASE Restore
  <2>1. backup \in Cursors
    BY DEF PageInv, TypeOK
  <2>2. /\ cursor' \in Cursors /\ autowrap' = autowrap /\ history' = history
        /\ size' = size /\ margins' = margins /\ stale' = TRUE /\ backup' = backup
        /\ historysize' = historysize /\ lines' = lines /\ saved' = saved /\ rows' = rows
    BY <1>10, <2>1, EolCleared DEF Restore, view, conf, text, Follows
  <2>3. TypeOK'
    BY <2>2, Zenon DEF PageInv, TypeOK
  <2> QED BY <2>2, <2>3 DEF PageInv, InPage, LinesFit, ViewContains
<1>11. CASE Reset
  <2> DEFINE f == [i \in 1 .. size.cy |-> [lines[i] EXCEPT !.cells = Most(@, size.cx)]]
  <2>1. /\ cursor' = HomeCursor /\ autowrap' = autowrap /\ history' = history
        /\ size' = size /\ margins' = ViewOf(size) /\ stale' = FALSE /\ backup' = HomeCursor
        /\ historysize' = historysize /\ lines' = f /\ rows' = rows
        /\ saved' \in Seq(Rows) /\ Len(saved') = 0
    BY <1>11 DEF Reset, conf
  <2>2. ASSUME NEW i \in 1 .. size.cy PROVE f[i] \in Rows /\ f[i].cells >= size.cx
    <3>1. ASSUME NEW row \in Rows
          PROVE  LET d == [row EXCEPT !.cells = Most(@, size.cx)] IN d \in Rows /\ d.cells >= size.cx
      BY FrameFacts DEF Rows, Most
    <3>2. lines[i] \in Rows
      BY DEF PageInv, TypeOK, LinesFit
    <3>3. f[i] = [lines[i] EXCEPT !.cells = Most(@, size.cx)]
      OBVIOUS
    <3> HIDE DEF f
    <3> QED BY <3>1, <3>2, <3>3
  <2>3. f \in Seq(Rows) /\ Len(f) = size.cy
    <3>1. f \in [1 .. size.cy -> Rows]
      BY <2>2
    <3> HIDE DEF f
    <3> QED BY <3>1, FrameFacts, ArrayOfRows
  <2> HIDE DEF f
  <2>4. /\ margins' \in Rects /\ margins'.left = 1 /\ margins'.right = size.cx
        /\ margins'.top = 1 /\ margins'.bottom = size.cy
    BY <2>1, FrameFacts DEF ViewOf, Rects
  <2>5. /\ cursor' \in Cursors /\ cursor'.x = 1 /\ cursor'.y = 1
        /\ ~cursor'.eol /\ ~cursor'.displaced /\ backup' \in Cursors
    BY <1>3, <2>1 DEF HomeCursor
  <2>6. TypeOK'
    BY <2>1, <2>3, <2>4, <2>5, Zenon DEF PageInv, TypeOK
  <2>7. InPage'
    BY <2>1, <2>4, <2>5, FrameFacts DEF InPage, ViewContains
  <2>8. LinesFit'
    BY <1>1, <2>1, <2>2, <2>3 DEF LinesFit
  <2> QED BY <2>6, <2>7, <2>8 DEF PageInv
<1> QED BY <1>4, <1>5, <1>6, <1>7, <1>8, <1>9, <1>10, <1>11

LEMMA InitHolds == Init => PageInv
<1> SUFFICES ASSUME Init PROVE PageInv
  OBVIOUS
<1>1. size.cx \in Nat /\ size.cy \in Nat /\ 1 < size.cx /\ 1 < size.cy /\ size \in Sizes
  BY DEF Init
<1>2. /\ margins \in Rects /\ margins.left = 1 /\ margins.right = size.cx
      /\ margins.top = 1 /\ margins.bottom = size.cy
  BY <1>1 DEF Init, ViewOf, Rects
<1>3. /\ cursor \in Cursors /\ backup \in Cursors /\ cursor.x = 1 /\ cursor.y = 1
      /\ ~cursor.eol /\ ~cursor.displaced
  BY DEF Init, HomeCursor, Cursors
<1>4. /\ lines \in [1 .. size.cy -> Rows]
      /\ \A i \in 1 .. size.cy : lines[i].cells = size.cx
  BY <1>1 DEF Init, NewRows, Rows
<1>5. lines \in Seq(Rows) /\ Len(lines) = size.cy
  BY <1>1, <1>4, ArrayOfRows
<1>6. saved \in Seq(Rows) /\ Len(saved) = 0
  BY DEF Init
<1>7. /\ autowrap \in BOOLEAN /\ history \in BOOLEAN /\ stale \in BOOLEAN
      /\ historysize \in HistorySizes /\ rows \in Nat
  BY <1>1 DEF Init
<1>8. TypeOK
  BY <1>1, <1>2, <1>3, <1>5, <1>6, <1>7, Zenon DEF TypeOK
<1>9. InPage
  BY <1>1, <1>2, <1>3 DEF InPage, ViewContains
<1>10. LinesFit
  BY <1>1, <1>4, <1>5 DEF LinesFit
<1> QED BY <1>8, <1>9, <1>10 DEF PageInv

LEMMA NextHolds == PageInv /\ [Next]_vars => PageInv'
<1> SUFFICES ASSUME PageInv, [Next]_vars PROVE PageInv'
  OBVIOUS
<1>1. CASE EditStep
  BY <1>1, EditSteps
<1>2. CASE MoveStep
  BY <1>2, MoveSteps
<1>3. CASE ModeStep
  <2>1. ASSUME NEW sz \in Sizes, SetSize(sz) PROVE PageInv'
    BY <2>1, SetSizeStep
  <2> QED BY <1>3, <2>1, MarginSteps, SettingSteps DEF ModeStep
<1>4. CASE UNCHANGED vars
  <2>1. /\ size' = size /\ margins' = margins /\ cursor' = cursor /\ backup' = backup
        /\ autowrap' = autowrap /\ history' = history /\ historysize' = historysize
        /\ lines' = lines /\ saved' = saved /\ rows' = rows /\ stale' = stale
    BY <1>4 DEF vars, view, conf, text
  <2>2. TypeOK'
    BY <2>1, Zenon DEF PageInv, TypeOK
  <2> QED BY <2>1, <2>2 DEF PageInv, InPage, LinesFit, ViewContains,
             MarginsContain, HorzMarginsContain, VertMarginsContain
<1> QED BY <1>1, <1>2, <1>3, <1>4 DEF Next

\* The margins lie within the view, the cursor stands on the page and within them
\* unless it was just restored, and the page has a line of enough cells for every
\* row: for every set of sizes and history sizes, and every order of the calls of
\* VTPage.
THEOREM PageInvariant == Spec => []PageInv
<1>1. Init => PageInv
  BY InitHolds
<1>2. PageInv /\ [Next]_vars => PageInv'
  BY NextHolds
<1> QED BY <1>1, <1>2, PTL DEF Spec
---------------------------------------------------------------------------
\* The lines of the page and its history, told apart by their numbers.

\* The number of the line at row i of the page, the history above it.
Number(p, i) == IF i > 0 THEN p.l[i].id ELSE p.s[Len(p.s) + i].id
Place(p)     == 1 - Len(p.s) .. Len(p.l)

Once(p) == /\ \A i, j \in Place(p) : Number(p, i) = Number(p, j) => i = j
           /\ \A i \in Place(p) : Number(p, i) <= p.r

\* What a call does to the lines of p: nothing; a row pos and those below it within
\* the margins move n down, or n up; all of the page moves n up, into the history,
\* or down if n is negative.
Same(p, q) ==
    /\ Len(q.s) = Len(p.s) /\ Len(q.l) = Len(p.l) /\ q.r = p.r
    /\ \A i \in Place(p) : Number(q, i) = Number(p, i)

Down(p, q, pos, n) ==
    /\ Len(q.s) = Len(p.s) /\ Len(q.l) = Len(p.l) /\ q.r = p.r + n
    /\ \A i \in Place(p) :
          Number(q, i) = IF i < pos \/ i > margins.bottom THEN Number(p, i)
                         ELSE IF i < pos + n THEN p.r + i - pos + 1 ELSE Number(p, i - n)

Up(p, q, pos, n) ==
    /\ Len(q.s) = Len(p.s) /\ Len(q.l) = Len(p.l) /\ q.r = p.r + n
    /\ \A i \in Place(p) :
          Number(q, i) = IF i < pos \/ i > margins.bottom THEN Number(p, i)
                         ELSE IF i + n <= margins.bottom THEN Number(p, i + n)
                         ELSE p.r + i + n - margins.bottom

Shifts(p, q, n) ==
    /\ Len(q.s) <= Len(p.s) + n
    /\ Len(q.s) = Len(p.s) + n \/ Len(q.s) >= historysize
    /\ q.r >= p.r /\ q.r >= p.r + Len(q.l) + n - Len(p.l)
    /\ \A i \in Place(q) :
          Number(q, i) = IF i + n <= Len(p.l) THEN Number(p, i + n) ELSE p.r + i + n - Len(p.l)

Rolls(p, q, pos, n) == Down(p, q, pos, n) \/ Up(p, q, pos, n)

Scrolls(p, q, n) == /\ history /\ margins = ViewOf(size)
                    /\ Len(q.l) = Len(p.l) /\ Shifts(p, q, n)

\* What a line feed does, and what any call that edits or moves does.
Forward(p, q) ==
    \/ Same(p, q)
    \/ \E pos \in margins.top .. margins.bottom : \E n \in 1 .. margins.bottom - pos + 1 :
          Up(p, q, pos, n)
    \/ \E n \in 1 .. size.cy : Scrolls(p, q, n)

Rolled(p, q) ==
    \/ Forward(p, q)
    \/ \E pos \in margins.top .. margins.bottom : \E n \in 1 .. margins.bottom - pos + 1 :
          Down(p, q, pos, n)

LEMMA Numbers ==
  ASSUME NEW p \in Pages
  PROVE  /\ Len(p.s) \in Nat /\ Len(p.l) \in Nat /\ p.r \in Nat
         /\ \A i \in Place(p) : i \in Int /\ Number(p, i) \in Nat
<1>1. p.s \in Seq(Rows) /\ p.l \in Seq(Rows) /\ p.r \in Nat
  BY DEF Pages
<1>2. ASSUME NEW i \in Place(p) PROVE i \in Int /\ Number(p, i) \in Nat
  <2>1. i \in Int /\ 1 - Len(p.s) <= i /\ i <= Len(p.l)
    BY <1>1 DEF Place
  <2>2. CASE i > 0
    <3>1. p.l[i] \in Rows
      BY <1>1, <2>1, <2>2
    <3> QED BY <2>1, <2>2, <3>1 DEF Number, Rows
  <2>3. CASE ~(i > 0)
    <3>1. p.s[Len(p.s) + i] \in Rows
      BY <1>1, <2>1, <2>3
    <3> QED BY <2>1, <2>3, <3>1 DEF Number, Rows
  <2> QED BY <2>2, <2>3
<1> QED BY <1>1, <1>2

LEMMA ShiftsOnce ==
  ASSUME NEW p \in Pages, NEW q \in Pages, Once(p), NEW n \in Int, Shifts(p, q, n)
  PROVE  Once(q)
<1>1. /\ Len(p.s) \in Nat /\ Len(p.l) \in Nat /\ p.r \in Nat
      /\ Len(q.s) \in Nat /\ Len(q.l) \in Nat /\ q.r \in Nat
  BY Numbers
<1>2. ASSUME NEW i \in Place(q)
      PROVE  /\ i \in Int /\ i <= Len(q.l)
             /\ i + n <= Len(p.l) => i + n \in Place(p)
  BY <1>1 DEF Shifts, Place
<1>3. \A i \in Place(p) : Number(p, i) \in Nat /\ Number(p, i) <= p.r
  BY Numbers DEF Once
<1>4. ASSUME NEW i \in Place(q), NEW j \in Place(q), Number(q, i) = Number(q, j)
      PROVE  i = j
  <2>1. CASE i + n <= Len(p.l) /\ j + n <= Len(p.l)
    <3>1. Number(p, i + n) = Number(p, j + n)
      BY <1>4, <2>1 DEF Shifts
    <3>2. i + n = j + n
      BY <1>2, <2>1, <3>1 DEF Once
    <3> QED BY <1>2, <3>2
  <2>2. CASE ~(i + n <= Len(p.l)) /\ ~(j + n <= Len(p.l))
    <3>1. p.r + i + n - Len(p.l) = p.r + j + n - Len(p.l)
      BY <1>4, <2>2 DEF Shifts
    <3> QED BY <1>1, <1>2, <3>1
  <2>3. ASSUME NEW a \in Place(q), NEW b \in Place(q), a + n <= Len(p.l), ~(b + n <= Len(p.l))
        PROVE  Number(q, a) # Number(q, b)
    <3>1. Number(q, a) = Number(p, a + n) /\ Number(q, b) = p.r + b + n - Len(p.l)
      BY <2>3 DEF Shifts
    <3>2. Number(p, a + n) <= p.r /\ Number(p, a + n) \in Nat
      BY <1>2, <1>3, <2>3
    <3> QED BY <1>1, <1>2, <2>3, <3>1, <3>2
  <2> QED BY <1>4, <2>1, <2>2, <2>3
<1>5. ASSUME NEW i \in Place(q) PROVE Number(q, i) <= q.r
  <2>1. CASE i + n <= Len(p.l)
    <3>1. Number(q, i) = Number(p, i + n)
      BY <2>1 DEF Shifts
    <3>2. Number(p, i + n) <= p.r /\ Number(p, i + n) \in Nat
      BY <1>2, <1>3, <2>1
    <3> QED BY <1>1, <3>1, <3>2 DEF Shifts
  <2>2. CASE ~(i + n <= Len(p.l))
    <3>1. Number(q, i) = p.r + i + n - Len(p.l)
      BY <2>2 DEF Shifts
    <3>2. i \in Int /\ i <= Len(q.l) /\ p.r + Len(q.l) + n - Len(p.l) <= q.r
      BY <1>2 DEF Shifts
    <3>3. \A a, b, c, d, e, m \in Int :
             b <= e /\ a + e + m - c <= d => a + b + m - c <= d
      OBVIOUS
    <3>4. p.r + i + n - Len(p.l) <= q.r
      <4>1. /\ p.r \in Int /\ i \in Int /\ Len(p.l) \in Int /\ q.r \in Int /\ Len(q.l) \in Int
            /\ n \in Int
        BY <1>1, <3>2
      <4> QED BY <3>2, <3>3, <4>1, Zenon
    <3> QED BY <3>1, <3>4
  <2> QED BY <2>1, <2>2
<1> QED BY <1>4, <1>5 DEF Once

LEMMA SameOnce ==
  ASSUME NEW p, NEW q, Once(p), Same(p, q)
  PROVE  Once(q)
<1>1. Place(q) = Place(p)
  BY DEF Same, Place
<1>2. q.r = p.r /\ \A i \in Place(p) : Number(q, i) = Number(p, i)
  BY DEF Same
<1> QED BY <1>1, <1>2 DEF Once

LEMMA RollsOnce ==
  ASSUME Framed, NEW p \in Pages, NEW q \in Pages, Len(p.l) = size.cy, Once(p),
         NEW pos \in margins.top .. margins.bottom, NEW n \in 1 .. margins.bottom - pos + 1,
         Rolls(p, q, pos, n)
  PROVE  Once(q)
<1>1. /\ Len(p.s) \in Nat /\ Len(p.l) \in Nat /\ p.r \in Nat /\ q.r = p.r + n
      /\ margins.top \in Nat /\ margins.bottom \in Nat /\ pos \in Nat /\ n \in Nat
      /\ 1 <= margins.top /\ margins.top <= pos /\ pos + n <= margins.bottom + 1 /\ n >= 1
      /\ margins.bottom <= Len(p.l)
  BY Numbers, FrameFacts DEF Rolls, Down, Up
<1>2. Place(q) = Place(p)
  BY DEF Rolls, Down, Up, Place
<1>3. \A i \in Place(p) : i \in Int /\ Number(p, i) \in Nat /\ Number(p, i) <= p.r
  BY Numbers DEF Once
<1>4. \A i, j \in Place(p) : Number(p, i) = Number(p, j) => i = j
  BY DEF Once
<1>5. \A i \in Int : i \in Place(p) <=> 1 - Len(p.s) <= i /\ i <= Len(p.l)
  BY <1>1 DEF Place
\* A row has the line of a row of p, another one for each row, or a new one.
<1> DEFINE b == margins.bottom
           kept(i) == i < pos \/ i > b
           old(i)  == kept(i) \/ (IF Down(p, q, pos, n) THEN i >= pos + n ELSE i + n <= b)
           from(i) == IF kept(i) THEN i ELSE IF Down(p, q, pos, n) THEN i - n ELSE i + n
           made(i) == IF Down(p, q, pos, n) THEN i - pos + 1 ELSE i + n - b
<1>6. ASSUME NEW i \in Place(p)
      PROVE  /\ old(i) => from(i) \in Place(p) /\ Number(q, i) = Number(p, from(i))
             /\ ~old(i) => made(i) \in 1 .. n /\ Number(q, i) = p.r + made(i)
  <2>1. i \in Int /\ 1 - Len(p.s) <= i /\ i <= Len(p.l)
    BY <1>3, <1>5
  <2>2. CASE kept(i)
    <3>1. Number(q, i) = Number(p, i)
      BY <2>2 DEF Rolls, Down, Up
    <3> QED BY <2>2, <3>1
  <2>3. CASE ~kept(i) /\ Down(p, q, pos, n)
    <3>1. Number(q, i) = IF i < pos + n THEN p.r + i - pos + 1 ELSE Number(p, i - n)
      BY <2>3 DEF Down
    <3>2. i >= pos /\ i <= b
      BY <1>1, <2>1, <2>3
    <3>3. CASE i < pos + n
      <4>1. ~old(i) /\ made(i) = i - pos + 1
        BY <1>1, <2>1, <2>3, <3>3
      <4>2. i - pos + 1 \in 1 .. n /\ p.r + i - pos + 1 = p.r + (i - pos + 1)
        BY <1>1, <2>1, <3>2, <3>3
      <4> QED BY <3>1, <3>3, <4>1, <4>2
    <3>4. CASE ~(i < pos + n)
      <4>1. old(i) /\ from(i) = i - n
        BY <1>1, <2>1, <2>3, <3>4
      <4>2. i - n \in Place(p)
        <5>1. i - n \in Int /\ i - n >= pos /\ i - n <= i
          BY <1>1, <2>1, <3>4
        <5>2. PICK d, e \in Nat : d = Len(p.s) /\ e = Len(p.l)
          BY <1>1
        <5>3. i <= e /\ 1 <= pos /\ pos \in Nat
          BY <1>1, <2>1, <5>2
        <5>4. i - n <= e /\ 1 - d <= i - n
          BY <2>1, <5>1, <5>2, <5>3
        <5> QED BY <1>5, <5>1, <5>2, <5>4
      <4> QED BY <3>1, <3>4, <4>1, <4>2
    <3> QED BY <3>3, <3>4
  <2>4. CASE ~kept(i) /\ ~Down(p, q, pos, n)
    <3>1. Number(q, i) = IF i + n <= b THEN Number(p, i + n) ELSE p.r + i + n - b
      BY <2>4 DEF Rolls, Up
    <3>2. i >= pos /\ i <= b
      BY <1>1, <2>1, <2>4
    <3>3. CASE ~(i + n <= b)
      <4>1. ~old(i) /\ made(i) = i + n - b
        BY <1>1, <2>1, <2>4, <3>3
      <4>2. i + n - b \in 1 .. n /\ p.r + i + n - b = p.r + (i + n - b)
        <5>1. \A x, m, c, r \in Int : /\ r + x + m - c = r + (x + m - c)
                                      /\ x <= c /\ ~(x + m <= c) => x + m - c \in 1 .. m
          OBVIOUS
        <5>2. i \in Int /\ n \in Int /\ b \in Int /\ p.r \in Int
          BY <1>1, <2>1
        <5> HIDE DEF b
        <5> QED BY <3>2, <3>3, <5>1, <5>2
      <4> QED BY <3>1, <3>3, <4>1, <4>2
    <3>4. CASE i + n <= b
      <4>1. old(i) /\ from(i) = i + n
        BY <1>1, <2>1, <2>4, <3>4
      <4>2. i + n \in Place(p)
        <5>1. i + n \in Int /\ i <= i + n
          BY <1>1, <2>1
        <5>2. i + n <= Len(p.l) /\ 1 - Len(p.s) <= i + n
          <6>1. \A x, y, c, m, e \in Int :
                   (x <= y /\ 1 - e <= x => 1 - e <= y) /\ (y <= c /\ c <= m => y <= m)
            OBVIOUS
          <6>2. /\ i \in Int /\ i + n \in Int /\ b \in Int /\ Len(p.l) \in Int /\ Len(p.s) \in Int
                /\ b <= Len(p.l)
            BY <1>1, <2>1
          <6> HIDE DEF b
          <6> QED BY <2>1, <3>4, <5>1, <6>1, <6>2
        <5> QED BY <1>5, <5>1, <5>2
      <4> QED BY <3>1, <3>4, <4>1, <4>2
    <3> QED BY <3>3, <3>4
  <2> QED BY <2>2, <2>3, <2>4
<1>7. ASSUME NEW i \in Int, NEW j \in Int
      PROVE  /\ old(i) /\ old(j) /\ from(i) = from(j) => i = j
             /\ ~old(i) /\ ~old(j) /\ made(i) = made(j) => i = j
  <2>1. \A x, y, c, d, m \in Int :
           /\ x - c + 1 = y - c + 1 => x = y
           /\ x + m - d = y + m - d => x = y
           /\ x - m = y - m => x = y
           /\ x + m = y + m => x = y
    OBVIOUS
  <2>2. pos \in Int /\ b \in Int /\ n \in Int
    BY <1>1
  <2>3. ~old(i) /\ ~old(j) /\ made(i) = made(j) => i = j
    BY <2>1, <2>2
  <2>4. kept(i) /\ old(j) /\ ~kept(j) => from(i) # from(j)
    BY <1>1
  <2>5. kept(j) /\ old(i) /\ ~kept(i) => from(i) # from(j)
    BY <1>1
  <2>6. ~kept(i) /\ ~kept(j) /\ from(i) = from(j) => i = j
    BY <2>1, <2>2
  <2>7. kept(i) /\ kept(j) /\ from(i) = from(j) => i = j
    OBVIOUS
  <2> HIDE DEF old, from, made, kept
  <2> QED BY <2>3, <2>4, <2>5, <2>6, <2>7
<1> HIDE DEF old, from, made, kept, b
<1>8. ASSUME NEW i \in Place(p), NEW j \in Place(p), Number(q, i) = Number(q, j)
      PROVE  i = j
  <2>1. CASE old(i) /\ old(j)
    BY <1>3, <1>4, <1>6, <1>7, <1>8, <2>1
  <2>2. CASE ~old(i) /\ ~old(j)
    <3>1. p.r + made(i) = p.r + made(j) /\ made(i) \in 1 .. n /\ made(j) \in 1 .. n
      BY <1>6, <1>8, <2>2
    <3>2. made(i) = made(j)
      BY <1>1, <3>1
    <3> QED BY <1>3, <1>7, <2>2, <3>2
  <2>3. ASSUME NEW a \in Place(p), NEW c \in Place(p), old(a), ~old(c)
        PROVE  Number(q, a) # Number(q, c)
    <3>1. Number(q, a) <= p.r /\ Number(q, a) \in Nat
      BY <1>3, <1>6, <2>3
    <3>2. Number(q, c) = p.r + made(c) /\ made(c) \in 1 .. n
      BY <1>6, <2>3
    <3> QED BY <1>1, <3>1, <3>2
  <2> QED BY <1>8, <2>1, <2>2, <2>3
<1>9. ASSUME NEW i \in Place(p) PROVE Number(q, i) <= q.r
  <2>1. CASE old(i)
    <3>1. Number(q, i) <= p.r /\ Number(q, i) \in Nat
      BY <1>3, <1>6, <2>1
    <3> QED BY <1>1, <3>1
  <2>2. CASE ~old(i)
    <3>1. Number(q, i) = p.r + made(i) /\ made(i) \in 1 .. n
      BY <1>6, <2>2
    <3> QED BY <1>1, <3>1
  <2> QED BY <2>1, <2>2
<1> QED BY <1>2, <1>8, <1>9 DEF Once

LEMMA RolledOnce ==
  ASSUME Framed, NEW p \in Pages, NEW q \in Pages, Len(p.l) = size.cy, Once(p), Rolled(p, q)
  PROVE  Once(q)
<1>1. CASE Same(p, q)
  BY <1>1, SameOnce
<1>2. ASSUME NEW pos \in margins.top .. margins.bottom,
             NEW n \in 1 .. margins.bottom - pos + 1, Rolls(p, q, pos, n)
      PROVE  Once(q)
  BY <1>2, RollsOnce
<1>3. ASSUME NEW n \in 1 .. size.cy, Scrolls(p, q, n)
      PROVE  Once(q)
  <2>1. n \in Int
    OBVIOUS
  <2> QED BY <1>3, <2>1, ShiftsOnce DEF Scrolls
<1> QED BY <1>1, <1>2, <1>3 DEF Rolled, Forward, Rolls
LEMMA TrimmedNumbers ==
  ASSUME NEW s \in Seq(Rows), NEW k \in Nat
  PROVE  LET t == Trimmed(s, k)
         IN  /\ t \in Seq(Rows) /\ Len(t) = Least(Len(s), k)
             /\ \A i \in 1 - Len(t) .. 0 : t[Len(t) + i] = s[Len(s) + i]
<1> DEFINE m == Least(Len(s), k)
           t == Trimmed(s, k)
<1>1. m \in Nat /\ m <= Len(s) /\ Len(s) \in Nat
  BY DEF Least
<1>2. t = [i \in 1 .. m |-> s[Len(s) - m + i]]
  BY DEF Trimmed, Tip
<1> HIDE DEF m, t
<1>3. \A i \in 1 .. m : s[Len(s) - m + i] \in Rows
  BY <1>1
<1>4. t \in Seq(Rows) /\ Len(t) = m
  BY <1>1, <1>2, <1>3, ArrayOfRows
<1>5. ASSUME NEW i \in 1 - m .. 0 PROVE t[m + i] = s[Len(s) + i]
  <2>1. m + i \in 1 .. m /\ Len(s) - m + (m + i) = Len(s) + i
    BY <1>1
  <2>2. t[m + i] = s[Len(s) - m + (m + i)]
    BY <1>2, <2>1
  <2> QED BY <2>1, <2>2
<1> QED BY <1>4, <1>5 DEF m, t

\* Elements of a sequence of m + n elements, counted from its end.
LEMMA FromTheEnd ==
  ASSUME NEW s, NEW t, NEW u, NEW m \in Nat, NEW n \in Nat,
         \A i \in 1 .. m + n : u[i] = IF i <= m THEN s[i] ELSE t[i - m]
  PROVE  \A i \in 1 - (m + n) .. 0 :
            u[m + n + i] = IF i + n > 0 THEN t[i + n] ELSE s[m + (i + n)]
<1> SUFFICES ASSUME NEW i \in 1 - (m + n) .. 0
             PROVE  u[m + n + i] = IF i + n > 0 THEN t[i + n] ELSE s[m + (i + n)]
  OBVIOUS
<1>1. m + n + i \in 1 .. m + n
  OBVIOUS
<1>2. m + n + i = m + (i + n) /\ m + n + i - m = i + n /\ (m + n + i <= m <=> ~(i + n > 0))
  OBVIOUS
<1>3. u[m + n + i] = IF m + n + i <= m THEN s[m + n + i] ELSE t[m + n + i - m]
  BY <1>1
<1>4. CASE i + n > 0
  <2>1. ~(m + n + i <= m)
    BY <1>2, <1>4
  <2> QED BY <1>2, <1>3, <1>4, <2>1, Zenon
<1>5. CASE ~(i + n > 0)
  <2>1. m + n + i <= m
    BY <1>2, <1>5
  <2> QED BY <1>2, <1>3, <1>5, <2>1, Zenon
<1> QED BY <1>4, <1>5

\* The history of p followed by the first n rows of the page.
LEMMA JoinedNumbers ==
  ASSUME NEW p \in Pages, NEW n \in Nat, n <= Len(p.l)
  PROVE  LET all == p.s \o SubSeq(p.l, 1, n)
         IN  /\ all \in Seq(Rows) /\ Len(all) = Len(p.s) + n
             /\ \A i \in 1 - Len(all) .. 0 : all[Len(all) + i].id = Number(p, i + n)
<1> DEFINE top == SubSeq(p.l, 1, n)
           all == p.s \o top
<1>1. p.s \in Seq(Rows) /\ p.l \in Seq(Rows) /\ Len(p.s) \in Nat
  BY DEF Pages
<1>2. \A i \in 1 .. n : p.l[i] \in Rows
  BY <1>1
<1>3. top \in Seq(Rows) /\ Len(top) = n /\ \A i \in 1 .. n : top[i] = p.l[i]
  <2>1. /\ top \in Seq(Rows)
        /\ Len(top) = IF 1 <= n THEN n - 1 + 1 ELSE 0
        /\ \A i \in 1 .. n - 1 + 1 : top[i] = p.l[1 + i - 1]
    BY <1>2, SubSeqProperties
  <2> HIDE DEF top
  <2>2. n - 1 + 1 = n
    OBVIOUS
  <2>3. ASSUME NEW i \in 1 .. n PROVE top[i] = p.l[i]
    <3>1. 1 + i - 1 = i
      OBVIOUS
    <3> QED BY <2>1, <2>2, <3>1
  <2>4. Len(top) = n
    BY <2>1, <2>2
  <2> QED BY <2>1, <2>3, <2>4
<1> HIDE DEF top
<1>4. /\ all \in Seq(Rows) /\ Len(all) = Len(p.s) + n
      /\ \A i \in 1 .. Len(p.s) + n :
            all[i] = IF i <= Len(p.s) THEN p.s[i] ELSE top[i - Len(p.s)]
  <2>1. /\ all \in Seq(Rows) /\ Len(all) = Len(p.s) + Len(top)
        /\ \A i \in 1 .. Len(p.s) + Len(top) :
              all[i] = IF i <= Len(p.s) THEN p.s[i] ELSE top[i - Len(p.s)]
    <3>1. p.s \in Seq(Rows) /\ top \in Seq(Rows)
      BY <1>1, <1>3
    <3> QED BY <3>1, ConcatProperties
  <2> HIDE DEF all
  <2> QED BY <1>3, <2>1
<1> HIDE DEF all
<1>6. PICK m \in Nat : m = Len(p.s)
  BY <1>1
<1>7. \A i \in 1 .. m + n : all[i] = IF i <= m THEN p.s[i] ELSE top[i - m]
  BY <1>4, <1>6
<1>8. \A i \in 1 - (m + n) .. 0 :
         all[m + n + i] = IF i + n > 0 THEN top[i + n] ELSE p.s[m + (i + n)]
  <2> HIDE <1>6
  <2> QED BY <1>7, FromTheEnd
<1>5. ASSUME NEW i \in 1 - (m + n) .. 0 PROVE all[m + n + i].id = Number(p, i + n)
  <2>1. CASE i + n > 0
    <3>1. i + n \in 1 .. n
      BY <2>1
    <3>2. top[i + n] = p.l[i + n]
      BY <1>3, <3>1
    <3> QED BY <1>8, <2>1, <3>2, Zenon DEF Number
  <2>2. CASE ~(i + n > 0)
    BY <1>6, <1>8, <2>2, Zenon DEF Number
  <2> QED BY <2>1, <2>2
<1> QED BY <1>4, <1>5, <1>6 DEF all, top

\* p and q have the same lines; r differs from p in its cursor.
LEMMA OtherCursor ==
  ASSUME NEW p \in Pages, NEW c
  PROVE  LET q == [p EXCEPT !.c = c] IN q.l = p.l /\ q.s = p.s /\ q.r = p.r
  BY DEF Pages

LEMMA SameLines ==
  ASSUME NEW p, NEW q, q.l = p.l, q.s = p.s, q.r = p.r
  PROVE  Same(p, q)
  BY DEF Same, Number

LEMMA LineInsertRolls ==
  ASSUME Framed, NEW p, Filled(p), NEW pos \in margins.top .. margins.bottom, NEW n0 \in Int
  PROVE  LET q == LineInsert(p, pos, n0)
         IN  Same(p, q) \/ \E n \in 1 .. margins.bottom - pos + 1 : Down(p, q, pos, n)
<1> DEFINE n == Clamp(n0, 0, margins.bottom - pos + 1)
           f == [i \in 1 .. size.cy |->
                   IF i < pos \/ i > margins.bottom THEN p.l[i]
                   ELSE IF i < pos + n THEN Fresh(p, i - pos + 1) ELSE p.l[i - n]]
           q == LineInsert(p, pos, n0)
<1>1. /\ n \in Nat /\ n <= margins.bottom - pos + 1 /\ p \in Pages
      /\ pos \in Nat /\ 1 <= pos /\ margins.bottom \in Nat /\ margins.bottom <= size.cy
      /\ size.cy \in Nat
  <2>1. /\ pos \in Nat /\ 1 <= pos /\ pos <= margins.bottom
        /\ margins.bottom \in Nat /\ margins.bottom <= size.cy /\ size.cy \in Nat
    BY FrameFacts
  <2>2. n \in Nat /\ n <= margins.bottom - pos + 1
    BY <2>1 DEF Clamp
  <2> QED BY <2>1, <2>2 DEF Filled
<1>2. p.l \in Seq(Rows) /\ Len(p.l) = size.cy /\ p.r \in Nat /\ Len(p.s) \in Nat
  BY DEF Filled, Pages
<1>3. CASE n = 0
  <2>1. q = p
    BY <1>3 DEF LineInsert
  <2> HIDE DEF q
  <2> QED BY <2>1, SameLines DEF q
<1>4. CASE n # 0 /\ HorzMarginsExist
  <2>1. q = [p EXCEPT !.c = ClearEol(p.c)]
    BY <1>4 DEF LineInsert
  <2> HIDE DEF q
  <2>2. q.l = p.l /\ q.s = p.s /\ q.r = p.r
    BY <1>1, <2>1, OtherCursor
  <2>3. Same(p, q)
    BY <2>2, SameLines
  <2> QED BY <2>3 DEF q
<1>5. CASE n # 0 /\ ~HorzMarginsExist
  <2>1. q = [p EXCEPT !.c = ClearEol(p.c), !.r = p.r + n, !.l = f]
    BY <1>5 DEF LineInsert
  <2>2. n \in 1 .. margins.bottom - pos + 1
    BY <1>1, <1>5
  <2> HIDE DEF f, n, q
  <2>3. q.l = f /\ q.s = p.s /\ q.r = p.r + n
    BY <1>1, <2>1 DEF Pages
  <2>4. Len(f) = size.cy
    BY <1>1 DEF f
  <2>5. ASSUME NEW i \in Place(p)
        PROVE  Number(q, i) = IF i < pos \/ i > margins.bottom THEN Number(p, i)
                              ELSE IF i < pos + n THEN p.r + i - pos + 1 ELSE Number(p, i - n)
    <3>1. i \in Int /\ i <= size.cy
      BY <1>2 DEF Place
    <3>2. CASE ~(i > 0)
      <4>1. i < pos
        BY <1>1, <3>1, <3>2
      <4> QED BY <2>3, <3>2, <4>1 DEF Number
    <3>3. CASE i > 0
      <4>1. i \in 1 .. size.cy /\ Number(q, i) = f[i].id
        BY <2>3, <3>1, <3>3 DEF Number
      <4>2. f[i] = IF i < pos \/ i > margins.bottom THEN p.l[i]
                   ELSE IF i < pos + n THEN Fresh(p, i - pos + 1) ELSE p.l[i - n]
        BY <4>1 DEF f
      <4>3. CASE i < pos \/ i > margins.bottom
        BY <3>3, <4>1, <4>2, <4>3 DEF Number
      <4>4. CASE ~(i < pos \/ i > margins.bottom) /\ i < pos + n
        <5>1. Fresh(p, i - pos + 1).id = p.r + i - pos + 1
          BY <1>1, <1>2, <3>1 DEF Fresh
        <5> QED BY <4>1, <4>2, <4>4, <5>1
      <4>5. CASE ~(i < pos \/ i > margins.bottom) /\ ~(i < pos + n)
        <5>1. i - n > 0
          BY <1>1, <3>1, <4>5
        <5> QED BY <4>1, <4>2, <4>5, <5>1 DEF Number
      <4> QED BY <4>3, <4>4, <4>5
    <3> QED BY <3>2, <3>3
  <2>6. Down(p, q, pos, n)
    BY <1>2, <2>3, <2>4, <2>5 DEF Down
  <2> QED BY <2>2, <2>6 DEF q
<1> QED BY <1>3, <1>4, <1>5

LEMMA LineRemoveRolls ==
  ASSUME Framed, historysize \in Nat, NEW p, Filled(p),
         NEW pos \in margins.top .. margins.bottom, NEW n0 \in Int
  PROVE  LET q == LineRemove(p, pos, n0)
         IN  \/ Same(p, q)
             \/ \E n \in 1 .. margins.bottom - pos + 1 : Up(p, q, pos, n)
             \/ \E n \in 1 .. size.cy : Scrolls(p, q, n)
<1> DEFINE n == Clamp(n0, 0, margins.bottom - pos + 1)
           f == [i \in 1 .. size.cy |->
                   IF i < pos \/ i > margins.bottom THEN p.l[i]
                   ELSE IF i + n <= margins.bottom THEN p.l[i + n]
                   ELSE Fresh(p, i + n - margins.bottom)]
           saves == history /\ pos = 1 /\ margins = ViewOf(size)
           h == IF saves THEN Scrolled(p, n) ELSE p.s
           q == LineRemove(p, pos, n0)
<1>1. /\ n \in Nat /\ n <= margins.bottom - pos + 1 /\ p \in Pages
      /\ pos \in Nat /\ 1 <= pos /\ margins.bottom \in Nat /\ margins.bottom <= size.cy
      /\ size.cy \in Nat
  <2>1. /\ pos \in Nat /\ 1 <= pos /\ pos <= margins.bottom
        /\ margins.bottom \in Nat /\ margins.bottom <= size.cy /\ size.cy \in Nat
    BY FrameFacts
  <2>2. n \in Nat /\ n <= margins.bottom - pos + 1
    BY <2>1 DEF Clamp
  <2> QED BY <2>1, <2>2 DEF Filled
<1>2. p.l \in Seq(Rows) /\ Len(p.l) = size.cy /\ p.r \in Nat /\ Len(p.s) \in Nat
  BY DEF Filled, Pages
<1>3. CASE n = 0
  <2>1. q = p
    BY <1>3 DEF LineRemove
  <2> HIDE DEF q
  <2> QED BY <2>1, SameLines DEF q
<1>4. CASE n # 0 /\ HorzMarginsExist
  <2>1. q = [p EXCEPT !.c = ClearEol(p.c)]
    BY <1>4 DEF LineRemove
  <2> HIDE DEF q
  <2>2. q.l = p.l /\ q.s = p.s /\ q.r = p.r
    BY <1>1, <2>1, OtherCursor
  <2>3. Same(p, q)
    BY <2>2, SameLines
  <2> QED BY <2>3 DEF q
<1>5. CASE n # 0 /\ ~HorzMarginsExist
  <2>1. q = [p EXCEPT !.c = ClearEol(p.c), !.r = p.r + n, !.s = h, !.l = f]
    BY <1>5 DEF LineRemove
  <2>2. n \in 1 .. margins.bottom - pos + 1
    BY <1>1, <1>5
  <2> HIDE DEF f, n, h, q
  <2>3. q.l = f /\ q.s = h /\ q.r = p.r + n
    BY <1>1, <2>1 DEF Pages
  <2>4. Len(f) = size.cy
    BY <1>1 DEF f
  <2>5. ASSUME NEW i \in 1 .. size.cy
        PROVE  Number(q, i) = IF i < pos \/ i > margins.bottom THEN Number(p, i)
                              ELSE IF i + n <= margins.bottom THEN Number(p, i + n)
                              ELSE p.r + i + n - margins.bottom
    <3>1. i \in Int /\ i > 0 /\ Number(q, i) = f[i].id
      BY <1>1, <2>3 DEF Number
    <3>2. f[i] = IF i < pos \/ i > margins.bottom THEN p.l[i]
                 ELSE IF i + n <= margins.bottom THEN p.l[i + n]
                 ELSE Fresh(p, i + n - margins.bottom)
      BY DEF f
    <3>3. CASE i < pos \/ i > margins.bottom
      BY <3>1, <3>2, <3>3 DEF Number
    <3>4. CASE ~(i < pos \/ i > margins.bottom) /\ i + n <= margins.bottom
      <4>1. i + n > 0
        BY <1>1, <3>1
      <4> QED BY <3>1, <3>2, <3>4, <4>1 DEF Number
    <3>5. CASE ~(i < pos \/ i > margins.bottom) /\ ~(i + n <= margins.bottom)
      <4>1. Fresh(p, i + n - margins.bottom).id = p.r + i + n - margins.bottom
        <5>1. Fresh(p, i + n - margins.bottom).id = p.r + (i + n - margins.bottom)
          BY DEF Fresh
        <5>2. \A r, x, m, b \in Int : r + (x + m - b) = r + x + m - b
          OBVIOUS
        <5> QED BY <1>1, <1>2, <3>1, <5>1, <5>2
      <4> QED BY <3>1, <3>2, <3>5, <4>1
    <3> QED BY <3>3, <3>4, <3>5
  <2>6. CASE ~saves
    <3>1. q.s = p.s
      BY <2>3, <2>6 DEF h
    <3>2. ASSUME NEW i \in Place(p), ~(i > 0)
          PROVE  i < pos /\ Number(q, i) = Number(p, i)
      <4>1. i \in Int
        BY <1>2 DEF Place
      <4> QED BY <1>1, <3>1, <3>2, <4>1 DEF Number
    <3>3. \A i \in Place(p) : i > 0 => i \in 1 .. size.cy
      BY <1>2 DEF Place
    <3>4. Up(p, q, pos, n)
      BY <1>2, <2>3, <2>4, <2>5, <3>1, <3>2, <3>3 DEF Up
    <3> QED BY <2>2, <3>4 DEF q
  <2>7. CASE saves
    <3>1. margins.bottom = size.cy /\ pos = 1 /\ n \in 1 .. size.cy
      <4>1. margins.bottom = size.cy /\ pos = 1
        BY <2>7 DEF ViewOf
      <4> QED BY <1>1, <2>2, <4>1
    <3> DEFINE all == p.s \o SubSeq(p.l, 1, n)
    <3>2. h = Trimmed(all, historysize + 1)
      BY <2>7 DEF h, Scrolled
    <3>3. /\ all \in Seq(Rows) /\ Len(all) = Len(p.s) + n
          /\ \A i \in 1 - Len(all) .. 0 : all[Len(all) + i].id = Number(p, i + n)
      <4>1. n <= Len(p.l)
        BY <1>2, <3>1
      <4> QED BY <1>1, <4>1, JoinedNumbers
    <3> HIDE DEF all
    <3>4. /\ h \in Seq(Rows) /\ Len(h) = Least(Len(all), historysize + 1)
          /\ \A i \in 1 - Len(h) .. 0 : h[Len(h) + i] = all[Len(all) + i]
      <4>1. historysize + 1 \in Nat
        OBVIOUS
      <4> QED BY <3>2, <3>3, <4>1, TrimmedNumbers
    <3>5. /\ Len(h) \in Nat /\ Len(h) <= Len(p.s) + n
          /\ Len(h) = Len(p.s) + n \/ Len(h) >= historysize
      BY <1>1, <1>2, <3>3, <3>4 DEF Least
    <3>6. ASSUME NEW i \in Place(q)
          PROVE  Number(q, i) = IF i + n <= Len(p.l) THEN Number(p, i + n)
                                ELSE p.r + i + n - Len(p.l)
      <4>1. i \in Int /\ 1 - Len(h) <= i /\ i <= size.cy
        BY <1>1, <2>3, <2>4, <3>5 DEF Place
      <4>2. CASE i > 0
        <5>1. i \in 1 .. size.cy /\ ~(i < pos \/ i > margins.bottom)
          BY <1>1, <3>1, <4>1, <4>2
        <5> QED BY <1>2, <2>5, <3>1, <5>1
      <4>3. CASE ~(i > 0)
        <5>1. i \in 1 - Len(h) .. 0 /\ Number(q, i) = h[Len(h) + i].id
          BY <2>3, <3>5, <4>1, <4>3 DEF Number
        <5>2. i \in 1 - Len(all) .. 0
          BY <1>1, <1>2, <3>3, <3>5, <4>1, <4>3
        <5>3. i + n <= Len(p.l)
          BY <1>2, <3>1, <4>1, <4>3
        <5> QED BY <3>3, <3>4, <5>1, <5>2, <5>3
      <4> QED BY <4>2, <4>3
    <3>7. Scrolls(p, q, n)
      <4>1. Len(q.l) = Len(p.l) /\ q.r = p.r + n
        BY <1>2, <2>3, <2>4
      <4>2. q.r >= p.r /\ q.r >= p.r + Len(q.l) + n - Len(p.l)
        <5>1. \A r, m, k \in Nat : r + m >= r /\ r + m >= r + k + m - k
          OBVIOUS
        <5> QED BY <1>1, <1>2, <4>1, <5>1
      <4> QED BY <2>3, <2>7, <3>5, <3>6, <4>1, <4>2 DEF Scrolls, Shifts
    <3> QED BY <3>1, <3>7 DEF q
  <2> QED BY <2>6, <2>7
<1> QED BY <1>3, <1>4, <1>5
\* A call that changes the cursor before or after the lines.
LEMMA RolledThen ==
  ASSUME NEW p, NEW h, NEW q, q.l = h.l, q.s = h.s, q.r = h.r
  PROVE  (Rolled(p, h) => Rolled(p, q)) /\ (Forward(p, h) => Forward(p, q))
<1>1. Place(q) = Place(h) /\ \A i : Number(q, i) = Number(h, i)
  BY DEF Place, Number
<1>2. Same(p, h) => Same(p, q)
  BY <1>1 DEF Same
<1>3. \A pos, n : (Up(p, h, pos, n) => Up(p, q, pos, n)) /\ (Down(p, h, pos, n) => Down(p, q, pos, n))
  BY <1>1 DEF Up, Down
<1>4. \A n : Scrolls(p, h, n) => Scrolls(p, q, n)
  BY <1>1 DEF Scrolls, Shifts
<1>5. Forward(p, h) => Forward(p, q)
  BY <1>2, <1>3, <1>4 DEF Forward
<1> QED BY <1>3, <1>5 DEF Rolled

LEMMA RolledAfter ==
  ASSUME Framed, NEW p \in Pages, NEW h \in Pages, NEW q \in Pages,
         Len(p.l) = size.cy, Same(p, h)
  PROVE  (Rolled(h, q) => Rolled(p, q)) /\ (Forward(h, q) => Forward(p, q))
<1>1. /\ Len(h.s) = Len(p.s) /\ Len(h.l) = Len(p.l) /\ h.r = p.r /\ Place(h) = Place(p)
      /\ \A i \in Place(p) : Number(h, i) = Number(p, i)
  BY DEF Same, Place
<1>2. Same(h, q) => Same(p, q)
  BY <1>1 DEF Same
<1>3. Len(p.s) \in Nat /\ Len(p.l) \in Nat /\ Len(q.s) \in Nat /\ \A i \in Place(p) : i \in Int
  BY Numbers
<1>4. ASSUME NEW pos \in margins.top .. margins.bottom, NEW n \in 1 .. margins.bottom - pos + 1
      PROVE  (Up(h, q, pos, n) => Up(p, q, pos, n)) /\ (Down(h, q, pos, n) => Down(p, q, pos, n))
  <2>1. /\ pos \in Nat /\ 1 <= pos /\ n \in Nat /\ margins.bottom \in Nat
        /\ margins.bottom <= Len(p.l)
    BY FrameFacts
  <2>2. ASSUME NEW i \in Place(p), ~(i < pos \/ i > margins.bottom)
        PROVE  /\ i + n <= margins.bottom => i + n \in Place(p)
               /\ ~(i < pos + n) => i - n \in Place(p)
    <3>1. \A x, m, c, d, e, u \in Int :
             /\ 1 <= c /\ ~(x < c) /\ 0 <= m /\ 0 <= e /\ d <= u
             => /\ x + m <= d => x + m \in 1 - e .. u
                /\ ~(x < c + m) /\ ~(x > d) => x - m \in 1 - e .. u
      OBVIOUS
    <3>2. i \in Int /\ n \in Int /\ 0 <= n /\ pos \in Int /\ Len(p.s) \in Int /\ Len(p.l) \in Int
          /\ 0 <= Len(p.s) /\ margins.bottom \in Int
      BY <1>3, <2>1
    <3> QED BY <2>1, <2>2, <3>1, <3>2, Zenon DEF Place
  <2>3. ASSUME Up(h, q, pos, n) PROVE Up(p, q, pos, n)
    BY <1>1, <2>2, <2>3 DEF Up
  <2>4. ASSUME Down(h, q, pos, n) PROVE Down(p, q, pos, n)
    BY <1>1, <2>2, <2>4 DEF Down
  <2> QED BY <2>3, <2>4
<1>5. ASSUME NEW n \in 1 .. size.cy, Scrolls(h, q, n) PROVE Scrolls(p, q, n)
  <2>1. Shifts(h, q, n)
    BY <1>5 DEF Scrolls
  <2>2. n \in Int /\ 0 <= n
    OBVIOUS
  <2>3. ASSUME NEW i \in Place(q), i + n <= Len(p.l) PROVE i + n \in Place(p)
    <3>1. \A x, m, c, d, u \in Int : 1 - c <= x /\ c <= d + m /\ x + m <= u => x + m \in 1 - d .. u
      OBVIOUS
    <3>2. i \in Int /\ 1 - Len(q.s) <= i
      BY Numbers, <1>3 DEF Place
    <3>3. Len(q.s) <= Len(p.s) + n
      BY <1>1, <2>1 DEF Shifts
    <3>4. Len(p.s) \in Int /\ Len(p.l) \in Int /\ Len(q.s) \in Int
      BY <1>3
    <3> QED BY <2>2, <2>3, <3>1, <3>2, <3>3, <3>4, Zenon DEF Place
  <2>4. Shifts(p, q, n)
    BY <1>1, <2>1, <2>3 DEF Shifts
  <2> QED BY <1>1, <1>5, <2>4 DEF Scrolls
<1>6. ASSUME Forward(h, q) PROVE Forward(p, q)
  BY <1>2, <1>4, <1>5, <1>6 DEF Forward
<1>7. ASSUME NEW pos \in margins.top .. margins.bottom,
             NEW n \in 1 .. margins.bottom - pos + 1, Down(h, q, pos, n)
      PROVE  Rolled(p, q)
  BY <1>4, <1>7 DEF Rolled
<1> QED BY <1>6, <1>7 DEF Rolled

\* Where a cursor scrolls, it scrolls the rows from the top margin on.
LEMMA ScrollsAll ==
  ASSUME Framed, NEW c \in Cursors,
         c.displaced \/ ~VertMarginsExist \/ VertMarginsContain(c.y)
  PROVE  /\ RowSpan(c, TRUE).lo = margins.top
         /\ margins.top \in margins.top .. margins.bottom
<1>1. \A l, h : Span(l, h).lo = l /\ Span(l, h).hi = h
  BY DEF Span
<1>2. c.x \in Nat /\ c.y \in Nat
  BY DEF Cursors
<1> QED
  BY <1>1, <1>2, FrameFacts DEF RowSpan, VertMarginsExist, VertMarginsContain

LEMMA StepLineRolls ==
  ASSUME Framed, historysize \in Nat, NEW p, Filled(p), NEW n \in Int
  PROVE  /\ Rolled(p, StepLine(p, n))
         /\ Placed(p.c) /\ n >= 0 => Forward(p, StepLine(p, n))
<1> DEFINE pos == p.c.y + n
           s == RowSpan(p.c, TRUE)
           q == [p EXCEPT !.c = MoveVert(p.c, pos, TRUE)]
           scrollable == p.c.displaced \/ ~VertMarginsExist \/ VertMarginsContain(p.c.y)
           w == StepLine(p, n)
<1>1. p.c \in Cursors /\ pos \in Int /\ p \in Pages /\ Len(p.l) = size.cy /\ p.c.y \in Nat
  BY DEF Filled, Pages, Cursors
<1>2. Filled(q) /\ q \in Pages
  <2> HIDE DEF pos
  <2>1. \A m \in BOOLEAN : MoveVert(p.c, pos, m) \in Cursors
    BY <1>1, MovesPlaced
  <2>2. MoveVert(p.c, pos, TRUE) \in Cursors
    BY <2>1, Zenon
  <2>3. Filled(q)
    BY <2>2, CursorSet
  <2> QED BY <2>3 DEF Filled
<1>3. q.l = p.l /\ q.s = p.s /\ q.r = p.r
  BY <1>1, OtherCursor
<1>4. Same(p, q)
  <2> HIDE DEF q
  <2> QED BY <1>3, SameLines
<1>5. s.lo \in Int /\ s.hi \in Int /\ s.lo <= s.hi
  <2>1. \A m \in BOOLEAN : /\ RowSpan(p.c, m).lo \in Int /\ RowSpan(p.c, m).hi \in Int
                           /\ RowSpan(p.c, m).lo <= RowSpan(p.c, m).hi
    BY <1>1, Spans
  <2> QED BY <2>1, Zenon
<1> HIDE DEF q
<1>6. w \in Pages
  BY StepLineOK DEF Filled
<1>7. scrollable => s.lo = margins.top /\ margins.top \in margins.top .. margins.bottom
  BY <1>1, ScrollsAll
<1>8. CASE scrollable /\ pos < s.lo
  <2>1. w = LineInsert(q, s.lo, s.lo - pos)
    BY <1>8 DEF StepLine, q
  <2> HIDE DEF s, pos, w
  <2>2. LET v == LineInsert(q, margins.top, s.lo - pos)
        IN  Same(q, v) \/ \E k \in 1 .. margins.bottom - margins.top + 1 : Down(q, v, margins.top, k)
    BY <1>1, <1>2, <1>5, <1>7, <1>8, LineInsertRolls
  <2>3. \/ Same(q, w)
        \/ \E k \in 1 .. margins.bottom - margins.top + 1 : Down(q, w, margins.top, k)
    BY <1>7, <1>8, <2>1, <2>2
  <2>4. Rolled(q, w)
    BY <1>7, <1>8, <2>3 DEF Rolled, Forward
  <2>5. Rolled(p, w)
    BY <1>1, <1>2, <1>4, <1>6, <2>4, RolledAfter
  <2>6. ~(Placed(p.c) /\ n >= 0)
    <3> SUFFICES ASSUME Placed(p.c), n >= 0 PROVE FALSE
      OBVIOUS
    <3>1. pos >= p.c.y
      BY <1>1 DEF pos
    <3>2. p.c.y >= margins.top
      <4>1. CASE VertMarginsContain(p.c.y)
        BY <1>1, <4>1, FrameFacts DEF VertMarginsContain
      <4>2. CASE p.c.displaced
        BY <1>1, <4>2, FrameFacts DEF Placed, MarginsContain, VertMarginsContain
      <4>3. CASE ~VertMarginsExist
        BY <1>1, <4>3, FrameFacts DEF VertMarginsExist, Placed, ViewContains
      <4> QED BY <1>8, <4>1, <4>2, <4>3
    <3> QED BY <1>1, <1>7, <1>8, <3>1, <3>2, FrameFacts
  <2> QED BY <2>5, <2>6 DEF w
<1>9. CASE scrollable /\ pos > s.hi
  <2>1. w = LineRemove(q, s.lo, pos - s.hi)
    <3>1. ~(pos < s.lo)
      <4> HIDE DEF s, pos
      <4> QED BY <1>1, <1>5, <1>9
    <3> QED BY <1>9, <3>1 DEF StepLine, q
  <2> HIDE DEF s, pos, w
  <2>2. LET v == LineRemove(q, margins.top, pos - s.hi)
        IN  \/ Same(q, v)
            \/ \E k \in 1 .. margins.bottom - margins.top + 1 : Up(q, v, margins.top, k)
            \/ \E k \in 1 .. size.cy : Scrolls(q, v, k)
    BY <1>1, <1>2, <1>5, <1>7, <1>9, LineRemoveRolls
  <2>3. Forward(q, w)
    BY <1>7, <1>9, <2>1, <2>2 DEF Forward
  <2>4. Forward(p, w)
    BY <1>1, <1>2, <1>4, <1>6, <2>3, RolledAfter
  <2> QED BY <2>4 DEF w, Rolled
<1>10. CASE ~(scrollable /\ pos < s.lo) /\ ~(scrollable /\ pos > s.hi)
  <2>1. w = q
    BY <1>10 DEF StepLine, q
  <2> HIDE DEF w
  <2>2. Forward(p, w)
    BY <1>4, <2>1 DEF Forward
  <2> QED BY <2>2 DEF w, Rolled
<1> QED BY <1>8, <1>9, <1>10

LEMMA CellAddRolls ==
  ASSUME Framed, historysize \in Nat, NEW p, Filled(p), NEW width
  PROVE  /\ Rolled(p, CellAdd(p, width))
         /\ Placed(p.c) => Forward(p, CellAdd(p, width))
<1> DEFINE w == StepLine(p, 1)
           h == [w EXCEPT !.c = Home(@)]
           q == IF autowrap /\ p.c.eol THEN h ELSE p
           a == [q EXCEPT !.c = PutCell(@, width)]
<1>1. Filled(w) /\ w \in Pages /\ p \in Pages
  BY StepLineOK DEF Filled
<1>2. Rolled(p, w) /\ (Placed(p.c) => Forward(p, w))
  <2>1. 1 \in Int /\ 1 >= 0
    OBVIOUS
  <2> QED BY <2>1, StepLineRolls
<1>3. a = CellAdd(p, width)
  BY DEF CellAdd
<1> HIDE DEF w
<1>4. h.l = w.l /\ h.s = w.s /\ h.r = w.r /\ h \in Pages
  <2>1. h \in Pages
    BY <1>1, HomeOf DEF Filled
  <2> QED BY <1>1, <2>1, OtherCursor
<1>5. Rolled(p, h) /\ (Placed(p.c) => Forward(p, h))
  <2> HIDE DEF h
  <2> QED BY <1>2, <1>4, RolledThen
<1>6. Rolled(p, p) /\ Forward(p, p)
  BY SameLines DEF Forward, Rolled
<1> HIDE DEF h
<1>7. q \in Pages /\ Rolled(p, q) /\ (Placed(p.c) => Forward(p, q))
  BY <1>1, <1>4, <1>5, <1>6
<1> HIDE DEF q
<1>8. a.l = q.l /\ a.s = q.s /\ a.r = q.r
  BY <1>7, OtherCursor
<1> HIDE DEF a
<1>9. Rolled(p, a) /\ (Placed(p.c) => Forward(p, a))
  BY <1>7, <1>8, RolledThen
<1> QED BY <1>3, <1>9
---------------------------------------------------------------------------
\* The steps again: what becomes of the lines.

\* The lines of the next state are those of q, and the view is kept.
Comes(q) == /\ q \in Pages
            /\ lines' = q.l /\ saved' = q.s /\ rows' = q.r
            /\ size' = size /\ margins' = margins /\ historysize' = historysize

Edits == \E q : Comes(q) /\ Rolled(Here, q)

LEMMA BecomesComes ==
  ASSUME NEW q \in Pages, Becomes(q)
  PROVE  Comes(q)
  BY DEF Becomes, Comes, view, conf

LEMMA HereRolls ==
  ASSUME PageInv
  PROVE  Rolled(Here, Here) /\ Forward(Here, Here)
  BY SameLines DEF Forward, Rolled

\* The home of a cursor after the lines.
LEMMA HomeRolls ==
  ASSUME Framed, NEW p, NEW h, Filled(h), Rolled(p, h)
  PROVE  LET q == [h EXCEPT !.c = Home(@)]
         IN  q \in Pages /\ Rolled(p, q) /\ (Forward(p, h) => Forward(p, q))
<1> DEFINE q == [h EXCEPT !.c = Home(@)]
<1>1. h \in Pages /\ q \in Pages
  BY HomeOf DEF Filled
<1>2. q.l = h.l /\ q.s = h.s /\ q.r = h.r
  BY <1>1, OtherCursor
<1> HIDE DEF q
<1> QED BY <1>1, <1>2, RolledThen DEF q

LEMMA MovesRolls ==
  ASSUME PageInv, NEW c \in Cursors, Moves(c)
  PROVE  Edits
<1> DEFINE q == [Here EXCEPT !.c = c]
<1>1. q \in Pages /\ q.l = Here.l /\ q.s = Here.s /\ q.r = Here.r
  BY HereFilled DEF Pages
<1>2. Becomes(q)
  BY DEF Moves
<1> HIDE DEF q
<1>3. Rolled(Here, q)
  BY <1>1, HereRolls, RolledThen
<1> QED BY <1>1, <1>2, <1>3, BecomesComes DEF Edits

\* Writing a cell and a new line only take lines up, unless the cursor was restored.
Feeds == \E q : Comes(q) /\ Rolled(Here, q) /\ (~stale => Forward(Here, q))

LEMMA AddCellRolls == ASSUME PageInv, NEW width, AddCell(width) PROVE Feeds
<1> DEFINE h == ShrinkLine(Here)
           row == [lines[cursor.y] EXCEPT !.cells = Least(@, size.cx)]
           l   == [lines EXCEPT ![cursor.y] = row]
           q   == CellAdd(h, width)
<1>1. cursor.y \in 1 .. size.cy /\ cursor \in Cursors /\ lines \in Seq(Rows) /\ Len(lines) = size.cy
  BY HereFilled DEF AddCell, OnPage, ViewContains, Filled, Pages
<1>2. lines[cursor.y] \in Rows /\ lines[cursor.y].cells >= size.cx
  BY <1>1, HereFilled DEF Filled
<1>3. row \in Rows /\ row.cells >= size.cx /\ row.id = lines[cursor.y].id
  BY <1>2, HereFilled, FrameFacts DEF Rows, Least
<1>4. h = [Here EXCEPT !.l = l]
  BY HereFilled DEF ShrinkLine
<1> HIDE DEF row
<1>5. /\ l \in Seq(Rows) /\ Len(l) = size.cy /\ \A i \in 1 .. size.cy : l[i].cells >= size.cx
      /\ \A i \in 1 .. size.cy : l[i].id = lines[i].id
  BY <1>1, <1>3, HereFilled DEF Filled
<1> HIDE DEF l, h
<1>6. h \in Pages /\ h.c = cursor /\ h.l = l /\ h.s = saved /\ h.r = rows
  BY <1>4, <1>5, HereFilled DEF Pages
<1>7. Filled(h)
  BY <1>5, <1>6, HereFilled DEF Filled
<1>8. Same(Here, h)
  <2>1. \A i \in Place(Here) : i \in Int /\ (i > 0 => i \in 1 .. size.cy)
    BY <1>1, HereFilled, Numbers DEF Place
  <2> QED BY <1>1, <1>5, <1>6, <2>1, HereFilled DEF Same, Number
<1>9. q \in Pages /\ Rolled(h, q) /\ (Placed(cursor) => Forward(h, q))
  <2>1. Filled(q)
    BY <1>7, HereFilled, CellAddOK
  <2> QED BY <1>6, <1>7, <2>1, HereFilled, CellAddRolls DEF Filled
<1> HIDE DEF q
<1>10. Rolled(Here, q) /\ (~stale => Forward(Here, q))
  BY <1>1, <1>6, <1>8, <1>9, HereFilled, RolledAfter
<1>11. Comes(q)
  BY <1>9, BecomesComes DEF AddCell, q, h
<1> QED BY <1>10, <1>11 DEF Feeds

LEMMA InsertCellRolls == ASSUME PageInv, NEW width, InsertCell(width) PROVE Edits
<1> DEFINE c == IF HorzMarginsContain(cursor.x) THEN ClearEol(cursor) ELSE cursor
           h == [Here EXCEPT !.c = c]
           q == CellAdd(h, width)
<1>1. c \in Cursors
  BY HereFilled, EolCleared DEF Follows
<1>2. Becomes(q)
  BY DEF InsertCell
<1> HIDE DEF c
<1>3. Filled(h) /\ h.l = Here.l /\ h.s = Here.s /\ h.r = Here.r
  BY <1>1, HereFilled, CursorSet, OtherCursor
<1> HIDE DEF h
<1>4. Same(Here, h)
  BY <1>3, SameLines
<1>5. q \in Pages /\ Rolled(h, q)
  <2>1. Filled(q)
    BY <1>3, HereFilled, CellAddOK
  <2> QED BY <1>3, <2>1, HereFilled, CellAddRolls DEF Filled
<1> HIDE DEF q
<1>6. Rolled(Here, q)
  <2>1. h \in Pages /\ Here \in Pages /\ Len(Here.l) = size.cy /\ Framed
    BY <1>3, HereFilled DEF Filled
  <2> QED BY <1>4, <1>5, <2>1, RolledAfter
<1> QED BY <1>2, <1>5, <1>6, BecomesComes DEF Edits

LEMMA InsertRolls ==
  ASSUME PageInv, NEW pos \in margins.top .. margins.bottom, NEW n \in Int
  PROVE  Filled(LineInsert(Here, pos, n)) /\ Rolled(Here, LineInsert(Here, pos, n))
<1> DEFINE q == LineInsert(Here, pos, n)
<1>1. pos \in Nat \ {0} /\ pos <= margins.bottom
  BY HereFilled, FrameFacts
<1>2. Filled(q)
  BY <1>1, HereFilled, LineInsertOK
<1>3. Same(Here, q) \/ \E k \in 1 .. margins.bottom - pos + 1 : Down(Here, q, pos, k)
  BY HereFilled, LineInsertRolls
<1> HIDE DEF q
<1>4. Rolled(Here, q)
  BY <1>3 DEF Rolled, Forward
<1> QED BY <1>2, <1>4 DEF q

LEMMA RemoveRolls ==
  ASSUME PageInv, NEW pos \in margins.top .. margins.bottom, NEW n \in Int
  PROVE  Filled(LineRemove(Here, pos, n)) /\ Rolled(Here, LineRemove(Here, pos, n))
<1> DEFINE q == LineRemove(Here, pos, n)
<1>1. pos \in Nat \ {0} /\ pos <= margins.bottom
  BY HereFilled, FrameFacts
<1>2. Filled(q)
  BY <1>1, HereFilled, LineRemoveOK
<1>3. \/ Same(Here, q)
      \/ \E k \in 1 .. margins.bottom - pos + 1 : Up(Here, q, pos, k)
      \/ \E k \in 1 .. size.cy : Scrolls(Here, q, k)
  BY HereFilled, LineRemoveRolls
<1> HIDE DEF q
<1>4. Rolled(Here, q)
  BY <1>3 DEF Rolled, Forward
<1> QED BY <1>2, <1>4 DEF q

LEMMA EditRolls == ASSUME PageInv, EditStep PROVE Edits
<1> USE HereFilled
<1>1. ASSUME NEW w \in {1, 2}, AddCell(w) \/ InsertCell(w) PROVE Edits
  BY <1>1, AddCellRolls, InsertCellRolls DEF Feeds, Edits
<1>2. CASE EditCells
  <2>1. ClearEol(cursor) \in Cursors
    BY EolCleared DEF Follows
  <2> QED BY <1>2, <2>1, MovesRolls DEF EditCells
<1>3. margins.top \in margins.top .. margins.bottom /\ Counts \subseteq Int
  BY FrameFacts
<1>4. ASSUME NEW n \in Counts, ScrollUp(n) \/ ScrollDown(n) PROVE Edits
  <2>1. ASSUME NEW q, Filled(q), Rolled(Here, q), Becomes(q) PROVE Edits
    BY <2>1, BecomesComes DEF Edits, Filled
  <2>2. n \in Int
    BY <1>3
  <2> QED BY <1>3, <1>4, <2>1, <2>2, InsertRolls, RemoveRolls DEF ScrollUp, ScrollDown
<1>5. MarginsContain(cursor) => cursor.y \in margins.top .. margins.bottom
  BY FrameFacts DEF MarginsContain, VertMarginsContain, Cursors
<1>6. ASSUME NEW n \in Counts, InsertLines(n) \/ RemoveLines(n) PROVE Edits
  <2>1. ASSUME NEW h, Filled(h), Rolled(Here, h), Becomes([h EXCEPT !.c = Home(@)])
        PROVE  Edits
    <3> DEFINE q == [h EXCEPT !.c = Home(@)]
    <3>1. q \in Pages /\ Rolled(Here, q)
      BY <2>1, HomeRolls
    <3>2. Becomes(q)
      BY <2>1
    <3> HIDE DEF q
    <3> QED BY <3>1, <3>2, BecomesComes DEF Edits
  <2>2. n \in Int /\ cursor.y \in margins.top .. margins.bottom
    BY <1>3, <1>5, <1>6 DEF InsertLines, RemoveLines
  <2> QED BY <1>6, <2>1, <2>2, InsertRolls, RemoveRolls DEF InsertLines, RemoveLines
<1> QED BY <1>1, <1>2, <1>4, <1>6 DEF EditStep

LEMMA NewLineRolls == ASSUME PageInv, NewLine PROVE Feeds
<1> DEFINE h == StepLine(Here, 1)
           q == [h EXCEPT !.c = Home(@)]
<1>1. Filled(h) /\ Rolled(Here, h) /\ (~stale => Forward(Here, h))
  <2>1. 1 \in Int /\ 1 >= 0
    OBVIOUS
  <2> QED BY <2>1, HereFilled, StepLineOK, StepLineRolls
<1>2. Becomes(q)
  BY DEF NewLine
<1> HIDE DEF h
<1>3. q \in Pages /\ Rolled(Here, q) /\ (~stale => Forward(Here, q))
  BY <1>1, HereFilled, HomeRolls
<1> HIDE DEF q
<1> QED BY <1>2, <1>3, BecomesComes DEF Feeds

LEMMA MoveRolls == ASSUME PageInv, MoveStep PROVE Edits
<1> USE HereFilled
<1>1. Counts \subseteq Int /\ cursor.x \in Int /\ cursor.y \in Int
  BY DEF Cursors
<1>2. ASSUME NEW n \in Int
      PROVE  /\ ToLine(cursor, n) \in Cursors /\ ToColumn(cursor, n) \in Cursors
             /\ Right(cursor, n) \in Cursors
             /\ Home(cursor) \in Cursors /\ End(cursor) \in Cursors
  BY Composed
<1>3. ASSUME NEW n \in Int, NEW m \in BOOLEAN
      PROVE  MoveHorz(cursor, n, m) \in Cursors /\ MoveVert(cursor, n, m) \in Cursors
  BY MovesPlaced
<1>4. ASSUME NEW n \in Int, Becomes(StepLine(Here, n)) PROVE Edits
  <2>1. Filled(StepLine(Here, n)) /\ Rolled(Here, StepLine(Here, n))
    BY StepLineOK, StepLineRolls
  <2> QED BY <1>4, <2>1, BecomesComes DEF Edits, Filled
<1>5. ASSUME NEW n \in Counts, NextLine(n) \/ PrevLine(n) PROVE Edits
  <2> n \in Int /\ -n \in Int
    BY <1>1
  <2> QED BY <1>4, <1>5 DEF NextLine, PrevLine
<1>6. ASSUME NEW n \in Counts, MoveToLine(n) \/ MoveToColumn(n) PROVE Edits
  BY <1>1, <1>2, <1>6, MovesRolls DEF MoveToLine, MoveToColumn
<1>7. ASSUME NEW n \in Int, MoveVertBy(n) \/ MoveHorzBy(n) PROVE Edits
  <2>1. \A m \in BOOLEAN : MoveVert(cursor, cursor.y + n, m) \in Cursors
    BY <1>1, <1>3
  <2>2. MoveVert(cursor, cursor.y + n, TRUE) \in Cursors
    BY <2>1, Zenon
  <2> QED BY <1>2, <1>7, <2>2, MovesRolls DEF MoveVertBy, MoveHorzBy
<1>8. ASSUME UNCHANGED <<view, conf, text>> PROVE Edits
  <2>1. Comes(Here)
    BY <1>8 DEF Comes, view, conf, text
  <2> QED BY <2>1, HereRolls DEF Edits
<1>9. ASSUME NEW i \in Int, Moves(MoveHorz(cursor, i, FALSE)) PROVE Edits
  <2>1. \A m \in BOOLEAN : MoveHorz(cursor, i, m) \in Cursors
    BY <1>3
  <2>2. MoveHorz(cursor, i, FALSE) \in Cursors
    BY <2>1, Zenon
  <2> QED BY <1>9, <2>2, MovesRolls
<1>10. ASSUME Moves(Home(cursor)) \/ Moves(End(cursor)) PROVE Edits
  BY <1>2, <1>10, MovesRolls
<1>11. CASE MoveToCorner \/ (\E x, y \in Counts : MoveToPoint(x, y))
  BY <1>8, <1>11 DEF MoveToCorner, MoveToPoint
<1>12. CASE MoveHome \/ MoveEnd
  BY <1>10, <1>12 DEF MoveHome, MoveEnd
<1>13. CASE NextTab
  <2> PICK i \in cursor.x + 1 .. margins.right : Moves(MoveHorz(cursor, i, FALSE))
    BY <1>13 DEF NextTab
  <2> i \in Int
    BY <1>1, FrameFacts
  <2> QED BY <1>9
<1>14. CASE PrevTab
  <2> DEFINE left == IF cursor.displaced THEN margins.left ELSE 1
  <2>1. left \in Int
    BY FrameFacts
  <2> HIDE DEF left
  <2>2. ASSUME NEW i \in left .. cursor.x - 1, Moves(MoveHorz(cursor, i, FALSE)) PROVE Edits
    <3> i \in Int
      BY <1>1, <2>1
    <3> QED BY <1>9, <2>2
  <2> QED BY <1>10, <1>14, <2>2 DEF PrevTab, left
<1>15. CASE NewLine
  BY <1>15, NewLineRolls DEF Feeds, Edits
<1>16. ASSUME NEW n \in Counts,
              MoveVertBy(n) \/ MoveVertBy(-n) \/ MoveHorzBy(n) \/ MoveHorzBy(-n)
       PROVE  Edits
  <2> n \in Int /\ -n \in Int
    BY <1>1
  <2> QED BY <1>7, <1>16
<1> QED BY <1>5, <1>6, <1>11, <1>12, <1>13, <1>14, <1>15, <1>16 DEF MoveStep
\* Lines that only go over from the page to the history, or back if n is negative.
Slides(p, q, n) ==
    /\ q.r = p.r /\ Len(q.s) = Len(p.s) + n /\ Len(q.l) = Len(p.l) - n
    /\ \A i \in Place(q) : Number(q, i) = Number(p, i + n)

LEMMA UnwindSlides ==
  ASSUME size \in Sizes, NEW p \in Pages, NEW sz \in Sizes, ~(sz.cy <= size.cy)
  PROVE  LET q == Unwind(p, sz)
         IN  \E k \in Nat : /\ k <= sz.cy - size.cy
                            /\ Slides(p, q, -k) /\ q.c.y = p.c.y + k
<1> DEFINE k == Least(sz.cy - size.cy, Len(p.s))
           tip == Tip(p.s, k)
           l == tip \o p.l
           s == SubSeq(p.s, 1, Len(p.s) - k)
           q == Unwind(p, sz)
<1>1. p.c \in Cursors /\ p.l \in Seq(Rows) /\ p.s \in Seq(Rows) /\ Len(p.s) \in Nat /\ Len(p.l) \in Nat
  BY DEF Pages
<1>2. k \in Nat /\ k <= Len(p.s) /\ k <= sz.cy - size.cy
  BY <1>1 DEF Least
<1>3. q = [p EXCEPT !.l = l, !.s = s, !.c.y = @ + k]
  BY DEF Unwind
<1> HIDE DEF k, q
<1>8. PICK m \in Nat : m = Len(p.s)
  BY <1>1
<1>9. PICK u \in Nat : u = Len(p.l)
  BY <1>1
<1>13. PICK d \in Nat : d = Len(p.s) - k /\ d = m - k /\ d + k = m
  <2>1. k <= m
    BY <1>2, <1>8
  <2>2. PICK d \in Nat : d = m - k
    BY <1>2, <2>1
  <2>3. d + k = m
    BY <1>2, <2>2
  <2> QED BY <1>8, <2>2, <2>3
<1>4. tip \in Seq(Rows) /\ Len(tip) = k /\ \A i \in 1 .. k : tip[i] = p.s[Len(p.s) - k + i]
  <2>1. \A i \in 1 .. k : p.s[Len(p.s) - k + i] \in Rows
    BY <1>1, <1>2
  <2>2. tip \in [1 .. k -> Rows] /\ \A i \in 1 .. k : tip[i] = p.s[Len(p.s) - k + i]
    BY <2>1 DEF Tip
  <2> HIDE DEF tip
  <2> QED BY <1>2, <2>2, ArrayOfRows
<1> HIDE DEF tip
<1>5. /\ Len(l) = k + Len(p.l)
      /\ \A i \in 1 .. k + Len(p.l) : l[i] = IF i <= k THEN tip[i] ELSE p.l[i - k]
  <2>1. /\ Len(l) = Len(tip) + Len(p.l)
        /\ \A i \in 1 .. Len(tip) + Len(p.l) :
              l[i] = IF i <= Len(tip) THEN tip[i] ELSE p.l[i - Len(tip)]
    <3>1. tip \in Seq(Rows) /\ p.l \in Seq(Rows)
      BY <1>1, <1>4
    <3> QED BY <3>1, ConcatProperties
  <2> HIDE DEF l
  <2> QED BY <1>4, <2>1
<1>6. Len(s) = Len(p.s) - k /\ \A i \in 1 .. Len(p.s) - k : s[i] = p.s[i]
  <2>1. \A i \in 1 .. d : i \in 1 .. m
    BY <1>2, <1>13
  <2>2. \A i \in 1 .. d : p.s[i] \in Rows
    BY <1>1, <1>8, <2>1
  <2>3. /\ Len(SubSeq(p.s, 1, d)) = IF 1 <= d THEN d - 1 + 1 ELSE 0
        /\ \A i \in 1 .. d - 1 + 1 : SubSeq(p.s, 1, d)[i] = p.s[1 + i - 1]
    BY <2>2, SubSeqProperties
  <2>4. d - 1 + 1 = d /\ \A i \in 1 .. d : 1 + i - 1 = i
    OBVIOUS
  <2>5. Len(SubSeq(p.s, 1, d)) = d /\ \A i \in 1 .. d : SubSeq(p.s, 1, d)[i] = p.s[i]
    BY <2>3, <2>4
  <2> QED BY <1>13, <2>5
<1> HIDE DEF l, s
<1>7. q.l = l /\ q.s = s /\ q.r = p.r /\ q.c.y = p.c.y + k
  BY <1>1, <1>3 DEF Pages, Cursors
<1>10. ASSUME NEW i \in Place(q) PROVE Number(q, i) = Number(p, i + (-k))
  <2>1. i \in 1 - (m - k) .. u + k /\ k <= m
    <3>1. Len(q.s) = d /\ Len(q.l) = k + u
      BY <1>5, <1>6, <1>7, <1>9, <1>13
    <3>2. i \in 1 - d .. k + u
      BY <3>1 DEF Place
    <3>3. d = m - k /\ d + k = m
      BY <1>13
    <3>4. k + u = u + k /\ k <= m
      BY <1>2, <3>3
    <3> QED BY <3>2, <3>3, <3>4
  <2>2. i \in Int /\ i + (-k) = i - k
    BY <1>2, <2>1
  <2>3. CASE ~(i > 0)
    <3>1. m - k + i \in 1 .. m - k /\ ~(i - k > 0) /\ m - k + i = m + (i - k)
      BY <1>2, <2>1, <2>2, <2>3
    <3>2. Number(q, i) = s[m - k + i].id
      BY <1>6, <1>7, <1>8, <2>3 DEF Number
    <3>3. Number(q, i) = p.s[m + (i - k)].id
      BY <1>6, <1>8, <3>1, <3>2
    <3> QED BY <1>8, <2>2, <3>1, <3>3 DEF Number
  <2>4. CASE i > 0 /\ i <= k
    <3>1. i \in 1 .. k /\ i \in 1 .. k + u /\ ~(i - k > 0) /\ m - k + i = m + (i - k)
      BY <1>2, <2>1, <2>2, <2>4
    <3>2. l[i] = p.s[m - k + i]
      BY <1>4, <1>5, <1>8, <1>9, <2>4, <3>1
    <3>3. Number(q, i) = p.s[m + (i - k)].id
      BY <1>7, <2>4, <3>1, <3>2 DEF Number
    <3> QED BY <1>8, <2>2, <3>1, <3>3 DEF Number
  <2>5. CASE ~(i <= k)
    <3>1. i \in 1 .. k + u /\ i - k > 0 /\ i > 0
      BY <1>2, <2>1, <2>2, <2>5
    <3>2. l[i] = p.l[i - k]
      BY <1>5, <1>9, <2>5, <3>1
    <3> QED BY <1>7, <2>2, <3>1, <3>2 DEF Number
  <2> QED BY <2>3, <2>4, <2>5
<1>11. Len(q.s) = Len(p.s) + (-k) /\ Len(q.l) = Len(p.l) - (-k)
  <2>1. Len(q.s) = d /\ Len(q.l) = k + u
    BY <1>5, <1>6, <1>7, <1>9, <1>13
  <2>2. d = m + (-k) /\ k + u = u - (-k)
    BY <1>2, <1>13
  <2> QED BY <1>8, <1>9, <2>1, <2>2
<1>12. Slides(p, q, -k)
  BY <1>7, <1>10, <1>11 DEF Slides
<1> QED BY <1>2, <1>7, <1>12 DEF q

LEMMA RewindSlides ==
  ASSUME NEW p \in Pages, NEW sz \in Sizes
  PROVE  LET q == Rewind(p, sz)
             k == Least(p.c.y - sz.cy, Len(p.l))
         IN  /\ q.c = p.c
             /\ sz.cy >= size.cy \/ k <= 0 => q = p
             /\ ~(sz.cy >= size.cy \/ k <= 0) => Slides(p, q, k)
<1> DEFINE k == Least(p.c.y - sz.cy, Len(p.l))
           l == SubSeq(p.l, k + 1, Len(p.l))
           s == p.s \o SubSeq(p.l, 1, k)
           q == Rewind(p, sz)
<1>1. p.c.y \in Nat /\ p.l \in Seq(Rows) /\ p.s \in Seq(Rows) /\ Len(p.l) \in Nat /\ Len(p.s) \in Nat
  BY DEF Pages, Cursors
<1>2. CASE sz.cy >= size.cy \/ k <= 0
  BY <1>2 DEF Rewind
<1>3. CASE ~(sz.cy >= size.cy \/ k <= 0)
  <2>1. k \in Nat /\ k <= Len(p.l)
    BY <1>1, <1>3 DEF Least
  <2>2. q = [p EXCEPT !.s = s, !.l = l]
    BY <1>3 DEF Rewind
  <2> HIDE DEF k, q
  <2>3. /\ Len(s) = Len(p.s) + k
        /\ \A i \in 1 - Len(s) .. 0 : s[Len(s) + i].id = Number(p, i + k)
    BY <2>1, JoinedNumbers
  <2>4. PICK u \in Nat : u = Len(p.l)
    BY <1>1
  <2>5. Len(l) = u - k /\ \A i \in 1 .. u - k : l[i] = p.l[k + i]
    <3>1. \A i \in k + 1 .. u : p.l[i] \in Rows
      BY <1>1, <2>1, <2>4
    <3>2. k + 1 \in Int /\ u \in Int
      BY <2>1
    <3>3. /\ Len(SubSeq(p.l, k + 1, u)) = IF k + 1 <= u THEN u - (k + 1) + 1 ELSE 0
          /\ \A i \in 1 .. u - (k + 1) + 1 : SubSeq(p.l, k + 1, u)[i] = p.l[k + 1 + i - 1]
      BY <3>1, <3>2, SubSeqProperties
    <3>4. /\ u - (k + 1) + 1 = u - k /\ k <= u
          /\ \A i \in Int : k + 1 + i - 1 = k + i
          /\ (IF k + 1 <= u THEN u - (k + 1) + 1 ELSE 0) = u - k
      BY <2>1, <2>4
    <3>5. ASSUME NEW i \in 1 .. u - k PROVE SubSeq(p.l, k + 1, u)[i] = p.l[k + i]
      <4>1. i \in 1 .. u - (k + 1) + 1 /\ k + 1 + i - 1 = k + i
        BY <3>4
      <4> QED BY <3>3, <4>1
    <3>6. Len(SubSeq(p.l, k + 1, u)) = u - k
      BY <3>3, <3>4
    <3> QED BY <2>4, <3>5, <3>6
  <2> HIDE DEF l, s
  <2>6. q.l = l /\ q.s = s /\ q.r = p.r /\ q.c = p.c
    BY <2>2 DEF Pages
  <2>7. ASSUME NEW i \in Place(q) PROVE Number(q, i) = Number(p, i + k)
    <3>1. i \in Int /\ i \in 1 - Len(s) .. u - k
      BY <2>5, <2>6 DEF Place
    <3>2. CASE i > 0
      <4>1. i \in 1 .. u - k /\ i + k > 0 /\ k + i = i + k
        BY <2>1, <3>1, <3>2
      <4> QED BY <2>5, <2>6, <3>2, <4>1 DEF Number
    <3>3. CASE ~(i > 0)
      <4>1. i \in 1 - Len(s) .. 0
        BY <1>1, <2>1, <2>3, <3>1, <3>3
      <4> QED BY <2>3, <2>6, <3>3, <4>1 DEF Number
    <3> QED BY <3>2, <3>3
  <2>8. Slides(p, q, k)
    BY <2>3, <2>4, <2>5, <2>6, <2>7 DEF Slides
  <2> QED BY <1>3, <2>6, <2>8 DEF k, q
<1> QED BY <1>2, <1>3
\* A page whose lines slid, with a history that may have been cut, is made to fit.
LEMMA FittedShifts ==
  ASSUME NEW p \in Pages, NEW q \in Pages, NEW n \in Int, NEW sz \in Sizes, Slides(p, q, n),
         NEW t \in Seq(Rows), Len(t) <= Len(q.s),
         Len(t) = Len(q.s) \/ Len(t) >= historysize,
         \A i \in 1 - Len(t) .. 0 : t[Len(t) + i] = q.s[Len(q.s) + i]
  PROVE  LET f == Fitted([q EXCEPT !.s = t], sz)
         IN  f \in Pages /\ f.c = q.c /\ Len(f.l) = sz.cy /\ Shifts(p, f, n)
<1> DEFINE u == [q EXCEPT !.s = t]
           a == [i \in 1 .. sz.cy |->
                   IF i <= Len(u.l) THEN [u.l[i] EXCEPT !.cells = Most(@, sz.cx)]
                   ELSE [id |-> u.r + i - Len(u.l), cells |-> sz.cx]]
           f == Fitted(u, sz)
<1>1. u \in Pages /\ u.s = t /\ u.l = q.l /\ u.r = q.r /\ u.c = q.c
  BY DEF Pages
<1> HIDE DEF u
<1>2. f \in Pages /\ f.s = t /\ f.c = q.c /\ Len(f.l) = sz.cy
  <2>1. /\ f.l \in Seq(Rows) /\ Len(f.l) = sz.cy /\ f.s = u.s /\ f.c = u.c /\ f.r \in Nat
    BY <1>1, FittedOK
  <2>2. f = [u EXCEPT !.l = f.l, !.r = f.r]
    BY <1>1 DEF Fitted, Pages
  <2> HIDE DEF f
  <2>3. f \in Pages
    BY <1>1, <2>1, <2>2 DEF Pages
  <2> QED BY <1>1, <2>1, <2>3
<1>3. f.l = a /\ f.r = u.r + Most(0, sz.cy - Len(u.l))
  BY <1>1 DEF Fitted, Pages
<1>4. PICK b, c, k, h, e, r \in Nat : /\ b = Len(p.l) /\ c = Len(q.l) /\ k = Len(t) /\ h = Len(q.s)
                                     /\ e = Len(p.s) /\ r = p.r
  <2>1. /\ Len(p.l) \in Nat /\ Len(q.l) \in Nat /\ Len(t) \in Nat /\ Len(q.s) \in Nat
        /\ Len(p.s) \in Nat /\ p.r \in Nat
    BY DEF Pages
  <2> QED BY <2>1
<1>5. c = b - n /\ h = e + n /\ q.r = r
  BY <1>4 DEF Slides
<1>6. sz.cy \in Nat
  OBVIOUS
<1>7. \A i \in 1 .. sz.cy : f.l[i].id = IF i <= c THEN q.l[i].id ELSE r + i - c
  <2>1. ASSUME NEW i \in 1 .. sz.cy
        PROVE  a[i] = IF i <= c THEN [q.l[i] EXCEPT !.cells = Most(@, sz.cx)]
                      ELSE [id |-> r + i - c, cells |-> sz.cx]
    BY <1>1, <1>4, <1>5
  <2>2. ASSUME NEW i \in 1 .. sz.cy, i <= c PROVE q.l[i] \in Rows
    <3>1. i \in 1 .. Len(q.l) /\ q.l \in Seq(Rows)
      BY <1>4, <1>6, <2>2 DEF Pages
    <3> QED BY <3>1
  <2>3. \A row \in Rows : [row EXCEPT !.cells = Most(@, sz.cx)].id = row.id
    BY DEF Rows
  <2>4. \A x : [id |-> x, cells |-> sz.cx].id = x
    OBVIOUS
  <2> HIDE DEF a, f
  <2> QED BY <1>3, <2>1, <2>2, <2>3, <2>4
<1> HIDE DEF a, f
<1>8. f.r >= r /\ f.r >= r + sz.cy + n - b
  <2>1. f.r = r + Most(0, sz.cy - c)
    BY <1>1, <1>3, <1>4, <1>5
  <2>2. f.r = IF 0 >= sz.cy - c THEN r ELSE r + (sz.cy - c)
    BY <1>6, <2>1 DEF Most
  <2>3. c = b - n
    BY <1>5
  <2> QED BY <1>6, <2>2, <2>3
<1>9. ASSUME NEW i \in Place(f)
      PROVE  Number(f, i) = IF i + n <= b THEN Number(p, i + n) ELSE r + i + n - b
  <2>1. i \in Int /\ 1 - k <= i /\ i <= sz.cy /\ k <= h
    BY <1>2, <1>4, <1>6 DEF Place
  <2>2. i <= c <=> i + n <= b
    BY <1>5, <2>1
  <2>3. i <= c => i \in Place(q)
    BY <1>4, <2>1 DEF Place
  <2>4. i <= c => Number(q, i) = Number(p, i + n)
    BY <2>3 DEF Slides
  <2>5. CASE i > 0
    <3>1. Number(f, i) = f.l[i].id /\ Number(q, i) = q.l[i].id
      BY <2>5 DEF Number
    <3>2. i \in 1 .. sz.cy
      BY <1>6, <2>1, <2>5
    <3>3. i <= c => Number(f, i) = Number(p, i + n)
      BY <1>7, <2>4, <3>1, <3>2
    <3>4. ~(i <= c) => Number(f, i) = r + i - c
      BY <1>7, <3>1, <3>2
    <3>5. r + i - c = r + i + n - b
      BY <1>5, <2>1
    <3> QED BY <2>2, <3>3, <3>4, <3>5
  <2>6. CASE ~(i > 0)
    <3>1. i \in 1 - k .. 0 /\ i <= c
      BY <2>1, <2>6
    <3>2. Number(f, i) = t[Len(t) + i].id
      BY <1>2, <2>6 DEF Number
    <3>3. Number(q, i) = q.s[Len(q.s) + i].id
      BY <2>6 DEF Number
    <3>4. t[Len(t) + i] = q.s[Len(q.s) + i]
      BY <1>4, <3>1
    <3> QED BY <2>2, <2>4, <3>1, <3>2, <3>3, <3>4, Zenon
  <2> QED BY <2>5, <2>6
<1>10. Shifts(p, f, n)
  <2>1. Len(f.s) <= Len(p.s) + n /\ (Len(f.s) = Len(p.s) + n \/ Len(f.s) >= historysize)
    BY <1>2, <1>4, <1>5
  <2>2. f.r >= p.r /\ f.r >= p.r + Len(f.l) + n - Len(p.l)
    BY <1>2, <1>4, <1>8
  <2>3. \A i \in Place(f) :
           Number(f, i) = IF i + n <= Len(p.l) THEN Number(p, i + n) ELSE p.r + i + n - Len(p.l)
    BY <1>4, <1>9
  <2> QED BY <2>1, <2>2, <2>3 DEF Shifts
<1> QED BY <1>2, <1>10 DEF f, u

\* With the history on, n lines come from it or go to it, so that the cursor has its
\* line still; with the history off, none.
LEMMA SlidOut ==
  ASSUME PageInv, NEW sz \in Sizes
  PROVE  LET q == IF history THEN Rewind(Unwind(Here, sz), sz) ELSE Here
         IN  /\ q \in Pages
             /\ \E n \in Int :
                  /\ n <= size.cy /\ Slides(Here, q, n)
                  /\ sz.cy = size.cy => n = 0
                  /\ history /\ ViewContains(cursor) => Clamp(q.c.y, 1, sz.cy) + n = cursor.y
<1> DEFINE w == Unwind(Here, sz)
           z == Rewind(w, sz)
           q == IF history THEN z ELSE Here
           From(x, n) == /\ n <= size.cy /\ Slides(Here, x, n)
                         /\ sz.cy = size.cy => n = 0
                         /\ history /\ ViewContains(cursor) => Clamp(x.c.y, 1, sz.cy) + n = cursor.y
<1>1. /\ size.cy \in Nat /\ sz.cy \in Nat /\ 1 < sz.cy /\ cursor.y \in Nat /\ 1 <= cursor.y
      /\ size \in Sizes
  BY HereFilled, FrameFacts DEF Framed, Cursors
<1>2. w \in Pages /\ z \in Pages /\ Here \in Pages
  BY <1>1, HereFilled, UnwindOK, RewindOK
<1>3. Slides(Here, Here, 0)
  <2>1. /\ Len(saved) \in Nat /\ Len(lines) \in Nat /\ Here.s = saved /\ Here.l = lines
        /\ \A i \in Place(Here) : i \in Int
    BY HereFilled, Numbers
  <2>2. /\ Len(saved) = Len(saved) + 0 /\ Len(lines) = Len(lines) - 0
        /\ \A i \in Place(Here) : i + 0 = i
    BY <2>1
  <2> QED BY <2>1, <2>2 DEF Slides
<1>4. ViewContains(cursor) => cursor.y <= size.cy
  BY <1>1 DEF ViewContains
<1>5. CASE ~history
  <2>1. 0 <= size.cy /\ Slides(Here, q, 0)
    BY <1>1, <1>3, <1>5
  <2>2. q \in Pages
    BY <1>2, <1>5
  <2> QED BY <1>5, <2>1, <2>2
<1>6. ASSUME history, ~(sz.cy <= size.cy)
      PROVE  \E n \in Int : From(q, n)
  <2>1. PICK k \in Nat : k <= sz.cy - size.cy /\ Slides(Here, w, -k) /\ w.c.y = Here.c.y + k
    BY <1>1, <1>2, <1>6, UnwindSlides
  <2>2. z = w
    <3>1. sz.cy >= size.cy
      BY <1>1, <1>6
    <3> QED BY <3>1 DEF Rewind
  <2> HIDE DEF w, z
  <2>3. w.c.y = cursor.y + k
    BY <2>1, HereFilled
  <2>4. ViewContains(cursor) => Clamp(w.c.y, 1, sz.cy) + (-k) = cursor.y
    BY <1>1, <1>4, <2>1, <2>3 DEF Clamp
  <2>5. -k \in Int /\ -k <= size.cy /\ sz.cy # size.cy
    BY <1>1, <1>6
  <2>6. From(q, -k)
    BY <1>6, <2>1, <2>2, <2>4, <2>5
  <2> QED BY <2>5, <2>6
<1>7. ASSUME history, sz.cy <= size.cy
      PROVE  \E n \in Int : From(q, n)
  <2> DEFINE k == Least(w.c.y - sz.cy, Len(w.l))
  <2>1. w = Here
    BY <1>7 DEF Unwind
  <2>2. /\ z.c = w.c
        /\ sz.cy >= size.cy \/ k <= 0 => z = w
        /\ ~(sz.cy >= size.cy \/ k <= 0) => Slides(w, z, k)
    BY <1>2, RewindSlides
  <2> HIDE DEF z
  <2>3. k = Least(cursor.y - sz.cy, size.cy)
    BY <2>1, HereFilled DEF Filled
  <2> HIDE DEF k, w
  <2>4. z.c.y = cursor.y
    BY <2>1, <2>2, HereFilled
  <2>5. k \in Int /\ k <= size.cy
    BY <1>1, <2>3 DEF Least
  <2>6. CASE sz.cy >= size.cy \/ k <= 0
    <3>1. z = Here
      BY <2>1, <2>2, <2>6
    <3>2. ViewContains(cursor) => Clamp(z.c.y, 1, sz.cy) + 0 = cursor.y
      BY <1>1, <1>4, <2>3, <2>4, <2>6 DEF Clamp, Least
    <3>3. From(q, 0)
      BY <1>1, <1>3, <1>7, <3>1, <3>2
    <3> QED BY <3>3
  <2>7. CASE ~(sz.cy >= size.cy \/ k <= 0)
    <3>1. Slides(Here, z, k) /\ sz.cy # size.cy
      BY <1>1, <2>1, <2>2, <2>7
    <3>2. ViewContains(cursor) => Clamp(z.c.y, 1, sz.cy) + k = cursor.y
      BY <1>1, <1>4, <2>3, <2>4, <2>7 DEF Clamp, Least
    <3>3. From(q, k)
      BY <1>7, <2>5, <3>1, <3>2
    <3> QED BY <2>5, <3>3
  <2> QED BY <2>6, <2>7
<1> HIDE DEF w, z
<1>8. CASE history
  <2>1. q \in Pages
    BY <1>2, <1>8
  <2>2. PICK n \in Int : From(q, n)
    BY <1>1, <1>6, <1>7, <1>8
  <2> QED BY <2>1, <2>2 DEF w, z
<1> QED BY <1>5, <1>8 DEF w, z

LEMMA ResizedShifts ==
  ASSUME PageInv, NEW sz \in Sizes
  PROVE  LET p == Resized(sz)
         IN  /\ p \in Pages /\ Len(p.l) = sz.cy
             /\ \E n \in Int :
                  /\ n <= size.cy /\ Shifts(Here, p, n)
                  /\ sz.cy = size.cy => n = 0
                  /\ history /\ ViewContains(cursor) => Clamp(p.c.y, 1, sz.cy) + n = cursor.y
<1> DEFINE q == IF history THEN Rewind(Unwind(Here, sz), sz) ELSE Here
           t == IF history THEN Trimmed(q.s, historysize) ELSE q.s
           p == Resized(sz)
<1>1. q \in Pages
  BY SlidOut
<1>2. PICK n \in Int : /\ n <= size.cy /\ Slides(Here, q, n)
                       /\ sz.cy = size.cy => n = 0
                       /\ history /\ ViewContains(cursor) => Clamp(q.c.y, 1, sz.cy) + n = cursor.y
  BY SlidOut
<1>3. p = Fitted([q EXCEPT !.s = t], sz)
  BY DEF Resized
<1>4. historysize \in Nat /\ Here \in Pages
  BY HereFilled
<1> HIDE DEF q, p
<1>5. /\ t \in Seq(Rows) /\ Len(t) <= Len(q.s) /\ (Len(t) = Len(q.s) \/ Len(t) >= historysize)
      /\ \A i \in 1 - Len(t) .. 0 : t[Len(t) + i] = q.s[Len(q.s) + i]
  <2>1. q.s \in Seq(Rows) /\ Len(q.s) \in Nat
    BY <1>1 DEF Pages
  <2>2. CASE history
    <3>1. t = Trimmed(q.s, historysize)
      BY <2>2
    <3>2. /\ Trimmed(q.s, historysize) \in Seq(Rows)
          /\ Len(Trimmed(q.s, historysize)) = Least(Len(q.s), historysize)
          /\ \A i \in 1 - Len(Trimmed(q.s, historysize)) .. 0 :
                Trimmed(q.s, historysize)[Len(Trimmed(q.s, historysize)) + i] = q.s[Len(q.s) + i]
      BY <1>4, <2>1, TrimmedNumbers
    <3> HIDE DEF t
    <3> QED BY <1>4, <2>1, <3>1, <3>2 DEF Least
  <2>3. CASE ~history
    BY <2>1, <2>3
  <2> QED BY <2>2, <2>3
<1> HIDE DEF t
<1>6. p \in Pages /\ p.c = q.c /\ Len(p.l) = sz.cy /\ Shifts(Here, p, n)
  <2> DEFINE g == Fitted([q EXCEPT !.s = t], sz)
  <2>1. Here \in Pages /\ Slides(Here, q, n)
    BY <1>2, <1>4
  <2>2. g \in Pages /\ g.c = q.c /\ Len(g.l) = sz.cy /\ Shifts(Here, g, n)
    BY <1>1, <1>5, <2>1, FittedShifts
  <2> HIDE DEF g
  <2>3. p = g
    BY <1>3 DEF g
  <2> QED BY <2>2, <2>3
<1> QED BY <1>2, <1>6 DEF p
---------------------------------------------------------------------------
\* No line is at two places.

LEMMA OnceSeq ==
  ASSUME NEW q \in Pages
  PROVE  LET all == q.s \o q.l
         IN  Once(q) <=> /\ \A i, j \in 1 .. Len(all) : all[i].id = all[j].id => i = j
                         /\ \A i \in 1 .. Len(all) : all[i].id <= q.r
<1> DEFINE all == q.s \o q.l
<1>1. q.s \in Seq(Rows) /\ q.l \in Seq(Rows)
  BY DEF Pages
<1>2. /\ Len(all) = Len(q.s) + Len(q.l)
      /\ \A i \in 1 .. Len(q.s) + Len(q.l) :
            all[i] = IF i <= Len(q.s) THEN q.s[i] ELSE q.l[i - Len(q.s)]
  BY <1>1, ConcatProperties
<1> HIDE DEF all
<1>3. PICK m, n \in Nat : m = Len(q.s) /\ n = Len(q.l)
  BY <1>1
<1>4. Len(all) = m + n /\ Place(q) = 1 - m .. n
  BY <1>2, <1>3 DEF Place
<1>5. ASSUME NEW i \in 1 .. m + n
      PROVE  i - m \in 1 - m .. n /\ all[i].id = Number(q, i - m)
  <2>1. i - m \in 1 - m .. n /\ (i <= m <=> ~(i - m > 0)) /\ m + (i - m) = i
    OBVIOUS
  <2>2. all[i] = IF i <= m THEN q.s[i] ELSE q.l[i - m]
    BY <1>2, <1>3
  <2> QED BY <1>3, <2>1, <2>2, Zenon DEF Number
<1>6. ASSUME NEW i \in 1 - m .. n
      PROVE  i + m \in 1 .. m + n /\ i + m - m = i
  OBVIOUS
<1>7. ASSUME Once(q)
      PROVE  /\ \A i, j \in 1 .. m + n : all[i].id = all[j].id => i = j
             /\ \A i \in 1 .. m + n : all[i].id <= q.r
  <2>1. ASSUME NEW i \in 1 .. m + n, NEW j \in 1 .. m + n, all[i].id = all[j].id
        PROVE  i = j
    <3>1. i - m = j - m
      BY <1>4, <1>5, <1>7, <2>1 DEF Once
    <3> QED BY <3>1
  <2> QED BY <1>4, <1>5, <1>7, <2>1 DEF Once
<1>8. ASSUME \A i, j \in 1 .. m + n : all[i].id = all[j].id => i = j,
             \A i \in 1 .. m + n : all[i].id <= q.r
      PROVE  Once(q)
  <2>1. ASSUME NEW i \in 1 - m .. n PROVE Number(q, i) = all[i + m].id
    BY <1>5, <1>6
  <2>2. ASSUME NEW i \in 1 - m .. n, NEW j \in 1 - m .. n, Number(q, i) = Number(q, j)
        PROVE  i = j
    <3>1. i + m = j + m
      BY <1>6, <1>8, <2>1, <2>2
    <3> QED BY <3>1
  <2>3. ASSUME NEW i \in 1 - m .. n PROVE Number(q, i) <= q.r
    BY <1>6, <1>8, <2>1
  <2> QED BY <1>4, <2>2, <2>3 DEF Once
<1> QED BY <1>4, <1>7, <1>8 DEF all

LEMMA OnceHere ==
  ASSUME PageInv
  PROVE  Once(Here) <=> LinesOnce
<1>1. Here \in Pages /\ Here.l = lines /\ Here.s = saved /\ Here.r = rows
  BY HereFilled
<1> DEFINE all == Here.s \o Here.l
<1>2. Once(Here) <=> /\ \A i, j \in 1 .. Len(all) : all[i].id = all[j].id => i = j
                    /\ \A i \in 1 .. Len(all) : all[i].id <= Here.r
  BY <1>1, OnceSeq
<1>3. all = saved \o lines /\ Here.r = rows
  BY <1>1
<1> HIDE DEF all
<1> QED BY <1>2, <1>3 DEF LinesOnce

\* The history loses lines at its old end, or nothing happens to the lines.
Cut(p, q) ==
    /\ q.r = p.r /\ Len(q.s) <= Len(p.s) /\ Len(q.l) = Len(p.l)
    /\ \A i \in Place(q) : i \in Place(p) /\ Number(q, i) = Number(p, i)

Drops == \E q \in Pages : /\ lines' = q.l /\ saved' = q.s /\ rows' = q.r /\ size' = size
                          /\ Cut(Here, q)

Resizes == \E sz \in Sizes : SetSize(sz)

LEMMA CutHistory ==
  ASSUME NEW p \in Pages, NEW t \in Seq(Rows), Len(t) <= Len(p.s),
         \A i \in 1 - Len(t) .. 0 : t[Len(t) + i] = p.s[Len(p.s) + i],
         NEW q \in Pages, q.s = t, q.r = p.r, Len(q.l) = Len(p.l),
         \A i \in 1 .. Len(p.l) : q.l[i].id = p.l[i].id
  PROVE  Cut(p, q)
<1>1. PICK m, n, k \in Nat : m = Len(p.s) /\ n = Len(p.l) /\ k = Len(t)
  <2> Len(p.s) \in Nat /\ Len(p.l) \in Nat /\ Len(t) \in Nat
    BY DEF Pages
  <2> QED OBVIOUS
<1>2. Place(q) = 1 - k .. n /\ Place(p) = 1 - m .. n /\ k <= m
  BY <1>1 DEF Place
<1>3. ASSUME NEW i \in 1 - k .. n
      PROVE  i \in 1 - m .. n /\ Number(q, i) = Number(p, i)
  <2>1. i \in 1 - m .. n /\ i \in Int
    BY <1>2
  <2>2. CASE i > 0
    <3>1. i \in 1 .. n
      BY <2>1, <2>2
    <3> QED BY <1>1, <2>1, <2>2, <3>1 DEF Number
  <2>3. CASE ~(i > 0)
    <3>1. i \in 1 - k .. 0
      BY <2>1, <2>3
    <3>2. t[Len(t) + i] = p.s[Len(p.s) + i]
      BY <1>1, <3>1
    <3> QED BY <2>1, <2>3, <3>2, Zenon DEF Number
  <2> QED BY <2>2, <2>3
<1> QED BY <1>1, <1>2, <1>3 DEF Cut

LEMMA CutOnce ==
  ASSUME NEW p, NEW q, Once(p), Cut(p, q)
  PROVE  Once(q)
  BY DEF Once, Cut

\* Every step edits, resizes, or drops lines of the history only.
LEMMA KindsOfSteps ==
  ASSUME PageInv, [Next]_vars
  PROVE  Edits \/ Resizes \/ Drops
<1>1. /\ lines \in Seq(Rows) /\ saved \in Seq(Rows) /\ rows \in Nat /\ cursor \in Cursors
      /\ Here \in Pages /\ Here.l = lines /\ Here.s = saved /\ Here.r = rows
      /\ Len(lines) = size.cy /\ size.cy \in Nat /\ Len(saved) \in Nat
  BY HereFilled, FrameFacts DEF Filled, Pages
<1>2. ASSUME NEW l \in Seq(Rows), NEW s \in Seq(Rows),
             lines' = l, saved' = s, rows' = rows, size' = size,
             Len(l) = Len(lines), \A i \in 1 .. Len(lines) : l[i].id = lines[i].id,
             Len(s) <= Len(saved), \A i \in 1 - Len(s) .. 0 : s[Len(s) + i] = saved[Len(saved) + i]
      PROVE  Drops
  <2> DEFINE q == [c |-> cursor, l |-> l, s |-> s, r |-> rows]
  <2>1. q \in Pages /\ q.l = l /\ q.s = s /\ q.r = rows
    BY <1>1 DEF Pages
  <2> HIDE DEF q
  <2>2. Cut(Here, q)
    BY <1>1, <1>2, <2>1, CutHistory
  <2> QED BY <1>2, <2>1, <2>2 DEF Drops
<1>3. ASSUME UNCHANGED <<size, text>> PROVE Drops
  BY <1>1, <1>2, <1>3 DEF text
<1>4. ASSUME ModeStep PROVE Resizes \/ Drops
  <2>1. ASSUME NEW n \in HistorySizes, SetHistorySize(n) PROVE Drops
    <3>1. lines' = lines /\ rows' = rows /\ size' = size /\ saved' = Trimmed(saved, n)
      BY <2>1 DEF SetHistorySize, view
    <3>2. n \in Nat
      OBVIOUS
    <3>3. /\ Trimmed(saved, n) \in Seq(Rows)
          /\ Len(Trimmed(saved, n)) = Least(Len(saved), n)
          /\ \A i \in 1 - Len(Trimmed(saved, n)) .. 0 :
                Trimmed(saved, n)[Len(Trimmed(saved, n)) + i] = saved[Len(saved) + i]
      BY <1>1, <3>2, TrimmedNumbers
    <3>4. Len(Trimmed(saved, n)) <= Len(saved)
      BY <1>1, <3>2, <3>3 DEF Least
    <3> QED BY <1>1, <1>2, <3>1, <3>3, <3>4
  <2>2. ASSUME EraseHistory \/ Reset PROVE Drops
    <3> DEFINE f == [i \in 1 .. size.cy |-> [lines[i] EXCEPT !.cells = Most(@, size.cx)]]
    <3>1. rows' = rows /\ size' = size /\ saved' = <<>> /\ (lines' = lines \/ lines' = f)
      BY <2>2 DEF EraseHistory, Reset, view
    <3>2. ASSUME NEW i \in 1 .. size.cy PROVE f[i] \in Rows /\ f[i].id = lines[i].id
      <4>1. ASSUME NEW row \in Rows
            PROVE  LET d == [row EXCEPT !.cells = Most(@, size.cx)] IN d \in Rows /\ d.id = row.id
        BY HereFilled, FrameFacts DEF Rows, Most
      <4>2. lines[i] \in Rows
        BY <1>1
      <4>3. f[i] = [lines[i] EXCEPT !.cells = Most(@, size.cx)]
        OBVIOUS
      <4> HIDE DEF f
      <4> QED BY <4>1, <4>2, <4>3
    <3>3. f \in Seq(Rows) /\ Len(f) = size.cy
      <4>1. f \in [1 .. size.cy -> Rows]
        BY <3>2
      <4> HIDE DEF f
      <4> QED BY <1>1, <4>1, ArrayOfRows
    <3> HIDE DEF f
    <3>4. /\ lines' \in Seq(Rows) /\ Len(lines') = Len(lines)
          /\ \A i \in 1 .. Len(lines) : lines'[i].id = lines[i].id
      BY <1>1, <3>1, <3>2, <3>3
    <3>5. <<>> \in Seq(Rows) /\ Len(<<>>) = 0 /\ 1 - Len(<<>>) .. 0 = {}
      OBVIOUS
    <3>6. Len(<<>>) <= Len(saved) /\ \A i \in 1 - Len(<<>>) .. 0 : <<>>[Len(<<>>) + i] = saved[Len(saved) + i]
      BY <1>1, <3>5
    <3> QED BY <1>2, <3>1, <3>4, <3>5, <3>6
  <2>3. ASSUME \/ \E l \in 1 .. size.cx, r \in 1 .. size.cx : SetHorzMargins(l, r)
               \/ \E t \in 1 .. size.cy, b \in 1 .. size.cy : SetVertMargins(t, b)
               \/ ResetMargins \/ Backup \/ Discard \/ Restore
               \/ \E b \in BOOLEAN : DECom(b) \/ SetAutoWrap(b) \/ SetHistory(b)
        PROVE  UNCHANGED <<size, text>>
    BY <2>3 DEF SetHorzMargins, SetVertMargins, ResetMargins, Backup, Discard, Restore, DECom,
       SetAutoWrap, SetHistory, view
  <2> QED BY <1>3, <1>4, <2>1, <2>2, <2>3 DEF ModeStep, Resizes
<1>5. CASE UNCHANGED vars
  BY <1>3, <1>5 DEF vars, view
<1> QED BY <1>4, <1>5, EditRolls, MoveRolls DEF Next

\* Every line has its place, for good: a step keeps it, moves it, or drops it.
LEMMA NextOnce == PageInv /\ LinesOnce /\ [Next]_vars => LinesOnce'
<1> SUFFICES ASSUME PageInv, LinesOnce, [Next]_vars PROVE LinesOnce'
  OBVIOUS
<1>1. Once(Here)
  BY OnceHere
<1>2. ASSUME NEW q \in Pages, Once(q), lines' = q.l, saved' = q.s, rows' = q.r
      PROVE  LinesOnce'
  <2>1. LET all == q.s \o q.l
        IN  /\ \A i, j \in 1 .. Len(all) : all[i].id = all[j].id => i = j
            /\ \A i \in 1 .. Len(all) : all[i].id <= q.r
    BY <1>2, OnceSeq
  <2> QED BY <1>2, <2>1, Zenon DEF LinesOnce
<1>3. CASE Edits
  <2>1. PICK q : Comes(q) /\ Rolled(Here, q)
    BY <1>3 DEF Edits
  <2>2. Once(q)
    <3>1. Framed /\ Here \in Pages /\ Len(Here.l) = size.cy /\ q \in Pages
      BY <2>1, HereFilled DEF Filled, Comes
    <3> QED BY <1>1, <2>1, <3>1, RolledOnce
  <2> QED BY <1>2, <2>1, <2>2 DEF Comes
<1>4. CASE Resizes
  <2>1. PICK sz \in Sizes : SetSize(sz)
    BY <1>4 DEF Resizes
  <2> DEFINE p == Resized(sz)
  <2>2. p \in Pages /\ \E n \in Int : Shifts(Here, p, n)
    BY ResizedShifts
  <2>3. lines' = p.l /\ saved' = p.s /\ rows' = p.r
    BY <2>1 DEF SetSize
  <2> HIDE DEF p
  <2>4. Once(p)
    BY <1>1, <2>2, HereFilled, ShiftsOnce
  <2> QED BY <1>2, <2>2, <2>3, <2>4
<1>5. CASE Drops
  BY <1>1, <1>2, <1>5, CutOnce DEF Drops
<1> QED BY <1>3, <1>4, <1>5, KindsOfSteps

LEMMA InitOnce == Init => LinesOnce
<1> SUFFICES ASSUME Init PROVE LinesOnce
  OBVIOUS
<1>1. PageInv
  BY InitHolds
<1>2. saved = <<>> /\ rows = size.cy /\ size.cy \in Nat /\ \A i \in 1 .. size.cy : lines[i].id = i
  BY <1>1, HereFilled, FrameFacts DEF Init, NewRows
<1>3. Len(saved) = 0 /\ Len(lines) = size.cy
  BY <1>1, <1>2, HereFilled DEF Filled
<1>4. ASSUME NEW i \in Place(Here) PROVE i \in 1 .. size.cy /\ Number(Here, i) = i
  BY <1>1, <1>2, <1>3, HereFilled DEF Place, Number
<1>5. Once(Here)
  BY <1>1, <1>2, <1>4, HereFilled DEF Once
<1> QED BY <1>1, <1>5, OnceHere

\* No line is at two places of the page and its history, whatever was scrolled,
\* resized and taken back: for every set of sizes and history sizes.
THEOREM LinesStayOnce == Spec => []LinesOnce
<1>1. Init => LinesOnce
  BY InitOnce
<1>2. PageInv /\ LinesOnce /\ [Next]_vars => LinesOnce'
  BY NextOnce
<1> QED BY <1>1, <1>2, PageInvariant, PTL DEF Spec
---------------------------------------------------------------------------
\* What a step may do to the lines.

\* The numbers of the rows, of the page and of the history, under a place.
LEMMA RowNumbers ==
  ASSUME NEW p \in Pages
  PROVE  /\ \A i \in 1 .. Len(p.l) : i \in Place(p) /\ Number(p, i) = p.l[i].id
         /\ \A k \in 1 .. Len(p.s) : k - Len(p.s) \in Place(p) /\ Number(p, k - Len(p.s)) = p.s[k].id
<1>1. PICK m, n \in Nat : m = Len(p.s) /\ n = Len(p.l)
  <2> Len(p.s) \in Nat /\ Len(p.l) \in Nat
    BY DEF Pages
  <2> QED OBVIOUS
<1>2. Place(p) = 1 - m .. n
  BY <1>1 DEF Place
<1>3. ASSUME NEW i \in 1 .. n PROVE i \in 1 - m .. n /\ i > 0
  OBVIOUS
<1>4. ASSUME NEW k \in 1 .. m PROVE k - m \in 1 - m .. n /\ ~(k - m > 0) /\ m + (k - m) = k
  OBVIOUS
<1>5. \A k \in 1 .. m : Number(p, k - m) = p.s[k].id
  BY <1>1, <1>4, Zenon DEF Number
<1>6. \A i \in 1 .. n : Number(p, i) = p.l[i].id
  BY <1>3 DEF Number
<1> QED BY <1>1, <1>2, <1>3, <1>4, <1>5, <1>6

LEMMA FrameStep == PageInv /\ [Next]_vars => KeepsFrame
<1> SUFFICES ASSUME PageInv, [Next]_vars, size' = size,
                    NEW i \in 1 .. size.cy, i < margins.top \/ i > margins.bottom
             PROVE  lines'[i].id = lines[i].id
  BY DEF KeepsFrame
<1>1. /\ Framed /\ Here \in Pages /\ Here.l = lines /\ Len(lines) = size.cy /\ size.cy \in Nat
  BY HereFilled, FrameFacts DEF Filled
<1>2. i \in Place(Here) /\ Number(Here, i) = lines[i].id
  BY <1>1, RowNumbers
<1>3. ASSUME NEW q \in Pages, lines' = q.l, Len(q.l) = Len(lines), Number(q, i) = Number(Here, i)
      PROVE  lines'[i].id = lines[i].id
  BY <1>1, <1>2, <1>3, RowNumbers
<1>4. CASE Edits
  <2>1. PICK q : Comes(q) /\ Rolled(Here, q)
    BY <1>4 DEF Edits
  <2>2. q \in Pages /\ lines' = q.l
    BY <2>1 DEF Comes
  <2>3. ASSUME Same(Here, q) PROVE Len(q.l) = Len(lines) /\ Number(q, i) = Number(Here, i)
    BY <1>1, <1>2, <2>3 DEF Same
  <2>4. ASSUME NEW pos \in margins.top .. margins.bottom,
               NEW n \in 1 .. margins.bottom - pos + 1, Rolls(Here, q, pos, n)
        PROVE  Len(q.l) = Len(lines) /\ Number(q, i) = Number(Here, i)
    <3>1. i < pos \/ i > margins.bottom
      BY <1>1, FrameFacts
    <3> QED BY <1>1, <1>2, <2>4, <3>1 DEF Rolls, Up, Down
  <2>5. ~\E n \in 1 .. size.cy : Scrolls(Here, q, n)
    BY <1>1, FrameFacts DEF Scrolls, ViewOf
  <2>6. Len(q.l) = Len(lines) /\ Number(q, i) = Number(Here, i)
    BY <2>1, <2>3, <2>4, <2>5 DEF Rolled, Forward, Rolls
  <2> QED BY <1>3, <2>2, <2>6
<1>5. CASE Resizes
  <2>1. PICK sz \in Sizes : SetSize(sz)
    BY <1>5 DEF Resizes
  <2> DEFINE p == Resized(sz)
  <2>2. sz = size /\ lines' = p.l
    BY <2>1 DEF SetSize
  <2>3. /\ p \in Pages /\ Len(p.l) = sz.cy
        /\ \E n \in Int : Shifts(Here, p, n) /\ (sz.cy = size.cy => n = 0)
    BY ResizedShifts
  <2> HIDE DEF p
  <2>4. Shifts(Here, p, 0)
    BY <2>2, <2>3
  <2>5. i \in Place(p)
    BY <2>2, <2>3, RowNumbers
  <2>6. i + 0 = i /\ i + 0 <= Len(Here.l)
    BY <1>1
  <2>7. Number(p, i) = Number(Here, i)
    BY <2>4, <2>5, <2>6 DEF Shifts
  <2> QED BY <1>1, <1>3, <2>2, <2>3, <2>7
<1>6. CASE Drops
  <2>1. PICK q \in Pages : lines' = q.l /\ Cut(Here, q)
    BY <1>6 DEF Drops
  <2>2. Len(q.l) = Len(lines)
    BY <1>1, <2>1 DEF Cut
  <2>3. i \in Place(q)
    BY <1>1, <2>2, RowNumbers
  <2> QED BY <1>3, <2>1, <2>2, <2>3 DEF Cut
<1> QED BY <1>4, <1>5, <1>6, KindsOfSteps

\* No call other than a resize moves a line above or below the margins: for every
\* set of sizes, with every margin.
THEOREM FrameStays == Spec => FrameKept
<1>1. PageInv /\ [Next]_vars => [KeepsFrame]_vars
  BY FrameStep
<1> QED BY <1>1, PageInvariant, PTL DEF Spec, FrameKept

LEMMA ForwardStep == PageInv /\ LinesOnce /\ [Next]_vars => NoneDown
<1> SUFFICES ASSUME PageInv, LinesOnce, ~stale,
                    (\E w \in {1, 2} : AddCell(w)) \/ NewLine,
                    NEW i \in 1 .. size.cy, NEW j \in 1 .. size.cy,
                    lines'[j].id = lines[i].id
             PROVE  j <= i
  BY DEF NoneDown
<1>1. /\ Framed /\ Here \in Pages /\ Here.l = lines /\ Len(lines) = size.cy /\ size.cy \in Nat
      /\ Here.s = saved /\ Here.r = rows
  BY HereFilled, FrameFacts DEF Filled
<1>2. Once(Here)
  BY OnceHere
<1>3. PICK q : Comes(q) /\ Forward(Here, q)
  <2>1. Feeds
    BY AddCellRolls, NewLineRolls
  <2> QED BY <2>1 DEF Feeds
<1>4. q \in Pages /\ lines' = q.l /\ Len(q.l) = Len(lines)
  BY <1>1, <1>3 DEF Comes, Forward, Same, Up, Scrolls
<1>5. /\ i \in Place(Here) /\ Number(Here, i) = lines[i].id
      /\ j \in Place(Here) /\ j \in Place(q) /\ Number(q, j) = lines'[j].id
  BY <1>1, <1>4, RowNumbers
<1>6. Number(q, j) = Number(Here, i) /\ Number(Here, i) \in Nat /\ Number(Here, i) <= rows
      /\ rows \in Nat
  BY <1>1, <1>2, <1>5, Numbers DEF Once
\* The line at row j was at row j or below, or there was none.
<1>7. ASSUME NEW k \in Int, k >= j, k <= size.cy, Number(q, j) = Number(Here, k)
      PROVE  j <= i
  <2>1. k \in 1 .. Len(Here.l)
    BY <1>1, <1>7
  <2>2. k \in Place(Here)
    BY <1>1, <2>1, RowNumbers
  <2>3. k = i
    BY <1>2, <1>5, <1>6, <1>7, <2>2 DEF Once
  <2> QED BY <1>7, <2>3
<1>8. ASSUME NEW k \in Int, k > 0, Number(q, j) = rows + k
      PROVE  j <= i
  BY <1>6, <1>8
<1>9. CASE Same(Here, q)
  <2>1. Number(q, j) = Number(Here, j)
    BY <1>5, <1>9 DEF Same
  <2> QED BY <1>7, <2>1
<1>10. ASSUME NEW pos \in margins.top .. margins.bottom,
              NEW n \in 1 .. margins.bottom - pos + 1, Up(Here, q, pos, n)
       PROVE  j <= i
  <2>1. margins.bottom \in Nat /\ margins.bottom <= size.cy
    BY <1>1, FrameFacts
  <2>2. Number(q, j) = IF j < pos \/ j > margins.bottom THEN Number(Here, j)
                       ELSE IF j + n <= margins.bottom THEN Number(Here, j + n)
                       ELSE rows + j + n - margins.bottom
    BY <1>1, <1>5, <1>10 DEF Up
  <2>3. CASE j < pos \/ j > margins.bottom
    BY <1>7, <2>2, <2>3
  <2>4. CASE ~(j < pos \/ j > margins.bottom) /\ j + n <= margins.bottom
    <3>1. j + n \in Int /\ j + n >= j /\ j + n <= size.cy
      BY <1>1, <2>1, <2>4
    <3> QED BY <1>7, <2>2, <2>4, <3>1
  <2>5. CASE ~(j < pos \/ j > margins.bottom) /\ ~(j + n <= margins.bottom)
    <3>1. /\ j + n - margins.bottom \in Int /\ j + n - margins.bottom > 0
          /\ rows + j + n - margins.bottom = rows + (j + n - margins.bottom)
      BY <1>6, <2>1, <2>5
    <3> QED BY <1>8, <2>2, <2>5, <3>1
  <2> QED BY <2>3, <2>4, <2>5
<1>11. ASSUME NEW n \in 1 .. size.cy, Scrolls(Here, q, n)
       PROVE  j <= i
  <2>1. Number(q, j) = IF j + n <= size.cy THEN Number(Here, j + n) ELSE rows + j + n - size.cy
    BY <1>1, <1>5, <1>11 DEF Scrolls, Shifts
  <2>2. CASE j + n <= size.cy
    BY <1>1, <1>7, <2>1, <2>2
  <2>3. CASE ~(j + n <= size.cy)
    <3>1. /\ j + n - size.cy \in Int /\ j + n - size.cy > 0
          /\ rows + j + n - size.cy = rows + (j + n - size.cy)
      BY <1>1, <1>6, <2>3
    <3> QED BY <1>8, <2>1, <2>3, <3>1
  <2> QED BY <2>2, <2>3
<1> QED BY <1>3, <1>9, <1>10, <1>11 DEF Forward

\* A line feed, a wrap and writing never take a line of the page down, in the
\* margins or without: unless the cursor was just restored.
THEOREM FeedsForward == Spec => ScrollsForward
<1>1. PageInv /\ LinesOnce /\ [Next]_vars => [NoneDown]_vars
  BY ForwardStep
<1> QED BY <1>1, PageInvariant, LinesStayOnce, PTL DEF Spec, ScrollsForward

\* Lines that go to the history are appended to it, and in their order.
LEMMA ShiftsAppend ==
  ASSUME PageInv, NEW q \in Pages, NEW n \in Int, n <= size.cy, Shifts(Here, q, n),
         saved' = q.s, NEW k \in 1 .. Len(q.s),
         \A i \in 1 .. Len(saved) : saved[i].id # q.s[k].id
  PROVE  \E i \in 1 .. size.cy : ReadsAsPage(k, i)
<1>1. /\ Here \in Pages /\ Here.l = lines /\ Len(lines) = size.cy /\ size.cy \in Nat
      /\ Here.s = saved /\ historysize \in Nat /\ Len(q.s) \in Nat
  BY HereFilled, FrameFacts DEF Filled, Pages
<1>2. PICK m, h, c \in Nat : m = Len(q.s) /\ h = Len(saved) /\ c = size.cy
  <2> Len(saved) \in Nat
    BY HereFilled DEF Pages
  <2> QED BY <1>1
<1>3. m <= h + n /\ (m = h + n \/ m >= historysize)
  BY <1>1, <1>2 DEF Shifts
<1>4. ASSUME NEW x \in 1 .. m
      PROVE  q.s[x].id = Number(Here, x - m + n)
  <2>1. x - m \in Place(q) /\ Number(q, x - m) = q.s[x].id
    BY <1>2, RowNumbers
  <2>2. x - m + n <= c
    BY <1>2
  <2> QED BY <1>1, <1>2, <2>1, <2>2 DEF Shifts
<1>12. k \in 1 .. m
  BY <1>2
<1> PICK i \in Int : i = k - m + n
  BY <1>12
<1>5. /\ k \in 1 .. m /\ i \in Int /\ i <= c /\ i + m - k <= c
      /\ ~(i > 0) => h + i \in 1 .. h /\ h + i - h = i
      /\ i > k => m # h + n
      /\ \A j \in 1 - Least(i, k) .. m - k :
            k + j \in 1 .. m /\ 1 <= i + j /\ i + j <= c /\ k + j - m + n = i + j
  <2>1. k \in 1 .. m /\ m <= h + n /\ n <= c
    BY <1>2, <1>3
  <2>2. m \in Nat /\ h \in Nat /\ c \in Nat /\ n \in Int
    OBVIOUS
  <2>3. k \in Nat /\ 1 <= k /\ k <= m
    BY <2>1
  <2>4. i <= c /\ i + m - k <= c
    BY <2>1, <2>2, <2>3
  <2>5. ~(i > 0) => h + i \in 1 .. h /\ h + i - h = i
    BY <2>1, <2>2, <2>3
  <2>6. i > k => m # h + n
    BY <2>1, <2>2, <2>3
  <2>7. ASSUME NEW j \in 1 - Least(i, k) .. m - k
        PROVE  k + j \in 1 .. m /\ 1 <= i + j /\ i + j <= c /\ k + j - m + n = i + j
    <3>1. j \in Int /\ 1 - i <= j /\ 1 - k <= j /\ j <= m - k
      BY <2>2, <2>3 DEF Least
    <3> QED BY <2>1, <2>2, <2>3, <3>1
  <2> QED BY <2>1, <2>4, <2>5, <2>6, <2>7
<1>11. q.s[k].id = Number(Here, i)
  BY <1>4, <1>5
<1>6. i > 0
  <2> SUFFICES ASSUME ~(i > 0) PROVE FALSE
    OBVIOUS
  <2>1. PICK x \in 1 .. h : x - h = i
    BY <1>5
  <2>2. Number(Here, x - h) = saved[x].id
    BY <1>1, <1>2, RowNumbers
  <2> QED BY <1>2, <1>11, <2>1, <2>2
<1>7. i \in 1 .. c
  BY <1>5, <1>6
<1>8. i + m - k <= c /\ (i > k => m >= historysize)
  BY <1>3, <1>5
<1>9. ASSUME NEW j \in 1 - Least(i, k) .. m - k
      PROVE  q.s[k + j].id = lines[i + j].id
  <2>1. k + j \in 1 .. m /\ 1 <= i + j /\ i + j <= c /\ k + j - m + n = i + j
    BY <1>5
  <2>2. i + j \in 1 .. c
    <3> j \in Int
      BY <1>5 DEF Least
    <3> QED BY <1>5, <2>1
  <2>3. q.s[k + j].id = Number(Here, i + j)
    BY <1>4, <2>1
  <2>4. Number(Here, i + j) = lines[i + j].id
    BY <1>1, <1>2, <2>2, RowNumbers
  <2> QED BY <2>3, <2>4
<1>10. ReadsAsPage(k, i)
  BY <1>2, <1>8, <1>9 DEF ReadsAsPage
<1> QED BY <1>2, <1>7, <1>10

LEMMA AppendStep == PageInv /\ [Next]_vars => AppendsOnly
<1> SUFFICES ASSUME PageInv, [Next]_vars, NEW k \in 1 .. Len(saved'),
                    \A i \in 1 .. Len(saved) : saved[i].id # saved'[k].id
             PROVE  \E i \in 1 .. size.cy : ReadsAsPage(k, i)
  BY DEF AppendsOnly
<1>1. Here \in Pages /\ Here.s = saved /\ Framed /\ size.cy \in Nat /\ saved \in Seq(Rows)
  BY HereFilled, FrameFacts DEF Pages
\* A history that only lost lines has nothing new.
<1>2. ASSUME NEW q \in Pages, saved' = q.s, Len(q.s) <= Len(saved),
             \A i \in Place(q) : i <= 0 => Number(q, i) = Number(Here, i)
      PROVE  FALSE
  <2>1. PICK m, h \in Nat : m = Len(q.s) /\ h = Len(saved)
    <3> Len(saved) \in Nat /\ Len(q.s) \in Nat
      BY <1>1 DEF Pages
    <3> QED OBVIOUS
  <2>2. k \in 1 .. m /\ k - m \in Place(q) /\ Number(q, k - m) = q.s[k].id
    BY <1>2, <2>1, RowNumbers
  <2>3. m <= h
    BY <1>2, <2>1
  <2>4. PICK x \in 1 .. h : x - h = k - m
    <3> k - m + h \in 1 .. h /\ k - m + h - h = k - m
      BY <2>2, <2>3
    <3> QED OBVIOUS
  <2>5. k - m <= 0
    BY <2>2
  <2>6. Number(Here, x - h) = saved[x].id
    BY <1>1, <2>1, RowNumbers
  <2>7. saved[x].id = saved'[k].id
    BY <1>2, <2>2, <2>4, <2>5, <2>6
  <2> QED BY <2>1, <2>7
<1>3. CASE Edits
  <2>1. PICK q : Comes(q) /\ Rolled(Here, q)
    BY <1>3 DEF Edits
  <2>2. q \in Pages /\ saved' = q.s
    BY <2>1 DEF Comes
  <2>3. ASSUME NEW n \in 1 .. size.cy, Scrolls(Here, q, n)
        PROVE  \E i \in 1 .. size.cy : ReadsAsPage(k, i)
    <3>1. n \in Int /\ n <= size.cy
      BY <1>1
    <3> QED BY <2>2, <2>3, <3>1, ShiftsAppend DEF Scrolls
  <2>4. ASSUME Len(q.s) = Len(Here.s), Len(q.l) = Len(Here.l),
               \A i \in Place(Here) : i <= 0 => Number(q, i) = Number(Here, i)
        PROVE  FALSE
    <3>1. Place(q) = Place(Here)
      BY <2>4 DEF Place
    <3>2. Len(q.s) <= Len(saved)
      BY <1>1, <2>4
    <3> QED BY <1>2, <2>2, <2>4, <3>1, <3>2
  <2>5. ~Same(Here, q)
    BY <2>4 DEF Same
  <2>6. ASSUME NEW pos \in margins.top .. margins.bottom,
               NEW n \in 1 .. margins.bottom - pos + 1, Rolls(Here, q, pos, n)
        PROVE  FALSE
    <3>1. ASSUME NEW i \in Place(Here), i <= 0 PROVE Number(q, i) = Number(Here, i)
      <4>1. i < pos
        BY <1>1, <3>1, FrameFacts, Numbers
      <4> QED BY <2>6, <4>1 DEF Rolls, Up, Down
    <3> QED BY <2>4, <2>6, <3>1 DEF Rolls, Up, Down
  <2> QED BY <2>1, <2>3, <2>5, <2>6 DEF Rolled, Forward, Rolls
<1>4. CASE Resizes
  <2>1. PICK sz \in Sizes : SetSize(sz)
    BY <1>4 DEF Resizes
  <2> DEFINE p == Resized(sz)
  <2>2. saved' = p.s
    BY <2>1 DEF SetSize
  <2>3. p \in Pages /\ \E n \in Int : n <= size.cy /\ Shifts(Here, p, n)
    BY ResizedShifts
  <2> HIDE DEF p
  <2> QED BY <2>2, <2>3, ShiftsAppend
<1>5. CASE Drops
  <2>1. PICK q \in Pages : saved' = q.s /\ Cut(Here, q)
    BY <1>5 DEF Drops
  <2> QED BY <1>1, <1>2, <2>1 DEF Cut
<1> QED BY <1>3, <1>4, <1>5, KindsOfSteps

\* What enters the history was at the top of the page and comes to its end in the
\* order of the page, nothing left out unless the history is full.
THEOREM HistoryGrowsAtItsEnd == Spec => HistoryAppends
<1>1. PageInv /\ [Next]_vars => [AppendsOnly]_vars
  BY AppendStep
<1> QED BY <1>1, PageInvariant, PTL DEF Spec, HistoryAppends

LEMMA FollowStep == PageInv /\ [Next]_vars => KeepsLine
<1> SUFFICES ASSUME PageInv, [Next]_vars, history, size' # size, ViewContains(cursor)
             PROVE  lines'[cursor'.y].id = lines[cursor.y].id
  BY DEF KeepsLine
<1>1. /\ Here \in Pages /\ Here.l = lines /\ Len(lines) = size.cy /\ size.cy \in Nat
      /\ cursor.y \in 1 .. size.cy
  BY HereFilled, FrameFacts DEF Filled, ViewContains
<1>2. PICK sz \in Sizes : SetSize(sz)
  BY KindsOfSteps DEF Edits, Comes, Drops, Resizes
<1> DEFINE p == Resized(sz)
<1>3. lines' = p.l /\ cursor' = [p.c EXCEPT !.x = Clamp(@, 1, sz.cx), !.y = Clamp(@, 1, sz.cy), !.eol = FALSE]
  BY <1>2 DEF SetSize
<1>4. /\ p \in Pages /\ Len(p.l) = sz.cy
      /\ \E n \in Int : Shifts(Here, p, n) /\ Clamp(p.c.y, 1, sz.cy) + n = cursor.y
  BY ResizedShifts
<1> HIDE DEF p
<1>5. PICK n \in Int : Shifts(Here, p, n) /\ Clamp(p.c.y, 1, sz.cy) + n = cursor.y
  BY <1>4
<1>6. p.c.y \in Nat /\ sz.cy \in Nat /\ 1 < sz.cy
  BY <1>4 DEF Pages, Cursors
<1>7. PICK y \in 1 .. sz.cy : y = Clamp(p.c.y, 1, sz.cy)
  BY <1>6 DEF Clamp
<1>8. cursor'.y = y
  BY <1>3, <1>4, <1>7 DEF Pages, Cursors
<1>9. y \in Place(p) /\ Number(p, y) = p.l[y].id
  BY <1>4, RowNumbers
<1>10. Number(Here, cursor.y) = lines[cursor.y].id
  BY <1>1, RowNumbers
<1>11. y + n = cursor.y /\ y + n <= Len(lines)
  BY <1>1, <1>5, <1>7
<1>12. Number(p, y) = Number(Here, y + n)
  BY <1>1, <1>5, <1>9, <1>11 DEF Shifts
<1> QED BY <1>3, <1>8, <1>9, <1>10, <1>11, <1>12

\* A resize with the history on keeps the cursor on its line: between all sizes.
THEOREM CursorFollowsItsLine == Spec => CursorKeepsLine
<1>1. PageInv /\ [Next]_vars => [KeepsLine]_vars
  BY FollowStep
<1> QED BY <1>1, PageInvariant, PTL DEF Spec, CursorKeepsLine
=============================================================================

------------------------------- MODULE VTPage -------------------------------
(***************************************************************************)
(* CtrlLib/Terminal: VTPage, the page a terminal writes on, and its history. *)
(*                                                                           *)
(* The cursor moves over the lines of the page, within the view or within    *)
(* the margins; lines that leave at the top go to the history and come back  *)
(* when the page grows.  A line is known by the number of its making and has *)
(* a count of cells; what the cells hold is left out, and so are images.     *)
(* Positions count from 1, as in the code.  Reverse wrap (marked TODO in the *)
(* code) is off.                                                             *)
(***************************************************************************)
EXTENDS Integers, Sequences

CONSTANTS Sizes,          \* sizes the page is given
          Counts,         \* arguments of the operations
          HistorySizes,
          MaxRows,        \* bound: lines made
          BackupAt        \* bound: the cursors Backup is called with

VARIABLES size,
          margins,
          cursor,
          backup,         \* the cursor Backup stored
          autowrap,
          history,        \* lines that leave at the top are kept
          historysize,
          lines,          \* the page, the top line first
          saved,          \* the history, the oldest line first
          rows,           \* lines made so far
          stale           \* history: the cursor was restored and has not been placed since

view == <<size, margins>>
text == <<lines, saved, rows>>
conf == <<autowrap, history, historysize>>
vars == <<view, cursor, backup, conf, text, stale>>

Cursors == [x : Nat \ {0}, y : Nat \ {0}, eol : BOOLEAN, displaced : BOOLEAN]
Rects   == [left : Nat, right : Nat, top : Nat, bottom : Nat]
Rows    == [id : Nat, cells : Nat]

ASSUME PageAssumption == /\ Sizes \subseteq [cx : Nat \ {0, 1}, cy : Nat \ {0, 1}]
                         /\ Counts \subseteq Nat
                         /\ HistorySizes \subseteq Nat \ {0}
                         /\ MaxRows \in Nat
                         /\ BackupAt \subseteq Cursors

Least(m, n)    == IF m < n THEN m ELSE n
Most(m, n)     == IF m < n THEN n ELSE m
Clamp(v, l, h) == IF v < l THEN l ELSE IF h < v THEN h ELSE v

ViewOf(sz) == [left |-> 1, right |-> sz.cx, top |-> 1, bottom |-> sz.cy]
NewRows(from, to, cx) == [i \in from .. to |-> [id |-> i, cells |-> cx]]
HomeCursor == [x |-> 1, y |-> 1, eol |-> FALSE, displaced |-> FALSE]

Init == /\ size \in Sizes
        /\ margins = ViewOf(size)
        /\ cursor = HomeCursor /\ backup = HomeCursor
        /\ autowrap \in BOOLEAN /\ history \in BOOLEAN
        /\ historysize \in HistorySizes
        /\ lines = NewRows(1, size.cy, size.cx)
        /\ saved = <<>>
        /\ rows = size.cy
        /\ stale = FALSE

---------------------------------------------------------------------------
\* Moving the cursor.

HorzMarginsExist == margins.right - margins.left < size.cx - 1
VertMarginsExist == margins.bottom - margins.top < size.cy - 1
HorzMarginsContain(x) == margins.left <= x /\ x <= margins.right
VertMarginsContain(y) == margins.top <= y /\ y <= margins.bottom
MarginsContain(c) == HorzMarginsContain(c.x) /\ VertMarginsContain(c.y)
ViewContains(c)   == c.x \in 1 .. size.cx /\ c.y \in 1 .. size.cy

Span(l, h) == [lo |-> l, hi |-> h]

\* The columns a horizontal move may reach: the margins for a displaced cursor,
\* and for a move that heeds them; from outside them it may enter, not leave.
ColSpan(c, marginal) ==
    IF c.displaced \/ (marginal /\ HorzMarginsExist /\ HorzMarginsContain(c.x))
    THEN Span(margins.left, margins.right)
    ELSE IF marginal /\ HorzMarginsExist
    THEN IF c.x < margins.left THEN Span(1, margins.right) ELSE Span(margins.left, size.cx)
    ELSE Span(1, size.cx)

RowSpan(c, marginal) ==
    IF c.displaced \/ (marginal /\ VertMarginsExist /\ VertMarginsContain(c.y))
    THEN Span(margins.top, margins.bottom)
    ELSE IF marginal /\ VertMarginsExist
    THEN IF c.y < margins.top THEN Span(1, margins.bottom) ELSE Span(margins.top, size.cy)
    ELSE Span(1, size.cy)

ClearEol(c) == [c EXCEPT !.eol = FALSE]

MoveHorz(c, pos, marginal) ==
    [c EXCEPT !.x = Clamp(pos, ColSpan(c, marginal).lo, ColSpan(c, marginal).hi),
              !.eol = FALSE]

MoveVert(c, pos, marginal) ==
    [c EXCEPT !.y = Clamp(pos, RowSpan(c, marginal).lo, RowSpan(c, marginal).hi),
              !.eol = FALSE]

ToLine(c, y)   == MoveVert(c, RowSpan(c, FALSE).lo + y - 1, FALSE)
ToColumn(c, x) == MoveHorz(c, ColSpan(c, FALSE).lo + x - 1, FALSE)
MoveTo(c, x, y) == ToColumn(ToLine(c, y), x)

Right(c, n) == MoveHorz(c, c.x + n, TRUE)
Home(c)     == MoveHorz(c, ColSpan(c, TRUE).lo, TRUE)
End(c)      == MoveHorz(c, ColSpan(c, TRUE).hi, TRUE)
TopLeft(c)     == LET h == Home(c) IN MoveVert(h, RowSpan(h, TRUE).lo, TRUE)
BottomRight(c) == LET e == End(c) IN MoveVert(e, RowSpan(e, TRUE).hi, TRUE)

---------------------------------------------------------------------------
\* Inserting and removing lines.  A page p is what a call has made so far of the
\* cursor c, the lines l, the history s and the count r of lines made.

Here == [c |-> cursor, l |-> lines, s |-> saved, r |-> rows]

\* The last k elements of s.
Tip(s, k) == [i \in 1 .. k |-> s[Len(s) - k + i]]
Trimmed(s, k) == Tip(s, Least(Len(s), k))

Fresh(p, k) == [id |-> p.r + k, cells |-> size.cx]

\* Mutant: the last line of the page leaves, not that of the margins.
LineInsertToEnd(p, pos, n0) ==
    LET n == Clamp(n0, 0, margins.bottom - pos + 1) IN
    IF n = 0 THEN p
    ELSE IF HorzMarginsExist THEN [p EXCEPT !.c = ClearEol(@)]
    ELSE [p EXCEPT !.c = ClearEol(@),
                   !.r = @ + n,
                   !.l = [i \in 1 .. size.cy |->
                            IF i < pos THEN p.l[i]
                            ELSE IF i < pos + n THEN Fresh(p, i - pos + 1) ELSE p.l[i - n]]]

\* With horizontal margins the cells are copied and the lines stay.
LineInsert(p, pos, n0) ==
    LET n == Clamp(n0, 0, margins.bottom - pos + 1) IN
    IF n = 0 THEN p
    ELSE IF HorzMarginsExist THEN [p EXCEPT !.c = ClearEol(@)]
    ELSE [p EXCEPT !.c = ClearEol(@),
                   !.r = @ + n,
                   !.l = [i \in 1 .. size.cy |->
                            IF i < pos \/ i > margins.bottom THEN p.l[i]
                            ELSE IF i < pos + n THEN Fresh(p, i - pos + 1) ELSE p.l[i - n]]]

\* SaveToHistory, for each of the n lines that leave at the top of the page: the
\* history is cut down to its size before a line is added.
Scrolled(p, n) ==
    LET all == p.s \o SubSeq(p.l, 1, n)
    IN  Trimmed(all, historysize + 1)

\* Mutant: the margins do not matter to the history.
LineRemoveSavesAny(p, pos, n0) ==
    LET n == Clamp(n0, 0, margins.bottom - pos + 1) IN
    IF n = 0 THEN p
    ELSE IF HorzMarginsExist THEN [p EXCEPT !.c = ClearEol(@)]
    ELSE [p EXCEPT !.c = ClearEol(@),
                   !.r = @ + n,
                   !.s = IF history /\ pos = IF p.c.displaced THEN margins.top ELSE 1
                         THEN Trimmed(@ \o SubSeq(p.l, pos, pos + n - 1), historysize + 1) ELSE @,
                   !.l = [i \in 1 .. size.cy |->
                            IF i < pos \/ i > margins.bottom THEN p.l[i]
                            ELSE IF i + n <= margins.bottom THEN p.l[i + n]
                            ELSE Fresh(p, i + n - margins.bottom)]]

LineRemove(p, pos, n0) ==
    LET n == Clamp(n0, 0, margins.bottom - pos + 1) IN
    IF n = 0 THEN p
    ELSE IF HorzMarginsExist THEN [p EXCEPT !.c = ClearEol(@)]
    ELSE [p EXCEPT !.c = ClearEol(@),
                   !.r = @ + n,
                   !.s = IF history /\ pos = 1 /\ margins = ViewOf(size)
                         THEN Scrolled(p, n) ELSE @,
                   !.l = [i \in 1 .. size.cy |->
                            IF i < pos \/ i > margins.bottom THEN p.l[i]
                            ELSE IF i + n <= margins.bottom THEN p.l[i + n]
                            ELSE Fresh(p, i + n - margins.bottom)]]

\* Mutant: the lines scroll the other way.
StepLineSwapped(p, n) ==
    LET s    == RowSpan(p.c, TRUE)
        pos  == p.c.y + n
        q    == [p EXCEPT !.c = MoveVert(@, pos, TRUE)]
        scrollable == p.c.displaced \/ ~VertMarginsExist \/ VertMarginsContain(p.c.y)
    IN  IF scrollable /\ pos < s.lo THEN LineRemove(q, s.lo, s.lo - pos)
        ELSE IF scrollable /\ pos > s.hi THEN LineInsert(q, s.lo, pos - s.hi)
        ELSE q

\* NextLine and PrevLine (n < 0): a cursor that stands at the edge of the margins
\* scrolls what lies between them.
StepLine(p, n) ==
    LET s    == RowSpan(p.c, TRUE)
        pos  == p.c.y + n
        q    == [p EXCEPT !.c = MoveVert(@, pos, TRUE)]
        scrollable == p.c.displaced \/ ~VertMarginsExist \/ VertMarginsContain(p.c.y)
    IN  IF scrollable /\ pos < s.lo THEN LineInsert(q, s.lo, s.lo - pos)
        ELSE IF scrollable /\ pos > s.hi THEN LineRemove(q, s.lo, pos - s.hi)
        ELSE q

---------------------------------------------------------------------------
\* Writing a cell.

\* The cell is set; the cursor moves on, or marks the end of the line.
PutOne(c) == IF c.x + 1 <= margins.right THEN Right(c, 1) ELSE [c EXCEPT !.eol = TRUE]

\* A cell of width 2 is followed by its extension, if that fits.
PutCell(c, width) == IF width = 2 /\ c.x + 1 <= margins.right THEN PutOne(PutOne(c))
                                                             ELSE PutOne(c)

CellAdd(p, width) ==
    LET w == StepLine(p, 1)
        q == IF autowrap /\ p.c.eol THEN [w EXCEPT !.c = Home(@)] ELSE p
    IN  [q EXCEPT !.c = PutCell(@, width)]

\* The line of the cursor loses the cells beyond the page.
ShrinkLine(p) ==
    [p EXCEPT !.l = [p.l EXCEPT ![p.c.y].cells = Least(@, size.cx)]]

---------------------------------------------------------------------------
\* The actions.

\* The outcome of a call that leaves the view and the settings alone.
Becomes(p) ==
    /\ p.r <= MaxRows
    /\ cursor' = p.c /\ lines' = p.l /\ saved' = p.s /\ rows' = p.r
    /\ UNCHANGED <<view, backup, conf, stale>>

Moves(c) == Becomes([Here EXCEPT !.c = c])

\* Calls that reach into the line of the cursor; out of the page there is none,
\* and the code has no defined behaviour.
OnPage == ViewContains(cursor)

AddCell(width) == OnPage /\ Becomes(CellAdd(ShrinkLine(Here), width))

\* The cells to the right make room first.
InsertCell(width) ==
    /\ OnPage
    /\ LET c == IF HorzMarginsContain(cursor.x) THEN ClearEol(cursor) ELSE cursor
       IN  Becomes(CellAdd([Here EXCEPT !.c = c], width))

MoveToPoint(x, y) ==
    /\ cursor' = MoveTo(cursor, x, y) /\ stale' = FALSE
    /\ UNCHANGED <<view, backup, conf, text>>

MoveToLine(n)   == Moves(ToLine(cursor, n))
MoveToColumn(n) == Moves(ToColumn(cursor, n))

\* MoveUp and MoveDown; MoveLeft, MoveRight, NextColumn and PrevColumn, of which
\* the last two also shift the cells when the cursor is at the edge.
MoveVertBy(n) == Moves(MoveVert(cursor, cursor.y + n, TRUE))
MoveHorzBy(n) == Moves(Right(cursor, n))
MoveHome      == Moves(Home(cursor))
MoveEnd       == Moves(End(cursor))

MoveToCorner ==
    /\ cursor' \in {TopLeft(cursor), BottomRight(cursor)} /\ stale' = FALSE
    /\ UNCHANGED <<view, backup, conf, text>>

\* Where the tabs stop, from a column between the cursor and the right margin on
\* or back to the first one a cursor may reach, is up to the application.
NextTab == /\ cursor.x < margins.right
           /\ \E i \in cursor.x + 1 .. margins.right : Moves(MoveHorz(cursor, i, FALSE))
PrevTab == LET left == IF cursor.displaced THEN margins.left ELSE 1 IN
           \/ \E i \in left .. cursor.x - 1 : Moves(MoveHorz(cursor, i, FALSE))
           \/ left < cursor.x /\ Moves(Home(cursor))

\* NextLine, PrevLine, NewLine.
NextLine(n) == Becomes(StepLine(Here, n))
PrevLine(n) == Becomes(StepLine(Here, -n))
NewLine     == LET q == StepLine(Here, 1) IN Becomes([q EXCEPT !.c = Home(@)])

ScrollUp(n)   == Becomes(LineInsert(Here, margins.top, n))
ScrollDown(n) == Becomes(LineRemove(Here, margins.top, n))

InsertLines(n) ==
    /\ MarginsContain(cursor) /\ n > 0
    /\ LET q == LineInsert(Here, cursor.y, n) IN Becomes([q EXCEPT !.c = Home(@)])

RemoveLines(n) ==
    /\ MarginsContain(cursor) /\ n > 0
    /\ LET q == LineRemove(Here, cursor.y, n) IN Becomes([q EXCEPT !.c = Home(@)])

\* What erases, fills or shifts cells on the page ends the wait for a wrap.
EditCells == OnPage /\ Moves(ClearEol(cursor))

SetHorzMargins(l, r) ==
    /\ margins' = IF l < r /\ l \in 1 .. size.cx /\ r \in 1 .. size.cx
                  THEN [margins EXCEPT !.left = l, !.right = r]
                  ELSE [margins EXCEPT !.left = 1, !.right = size.cx]
    /\ LET lo == IF cursor.displaced THEN <<margins'.left, margins'.top>> ELSE <<1, 1>>
       IN  cursor' = [cursor EXCEPT !.x = lo[1], !.y = lo[2], !.eol = FALSE]
    /\ stale' = FALSE
    /\ UNCHANGED <<size, backup, conf, text>>

SetVertMargins(t, b) ==
    /\ margins' = IF t < b /\ t \in 1 .. size.cy /\ b \in 1 .. size.cy
                  THEN [margins EXCEPT !.top = t, !.bottom = b]
                  ELSE [margins EXCEPT !.top = 1, !.bottom = size.cy]
    /\ LET lo == IF cursor.displaced THEN <<margins'.left, margins'.top>> ELSE <<1, 1>>
       IN  cursor' = [cursor EXCEPT !.x = lo[1], !.y = lo[2], !.eol = FALSE]
    /\ stale' = FALSE
    /\ UNCHANGED <<size, backup, conf, text>>

ResetMargins ==
    /\ margins' = ViewOf(size) /\ cursor' = ClearEol(cursor)
    /\ UNCHANGED <<size, backup, conf, text, stale>>

\* TerminalCtrl::DECom: Displaced(b), which gives up the margins if not b, and
\* MoveTopLeft.
DECom(b) ==
    /\ margins' = IF b THEN margins ELSE ViewOf(size)
    /\ IF b THEN cursor' = [x |-> margins.left, y |-> margins.top,
                            eol |-> FALSE, displaced |-> TRUE]
            ELSE cursor' = HomeCursor
    /\ stale' = FALSE
    /\ UNCHANGED <<size, backup, conf, text>>

SetAutoWrap(b) ==
    /\ autowrap' = b /\ cursor' = IF b THEN cursor ELSE ClearEol(cursor)
    /\ UNCHANGED <<view, backup, history, historysize, text, stale>>

SetHistory(b) ==
    /\ history' = b
    /\ UNCHANGED <<view, cursor, backup, autowrap, historysize, text, stale>>

SetHistorySize(n) ==
    /\ historysize' = n /\ saved' = Trimmed(saved, n)
    /\ UNCHANGED <<view, cursor, backup, autowrap, history, lines, rows, stale>>

EraseHistory ==
    /\ saved' = <<>>
    /\ UNCHANGED <<view, cursor, backup, conf, lines, rows, stale>>

Backup ==
    /\ cursor \in BackupAt
    /\ backup' = cursor
    /\ UNCHANGED <<view, cursor, conf, text, stale>>

Discard ==
    /\ backup' = HomeCursor
    /\ UNCHANGED <<view, cursor, conf, text, stale>>

Restore ==
    /\ cursor' = IF autowrap THEN backup ELSE ClearEol(backup)
    /\ stale' = TRUE
    /\ UNCHANGED <<view, backup, conf, text>>

---------------------------------------------------------------------------
\* SetSize.

\* Lines come back from the history at the top of a page that grows.
Unwind(p, sz) ==
    LET k == Least(sz.cy - size.cy, Len(p.s)) IN
    IF sz.cy <= size.cy THEN p
    ELSE [p EXCEPT !.l = Tip(p.s, k) \o @,
                   !.s = SubSeq(@, 1, Len(@) - k),
                   !.c.y = @ + k]

\* Lines go to the history from the top of a page that shrinks over the cursor.
Rewind(p, sz) ==
    LET k == Least(p.c.y - sz.cy, Len(p.l)) IN
    IF sz.cy >= size.cy \/ k <= 0 THEN p
    ELSE [p EXCEPT !.s = @ \o SubSeq(p.l, 1, k),
                   !.l = SubSeq(@, k + 1, Len(@))]

\* Mutant: lines that were made before keep their width.
FittedNewOnly(p, sz) ==
    [p EXCEPT !.l = [i \in 1 .. sz.cy |->
                       IF i <= Len(p.l) THEN p.l[i]
                       ELSE [id |-> p.r + i - Len(p.l), cells |-> sz.cx]],
              !.r = @ + Most(0, sz.cy - Len(p.l))]

\* The page has as many lines as it should, each with enough cells.
Fitted(p, sz) ==
    [p EXCEPT !.l = [i \in 1 .. sz.cy |->
                       IF i <= Len(p.l) THEN [p.l[i] EXCEPT !.cells = Most(@, sz.cx)]
                       ELSE [id |-> p.r + i - Len(p.l), cells |-> sz.cx]],
              !.r = @ + Most(0, sz.cy - Len(p.l))]

\* Mutant: the line that comes back is not taken from the history.
ResizedKeepsTail(sz) ==
    LET p == Here
        k == Least(sz.cy - size.cy, Len(p.s))
        q == IF ~history THEN p
             ELSE IF sz.cy > size.cy
             THEN [p EXCEPT !.l = Tip(p.s, k) \o @, !.c.y = @ + k]
             ELSE Rewind(p, sz)
    IN  Fitted([q EXCEPT !.s = IF history THEN Trimmed(@, historysize) ELSE @], sz)

\* Mutant: the cursor does not follow its line.
ResizedCursorStays(sz) ==
    LET q == IF history THEN Rewind(Unwind(Here, sz), sz) ELSE Here
    IN  Fitted([q EXCEPT !.s = IF history THEN Trimmed(@, historysize) ELSE @,
                         !.c.y = cursor.y], sz)

Resized(sz) ==
    LET q == IF history THEN Rewind(Unwind(Here, sz), sz) ELSE Here
    IN  Fitted([q EXCEPT !.s = IF history THEN Trimmed(@, historysize) ELSE @], sz)

SetSize(sz) ==
    LET p == Resized(sz) IN
    /\ p.r <= MaxRows
    /\ size' = sz /\ margins' = ViewOf(sz)
    /\ cursor' = [p.c EXCEPT !.x = Clamp(@, 1, sz.cx), !.y = Clamp(@, 1, sz.cy), !.eol = FALSE]
    /\ lines' = p.l /\ saved' = p.s /\ rows' = p.r
    /\ stale' = FALSE
    /\ UNCHANGED <<backup, conf>>

\* Reset at the same size.
Reset ==
    /\ margins' = ViewOf(size)
    /\ cursor' = HomeCursor /\ backup' = HomeCursor
    /\ lines' = [i \in 1 .. size.cy |-> [lines[i] EXCEPT !.cells = Most(@, size.cx)]]
    /\ saved' = <<>> /\ stale' = FALSE
    /\ UNCHANGED <<size, conf, rows>>

---------------------------------------------------------------------------
EditStep == \/ \E w \in {1, 2} : AddCell(w) \/ InsertCell(w)
            \/ EditCells
            \/ \E n \in Counts : \/ ScrollUp(n) \/ ScrollDown(n)
                                 \/ InsertLines(n) \/ RemoveLines(n)

MoveStep == \/ \E n \in Counts : \/ NextLine(n) \/ PrevLine(n)
                                 \/ MoveToLine(n) \/ MoveToColumn(n)
                                 \/ MoveVertBy(n) \/ MoveVertBy(-n)
                                 \/ MoveHorzBy(n) \/ MoveHorzBy(-n)
            \/ \E x, y \in Counts : MoveToPoint(x, y)
            \/ MoveHome \/ MoveEnd \/ MoveToCorner \/ NextTab \/ PrevTab \/ NewLine

ModeStep == \/ \E l \in 1 .. size.cx, r \in 1 .. size.cx : SetHorzMargins(l, r)
            \/ \E t \in 1 .. size.cy, b \in 1 .. size.cy : SetVertMargins(t, b)
            \/ ResetMargins
            \/ \E b \in BOOLEAN : DECom(b) \/ SetAutoWrap(b) \/ SetHistory(b)
            \/ \E n \in HistorySizes : SetHistorySize(n)
            \/ EraseHistory
            \/ Backup \/ Discard \/ Restore
            \/ \E sz \in Sizes : SetSize(sz)
            \/ Reset

Next == EditStep \/ MoveStep \/ ModeStep

Spec == Init /\ [][Next]_vars

---------------------------------------------------------------------------
\* Properties.

\* The margins lie within the view, in order; a cursor that was placed, and not
\* just restored, stands on the page, within the margins if it is displaced, and
\* waits for a wrap at the right margin or beyond it only.
InPage ==
    /\ 1 <= margins.left /\ margins.left < margins.right /\ margins.right <= size.cx
    /\ 1 <= margins.top /\ margins.top < margins.bottom /\ margins.bottom <= size.cy
    /\ ~stale => /\ ViewContains(cursor)
                 /\ cursor.displaced => MarginsContain(cursor)
                 /\ cursor.eol => cursor.x >= margins.right

\* The page has a line for every row of the view, and every line has the cells
\* the code indexes, whatever was resized, scrolled out and taken back.
LinesFit == /\ Len(lines) = size.cy
            /\ \A i \in 1 .. Len(lines) : lines[i].cells >= size.cx

\* The type of the state.
TypeOK == /\ size \in Sizes /\ margins \in Rects
          /\ cursor \in Cursors /\ backup \in Cursors
          /\ autowrap \in BOOLEAN /\ history \in BOOLEAN /\ stale \in BOOLEAN
          /\ historysize \in HistorySizes
          /\ lines \in Seq(Rows) /\ saved \in Seq(Rows)
          /\ rows \in Nat

PageInv == TypeOK /\ InPage /\ LinesFit

\* No line is at two places of the page and its history, and none has a number
\* that is still to be given.
LinesOnce ==
    LET all == saved \o lines
    IN  /\ \A i, j \in 1 .. Len(all) : all[i].id = all[j].id => i = j
        /\ \A i \in 1 .. Len(all) : all[i].id <= rows

KeepsLine ==
    history /\ size' # size /\ ViewContains(cursor)
      => lines'[cursor'.y].id = lines[cursor.y].id

\* With the history on a resize keeps the cursor on its line.
CursorKeepsLine == [][KeepsLine]_vars

KeepsFrame ==
    size' = size /\ lines' # lines =>
      \A i \in 1 .. size.cy :
         i < margins.top \/ i > margins.bottom => lines'[i].id = lines[i].id

\* A call other than SetSize leaves the lines above and below the margins alone.
FrameKept == [][KeepsFrame]_vars

NoneDown ==
    lines' # lines /\ ~stale /\ ((\E w \in {1, 2} : AddCell(w)) \/ NewLine) =>
      \A i, j \in 1 .. size.cy : lines'[j].id = lines[i].id => j <= i

\* What a line feed, a wrap or writing takes from the page goes up: a line still
\* on the page never moves down, unless the cursor was restored.
ScrollsForward == [][NoneDown]_vars

\* The end of the history, from its line k on, reads as the page did from line i on.
ReadsAsPage(k, i) ==
    /\ i + Len(saved') - k <= size.cy
    /\ i > k => Len(saved') >= historysize
    /\ \A j \in 1 - Least(i, k) .. Len(saved') - k : saved'[k + j].id = lines[i + j].id

AppendsOnly ==
    saved' # saved => \A k \in 1 .. Len(saved') :
      (\A i \in 1 .. Len(saved) : saved[i].id # saved'[k].id) =>
         \E i \in 1 .. size.cy : ReadsAsPage(k, i)

\* What enters the history was at the top of the page, and the end of the history
\* reads as the page did, from its first line if the history is not full.
HistoryAppends == [][AppendsOnly]_vars
=============================================================================

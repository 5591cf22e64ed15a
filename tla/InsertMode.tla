----------------------------- MODULE InsertMode -----------------------------
(***************************************************************************)
(* Insert mode of the live page (live-browser.js): the line that shows     *)
(* where a new element would go, the placeholder put there, its resizing   *)
(* by the edges, and its return when hot reloading or a page reload takes  *)
(* it out of the document while variants are being made.                   *)
(*                                                                         *)
(* The page has its own copies of the helpers of InsertUi; a rectangle of  *)
(* the DOM has all its edges.  The placeholder's width is what the layout  *)
(* gives it until a drag makes it explicit; a box that is out of the       *)
(* document measures 0.                                                    *)
(***************************************************************************)
EXTENDS Integers, Sequences

CONSTANT Els     \* elements of the page that may be an anchor

Ui == INSTANCE InsertUi

MinWidth == Ui!PLACEHOLDER_MIN_WIDTH
MinHeight == Ui!PLACEHOLDER_MIN_HEIGHT
DefaultHeight == Ui!PLACEHOLDER_DEFAULT_HEIGHT

(***************************************************************************)
(* The page's copies of the helpers.                                       *)
(***************************************************************************)

Rects == {r \in [top : Int, left : Int, width : Nat, height : Nat, right : Int, bottom : Int] :
            r.right = r.left + r.width /\ r.bottom = r.top + r.height}

Max2(a, b) == IF a >= b THEN a ELSE b
Min2(a, b) == IF a <= b THEN a ELSE b

\* detectInsertAxisFromStyle.
DetectInsertAxisFromStyle(style) ==
  CASE style.display \in {"flex", "inline-flex"} ->
         IF style.flexDirection \in {"row", "row-reverse"} THEN "row" ELSE "column"
    [] style.display \in {"grid", "inline-grid"} ->
         IF style.gridAutoFlow \in {"column", "column dense"} THEN "column" ELSE "row"
    [] OTHER -> "column"

\* computeInsertPosition.
ComputeInsertPosition(x, y, r, axis) ==
  IF axis = "row"
  THEN IF r.width > 0 /\ 2 * x < 2 * r.left + r.width THEN "before" ELSE "after"
  ELSE IF r.height > 0 /\ 2 * y < 2 * r.top + r.height THEN "before" ELSE "after"

\* insertLineCoords; across is doubled, as in InsertUi.
InsertLineCoords(r, position, axis) ==
  IF axis = "row"
  THEN [axis |-> "row", across |-> 2 * (IF position = "before" THEN r.left - 2 ELSE r.right + 2),
        from |-> r.top, length |-> r.height]
  ELSE [axis |-> "column", across |-> 2 * (IF position = "before" THEN r.top - 2 ELSE r.bottom + 2),
        from |-> r.left, length |-> r.width]

\* horizontalOverlap.
HorizontalOverlap(a, b) == Max2(0, Min2(a.right, b.right) - Max2(a.left, b.left))

\* hitSiblingInsertGap, one pair side by side and one pair below each other.
Slop == 12
RowGapHit(x, y, a, b) ==
  LET top == Max2(a.top, b.top)
      bottom == Min2(a.bottom, b.bottom)
  IN /\ b.left > a.right
     /\ 4 * (bottom - top) >= Min2(a.height, b.height)
     /\ a.right - Slop <= x /\ x <= b.left + Slop
     /\ top - Slop <= y /\ y <= bottom + Slop
RowGapLine(a, b) ==
  LET top == Max2(a.top, b.top)
  IN [axis |-> "row", across |-> a.right + b.left, from |-> top,
      length |-> Min2(a.bottom, b.bottom) - top]
ColumnGapHit(x, y, a, b) ==
  /\ 4 * HorizontalOverlap(a, b) >= Min2(a.width, b.width)
  /\ b.top > a.bottom
  /\ a.bottom - Slop <= y /\ y <= b.top + Slop
  /\ Max2(a.left, b.left) - Slop <= x /\ x <= Min2(a.right, b.right) + Slop
ColumnGapLine(a, b) ==
  [axis |-> "column", across |-> a.bottom + b.top, from |-> Max2(a.left, b.left),
   length |-> HorizontalOverlap(a, b)]

\* groupSiblingRows: siblings in reading order; the head of a row is the first
\* one that is close to no earlier head, and a sibling belongs to the first
\* head it is close to.
Close(rect, e, f) == rect[e].top - rect[f].top <= 8 /\ rect[f].top - rect[e].top <= 8
RowHeads(rect, order) ==
  LET heads[i \in 0..Len(order)] ==
        IF i = 0 THEN <<>>
        ELSE IF \E k \in 1..Len(heads[i - 1]) : Close(rect, order[i], heads[i - 1][k])
        THEN heads[i - 1] ELSE Append(heads[i - 1], order[i])
  IN heads[Len(order)]
HeadOf(rect, order, e) == SelectSeq(RowHeads(rect, order), LAMBDA h : Close(rect, e, h))[1]

\* Neighbours: next to each other in a row by their left edges, or in the
\* reading order of all siblings.
RowNeighbours(rect, order, e, f) ==
  LET row == {g \in {order[i] : i \in 1..Len(order)} : HeadOf(rect, order, g) = HeadOf(rect, order, e)}
  IN /\ e # f /\ f \in row
     /\ rect[e].left <= rect[f].left
     /\ \A g \in row \ {e, f} : rect[g].left <= rect[e].left \/ rect[f].left <= rect[g].left
ColumnNeighbours(order, e, f) == \E i \in 1..Len(order) - 1 : order[i] = e /\ order[i + 1] = f

\* resolveInsertHover: a gap in a row wins over one in a column, and any gap
\* over the target itself; of several gaps the code takes the first, here it is
\* any of them.
Resolves(x, y, rect, order, target, axis, h) ==
  LET sibs == {order[i] : i \in 1..Len(order)}
      rowHit(e, f) == RowNeighbours(rect, order, e, f) /\ RowGapHit(x, y, rect[e], rect[f])
      colHit(e, f) == ColumnNeighbours(order, e, f) /\ ColumnGapHit(x, y, rect[e], rect[f])
      gap(e, f, a, line) == [there |-> TRUE, anchor |-> f, position |-> "before", axis |-> a, line |-> line]
      own == ComputeInsertPosition(x, y, rect[target], axis)
  IN \/ \E e, f \in sibs : rowHit(e, f) /\ h = gap(e, f, "row", RowGapLine(rect[e], rect[f]))
     \/ /\ \A e, f \in sibs : ~rowHit(e, f)
        /\ \/ \E e, f \in sibs : colHit(e, f) /\ h = gap(e, f, "column", ColumnGapLine(rect[e], rect[f]))
           \/ /\ \A e, f \in sibs : ~colHit(e, f)
              /\ h = [there |-> TRUE, anchor |-> target, position |-> own, axis |-> axis,
                      line |-> InsertLineCoords(rect[target], own, axis)]

\* placeholderSizing.
PlaceholderSizing(axis, display, parentWidth) ==
  IF axis = "row" /\ display \in {"flex", "inline-flex"} THEN [kind |-> "flex", width |-> 0]
  ELSE IF axis = "row" /\ display \in {"grid", "inline-grid"} THEN [kind |-> "auto", width |-> 0]
  ELSE IF parentWidth >= MinWidth THEN [kind |-> "percent", width |-> 0]
  ELSE [kind |-> "explicit", width |-> Max2(MinWidth, parentWidth)]

\* clampPlaceholderSize.
ClampPlaceholderSize(width, height, parentWidth) ==
  [width |-> Min2(Max2(MinWidth, IF parentWidth = 0 THEN MinWidth ELSE parentWidth), Max2(MinWidth, width)),
   height |-> Max2(MinHeight, height)]

\* resizePlaceholderFromEdge.
ResizePlaceholderFromEdge(start, edge, dx, dy, parentWidth) ==
  LET w == CASE edge = "e" -> start.width + dx [] edge = "w" -> start.width - dx [] OTHER -> start.width
      h == CASE edge = "s" -> start.height + dy [] edge = "n" -> start.height - dy [] OTHER -> start.height
      c == ClampPlaceholderSize(w, h, parentWidth)
  IN [width |-> c.width, height |-> c.height,
      ml |-> IF edge = "w" THEN start.ml + start.width - c.width ELSE start.ml,
      mt |-> IF edge = "n" THEN start.mt + start.height - c.height ELSE start.mt]

(***************************************************************************)
(* State.                                                                  *)
(***************************************************************************)

VARIABLES
  mode,     \* "picking" with insert on, "configuring" or "generating" an insert
  hover,    \* insertHoverAnchor, -Position, -Axis and the line drawn for them
  anchor,   \* insertAnchorElement, -Position and -LayoutAxis
  box,      \* placeholderElement
  drag,     \* placeholderResizeDrag, edge "none" when there is none
  snap      \* insertPlaceholderSnapshot, in memory and in the saved session

insertVars == <<mode, hover, anchor, box, drag, snap>>

Axes == {"row", "column"}
Positions == {"before", "after"}
Edges == {"n", "e", "s", "w"}
Kinds == {"flex", "auto", "percent", "explicit"}
Displays == {"block", "flex", "inline-flex", "grid", "inline-grid"}
Styles == [display : Displays,
           flexDirection : {"row", "row-reverse", "column", "column-reverse"},
           gridAutoFlow : {"row", "row dense", "column", "column dense"}]
Sizes == [width : Nat, height : Nat, ml : Int, mt : Int]

Boxes == [there : BOOLEAN, attached : BOOLEAN, kind : Kinds, size : Sizes]
Drags == [edge : Edges \cup {"none"}, start : Sizes, parent : Nat]
Snaps == [there : BOOLEAN, size : Sizes, position : Positions, axis : Axes]
Lines == [axis : Axes, across : Int, from : Int, length : Int]

NoSize == [width |-> 0, height |-> 0, ml |-> 0, mt |-> 0]
NoBox == [there |-> FALSE, attached |-> FALSE, kind |-> "auto", size |-> NoSize]
NoDrag == [edge |-> "none", start |-> NoSize, parent |-> 0]
NoSnap == [there |-> FALSE, size |-> NoSize, position |-> "before", axis |-> "column"]
NoLine == [axis |-> "column", across |-> 0, from |-> 0, length |-> 0]
AnEl == CHOOSE e \in Els : TRUE
NoHover == [there |-> FALSE, anchor |-> AnEl, position |-> "after", axis |-> "column", line |-> NoLine]
NoAnchor == [there |-> FALSE, el |-> AnEl, position |-> "before", axis |-> "column"]

InsertInit ==
  /\ mode = "picking" /\ hover = NoHover /\ anchor = NoAnchor
  /\ box = NoBox /\ drag = NoDrag /\ snap = NoSnap

(***************************************************************************)
(* Actions.                                                                *)
(***************************************************************************)

\* showInsertLine: the line is drawn and what it stands for remembered.
ShowInsertLine(h) == hover' = h

\* handleMouseMove over a page element: the line is redrawn only when anchor,
\* side or axis change.
MoveOver(x, y, rect, order, target, style) ==
  /\ mode = "picking"
  /\ \E h \in [there : {TRUE}, anchor : Els, position : Positions, axis : Axes, line : Lines] :
       /\ Resolves(x, y, rect, order, target, DetectInsertAxisFromStyle(style), h)
       /\ IF hover.there /\ <<hover.anchor, hover.position, hover.axis>> = <<h.anchor, h.position, h.axis>>
          THEN UNCHANGED hover ELSE ShowInsertLine(h)
  /\ UNCHANGED <<mode, anchor, box, drag, snap>>

\* The pointer leaves, or insert is toggled: hideInsertLine.
MoveAway ==
  /\ mode = "picking" /\ hover' = NoHover
  /\ UNCHANGED <<mode, anchor, box, drag, snap>>

\* createInsertPlaceholder: the layout decides how wide an implicit box is.
Placeholder(sizing, laidOut) ==
  [there |-> TRUE, attached |-> TRUE, kind |-> sizing.kind,
   size |-> [width |-> IF sizing.kind = "explicit" THEN sizing.width ELSE laidOut,
             height |-> DefaultHeight, ml |-> 0, mt |-> 0]]

\* A click on the line.
Place(display, parentWidth, laidOut) ==
  /\ mode = "picking" /\ hover.there
  /\ box' = Placeholder(PlaceholderSizing(hover.axis, display, parentWidth), laidOut)
  /\ anchor' = [there |-> TRUE, el |-> hover.anchor, position |-> hover.position, axis |-> hover.axis]
  /\ mode' = "configuring" /\ hover' = NoHover /\ drag' = NoDrag
  /\ UNCHANGED snap

\* What offsetWidth, offsetHeight and the margins of the box read.
Measured(b) == IF b.attached THEN b.size ELSE [b.size EXCEPT !.width = 0, !.height = 0]

\* materializePlaceholderWidth.
Materialized(b) ==
  IF b.kind = "explicit" THEN b
  ELSE [b EXCEPT !.kind = "explicit",
                 !.size = [b.size EXCEPT !.width =
                             Max2(MinWidth, IF b.attached THEN b.size.width ELSE 0)]]

\* startPlaceholderEdgeResize.
StartResize(edge, parentWidth) ==
  /\ mode = "configuring" /\ box.there /\ drag.edge = "none"
  /\ LET b == Materialized(box)
     IN /\ box' = b
        /\ drag' = [edge |-> edge, start |-> Measured(b),
                    parent |-> IF parentWidth = 0 THEN MinWidth ELSE parentWidth]
  /\ UNCHANGED <<mode, hover, anchor, snap>>

\* applyPlaceholderDimensions.
ApplyPlaceholderDimensions(b, size) == [Materialized(b) EXCEPT !.size = size]

\* onAnnotMove.
DragTo(dx, dy) ==
  /\ mode = "configuring" /\ box.there /\ drag.edge # "none"
  /\ box' = ApplyPlaceholderDimensions(box,
               ResizePlaceholderFromEdge(drag.start, drag.edge, dx, dy, drag.parent))
  /\ UNCHANGED <<mode, hover, anchor, drag, snap>>

\* onAnnotUp.
EndDrag ==
  /\ drag.edge # "none" /\ drag' = NoDrag
  /\ UNCHANGED <<mode, hover, anchor, box, snap>>

\* The window is resized: the layout gives an implicit box another width.
Relayout(width) ==
  /\ box.attached /\ box.kind # "explicit"
  /\ box' = [box EXCEPT !.size.width = width]
  /\ UNCHANGED <<mode, hover, anchor, drag, snap>>

\* Hot reloading replaces the DOM around the placeholder.
HotReload ==
  /\ box.attached
  /\ box' = [box EXCEPT !.attached = FALSE]
  /\ UNCHANGED <<mode, hover, anchor, drag, snap>>

\* buildInsertPlaceholderSnapshotFromDom.
Snapshot(m) ==
  [there |-> TRUE, size |-> [m EXCEPT !.height = IF m.height = 0 THEN DefaultHeight ELSE m.height],
   position |-> anchor.position, axis |-> anchor.axis]

\* handleInsertCreate: the snapshot is taken, the overlay hidden, the session saved.
Create ==
  /\ mode = "configuring" /\ box.there
  /\ mode' = "generating" /\ drag' = NoDrag
  /\ snap' = Snapshot(Measured(box))
  /\ UNCHANGED <<hover, anchor, box>>

\* The page is reloaded: only what the session saved comes back.
ReloadPage ==
  /\ mode = "generating"
  /\ box' = NoBox /\ anchor' = NoAnchor /\ drag' = NoDrag /\ hover' = NoHover
  /\ UNCHANGED <<mode, snap>>

\* ensureInsertPlaceholder, with the anchor or an element that looks like it.
EnsureInsertPlaceholder(el, display, parentWidth, laidOut) ==
  /\ mode = "generating" /\ ~(box.there /\ box.attached) /\ snap.there
  /\ LET b == Placeholder(PlaceholderSizing(snap.axis, display, parentWidth), laidOut)
     IN box' = ApplyPlaceholderDimensions(b, snap.size)
  /\ anchor' = [there |-> TRUE, el |-> el, position |-> snap.position, axis |-> snap.axis]
  /\ drag' = NoDrag
  /\ UNCHANGED <<mode, hover, snap>>

\* Cancelled, or the variants arrived: finalizeInsertSession.
Finalize ==
  /\ mode # "picking" /\ mode' = "picking"
  /\ box' = NoBox /\ anchor' = NoAnchor /\ drag' = NoDrag /\ snap' = NoSnap /\ hover' = NoHover

InsertNext ==
  \/ \E x, y \in Int, rect \in [Els -> Rects], order \in Seq(Els), target \in Els,
        style \in Styles : MoveOver(x, y, rect, order, target, style)
  \/ MoveAway \/ EndDrag \/ HotReload \/ Create \/ ReloadPage \/ Finalize
  \/ \E display \in Displays, w, laidOut \in Nat :
       \/ Place(display, w, laidOut)
       \/ \E el \in Els : EnsureInsertPlaceholder(el, display, w, laidOut)
  \/ \E edge \in Edges, w \in Nat : StartResize(edge, w)
  \/ \E dx, dy \in Int : DragTo(dx, dy)
  \/ \E w \in Nat : Relayout(w)

InsertSpec == InsertInit /\ [][InsertNext]_insertVars

(***************************************************************************)
(* Properties.                                                             *)
(***************************************************************************)

InsertTypeOK ==
  /\ mode \in {"picking", "configuring", "generating"}
  /\ box \in Boxes /\ drag \in Drags /\ snap \in Snaps
  /\ anchor \in [there : BOOLEAN, el : Els, position : Positions, axis : Axes]
  /\ hover \in [there : BOOLEAN, anchor : Els, position : Positions, axis : Axes, line : Lines]

\* However its edges are dragged, and whatever hot reloading does meanwhile,
\* the placeholder being configured keeps its minimum size
\* (clampPlaceholderSize, materializePlaceholderWidth).
BoxIsUsable ==
  mode = "configuring" /\ box.there =>
    /\ box.size.height >= MinHeight
    /\ box.kind = "explicit" => box.size.width >= MinWidth

\* While an edge is dragged the opposite edge stays where it was when the drag
\* began, also where the clamp stops the size (resizePlaceholderFromEdge).
\* (The start of a drag on a box that is out of the document measures 0.)
OppositeEdgeStays ==
  drag.edge # "none" /\ drag.start.height # 0 =>
    /\ IF drag.edge = "w" THEN box.size.ml + box.size.width = drag.start.ml + drag.start.width
       ELSE box.size.ml = drag.start.ml
    /\ IF drag.edge = "n" THEN box.size.mt + box.size.height = drag.start.mt + drag.start.height
       ELSE box.size.mt = drag.start.mt

\* A placeholder that hot reloading or a page reload took away comes back with
\* the size and the margins it had when Create was clicked
\* (insertPlaceholderSnapshot, ensureInsertPlaceholder).
ComesBackAsItWas ==
  mode = "generating" /\ box.attached /\ box.kind = "explicit" => box.size = snap.size

=============================================================================

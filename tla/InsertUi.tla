------------------------------ MODULE InsertUi ------------------------------
(***************************************************************************)
(* live/insert-ui.mjs: the pure helpers of insert mode, in the copy that   *)
(* the unit tests import.  The page runs copies of its own (InsertMode),   *)
(* because live-browser.js is served as one script.                        *)
(*                                                                         *)
(* Lengths are whole pixels.  A rectangle may lack its right and bottom    *)
(* edge (edges is FALSE), as the rectangles of the tests do; the helpers   *)
(* then compute it.  A midpoint is given doubled, so that it stays an      *)
(* integer.                                                                *)
(***************************************************************************)
EXTENDS Integers

PLACEHOLDER_DEFAULT_HEIGHT == 80
PLACEHOLDER_MIN_HEIGHT == 48
PLACEHOLDER_MIN_WIDTH == 120

Larger(a, b) == IF a >= b THEN a ELSE b
Smaller(a, b) == IF a <= b THEN a ELSE b

RightOf(r) == IF r.edges THEN r.right ELSE r.left + r.width
BottomOf(r) == IF r.edges THEN r.bottom ELSE r.top + r.height

\* detectInsertAxisFromStyle: both branches for a grid's columns give "row".
DetectInsertAxisFromStyle(style) ==
  IF style.display \in {"flex", "inline-flex"}
  THEN IF style.flexDirection \in {"row", "row-reverse"} THEN "row" ELSE "column"
  ELSE IF style.display \in {"grid", "inline-grid"}
  THEN IF style.gridAutoFlow \in {"column", "column dense"} THEN "column" ELSE "row"
  ELSE "column"

\* computeInsertPosition.
ComputeInsertPosition(x, y, r, axis) ==
  IF axis = "row"
  THEN IF r.width > 0 /\ 2 * x < 2 * r.left + r.width THEN "before" ELSE "after"
  ELSE IF r.height > 0 /\ 2 * y < 2 * r.top + r.height THEN "before" ELSE "after"

\* insertLineCoords, with twice the position across the axis.
InsertLineCoords(r, position, axis) ==
  IF axis = "row"
  THEN [axis |-> "row", across |-> 2 * (IF position = "before" THEN r.left - 2 ELSE RightOf(r) + 2),
        from |-> r.top, length |-> r.height]
  ELSE [axis |-> "column", across |-> 2 * (IF position = "before" THEN r.top - 2 ELSE BottomOf(r) + 2),
        from |-> r.left, length |-> r.width]

\* groupSiblingRows: two siblings are in one row when their tops are close.
SameRow(r, head) == r.top - head.top <= 8 /\ head.top - r.top <= 8

\* horizontalOverlap.
HorizontalOverlap(a, b) ==
  Larger(0, Smaller(RightOf(a), RightOf(b)) - Larger(a.left, b.left))

\* One pair of hitSiblingInsertGap side by side in a row: the pointer is in the
\* gap between a and b, give or take the slop.
RowGapHit(x, y, a, b, slop) ==
  LET top    == Larger(a.top, b.top)
      bottom == Smaller(BottomOf(a), BottomOf(b))
  IN /\ b.left > RightOf(a)
     /\ 4 * (bottom - top) >= Smaller(a.height, b.height)
     /\ RightOf(a) - slop <= x /\ x <= b.left + slop
     /\ top - slop <= y /\ y <= bottom + slop
RowGapLine(a, b) ==
  LET top == Larger(a.top, b.top)
  IN [axis |-> "row", across |-> RightOf(a) + b.left,
      from |-> top, length |-> Smaller(BottomOf(a), BottomOf(b)) - top]

\* One pair of it below each other.
ColumnGapHit(x, y, a, b, slop) ==
  LET left  == Larger(a.left, b.left)
      right == Smaller(RightOf(a), RightOf(b))
  IN /\ 4 * HorizontalOverlap(a, b) >= Smaller(a.width, b.width)
     /\ b.top > BottomOf(a)
     /\ BottomOf(a) - slop <= y /\ y <= b.top + slop
     /\ left - slop <= x /\ x <= right + slop
ColumnGapLine(a, b) ==
  [axis |-> "column", across |-> BottomOf(a) + b.top,
   from |-> Larger(a.left, b.left), length |-> HorizontalOverlap(a, b)]

\* placeholderSizing: the kind of width, and the width of an explicit one.
PlaceholderSizing(axis, display, parentWidth) ==
  IF axis = "row" /\ display \in {"flex", "inline-flex"} THEN [kind |-> "flex", width |-> 0]
  ELSE IF axis = "row" /\ display \in {"grid", "inline-grid"} THEN [kind |-> "auto", width |-> 0]
  ELSE IF parentWidth >= PLACEHOLDER_MIN_WIDTH THEN [kind |-> "percent", width |-> 0]
  ELSE [kind |-> "explicit", width |-> Larger(PLACEHOLDER_MIN_WIDTH, parentWidth)]

\* placeholderWidthIsImplicit.
PlaceholderWidthIsImplicit(kind) == kind \in {"flex", "percent", "auto"}

\* clampPlaceholderSize without options: no room counts as the minimum.
ClampPlaceholderSize(width, height, parentWidth) ==
  LET maxW == Larger(PLACEHOLDER_MIN_WIDTH,
                     IF parentWidth = 0 THEN PLACEHOLDER_MIN_WIDTH ELSE parentWidth)
  IN [width |-> Smaller(maxW, Larger(PLACEHOLDER_MIN_WIDTH, width)),
      height |-> Larger(PLACEHOLDER_MIN_HEIGHT, height)]

\* resizePlaceholderFromEdge: the margin of a dragged west or north edge makes
\* up for what the clamped size did not take.
ResizePlaceholderFromEdge(start, edge, dx, dy, parentWidth) ==
  LET w == CASE edge = "e" -> start.width + dx [] edge = "w" -> start.width - dx [] OTHER -> start.width
      h == CASE edge = "s" -> start.height + dy [] edge = "n" -> start.height - dy [] OTHER -> start.height
      c == ClampPlaceholderSize(w, h, parentWidth)
  IN [width |-> c.width, height |-> c.height,
      ml |-> IF edge = "w" THEN start.ml + start.width - c.width ELSE start.ml,
      mt |-> IF edge = "n" THEN start.mt + start.height - c.height ELSE start.mt]

\* applyPickToggle and applyInsertToggle.
ApplyPickToggle(t) == [pick |-> ~t.pick, insert |-> t.pick /\ t.insert]
ApplyInsertToggle(t) == [pick |-> t.insert /\ t.pick, insert |-> ~t.insert]

\* canCreateInsert: prompt tells whether it is more than white space, strokes
\* are given by their numbers of points.
CanCreateInsert(prompt, comments, strokes) ==
  prompt \/ comments > 0 \/ \E points \in strokes : points >= 2

\* isVariantShown and setVariantShown.
IsVariantShown(el) == ~el.hidden /\ el.display # "none"
SetVariantShown(el, shown) ==
  [el EXCEPT !.hidden = ~shown, !.display = IF shown THEN "" ELSE "none"]

\* resolveInsertSessionAnchor: the visible variant's content once there is one.
ResolveInsertSessionAnchor(none, content, variants, visible, placeholder, anchor) ==
  IF variants > 0 /\ visible > 0 /\ content # none THEN content
  ELSE IF placeholder # none THEN placeholder ELSE anchor

\* buildInsertPlaceholderSnapshot: a box without a height gets the default one.
BuildInsertPlaceholderSnapshot(offset, position, axis) ==
  [width |-> offset.width,
   height |-> IF offset.height = 0 THEN PLACEHOLDER_DEFAULT_HEIGHT ELSE offset.height,
   ml |-> offset.ml, mt |-> offset.mt, position |-> position, axis |-> axis]

\* findInsertAnchorInDom: the live anchor, or the first look-alike.
FindInsertAnchorInDom(live, dom, alike) ==
  IF live \in dom THEN {live} ELSE alike \cap dom

=============================================================================

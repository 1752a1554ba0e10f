------------------------------- MODULE Region -------------------------------
(***************************************************************************)
(* The regions of geo/rgn.c, over the bands of yband.h and the rectangles   *)
(* of yrect.h and rect.c.  A band is a half-open interval; a region is the  *)
(* array of its y-bands, from top to bottom, each with the array of its     *)
(* x-bands.  The code writes the bands into one buffer; a row [y, xs] is a  *)
(* struct rectband of it, without its sentinels.  That the buffer is never  *)
(* reallocated while a row is being extended is assumed: the bands of the   *)
(* result fit in the 4096 bytes it starts with.                             *)
(***************************************************************************)
EXTENDS Integers, FiniteSets, SequencesExt

CONSTANTS
  Width, Height,   \* the plane: points (x, y), 0 <= x < Width, ...
  Beyond           \* GEO_INVALID_MAX_VALUE - 1: band_max_invalid begins there

ASSUME RegionAssumption ==
  /\ Width \in Nat /\ Height \in Nat /\ Beyond \in Nat
  /\ Width <= Beyond /\ Height <= Beyond

VARIABLES
  rgn,    \* the region
  pts     \* history: the points the operations amount to

rgnVars == <<rgn, pts>>

Band(s, b) == [s |-> s, b |-> b]
EmptyBand(band) == band.s >= band.b
Inside(v, band) == band.s <= v /\ v < band.b
MaxBand == Band(Beyond, Beyond + 1)   \* band_max_invalid

\* ygeob_analyze_layout
Layout(bs, bb) ==
  IF bs.b <= bb.s
  THEN [small |-> bs, both |-> Band(0, 0), big |-> bb, subset |-> FALSE]
  ELSE IF bs.b >= bb.b
  THEN [small |-> Band(bs.s, bb.s), both |-> bb, big |-> Band(bb.b, bs.b),
        subset |-> TRUE]
  ELSE [small |-> Band(bs.s, bb.s), both |-> Band(bb.s, bs.b),
        big |-> Band(bs.b, bb.b), subset |-> FALSE]

\* band_op and rband_op: which of two bands starts first, how they lie, and
\* whose is the part that remains for the next iteration.
Compared(b0, b1) ==
  LET first == b0.s < b1.s
      lay == IF first THEN Layout(b0, b1) ELSE Layout(b1, b0)
  IN  [first |-> first, lay |-> lay, bottom0 |-> IF first THEN lay.subset ELSE ~lay.subset]

\* band_add: a band that touches the last one extends it.
AddBand(out, band) ==
  IF EmptyBand(band) THEN out
  ELSE IF out # <<>> /\ Last(out).b = band.s
  THEN [out EXCEPT ![Len(out)].b = band.b]
  ELSE Append(out, band)

\* A defect: the x-bands are compared up to the end of the shorter array.
CanMergePrefix(row, y, xs) ==
  row.y.b = y.s /\ (IsPrefix(row.xs, xs) \/ IsPrefix(xs, row.xs))
\* rband_can_merge: the rows touch and their x-bands are the same.
CanMerge(row, y, xs) == row.y.b = y.s /\ row.xs = xs

\* rband_add, and the end of rband_op_overlap
AddRow(out, y, xs) ==
  IF EmptyBand(y) \/ xs = <<>> THEN out
  ELSE IF out # <<>> /\ CanMerge(Last(out), y, xs)
  THEN [out EXCEPT ![Len(out)].y.b = y.b]
  ELSE Append(out, [y |-> y, xs |-> xs])

\* band_op_no_overlap: does a band of one operand only belong to the result
Keeps(op, ofFirst) == op = "union" \/ (op = "diff" /\ ofFirst)

\* What is left of an operand: the rest of the band in hand replaces it, if it
\* is this operand's.
Rest(bands, lay, mine) ==
  IF bands = <<>> THEN <<>>
  ELSE IF mine /\ ~EmptyBand(lay.big) THEN <<lay.big>> \o Tail(bands)
  ELSE Tail(bands)

\* band_op: what two x-bands add to the result.
BandOp(out, cmp, op) ==
  LET out1 == IF Keeps(op, cmp.first) THEN AddBand(out, cmp.lay.small) ELSE out
  IN  IF op # "diff" THEN AddBand(out1, cmp.lay.both) ELSE out1

\* The loop of rband_op_overlap: the x-bands of the overlap of two rows.  Every
\* turn takes a band of one operand at least, so there are no more turns than
\* bands.
SweepTurn(t, op) ==
  LET b0 == IF t.xs0 = <<>> THEN MaxBand ELSE Head(t.xs0)
      b1 == IF t.xs1 = <<>> THEN MaxBand ELSE Head(t.xs1)
      cmp == Compared(b0, b1)
  IN  IF t.xs0 = <<>> /\ t.xs1 = <<>> THEN t
      ELSE [xs0 |-> Rest(t.xs0, cmp.lay, cmp.bottom0),
            xs1 |-> Rest(t.xs1, cmp.lay, ~cmp.bottom0),
            out |-> BandOp(t.out, cmp, op)]
Sweep(xs0, xs1, op) ==
  LET turns == Len(xs0) + Len(xs1)
      after[i \in 0..turns] == IF i = 0 THEN [xs0 |-> xs0, xs1 |-> xs1, out |-> <<>>]
                               ELSE SweepTurn(after[i - 1], op)
  IN  after[turns].out

\* As Rest, for rows.
RestRows(rows, lay, mine) ==
  IF rows = <<>> THEN <<>>
  ELSE IF mine /\ ~EmptyBand(lay.big)
  THEN <<[Head(rows) EXCEPT !.y = lay.big]>> \o Tail(rows)
  ELSE Tail(rows)

\* rband_op: what two rows add to the result.
RowOp(out, r0, r1, cmp, op) ==
  LET xsOfSmall == IF cmp.first THEN r0.xs ELSE r1.xs
      out1 == IF Keeps(op, cmp.first) THEN AddRow(out, cmp.lay.small, xsOfSmall)
              ELSE out
  IN  IF EmptyBand(cmp.lay.both) THEN out1
      ELSE AddRow(out1, cmp.lay.both, Sweep(r0.xs, r1.xs, op))

\* The loop of rgn_op, in the same way.
MaxRow == [y |-> MaxBand, xs |-> <<MaxBand>>]
RgnTurn(t, op) ==
  LET r0 == IF t.g0 = <<>> THEN MaxRow ELSE Head(t.g0)
      r1 == IF t.g1 = <<>> THEN MaxRow ELSE Head(t.g1)
      cmp == Compared(r0.y, r1.y)
  IN  IF t.g0 = <<>> /\ t.g1 = <<>> THEN t
      ELSE [g0  |-> RestRows(t.g0, cmp.lay, cmp.bottom0),
            g1  |-> RestRows(t.g1, cmp.lay, ~cmp.bottom0),
            out |-> RowOp(t.out, r0, r1, cmp, op)]

\* ygeog_union, ygeog_intersect, ygeog_diff
Result(g0, g1, op) ==
  LET turns == Len(g0) + Len(g1)
      after[i \in 0..turns] == IF i = 0 THEN [g0 |-> g0, g1 |-> g1, out |-> <<>>]
                               ELSE RgnTurn(after[i - 1], op)
  IN  after[turns].out

\* Rectangles [x, y], of two bands; ygeor_set3 orders the coordinates.
Rects == {[x |-> Band(l, r), y |-> Band(t, b)] :
            l \in 0..Width, r \in 0..Width, t \in 0..Height, b \in 0..Height}
SmallOf(u, v) == IF u < v THEN u ELSE v
BigOf(u, v) == IF u < v THEN v ELSE u
Set3(r) == [x |-> Band(SmallOf(r.x.s, r.x.b), BigOf(r.x.s, r.x.b)),
               y |-> Band(SmallOf(r.y.s, r.y.b), BigOf(r.y.s, r.y.b))]
ProperRects == {r \in Rects : r.x.s < r.x.b /\ r.y.s < r.y.b}

\* mutate_rect_to_rgnbands
AsRgn(r) == IF EmptyBand(r.x) \/ EmptyBand(r.y) THEN <<>>
            ELSE <<[y |-> r.y, xs |-> <<r.x>>]>>

\* ygeor_intersect: the inner of the two sides in each direction, unless the
\* rectangles are apart in one (only the x-band is then set).
RectMeet(r0, r1) ==
  LET apart(b0, b1) == IF b0.s < b1.s THEN b0.b <= b1.s ELSE b1.b <= b0.s
      meet(b0, b1) == Band(BigOf(b0.s, b1.s), SmallOf(b0.b, b1.b))
  IN  IF apart(r0.x, r1.x) \/ apart(r0.y, r1.y)
      THEN [x |-> Band(0, 0), y |-> r0.y]
      ELSE [x |-> meet(r0.x, r1.x), y |-> meet(r0.y, r1.y)]

Plane == (0..Width - 1) \X (0..Height - 1)
\* ygeor_contain
InRect(r) == {p \in Plane : Inside(p[1], r.x) /\ Inside(p[2], r.y)}
\* ygeog_foreach_rect_begin: the rectangles of a region
Places(g) == UNION {{i} \X DOMAIN g[i].xs : i \in DOMAIN g}
RectAt(g, at) == [x |-> g[at[1]].xs[at[2]], y |-> g[at[1]].y]
Points(g) == UNION {InRect(RectAt(g, at)) : at \in Places(g)}

Ops == {"union", "intersect", "diff"}
Combine(s, t, op) == CASE op = "union" -> s \union t
                       [] op = "intersect" -> s \intersect t
                       [] op = "diff" -> s \ t

-----------------------------------------------------------------------------

\* ygeog_create_empty
RgnInit == rgn = <<>> /\ pts = {}

\* ygeog_union2, ygeog_intersect2, ygeog_diff2: with a rectangle
WithRect(op, r) == /\ rgn' = Result(rgn, AsRgn(r), op)
                   /\ pts' = Combine(pts, InRect(r), op)

\* ygeog_union3 and ygeog_diff3: the regions of two rectangles.
Shapes == {[rgn |-> Result(AsRgn(r0), AsRgn(r1), op),
            pts |-> Combine(InRect(r0), InRect(r1), op)] :
             r0 \in ProperRects, r1 \in ProperRects, op \in {"union", "diff"}}

\* ygeog_union, ygeog_intersect, ygeog_diff: with such a region, on either side.
WithRgn(op, shape) ==
  \/ /\ rgn' = Result(rgn, shape.rgn, op)
     /\ pts' = Combine(pts, shape.pts, op)
  \/ /\ rgn' = Result(shape.rgn, rgn, op)
     /\ pts' = Combine(shape.pts, pts, op)

\* The region of the intersection of two rectangles whose corners are given
\* in any order.
FromMeet(r0, r1) ==
  /\ rgn = <<>>
  /\ rgn' = Result(rgn, AsRgn(RectMeet(Set3(r0), Set3(r1))), "union")
  /\ pts' = InRect(Set3(r0)) \intersect InRect(Set3(r1))

RgnNext ==
  \/ \E op \in Ops, r \in ProperRects \union {[x |-> Band(0, 0), y |-> Band(0, 0)]} :
       WithRect(op, r)
  \/ \E op \in Ops, shape \in Shapes : WithRgn(op, shape)
  \/ \E r0 \in Rects, r1 \in ProperRects : FromMeet(r0, r1)

RgnSpec == RgnInit /\ [][RgnNext]_rgnVars

-----------------------------------------------------------------------------

(* A region that any sequence of unions, intersections and differences has  *)
(* produced holds exactly the points those operations on point sets give,   *)
(* and holds each of them in one rectangle only.                            *)
DenotesPoints ==
  /\ Points(rgn) = pts
  /\ \A at, bt \in Places(rgn) :
       at # bt => InRect(RectAt(rgn, at)) \intersect InRect(RectAt(rgn, bt)) = {}

(* The array is the one the comment at the head of rgn.c describes, and the *)
(* shortest: bands are proper and in order, x-bands of a row do not even    *)
(* touch, and rows that touch have different x-bands; two regions of the    *)
(* same points are therefore the same array.                                *)
Canonical ==
  /\ \A i \in DOMAIN rgn :
       /\ ~EmptyBand(rgn[i].y)
       /\ rgn[i].xs # <<>>
       /\ \A j \in DOMAIN rgn[i].xs : ~EmptyBand(rgn[i].xs[j])
       /\ \A j \in 1..Len(rgn[i].xs) - 1 : rgn[i].xs[j].b < rgn[i].xs[j + 1].s
  /\ \A i \in 1..Len(rgn) - 1 :
       \/ rgn[i].y.b < rgn[i + 1].y.s
       \/ rgn[i].y.b = rgn[i + 1].y.s /\ rgn[i].xs # rgn[i + 1].xs

(* A region is its set of points, in the one form rgn.c describes.          *)
RegionExact == DenotesPoints /\ Canonical
=============================================================================

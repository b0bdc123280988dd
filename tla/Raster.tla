-------------------------------- MODULE Raster --------------------------------
(***************************************************************************)
(* From an outline to the grey levels of its pixels (schrift.c): the       *)
(* transformation to the screen, the curves cut into lines, and the lines  *)
(* followed from pixel to pixel.  Coordinates are counted in 1/Sub of a    *)
(* pixel and distances along a line in 1/Steps of it, so that the doubles  *)
(* of the code are exact integers.  The largest double below the width of  *)
(* the image is written as the width: no other coordinate can have it.     *)
(***************************************************************************)
EXTENDS Outlines

CONSTANTS
  Steps,      \* parts of a line that distances along it are counted in
  Stack       \* STACK_SIZE: nested halves a curve is cut into

ASSUME RasterAssumption == {Steps, Stack} \subseteq Nat \ {0}

Abs(v) == IF v < 0 THEN -v ELSE v
Sign(v) == IF v > 0 THEN 1 ELSE IF v < 0 THEN -1 ELSE 0

\* The transformation of sft_render: the corner of the box goes to the origin, y down.
Placement(font, size, box) ==
  [one |-> font.tables.head.unitsPerEm, xx |-> size * Sub, yy |-> -(size * Sub),
   xy |-> 0, yx |-> 0, dx |-> -(box[1] * Sub), dy |-> box[4] * Sub]

\* clip_points
ClipPoints(o, w, h) ==
  LET Within(v, n) == IF v < 0 THEN 0 ELSE IF v > n * Sub THEN n * Sub ELSE v
  IN [o EXCEPT !.points = [i \in DOMAIN @ |-> [x |-> Within(@[i].x, w), y |-> Within(@[i].y, h)]]]

\* is_flat: an area of at most 2 pixels between the curve's corners, doubled.
IsFlat(o, c) ==
  LET a == o.points[c.beg]  b == o.points[c.ctrl]  e == o.points[c.end]
  IN Abs((b.x - a.x) * (e.y - a.y) - (e.x - a.x) * (b.y - a.y)) <= 2 * Sub * Sub

\* Mutant of Cut: the halves do not meet in the pivot.
CutLoose(s) ==
  LET o == s.o
      P == o.points
      n == Len(P)
      top == Len(s.stack)
      c == s.stack[top]
      ctrl0 == Push(o, "points", Midpoint(P[c.beg], P[c.ctrl]))
      ctrl1 == Push(ctrl0, "points", Midpoint(P[c.ctrl], P[c.end]))
      below == SubSeq(s.stack, 1, top - 1)
  IN IF ~o.ok \/ s.stack = <<>> THEN s
     ELSE IF IsFlat(o, c) \/ top > Stack \/ ~ctrl1.ok
     THEN [o |-> Push(o, "lines", [beg |-> c.beg, end |-> c.end]), stack |-> below]
     ELSE [o |-> ctrl1, stack |-> below \o <<[beg |-> c.beg, end |-> n + 1, ctrl |-> c.ctrl],
                                             [beg |-> n + 2, end |-> c.end, ctrl |-> c.ctrl]>>]

\* A turn of tesselate_curve: the last curve of the stack, the one in hand, becomes a line
\* when it is flat, else its two halves.
Cut(s) ==
  LET o == s.o
      P == o.points
      n == Len(P)
      top == Len(s.stack)
      c == s.stack[top]
      ctrl0 == Push(o, "points", Midpoint(P[c.beg], P[c.ctrl]))
      ctrl1 == Push(ctrl0, "points", Midpoint(P[c.ctrl], P[c.end]))
      pivot == Push(ctrl1, "points", Midpoint(ctrl1.points[n + 1], ctrl1.points[n + 2]))
      below == SubSeq(s.stack, 1, top - 1)
  IN IF ~o.ok \/ s.stack = <<>> THEN s
     ELSE IF IsFlat(o, c) \/ top > Stack
     THEN [o |-> Push(o, "lines", [beg |-> c.beg, end |-> c.end]), stack |-> below]
     ELSE IF ~ctrl1.ok \/ ~pivot.ok THEN [s EXCEPT !.o = Bad(o)]
     ELSE [o |-> pivot, stack |-> below \o <<[beg |-> c.beg, end |-> n + 3, ctrl |-> n + 1],
                                             [beg |-> n + 3, end |-> c.end, ctrl |-> n + 2]>>]

\* More turns than the points of an outline allow: each adds three of them or a line.
MaxTurns == 2 * (FirstCap + GrowLimit) + 1

\* tesselate_curve
TesselateCurve(c, o) ==
  LET Turn[k \in 0..MaxTurns] == IF k = 0 THEN [o |-> o, stack |-> <<c>>] ELSE Cut(Turn[k - 1])
  IN Turn[MaxTurns].o

TesselateCurves(o) ==
  LET After(s, c) == IF ~s.ok THEN s ELSE TesselateCurve(c, s)
      Cuts[k \in 0..Len(o.curves)] == IF k = 0 THEN o ELSE After(Cuts[k - 1], o.curves[k])
  IN Cuts[Len(o.curves)]

-----------------------------------------------------------------------------
(* Lines to pixels *)

\* Mutant of Pixel: nothing keeps a line on the last edge in the image.
PixelBeyond(v, n) == Floor(v)

\* The pixel of a coordinate in an image of n pixels, and the one before an edge.
Pixel(v, n) == IF v = n * Sub THEN n - 1 ELSE Floor(v)

\* draw_line: the pixels a line passes through, each with where along the line it is
\* entered and left.
Spans(a, b, w, h) ==
  LET dx == b.x - a.x
      dy == b.y - a.y
      Enter(v, d, n) == IF d < 0 THEN Ceil(v) - 1 ELSE Pixel(v, n)
      \* Edges between two coordinates, and where along the line the first one is.
      Edges(v, goal, d, n) ==
        IF d > 0 THEN Ceil(goal) - Pixel(v, n) - 1
        ELSE IF d < 0 THEN Ceil(v) - Pixel(goal, n) - 1 ELSE 0
      Incr(d) == IF d = 0 THEN Steps ELSE (Sub * Steps) \div Abs(d)
      FirstEdge(v, d, n) ==
        LET off == ((v - Sub * Enter(v, d, n)) * Steps) \div Abs(d)
        IN IF d = 0 THEN 100 * Steps ELSE IF d > 0 THEN Incr(d) - off ELSE off
      After(s) ==
        LET alongX == s.nx < s.ny
            to == IF alongX THEN s.nx ELSE s.ny
            rest == [s EXCEPT !.done = Append(@, [x |-> s.x, y |-> s.y, from |-> s.prev, to |-> to]),
                              !.prev = to]
        IN IF alongX THEN [rest EXCEPT !.x = @ + Sign(dx), !.nx = @ + Incr(dx)]
                     ELSE [rest EXCEPT !.y = @ + Sign(dy), !.ny = @ + Incr(dy)]
      Walk[k \in Nat] ==
        IF k = 0 THEN [x |-> Enter(a.x, dx, w), y |-> Enter(a.y, dy, h), prev |-> 0, done |-> <<>>,
                       nx |-> FirstEdge(a.x, dx, w), ny |-> FirstEdge(a.y, dy, h)]
        ELSE After(Walk[k - 1])
      last == Walk[Edges(a.x, b.x, dx, w) + Edges(a.y, b.y, dy, h)]
  IN IF dy = 0 THEN <<>>
     ELSE Append(last.done, [x |-> last.x, y |-> last.y, from |-> last.prev, to |-> Steps])

\* The cover of a full pixel, and its area.
Cover == Sub * Steps
Full == 2 * Cover * Cover

\* Cell
Cells == [cover : Int, area : Int]

\* What a span of a line adds to the cell of its pixel.
Marks(a, b, s) ==
  LET dy == (s.to - s.from) * (b.y - a.y)
      x == 2 * Steps * a.x + (s.from + s.to) * (b.x - a.x)
  IN [cover |-> dy, area |-> (2 * Cover * (s.x + 1) - x) * dy]

\* draw_lines: the cells, from left to right and top to bottom.
DrawLine(cells, a, b, w, h) ==
  LET spans == Spans(a, b, w, h)
      Mark(c, s) ==
        LET m == Marks(a, b, s)
        IN [c EXCEPT ![s.y * w + s.x] = [cover |-> @.cover + m.cover, area |-> @.area + m.area]]
      Marked[k \in 0..Len(spans)] == IF k = 0 THEN cells ELSE Mark(Marked[k - 1], spans[k])
  IN Marked[Len(spans)]

DrawLines(o, w, h) ==
  LET Drawn[k \in 0..Len(o.lines)] ==
        IF k = 0 THEN [p \in 0..(w * h - 1) |-> [cover |-> 0, area |-> 0]]
        ELSE DrawLine(Drawn[k - 1], o.points[o.lines[k].beg], o.points[o.lines[k].end], w, h)
  IN Drawn[Len(o.lines)]

\* post_process: one sum over the whole image, never reset at the start of a row.
PostProcess(cells) ==
  LET Accum[p \in DOMAIN cells] == IF p = 0 THEN 0 ELSE Accum[p - 1] + 2 * Cover * cells[p - 1].cover
      Level(v) == IF v >= Full THEN 255 ELSE (v * 255 + Full \div 2) \div Full
  IN [p \in DOMAIN cells |-> Level(Abs(Accum[p] + cells[p].area))]
===============================================================================

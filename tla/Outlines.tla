------------------------------- MODULE Outlines -------------------------------
(***************************************************************************)
(* Decoding the outline of a glyph (schrift.c): the points, lines and      *)
(* quadratic curves of its contours, and of the glyphs it is composed of.  *)
(* An outline refers to its points by position.  It is a record with the   *)
(* capacity of each of its arrays; "ok" turns FALSE where the code returns *)
(* -1, after which nothing is read from the outline.                       *)
(***************************************************************************)
EXTENDS Glyphs, FiniteSets

CONSTANTS
  FirstCap,      \* 64: the first capacity of an array, scaled
  GrowLimit,     \* UINT16_MAX / 2: capacities beyond are not doubled, scaled
  PointLimit,    \* UINT16_MAX, scaled
  One            \* 16384: the 1.0 that scales of components are counted in, scaled

\* Points, and outlines: every line and every curve is between points the outline has.
Points == [x : Int, y : Int]

Shapes ==
  {o \in [ok : BOOLEAN, points : Seq(Points), curves : Seq([beg : Nat, end : Nat, ctrl : Nat]),
          lines : Seq([beg : Nat, end : Nat]), cap : [points : Nat, curves : Nat, lines : Nat]] :
     /\ \A l \in 1..Len(o.lines) : {o.lines[l].beg, o.lines[l].end} \subseteq 1..Len(o.points)
     /\ \A c \in 1..Len(o.curves) : {o.curves[c].beg, o.curves[c].end, o.curves[c].ctrl} \subseteq 1..Len(o.points)}

\* init_outline
NewOutline ==
  [ok |-> TRUE, points |-> <<>>, curves |-> <<>>, lines |-> <<>>,
   cap |-> [points |-> FirstCap, curves |-> FirstCap, lines |-> FirstCap]]

Bad(o) == [o EXCEPT !.ok = FALSE]

\* grow_points, grow_curves and grow_lines.
Grow(o, array) ==
  IF o.cap[array] > GrowLimit THEN Bad(o) ELSE [o EXCEPT !.cap[array] = 2 * @]

\* An element at the end of an array, which grows when it is full.
Push(o, array, element) ==
  LET roomy == IF Len(o[array]) >= o.cap[array] THEN Grow(o, array) ELSE o
  IN IF o.ok /\ roomy.ok THEN [roomy EXCEPT ![array] = Append(@, element)] ELSE Bad(o)

\* simple_outline: room for n points.
Fit(o, n) ==
  LET Roomier(s) == IF s.ok /\ n > s.cap.points THEN Grow(s, "points") ELSE s
      Grown[k \in 0..n] == IF k = 0 THEN o ELSE Roomier(Grown[k - 1])
  IN Grown[n]

Midpoint(a, b) == [x |-> (a.x + b.x) \div 2, y |-> (a.y + b.y) \div 2]

\* transform_points, of the points after the first `from`.
TransformPoints(o, from, m) ==
  [o EXCEPT !.points = [i \in DOMAIN @ |->
     IF i <= from THEN @[i]
     ELSE [x |-> (@[i].x * m.xx + @[i].y * m.yx) \div m.one + m.dx,
           y |-> (@[i].x * m.xy + @[i].y * m.yy) \div m.one + m.dy]]]

-----------------------------------------------------------------------------
(* Simple outlines *)

\* simple_flags: a flag may stand for several points; <<>> when there are too few.
SimpleFlags(g, n) ==
  LET Read[k \in 0..Len(g.flags)] ==
        IF k = 0 THEN <<>> ELSE Read[k - 1] \o [j \in 1..(g.flags[k].repeat + 1) |-> g.flags[k]]
      all == Read[Len(g.flags)]
  IN IF Len(all) < n THEN <<>> ELSE SubSeq(all, 1, n)

\* simple_points: every coordinate is a change of the one before, the x of all points
\* before the y of all; <<>> when there are too few.
SimplePoints(g, flags) ==
  LET n == Len(flags)
      Reads(axis, i) == Cardinality({j \in 1..i : flags[j][axis] # "same"})
      Change(axis, skip, i) ==
        LET c == g.coords[skip + Reads(axis, i)]
        IN CASE flags[i][axis] = "same" -> 0
             [] flags[i][axis] = "minus" -> -c
             [] flags[i][axis] \in {"plus", "word"} -> c
      At[i \in 0..n] ==
        IF i = 0 THEN [x |-> 0, y |-> 0]
        ELSE LET p == At[i - 1]
             IN [x |-> p.x + Change("x", 0, i), y |-> p.y + Change("y", Reads("x", n), i)]
  IN IF Len(g.coords) < Reads("x", n) + Reads("y", n) THEN <<>>
     ELSE [i \in 1..n |-> At[i]]

\* decode_contour: the points base + 1, ... as a closed sequence of lines and curves.
\* Between two points off the curve lies one on it, halfway.
DecodeContour(flags, base, o) ==
  LET n == Len(flags)
      start ==
        CASE flags[1].on -> [o |-> o, loose |-> base + 1, from |-> 2, to |-> n]
          [] ~flags[1].on /\ flags[n].on -> [o |-> o, loose |-> base + n, from |-> 1, to |-> n - 1]
          [] ~flags[1].on /\ ~flags[n].on ->
               LET mid == Push(o, "points", Midpoint(o.points[base + 1], o.points[base + n]))
               IN [o |-> mid, loose |-> Len(mid.points), from |-> 1, to |-> n]
      To(s, end) ==
        IF s.ctrl = 0 THEN Push(s.o, "lines", [beg |-> s.beg, end |-> end])
        ELSE Push(s.o, "curves", [beg |-> s.beg, end |-> end, ctrl |-> s.ctrl])
      Visit(s, i) ==
        LET cur == base + i
            more == Push(s.o, "points", Midpoint(s.o.points[s.ctrl], s.o.points[cur]))
            center == Len(more.points)
        IN IF flags[i].on THEN [o |-> To(s, cur), beg |-> cur, ctrl |-> 0]
           ELSE IF s.ctrl = 0 THEN [s EXCEPT !.ctrl = cur]
           ELSE [o |-> To([s EXCEPT !.o = more], center), beg |-> center, ctrl |-> cur]
      Visited[k \in 0..(start.to - start.from + 1)] ==
        IF k = 0 THEN [o |-> start.o, beg |-> start.loose, ctrl |-> 0]
        ELSE Visit(Visited[k - 1], start.from + k - 1)
  IN IF n < 2 THEN o
     ELSE IF ~start.o.ok THEN start.o ELSE To(Visited[start.to - start.from + 1], start.loose)

\* simple_outline
SimpleOutline(g, o) ==
  LET n == g.ends[Len(g.ends)] + 1
      base == Len(o.points)
      flags == SimpleFlags(g, n)
      points == SimplePoints(g, flags)
      Start(k) == IF k = 1 THEN 1 ELSE g.ends[k - 1] + 2
      roomy == Fit(o, base + n)
      Contour(s, k) ==
        IF ~s.ok THEN s ELSE DecodeContour(SubSeq(flags, Start(k), g.ends[k] + 1), base + Start(k) - 1, s)
      Contours[k \in 0..g.contours] ==
        IF k = 0 THEN [roomy EXCEPT !.points = @ \o points] ELSE Contour(Contours[k - 1], k)
  IN IF \/ ~Safe(g, 10, 2 * g.contours + 2)
        \/ n > PointLimit \/ base > PointLimit - n \/ ~roomy.ok
        \/ \E k \in 1..(g.contours - 1) : g.ends[k + 1] < g.ends[k] + 1
        \/ flags = <<>> \/ points = <<>>
     THEN Bad(o)
     ELSE Contours[g.contours]

-----------------------------------------------------------------------------
(* Compound outlines *)

\* The matrix and the offset of a component.
Local(c) ==
  LET s == c.scale
  IN [one |-> One, dx |-> c.dx, dy |-> c.dy,
      xx |-> IF s = <<>> THEN One ELSE s[1],
      xy |-> IF Len(s) = 4 THEN s[2] ELSE 0,
      yx |-> IF Len(s) = 4 THEN s[3] ELSE 0,
      yy |-> IF s = <<>> THEN One ELSE s[Len(s)]]

\* compound_outline: the outlines of the components, each moved to its place; `inner`
\* decodes the outline of one.
CompoundOutline(font, g, inner, o) ==
  LET Component(s, c) ==
        LET bytes == (IF c.large THEN 8 ELSE 6) + 2 * Len(c.scale)
            offset == OutlineOffset(font, c.glyph)
        IN IF ~s.o.ok \/ ~Safe(g, s.at, bytes) \/ ~c.xy \/ offset = Failure
           THEN [s EXCEPT !.o = Bad(@)]
           ELSE [at |-> s.at + bytes,
                 o |-> IF offset = NoOutline THEN s.o
                       ELSE TransformPoints(inner[offset][s.o], Len(s.o.points), Local(c))]
      Placed[k \in 0..Len(g.components)] ==
        IF k = 0 THEN [at |-> 10, o |-> o] ELSE Component(Placed[k - 1], g.components[k])
  IN Placed[Len(g.components)].o

\* decode_outline, of the outline at an offset: components nest at most four deep.
DecodeOutline(font, offset, o) ==
  LET Decode[nests \in 0..4] ==
        [at \in DOMAIN font.tables.glyf.at |-> [into \in Shapes |->
          LET g == Outline(font, at)
          IN IF ~Safe(g, 0, 10) THEN Bad(into)
             ELSE IF g.contours > 0 THEN SimpleOutline(g, into)
             ELSE IF g.contours = 0 THEN into
             ELSE IF nests = 0 THEN Bad(into) ELSE CompoundOutline(font, g, Decode[nests - 1], into)]]
  IN Decode[4][offset][o]

-----------------------------------------------------------------------------
(* What a font holds *)

Flags == [on : BOOLEAN, x : {"same", "minus", "plus", "word"}, y : {"same", "minus", "plus", "word"}, repeat : Nat]

\* An outline as it is stored, in a font of n glyphs.
IsGlyph(g, n) ==
  /\ g.room \in Int /\ g.contours \in Int /\ g.box \in [1..4 -> Int]
  /\ g.contours > 0 =>
       /\ g.ends \in Seq(Nat) /\ Len(g.ends) = g.contours
       /\ g.flags \in Seq(Flags) /\ g.coords \in Seq(Int)
  /\ g.contours < 0 =>
       /\ g.components \in Seq([glyph : 0..(n - 1), xy : BOOLEAN, large : BOOLEAN, dx : Int, dy : Int, scale : Seq(Int)])
       /\ \A k \in 1..Len(g.components) : Len(g.components[k].scale) \in {0, 1, 2, 4}

\* A font of n glyphs: where the outline of a glyph is to be, there is one.
IsFont(font, n) ==
  /\ HasTables(font, n)
  /\ Has(font, "glyf") => \A at \in DOMAIN font.tables.glyf.at : IsGlyph(Outline(font, at), n)
  /\ \A g \in 0..(n - 1) :
       OutlineOffset(font, g) \in {Failure, NoOutline} \/ OutlineOffset(font, g) \in DOMAIN font.tables.glyf.at

ASSUME OutlinesAssumption ==
  {Sub, FirstCap, GrowLimit, PointLimit, One} \subseteq Nat \ {0}
===============================================================================

------------------------------- MODULE MCScreen -------------------------------
(***************************************************************************)
(* Fonts of a few glyphs and frames of a few commands, for a GamePad of 6  *)
(* by 4 pixels and a TV of 1.5 and of 2.25 times that.  16 units of a font *)
(* are an em, so that at size 4 a unit is a quarter of a pixel.            *)
(***************************************************************************)
EXTENDS Screen

Room == 10000      \* the bytes after the start of a table of a complete font

\* Glyphs by their points: <<x, y, on>>, where a contour ends, and what the box is.
Coords(ps, axis) ==
  LET d(i) == ps[i][axis] - (IF i = 1 THEN 0 ELSE ps[i - 1][axis])
      changes == SelectSeq([i \in DOMAIN ps |-> d(i)], LAMBDA v : v # 0)
  IN [i \in DOMAIN changes |-> IF i % 2 = 0 THEN changes[i] ELSE Abs(changes[i])]

\* The change to a point, as a byte with a sign or as a word, in turn.
Flag(ps, i) ==
  LET d(axis) == ps[i][axis] - (IF i = 1 THEN 0 ELSE ps[i - 1][axis])
      nth(axis) == Cardinality({j \in 1..i : ps[j][axis] # (IF j = 1 THEN 0 ELSE ps[j - 1][axis])})
      kind(axis) == IF d(axis) = 0 THEN "same"
                    ELSE IF nth(axis) % 2 = 0 THEN "word" ELSE IF d(axis) > 0 THEN "plus" ELSE "minus"
  IN [on |-> ps[i][3], x |-> kind(1), y |-> kind(2), repeat |-> 0]

Simple(ps, ends, box) ==
  [room |-> Room, contours |-> Len(ends), ends |-> ends, box |-> box,
   flags |-> [i \in DOMAIN ps |-> Flag(ps, i)], coords |-> Coords(ps, 1) \o Coords(ps, 2)]

Compound(box, cs) == [room |-> Room, contours |-> -1, box |-> box, components |-> cs]

On(x, y) == <<x, y, TRUE>>
Off(x, y) == <<x, y, FALSE>>

\* Two flags that stand for four points.
Repeated ==
  [Simple(<<On(0, 0), On(4, 4), On(8, 8), On(0, 8)>>, <<3>>, <<0, 0, 8, 8>>) EXCEPT
     !.flags = <<[on |-> TRUE, x |-> "same", y |-> "same", repeat |-> 0],
                 [on |-> TRUE, x |-> "word", y |-> "plus", repeat |-> 1],
                 [on |-> TRUE, x |-> "minus", y |-> "same", repeat |-> 0]>>,
     !.coords = <<4, 4, 8, 4, 4>>]

Glyf ==
  [o \in 0..11 |->
     CASE o = 0 -> Simple(<<On(0, 0), On(8, 0), On(8, 8), On(0, 8)>>, <<3>>, <<0, 0, 8, 8>>)
       [] o = 1 -> Simple(<<On(0, 0), On(12, 0), On(4, 8)>>, <<2>>, <<0, 0, 12, 8>>)
       \* All points off the curve, and curves too round to be lines.
       [] o = 2 -> Simple(<<Off(0, 0), Off(16, 0), Off(16, 16), Off(0, 16)>>, <<3>>, <<0, 0, 16, 16>>)
       \* The first point off the curve, the last on it.
       [] o = 3 -> Simple(<<Off(8, 0), Off(8, 8), On(0, 8), On(0, 0)>>, <<3>>, <<0, 0, 8, 8>>)
       \* A hole, and a contour of one point.
       [] o = 4 -> Simple(<<On(0, 0), On(12, 0), On(12, 12), On(0, 12), On(4, 4), On(4, 8), On(8, 8), On(8, 4), On(6, 6)>>,
                          <<3, 7, 8>>, <<0, 0, 12, 12>>)
       \* Larger than its box, which starts left of and below the origin.
       [] o = 5 -> Simple(<<On(-4, -4), On(16, -4), On(16, 12), On(-4, 12)>>, <<3>>, <<-4, -4, 8, 4>>)
       \* Composed of the triangle, mirrored, and of half the first square, moved.
       [] o = 6 -> Compound(<<0, 0, 12, 12>>,
                     <<[glyph |-> 1, xy |-> TRUE, large |-> FALSE, dx |-> 12, dy |-> 0, scale |-> <<-4, 4>>],
                       [glyph |-> 0, xy |-> TRUE, large |-> TRUE, dx |-> 8, dy |-> 8, scale |-> <<2>>],
                       [glyph |-> 9, xy |-> TRUE, large |-> FALSE, dx |-> 0, dy |-> 0, scale |-> <<0, 4, -4, 0>>]>>)
       \* Composed of itself.
       [] o = 7 -> Compound(<<0, 0, 8, 8>>,
                     <<[glyph |-> 7, xy |-> TRUE, large |-> FALSE, dx |-> 0, dy |-> 0, scale |-> <<>>]>>)
       [] o = 8 -> Repeated
       [] o = 9 -> [room |-> Room, contours |-> 0, box |-> <<0, 0, 4, 4>>]
       \* More points than an outline can have.
       [] o = 10 -> Simple([i \in 1..34 |-> On(4 * (i % 2), 4)], <<33>>, <<0, 0, 4, 4>>)
       \* A box of no extent.
       [] o = 11 -> Simple(<<On(0, 0), On(8, 0), On(8, 8)>>, <<2>>, <<4, 0, 4, 8>>)]

\* Glyph g has the outline at g; glyph 12 has none.
Loca == [room |-> Room, long |-> TRUE, offsets |-> <<0, 1, 2, 3, 4, 5, 6, 7, 8, 9, 10, 11, 12, 12>>]

\* The last glyphs share a width.
Hmtx ==
  [room |-> Room,
   long |-> <<[advance |-> 10, bearing |-> 0], [advance |-> 13, bearing |-> -1], [advance |-> 18, bearing |-> 2],
              [advance |-> 7, bearing |-> 0]>>,
   short |-> [i \in 1..9 |-> 0]]

\* The same characters in segments, in a run, and in groups.
Segments ==
  [room |-> Room, format |-> 4, ends |-> <<10, 65, 72, 78, 65535>>, starts |-> <<10, 65, 70, 75, 65535>>,
   deltas |-> <<65527, 65473, 65472, 1, 1>>, ranges |-> <<0, 0, 0, 4, 0>>, ids |-> <<8, 0, 11, 6>>]
Run == [room |-> Room, format |-> 6, first |-> 65, ids |-> <<1, 2, 3, 4, 5, 6, 7, 8>>]
Groups ==
  [room |-> Room, format |-> 12, length |-> 40,
   groups |-> <<[first |-> 10, last |-> 10, glyph |-> 1], [first |-> 65, last |-> 77, glyph |-> 0]>>]

Font(entries) ==
  [magic |-> TRUE,
   tables |-> [head |-> [room |-> Room, unitsPerEm |-> 16], hhea |-> [room |-> Room],
               cmap |-> [room |-> Room, entries |-> entries],
               hmtx |-> Hmtx, loca |-> Loca, glyf |-> [room |-> Room, at |-> Glyf]]]

Map(plane, table) == [plane |-> plane, table |-> table]

Plain == Font(<<Map("other", Run), Map("basic", Segments)>>)
MCFonts ==
  {Plain, Font(<<Map("basic", Run)>>), Font(<<Map("basic", Segments), Map("full", Groups)>>),
   Font(<<Map("full", Segments)>>),
   [Plain EXCEPT !.magic = FALSE],
   \* Fonts that end early.
   [Plain EXCEPT !.tables.hmtx.room = 7],
   [Plain EXCEPT !.tables.loca.room = 16]}

\* Rectangles, one of which ends below the screen, and texts; the last is wider than it.
Rect(x, y, w, h, border, shade) == [op |-> "rect", x |-> x, y |-> y, w |-> w, h |-> h, border |-> border, shade |-> shade]
Text(x, y, text, right, size) == [op |-> "text", x |-> x, y |-> y, text |-> text, right |-> right, size |-> size, shade |-> 200]

MCFrames ==
  {<<Rect(0, 0, 5, 4, 1, 100), Text(1, 3, <<65, 77, 71, 10, 70>>, FALSE, 4)>>,
   <<Rect(0, 1, 6, 2, 0, 120), Rect(1, 2, 4, 4, 1, 90), Text(6, 3, <<65, 70, 78>>, TRUE, 4)>>,
   <<Text(0, 4, <<72, 76, 65, 67>>, FALSE, 8), Text(2, 3, <<66, 75>>, FALSE, 4)>>,
   <<Text(2, 4, <<68, 69, 73, 66>>, FALSE, 4), Text(1, 3, <<71, 74, 65>>, FALSE, 4), Text(0, 2, <<76, 65>>, TRUE, 4)>>}

MCTvModes == {[w |-> 8, h |-> 6, num |-> 3, den |-> 2], [w |-> 12, h |-> 9, num |-> 9, den |-> 4]}
===============================================================================

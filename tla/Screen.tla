-------------------------------- MODULE Screen --------------------------------
(***************************************************************************)
(* Drawing a menu (DrawUtils.cpp): frames of rectangles and of text, whose *)
(* characters schrift.c turns into grey levels, written straight into the  *)
(* memory OSScreen shows on the GamePad and, scaled, on the TV.  Each has  *)
(* two buffers in a row, one shown and one drawn to; OSScreen, external,   *)
(* swaps them, and beginDraw has to find out which is which.               *)
(***************************************************************************)
EXTENDS Raster, Functions

CONSTANTS
  Fonts,                \* what OSGetSharedData may return
  Frames,               \* what a menu may draw: sequences of commands
  MaxFrames,            \* frames before the last, empty one
  ScreenW, ScreenH,     \* SCREEN_WIDTH and SCREEN_HEIGHT, scaled
  DrcW, DrcH,           \* columns and rows of a buffer of the GamePad, scaled
  TvModes               \* for a mode of the TV: columns, rows, scale as a fraction

\* A colour is one of its channels.
Shade == 0..255

\* What a menu draws.
Rects == [op : {"rect"}, x : Nat, y : Nat, w : Nat, h : Nat, border : Nat, shade : Shade]
Texts == [op : {"text"}, x : Nat, y : Nat, text : Seq(Nat), right : BOOLEAN, size : Nat \ {0}, shade : Shade]

\* No rectangle of a menu leaves the screen to the right or is narrower than its border
\* (main.cpp); below the screen one may be, for the list of environments has no end.
ASSUME FramesAssumption ==
  /\ Frames \subseteq Seq(Rects \cup Texts)
  /\ \A f \in Frames : \A i \in 1..Len(f) :
       f[i].op = "rect" => f[i].x + f[i].w <= ScreenW /\ f[i].border <= f[i].w /\ f[i].border <= f[i].h

\* Glyphs are counted in 16 bits.
GlyphLimit == 65535

\* The font of the console holds the glyphs of what is printed.
ASSUME FontsAssumption ==
  \A font \in Fonts : \E n \in 1..GlyphLimit :
    /\ IsFont(font, n)
    /\ \A f \in Frames : \A i \in 1..Len(f) :
         f[i].op = "text" => \A j \in 1..Len(f[i].text) : GlyphId(font, f[i].text[j]) \in (0..(n - 1)) \cup {Failure}

\* Both screens have room for what is drawn.  The TV is as high as the scaled GamePad, but
\* may be a part of a pixel of that too narrow; the corner of the last pixel is on it.
ASSUME ScreensAssumption ==
  /\ {MaxFrames, ScreenW, ScreenH, DrcW, DrcH} \subseteq Nat \ {0}
  /\ ScreenW <= DrcW /\ ScreenH <= DrcH
  /\ TvModes \subseteq [w : Nat \ {0}, h : Nat \ {0}, num : Nat \ {0}, den : Nat \ {0}]
  /\ \A m \in TvModes :
       /\ 2 * m.num >= 3 * m.den
       /\ ScreenH * m.num <= m.h * m.den
       /\ (ScreenW - 1) * m.num < m.w * m.den
       /\ ((ScreenW - 1) * m.num) % m.den <= m.num % m.den

\* Black, the colour of a menu, and the pixel beginDraw looks for, which is no colour.
Black == 0
Background == 40
Marker == -1

Newline == 10

VARIABLES
  pc,         \* what is being done
  font, mode, \* the font and the mode of the TV
  work,       \* for each screen, the buffer OSScreen draws to: 0 or 1
  isBack,     \* isBackBuffer
  drc, tv,    \* the pixels of both buffers of each screen
  frame,      \* frames drawn
  cmds,       \* what is left to draw of this frame
  rest,       \* what is left to print of a text
  penX, penY, \* where the next character goes
  gid, mtx,   \* a glyph and its metrics
  outl,       \* outl: the outline of the glyph
  cells       \* buf: its cover, pixel by pixel

vars == <<pc, font, mode, work, isBack, drc, tv, frame, cmds, rest, penX, penY, gid, mtx, outl, cells>>
screens == <<work, isBack, drc, tv>>
pen == <<rest, penX, penY>>
glyph == <<gid, mtx, outl, cells>>

\* A buffer has this many pixels.
DrcCells == 0..(DrcW * DrcH - 1)
TvCells == 0..(mode.w * mode.h - 1)

-----------------------------------------------------------------------------
(* Pixels *)

Scale(v) == (v * mode.num) \div mode.den

\* Mutant of Zoomed: the rows of the GamePad's buffer are counted.
ZoomedPad(x, y) == {Scale(x) + Scale(y) * DrcW} \cap TvCells

\* The TV pixels that drawPixel writes for a pixel of the GamePad.
Zoomed(x, y) ==
  LET reach == mode.num \div mode.den
      Upto(v) == {n \in Scale(v)..(Scale(v) + reach + 1) : n * mode.den < v * mode.num + reach * mode.den}
  IN {xx + yy * mode.w : xx \in Upto(x), yy \in Upto(y)} \cap TvCells

\* Mutant of Blend: what is covered keeps its weight.
BlendOver(shade, alpha, under) == IF alpha = 255 THEN shade ELSE (shade * alpha) \div 255 + under

\* A colour laid over another.
Blend(shade, alpha, under) == IF alpha = 255 THEN shade ELSE (shade * alpha + under * (255 - alpha)) \div 255

Half == IF isBack THEN 1 ELSE 0

\* drawPixel, on the buffers of both screens.
DrawPixel(s, p) ==
  LET i == p.x + p.y * DrcW
  IN [drc |-> IF i \in DrcCells THEN [s.drc EXCEPT ![Half][i] = Blend(p.shade, p.alpha, @)] ELSE s.drc,
      tv |-> [s.tv EXCEPT ![Half] = [c \in TvCells |->
                IF c \in Zoomed(p.x, p.y) THEN Blend(p.shade, p.alpha, @[c]) ELSE @[c]]]]

Draw(pixels) ==
  LET Drawn[k \in 0..Len(pixels)] ==
        IF k = 0 THEN [drc |-> drc, tv |-> tv] ELSE DrawPixel(Drawn[k - 1], pixels[k])
  IN drc' = Drawn[Len(pixels)].drc /\ tv' = Drawn[Len(pixels)].tv

\* drawRectFilled, row by row.
Filled(x, y, w, h, shade) ==
  [k \in 1..(w * h) |-> [x |-> x + ((k - 1) % w), y |-> y + ((k - 1) \div w), shade |-> shade, alpha |-> 255]]

\* drawRect: its four sides.
Sides(r) ==
  LET b == r.border
  IN    Filled(r.x, r.y, r.w, b, r.shade) \o Filled(r.x, r.y + r.h - b, r.w, b, r.shade)
     \o Filled(r.x, r.y, b, r.h, r.shade) \o Filled(r.x + r.w - b, r.y, b, r.h, r.shade)

\* draw_freetype_bitmap: the pixels of a glyph that are on the screen, column by column.
Bitmap(x, y, w, h, image, shade) ==
  LET At(k) == [x |-> x + ((k - 1) \div h), y |-> y + ((k - 1) % h), shade |-> shade,
                alpha |-> image[((k - 1) % h) * w + ((k - 1) \div h)]]
      OnScreen(p) == p.x \in 0..(ScreenW - 1) /\ p.y \in 0..(ScreenH - 1)
      Seen[k \in 0..(w * h)] ==
        IF k = 0 THEN <<>> ELSE IF OnScreen(At(k)) THEN Append(Seen[k - 1], At(k)) ELSE Seen[k - 1]
  IN Seen[w * h]

-----------------------------------------------------------------------------
(* Text *)

\* The command that is being drawn.
Cmd == Head(cmds)

\* How far the pen goes for a character.
Advance(f, size, c) == IF GlyphId(f, c) = Failure THEN 0 ELSE Trunc(GMetrics(f, size, GlyphId(f, c)).advance)

\* Mutant of Width: the sum is rounded, not the widths.
WidthRounded(f, size, text, k) ==
  LET Sum[j \in 0..Len(text)] ==
        IF j = 0 THEN 0
        ELSE Sum[j - 1] + (IF GlyphId(f, text[j]) = Failure THEN 0 ELSE GMetrics(f, size, GlyphId(f, text[j])).advance)
  IN Trunc(Sum[k])

\* The width of the first k characters of a text.
Width(f, size, text, k) ==
  LET Sum[j \in 0..Len(text)] == IF j = 0 THEN 0 ELSE Sum[j - 1] + Advance(f, size, text[j])
  IN Sum[k]

\* getTextWidth
TextWidth(f, size, text) == Width(f, size, text, Len(text))

\* The image of a glyph: its width is a multiple of 4.
ImageW == ((mtx.width + 3) \div 4) * 4
ImageH == mtx.height

-----------------------------------------------------------------------------
NoGlyph == [ok |-> FALSE, advance |-> 0, bearing |-> 0, width |-> 0, height |-> 0, up |-> 0]

Init ==
  /\ pc = "init"
  /\ font \in Fonts
  /\ mode \in TvModes
  /\ work \in {[tv |-> b, drc |-> b] : b \in 0..1}
  /\ isBack = FALSE
  /\ drc = [b \in 0..1 |-> [c \in DrcCells |-> Black]]
  /\ tv = [b \in 0..1 |-> [c \in TvCells |-> Black]]
  /\ frame = 0
  /\ cmds = <<>>
  /\ rest = <<>> /\ penX = 0 /\ penY = 0
  /\ gid = 0 /\ mtx = NoGlyph /\ outl = NewOutline /\ cells = <<>>

\* initFont: without a font the program ends in OSFatal.
InitFont ==
  /\ pc = "init"
  /\ pc' = IF Loads(font) THEN "idle" ELSE "fatal"
  /\ UNCHANGED <<font, mode, screens, frame, cmds, pen, glyph>>

\* beginDraw: the TV buffer that a pixel of OSScreen turns up in is the one drawn to;
\* the pixel it found in the first is put back.  The last frame is empty.
BeginDraw ==
  /\ pc = "idle" /\ frame <= MaxFrames
  /\ LET marked == [tv EXCEPT ![work.tv][0] = Marker]
     IN /\ isBack' = (marked[0][0] # Marker)
        /\ tv' = [marked EXCEPT ![0][0] = tv[0][0]]
  /\ IF frame = MaxFrames THEN cmds' = <<>> ELSE cmds' \in Frames
  /\ pc' = "clear"
  /\ UNCHANGED <<font, mode, work, drc, frame, pen, glyph>>

\* clear: OSScreen clears the buffers it draws to.
Clear ==
  /\ pc = "clear"
  /\ LET shade == IF frame = MaxFrames THEN Black ELSE Background
     IN /\ tv' = [tv EXCEPT ![work.tv] = [c \in TvCells |-> shade]]
        /\ drc' = [drc EXCEPT ![work.drc] = [c \in DrcCells |-> shade]]
  /\ pc' = "draw"
  /\ UNCHANGED <<font, mode, work, isBack, frame, cmds, pen, glyph>>

\* drawRect or, without a border, drawRectFilled.
DrawRect ==
  /\ pc = "draw" /\ cmds # <<>> /\ Cmd.op = "rect"
  /\ Draw(IF Cmd.border = 0 THEN Filled(Cmd.x, Cmd.y, Cmd.w, Cmd.h, Cmd.shade) ELSE Sides(Cmd))
  /\ cmds' = Tail(cmds)
  /\ UNCHANGED <<pc, font, mode, work, isBack, frame, pen, glyph>>

\* print, up to its loop: a text aligned to the right starts its width before x.
StartText ==
  /\ pc = "draw" /\ cmds # <<>> /\ Cmd.op = "text"
  /\ rest' = Cmd.text
  /\ penX' = Cmd.x - (IF Cmd.right THEN TextWidth(font, Cmd.size, Cmd.text) ELSE 0)
  /\ penY' = Cmd.y
  /\ pc' = "text"
  /\ UNCHANGED <<font, mode, screens, frame, cmds, glyph>>

\* Where print returns: at the end of the text, or at an error.
Return ==
  /\ cmds' = Tail(cmds)
  /\ rest' = <<>>
  /\ pc' = "draw"
  /\ UNCHANGED <<font, mode, screens, frame, penX, penY, glyph>>

PrintEnd == pc = "text" /\ rest = <<>> /\ Return

\* A character that has no glyph is left out; without metrics print returns; a newline
\* goes down by the height of its own glyph.
PrintLookup ==
  /\ pc = "text" /\ rest # <<>>
  /\ LET g == GlyphId(font, Head(rest))
         m == GMetrics(font, Cmd.size, g)
     IN \/ /\ g = Failure
           /\ rest' = Tail(rest)
           /\ UNCHANGED <<pc, font, mode, screens, frame, cmds, penX, penY, glyph>>
        \/ g # Failure /\ ~m.ok /\ Return
        \/ /\ g # Failure /\ m.ok /\ Head(rest) = Newline
           /\ penX' = Cmd.x
           /\ penY' = penY + m.height
           /\ rest' = Tail(rest)
           /\ UNCHANGED <<pc, font, mode, screens, frame, cmds, glyph>>
        \/ /\ g # Failure /\ m.ok /\ Head(rest) # Newline
           /\ gid' = g
           /\ mtx' = m
           /\ pc' = "render"
           /\ UNCHANGED <<font, mode, screens, frame, cmds, pen, outl, cells>>

\* sft_render and render_outline up to the lines: print returns when one of them fails.
Render ==
  /\ pc = "render"
  /\ LET offset == OutlineOffset(font, gid)
         g == Outline(font, offset)
         decoded == DecodeOutline(font, offset, NewOutline)
         placed == TransformPoints(decoded, 0, Placement(font, Cmd.size, GlyphBox(font, Cmd.size, g)))
         lines == TesselateCurves(ClipPoints(placed, ImageW, ImageH))
     IN IF offset # NoOutline /\ (~decoded.ok \/ ~lines.ok)
        THEN Return
        ELSE /\ outl' = IF offset = NoOutline THEN NewOutline ELSE lines
             /\ pc' = "raster"
             /\ UNCHANGED <<font, mode, screens, frame, cmds, pen, gid, mtx, cells>>

\* draw_lines
Rasterize ==
  /\ pc = "raster"
  /\ cells' = DrawLines(outl, ImageW, ImageH)
  /\ pc' = "blit"
  /\ UNCHANGED <<font, mode, screens, frame, cmds, pen, gid, mtx, outl>>

\* post_process and the rest of the loop of print: the glyph is drawn, the pen moves on.
Blit ==
  /\ pc = "blit"
  /\ Draw(Bitmap(Trunc(penX * Sub + mtx.bearing), penY + mtx.up, ImageW, ImageH, PostProcess(cells), Cmd.shade))
  /\ penX' = penX + Trunc(mtx.advance)
  /\ rest' = Tail(rest)
  /\ pc' = "text"
  /\ UNCHANGED <<font, mode, work, isBack, frame, cmds, penY, glyph>>

\* Mutant of EndDraw: the TV is not flipped.
EndDrawOne ==
  /\ pc = "draw" /\ cmds = <<>>
  /\ work' = [work EXCEPT !.drc = 1 - @]
  /\ frame' = frame + 1
  /\ pc' = "idle"
  /\ UNCHANGED <<font, mode, isBack, drc, tv, cmds, pen, glyph>>

\* endDraw: both screens show what was drawn.
EndDraw ==
  /\ pc = "draw" /\ cmds = <<>>
  /\ work' = [tv |-> 1 - work.tv, drc |-> 1 - work.drc]
  /\ frame' = frame + 1
  /\ pc' = "idle"
  /\ UNCHANGED <<font, mode, isBack, drc, tv, cmds, pen, glyph>>

\* deinitFont, when the menu is left.
DeinitFont ==
  /\ pc = "idle" /\ frame > MaxFrames
  /\ pc' = "done"
  /\ UNCHANGED <<font, mode, screens, frame, cmds, pen, glyph>>

Next ==
  \/ InitFont \/ BeginDraw \/ Clear \/ DrawRect \/ StartText \/ PrintLookup \/ Render \/ Rasterize
  \/ Blit \/ PrintEnd \/ EndDraw \/ DeinitFont

Spec == Init /\ [][Next]_vars

-----------------------------------------------------------------------------
(* Properties *)

\* Every variable keeps its type: a pixel is a colour, an outline only refers to points it
\* has (decode_contour, tesselate_curve), and there is a cell for every pixel of a glyph.
TypeOK ==
  /\ pc \in {"init", "idle", "clear", "draw", "text", "render", "raster", "blit", "done", "fatal"}
  /\ font \in Fonts /\ mode \in TvModes
  /\ work \in [tv : 0..1, drc : 0..1] /\ isBack \in BOOLEAN
  /\ drc \in [0..1 -> [DrcCells -> Shade]] /\ tv \in [0..1 -> [TvCells -> Shade \cup {Marker}]]
  /\ frame \in 0..(MaxFrames + 1) /\ cmds \in Seq(Rects \cup Texts)
  /\ rest \in Seq(Nat) /\ penX \in Int /\ penY \in Int
  /\ gid \in Nat /\ mtx \in Metrics /\ outl \in Shapes
  /\ pc = "blit" => cells \in [0..(ImageW * ImageH - 1) -> Cells]

\* What a screen shows is never drawn on: no step changes a pixel of the buffer either
\* screen shows, whichever buffer OSScreen started with (beginDraw, drawPixel, endDraw).
ShownIsStill ==
  [][ /\ tv'[1 - work.tv] = tv[1 - work.tv]
      /\ drc'[1 - work.drc] = drc[1 - work.drc] ]_vars

\* The TV shows what the GamePad shows: every pixel of the GamePad has a pixel of the TV
\* of the same colour among those it is scaled to.  The first column is left out: what is
\* drawn in the last one spills over into it, for the TV is a pixel too narrow (drawPixel).
BothScreensAlike ==
  pc \in {"draw", "text", "idle"} =>
    \A b \in {Half}, x \in 1..(ScreenW - 1), y \in 0..(ScreenH - 1) :
      \E xx \in Scale(x)..Scale(x + 1), yy \in Scale(y)..Scale(y + 1) :
        xx < mode.w /\ yy < mode.h /\ tv[b][xx + yy * mode.w] = drc[b][x + y * DrcW]

\* A line that is aligned to the right and was printed in full ends where it was to end:
\* the width that was measured is the way the pen went (getTextWidth, print).
EndsAtRight ==
  pc = "text" /\ rest = <<>> /\ Cmd.right /\ Newline \notin Range(Cmd.text) => penX = Cmd.x

\* The glyph of the segment, the run or the group that holds a character, and 0 (in a
\* run: nothing) if none does.
InSegments(t, code) ==
  LET holds == {k \in DOMAIN t.ends : t.starts[k] <= code /\ code <= t.ends[k]}
      k == CHOOSE k \in holds : TRUE
      listed == t.ids[t.ranges[k] \div 2 - (Len(t.ends) - k) + (code - t.starts[k])]
  IN IF holds = {} THEN 0
     ELSE IF t.ranges[k] = 0 THEN (code + t.deltas[k]) % 65536
     ELSE IF listed = 0 THEN 0 ELSE (listed + t.deltas[k]) % 65536

InRun(t, code) ==
  IF code - t.first + 1 \in DOMAIN t.ids THEN t.ids[code - t.first + 1]
  ELSE IF code > 65535 THEN 0 ELSE Failure

InGroups(t, code) ==
  LET holds == {k \in DOMAIN t.groups : code \in t.groups[k].first..t.groups[k].last}
      k == CHOOSE k \in holds : TRUE
  IN IF holds = {} THEN 0 ELSE t.groups[k].glyph + (code - t.groups[k].first)

\* What a map of characters says, whatever its format.
MapsTo(t, code) ==
  CASE t.format = 4 -> InSegments(t, code)
    [] t.format = 6 -> InRun(t, code)
    [] t.format = 12 -> InGroups(t, code)

\* Every character is printed with the glyph the font's best map gives it, the first of all
\* of Unicode or, without one, the first of the basic plane, and is left out only if that
\* has none (glyph_id, cmap_fmt4, cmap_fmt6, cmap_fmt12_13, csearch).
GlyphsAsMapped ==
  pc = "render" =>
    LET entries == font.tables.cmap.entries
        Plane(k) == entries[k].plane
    IN \E k \in DOMAIN entries :
         /\ Plane(k) = IF \E j \in DOMAIN entries : Plane(j) = "full" THEN "full" ELSE "basic"
         /\ \A j \in DOMAIN entries : Plane(j) = Plane(k) => k <= j
         /\ gid = MapsTo(entries[k].table, Head(rest))

\* The lines of a glyph form closed loops: as many begin at a point as end there, whatever
\* contours, components and halves of curves they are made of, and whichever arrays had to
\* grow (decode_contour, compound_outline, tesselate_curve).
LoopsClosed ==
  pc = "blit" =>
    LET Times(i, side) == Cardinality({k \in DOMAIN outl.lines : outl.lines[k][side] = i})
    IN \A i \in DOMAIN outl.points : Times(i, "beg") = Times(i, "end")

\* The loops are filled: in every row of the image the cover adds up to nothing, so that
\* post_process, which never resets its sum, starts each row afresh; and the signed grey of
\* all pixels is the area the loops enclose (clip_points, draw_line).
LoopsFilled ==
  pc = "blit" =>
    LET Start(l) == outl.points[l.beg]
        End(l) == outl.points[l.end]
        RowCover(y) == SumFunctionOnSet([p \in DOMAIN cells |-> cells[p].cover], (y * ImageW)..(y * ImageW + ImageW - 1))
        \* Each cell's cover also darkens the pixels to the right of it in its row.
        Grey == SumFunction([p \in DOMAIN cells |->
                  cells[p].area + 2 * Cover * (ImageW - 1 - (p % ImageW)) * cells[p].cover])
        Area == SumFunction([k \in DOMAIN outl.lines |->
                  (Start(outl.lines[k]).x + End(outl.lines[k]).x) * (Start(outl.lines[k]).y - End(outl.lines[k]).y)])
    IN /\ \A y \in 0..(ImageH - 1) : RowCover(y) = 0
       /\ Grey = Steps * Steps * Area

\* The silhouette of a glyph: closed loops, filled (render_outline).
Silhouette == LoopsClosed /\ LoopsFilled
===============================================================================

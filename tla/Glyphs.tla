-------------------------------- MODULE Glyphs --------------------------------
(***************************************************************************)
(* The tables of a TrueType font as schrift.c reads them: from a character *)
(* to its glyph, from a glyph to its metrics and to where its outline is.  *)
(* A table is a record of what is stored in it and of its "room", the      *)
(* bytes between its start and the end of the font: a read is safe when it *)
(* ends within the room.  Lengths on the screen are in 1/Sub of a pixel.   *)
(***************************************************************************)
EXTENDS Integers, Sequences

CONSTANTS
  Sub        \* parts of a pixel that lengths and coordinates are counted in

\* What the functions return in place of a glyph or an offset: -1, and the offset 0
\* of a glyph that has no outline.
Failure == -1
NoOutline == -2

\* is_safe_offset, of `margin` bytes `offset` bytes into a table.
Safe(table, offset, margin) == offset + margin <= table.room

\* gettable: the search of the directory by tag.
Has(font, tag) == tag \in DOMAIN font.tables

\* sft_loadmem and init_font: the fonts that can be used.
Loads(font) ==
  /\ font.magic
  /\ Has(font, "head") /\ Safe(font.tables.head, 0, 54)
  /\ Has(font, "hhea") /\ Safe(font.tables.hhea, 0, 36)

-----------------------------------------------------------------------------
(* From a character to its glyph *)

\* One turn of the loop of csearch, which ends when low and high meet.
Narrow(r, codes, code) ==
  LET mid == r.low + (r.high - r.low) \div 2
  IN IF r.low = r.high THEN r
     ELSE IF code > codes[mid] THEN [r EXCEPT !.low = mid + 1] ELSE [r EXCEPT !.high = mid]

\* Mutant of Csearch: the half that holds the key is lost.
CsearchShort(codes, code) ==
  LET n == Len(codes)
      At[k \in 0..n] ==
        IF k = 0 THEN [low |-> 1, high |-> n] ELSE Narrow(At[k - 1], codes, code + 1)
  IN At[n].low

\* The first of ascending codes that is not below `code`; the last if there is none.
Csearch(codes, code) ==
  LET n == Len(codes)
      At[k \in 0..n] ==
        IF k = 0 THEN [low |-> 1, high |-> n] ELSE Narrow(At[k - 1], codes, code)
  IN At[n].low

\* Segments of codes; the glyphs of one follow its code by a constant or are listed
\* in `ids`, which follow `ranges`: a range says how many words further.
CmapFmt4(t, code) ==
  LET n == Len(t.ends)
      k == Csearch(t.ends, code)
      word == k + t.ranges[k] \div 2 + (code - t.starts[k])
      id == (t.ranges \o t.ids)[word]
  IN IF code > 65535 THEN 0
     ELSE IF ~Safe(t, 6, 8) \/ n = 0 \/ ~Safe(t, 16 + 6 * n, 2 * n) THEN Failure
     ELSE IF t.starts[k] > code THEN 0
     ELSE IF t.ranges[k] = 0 THEN (code + t.deltas[k]) % 65536
     ELSE IF ~Safe(t, 14 + 6 * n + 2 * word, 2) THEN Failure
     ELSE IF id = 0 THEN 0 ELSE (id + t.deltas[k]) % 65536

\* One run of codes.
CmapFmt6(t, code) ==
  IF code > 65535 THEN 0
  ELSE IF \/ ~Safe(t, 6, 4) \/ ~Safe(t, 6, 4 + 2 * Len(t.ids))
          \/ code - t.first \notin 0..(Len(t.ids) - 1)
       THEN Failure
       ELSE t.ids[code - t.first + 1]

\* The least of some positions.
First(positions) == CHOOSE k \in positions : \A j \in positions : k <= j

\* The groups of a map that hold a code.
Holding(t, code) == {k \in DOMAIN t.groups : t.groups[k].first <= code /\ code <= t.groups[k].last}

\* Groups of codes, of all of Unicode; the first that holds the code counts.
CmapFmt12(t, code) ==
  LET k == First(Holding(t, code))
  IN IF ~Safe(t, 0, 16) \/ t.length < 16 \/ ~Safe(t, 0, t.length) THEN Failure
     ELSE IF Holding(t, code) = {} THEN 0 ELSE code - t.groups[k].first + t.groups[k].glyph

\* The maps of a font for a plane, by their positions.
Maps(font, plane) == {k \in DOMAIN font.tables.cmap.entries : font.tables.cmap.entries[k].plane = plane}

\* The map that is used: one of all of Unicode, or else one of the basic plane.
BestMap(font) ==
  font.tables.cmap.entries[First(IF Maps(font, "full") # {} THEN Maps(font, "full") ELSE Maps(font, "basic"))].table

\* glyph_id, sft_lookup
GlyphId(font, code) ==
  LET cmap == font.tables.cmap
      t == BestMap(font)
  IN IF \/ ~Has(font, "cmap") \/ ~Safe(cmap, 0, 4)
        \/ ~Safe(cmap, 0, 4 + 8 * Len(cmap.entries)) THEN Failure
     ELSE IF Maps(font, "full") # {} THEN
          IF Safe(t, 0, 8) /\ t.format = 12 THEN CmapFmt12(t, code) ELSE Failure
     ELSE IF Maps(font, "basic") = {} \/ ~Safe(t, 0, 6) THEN Failure
     ELSE IF t.format = 4 THEN CmapFmt4(t, code)
     ELSE IF t.format = 6 THEN CmapFmt6(t, code) ELSE Failure

-----------------------------------------------------------------------------
(* From a glyph to its metrics *)

\* hor_metrics: glyphs beyond the long entries share the last width.
HorMetrics(font, g) ==
  LET hmtx == font.tables.hmtx
      n == Len(hmtx.long)
      None == [ok |-> FALSE, advance |-> 0, bearing |-> 0]
  IN IF ~Has(font, "hmtx") THEN None
     ELSE IF g < n
     THEN IF ~Safe(hmtx, 4 * g, 4) THEN None ELSE [ok |-> TRUE, advance |-> hmtx.long[g + 1].advance, bearing |-> hmtx.long[g + 1].bearing]
     ELSE IF ~Safe(hmtx, 4 * n - 4, 4) \/ ~Safe(hmtx, 4 * n + 2 * (g - n), 2) THEN None
     ELSE [ok |-> TRUE, advance |-> hmtx.long[n].advance, bearing |-> hmtx.short[g - n + 1]]

\* outline_offset: where in "glyf" the outline of a glyph starts.
OutlineOffset(font, g) ==
  LET loca == font.tables.loca
      width == IF loca.long THEN 4 ELSE 2
      unit == IF loca.long THEN 1 ELSE 2
      this == unit * loca.offsets[g + 1]
      next == unit * loca.offsets[g + 2]
  IN IF ~Has(font, "loca") \/ ~Has(font, "glyf") \/ ~Safe(loca, width * g, 2 * width)
     THEN Failure
     ELSE IF this = next THEN NoOutline ELSE this

Outline(font, offset) == font.tables.glyf.at[offset]

\* A length of the font at a font size.
Scaled(font, size, v) == (v * size * Sub) \div font.tables.head.unitsPerEm

Floor(v) == v \div Sub
Ceil(v) == -((-v) \div Sub)

\* A double turned into an int.
Trunc(v) == IF v < 0 THEN Ceil(v) ELSE Floor(v)

\* glyph_bbox, in pixels: <<left, bottom, right, top>>, or <<>> when it has no extent.
GlyphBox(font, size, outline) ==
  LET b == outline.box
      At(v) == Scaled(font, size, v)
  IN IF ~Safe(outline, 0, 10) \/ b[3] <= b[1] \/ b[4] <= b[2] THEN <<>>
     ELSE <<Floor(At(b[1])), Floor(At(b[2])), Ceil(At(b[3])), Ceil(At(b[4]))>>

Metrics == [ok : BOOLEAN, advance : Int, bearing : Int, width : Nat, height : Nat, up : Int]

\* sft_gmetrics.  The width of the advance is there also when the outline is bad.
GMetrics(font, size, g) ==
  LET h == HorMetrics(font, g)
      o == OutlineOffset(font, g)
      b == GlyphBox(font, size, Outline(font, o))
      flat == [ok |-> h.ok, advance |-> Scaled(font, size, h.advance),
               bearing |-> Scaled(font, size, h.bearing), width |-> 0, height |-> 0, up |-> 0]
  IN IF ~h.ok \/ o = NoOutline THEN flat
     ELSE IF o = Failure \/ b = <<>> THEN [flat EXCEPT !.ok = FALSE]
     ELSE [flat EXCEPT !.width = b[3] - b[1] + 1, !.height = b[4] - b[2] + 1, !.up = -b[4]]

-----------------------------------------------------------------------------
(* What a font holds *)

\* What 16 bits hold.
Words == 0..65535

\* A map of characters: ascending segments up to the last code, a run, or groups apart.
IsMap(t) ==
  /\ t.format \in Nat /\ t.room \in Int
  /\ t.format = 4 =>
       /\ {t.ends, t.starts, t.deltas, t.ranges, t.ids} \subseteq Seq(Words)
       /\ Len(t.starts) = Len(t.ends) /\ Len(t.deltas) = Len(t.ends) /\ Len(t.ranges) = Len(t.ends)
       /\ t.ends # <<>> => t.ends[Len(t.ends)] = 65535
       /\ \A k \in 1..Len(t.ends) :
            /\ t.starts[k] <= t.ends[k]
            /\ \A j \in 1..(k - 1) : t.ends[j] < t.starts[k]
            /\ t.ranges[k] # 0 =>
                 /\ t.ranges[k] \div 2 - (Len(t.ends) - k) >= 1
                 /\ t.ranges[k] \div 2 - (Len(t.ends) - k) + (t.ends[k] - t.starts[k]) <= Len(t.ids)
  /\ t.format = 6 => t.first \in Words /\ t.ids \in Seq(Words) /\ t.first + Len(t.ids) <= 65536
  /\ t.format = 12 =>
       /\ t.length \in Nat /\ t.groups \in Seq([first : Nat, last : Nat, glyph : Nat])
       /\ \A k \in 1..Len(t.groups) : \A j \in 1..(k - 1) : t.groups[j].last < t.groups[k].first

\* The tables besides the outlines, of a font of n glyphs.
HasTables(font, n) ==
  /\ font.magic \in BOOLEAN
  /\ Has(font, "head") => font.tables.head.room \in Int /\ font.tables.head.unitsPerEm \in Nat \ {0}
  /\ Has(font, "cmap") =>
       LET entries == font.tables.cmap.entries
       IN entries \in Seq([plane : {"full", "basic", "other"}, table : {entries[k].table : k \in DOMAIN entries}])
          /\ \A k \in DOMAIN entries : IsMap(entries[k].table)
  /\ Has(font, "hmtx") =>
       LET hmtx == font.tables.hmtx
       IN /\ hmtx.room \in Int
          /\ hmtx.long \in Seq([advance : Int, bearing : Int]) /\ hmtx.long # <<>>
          /\ hmtx.short \in Seq(Int) /\ n <= Len(hmtx.long) + Len(hmtx.short)
  /\ Has(font, "loca") =>
       LET loca == font.tables.loca
       IN /\ loca.room \in Int /\ loca.long \in BOOLEAN
          /\ loca.offsets \in Seq(Nat) /\ n < Len(loca.offsets)
===============================================================================

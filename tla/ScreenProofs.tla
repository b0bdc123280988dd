----------------------------- MODULE ScreenProofs -----------------------------
(***************************************************************************)
(* Proofs about Screen, for all fonts, menus and screens that fit: first   *)
(* what the operators of the font renderer return, for every font that     *)
(* holds what the code reads from it, then the steps of DrawUtils.cpp.     *)
(***************************************************************************)
EXTENDS Screen, Counting, SequenceTheorems, FiniteSetTheorems

-----------------------------------------------------------------------------
(* Searching a map of characters *)

\* The codes that csearch may be given.
Ascending(codes) == \A i, j \in 1..Len(codes) : i < j => codes[i] < codes[j]

\* What is left of the search: the first code not below the key is within, or none is.
Bounds(codes, code, k) ==
  {r \in [low : 1..Len(codes), high : 1..Len(codes)] :
     /\ r.low <= r.high
     /\ \A i \in 1..(r.low - 1) : codes[i] < code
     /\ r.high < Len(codes) => code <= codes[r.high]
     /\ (r.high - r.low <= Len(codes) - 1 - k \/ r.high = r.low)}

LEMMA Middle ==
  ASSUME NEW a \in Int, NEW b \in Int, a < b
  PROVE a + (b - a) \div 2 \in Int /\ a <= a + (b - a) \div 2 /\ a + (b - a) \div 2 < b
OBVIOUS

LEMMA NarrowBounds ==
  ASSUME NEW codes \in Seq(Int), NEW code \in Int, Ascending(codes),
         NEW k \in Int, NEW r \in Bounds(codes, code, k)
  PROVE Narrow(r, codes, code) \in Bounds(codes, code, k + 1)
<1> DEFINE mid == r.low + (r.high - r.low) \div 2
<1>1. r.low \in 1..Len(codes) /\ r.high \in 1..Len(codes) /\ Len(codes) \in Nat /\ r.low <= r.high
  BY DEF Bounds
<1>0. r \in [low : 1..Len(codes), high : 1..Len(codes)] BY DEF Bounds
<1>2. CASE r.low = r.high BY <1>1, <1>2 DEF Narrow, Bounds
<1>3. CASE r.low # r.high
  <2>1. mid \in Int /\ r.low <= mid /\ mid < r.high
    <3>1. r.low \in Int /\ r.high \in Int /\ r.low < r.high BY <1>1, <1>3
    <3> QED BY <3>1, Middle
  <2> HIDE DEF mid
  <2>2. codes[mid] \in Int BY <1>1, <2>1
  <2>3. CASE code > codes[mid]
    <3> DEFINE s == [r EXCEPT !.low = mid + 1]
    <3>1. Narrow(r, codes, code) = s BY <1>3, <2>3 DEF Narrow, mid
    <3>2. s \in [low : 1..Len(codes), high : 1..Len(codes)] /\ s.low = mid + 1 /\ s.high = r.high
      BY <1>0, <1>1, <2>1
    <3>3. ASSUME NEW i \in 1..mid PROVE codes[i] < code
      <4>1. i \in 1..Len(codes) /\ mid \in 1..Len(codes) BY <1>1, <2>1
      <4>2. codes[i] \in Int BY <4>1
      <4>3. i = mid \/ codes[i] < codes[mid] BY <4>1 DEF Ascending
      <4> QED BY <2>2, <2>3, <4>2, <4>3
    <3>4. r.high < Len(codes) => code <= codes[r.high] BY DEF Bounds
    <3>5. r.high - r.low <= Len(codes) - 1 - k BY <1>3 DEF Bounds
    <3>6. r.high - (mid + 1) <= Len(codes) - 1 - (k + 1) BY <1>1, <2>1, <3>5
    <3> HIDE DEF s
    <3> QED BY <1>1, <2>1, <3>1, <3>2, <3>3, <3>4, <3>6 DEF Bounds
  <2>4. CASE ~(code > codes[mid])
    <3> DEFINE s == [r EXCEPT !.high = mid]
    <3>1. Narrow(r, codes, code) = s BY <1>3, <2>4 DEF Narrow, mid
    <3>2. s \in [low : 1..Len(codes), high : 1..Len(codes)] /\ s.low = r.low /\ s.high = mid
      BY <1>0, <1>1, <2>1
    <3>3. \A i \in 1..(r.low - 1) : codes[i] < code BY DEF Bounds
    <3>4. code <= codes[mid] BY <2>2, <2>4
    <3>5. r.high - r.low <= Len(codes) - 1 - k BY <1>3 DEF Bounds
    <3>6. mid - r.low <= Len(codes) - 1 - (k + 1) BY <1>1, <2>1, <3>5
    <3> HIDE DEF s
    <3> QED BY <1>1, <2>1, <3>1, <3>2, <3>3, <3>4, <3>6 DEF Bounds
  <2> QED BY <2>3, <2>4
<1> QED BY <1>2, <1>3

\* csearch finds the first code that is not below the key, if there is one.
LEMMA CsearchFinds ==
  ASSUME NEW codes \in Seq(Int), NEW code \in Int, Ascending(codes), codes # <<>>
  PROVE /\ Csearch(codes, code) \in 1..Len(codes)
        /\ \A i \in 1..(Csearch(codes, code) - 1) : codes[i] < code
        /\ Csearch(codes, code) < Len(codes) => code <= codes[Csearch(codes, code)]
<1> DEFINE n == Len(codes)
           first == [low |-> 1, high |-> n]
           X == {r \in [low : 1..n, high : 1..n] : r.low <= r.high}
           turn == [k \in 1..n |-> [r \in X |-> Narrow(r, codes, code)]]
           Search(f) == f = [k \in 0..n |-> IF k = 0 THEN first ELSE Narrow(f[k - 1], codes, code)]
<1>1. n \in Nat /\ n >= 1 OBVIOUS
<1> HIDE DEF n
<1>2. ASSUME NEW r \in X PROVE Narrow(r, codes, code) \in X
  <2>1. r \in [low : 1..n, high : 1..n] /\ r.low \in 1..n /\ r.high \in 1..n /\ r.low <= r.high OBVIOUS
  <2> DEFINE mid == r.low + (r.high - r.low) \div 2
  <2>2. CASE r.low = r.high BY <2>1, <2>2 DEF Narrow
  <2>3. CASE r.low # r.high
    <3>1. r.low \in Int /\ r.high \in Int /\ r.low < r.high BY <1>1, <2>1, <2>3
    <3>2. mid \in Int /\ r.low <= mid /\ mid < r.high BY <3>1, Middle
    <3>3. Narrow(r, codes, code) \in {[r EXCEPT !.low = mid + 1], [r EXCEPT !.high = mid]}
      BY <2>3 DEF Narrow
    <3> HIDE DEF mid
    <3>4. [r EXCEPT !.low = mid + 1] \in X /\ [r EXCEPT !.high = mid] \in X BY <1>1, <2>1, <3>2
    <3> QED BY <3>3, <3>4
  <2> QED BY <2>2, <2>3
<1>3. first \in X BY <1>1
<1> HIDE DEF X, first
<1>4. \A k \in 1..n, r \in X : turn[k][r] = Narrow(r, codes, code) OBVIOUS
<1> HIDE DEF turn
<1>5. Turns(X, n, turn) BY <1>2, <1>4 DEF Turns
<1>6. PICK g : Turned(X, first, n, turn, g) BY <1>1, <1>3, <1>5, Loop
<1>7. Search(g)
  <2>1. ASSUME NEW k \in 1..n PROVE g[k] = Narrow(g[k - 1], codes, code)
    <3>1. k - 1 \in 0..n BY <1>1
    <3> QED BY <1>4, <1>6, <3>1 DEF Turned
  <2>2. \A k \in 0..n : k # 0 => k \in 1..n BY <1>1
  <2> QED BY <1>6, <2>1, <2>2 DEF Turned
<1> DEFINE At == CHOOSE f : Search(f)
<1>8. Search(At) BY <1>7
<1>9. Csearch(codes, code) = At[n].low BY DEF Csearch, n, first
<1> HIDE DEF At
<1> DEFINE T == {k \in 0..n : At[k] \in Bounds(codes, code, k)}
<1>10. 0 \in T
  <2>1. At[0] = first BY <1>1, <1>8
  <2> QED BY <1>1, <2>1 DEF Bounds, first, n
<1>11. ASSUME NEW k \in 1..n, k - 1 \in T PROVE k \in T
  <2>1. At[k] = Narrow(At[k - 1], codes, code) BY <1>1, <1>8
  <2>2. At[k - 1] \in Bounds(codes, code, k - 1) BY <1>11
  <2>3. Narrow(At[k - 1], codes, code) \in Bounds(codes, code, (k - 1) + 1) BY <2>2, NarrowBounds
  <2>4. (k - 1) + 1 = k /\ k \in 0..n BY <1>1
  <2> QED BY <2>1, <2>3, <2>4
<1> HIDE DEF T
<1>12. \A k \in 0..n : k \in T BY <1>1, <1>10, <1>11, LoopStays
<1>13. At[n] \in Bounds(codes, code, n) BY <1>1, <1>12 DEF T
<1>14. At[n].low = At[n].high BY <1>1, <1>13 DEF Bounds, n
<1> QED BY <1>9, <1>13, <1>14 DEF Bounds

-----------------------------------------------------------------------------
(* Numbers *)

LEMMA Division ==
  ASSUME NEW v \in Int, NEW d \in Nat \ {0}
  PROVE v \div d \in Int /\ d * (v \div d) <= v /\ v < d * (v \div d) + d
OBVIOUS

LEMMA Smaller ==
  ASSUME NEW d \in Nat \ {0}, NEW a \in Int, NEW b \in Int, d * a < d * b
  PROVE a < b
OBVIOUS

LEMMA DivisionGrows ==
  ASSUME NEW a \in Int, NEW b \in Int, NEW d \in Nat \ {0}, a <= b
  PROVE a \div d <= b \div d
<1> DEFINE x == a \div d  y == b \div d
<1>1. x \in Int /\ y \in Int /\ d * x <= a /\ b < d * y + d BY Division
<1> HIDE DEF x, y
<1>2. d * x < d * (y + 1) BY <1>1
<1>3. x < y + 1 BY <1>1, <1>2, Smaller
<1>4. x <= y BY <1>1, <1>3
<1> QED BY <1>4 DEF x, y

LEMMA Floors ==
  ASSUME NEW v \in Int
  PROVE Floor(v) \in Int /\ Sub * Floor(v) <= v /\ v < Sub * Floor(v) + Sub
BY Division, OutlinesAssumption DEF Floor

LEMMA Ceils ==
  ASSUME NEW v \in Int
  PROVE Ceil(v) \in Int /\ v <= Sub * Ceil(v) /\ Sub * Ceil(v) - Sub < v
<1> DEFINE q == (-v) \div Sub
<1>1. -v \in Int /\ Sub \in Nat \ {0} BY OutlinesAssumption
<1>2. q \in Int /\ Sub * q <= -v /\ -v < Sub * q + Sub BY <1>1, Division
<1>3. Ceil(v) = -q BY DEF Ceil
<1> HIDE DEF q
<1>4. Sub * (-q) = -(Sub * q) BY <1>1, <1>2
<1> QED BY <1>1, <1>2, <1>3, <1>4

LEMMA FloorBelowCeil ==
  ASSUME NEW a \in Int, NEW b \in Int, a <= b
  PROVE Floor(a) <= Ceil(b) /\ (a < b => Floor(a) < Ceil(b))
<1>1. Sub \in Nat \ {0} BY OutlinesAssumption
<1> DEFINE f == Floor(a)  c == Ceil(b)
<1>2. f \in Int /\ Sub * f <= a BY Floors
<1>3. c \in Int /\ b <= Sub * c BY Ceils
<1> HIDE DEF f, c
<1>4. CASE a < b
  <2>1. Sub * f < Sub * c BY <1>1, <1>2, <1>3, <1>4
  <2>2. f < c BY <1>1, <1>2, <1>3, <2>1, Smaller
  <2> QED BY <1>2, <1>3, <2>2 DEF f, c
<1>5. CASE a = b
  <2>1. Sub * f < Sub * (c + 1) BY <1>1, <1>2, <1>3, <1>5
  <2>2. f < c + 1 BY <1>1, <1>2, <1>3, <2>1, Smaller
  <2>3. f <= c BY <1>2, <1>3, <2>2
  <2> QED BY <1>5, <2>3 DEF f, c
<1> QED BY <1>4, <1>5

LEMMA TruncType ==
  ASSUME NEW v \in Int
  PROVE Trunc(v) \in Int
BY Floors, Ceils DEF Trunc

-----------------------------------------------------------------------------
(* Metrics *)

LEMMA ScaledGrows ==
  ASSUME NEW face, NEW n \in Nat, IsFont(face, n), Loads(face), NEW size \in Nat \ {0},
         NEW a \in Int, NEW b \in Int, a <= b
  PROVE /\ Scaled(face, size, a) \in Int /\ Scaled(face, size, b) \in Int
        /\ Scaled(face, size, a) <= Scaled(face, size, b)
<1> DEFINE em == face.tables.head.unitsPerEm
<1>1. em \in Nat \ {0} BY DEF IsFont, HasTables, Loads
<1>2. Sub \in Nat \ {0} BY OutlinesAssumption
<1> HIDE DEF em
<1>3. size * Sub \in Nat BY <1>2
<1>4. a * size * Sub \in Int /\ b * size * Sub \in Int /\ a * size * Sub <= b * size * Sub
  <2> DEFINE f == size * Sub
  <2>1. a * size * Sub = a * f /\ b * size * Sub = b * f BY <1>2
  <2> HIDE DEF f
  <2>2. f \in Nat BY <1>3 DEF f
  <2>3. a * f \in Int /\ b * f \in Int /\ (b - a) * f >= 0 /\ (b - a) * f = b * f - a * f BY <2>2
  <2>4. a * f <= b * f BY <2>3
  <2> QED BY <2>1, <2>3, <2>4
<1>5. (a * size * Sub) \div em \in Int /\ (b * size * Sub) \div em \in Int BY <1>1, <1>4, Division
<1>6. (a * size * Sub) \div em <= (b * size * Sub) \div em BY <1>1, <1>4, DivisionGrows
<1> QED BY <1>5, <1>6 DEF Scaled, em

LEMMA HorMetricsType ==
  ASSUME NEW face, NEW n \in Nat, IsFont(face, n), NEW g \in Nat, g < n
  PROVE HorMetrics(face, g) \in [ok : BOOLEAN, advance : Int, bearing : Int]
<1>1. CASE ~Has(face, "hmtx") BY <1>1 DEF HorMetrics
<1>2. CASE Has(face, "hmtx")
  <2> DEFINE hmtx == face.tables.hmtx
             N == Len(hmtx.long)
             R == [advance : Int, bearing : Int]
  <2>1. hmtx.long \in Seq(R) /\ hmtx.long # <<>> /\ hmtx.short \in Seq(Int) /\ n <= N + Len(hmtx.short)
    BY <1>2 DEF IsFont, HasTables
  <2> HIDE DEF R
  <2>2. N \in Nat /\ N > 0 /\ Len(hmtx.short) \in Nat BY <2>1
  <2>3. \A k \in 1..N : hmtx.long[k] \in R BY <2>1
  <2>6. HorMetrics(face, g) =
          IF g < N THEN IF ~Safe(hmtx, 4 * g, 4) THEN [ok |-> FALSE, advance |-> 0, bearing |-> 0]
                        ELSE [ok |-> TRUE, advance |-> hmtx.long[g + 1].advance, bearing |-> hmtx.long[g + 1].bearing]
          ELSE IF ~Safe(hmtx, 4 * N - 4, 4) \/ ~Safe(hmtx, 4 * N + 2 * (g - N), 2)
               THEN [ok |-> FALSE, advance |-> 0, bearing |-> 0]
               ELSE [ok |-> TRUE, advance |-> hmtx.long[N].advance, bearing |-> hmtx.short[g - N + 1]]
    BY <1>2 DEF HorMetrics
  <2> HIDE DEF hmtx, N
  <2>4. CASE g < N
    <3>1. hmtx.long[g + 1] \in R BY <2>2, <2>3, <2>4
    <3> QED BY <2>4, <2>6, <3>1 DEF R
  <2>5. CASE ~(g < N)
    <3>1. N \in 1..N BY <2>2
    <3>2. hmtx.long[N] \in R BY <2>3, <3>1
    <3>3. g - N + 1 \in 1..Len(hmtx.short) BY <2>1, <2>2, <2>5
    <3> DEFINE i == g - N + 1
    <3> HIDE DEF i
    <3>4. hmtx.short[i] \in Int BY <2>1, <3>3 DEF i
    <3> QED BY <2>5, <2>6, <3>2, <3>4 DEF R, i
  <2> QED BY <2>4, <2>5
<1> QED BY <1>1, <1>2

\* Where there is an outline, it is a glyph.
LEMMA OutlineThere ==
  ASSUME NEW face, NEW n \in Nat, IsFont(face, n), NEW g \in 0..(n - 1),
         OutlineOffset(face, g) \notin {Failure, NoOutline}
  PROVE /\ OutlineOffset(face, g) \in DOMAIN face.tables.glyf.at
        /\ IsGlyph(Outline(face, OutlineOffset(face, g)), n)
<1> DEFINE at == OutlineOffset(face, g)
<1>1. Has(face, "glyf")
  <2>1. ~Has(face, "glyf") => at = Failure BY DEF OutlineOffset
  <2> QED BY <2>1
<1>2. at \in {Failure, NoOutline} \/ at \in DOMAIN face.tables.glyf.at BY DEF IsFont
<1> HIDE DEF at
<1>3. at \in DOMAIN face.tables.glyf.at BY <1>2 DEF at
<1>4. IsGlyph(Outline(face, at), n) BY <1>1, <1>3 DEF IsFont
<1> QED BY <1>3, <1>4 DEF at

\* A box with an extent is as wide and as high as it is in the font, or more.
Boxes ==
  {b \in Seq(Int) : b # <<>> => Len(b) = 4 /\ b[1] < b[3] + 1 /\ b[2] < b[4] + 1}

LEMMA BoxSides ==
  ASSUME NEW b \in Boxes, b # <<>>
  PROVE b[1] \in Int /\ b[2] \in Int /\ b[3] \in Int /\ b[4] \in Int /\ b[1] < b[3] + 1 /\ b[2] < b[4] + 1
<1>1. b \in Seq(Int) /\ Len(b) = 4 BY DEF Boxes
<1>2. 1 \in 1..Len(b) /\ 2 \in 1..Len(b) /\ 3 \in 1..Len(b) /\ 4 \in 1..Len(b) BY <1>1
<1>3. \A i \in 1..Len(b) : b[i] \in Int BY <1>1
<1> QED BY <1>2, <1>3 DEF Boxes

LEMMA GlyphBoxType ==
  ASSUME NEW face, NEW n \in Nat, IsFont(face, n), Loads(face), NEW size \in Nat \ {0},
         NEW outline, IsGlyph(outline, n)
  PROVE GlyphBox(face, size, outline) \in Boxes
<1> DEFINE b == outline.box
           none == <<>>
           x == Floor(Scaled(face, size, b[1]))
           y == Floor(Scaled(face, size, b[2]))
           z == Ceil(Scaled(face, size, b[3]))
           w == Ceil(Scaled(face, size, b[4]))
<1>1. b[1] \in Int /\ b[2] \in Int /\ b[3] \in Int /\ b[4] \in Int BY DEF IsGlyph
<1>2. \/ GlyphBox(face, size, outline) = <<>>
      \/ GlyphBox(face, size, outline) = <<x, y, z, w>> /\ b[1] < b[3] /\ b[2] < b[4]
  <2>1. CASE ~Safe(outline, 0, 10) \/ b[3] <= b[1] \/ b[4] <= b[2] BY <2>1 DEF GlyphBox
  <2>2. CASE ~(~Safe(outline, 0, 10) \/ b[3] <= b[1] \/ b[4] <= b[2])
    <3>1. GlyphBox(face, size, outline) = <<x, y, z, w>> BY <2>2 DEF GlyphBox
    <3>2. b[1] < b[3] /\ b[2] < b[4] BY <1>1, <2>2
    <3> QED BY <3>1, <3>2
  <2> QED BY <2>1, <2>2
<1>3. ASSUME NEW lo \in Int, NEW hi \in Int, lo < hi
      PROVE LET f == Floor(Scaled(face, size, lo))  c == Ceil(Scaled(face, size, hi))
            IN f \in Int /\ c \in Int /\ f <= c
  <2>1. Scaled(face, size, lo) \in Int /\ Scaled(face, size, hi) \in Int
        /\ Scaled(face, size, lo) <= Scaled(face, size, hi)
    BY <1>3, ScaledGrows
  <2> QED BY <2>1, Floors, Ceils, FloorBelowCeil
<1>4. b[1] < b[3] => x \in Int /\ z \in Int /\ x <= z BY <1>1, <1>3
<1>5. b[2] < b[4] => y \in Int /\ w \in Int /\ y <= w BY <1>1, <1>3
<1> HIDE DEF x, y, z, w, b
<1>6. CASE GlyphBox(face, size, outline) = <<>> BY <1>6 DEF Boxes
<1>7. CASE GlyphBox(face, size, outline) = <<x, y, z, w>> /\ b[1] < b[3] /\ b[2] < b[4]
  <2> DEFINE q == <<x, y, z, w>>
  <2>1. q \in Seq(Int) /\ Len(q) = 4 /\ q[1] = x /\ q[2] = y /\ q[3] = z /\ q[4] = w BY <1>4, <1>5, <1>7
  <2> HIDE DEF q
  <2>2. q \in Boxes BY <1>4, <1>5, <1>7, <2>1 DEF Boxes
  <2> QED BY <1>7, <2>2 DEF q
<1> QED BY <1>2, <1>6, <1>7

\* sft_gmetrics: a font that was loaded has metrics for every glyph, of a size that is none or more.
LEMMA GMetricsType ==
  ASSUME NEW face, NEW n \in Nat, IsFont(face, n), Loads(face), NEW size \in Nat \ {0}, NEW g \in 0..(n - 1)
  PROVE GMetrics(face, size, g) \in Metrics
<1> DEFINE h == HorMetrics(face, g)
           o == OutlineOffset(face, g)
           b == GlyphBox(face, size, Outline(face, o))
           flat == [ok |-> h.ok, advance |-> Scaled(face, size, h.advance),
                    bearing |-> Scaled(face, size, h.bearing), width |-> 0, height |-> 0, up |-> 0]
<1>1. h \in [ok : BOOLEAN, advance : Int, bearing : Int] BY HorMetricsType
<1>2. Scaled(face, size, h.advance) \in Int /\ Scaled(face, size, h.bearing) \in Int
  <2>1. h.advance \in Int /\ h.bearing \in Int BY <1>1
  <2> HIDE DEF h
  <2> QED BY <2>1, ScaledGrows
<1>3. GMetrics(face, size, g) =
        IF ~h.ok \/ o = NoOutline THEN flat
        ELSE IF o = Failure \/ b = <<>> THEN [flat EXCEPT !.ok = FALSE]
        ELSE [flat EXCEPT !.width = b[3] - b[1] + 1, !.height = b[4] - b[2] + 1, !.up = -b[4]]
  BY DEF GMetrics
<1>4. o \notin {Failure, NoOutline} => b \in Boxes
  BY OutlineThere, GlyphBoxType
<1>5. flat \in Metrics
  <2>1. h.ok \in BOOLEAN BY <1>1
  <2> HIDE DEF h
  <2> QED BY <1>2, <2>1 DEF Metrics
<1> HIDE DEF flat, h, o, b
<1>6. CASE ~h.ok \/ o = NoOutline BY <1>3, <1>5, <1>6
<1>7. CASE ~(~h.ok \/ o = NoOutline) /\ (o = Failure \/ b = <<>>)
  <2>1. [flat EXCEPT !.ok = FALSE] \in Metrics BY <1>5 DEF Metrics
  <2> QED BY <1>3, <1>7, <2>1
<1>8. CASE ~(~h.ok \/ o = NoOutline) /\ ~(o = Failure \/ b = <<>>)
  <2>1. b \in Boxes /\ b # <<>> BY <1>4, <1>8
  <2>2. b[1] \in Int /\ b[2] \in Int /\ b[3] \in Int /\ b[4] \in Int /\ b[1] < b[3] + 1 /\ b[2] < b[4] + 1
    BY <2>1, BoxSides
  <2>3. b[3] - b[1] + 1 \in Nat /\ b[4] - b[2] + 1 \in Nat /\ -b[4] \in Int BY <2>2
  <2>4. ASSUME NEW w \in Nat, NEW t \in Nat, NEW u \in Int
        PROVE [flat EXCEPT !.width = w, !.height = t, !.up = u] \in Metrics
    BY <1>5 DEF Metrics
  <2>5. [flat EXCEPT !.width = b[3] - b[1] + 1, !.height = b[4] - b[2] + 1, !.up = -b[4]] \in Metrics
    BY <2>3, <2>4
  <2> QED BY <1>3, <1>8, <2>5
<1> QED BY <1>6, <1>7, <1>8

-----------------------------------------------------------------------------
(* Outlines *)

Curves == [beg : Nat, end : Nat, ctrl : Nat]
Lines == [beg : Nat, end : Nat]
Caps == [points : Nat, curves : Nat, lines : Nat]
Records == [ok : BOOLEAN, points : Seq(Points), curves : Seq(Curves), lines : Seq(Lines), cap : Caps]

\* Lines and curves between the first n points.
LinesIn(n) == [beg : 1..n, end : 1..n]
CurvesIn(n) == [beg : 1..n, end : 1..n, ctrl : 1..n]

LEMMA ShapeParts ==
  ASSUME NEW o \in Shapes
  PROVE /\ o \in Records
        /\ \A l \in 1..Len(o.lines) : o.lines[l] \in LinesIn(Len(o.points))
        /\ \A c \in 1..Len(o.curves) : o.curves[c] \in CurvesIn(Len(o.points))
<1>1. o \in Records BY DEF Shapes, Records, Curves, Lines, Caps
<1>2. ASSUME NEW l \in 1..Len(o.lines) PROVE o.lines[l] \in LinesIn(Len(o.points))
  <2>1. o.lines[l] \in Lines BY <1>1 DEF Records
  <2>2. o.lines[l].beg \in 1..Len(o.points) /\ o.lines[l].end \in 1..Len(o.points) BY DEF Shapes
  <2> QED BY <2>1, <2>2 DEF Lines, LinesIn
<1>3. ASSUME NEW c \in 1..Len(o.curves) PROVE o.curves[c] \in CurvesIn(Len(o.points))
  <2>1. o.curves[c] \in Curves BY <1>1 DEF Records
  <2>2. o.curves[c].beg \in 1..Len(o.points) /\ o.curves[c].end \in 1..Len(o.points) /\ o.curves[c].ctrl \in 1..Len(o.points)
    BY DEF Shapes
  <2> QED BY <2>1, <2>2 DEF Curves, CurvesIn
<1> QED BY <1>1, <1>2, <1>3

LEMMA ShapeMade ==
  ASSUME NEW o \in Records,
         \A l \in 1..Len(o.lines) : o.lines[l] \in LinesIn(Len(o.points)),
         \A c \in 1..Len(o.curves) : o.curves[c] \in CurvesIn(Len(o.points))
  PROVE o \in Shapes
<1>1. \A l \in 1..Len(o.lines) : {o.lines[l].beg, o.lines[l].end} \subseteq 1..Len(o.points)
  BY DEF LinesIn
<1>2. \A c \in 1..Len(o.curves) : {o.curves[c].beg, o.curves[c].end, o.curves[c].ctrl} \subseteq 1..Len(o.points)
  BY DEF CurvesIn
<1> QED BY <1>1, <1>2 DEF Shapes, Records, Curves, Lines, Caps

\* An outline whose points have room, which no array has without end; and what an outline
\* that is good keeps of the one it was made from.
Roomy(o) == Len(o.points) <= o.cap.points /\ 1 <= o.cap.points /\ o.cap.points <= 2 * (FirstCap + GrowLimit)
Kept(o, q) == q.ok => o.ok /\ (Roomy(o) => Roomy(q))

LEMMA BadShape ==
  ASSUME NEW o \in Shapes
  PROVE Bad(o) \in Shapes /\ Bad(o).points = o.points /\ ~Bad(o).ok
<1> DEFINE q == Bad(o)
<1>1. o \in Records BY ShapeParts
<1>2. q \in Records /\ q.points = o.points /\ q.lines = o.lines /\ q.curves = o.curves /\ ~q.ok
  BY <1>1 DEF Bad, Records
<1> HIDE DEF q
<1>3. q \in Shapes
  <2>1. \A l \in 1..Len(q.lines) : q.lines[l] \in LinesIn(Len(q.points)) BY <1>2, ShapeParts
  <2>2. \A c \in 1..Len(q.curves) : q.curves[c] \in CurvesIn(Len(q.points)) BY <1>2, ShapeParts
  <2> QED BY <1>2, <2>1, <2>2, ShapeMade
<1> QED BY <1>2, <1>3 DEF q

\* An array that grew holds what it held.
LEMMA GrowShape ==
  ASSUME NEW o \in Shapes, NEW array \in {"points", "curves", "lines"}
  PROVE /\ Grow(o, array) \in Shapes /\ Grow(o, array).points = o.points
        /\ Grow(o, array).lines = o.lines /\ Grow(o, array).curves = o.curves
        /\ Kept(o, Grow(o, array))
        /\ array # "points" => Grow(o, array).cap.points = o.cap.points
        /\ array = "points" /\ Grow(o, array).ok => Grow(o, array).cap.points = 2 * o.cap.points
<1> DEFINE q == [o EXCEPT !.cap[array] = 2 * @]
<1>1. o \in Records BY ShapeParts
<1>2. /\ q \in Records /\ q.points = o.points /\ q.lines = o.lines /\ q.curves = o.curves /\ q.ok = o.ok
      /\ q.cap.points = IF array = "points" THEN 2 * o.cap.points ELSE o.cap.points
  <2>1. o.cap \in Caps BY <1>1 DEF Records
  <2> DEFINE c == [o.cap EXCEPT ![array] = 2 * @]
  <2>2. c \in Caps /\ c.points = IF array = "points" THEN 2 * o.cap.points ELSE o.cap.points BY <2>1 DEF Caps
  <2>3. q = [o EXCEPT !.cap = c] BY <1>1 DEF Records
  <2> HIDE DEF c, q
  <2> QED BY <1>1, <2>2, <2>3 DEF Records
<1>3. Grow(o, array) = IF o.cap[array] > GrowLimit THEN Bad(o) ELSE q BY DEF Grow
<1> HIDE DEF q
<1>4. q \in Shapes
  <2>1. \A l \in 1..Len(q.lines) : q.lines[l] \in LinesIn(Len(q.points)) BY <1>2, ShapeParts
  <2>2. \A c \in 1..Len(q.curves) : q.curves[c] \in CurvesIn(Len(q.points)) BY <1>2, ShapeParts
  <2> QED BY <1>2, <2>1, <2>2, ShapeMade
<1>5. Bad(o).lines = o.lines /\ Bad(o).curves = o.curves /\ Bad(o).cap = o.cap BY <1>1 DEF Bad, Records
<1>6. CASE o.cap[array] > GrowLimit BY <1>3, <1>5, <1>6, BadShape DEF Kept
<1>7. CASE ~(o.cap[array] > GrowLimit)
  <2>1. o.cap \in Caps /\ Len(o.points) \in Nat BY <1>1 DEF Records
  <2>2. o.cap.points \in Nat /\ q.cap.points \in Nat BY <1>2, <2>1 DEF Caps, Records
  <2>3. FirstCap \in Nat /\ GrowLimit \in Nat BY OutlinesAssumption
  <2>4. array = "points" => ~(o.cap.points > GrowLimit) BY <1>7
  <2>5. Kept(o, q)
    <3> SUFFICES ASSUME q.ok, Roomy(o) PROVE Roomy(q) BY <1>2 DEF Kept
    <3>1. CASE array = "points" BY <1>2, <2>1, <2>2, <2>3, <2>4, <3>1 DEF Roomy
    <3>2. CASE array # "points" BY <1>2, <3>2 DEF Roomy
    <3> QED BY <3>1, <3>2
  <2> QED BY <1>2, <1>3, <1>4, <1>7, <2>5
<1> QED BY <1>6, <1>7

\* Outlines with n points or more.
Wide(n) == {o \in Shapes : n <= Len(o.points)}

\* A point at the end is one point more, unless there is no room for it.
LEMMA PushPoint ==
  ASSUME NEW o \in Shapes, NEW p \in Points
  PROVE LET q == Push(o, "points", p)
        IN /\ q \in Shapes /\ q.lines = o.lines /\ q.curves = o.curves
           /\ q.ok => o.ok /\ Len(q.points) = Len(o.points) + 1
           /\ ~q.ok => q.points = o.points
           /\ Kept(o, q)
<1> DEFINE roomy == IF Len(o["points"]) >= o.cap["points"] THEN Grow(o, "points") ELSE o
           q == [roomy EXCEPT !.points = Append(@, p)]
<1>1. /\ roomy \in Shapes /\ roomy.points = o.points /\ roomy.lines = o.lines /\ roomy.curves = o.curves
      /\ roomy.ok => o.ok /\ (Roomy(o) => Roomy(roomy))
  BY GrowShape DEF Kept
<1>a. roomy.ok /\ Roomy(o) => Len(o.points) + 1 <= roomy.cap.points
  <2> SUFFICES ASSUME roomy.ok, Roomy(o) PROVE Len(o.points) + 1 <= roomy.cap.points OBVIOUS
  <2>1. Len(o.points) \in Nat /\ o.cap.points \in Nat BY ShapeParts DEF Records, Caps
  <2>2. CASE Len(o.points) >= o.cap.points
    <3>1. roomy = Grow(o, "points") BY <2>2
    <3>2. roomy.cap.points = 2 * o.cap.points BY <3>1, GrowShape
    <3> HIDE DEF roomy
    <3> QED BY <2>1, <3>2 DEF Roomy
  <2>3. CASE ~(Len(o.points) >= o.cap.points)
    <3>1. roomy = o BY <2>3
    <3> HIDE DEF roomy
    <3> QED BY <2>1, <2>3, <3>1
  <2> QED BY <2>2, <2>3
<1>2. Push(o, "points", p) = IF o.ok /\ roomy.ok THEN q ELSE Bad(o) BY DEF Push
<1> HIDE DEF roomy
<1>3. roomy \in Records BY <1>1, ShapeParts
<1>4. /\ q \in Records /\ q.points = Append(roomy.points, p) /\ q.lines = roomy.lines /\ q.curves = roomy.curves
      /\ q.ok = roomy.ok /\ q.cap = roomy.cap
  <2> DEFINE a == Append(roomy.points, p)
  <2>1. roomy.points \in Seq(Points) BY <1>3 DEF Records
  <2>2. a \in Seq(Points) BY <2>1
  <2>3. q = [roomy EXCEPT !.points = a] OBVIOUS
  <2> HIDE DEF a, q
  <2>4. /\ q \in Records /\ q.points = a /\ q.lines = roomy.lines /\ q.curves = roomy.curves
        /\ q.ok = roomy.ok /\ q.cap = roomy.cap
    BY <1>3, <2>2, <2>3 DEF Records
  <2> QED BY <2>4 DEF a
<1> HIDE DEF q
<1>5. Len(q.points) = Len(o.points) + 1 /\ Len(o.points) \in Nat
  <2>1. roomy.points \in Seq(Points) BY <1>3 DEF Records
  <2> QED BY <1>1, <1>4, <2>1
<1>6. q \in Shapes
  <2>1. \A l \in 1..Len(q.lines) : q.lines[l] \in LinesIn(Len(q.points))
    <3>1. \A l \in 1..Len(q.lines) : q.lines[l] \in LinesIn(Len(o.points)) BY <1>1, <1>4, ShapeParts
    <3>2. LinesIn(Len(o.points)) \subseteq LinesIn(Len(q.points)) BY <1>5 DEF LinesIn
    <3> QED BY <3>1, <3>2
  <2>2. \A c \in 1..Len(q.curves) : q.curves[c] \in CurvesIn(Len(q.points))
    <3>1. \A c \in 1..Len(q.curves) : q.curves[c] \in CurvesIn(Len(o.points)) BY <1>1, <1>4, ShapeParts
    <3>2. CurvesIn(Len(o.points)) \subseteq CurvesIn(Len(q.points)) BY <1>5 DEF CurvesIn
    <3> QED BY <3>1, <3>2
  <2> QED BY <1>4, <2>1, <2>2, ShapeMade
<1>7. Bad(o).lines = o.lines /\ Bad(o).curves = o.curves BY ShapeParts DEF Bad, Records
<1>8. CASE o.ok /\ roomy.ok
  <2>1. Roomy(o) => Roomy(q) BY <1>1, <1>4, <1>5, <1>a, <1>8 DEF Roomy
  <2> QED BY <1>1, <1>2, <1>4, <1>5, <1>6, <1>8, <2>1 DEF Kept
<1>9. CASE ~(o.ok /\ roomy.ok) BY <1>2, <1>7, <1>9, BadShape DEF Kept
<1> QED BY <1>8, <1>9

\* A line at the end leaves the points alone.
LEMMA PushLine ==
  ASSUME NEW o \in Shapes, NEW e \in LinesIn(Len(o.points))
  PROVE LET q == Push(o, "lines", e)
        IN /\ q \in Shapes /\ q.points = o.points
           /\ q.ok => q.lines = Append(o.lines, e) /\ q.curves = o.curves
           /\ Kept(o, q)
<1> DEFINE roomy == IF Len(o["lines"]) >= o.cap["lines"] THEN Grow(o, "lines") ELSE o
           q == [roomy EXCEPT !.lines = Append(@, e)]
<1>1. /\ roomy \in Shapes /\ roomy.points = o.points /\ roomy.lines = o.lines /\ roomy.curves = o.curves
      /\ roomy.ok => o.ok /\ (Roomy(o) => Roomy(roomy))
  BY GrowShape DEF Kept
<1>2. Push(o, "lines", e) = IF o.ok /\ roomy.ok THEN q ELSE Bad(o) BY DEF Push
<1> HIDE DEF roomy
<1>3. roomy \in Records BY <1>1, ShapeParts
<1>4. e \in Lines
  <2>1. o.points \in Seq(Points) BY ShapeParts DEF Records
  <2>2. 1..Len(o.points) \subseteq Nat BY <2>1
  <2> QED BY <2>2 DEF Lines, LinesIn
<1>5. q \in Records /\ q.points = o.points /\ q.lines = Append(o.lines, e) /\ q.curves = o.curves /\ q.ok = roomy.ok /\ q.cap = roomy.cap
  <2> DEFINE a == Append(roomy.lines, e)
  <2>1. roomy.lines \in Seq(Lines) BY <1>3 DEF Records
  <2>2. a \in Seq(Lines) BY <1>4, <2>1
  <2>3. q = [roomy EXCEPT !.lines = a] OBVIOUS
  <2> HIDE DEF a, q
  <2>4. q \in Records /\ q.points = roomy.points /\ q.lines = a /\ q.curves = roomy.curves /\ q.ok = roomy.ok /\ q.cap = roomy.cap
    BY <1>3, <2>2, <2>3 DEF Records
  <2> QED BY <1>1, <2>4 DEF a
<1> HIDE DEF q
<1>6. q \in Shapes
  <2>1. ASSUME NEW l \in 1..Len(q.lines) PROVE q.lines[l] \in LinesIn(Len(q.points))
    <3>1. o.lines \in Seq(Lines) BY ShapeParts DEF Records
    <3>2. (l \in 1..Len(o.lines) /\ q.lines[l] = o.lines[l]) \/ q.lines[l] = e BY <1>4, <1>5, <3>1
    <3> QED BY <1>5, <3>2, ShapeParts
  <2>2. \A c \in 1..Len(q.curves) : q.curves[c] \in CurvesIn(Len(q.points)) BY <1>5, ShapeParts
  <2> QED BY <1>5, <2>1, <2>2, ShapeMade
<1>7. CASE o.ok /\ roomy.ok
  <2>1. Roomy(o) => Roomy(q) BY <1>1, <1>5, <1>7 DEF Roomy
  <2> QED BY <1>2, <1>5, <1>6, <1>7, <2>1 DEF Kept
<1>8. CASE ~(o.ok /\ roomy.ok) BY <1>2, <1>8, BadShape DEF Kept
<1> QED BY <1>7, <1>8

LEMMA PushCurve ==
  ASSUME NEW o \in Shapes, NEW e \in CurvesIn(Len(o.points))
  PROVE LET q == Push(o, "curves", e)
        IN /\ q \in Shapes /\ q.points = o.points
           /\ q.ok => q.curves = Append(o.curves, e) /\ q.lines = o.lines
           /\ Kept(o, q)
<1> DEFINE roomy == IF Len(o["curves"]) >= o.cap["curves"] THEN Grow(o, "curves") ELSE o
           q == [roomy EXCEPT !.curves = Append(@, e)]
<1>1. /\ roomy \in Shapes /\ roomy.points = o.points /\ roomy.lines = o.lines /\ roomy.curves = o.curves
      /\ roomy.ok => o.ok /\ (Roomy(o) => Roomy(roomy))
  BY GrowShape DEF Kept
<1>2. Push(o, "curves", e) = IF o.ok /\ roomy.ok THEN q ELSE Bad(o) BY DEF Push
<1> HIDE DEF roomy
<1>3. roomy \in Records BY <1>1, ShapeParts
<1>4. e \in Curves
  <2>1. o.points \in Seq(Points) BY ShapeParts DEF Records
  <2>2. 1..Len(o.points) \subseteq Nat BY <2>1
  <2> QED BY <2>2 DEF Curves, CurvesIn
<1>5. q \in Records /\ q.points = o.points /\ q.curves = Append(o.curves, e) /\ q.lines = o.lines /\ q.ok = roomy.ok /\ q.cap = roomy.cap
  <2> DEFINE a == Append(roomy.curves, e)
  <2>1. roomy.curves \in Seq(Curves) BY <1>3 DEF Records
  <2>2. a \in Seq(Curves) BY <1>4, <2>1
  <2>3. q = [roomy EXCEPT !.curves = a] OBVIOUS
  <2> HIDE DEF a, q
  <2>4. q \in Records /\ q.points = roomy.points /\ q.curves = a /\ q.lines = roomy.lines /\ q.ok = roomy.ok /\ q.cap = roomy.cap
    BY <1>3, <2>2, <2>3 DEF Records
  <2> QED BY <1>1, <2>4 DEF a
<1> HIDE DEF q
<1>6. q \in Shapes
  <2>1. ASSUME NEW l \in 1..Len(q.curves) PROVE q.curves[l] \in CurvesIn(Len(q.points))
    <3>1. o.curves \in Seq(Curves) BY ShapeParts DEF Records
    <3>2. (l \in 1..Len(o.curves) /\ q.curves[l] = o.curves[l]) \/ q.curves[l] = e BY <1>4, <1>5, <3>1
    <3> QED BY <1>5, <3>2, ShapeParts
  <2>2. \A c \in 1..Len(q.lines) : q.lines[c] \in LinesIn(Len(q.points)) BY <1>5, ShapeParts
  <2> QED BY <1>5, <2>1, <2>2, ShapeMade
<1>7. CASE o.ok /\ roomy.ok
  <2>1. Roomy(o) => Roomy(q) BY <1>1, <1>5, <1>7 DEF Roomy
  <2> QED BY <1>2, <1>5, <1>6, <1>7, <2>1 DEF Kept
<1>8. CASE ~(o.ok /\ roomy.ok) BY <1>2, <1>8, BadShape DEF Kept
<1> QED BY <1>7, <1>8

-----------------------------------------------------------------------------
(* Lines and curves at a point *)

Here(p, i) == IF p = i THEN 1 ELSE 0

\* Lines or curves with a side at a point, and how many more begin there than end there.
Touching(edges, side, i) == {k \in DOMAIN edges : edges[k][side] = i}
Excess(edges, i) == Cardinality(Touching(edges, "beg", i)) - Cardinality(Touching(edges, "end", i))
Degree(o, i) == Excess(o.lines, i) + Excess(o.curves, i)

\* Loops that are closed in an outline are so in one made of it.
Tied(o, q) == Kept(o, q) /\ (q.ok => \A i \in Nat : Degree(q, i) = Degree(o, i))

LEMMA TouchingAppend ==
  ASSUME NEW S, NEW edges \in Seq(S), NEW e \in S, NEW side, NEW i
  PROVE /\ Cardinality(Touching(edges, side, i)) \in Nat
        /\ Cardinality(Touching(Append(edges, e), side, i)) = Cardinality(Touching(edges, side, i)) + Here(e[side], i)
<1> DEFINE n == Len(edges)
           a == Append(edges, e)
           T == Touching(edges, side, i)
<1>1. n \in Nat /\ DOMAIN edges = 1..n OBVIOUS
<1>2. DOMAIN a = 1..(n + 1) /\ a[n + 1] = e /\ \A k \in 1..n : a[k] = edges[k] OBVIOUS
<1> HIDE DEF n, a
<1>3. T \subseteq 1..n /\ n + 1 \notin T BY <1>1 DEF Touching
<1>4. IsFiniteSet(T)
  <2>1. IsFiniteSet(1..n) BY <1>1, FS_Interval
  <2> HIDE DEF T
  <2> QED BY <1>3, <2>1, FS_Subset
<1>5. Touching(a, side, i) = IF e[side] = i THEN T \cup {n + 1} ELSE T BY <1>1, <1>2 DEF Touching
<1> HIDE DEF T
<1>6. Cardinality(T) \in Nat BY <1>4, FS_CardinalityType
<1>7. Cardinality(T \cup {n + 1}) = Cardinality(T) + 1 BY <1>3, <1>4, FS_AddElement
<1> QED BY <1>5, <1>6, <1>7 DEF a, T, Here

LEMMA ExcessAppend ==
  ASSUME NEW S, NEW edges \in Seq(S), NEW e \in S, NEW i
  PROVE /\ Excess(edges, i) \in Int
        /\ Excess(Append(edges, e), i) = Excess(edges, i) + Here(e.beg, i) - Here(e.end, i)
<1> DEFINE B(q) == Cardinality(Touching(q, "beg", i))
           E(q) == Cardinality(Touching(q, "end", i))
<1>1. B(edges) \in Nat /\ B(Append(edges, e)) = B(edges) + Here(e.beg, i) BY TouchingAppend
<1>2. E(edges) \in Nat /\ E(Append(edges, e)) = E(edges) + Here(e.end, i) BY TouchingAppend
<1>3. Here(e.beg, i) \in Nat /\ Here(e.end, i) \in Nat BY DEF Here
<1>4. Excess(edges, i) = B(edges) - E(edges) /\ Excess(Append(edges, e), i) = B(Append(edges, e)) - E(Append(edges, e))
  BY DEF Excess
<1> HIDE DEF B, E
<1> QED BY <1>1, <1>2, <1>3, <1>4

LEMMA ExcessEmpty ==
  ASSUME NEW i PROVE Excess(<<>>, i) = 0
<1>1. Touching(<<>>, "beg", i) = {} /\ Touching(<<>>, "end", i) = {} BY DEF Touching
<1>2. Cardinality({}) = 0 BY FS_EmptySet
<1> QED BY <1>1, <1>2 DEF Excess

LEMMA DegreeType ==
  ASSUME NEW o \in Shapes, NEW i
  PROVE Excess(o.lines, i) \in Int /\ Excess(o.curves, i) \in Int /\ Degree(o, i) \in Int
<1>1. o.lines \in Seq(Lines) /\ o.curves \in Seq(Curves) BY ShapeParts DEF Records
<1>2. [beg |-> 0, end |-> 0] \in Lines /\ [beg |-> 0, end |-> 0, ctrl |-> 0] \in Curves BY DEF Lines, Curves
<1>3. Excess(o.lines, i) \in Int /\ Excess(o.curves, i) \in Int BY <1>1, <1>2, ExcessAppend
<1> QED BY <1>3 DEF Degree

LEMMA TiedOn ==
  ASSUME NEW o, NEW q, NEW u, Tied(o, q), Tied(q, u)
  PROVE Tied(o, u)
BY DEF Tied, Kept

LEMMA TiedBad ==
  ASSUME NEW o, NEW q \in Shapes PROVE Tied(o, Bad(q))
BY BadShape DEF Tied, Kept

\* The same lines and curves.
LEMMA TiedSame ==
  ASSUME NEW o, NEW q, q.lines = o.lines, q.curves = o.curves, Kept(o, q)
  PROVE Tied(o, q)
BY DEF Tied, Degree

-----------------------------------------------------------------------------
(* Moving points, and room for more *)

LEMMA MidpointType ==
  ASSUME NEW a \in Points, NEW b \in Points
  PROVE Midpoint(a, b) \in Points
BY DEF Midpoint, Points

LEMMA NewShape == NewOutline \in Shapes /\ Roomy(NewOutline) /\ \A i \in Nat : Degree(NewOutline, i) = 0
<1>1. FirstCap \in Nat BY OutlinesAssumption
<1>2. NewOutline \in Records BY <1>1 DEF NewOutline, Records, Caps
<1>3. NewOutline.lines = <<>> /\ NewOutline.curves = <<>> BY DEF NewOutline
<1>4. Roomy(NewOutline) BY OutlinesAssumption DEF NewOutline, Roomy
<1>5. \A i \in Nat : Degree(NewOutline, i) = 0 BY <1>3, ExcessEmpty DEF Degree
<1> QED BY <1>2, <1>3, <1>4, <1>5, ShapeMade

\* A transformation keeps the number of points.
LEMMA TransformShape ==
  ASSUME NEW o \in Shapes, NEW from \in Int,
         NEW m \in [one : Nat \ {0}, xx : Int, xy : Int, yx : Int, yy : Int, dx : Int, dy : Int]
  PROVE /\ TransformPoints(o, from, m) \in Shapes
        /\ Len(TransformPoints(o, from, m).points) = Len(o.points)
        /\ TransformPoints(o, from, m).ok = o.ok
        /\ Tied(o, TransformPoints(o, from, m))
<1> DEFINE q == TransformPoints(o, from, m)
           P == [i \in DOMAIN o.points |->
                   IF i <= from THEN o.points[i]
                   ELSE [x |-> (o.points[i].x * m.xx + o.points[i].y * m.yx) \div m.one + m.dx,
                         y |-> (o.points[i].x * m.xy + o.points[i].y * m.yy) \div m.one + m.dy]]
<1>1. o \in Records BY ShapeParts
<1>2. o.points \in Seq(Points) BY <1>1 DEF Records
<1>3. q = [o EXCEPT !.points = P] BY DEF TransformPoints
<1>4. ASSUME NEW p \in Points
      PROVE [x |-> (p.x * m.xx + p.y * m.yx) \div m.one + m.dx,
             y |-> (p.x * m.xy + p.y * m.yy) \div m.one + m.dy] \in Points
  <2>1. p.x \in Int /\ p.y \in Int BY DEF Points
  <2>2. p.x * m.xx + p.y * m.yx \in Int /\ p.x * m.xy + p.y * m.yy \in Int BY <2>1
  <2>3. m.one \in Nat \ {0} /\ m.dx \in Int /\ m.dy \in Int OBVIOUS
  <2>4. (p.x * m.xx + p.y * m.yx) \div m.one \in Int /\ (p.x * m.xy + p.y * m.yy) \div m.one \in Int
    BY <2>2, <2>3, Division
  <2> QED BY <2>3, <2>4 DEF Points
<1>5. P \in [1..Len(o.points) -> Points]
  <2>1. DOMAIN o.points = 1..Len(o.points) /\ \A i \in 1..Len(o.points) : o.points[i] \in Points BY <1>2
  <2> QED BY <1>4, <2>1
<1> HIDE DEF P, q
<1>6. P \in Seq(Points) /\ Len(P) = Len(o.points)
  <2>1. Len(o.points) \in Nat BY <1>2
  <2> QED BY <1>5, <2>1
<1>7. q \in Records /\ q.points = P /\ q.lines = o.lines /\ q.curves = o.curves /\ q.ok = o.ok /\ q.cap = o.cap
  BY <1>1, <1>3, <1>6 DEF Records
<1>8. \A l \in 1..Len(q.lines) : q.lines[l] \in LinesIn(Len(q.points)) BY <1>6, <1>7, ShapeParts
<1>9. \A c \in 1..Len(q.curves) : q.curves[c] \in CurvesIn(Len(q.points)) BY <1>6, <1>7, ShapeParts
<1>10. q \in Shapes BY <1>7, <1>8, <1>9, ShapeMade
<1>11. Tied(o, q) BY <1>6, <1>7, TiedSame DEF Kept, Roomy
<1> QED BY <1>6, <1>7, <1>10, <1>11 DEF q

\* What Fit returns has the points it had.
LEMMA FitShape ==
  ASSUME NEW o \in Shapes, NEW m \in Nat
  PROVE /\ Fit(o, m) \in Shapes /\ Fit(o, m).points = o.points
        /\ Fit(o, m).lines = o.lines /\ Fit(o, m).curves = o.curves /\ Kept(o, Fit(o, m))
        /\ Fit(o, m).ok /\ Roomy(o) => m <= Fit(o, m).cap.points
<1> DEFINE X == {s \in Shapes : s.points = o.points /\ s.lines = o.lines /\ s.curves = o.curves /\ Kept(o, s)}
           Fits(s, k) == s.ok /\ Roomy(o) => m <= s.cap.points \/ k < s.cap.points
           n == m
           base == o
           Step(s, k) == IF s.ok /\ m > s.cap.points THEN Grow(s, "points") ELSE s
           turn == [k \in 1..n |-> [s \in X |-> Step(s, k)]]
           Run(f) == f = [k \in 0..n |-> IF k = 0 THEN base ELSE Step(f[k - 1], k)]
           End == CHOOSE f : Run(f)
<1>1. n \in Nat OBVIOUS
<1>2. base \in X /\ Fits(base, 0) BY ShapeParts DEF Kept, Roomy, Records, Caps
<1>3. ASSUME NEW k \in 1..n, NEW s \in X PROVE Step(s, k) \in X /\ (Fits(s, k - 1) => Fits(Step(s, k), k))
  <2> DEFINE q == Grow(s, "points")
  <2>1. s.cap.points \in Nat /\ s \in Shapes BY ShapeParts DEF Records, Caps
  <2>2. /\ q \in Shapes /\ q.points = s.points /\ q.lines = s.lines /\ q.curves = s.curves /\ Kept(s, q)
        /\ q.ok => q.cap.points = 2 * s.cap.points
    BY <2>1, GrowShape
  <2> HIDE DEF q
  <2>3. CASE s.ok /\ m > s.cap.points
    <3>1. Step(s, k) = q BY <2>3 DEF q
    <3>2. q \in X BY <2>2 DEF Kept
    <3>3. ASSUME Fits(s, k - 1), q.ok, Roomy(o) PROVE k < q.cap.points
      <4>1. k - 1 < s.cap.points BY <2>1, <2>3, <3>3
      <4>2. q.cap.points = 2 * s.cap.points BY <2>2, <3>3
      <4>3. k \in Nat /\ k - 1 \in Nat OBVIOUS
      <4> HIDE DEF n
      <4> QED BY <2>1, <4>1, <4>2, <4>3
    <3> HIDE DEF Step
    <3> QED BY <3>1, <3>2, <3>3
  <2>4. CASE ~(s.ok /\ m > s.cap.points)
    <3>1. Step(s, k) = s BY <2>4
    <3>2. Fits(s, k) BY <2>1, <2>4
    <3> HIDE DEF Step, Fits
    <3> QED BY <3>1, <3>2
  <2> QED BY <2>3, <2>4
<1>4. Fit(o, m) = End[n] BY DEF Fit
<1> HIDE DEF n, X, base, Step, Fits
<1>5. \A k \in 1..n, s \in X : turn[k][s] = Step(s, k) OBVIOUS
<1> HIDE DEF turn
<1>6. Turns(X, n, turn) BY <1>3, <1>5 DEF Turns
<1>7. PICK h : Turned(X, base, n, turn, h) BY <1>1, <1>2, <1>6, Loop
<1>8. Run(h)
  <2>1. ASSUME NEW k \in 1..n PROVE h[k] = Step(h[k - 1], k)
    <3>1. k - 1 \in 0..n BY <1>1
    <3> QED BY <1>5, <1>7, <3>1 DEF Turned
  <2>2. \A k \in 0..n : k # 0 => k \in 1..n BY <1>1
  <2> QED BY <1>7, <2>1, <2>2 DEF Turned
<1>9. Run(End) BY <1>8
<1> HIDE DEF End
<1>10. End[0] = base BY <1>1, <1>9
<1>11. \A k \in 1..n : End[k] = Step(End[k - 1], k) BY <1>1, <1>9
<1> DEFINE T == {k \in 0..n : End[k] \in X /\ Fits(End[k], k)}
<1>12. 0 \in T BY <1>1, <1>2, <1>10
<1>13. \A k \in 1..n : k - 1 \in T => k \in T BY <1>1, <1>3, <1>11
<1> HIDE DEF T
<1>14. \A k \in 0..n : k \in T BY <1>1, <1>12, <1>13, LoopStays
<1>15. End[n] \in X /\ Fits(End[n], n) BY <1>1, <1>14 DEF T
<1>16. m < End[n].cap.points => m <= End[n].cap.points
  <2>1. End[n] \in Shapes BY <1>15 DEF X
  <2>2. End[n].cap.points \in Nat BY <2>1, ShapeParts DEF Records, Caps
  <2> QED BY <2>2
<1> QED BY <1>4, <1>15, <1>16 DEF X, Fits, n

-----------------------------------------------------------------------------
(* Simple outlines *)

\* The flags of the points of an outline: as many as there are points, or none.
LEMMA SimpleFlagsType ==
  ASSUME NEW g, g.flags \in Seq(Flags), NEW m \in Nat
  PROVE \/ SimpleFlags(g, m) = <<>>
        \/ (SimpleFlags(g, m) \in Seq(Flags) /\ Len(SimpleFlags(g, m)) = m)
<1> DEFINE X == Seq(Flags)
           n == Len(g.flags)
           base == <<>>
           Step(s, k) == s \o [j \in 1..(g.flags[k].repeat + 1) |-> g.flags[k]]
           turn == [k \in 1..n |-> [s \in X |-> Step(s, k)]]
           Run(f) == f = [k \in 0..n |-> IF k = 0 THEN base ELSE Step(f[k - 1], k)]
           End == CHOOSE f : Run(f)
<1>1. n \in Nat OBVIOUS
<1>2. base \in X OBVIOUS
<1>3. ASSUME NEW k \in 1..n, NEW s \in X PROVE Step(s, k) \in X
  <2> DEFINE f == g.flags[k]
             more == [j \in 1..(f.repeat + 1) |-> f]
  <2>1. f \in Flags OBVIOUS
  <2>2. f.repeat + 1 \in Nat BY <2>1 DEF Flags
  <2> HIDE DEF f
  <2>3. more \in Seq(Flags) BY <2>1, <2>2
  <2> HIDE DEF more
  <2>4. s \o more \in Seq(Flags) BY <2>3
  <2> QED BY <2>4 DEF more, f
<1>4. SimpleFlags(g, m) = IF Len(End[n]) < m THEN <<>> ELSE SubSeq(End[n], 1, m) BY DEF SimpleFlags
<1> HIDE DEF n, X, base, Step
<1>5. \A k \in 1..n, s \in X : turn[k][s] = Step(s, k) OBVIOUS
<1> HIDE DEF turn
<1>6. Turns(X, n, turn) BY <1>3, <1>5 DEF Turns
<1>7. PICK h : Turned(X, base, n, turn, h) BY <1>1, <1>2, <1>6, Loop
<1>8. Run(h)
  <2>1. ASSUME NEW k \in 1..n PROVE h[k] = Step(h[k - 1], k)
    <3>1. k - 1 \in 0..n BY <1>1
    <3> QED BY <1>5, <1>7, <3>1 DEF Turned
  <2>2. \A k \in 0..n : k # 0 => k \in 1..n BY <1>1
  <2> QED BY <1>7, <2>1, <2>2 DEF Turned
<1>9. Run(End) BY <1>8
<1> HIDE DEF End
<1>10. End[0] = base BY <1>1, <1>9
<1>11. \A k \in 1..n : End[k] = Step(End[k - 1], k) BY <1>1, <1>9
<1> DEFINE T == {k \in 0..n : End[k] \in X}
<1>12. 0 \in T BY <1>1, <1>2, <1>10
<1>13. \A k \in 1..n : k - 1 \in T => k \in T BY <1>1, <1>3, <1>11
<1> HIDE DEF T
<1>14. \A k \in 0..n : k \in T BY <1>1, <1>12, <1>13, LoopStays
<1>15. End[n] \in X BY <1>1, <1>14 DEF T
<1> DEFINE all == End[n]
<1>16. all \in Seq(Flags) BY <1>15 DEF X
<1> HIDE DEF all
<1>17. CASE Len(all) < m BY <1>4, <1>17 DEF all
<1>18. CASE ~(Len(all) < m)
  <2>1. m <= Len(all) /\ Len(all) \in Nat BY <1>16, <1>18
  <2>2. SubSeq(all, 1, m) \in Seq(Flags) /\ Len(SubSeq(all, 1, m)) = m
    BY <1>16, <2>1, SubSeqProperties
  <2> QED BY <1>4, <1>18, <2>2 DEF all
<1> QED BY <1>17, <1>18

\* The points of an outline: one for every flag, or none.
LEMMA SimplePointsType ==
  ASSUME NEW g, g.coords \in Seq(Int), NEW flags \in Seq(Flags)
  PROVE \/ SimplePoints(g, flags) = <<>>
        \/ (SimplePoints(g, flags) \in Seq(Points) /\ Len(SimplePoints(g, flags)) = Len(flags))
<1> DEFINE Read(axis, i) == {j \in 1..i : flags[j][axis] # "same"}
           Reads(axis, i) == Cardinality(Read(axis, i))
           Change(axis, skip, i) ==
             LET c == g.coords[skip + Reads(axis, i)]
             IN CASE flags[i][axis] = "same" -> 0
                  [] flags[i][axis] = "minus" -> -c
                  [] flags[i][axis] \in {"plus", "word"} -> c
           skipped == Reads("x", Len(flags))
           Short == Len(g.coords) < Reads("x", Len(flags)) + Reads("y", Len(flags))
<1> USE DEF Points
<1>a. ASSUME NEW axis \in {"x", "y"}, NEW i \in 0..Len(flags)
      PROVE /\ Reads(axis, i) \in Nat
            /\ Reads(axis, i) <= Reads(axis, Len(flags))
            /\ i # 0 /\ flags[i][axis] # "same" => Reads(axis, i) # 0
  <2>1. Read(axis, i) \subseteq Read(axis, Len(flags)) /\ Read(axis, Len(flags)) \subseteq 1..Len(flags) OBVIOUS
  <2>2. IsFiniteSet(1..Len(flags)) BY FS_Interval
  <2>3. i # 0 /\ flags[i][axis] # "same" => i \in Read(axis, i) OBVIOUS
  <2> HIDE DEF Read
  <2>4. IsFiniteSet(Read(axis, Len(flags))) BY <2>1, <2>2, FS_Subset
  <2>5. IsFiniteSet(Read(axis, i)) /\ Reads(axis, i) <= Reads(axis, Len(flags)) BY <2>1, <2>4, FS_Subset
  <2>6. Reads(axis, i) \in Nat BY <2>5, FS_CardinalityType
  <2>7. Reads(axis, i) = 0 => Read(axis, i) = {} BY <2>5, FS_EmptySet
  <2> QED BY <2>3, <2>5, <2>6, <2>7
<1>b. ASSUME NEW axis \in {"x", "y"}, NEW i \in 1..Len(flags)
      PROVE flags[i][axis] \in {"same", "minus", "plus", "word"}
  <2>1. flags[i] \in Flags OBVIOUS
  <2> QED BY <2>1 DEF Flags
<1> HIDE DEF Read
<1>c. ASSUME NEW axis \in {"x", "y"}, NEW i \in 1..Len(flags), NEW skip \in Nat,
             skip + Reads(axis, Len(flags)) <= Len(g.coords)
      PROVE Change(axis, skip, i) \in Int
  <2> DEFINE r == Reads(axis, i)
             all == Reads(axis, Len(flags))
             c == g.coords[skip + r]
             f == flags[i][axis]
  <2>1. f \in {"same", "minus", "plus", "word"} BY <1>b
  <2>2. i \in 0..Len(flags) /\ Len(flags) \in 0..Len(flags) /\ i # 0 OBVIOUS
  <2>3. r \in Nat /\ all \in Nat /\ r <= all BY <1>a, <2>2
  <2>4. f # "same" => r # 0 BY <1>a, <2>2
  <2> HIDE DEF r, all
  <2>5. f # "same" => c \in Int
    <3>1. f # "same" => skip + r \in 1..Len(g.coords) BY <1>c, <2>3, <2>4 DEF all
    <3> QED BY <3>1
  <2>6. Change(axis, skip, i) = CASE f = "same" -> 0 [] f = "minus" -> -c [] f \in {"plus", "word"} -> c BY DEF r
  <2> HIDE DEF Change, c, f
  <2>7. CASE f = "same" BY <2>6, <2>7
  <2>8. CASE f = "minus" BY <2>5, <2>6, <2>8
  <2>9. CASE f \in {"plus", "word"} BY <2>5, <2>6, <2>9
  <2> QED BY <2>1, <2>7, <2>8, <2>9
<1> HIDE DEF Reads, Change, Short
<1>d. CASE Short BY <1>d DEF SimplePoints, Short, Reads, Read
<1>e. SUFFICES ASSUME ~Short
               PROVE SimplePoints(g, flags) \in Seq(Points) /\ Len(SimplePoints(g, flags)) = Len(flags)
  BY <1>d
<1>f. Reads("x", Len(flags)) \in Nat /\ Reads("y", Len(flags)) \in Nat /\ Len(g.coords) \in Nat
  <2>1. Len(flags) \in 0..Len(flags) OBVIOUS
  <2> QED BY <1>a, <2>1
<1> DEFINE X == Points
           n == Len(flags)
           base == [x |-> 0, y |-> 0]
           Step(s, k) == [x |-> s.x + Change("x", 0, k), y |-> s.y + Change("y", skipped, k)]
           turn == [k \in 1..n |-> [s \in X |-> Step(s, k)]]
           Run(f) == f = [k \in 0..n |-> IF k = 0 THEN base ELSE Step(f[k - 1], k)]
           End == CHOOSE f : Run(f)
<1>1. n \in Nat OBVIOUS
<1>2. base \in X OBVIOUS
<1>3. ASSUME NEW k \in 1..n, NEW s \in X PROVE Step(s, k) \in X
  <2>1. 0 + Reads("x", Len(flags)) <= Len(g.coords) BY <1>e, <1>f DEF Short
  <2>2. skipped + Reads("y", Len(flags)) <= Len(g.coords) BY <1>e, <1>f DEF Short
  <2>3. Change("x", 0, k) \in Int BY <1>c, <2>1
  <2>4. Change("y", skipped, k) \in Int BY <1>c, <1>f, <2>2
  <2> QED BY <2>3, <2>4
<1>4. SimplePoints(g, flags) = [i \in 1..n |-> End[i]] BY <1>e DEF SimplePoints, Short, Reads, Read, Change
<1> HIDE DEF n, X, base, Step
<1>5. \A k \in 1..n, s \in X : turn[k][s] = Step(s, k) OBVIOUS
<1> HIDE DEF turn
<1>6. Turns(X, n, turn) BY <1>3, <1>5 DEF Turns
<1>7. PICK h : Turned(X, base, n, turn, h) BY <1>1, <1>2, <1>6, Loop
<1>8. Run(h)
  <2>1. ASSUME NEW k \in 1..n PROVE h[k] = Step(h[k - 1], k)
    <3>1. k - 1 \in 0..n BY <1>1
    <3> QED BY <1>5, <1>7, <3>1 DEF Turned
  <2>2. \A k \in 0..n : k # 0 => k \in 1..n BY <1>1
  <2> QED BY <1>7, <2>1, <2>2 DEF Turned
<1>9. Run(End) BY <1>8
<1> HIDE DEF End
<1>10. End[0] = base BY <1>1, <1>9
<1>11. \A k \in 1..n : End[k] = Step(End[k - 1], k) BY <1>1, <1>9
<1> DEFINE T == {k \in 0..n : End[k] \in X}
<1>12. 0 \in T BY <1>1, <1>2, <1>10
<1>13. \A k \in 1..n : k - 1 \in T => k \in T BY <1>1, <1>3, <1>11
<1> HIDE DEF T
<1>14. \A k \in 0..n : k \in T BY <1>1, <1>12, <1>13, LoopStays
<1>15. End[n] \in X BY <1>1, <1>14 DEF T
<1>16. \A k \in 1..n : End[k] \in Points BY <1>1, <1>14 DEF T, X
<1> QED BY <1>1, <1>4, <1>16 DEF n

-----------------------------------------------------------------------------
(* Contours *)

\* A line or a curve between points an outline has.
LEMMA JoinShape ==
  ASSUME NEW o \in Shapes, NEW beg \in 1..Len(o.points), NEW ctrl \in 0..Len(o.points), NEW end \in 1..Len(o.points)
  PROVE LET q == IF ctrl = 0 THEN Push(o, "lines", [beg |-> beg, end |-> end])
                 ELSE Push(o, "curves", [beg |-> beg, end |-> end, ctrl |-> ctrl])
        IN /\ q \in Shapes /\ q.points = o.points /\ Kept(o, q)
           /\ q.ok => \A i \in Nat : Degree(q, i) = Degree(o, i) + Here(beg, i) - Here(end, i)
<1>a. o.lines \in Seq(Lines) /\ o.curves \in Seq(Curves) /\ Len(o.points) \in Nat BY ShapeParts DEF Records
<1>b. \A i \in Nat : /\ Excess(o.lines, i) \in Int /\ Excess(o.curves, i) \in Int
                     /\ Here(beg, i) \in Int /\ Here(end, i) \in Int
  BY DegreeType DEF Here
<1>1. CASE ctrl = 0
  <2> DEFINE e == [beg |-> beg, end |-> end]
             q == Push(o, "lines", e)
  <2>1. e \in LinesIn(Len(o.points)) /\ e \in Lines BY <1>a DEF LinesIn, Lines
  <2>2. e.beg = beg /\ e.end = end OBVIOUS
  <2> HIDE DEF e
  <2>3. q \in Shapes /\ q.points = o.points /\ Kept(o, q) /\ (q.ok => q.lines = Append(o.lines, e) /\ q.curves = o.curves)
    BY <2>1, PushLine
  <2> HIDE DEF q
  <2>4. ASSUME q.ok, NEW i \in Nat PROVE Degree(q, i) = Degree(o, i) + Here(beg, i) - Here(end, i)
    <3>1. Excess(Append(o.lines, e), i) = Excess(o.lines, i) + Here(beg, i) - Here(end, i)
      BY <1>a, <2>1, <2>2, ExcessAppend
    <3>2. q.lines = Append(o.lines, e) /\ q.curves = o.curves BY <2>3, <2>4
    <3>3. /\ Degree(q, i) = Excess(q.lines, i) + Excess(q.curves, i)
          /\ Degree(o, i) = Excess(o.lines, i) + Excess(o.curves, i)
      BY DEF Degree
    <3>4. Excess(o.lines, i) \in Int /\ Excess(o.curves, i) \in Int /\ Here(beg, i) \in Int /\ Here(end, i) \in Int BY <1>b
    <3> QED BY <3>1, <3>2, <3>3, <3>4
  <2> QED BY <1>1, <2>3, <2>4 DEF q, e
<1>2. CASE ctrl # 0
  <2> DEFINE e == [beg |-> beg, end |-> end, ctrl |-> ctrl]
             q == Push(o, "curves", e)
  <2>1. e \in CurvesIn(Len(o.points)) /\ e \in Curves BY <1>2, <1>a DEF CurvesIn, Curves
  <2>2. e.beg = beg /\ e.end = end OBVIOUS
  <2> HIDE DEF e
  <2>3. q \in Shapes /\ q.points = o.points /\ Kept(o, q) /\ (q.ok => q.curves = Append(o.curves, e) /\ q.lines = o.lines)
    BY <2>1, PushCurve
  <2> HIDE DEF q
  <2>4. ASSUME q.ok, NEW i \in Nat PROVE Degree(q, i) = Degree(o, i) + Here(beg, i) - Here(end, i)
    <3>1. Excess(Append(o.curves, e), i) = Excess(o.curves, i) + Here(beg, i) - Here(end, i)
      BY <1>a, <2>1, <2>2, ExcessAppend
    <3>2. q.curves = Append(o.curves, e) /\ q.lines = o.lines BY <2>3, <2>4
    <3>3. /\ Degree(q, i) = Excess(q.lines, i) + Excess(q.curves, i)
          /\ Degree(o, i) = Excess(o.lines, i) + Excess(o.curves, i)
      BY DEF Degree
    <3>4. Excess(o.lines, i) \in Int /\ Excess(o.curves, i) \in Int /\ Here(beg, i) \in Int /\ Here(end, i) \in Int BY <1>b
    <3> QED BY <3>1, <3>2, <3>3, <3>4
  <2> QED BY <1>2, <2>3, <2>4 DEF q, e
<1> QED BY <1>1, <1>2

\* A point halfway between two: the last point is one an outline has, whether there is room or not.
LEMMA HalfwayShape ==
  ASSUME NEW o \in Shapes, NEW i \in 1..Len(o.points), NEW j \in 1..Len(o.points)
  PROVE LET q == Push(o, "points", Midpoint(o.points[i], o.points[j]))
        IN /\ q \in Shapes /\ Len(o.points) <= Len(q.points) /\ Len(q.points) \in Nat \ {0}
           /\ Tied(o, q)
<1> DEFINE p == Midpoint(o.points[i], o.points[j])
           q == Push(o, "points", p)
<1>1. o.points \in Seq(Points) /\ Len(o.points) \in Nat /\ Len(o.points) # 0 BY ShapeParts DEF Records
<1>2. o.points[i] \in Points /\ o.points[j] \in Points BY <1>1
<1>3. p \in Points BY <1>2, MidpointType
<1> HIDE DEF p
<1>4. /\ q \in Shapes /\ (q.ok => Len(q.points) = Len(o.points) + 1) /\ (~q.ok => q.points = o.points)
      /\ q.lines = o.lines /\ q.curves = o.curves /\ Kept(o, q)
  BY <1>3, PushPoint
<1> HIDE DEF q
<1>5. Len(q.points) = Len(o.points) + 1 \/ Len(q.points) = Len(o.points) BY <1>4
<1>6. q \in Shapes /\ Len(o.points) <= Len(q.points) /\ Len(q.points) \in Nat \ {0} BY <1>1, <1>4, <1>5
<1>7. Tied(o, q) BY <1>4, TiedSame
<1> QED BY <1>6, <1>7 DEF p, q

\* Where a contour is: its last point, and one off the curve that is still to be used.
Strokes(n) ==
  {s \in [o : Wide(n), beg : Nat, ctrl : Nat] :
     s.beg \in 1..Len(s.o.points) /\ s.ctrl \in 0..Len(s.o.points)}

LEMMA StrokeMade ==
  ASSUME NEW n \in Nat, NEW o \in Wide(n), NEW beg \in 1..Len(o.points), NEW ctrl \in 0..Len(o.points)
  PROVE [o |-> o, beg |-> beg, ctrl |-> ctrl] \in Strokes(n)
BY DEF Strokes

\* A contour leaves an outline whose lines and curves refer to points it has.
LEMMA DecodeContourShape ==
  ASSUME NEW flags \in Seq(Flags), NEW at \in Nat, NEW o \in Shapes, at + Len(flags) <= Len(o.points)
  PROVE DecodeContour(flags, at, o) \in Wide(Len(o.points)) /\ Tied(o, DecodeContour(flags, at, o))
<1> DEFINE m == Len(o.points)
           len == Len(flags)
           mid == Push(o, "points", Midpoint(o.points[at + 1], o.points[at + len]))
           one == [o |-> o, loose |-> at + 1, from |-> 2, to |-> len]
           two == [o |-> o, loose |-> at + len, from |-> 1, to |-> len - 1]
           three == [o |-> mid, loose |-> Len(mid.points), from |-> 1, to |-> len]
           start == CASE flags[1].on -> one
                      [] ~flags[1].on /\ flags[len].on -> two
                      [] ~flags[1].on /\ ~flags[len].on -> three
           To(s, end) ==
             IF s.ctrl = 0 THEN Push(s.o, "lines", [beg |-> s.beg, end |-> end])
             ELSE Push(s.o, "curves", [beg |-> s.beg, end |-> end, ctrl |-> s.ctrl])
           Visit(s, i) ==
             LET cur == at + i
                 more == Push(s.o, "points", Midpoint(s.o.points[s.ctrl], s.o.points[cur]))
                 center == Len(more.points)
             IN IF flags[i].on THEN [o |-> To(s, cur), beg |-> cur, ctrl |-> 0]
                ELSE IF s.ctrl = 0 THEN [s EXCEPT !.ctrl = cur]
                ELSE [o |-> To([s EXCEPT !.o = more], center), beg |-> center, ctrl |-> cur]
<1>a. len \in Nat /\ m \in Nat /\ o.points \in Seq(Points) BY ShapeParts DEF Records
<1>b. CASE len < 2
  <2>1. DecodeContour(flags, at, o) = o BY <1>b DEF DecodeContour
  <2>2. Tied(o, o) BY DEF Tied, Kept
  <2> QED BY <1>a, <2>1, <2>2 DEF Wide
<1>c. SUFFICES ASSUME 2 <= len, ~(len < 2)
               PROVE DecodeContour(flags, at, o) \in Wide(m) /\ Tied(o, DecodeContour(flags, at, o))
  BY <1>a, <1>b
<1>d. /\ Tied(o, start.o)
      /\ start.o \in Wide(m) /\ start.loose \in 1..Len(start.o.points) /\ start.from \in 1..2
      /\ start.to \in Nat /\ start.to <= len /\ start.from <= start.to + 1
  <2>1. at + 1 \in 1..m /\ at + len \in 1..m BY <1>a, <1>c
  <2>2. o \in Wide(m) /\ Tied(o, o) BY <1>a DEF Wide, Tied, Kept
  <2>3. start \in {one, two, three}
    <3>1. flags[1] \in Flags /\ flags[len] \in Flags BY <1>a, <1>c
    <3>2. flags[1].on \in BOOLEAN /\ flags[len].on \in BOOLEAN BY <3>1 DEF Flags
    <3> HIDE DEF one, two, three, len
    <3> QED BY <3>2
  <2>4. mid \in Wide(m) /\ Len(mid.points) \in 1..Len(mid.points) /\ Tied(o, mid)
    <3>1. mid \in Shapes /\ m <= Len(mid.points) /\ Len(mid.points) \in Nat \ {0} /\ Tied(o, mid)
      BY <2>1, HalfwayShape
    <3> HIDE DEF mid
    <3> QED BY <3>1 DEF Wide
  <2> HIDE DEF mid, m
  <2>5. CASE start = one BY <1>a, <1>c, <2>1, <2>2, <2>5 DEF m
  <2>6. CASE start = two BY <1>a, <1>c, <2>1, <2>2, <2>6 DEF m
  <2>7. CASE start = three BY <1>a, <1>c, <2>4, <2>7
  <2> QED BY <2>3, <2>5, <2>6, <2>7
<1> DEFINE M == Len(start.o.points)
<1>g. M \in Nat /\ m <= M /\ at + len <= M /\ start.o \in Shapes
  <2>1. start.o \in Shapes /\ m <= M BY <1>d DEF Wide
  <2>2. M \in Nat
    <3>1. start.o.points \in Seq(Points) BY <2>1, ShapeParts DEF Records
    <3> QED BY <3>1
  <2> HIDE DEF M
  <2> QED BY <1>a, <2>1, <2>2
<1> HIDE DEF M, start
<1> DEFINE loose == start.loose
           Open(s) ==
             s.o.ok => /\ start.o.ok /\ (Roomy(start.o) => Roomy(s.o))
                       /\ \A j \in Nat : Degree(s.o, j) = Degree(start.o, j) + Here(loose, j) - Here(s.beg, j)
<1> HIDE DEF loose
<1>h. \A j \in Nat : Degree(start.o, j) \in Int BY <1>g, DegreeType
<1>i. \A v, j : Here(v, j) \in Int BY DEF Here
<1>e. ASSUME NEW s \in Strokes(M), NEW end \in 1..Len(s.o.points), Open(s)
      PROVE /\ To(s, end) \in Wide(M) /\ To(s, end).points = s.o.points
            /\ To(s, end).ok =>
                 /\ start.o.ok /\ (Roomy(start.o) => Roomy(To(s, end)))
                 /\ \A j \in Nat : Degree(To(s, end), j) = Degree(start.o, j) + Here(loose, j) - Here(end, j)
  <2>1. s.o \in Shapes /\ M <= Len(s.o.points) /\ s.beg \in 1..Len(s.o.points) /\ s.ctrl \in 0..Len(s.o.points)
    BY DEF Strokes, Wide
  <2> DEFINE q == To(s, end)
  <2>2. /\ q \in Shapes /\ q.points = s.o.points /\ Kept(s.o, q)
        /\ q.ok => \A j \in Nat : Degree(q, j) = Degree(s.o, j) + Here(s.beg, j) - Here(end, j)
    BY <2>1, JoinShape
  <2> HIDE DEF q, To
  <2>3. ASSUME q.ok
        PROVE /\ start.o.ok /\ (Roomy(start.o) => Roomy(q))
              /\ \A j \in Nat : Degree(q, j) = Degree(start.o, j) + Here(loose, j) - Here(end, j)
    <3>1. s.o.ok /\ (Roomy(s.o) => Roomy(q)) BY <2>2, <2>3 DEF Kept
    <3>2. ASSUME NEW j \in Nat PROVE Degree(q, j) = Degree(start.o, j) + Here(loose, j) - Here(end, j)
      <4>1. Degree(q, j) = Degree(s.o, j) + Here(s.beg, j) - Here(end, j) BY <2>2, <2>3
      <4>2. Degree(s.o, j) = Degree(start.o, j) + Here(loose, j) - Here(s.beg, j) BY <1>e, <3>1
      <4> QED BY <1>h, <1>i, <4>1, <4>2
    <3> QED BY <1>e, <3>1, <3>2
  <2> QED BY <2>1, <2>2, <2>3 DEF Wide, q
<1>j. ASSUME NEW s \in Strokes(M), NEW q, NEW v, Open(s), Tied(s.o, q)
      PROVE Open([o |-> q, beg |-> s.beg, ctrl |-> v])
  <2> SUFFICES ASSUME q.ok
               PROVE /\ start.o.ok /\ (Roomy(start.o) => Roomy(q))
                     /\ \A j \in Nat : Degree(q, j) = Degree(start.o, j) + Here(loose, j) - Here(s.beg, j)
    OBVIOUS
  <2> QED BY <1>j DEF Tied, Kept
<1>f. ASSUME NEW s \in Strokes(M), NEW i \in 1..len, Open(s) PROVE Visit(s, i) \in Strokes(M) /\ Open(Visit(s, i))
  <2> DEFINE cur == at + i
             more == Push(s.o, "points", Midpoint(s.o.points[s.ctrl], s.o.points[cur]))
             center == Len(more.points)
             u == [s EXCEPT !.o = more]
  <2>1. s \in [o : Wide(M), beg : Nat, ctrl : Nat] /\ s.o \in Wide(M) /\ s.o \in Shapes /\ M <= Len(s.o.points)
        /\ s.beg \in 1..Len(s.o.points) /\ s.ctrl \in 0..Len(s.o.points)
    BY DEF Strokes, Wide
  <2>2. cur \in 1..M BY <1>a, <1>g
  <2>3. Len(s.o.points) \in Nat
    <3>1. s.o.points \in Seq(Points) BY <2>1, ShapeParts DEF Records
    <3> QED BY <3>1
  <2>4. cur \in 1..Len(s.o.points) BY <1>a, <1>g, <2>1, <2>2, <2>3
  <2> HIDE DEF cur
  <2>5. CASE flags[i].on
    <3> DEFINE q == To(s, cur)
               end == [o |-> q, beg |-> cur, ctrl |-> 0]
    <3>1. /\ q \in Wide(M) /\ q.points = s.o.points
          /\ q.ok => /\ start.o.ok /\ (Roomy(start.o) => Roomy(q))
                     /\ \A j \in Nat : Degree(q, j) = Degree(start.o, j) + Here(loose, j) - Here(cur, j)
      BY <1>e, <1>f, <2>4
    <3>2. Visit(s, i) = end BY <2>5 DEF cur
    <3> HIDE DEF To, Visit, M, q
    <3>3. cur \in 1..Len(q.points) /\ 0 \in 0..Len(q.points) BY <2>3, <2>4, <3>1
    <3>4. end \in Strokes(M) BY <1>a, <1>g, <3>1, <3>3, StrokeMade
    <3>5. Open(end) BY <3>1
    <3> HIDE DEF Open, end
    <3> QED BY <3>2, <3>4, <3>5
  <2>6. CASE ~flags[i].on /\ s.ctrl = 0
    <3>1. Visit(s, i) = [s EXCEPT !.ctrl = cur] BY <2>6 DEF cur
    <3>2. [s EXCEPT !.ctrl = cur] = [o |-> s.o, beg |-> s.beg, ctrl |-> cur] BY <2>1
    <3>3. cur \in 0..Len(s.o.points) BY <2>4
    <3> DEFINE end == [o |-> s.o, beg |-> s.beg, ctrl |-> cur]
    <3>4. Tied(s.o, s.o) BY DEF Tied, Kept
    <3>5. Open(end) BY <1>f, <1>j, <3>4
    <3> HIDE DEF Visit, M, Open
    <3>6. end \in Strokes(M) BY <1>a, <1>g, <2>1, <3>3, StrokeMade
    <3> QED BY <3>1, <3>2, <3>5, <3>6
  <2>7. CASE ~flags[i].on /\ s.ctrl # 0
    <3>1. s.ctrl \in 1..Len(s.o.points) BY <2>1, <2>3, <2>7
    <3>2. more \in Shapes /\ Len(s.o.points) <= Len(more.points) /\ center \in Nat \ {0} /\ Tied(s.o, more)
      BY <2>1, <2>4, <3>1, HalfwayShape
    <3>3. Visit(s, i) = [o |-> To(u, center), beg |-> center, ctrl |-> cur] BY <2>7 DEF cur
    <3>4. u = [o |-> more, beg |-> s.beg, ctrl |-> s.ctrl] BY <2>1
    <3> DEFINE q == To(u, center)
               end == [o |-> q, beg |-> center, ctrl |-> cur]
    <3>a. Open(u)
      <4> HIDE DEF more, u, M, Open, To, Visit
      <4>1. Open([o |-> more, beg |-> s.beg, ctrl |-> s.ctrl]) BY <1>f, <1>j, <3>2
      <4> QED BY <3>4, <4>1
    <3> HIDE DEF more, u, Visit, M
    <3>5. more \in Wide(M) BY <1>a, <1>g, <2>1, <2>3, <3>2 DEF Wide
    <3>6. s.beg \in 1..Len(more.points) /\ s.ctrl \in 0..Len(more.points) /\ cur \in 0..Len(more.points) /\ center \in 1..Len(more.points)
      BY <2>1, <2>3, <2>4, <3>2
    <3>7. u \in Strokes(M) BY <1>a, <1>g, <3>4, <3>5, <3>6, StrokeMade
    <3>8. u.o = more BY <3>4
    <3>9. /\ q \in Wide(M) /\ q.points = more.points
          /\ q.ok => /\ start.o.ok /\ (Roomy(start.o) => Roomy(q))
                     /\ \A j \in Nat : Degree(q, j) = Degree(start.o, j) + Here(loose, j) - Here(center, j)
      BY <1>e, <3>6, <3>7, <3>8, <3>a
    <3>10. Visit(s, i) = end BY <3>3
    <3> HIDE DEF To, center, q
    <3>11. Open(end) BY <3>9
    <3>12. end \in Strokes(M) BY <1>a, <1>g, <3>6, <3>9, StrokeMade
    <3> HIDE DEF Open, end
    <3> QED BY <3>10, <3>11, <3>12
  <2>8. flags[i].on \in BOOLEAN
    <3>1. flags[i] \in Flags OBVIOUS
    <3> QED BY <3>1 DEF Flags
  <2> QED BY <2>5, <2>6, <2>7, <2>8
<1>k. ASSUME NEW q, q = start.o PROVE Open([o |-> q, beg |-> loose, ctrl |-> 0])
  <2>1. \A j \in Nat : Degree(start.o, j) = Degree(start.o, j) + Here(loose, j) - Here(loose, j) BY <1>h, <1>i
  <2> QED BY <1>k, <2>1
<1>l. ASSUME NEW q, q.ok => /\ start.o.ok /\ (Roomy(start.o) => Roomy(q))
                           /\ \A j \in Nat : Degree(q, j) = Degree(start.o, j) + Here(loose, j) - Here(loose, j)
      PROVE Tied(start.o, q)
  BY <1>h, <1>i, <1>l DEF Tied, Kept
<1> HIDE DEF To, Visit, m, Open
<1> DEFINE X == {s \in Strokes(M) : Open(s)}
           n == start.to - start.from + 1
           base == [o |-> start.o, beg |-> start.loose, ctrl |-> 0]
           Step(s, k) == Visit(s, start.from + k - 1)
           turn == [k \in 1..n |-> [s \in X |-> Step(s, k)]]
           Run(f) == f = [k \in 0..n |-> IF k = 0 THEN base ELSE Step(f[k - 1], k)]
           End == CHOOSE f : Run(f)
<1>1. n \in Nat BY <1>a, <1>d
<1>2. base \in X 
  <2>1. start.o \in Wide(M) BY <1>g DEF Wide, M
  <2>2. start.loose \in 1..Len(start.o.points) /\ 0 \in 0..Len(start.o.points) BY <1>d, <1>g DEF M
  <2>3. base \in Strokes(M) BY <1>g, <2>1, <2>2, StrokeMade
  <2>4. Open(base) BY <1>k DEF loose
  <2> QED BY <2>3, <2>4
<1>3. ASSUME NEW k \in 1..n, NEW s \in X PROVE Step(s, k) \in X
  <2>1. start.from + k - 1 \in 1..len BY <1>1, <1>a, <1>d
  <2> QED BY <1>f, <2>1
<1>4. DecodeContour(flags, at, o) = IF ~start.o.ok THEN start.o ELSE To(End[n], start.loose) BY <1>c DEF DecodeContour, To, Visit, start
<1> HIDE DEF n, X, base, Step
<1>5. \A k \in 1..n, s \in X : turn[k][s] = Step(s, k) OBVIOUS
<1> HIDE DEF turn
<1>6. Turns(X, n, turn) BY <1>3, <1>5 DEF Turns
<1>7. PICK h : Turned(X, base, n, turn, h) BY <1>1, <1>2, <1>6, Loop
<1>8. Run(h)
  <2>1. ASSUME NEW k \in 1..n PROVE h[k] = Step(h[k - 1], k)
    <3>1. k - 1 \in 0..n BY <1>1
    <3> QED BY <1>5, <1>7, <3>1 DEF Turned
  <2>2. \A k \in 0..n : k # 0 => k \in 1..n BY <1>1
  <2> QED BY <1>7, <2>1, <2>2 DEF Turned
<1>9. Run(End) BY <1>8
<1> HIDE DEF End
<1>10. End[0] = base BY <1>1, <1>9
<1>11. \A k \in 1..n : End[k] = Step(End[k - 1], k) BY <1>1, <1>9
<1> DEFINE T == {k \in 0..n : End[k] \in X}
<1>12. 0 \in T BY <1>1, <1>2, <1>10
<1>13. \A k \in 1..n : k - 1 \in T => k \in T BY <1>1, <1>3, <1>11
<1> HIDE DEF T
<1>14. \A k \in 0..n : k \in T BY <1>1, <1>12, <1>13, LoopStays
<1>15. End[n] \in X BY <1>1, <1>14 DEF T
<1>16. Wide(M) \subseteq Wide(m) /\ start.o \in Wide(m) BY <1>a, <1>d, <1>g DEF Wide, m
<1>17. To(End[n], start.loose) \in Wide(M) /\ Tied(start.o, To(End[n], start.loose))
  <2>1. End[n] \in Strokes(M) /\ Open(End[n]) BY <1>15 DEF X
  <2>2. End[n].o \in Wide(M) BY <2>1 DEF Strokes
  <2>3. Len(End[n].o.points) \in Nat /\ M <= Len(End[n].o.points)
    <3>1. End[n].o.points \in Seq(Points) BY <2>2, ShapeParts DEF Records, Wide
    <3> QED BY <2>2, <3>1 DEF Wide
  <2>4. start.loose \in 1..M BY <1>d DEF M
  <2>5. start.loose \in 1..Len(End[n].o.points) BY <1>g, <2>3, <2>4
  <2> QED BY <1>e, <1>l, <2>1, <2>5 DEF loose
<1>18. Tied(o, To(End[n], start.loose)) BY <1>d, <1>17, TiedOn
<1> QED BY <1>4, <1>d, <1>16, <1>17, <1>18

\* Where contours end, in order: none ends after the last one.
LEMMA EndsGrow ==
  ASSUME NEW n \in Nat \ {0}, NEW ends \in Seq(Nat), Len(ends) = n,
         \A k \in 1..(n - 1) : ~(ends[k + 1] < ends[k] + 1), NEW i \in 1..n
  PROVE ends[i] <= ends[n]
<1> DEFINE T == {j \in 0..(n - 1) : ends[n - j] <= ends[n]}
<1>1. 0 \in T OBVIOUS
<1>2. ASSUME NEW j \in 1..(n - 1), j - 1 \in T PROVE j \in T
  <2> DEFINE k == n - j
  <2>1. k \in 1..(n - 1) /\ n - (j - 1) = k + 1 /\ k \in 1..n /\ k + 1 \in 1..n OBVIOUS
  <2>2. ends[k + 1] <= ends[n] BY <1>2, <2>1
  <2> HIDE DEF k
  <2>3. ends[k] \in Nat /\ ends[k + 1] \in Nat /\ ends[n] \in Nat BY <2>1
  <2>4. ~(ends[k + 1] < ends[k] + 1) BY <2>1
  <2>5. ends[k] <= ends[n] BY <2>2, <2>3, <2>4
  <2> QED BY <2>5 DEF k
<1> HIDE DEF T
<1>3. \A j \in 0..(n - 1) : j \in T
  <2>1. n - 1 \in Nat OBVIOUS
  <2> QED BY <1>1, <1>2, <2>1, LoopStays
<1>4. n - i \in 0..(n - 1) /\ n - (n - i) = i OBVIOUS
<1> QED BY <1>3, <1>4 DEF T

\* More points at the end of an outline.
LEMMA PointsShape ==
  ASSUME NEW o \in Shapes, NEW more \in Seq(Points)
  PROVE LET q == [o EXCEPT !.points = @ \o more]
        IN /\ q \in Shapes /\ Len(q.points) = Len(o.points) + Len(more)
           /\ q.lines = o.lines /\ q.curves = o.curves /\ q.ok = o.ok /\ q.cap = o.cap
<1> DEFINE p == o.points \o more
           q == [o EXCEPT !.points = p]
<1>1. o \in Records /\ o.points \in Seq(Points) BY ShapeParts DEF Records
<1>2. p \in Seq(Points) /\ Len(p) = Len(o.points) + Len(more) BY <1>1
<1> HIDE DEF p
<1>3. q \in Records /\ q.points = p /\ q.lines = o.lines /\ q.curves = o.curves /\ q.ok = o.ok /\ q.cap = o.cap
  BY <1>1, <1>2 DEF Records
<1> HIDE DEF q
<1>4. q \in Shapes
  <2>1. Len(o.points) \in Nat /\ Len(more) \in Nat /\ Len(o.points) <= Len(q.points) BY <1>1, <1>2, <1>3
  <2>2. ASSUME NEW l \in 1..Len(q.lines) PROVE q.lines[l] \in LinesIn(Len(q.points))
    <3>1. o.lines[l] \in LinesIn(Len(o.points)) BY <1>3, ShapeParts
    <3> QED BY <1>3, <2>1, <3>1 DEF LinesIn
  <2>3. ASSUME NEW c \in 1..Len(q.curves) PROVE q.curves[c] \in CurvesIn(Len(q.points))
    <3>1. o.curves[c] \in CurvesIn(Len(o.points)) BY <1>3, ShapeParts
    <3> QED BY <1>3, <2>1, <3>1 DEF CurvesIn
  <2> QED BY <1>3, <2>2, <2>3, ShapeMade
<1> QED BY <1>2, <1>3, <1>4 DEF p, q

\* A simple outline refers to points it has: no contour ends after its last point.
LEMMA SimpleOutlineShape ==
  ASSUME NEW o \in Shapes, NEW g, g.contours \in Nat \ {0}, g.ends \in Seq(Nat), Len(g.ends) = g.contours,
         g.flags \in Seq(Flags), g.coords \in Seq(Int)
  PROVE SimpleOutline(g, o) \in Shapes /\ Tied(o, SimpleOutline(g, o))
<1> DEFINE all == g.ends[Len(g.ends)] + 1
           from == Len(o.points)
           flags == SimpleFlags(g, all)
           points == SimplePoints(g, flags)
           Start(k) == IF k = 1 THEN 1 ELSE g.ends[k - 1] + 2
           roomy == Fit(o, from + all)
           Contour(s, k) ==
             IF ~s.ok THEN s ELSE DecodeContour(SubSeq(flags, Start(k), g.ends[k] + 1), from + Start(k) - 1, s)
           first == [roomy EXCEPT !.points = @ \o points]
           Wrong == \/ ~Safe(g, 10, 2 * g.contours + 2)
                    \/ all > PointLimit \/ from > PointLimit - all \/ ~roomy.ok
                    \/ \E k \in 1..(g.contours - 1) : g.ends[k + 1] < g.ends[k] + 1
                    \/ flags = <<>> \/ points = <<>>
<1>a. CASE Wrong
  <2>1. SimpleOutline(g, o) = Bad(o) BY <1>a DEF SimpleOutline
  <2> QED BY <2>1, BadShape, TiedBad
<1>b. SUFFICES ASSUME ~Wrong PROVE SimpleOutline(g, o) \in Shapes /\ Tied(o, SimpleOutline(g, o)) BY <1>a
<1>c. \A k \in 1..(g.contours - 1) : ~(g.ends[k + 1] < g.ends[k] + 1) BY <1>b
<1>d. flags # <<>> /\ points # <<>> BY <1>b
<1>e. all \in Nat /\ from \in Nat
  <2>1. o.points \in Seq(Points) BY ShapeParts DEF Records
  <2> QED BY <2>1
<1>f. ASSUME NEW k \in 1..g.contours PROVE g.ends[k] \in Nat /\ g.ends[k] + 1 <= all
  <2>1. g.ends[k] <= g.ends[g.contours] BY <1>c, EndsGrow
  <2> QED BY <2>1
<1> HIDE DEF all
<1>g. flags \in Seq(Flags) /\ Len(flags) = all BY <1>d, <1>e, SimpleFlagsType
<1> HIDE DEF flags
<1>h. points \in Seq(Points) /\ Len(points) = all BY <1>d, <1>g, SimplePointsType
<1> HIDE DEF points
<1>i. /\ roomy \in Shapes /\ roomy.points = o.points /\ roomy.lines = o.lines /\ roomy.curves = o.curves /\ Kept(o, roomy)
      /\ roomy.ok /\ Roomy(o) => from + all <= roomy.cap.points
  <2> HIDE DEF from
  <2>1. from + all \in Nat BY <1>e
  <2> QED BY <2>1, FitShape
<1>j. first \in Wide(from + all) /\ Tied(o, first)
  <2> HIDE DEF roomy
  <2>1. /\ first \in Shapes /\ Len(first.points) = from + all
        /\ first.lines = roomy.lines /\ first.curves = roomy.curves /\ first.ok = roomy.ok /\ first.cap = roomy.cap
    BY <1>h, <1>i, PointsShape
  <2> HIDE DEF first, from
  <2>2. Kept(o, first) BY <1>i, <2>1 DEF Kept, Roomy
  <2>3. Tied(o, first) BY <1>i, <2>1, <2>2, TiedSame
  <2> QED BY <1>e, <2>1, <2>3 DEF Wide
<1>k. ASSUME NEW k \in 1..g.contours, NEW s \in Wide(from + all)
      PROVE Contour(s, k) \in Wide(from + all) /\ Tied(s, Contour(s, k))
  <2> DEFINE a == Start(k)
             b == g.ends[k] + 1
             part == SubSeq(flags, a, b)
  <2>1. a \in Nat \ {0} /\ b \in Nat /\ a <= b /\ b <= all
    <3>1. CASE k = 1 BY <1>f, <3>1
    <3>2. CASE k # 1
      <4>1. k - 1 \in 1..(g.contours - 1) /\ k - 1 \in 1..g.contours /\ (k - 1) + 1 = k BY <3>2
      <4>2. ~(g.ends[k] < g.ends[k - 1] + 1) BY <1>c, <4>1
      <4>3. g.ends[k] \in Nat /\ g.ends[k - 1] \in Nat /\ g.ends[k] + 1 <= all BY <1>f, <4>1
      <4>4. a = g.ends[k - 1] + 2 BY <3>2
      <4> DEFINE u == g.ends[k - 1]
                 v == g.ends[k]
      <4>5. u \in Nat /\ v \in Nat /\ v + 1 <= all /\ ~(v < u + 1) /\ a = u + 2 /\ b = v + 1 BY <4>2, <4>3, <4>4
      <4> HIDE DEF a, b, u, v
      <4> QED BY <1>e, <4>5
    <3> QED BY <3>1, <3>2
  <2>2. Contour(s, k) = IF ~s.ok THEN s ELSE DecodeContour(part, from + a - 1, s) OBVIOUS
  <2> HIDE DEF a, b, Contour
  <2>3. part \in Seq(Flags) /\ Len(part) = b - a + 1 BY <1>e, <1>g, <2>1, SubSeqProperties
  <2> HIDE DEF part
  <2>4. s \in Shapes /\ from + all <= Len(s.points) /\ Len(s.points) \in Nat
    <3>1. s \in Shapes /\ from + all <= Len(s.points) BY DEF Wide
    <3>2. s.points \in Seq(Points) BY <3>1, ShapeParts DEF Records
    <3> QED BY <3>1, <3>2
  <2> HIDE DEF from
  <2>5. from + a - 1 \in Nat /\ (from + a - 1) + Len(part) <= Len(s.points) BY <1>e, <2>1, <2>3, <2>4
  <2>6. DecodeContour(part, from + a - 1, s) \in Wide(Len(s.points)) /\ Tied(s, DecodeContour(part, from + a - 1, s)) BY <2>3, <2>4, <2>5, DecodeContourShape
  <2>7. Wide(Len(s.points)) \subseteq Wide(from + all)
    <3>1. ASSUME NEW q \in Wide(Len(s.points)) PROVE q \in Wide(from + all)
      <4>1. q \in Shapes /\ Len(s.points) <= Len(q.points) BY DEF Wide
      <4>2. q.points \in Seq(Points) BY <4>1, ShapeParts DEF Records
      <4> QED BY <1>e, <2>4, <4>1, <4>2 DEF Wide
    <3> QED BY <3>1
  <2>8. Tied(s, s) BY DEF Tied, Kept
  <2> QED BY <2>2, <2>6, <2>7, <2>8
<1> HIDE DEF from, roomy, Wrong, Contour, first
<1> DEFINE X == {s \in Wide(from + all) : Tied(o, s)}
           n == g.contours
           base == first
           Step(s, k) == Contour(s, k)
           turn == [k \in 1..n |-> [s \in X |-> Step(s, k)]]
           Run(f) == f = [k \in 0..n |-> IF k = 0 THEN base ELSE Step(f[k - 1], k)]
           End == CHOOSE f : Run(f)
<1>1. n \in Nat OBVIOUS
<1>2. base \in X BY <1>j
<1>3. ASSUME NEW k \in 1..n, NEW s \in X PROVE Step(s, k) \in X
  BY <1>k, TiedOn
<1>4. SimpleOutline(g, o) = End[n] BY <1>b DEF SimpleOutline, Contour, first, Wrong, roomy, points, flags, all, from
<1> HIDE DEF n, X, base, Step
<1>5. \A k \in 1..n, s \in X : turn[k][s] = Step(s, k) OBVIOUS
<1> HIDE DEF turn
<1>6. Turns(X, n, turn) BY <1>3, <1>5 DEF Turns
<1>7. PICK h : Turned(X, base, n, turn, h) BY <1>1, <1>2, <1>6, Loop
<1>8. Run(h)
  <2>1. ASSUME NEW k \in 1..n PROVE h[k] = Step(h[k - 1], k)
    <3>1. k - 1 \in 0..n BY <1>1
    <3> QED BY <1>5, <1>7, <3>1 DEF Turned
  <2>2. \A k \in 0..n : k # 0 => k \in 1..n BY <1>1
  <2> QED BY <1>7, <2>1, <2>2 DEF Turned
<1>9. Run(End) BY <1>8
<1> HIDE DEF End
<1>10. End[0] = base BY <1>1, <1>9
<1>11. \A k \in 1..n : End[k] = Step(End[k - 1], k) BY <1>1, <1>9
<1> DEFINE T == {k \in 0..n : End[k] \in X}
<1>12. 0 \in T BY <1>1, <1>2, <1>10
<1>13. \A k \in 1..n : k - 1 \in T => k \in T BY <1>1, <1>3, <1>11
<1> HIDE DEF T
<1>14. \A k \in 0..n : k \in T BY <1>1, <1>12, <1>13, LoopStays
<1>15. End[n] \in X BY <1>1, <1>14 DEF T
<1> QED BY <1>4, <1>15 DEF X, Wide

-----------------------------------------------------------------------------
(* Compound outlines *)

\* What decodes the outline of a component.
Decoders(face) ==
  {d \in [DOMAIN face.tables.glyf.at -> [Shapes -> Shapes]] :
     \A at \in DOMAIN face.tables.glyf.at, o \in Shapes : Tied(o, d[at][o])}

LEMMA LocalType ==
  ASSUME NEW c, c.dx \in Int, c.dy \in Int, c.scale \in Seq(Int), Len(c.scale) \in {0, 1, 2, 4}
  PROVE Local(c) \in [one : Nat \ {0}, xx : Int, xy : Int, yx : Int, yy : Int, dx : Int, dy : Int]
<1> DEFINE s == c.scale
<1>1. One \in Nat \ {0} BY OutlinesAssumption
<1>2. s \in Seq(Int) /\ Len(s) \in {0, 1, 2, 4} OBVIOUS
<1>3. Len(s) \in Nat /\ (s # <<>> => Len(s) # 0) BY <1>2
<1>4. Local(c) = [one |-> One, dx |-> c.dx, dy |-> c.dy,
                  xx |-> IF s = <<>> THEN One ELSE s[1],
                  xy |-> IF Len(s) = 4 THEN s[2] ELSE 0,
                  yx |-> IF Len(s) = 4 THEN s[3] ELSE 0,
                  yy |-> IF s = <<>> THEN One ELSE s[Len(s)]]
  BY DEF Local
<1> HIDE DEF s
<1>5. \A i \in 1..Len(s) : s[i] \in Int BY <1>2
<1>6. s # <<>> => s[1] \in Int /\ s[Len(s)] \in Int
  <2> SUFFICES ASSUME s # <<>> PROVE s[1] \in Int /\ s[Len(s)] \in Int OBVIOUS
  <2>1. 1 \in 1..Len(s) /\ Len(s) \in 1..Len(s) BY <1>2, <1>3
  <2> QED BY <1>5, <2>1
<1>7. Len(s) = 4 => s[2] \in Int /\ s[3] \in Int
  <2> SUFFICES ASSUME Len(s) = 4 PROVE s[2] \in Int /\ s[3] \in Int OBVIOUS
  <2>1. 2 \in 1..Len(s) /\ 3 \in 1..Len(s) OBVIOUS
  <2> QED BY <1>5, <2>1
<1> QED BY <1>1, <1>4, <1>6, <1>7

\* The components of a compound outline keep the lines and curves between points it has.
LEMMA CompoundShape ==
  ASSUME NEW face, NEW n \in Nat, IsFont(face, n), NEW at \in DOMAIN face.tables.glyf.at, Has(face, "glyf"),
         Outline(face, at).contours < 0, NEW inner \in Decoders(face), NEW o \in Shapes
  PROVE /\ CompoundOutline(face, Outline(face, at), inner, o) \in Shapes
        /\ Tied(o, CompoundOutline(face, Outline(face, at), inner, o))
<1> DEFINE G == Outline(face, at)
           parts == G.components
           Part == [glyph : 0..(n - 1), xy : BOOLEAN, large : BOOLEAN, dx : Int, dy : Int, scale : Seq(Int)]
           Component(s, c) ==
             LET bytes == (IF c.large THEN 8 ELSE 6) + 2 * Len(c.scale)
                 offset == OutlineOffset(face, c.glyph)
             IN IF ~s.o.ok \/ ~Safe(G, s.at, bytes) \/ ~c.xy \/ offset = Failure
                THEN [s EXCEPT !.o = Bad(@)]
                ELSE [at |-> s.at + bytes,
                      o |-> IF offset = NoOutline THEN s.o
                            ELSE TransformPoints(inner[offset][s.o], Len(s.o.points), Local(c))]
<1>a. IsGlyph(G, n) BY DEF IsFont
<1> HIDE DEF G
<1>b. parts \in Seq(Part) /\ \A k \in 1..Len(parts) : parts[k] \in Part /\ Len(parts[k].scale) \in {0, 1, 2, 4}
  <2>1. parts \in Seq(Part) /\ \A k \in 1..Len(parts) : Len(parts[k].scale) \in {0, 1, 2, 4}
    BY <1>a DEF IsGlyph, G
  <2> HIDE DEF parts, Part
  <2> QED BY <2>1
<1>c. ASSUME NEW s \in [at : Nat, o : Shapes], NEW k \in 1..Len(parts)
      PROVE Component(s, parts[k]) \in [at : Nat, o : Shapes] /\ Tied(s.o, Component(s, parts[k]).o)
  <2> DEFINE c == parts[k]
             bytes == (IF c.large THEN 8 ELSE 6) + 2 * Len(c.scale)
             offset == OutlineOffset(face, c.glyph)
             moved == TransformPoints(inner[offset][s.o], Len(s.o.points), Local(c))
             Wrong == ~s.o.ok \/ ~Safe(G, s.at, bytes) \/ ~c.xy \/ offset = Failure
  <2>1. c \in Part /\ Len(c.scale) \in {0, 1, 2, 4} BY <1>b
  <2>2. Component(s, c) = IF Wrong THEN [s EXCEPT !.o = Bad(@)]
                          ELSE [at |-> s.at + bytes, o |-> IF offset = NoOutline THEN s.o ELSE moved]
    OBVIOUS
  <2> HIDE DEF parts, c, Component
  <2>3. c.glyph \in 0..(n - 1) /\ c.large \in BOOLEAN /\ c.dx \in Int /\ c.dy \in Int /\ c.scale \in Seq(Int) BY <2>1
  <2>4. bytes \in Nat BY <2>1, <2>3
  <2>5. s.at \in Nat /\ s.o \in Shapes OBVIOUS
  <2>6. CASE Wrong
    <3>1. [s EXCEPT !.o = Bad(@)] \in [at : Nat, o : Shapes] /\ [s EXCEPT !.o = Bad(@)].o = Bad(s.o) BY <2>5, BadShape
    <3>2. Tied(s.o, Bad(s.o)) BY <2>5, TiedBad
    <3> QED BY <2>2, <2>6, <3>1, <3>2 DEF c
  <2>7. CASE ~Wrong
    <3>1. offset # NoOutline => moved \in Shapes /\ Tied(s.o, moved)
      <4> SUFFICES ASSUME offset # NoOutline PROVE moved \in Shapes /\ Tied(s.o, moved) OBVIOUS
      <4>1. offset \in DOMAIN face.tables.glyf.at BY <2>3, <2>7, OutlineThere
      <4> HIDE DEF offset
      <4>2. inner[offset][s.o] \in Shapes /\ Tied(s.o, inner[offset][s.o]) BY <2>5, <4>1 DEF Decoders
      <4>3. Len(s.o.points) \in Int
        <5>1. s.o.points \in Seq(Points) BY <2>5, ShapeParts DEF Records
        <5> QED BY <5>1
      <4>4. Local(c) \in [one : Nat \ {0}, xx : Int, xy : Int, yx : Int, yy : Int, dx : Int, dy : Int]
        BY <2>1, <2>3, LocalType
      <4>5. moved \in Shapes /\ Tied(inner[offset][s.o], moved) BY <4>2, <4>3, <4>4, TransformShape
      <4> QED BY <4>2, <4>5, TiedOn
    <3> HIDE DEF bytes, moved, Wrong
    <3>2. s.at + bytes \in Nat BY <2>4, <2>5
    <3>3. Tied(s.o, s.o) BY DEF Tied, Kept
    <3> QED BY <2>2, <2>5, <2>7, <3>1, <3>2, <3>3 DEF c
  <2> QED BY <2>6, <2>7
<1> HIDE DEF Component, parts
<1> DEFINE X == {s \in [at : Nat, o : Shapes] : Tied(o, s.o)}
           n1 == Len(parts)
           base == [at |-> 10, o |-> o]
           Step(s, k) == Component(s, parts[k])
           turn == [k \in 1..n1 |-> [s \in X |-> Step(s, k)]]
           Run(f) == f = [k \in 0..n1 |-> IF k = 0 THEN base ELSE Step(f[k - 1], k)]
           End == CHOOSE f : Run(f)
<1>1. n1 \in Nat BY <1>b
<1>2. base \in X BY DEF Tied, Kept
<1>3. ASSUME NEW k \in 1..n1, NEW s \in X PROVE Step(s, k) \in X
  <2>1. Component(s, parts[k]) \in [at : Nat, o : Shapes] /\ Tied(s.o, Component(s, parts[k]).o) BY <1>c
  <2>2. Tied(o, Component(s, parts[k]).o) BY <2>1, TiedOn
  <2> QED BY <2>1, <2>2
<1>4. CompoundOutline(face, G, inner, o) = End[n1].o BY DEF CompoundOutline, Component, parts
<1> HIDE DEF n1, X, base, Step
<1>5. \A k \in 1..n1, s \in X : turn[k][s] = Step(s, k) OBVIOUS
<1> HIDE DEF turn
<1>6. Turns(X, n1, turn) BY <1>3, <1>5 DEF Turns
<1>7. PICK h : Turned(X, base, n1, turn, h) BY <1>1, <1>2, <1>6, Loop
<1>8. Run(h)
  <2>1. ASSUME NEW k \in 1..n1 PROVE h[k] = Step(h[k - 1], k)
    <3>1. k - 1 \in 0..n1 BY <1>1
    <3> QED BY <1>5, <1>7, <3>1 DEF Turned
  <2>2. \A k \in 0..n1 : k # 0 => k \in 1..n1 BY <1>1
  <2> QED BY <1>7, <2>1, <2>2 DEF Turned
<1>9. Run(End) BY <1>8
<1> HIDE DEF End
<1>10. End[0] = base BY <1>1, <1>9
<1>11. \A k \in 1..n1 : End[k] = Step(End[k - 1], k) BY <1>1, <1>9
<1> DEFINE T == {k \in 0..n1 : End[k] \in X}
<1>12. 0 \in T BY <1>1, <1>2, <1>10
<1>13. \A k \in 1..n1 : k - 1 \in T => k \in T BY <1>1, <1>3, <1>11
<1> HIDE DEF T
<1>14. \A k \in 0..n1 : k \in T BY <1>1, <1>12, <1>13, LoopStays
<1>15. End[n1] \in X BY <1>1, <1>14 DEF T
<1> QED BY <1>4, <1>15 DEF X, G

\* Decoding an outline, however its components nest, leaves lines and curves between points it has.
LEMMA DecodeShape ==
  ASSUME NEW face, NEW n \in Nat, IsFont(face, n), Has(face, "glyf"),
         NEW offset \in DOMAIN face.tables.glyf.at, NEW o \in Shapes
  PROVE DecodeOutline(face, offset, o) \in Shapes /\ Tied(o, DecodeOutline(face, offset, o))
<1> DEFINE X == Decoders(face)
           Body(at, into, nests, inner) ==
             LET g == Outline(face, at)
             IN IF ~Safe(g, 0, 10) THEN Bad(into)
                ELSE IF g.contours > 0 THEN SimpleOutline(g, into)
                ELSE IF g.contours = 0 THEN into
                ELSE IF nests = 0 THEN Bad(into) ELSE CompoundOutline(face, g, inner, into)
           Level(nests, inner) ==
             [at \in DOMAIN face.tables.glyf.at |-> [into \in Shapes |-> Body(at, into, nests, inner)]]
           base == [at \in DOMAIN face.tables.glyf.at |-> [into \in Shapes |-> Body(at, into, 0, <<>>)]]
           turn == [k \in 1..4 |-> [f \in X |-> Level(k, f)]]
           Run(f) == f = [nests \in 0..4 |-> Level(nests, f[nests - 1])]
           Decode == CHOOSE f : Run(f)
<1>1. ASSUME NEW at \in DOMAIN face.tables.glyf.at, NEW into \in Shapes, NEW nests \in 0..4, NEW inner,
             nests # 0 => inner \in X
      PROVE Body(at, into, nests, inner) \in Shapes /\ Tied(into, Body(at, into, nests, inner))
  <2> DEFINE g == Outline(face, at)
  <2>1. IsGlyph(g, n) BY DEF IsFont
  <2>2. Bad(into) \in Shapes /\ Tied(into, Bad(into)) /\ Tied(into, into) BY BadShape, TiedBad DEF Tied, Kept
  <2> HIDE DEF g
  <2>3. g.contours \in Int /\ (g.contours > 0 => g.contours \in Nat \ {0}) BY <2>1 DEF IsGlyph
  <2>4. g.contours > 0 => SimpleOutline(g, into) \in Shapes /\ Tied(into, SimpleOutline(g, into))
    BY <2>1, <2>3, SimpleOutlineShape DEF IsGlyph
  <2>5. g.contours < 0 /\ nests # 0 =>
          CompoundOutline(face, g, inner, into) \in Shapes /\ Tied(into, CompoundOutline(face, g, inner, into))
    BY <1>1, CompoundShape DEF g
  <2> QED BY <2>2, <2>3, <2>4, <2>5 DEF g
<1>2. ASSUME NEW nests \in 0..4, NEW inner, nests # 0 => inner \in X PROVE Level(nests, inner) \in X
  <2> HIDE DEF Body
  <2> QED BY <1>1, <1>2 DEF Decoders
<1>3. base \in X
  <2> HIDE DEF Body
  <2> QED BY <1>1 DEF Decoders
<1>4. ASSUME NEW inner PROVE Level(0, inner) = base OBVIOUS
<1>5. DecodeOutline(face, offset, o) = Decode[4][offset][o] BY DEF DecodeOutline
<1> HIDE DEF X, base, Level, Body
<1>6. \A k \in 1..4, f \in X : turn[k][f] = Level(k, f) OBVIOUS
<1>7. \A k \in 1..4, f \in X : Level(k, f) \in X BY <1>2
<1> HIDE DEF turn
<1>8. Turns(X, 4, turn) BY <1>6, <1>7 DEF Turns
<1>9. PICK h : Turned(X, base, 4, turn, h) BY <1>3, <1>8, Loop
<1>10. Run(h)
  <2>1. ASSUME NEW k \in 0..4 PROVE h[k] = Level(k, h[k - 1])
    <3>1. CASE k = 0 BY <1>4, <1>9, <3>1 DEF Turned
    <3>2. CASE k # 0
      <4>1. k \in 1..4 /\ k - 1 \in 0..4 BY <3>2
      <4> QED BY <1>6, <1>9, <4>1 DEF Turned
    <3> QED BY <3>1, <3>2
  <2> QED BY <1>9, <2>1 DEF Turned
<1>11. Run(Decode) BY <1>10
<1> HIDE DEF Decode
<1>12. \A k \in 0..4 : Decode[k] = Level(k, Decode[k - 1]) BY <1>11
<1> DEFINE T == {k \in 0..4 : Decode[k] \in X}
<1>13. 0 \in T BY <1>3, <1>4, <1>12
<1>14. \A k \in 1..4 : k - 1 \in T => k \in T BY <1>7, <1>12
<1> HIDE DEF T
<1>15. \A k \in 0..4 : k \in T BY <1>13, <1>14, LoopStays
<1>16. Decode[4] \in X BY <1>15 DEF T
<1> QED BY <1>5, <1>16 DEF X, Decoders

-----------------------------------------------------------------------------
(* Cutting curves *)

\* Clipping moves the points of an outline, and keeps all of them.
LEMMA ClipShape ==
  ASSUME NEW o \in Shapes, NEW w \in Nat, NEW h \in Nat
  PROVE ClipPoints(o, w, h) \in Shapes /\ Tied(o, ClipPoints(o, w, h))
<1> DEFINE q == ClipPoints(o, w, h)
           Within(v, n) == IF v < 0 THEN 0 ELSE IF v > n * Sub THEN n * Sub ELSE v
           P == [i \in DOMAIN o.points |-> [x |-> Within(o.points[i].x, w), y |-> Within(o.points[i].y, h)]]
<1>1. o \in Records BY ShapeParts
<1>2. o.points \in Seq(Points) BY <1>1 DEF Records
<1>3. q = [o EXCEPT !.points = P] BY DEF ClipPoints
<1>4. ASSUME NEW v \in Int, NEW n \in Nat PROVE Within(v, n) \in Int
  <2>1. n * Sub \in Int BY OutlinesAssumption
  <2> QED BY <2>1
<1> HIDE DEF Within
<1>5. P \in [1..Len(o.points) -> Points]
  <2>1. DOMAIN o.points = 1..Len(o.points) /\ \A i \in 1..Len(o.points) : o.points[i] \in Points BY <1>2
  <2>2. \A i \in 1..Len(o.points) : o.points[i].x \in Int /\ o.points[i].y \in Int BY <2>1 DEF Points
  <2>3. \A i \in 1..Len(o.points) : Within(o.points[i].x, w) \in Int /\ Within(o.points[i].y, h) \in Int BY <1>4, <2>2
  <2> QED BY <2>1, <2>3 DEF Points
<1> HIDE DEF P, q
<1>6. P \in Seq(Points) /\ Len(P) = Len(o.points)
  <2>1. Len(o.points) \in Nat BY <1>2
  <2> QED BY <1>5, <2>1
<1>7. q \in Records /\ q.points = P /\ q.lines = o.lines /\ q.curves = o.curves /\ q.ok = o.ok /\ q.cap = o.cap
  BY <1>1, <1>3, <1>6 DEF Records
<1>8. \A l \in 1..Len(q.lines) : q.lines[l] \in LinesIn(Len(q.points)) BY <1>6, <1>7, ShapeParts
<1>9. \A c \in 1..Len(q.curves) : q.curves[c] \in CurvesIn(Len(q.points)) BY <1>6, <1>7, ShapeParts
<1>10. q \in Shapes BY <1>7, <1>8, <1>9, ShapeMade
<1>11. Tied(o, q) BY <1>6, <1>7, TiedSame DEF Kept, Roomy
<1> QED BY <1>10, <1>11 DEF q

\* An outline whose curves are being cut, and the curves that are still to be.
Cuttings(m) ==
  {s \in [o : Wide(m), stack : Seq(Curves)] :
     \A i \in 1..Len(s.stack) : s.stack[i] \in CurvesIn(Len(s.o.points))}

LEMMA CuttingMade ==
  ASSUME NEW m \in Nat, NEW o \in Wide(m), NEW k \in Nat, Len(o.points) <= k, NEW p \in Wide(k), Len(p.points) = k,
         NEW stack \in Seq(Curves), \A i \in 1..Len(stack) : stack[i] \in CurvesIn(k)
  PROVE [o |-> p, stack |-> stack] \in Cuttings(m)
<1>1. o \in Shapes /\ m <= Len(o.points) /\ p \in Shapes BY DEF Wide
<1>2. o.points \in Seq(Points) BY <1>1, ShapeParts DEF Records
<1>3. p \in Wide(m) BY <1>1, <1>2 DEF Wide
<1> QED BY <1>3 DEF Cuttings

LEMMA OneMore ==
  ASSUME NEW S, NEW q \in Seq(S), NEW k \in 1..Len(q)
  PROVE SubSeq(q, 1, k - 1) \in Seq(S) /\ q[k] \in S /\ SubSeq(q, 1, k) = Append(SubSeq(q, 1, k - 1), q[k])
<1>1. Len(q) \in Nat /\ k \in Nat /\ k - 1 \in Nat /\ \A i \in 1..Len(q) : q[i] \in S OBVIOUS
<1>2. SubSeq(q, 1, k - 1) \in Seq(S) /\ Len(SubSeq(q, 1, k - 1)) = k - 1 /\ \A i \in 1..(k - 1) : SubSeq(q, 1, k - 1)[i] = q[i]
  BY <1>1, SubSeqProperties
<1>3. SubSeq(q, 1, k) \in Seq(S) /\ Len(SubSeq(q, 1, k)) = k /\ \A i \in 1..k : SubSeq(q, 1, k)[i] = q[i]
  BY <1>1, SubSeqProperties
<1> DEFINE u == SubSeq(q, 1, k - 1)
           v == SubSeq(q, 1, k)
           a == Append(u, q[k])
<1> HIDE DEF u, v
<1>4. a \in Seq(S) /\ Len(a) = k /\ a[k] = q[k] /\ \A i \in 1..(k - 1) : a[i] = u[i] BY <1>1, <1>2 DEF u
<1> HIDE DEF a
<1>5. \A i \in 1..k : v[i] = a[i]
  <2>1. \A i \in 1..k : i = k \/ i \in 1..(k - 1) BY <1>1
  <2> QED BY <1>2, <1>3, <1>4, <2>1 DEF u, v
<1>6. v = a BY <1>3, <1>4, <1>5, SeqEqual DEF v
<1> QED BY <1>1, <1>2, <1>6 DEF u, v, a

LEMMA TwoMore ==
  ASSUME NEW S, NEW q \in Seq(S), NEW a \in S, NEW b \in S
  PROVE q \o <<a, b>> = Append(Append(q, a), b)
<1> DEFINE u == q \o <<a, b>>
           v == Append(Append(q, a), b)
           n == Len(q)
<1>1. n \in Nat /\ <<a, b>> \in Seq(S) /\ Len(<<a, b>>) = 2 /\ <<a, b>>[1] = a /\ <<a, b>>[2] = b OBVIOUS
<1>2. u \in Seq(S) /\ Len(u) = n + 2 /\ \A i \in 1..(n + 2) : u[i] = IF i <= n THEN q[i] ELSE <<a, b>>[i - n]
  BY <1>1, ConcatProperties
<1>3. v \in Seq(S) /\ Len(v) = n + 2 /\ v[n + 1] = a /\ v[n + 2] = b /\ \A i \in 1..n : v[i] = q[i] OBVIOUS
<1> HIDE DEF u, v, n
<1>4. ASSUME NEW i \in 1..(n + 2) PROVE u[i] = v[i]
  <2>1. CASE i \in 1..n BY <1>1, <1>2, <1>3, <2>1
  <2>2. CASE i = n + 1
    <3>1. ~(i <= n) /\ i - n = 1 BY <1>1, <2>2
    <3> QED BY <1>1, <1>2, <1>3, <2>2, <3>1
  <2>3. CASE i = n + 2
    <3>1. ~(i <= n) /\ i - n = 2 BY <1>1, <2>3
    <3> QED BY <1>1, <1>2, <1>3, <2>3, <3>1
  <2> QED BY <1>1, <2>1, <2>2, <2>3
<1>5. u = v BY <1>2, <1>3, <1>4, SeqEqual
<1> QED BY <1>5 DEF u, v

LEMMA CuttingSizes ==
  ASSUME NEW m \in Nat, NEW s \in Cuttings(m)
  PROVE Len(s.o.points) \in Nat /\ Len(s.stack) \in Nat
<1>1. s.o \in Shapes /\ s.stack \in Seq(Curves) BY DEF Cuttings, Wide
<1>2. s.o.points \in Seq(Points) BY <1>1, ShapeParts DEF Records
<1> QED BY <1>1, <1>2

\* A turn of the cutting in an outline that stays good: the lines there are and the curves
\* in hand begin and end as often at each point as before, and the curve in hand has become
\* a line, or three points are new.
Follows(s, t) ==
  t.o.ok =>
    /\ Kept(s.o, t.o) /\ t.o.curves = s.o.curves
    /\ \A i \in Nat : Excess(t.o.lines, i) + Excess(t.stack, i) = Excess(s.o.lines, i) + Excess(s.stack, i)
    /\ IF s.stack = <<>> THEN t = s
       ELSE 2 * Len(t.o.points) - 3 * Len(t.stack) = 2 * Len(s.o.points) - 3 * Len(s.stack) + 3

\* A turn of the cutting keeps curves and lines between points the outline has.
LEMMA CutShape ==
  ASSUME NEW m \in Nat, NEW s \in Cuttings(m)
  PROVE Cut(s) \in Cuttings(m) /\ Follows(s, Cut(s))
<1> DEFINE o == s.o
           P == o.points
           n == Len(P)
           top == Len(s.stack)
           c == s.stack[top]
           ctrl0 == Push(o, "points", Midpoint(P[c.beg], P[c.ctrl]))
           ctrl1 == Push(ctrl0, "points", Midpoint(P[c.ctrl], P[c.end]))
           pivot == Push(ctrl1, "points", Midpoint(ctrl1.points[n + 1], ctrl1.points[n + 2]))
           below == SubSeq(s.stack, 1, top - 1)
           line == Push(o, "lines", [beg |-> c.beg, end |-> c.end])
           one == [beg |-> c.beg, end |-> n + 3, ctrl |-> n + 1]
           two == [beg |-> n + 3, end |-> c.end, ctrl |-> n + 2]
           Done == ~o.ok \/ s.stack = <<>>
           Flat == IsFlat(o, c) \/ top > Stack
           Full0 == ~ctrl1.ok \/ ~pivot.ok
<1>1. Cut(s) = IF Done THEN s
               ELSE IF Flat THEN [o |-> line, stack |-> below]
               ELSE IF Full0 THEN [s EXCEPT !.o = Bad(o)]
               ELSE [o |-> pivot, stack |-> below \o <<one, two>>]
  BY DEF Cut
<1> HIDE DEF Flat, Full0
<1>2. CASE Done
  <2>1. Cut(s) = s BY <1>1, <1>2
  <2>2. s.o.ok => s.stack = <<>> BY <1>2
  <2> QED BY <2>1, <2>2 DEF Follows, Kept
<1>3. SUFFICES ASSUME ~Done PROVE Cut(s) \in Cuttings(m) /\ Follows(s, Cut(s)) BY <1>2
<1>4. s.stack # <<>> BY <1>3
<1> HIDE DEF Done
<1>5. s \in [o : Wide(m), stack : Seq(Curves)] /\ \A i \in 1..Len(s.stack) : s.stack[i] \in CurvesIn(Len(s.o.points))
  BY DEF Cuttings
<1>6. o \in Wide(m) /\ o \in Shapes /\ s.stack \in Seq(Curves) BY <1>5 DEF Wide
<1>7. P \in Seq(Points) /\ n \in Nat
  <2>1. P \in Seq(Points) BY <1>6, ShapeParts DEF Records
  <2> HIDE DEF P
  <2> QED BY <2>1
<1>8. top \in Nat /\ top \in 1..Len(s.stack)
  <2>1. Len(s.stack) \in Nat /\ Len(s.stack) # 0 BY <1>4, <1>6
  <2> QED BY <2>1
<1>9. c \in CurvesIn(n) BY <1>5, <1>8
<1>10. below \in Seq(Curves) /\ Len(below) = top - 1 /\ \A i \in 1..Len(below) : below[i] \in CurvesIn(n)
  <2>1. below \in Seq(Curves) /\ Len(below) = top - 1 /\ \A i \in 1..(top - 1) : below[i] = s.stack[i]
    BY <1>6, <1>8, SubSeqProperties
  <2>2. \A i \in 1..(top - 1) : i \in 1..Len(s.stack) BY <1>8
  <2>3. \A i \in 1..Len(s.stack) : s.stack[i] \in CurvesIn(n) BY <1>5
  <2> HIDE DEF below, n, top
  <2> QED BY <2>1, <2>2, <2>3
<1>b. c \in Curves /\ s.stack = Append(below, c)
  <2>1. SubSeq(s.stack, 1, top) = s.stack BY <1>6, SubSeqFull
  <2> QED BY <1>6, <1>8, <2>1, OneMore
<1>c. ASSUME NEW i \in Nat
      PROVE /\ Excess(below, i) \in Int
            /\ Excess(s.stack, i) = Excess(below, i) + Here(c.beg, i) - Here(c.end, i)
  <2> HIDE DEF below, c
  <2>1. /\ Excess(below, i) \in Int
        /\ Excess(Append(below, c), i) = Excess(below, i) + Here(c.beg, i) - Here(c.end, i)
    BY <1>10, <1>b, ExcessAppend
  <2> QED BY <1>b, <2>1
<1>d. \A a, i : Here(a, i) \in Nat BY DEF Here
<1> HIDE DEF below, top
<1>11. CASE Flat
  <2>1. [beg |-> c.beg, end |-> c.end] \in LinesIn(n) BY <1>9 DEF CurvesIn, LinesIn
  <2>2. /\ line \in Shapes /\ line.points = P /\ Kept(o, line)
        /\ line.ok => line.lines = Append(o.lines, [beg |-> c.beg, end |-> c.end]) /\ line.curves = o.curves
    BY <1>6, <2>1, PushLine
  <2> HIDE DEF line
  <2>3. Len(line.points) = n /\ n <= n BY <1>7, <2>2
  <2>4. line \in Wide(n) BY <2>2, <2>3 DEF Wide
  <2>5. [o |-> line, stack |-> below] \in Cuttings(m) BY <1>6, <1>7, <1>10, <2>3, <2>4, CuttingMade
  <2>6. Cut(s) = [o |-> line, stack |-> below] BY <1>1, <1>3, <1>11
  <2>7. ASSUME line.ok, NEW i \in Nat
        PROVE Excess(line.lines, i) + Excess(below, i) = Excess(o.lines, i) + Excess(s.stack, i)
    <3> DEFINE e == [beg |-> c.beg, end |-> c.end]
    <3>1. e \in Lines /\ e.beg = c.beg /\ e.end = c.end BY <1>b DEF Lines, Curves
    <3>2. o.lines \in Seq(Lines) BY <1>6, ShapeParts DEF Records
    <3> HIDE DEF o, c
    <3>3. line.lines = Append(o.lines, e) BY <2>2, <2>7
    <3> HIDE DEF e
    <3>4. Excess(o.lines, i) \in Int /\ Excess(line.lines, i) = Excess(o.lines, i) + Here(c.beg, i) - Here(c.end, i)
      BY <3>1, <3>2, <3>3, ExcessAppend
    <3> QED BY <1>c, <1>d, <3>4
  <2>8. 2 * n - 3 * Len(below) = 2 * n - 3 * top + 3
    <3> HIDE DEF n
    <3> QED BY <1>7, <1>8, <1>10
  <2>9. Follows(s, Cut(s))
    <3> DEFINE t == Cut(s)
    <3>1. t.o = line /\ t.stack = below BY <2>6
    <3> HIDE DEF t
    <3>2. Len(t.o.points) = n /\ s.stack # <<>> BY <1>4, <2>3, <3>1
    <3>3. t.o.ok => 2 * Len(t.o.points) - 3 * Len(t.stack) = 2 * Len(s.o.points) - 3 * Len(s.stack) + 3
      BY <2>8, <3>1, <3>2 DEF n, P, o, top
    <3>4. Kept(s.o, t.o) /\ (t.o.ok => t.o.curves = s.o.curves) BY <2>2, <3>1 DEF o
    <3>5. t.o.ok => \A i \in Nat : Excess(t.o.lines, i) + Excess(t.stack, i) = Excess(s.o.lines, i) + Excess(s.stack, i)
      BY <2>7, <3>1 DEF o
    <3>6. Follows(s, t) BY <3>2, <3>3, <3>4, <3>5 DEF Follows
    <3> QED BY <3>6 DEF t
  <2> QED BY <2>5, <2>6, <2>9
<1>12. CASE ~Flat /\ Full0
  <2>1. Bad(o) \in Shapes /\ Bad(o).points = P BY <1>6, BadShape
  <2>2. Cut(s) = [s EXCEPT !.o = Bad(o)] BY <1>1, <1>3, <1>12
  <2>3. [s EXCEPT !.o = Bad(o)] = [o |-> Bad(o), stack |-> s.stack] BY <1>5
  <2> HIDE DEF o
  <2>4. Len(Bad(o).points) = n /\ n <= n BY <1>7, <2>1
  <2>5. Bad(o) \in Wide(n) BY <2>1, <2>4 DEF Wide
  <2>6. \A i \in 1..Len(s.stack) : s.stack[i] \in CurvesIn(n) BY <1>5 DEF o
  <2>7. [o |-> Bad(o), stack |-> s.stack] \in Cuttings(m) BY <1>6, <1>7, <2>4, <2>5, <2>6, CuttingMade
  <2>8. ~Cut(s).o.ok BY <1>6, <2>2, <2>3, BadShape
  <2> QED BY <2>2, <2>3, <2>7, <2>8 DEF Follows
<1>13. CASE ~Flat /\ ~Full0
  <2>1. ctrl1.ok /\ pivot.ok BY <1>13 DEF Full0
  <2>2. c.beg \in 1..n /\ c.end \in 1..n /\ c.ctrl \in 1..n BY <1>9 DEF CurvesIn
  <2>3. P[c.beg] \in Points /\ P[c.ctrl] \in Points /\ P[c.end] \in Points BY <1>7, <2>2
  <2>4. Midpoint(P[c.beg], P[c.ctrl]) \in Points /\ Midpoint(P[c.ctrl], P[c.end]) \in Points BY <2>3, MidpointType
  <2>5. /\ ctrl0 \in Shapes /\ (ctrl0.ok => Len(ctrl0.points) = n + 1)
        /\ ctrl0.lines = o.lines /\ ctrl0.curves = o.curves /\ Kept(o, ctrl0)
    BY <1>6, <2>4, PushPoint
  <2> HIDE DEF ctrl0
  <2>6. /\ ctrl1 \in Shapes /\ ctrl0.ok /\ Len(ctrl1.points) = Len(ctrl0.points) + 1
        /\ ctrl1.lines = ctrl0.lines /\ ctrl1.curves = ctrl0.curves /\ Kept(ctrl0, ctrl1)
    BY <2>1, <2>4, <2>5, PushPoint
  <2> HIDE DEF ctrl1
  <2>7. Len(ctrl1.points) = n + 2 BY <1>7, <2>5, <2>6
  <2>8. ctrl1.points[n + 1] \in Points /\ ctrl1.points[n + 2] \in Points
    <3>1. ctrl1.points \in Seq(Points) BY <2>6, ShapeParts DEF Records
    <3>2. n + 1 \in 1..Len(ctrl1.points) /\ n + 2 \in 1..Len(ctrl1.points) BY <1>7, <2>7
    <3> QED BY <3>1, <3>2
  <2>9. Midpoint(ctrl1.points[n + 1], ctrl1.points[n + 2]) \in Points BY <2>8, MidpointType
  <2>10. /\ pivot \in Shapes /\ Len(pivot.points) = Len(ctrl1.points) + 1
         /\ pivot.lines = ctrl1.lines /\ pivot.curves = ctrl1.curves /\ Kept(ctrl1, pivot)
    BY <2>1, <2>6, <2>9, PushPoint
  <2> HIDE DEF pivot, n, c, o
  <2>11. n + 3 \in Nat /\ n <= n + 3 /\ Len(pivot.points) = n + 3 /\ n + 3 <= n + 3 BY <1>7, <2>7, <2>10
  <2>12. pivot \in Wide(n + 3) BY <2>10, <2>11 DEF Wide
  <2>13. one \in CurvesIn(n + 3) /\ two \in CurvesIn(n + 3) BY <1>7, <2>2 DEF CurvesIn
  <2>14. /\ one \in Curves /\ two \in Curves
         /\ one.beg = c.beg /\ one.end = n + 3 /\ two.beg = n + 3 /\ two.end = c.end
    BY <1>7, <2>2 DEF Curves
  <2> HIDE DEF one, two
  <2>15. below \o <<one, two>> \in Seq(Curves) /\ \A i \in 1..Len(below \o <<one, two>>) : (below \o <<one, two>>)[i] \in CurvesIn(n + 3)
    <3>1. <<one, two>> \in Seq(Curves) /\ Len(<<one, two>>) = 2 BY <2>14
    <3>2. below \o <<one, two>> \in Seq(Curves) BY <1>10, <3>1
    <3>3. CurvesIn(n) \subseteq CurvesIn(n + 3) BY <1>7 DEF CurvesIn
    <3>4. ASSUME NEW i \in 1..Len(below \o <<one, two>>) PROVE (below \o <<one, two>>)[i] \in CurvesIn(n + 3)
      <4>1. Len(below) \in Nat /\ Len(below \o <<one, two>>) = Len(below) + 2 BY <1>10, <3>1
      <4>2. CASE i \in 1..Len(below)
        <5>1. (below \o <<one, two>>)[i] = below[i] BY <1>10, <3>1, <4>1, <4>2
        <5> QED BY <1>10, <3>3, <4>2, <5>1
      <4>3. CASE i = Len(below) + 1
        <5>1. (below \o <<one, two>>)[i] = one BY <1>10, <3>1, <4>1, <4>3
        <5> QED BY <2>13, <5>1
      <4>4. CASE i = Len(below) + 2
        <5>1. (below \o <<one, two>>)[i] = two BY <1>10, <3>1, <4>1, <4>4
        <5> QED BY <2>13, <5>1
      <4> QED BY <4>1, <4>2, <4>3, <4>4
    <3> QED BY <3>2, <3>4
  <2>16. Len(o.points) <= n + 3 BY <2>11 DEF n
  <2>17. [o |-> pivot, stack |-> below \o <<one, two>>] \in Cuttings(m)
    BY <1>6, <2>11, <2>12, <2>15, <2>16, CuttingMade
  <2>18. Cut(s) = [o |-> pivot, stack |-> below \o <<one, two>>] BY <1>1, <1>3, <1>13
  <2> DEFINE t == Cut(s)
  <2>19. t.o = pivot /\ t.stack = below \o <<one, two>> BY <2>18
  <2> HIDE DEF t
  <2>20. t.stack = Append(Append(below, one), two) BY <1>10, <2>14, <2>19, TwoMore
  <2>21. ASSUME NEW i \in Nat
         PROVE Excess(t.o.lines, i) + Excess(t.stack, i) = Excess(o.lines, i) + Excess(s.stack, i)
    <3>1. Append(below, one) \in Seq(Curves) BY <1>10, <2>14
    <3>2. Excess(Append(below, one), i) = Excess(below, i) + Here(one.beg, i) - Here(one.end, i)
      BY <1>10, <2>14, ExcessAppend
    <3>3. Excess(Append(Append(below, one), two), i) = Excess(Append(below, one), i) + Here(two.beg, i) - Here(two.end, i)
      BY <2>14, <3>1, ExcessAppend
    <3> DEFINE b == Here(c.beg, i)
               e == Here(c.end, i)
               p == Here(n + 3, i)
               x == Excess(below, i)
               y == Excess(Append(below, one), i)
    <3>4. x \in Int /\ b \in Nat /\ e \in Nat /\ p \in Nat BY <1>c, <1>d
    <3>5. y = x + b - p /\ Excess(t.stack, i) = y + p - e BY <2>14, <2>20, <3>2, <3>3
    <3>6. Excess(s.stack, i) = x + b - e BY <1>c
    <3> HIDE DEF b, e, p, x, y
    <3>7. Excess(t.stack, i) = Excess(s.stack, i) BY <3>4, <3>5, <3>6
    <3> QED BY <2>5, <2>6, <2>10, <2>19, <3>7
  <2>22. Kept(o, t.o) /\ t.o.curves = o.curves BY <2>5, <2>6, <2>10, <2>19 DEF Kept
  <2>23. Len(t.o.points) = n + 3 /\ Len(t.stack) = top + 1
    <3>1. Len(t.stack) = Len(below) + 2 BY <1>10, <2>14, <2>19
    <3> QED BY <1>8, <1>10, <2>11, <2>19, <3>1
  <2>24. 2 * Len(t.o.points) - 3 * Len(t.stack) = 2 * n - 3 * top + 3 BY <1>7, <1>8, <2>23
  <2>25. Follows(s, t) BY <1>4, <2>21, <2>22, <2>24 DEF Follows, n, o, top
  <2> QED BY <2>17, <2>18, <2>25 DEF t
<1> QED BY <1>11, <1>12, <1>13

\* Cutting a curve leaves the points the outline had, and comes to an end: what is added to
\* an outline that stays good are lines from where the curve begins to where it ends.
LEMMA TesselateShape ==
  ASSUME NEW m \in Nat, NEW o \in Wide(m), NEW c \in CurvesIn(m)
  PROVE LET q == TesselateCurve(c, o)
        IN /\ q \in Wide(m) /\ Kept(o, q)
           /\ q.ok /\ Roomy(o) =>
                \A i \in Nat : Excess(q.lines, i) = Excess(o.lines, i) + Here(c.beg, i) - Here(c.end, i)
<1>a. o \in Shapes /\ m <= Len(o.points) /\ Len(o.points) \in Nat
  <2>1. o \in Shapes /\ m <= Len(o.points) BY DEF Wide
  <2>2. o.points \in Seq(Points) BY <2>1, ShapeParts DEF Records
  <2> QED BY <2>1, <2>2
<1>b. c \in Curves /\ c \in CurvesIn(Len(o.points)) BY <1>a DEF Curves, CurvesIn
<1> DEFINE X == Cuttings(m)
           n == MaxTurns
           base == [o |-> o, stack |-> <<c>>]
           Step(s, k) == Cut(s)
           turn == [k \in 1..n |-> [s \in X |-> Step(s, k)]]
           Run(f) == f = [k \in 0..n |-> IF k = 0 THEN base ELSE Step(f[k - 1], k)]
           End == CHOOSE f : Run(f)
<1>1. n \in Nat BY OutlinesAssumption DEF MaxTurns
<1>2. base \in X
  <2>1. <<c>> \in Seq(Curves) /\ \A i \in 1..Len(<<c>>) : <<c>>[i] \in CurvesIn(Len(o.points)) BY <1>b
  <2> QED BY <2>1 DEF Cuttings
<1>3. ASSUME NEW k \in 1..n, NEW s \in X PROVE Step(s, k) \in X /\ Follows(s, Step(s, k))
  BY CutShape
<1>d. base.o = o /\ base.stack = <<c>> OBVIOUS
<1>4. TesselateCurve(c, o) = End[n].o BY DEF TesselateCurve
<1> HIDE DEF n, X, base, Step
<1>5. \A k \in 1..n, s \in X : turn[k][s] = Step(s, k) OBVIOUS
<1> HIDE DEF turn
<1>6. Turns(X, n, turn) BY <1>3, <1>5 DEF Turns
<1>7. PICK h : Turned(X, base, n, turn, h) BY <1>1, <1>2, <1>6, Loop
<1>8. Run(h)
  <2>1. ASSUME NEW k \in 1..n PROVE h[k] = Step(h[k - 1], k)
    <3>1. k - 1 \in 0..n BY <1>1
    <3> QED BY <1>5, <1>7, <3>1 DEF Turned
  <2>2. \A k \in 0..n : k # 0 => k \in 1..n BY <1>1
  <2> QED BY <1>7, <2>1, <2>2 DEF Turned
<1>9. Run(End) BY <1>8
<1> HIDE DEF End
<1>10. End[0] = base BY <1>1, <1>9
<1>11. \A k \in 1..n : End[k] = Step(End[k - 1], k) BY <1>1, <1>9
<1> DEFINE Even(s) == \A i \in Nat : Excess(s.o.lines, i) + Excess(s.stack, i) = Excess(o.lines, i) + Here(c.beg, i) - Here(c.end, i)
           Long(s, k) == s.stack # <<>> => 2 * Len(s.o.points) - 3 * Len(s.stack) = 2 * Len(o.points) - 3 + 3 * k
           Good(s, k) == Kept(o, s.o) /\ (s.o.ok => Even(s) /\ Long(s, k))
           T == {k \in 0..n : End[k] \in X /\ Good(End[k], k)}
<1>12. 0 \in T
  <2>1. Even(base)
    <3> SUFFICES ASSUME NEW i \in Nat
                 PROVE Excess(o.lines, i) + Excess(<<c>>, i) = Excess(o.lines, i) + Here(c.beg, i) - Here(c.end, i)
      BY <1>d
    <3>1. <<>> \in Seq(Curves) /\ <<c>> = Append(<<>>, c) OBVIOUS
    <3>2. Excess(Append(<<>>, c), i) = Excess(<<>>, i) + Here(c.beg, i) - Here(c.end, i) BY <1>b, <3>1, ExcessAppend
    <3>3. Excess(<<>>, i) = 0 BY ExcessEmpty
    <3>4. Excess(o.lines, i) \in Int BY <1>a, DegreeType
    <3>5. Here(c.beg, i) \in Nat /\ Here(c.end, i) \in Nat BY DEF Here
    <3> QED BY <3>1, <3>2, <3>3, <3>4, <3>5
  <2>2. Long(base, 0)
    <3>1. Len(<<c>>) = 1 OBVIOUS
    <3> QED BY <1>a, <1>d, <3>1
  <2>3. Kept(o, base.o) BY <1>d DEF Kept
  <2> HIDE DEF Even, Long
  <2> QED BY <1>1, <1>2, <1>10, <2>1, <2>2, <2>3
<1>13. ASSUME NEW k \in 1..n, k - 1 \in T PROVE k \in T
  <2> DEFINE s == End[k - 1]
             t == End[k]
  <2>1. s \in X /\ Good(s, k - 1) BY <1>13
  <2>2. t \in X /\ Follows(s, t) BY <1>3, <1>11, <2>1
  <2> HIDE DEF s, t
  <2>3. Kept(o, t.o) BY <2>1, <2>2 DEF Follows, Kept
  <2>4. ASSUME t.o.ok PROVE Even(t) /\ Long(t, k)
    <3>1. s.o.ok /\ Even(s) /\ Long(s, k - 1) BY <2>1, <2>2, <2>4 DEF Follows, Kept
    <3>2. Even(t) BY <2>2, <2>4, <3>1 DEF Follows
    <3>3. Long(t, k)
      <4> SUFFICES ASSUME t.stack # <<>> PROVE 2 * Len(t.o.points) - 3 * Len(t.stack) = 2 * Len(o.points) - 3 + 3 * k OBVIOUS
      <4> HIDE DEF Even
      <4>1. s.stack # <<>> BY <2>2, <2>4 DEF Follows
      <4>2. 2 * Len(t.o.points) - 3 * Len(t.stack) = 2 * Len(s.o.points) - 3 * Len(s.stack) + 3
        BY <2>2, <2>4, <4>1 DEF Follows
      <4>3. 2 * Len(s.o.points) - 3 * Len(s.stack) = 2 * Len(o.points) - 3 + 3 * (k - 1) BY <3>1, <4>1
      <4>4. k \in Nat BY <1>1
      <4>5. Len(s.o.points) \in Nat /\ Len(s.stack) \in Nat BY <2>1, CuttingSizes DEF X
      <4>6. Len(t.o.points) \in Nat /\ Len(t.stack) \in Nat BY <2>2, CuttingSizes DEF X
      <4> DEFINE a == Len(s.o.points)
                 b == Len(s.stack)
                 u == Len(t.o.points)
                 v == Len(t.stack)
                 d == Len(o.points)
      <4>7. 2 * u - 3 * v = 2 * a - 3 * b + 3 /\ 2 * a - 3 * b = 2 * d - 3 + 3 * (k - 1) BY <4>2, <4>3
      <4>8. a \in Nat /\ b \in Nat /\ u \in Nat /\ v \in Nat /\ d \in Nat BY <1>a, <4>5, <4>6
      <4> HIDE DEF a, b, u, v, d
      <4>9. 2 * u - 3 * v = 2 * d - 3 + 3 * k BY <4>4, <4>7, <4>8
      <4> QED BY <4>9 DEF u, v, d
    <3> QED BY <3>2, <3>3
  <2> HIDE DEF Even, Long
  <2>5. Good(t, k) BY <2>3, <2>4
  <2>6. k \in 0..n BY <1>1
  <2> QED BY <2>2, <2>5, <2>6 DEF t
<1> HIDE DEF T
<1>14. \A k \in 0..n : k \in T BY <1>1, <1>12, <1>13, LoopStays
<1> DEFINE s == End[n]
<1>15. s \in X /\ Good(s, n)
  <2> HIDE DEF Good
  <2>1. n \in T BY <1>1, <1>14
  <2> QED BY <2>1 DEF T
<1> HIDE DEF s
<1>16. /\ s.o \in Shapes /\ s.o \in Wide(m) /\ s.stack \in Seq(Curves)
  BY <1>15 DEF X, Cuttings, Wide
<1>17. s.o.ok /\ Roomy(o) => s.stack = <<>>
  <2> SUFFICES ASSUME s.o.ok, Roomy(o), s.stack # <<>> PROVE FALSE OBVIOUS
  <2>1. Roomy(s.o) /\ Long(s, n) BY <1>15 DEF Kept
  <2>2. 2 * Len(s.o.points) - 3 * Len(s.stack) = 2 * Len(o.points) - 3 + 3 * n BY <2>1
  <2>3. Len(s.o.points) <= s.o.cap.points /\ s.o.cap.points <= 2 * (FirstCap + GrowLimit) BY <2>1 DEF Roomy
  <2>4. Len(s.o.points) \in Nat /\ s.o.cap.points \in Nat BY <1>16, ShapeParts DEF Records, Caps
  <2>5. Len(s.stack) \in Nat /\ Len(s.stack) # 0 BY <1>16
  <2>6. FirstCap \in Nat /\ GrowLimit \in Nat /\ n = 2 * (FirstCap + GrowLimit) + 1 BY OutlinesAssumption DEF n, MaxTurns
  <2> DEFINE a == Len(s.o.points)
             b == Len(s.stack)
             d == Len(o.points)
             u == FirstCap + GrowLimit
  <2>7. a <= 2 * u /\ u \in Nat /\ n = 2 * u + 1
    <3> DEFINE cap == s.o.cap.points
    <3>1. a <= cap /\ cap <= 2 * u /\ cap \in Nat /\ a \in Nat /\ u \in Nat BY <2>3, <2>4, <2>6
    <3> HIDE DEF cap, a, u
    <3>2. a <= 2 * u BY <3>1
    <3> QED BY <2>6, <3>1, <3>2 DEF u
  <2>8. a \in Nat /\ b \in Nat /\ b # 0 /\ d \in Nat /\ 2 * a - 3 * b = 2 * d - 3 + 3 * n BY <1>a, <2>2, <2>4, <2>5
  <2> HIDE DEF Good, Even, Long, a, b, d, u
  <2> QED BY <2>7, <2>8
<1>18. ASSUME s.o.ok, Roomy(o), NEW i \in Nat
       PROVE Excess(s.o.lines, i) = Excess(o.lines, i) + Here(c.beg, i) - Here(c.end, i)
  <2>1. Excess(s.o.lines, i) + Excess(s.stack, i) = Excess(o.lines, i) + Here(c.beg, i) - Here(c.end, i)
    BY <1>15, <1>18
  <2>2. Excess(s.stack, i) = 0 BY <1>17, <1>18, ExcessEmpty
  <2>3. Excess(s.o.lines, i) \in Int BY <1>16, DegreeType
  <2> HIDE DEF Good, Even, Long
  <2> QED BY <2>1, <2>2, <2>3
<1> HIDE DEF Even, Long
<1> QED BY <1>4, <1>15, <1>16, <1>18 DEF s

\* All curves of an outline can be cut, one after the other.
LEMMA TesselateAllShape ==
  ASSUME NEW o \in Shapes
  PROVE LET q == TesselateCurves(o)
        IN /\ q \in Shapes /\ Kept(o, q)
           /\ q.ok /\ Roomy(o) => \A i \in Nat : Excess(q.lines, i) = Degree(o, i)
<1> DEFINE m == Len(o.points)
           After(s, c) == IF ~s.ok THEN s ELSE TesselateCurve(c, s)
<1>a. o.points \in Seq(Points) /\ o.curves \in Seq(Curves) BY ShapeParts DEF Records
<1>b. m \in Nat /\ o \in Wide(m) BY <1>a DEF Wide
<1>c. \A k \in 1..Len(o.curves) : o.curves[k] \in CurvesIn(m) BY ShapeParts
<1> HIDE DEF m
<1> DEFINE X == Wide(m)
           n == Len(o.curves)
           base == o
           Step(s, k) == After(s, o.curves[k])
           turn == [k \in 1..n |-> [s \in X |-> Step(s, k)]]
           Run(f) == f = [k \in 0..n |-> IF k = 0 THEN base ELSE Step(f[k - 1], k)]
           End == CHOOSE f : Run(f)
<1>1. n \in Nat BY <1>a
<1>2. base \in X BY <1>b
<1> DEFINE More(s, t, k) ==
             /\ Kept(s, t)
             /\ t.ok /\ Roomy(s) => \A i \in Nat : Excess(t.lines, i) = Excess(s.lines, i) + Here(o.curves[k].beg, i) - Here(o.curves[k].end, i)
<1>3. ASSUME NEW k \in 1..n, NEW s \in X PROVE Step(s, k) \in X /\ More(s, Step(s, k), k)
  <2>1. o.curves[k] \in CurvesIn(m) BY <1>c
  <2> DEFINE t == TesselateCurve(o.curves[k], s)
  <2>2. t \in Wide(m) /\ More(s, t, k) BY <1>b, <2>1, TesselateShape
  <2>3. Step(s, k) = IF ~s.ok THEN s ELSE t OBVIOUS
  <2>4. ~s.ok => More(s, s, k) BY DEF Kept
  <2> HIDE DEF t, More
  <2> QED BY <2>2, <2>3, <2>4
<1>4. TesselateCurves(o) = End[n] BY DEF TesselateCurves
<1> HIDE DEF n, X, base, Step
<1>5. \A k \in 1..n, s \in X : turn[k][s] = Step(s, k) OBVIOUS
<1> HIDE DEF turn
<1>6. Turns(X, n, turn) BY <1>3, <1>5 DEF Turns
<1>7. PICK h : Turned(X, base, n, turn, h) BY <1>1, <1>2, <1>6, Loop
<1>8. Run(h)
  <2>1. ASSUME NEW k \in 1..n PROVE h[k] = Step(h[k - 1], k)
    <3>1. k - 1 \in 0..n BY <1>1
    <3> QED BY <1>5, <1>7, <3>1 DEF Turned
  <2>2. \A k \in 0..n : k # 0 => k \in 1..n BY <1>1
  <2> QED BY <1>7, <2>1, <2>2 DEF Turned
<1>9. Run(End) BY <1>8
<1> HIDE DEF End
<1>10. End[0] = base BY <1>1, <1>9
<1>11. \A k \in 1..n : End[k] = Step(End[k - 1], k) BY <1>1, <1>9
<1> DEFINE Sum(s, k) == \A i \in Nat : Excess(s.lines, i) = Excess(o.lines, i) + Excess(SubSeq(o.curves, 1, k), i)
           Good(s, k) == Kept(o, s) /\ (s.ok /\ Roomy(o) => Sum(s, k))
           T == {k \in 0..n : End[k] \in X /\ Good(End[k], k)}
<1>12. 0 \in T
  <2>1. SubSeq(o.curves, 1, 0) = <<>> BY SubSeqEmpty
  <2>2. Sum(o, 0)
    <3> SUFFICES ASSUME NEW i \in Nat PROVE Excess(o.lines, i) = Excess(o.lines, i) + Excess(<<>>, i) BY <2>1
    <3>1. Excess(o.lines, i) \in Int /\ Excess(<<>>, i) = 0 BY DegreeType, ExcessEmpty
    <3> QED BY <3>1
  <2>3. Kept(o, o) BY DEF Kept
  <2>4. base = o BY DEF base
  <2> HIDE DEF Sum
  <2> QED BY <1>1, <1>2, <1>10, <2>2, <2>3, <2>4
<1>13. ASSUME NEW k \in 1..n, k - 1 \in T PROVE k \in T
  <2> DEFINE s == End[k - 1]
             t == End[k]
  <2>1. s \in X /\ Good(s, k - 1) BY <1>13
  <2>2. t \in X /\ More(s, t, k) BY <1>3, <1>11, <2>1
  <2> HIDE DEF s, t
  <2>3. Kept(o, t) BY <2>1, <2>2 DEF Kept
  <2>4. ASSUME t.ok, Roomy(o), NEW i \in Nat
        PROVE Excess(t.lines, i) = Excess(o.lines, i) + Excess(SubSeq(o.curves, 1, k), i)
    <3>1. s.ok /\ Roomy(s) /\ Sum(s, k - 1) BY <2>1, <2>2, <2>4 DEF Kept
    <3>2. Excess(t.lines, i) = Excess(s.lines, i) + Here(o.curves[k].beg, i) - Here(o.curves[k].end, i) BY <2>2, <2>4, <3>1
    <3>3. Excess(s.lines, i) = Excess(o.lines, i) + Excess(SubSeq(o.curves, 1, k - 1), i) BY <3>1
    <3> HIDE DEF More, Sum, Good
    <3> DEFINE before == SubSeq(o.curves, 1, k - 1)
               e == o.curves[k]
    <3>4. k \in 1..Len(o.curves) BY DEF n
    <3>5. before \in Seq(Curves) /\ e \in Curves /\ SubSeq(o.curves, 1, k) = Append(before, e)
      BY <1>a, <3>4, OneMore
    <3> HIDE DEF before, e
    <3>6. Excess(before, i) \in Int /\ Excess(SubSeq(o.curves, 1, k), i) = Excess(before, i) + Here(e.beg, i) - Here(e.end, i)
      BY <3>5, ExcessAppend
    <3>7. Excess(o.lines, i) \in Int /\ Here(e.beg, i) \in Nat /\ Here(e.end, i) \in Nat BY DegreeType DEF Here
    <3> QED BY <3>2, <3>3, <3>6, <3>7 DEF before, e
  <2>5. Good(t, k)
    <3>1. t.ok /\ Roomy(o) => Sum(t, k) BY <2>4
    <3> HIDE DEF Sum
    <3> QED BY <2>3, <3>1
  <2>6. k \in 0..n BY <1>1
  <2> HIDE DEF Good
  <2> QED BY <2>2, <2>5, <2>6 DEF t
<1> HIDE DEF T
<1>14. \A k \in 0..n : k \in T BY <1>1, <1>12, <1>13, LoopStays
<1> DEFINE q == End[n]
<1>15. q \in X /\ Good(q, n) BY <1>1, <1>14 DEF T
<1>16. SubSeq(o.curves, 1, n) = o.curves BY <1>a, SubSeqFull DEF n
<1> HIDE DEF q
<1>17. q.ok /\ Roomy(o) => \A i \in Nat : Excess(q.lines, i) = Degree(o, i) BY <1>15, <1>16 DEF Degree
<1>18. q \in Shapes BY <1>15 DEF X, Wide
<1>19. Kept(o, q) BY <1>15
<1> HIDE DEF Good
<1> QED BY <1>4, <1>17, <1>18, <1>19 DEF q

-----------------------------------------------------------------------------
(* Lines to pixels *)

\* A span of a line within a pixel.
Span == [x : Int, y : Int, from : Int, to : Int]

LEMMA PixelType ==
  ASSUME NEW v \in Int, NEW n \in Nat
  PROVE Pixel(v, n) \in Int /\ Pixel(v, n) <= Floor(v) /\ Ceil(v) \in Int /\ Floor(v) \in Int
<1>1. Floor(v) \in Int /\ Ceil(v) \in Int BY Floors, Ceils
<1>2. v = n * Sub => Floor(v) = n
  <2> SUFFICES ASSUME v = n * Sub PROVE Floor(v) = n OBVIOUS
  <2>1. Sub \in Nat \ {0} BY OutlinesAssumption
  <2>2. (n * Sub) \div Sub = n BY <2>1, Division
  <2> QED BY <2>2 DEF Floor
<1> QED BY <1>1, <1>2 DEF Pixel

\* A line is followed over as many edges as there are between its ends: never less than none.
LEMMA SpansType ==
  ASSUME NEW a \in Points, NEW b \in Points, NEW w \in Nat, NEW h \in Nat
  PROVE Spans(a, b, w, h) \in Seq(Span)
<1> DEFINE dx == b.x - a.x
           dy == b.y - a.y
           Enter(v, d, n) == IF d < 0 THEN Ceil(v) - 1 ELSE Pixel(v, n)
           Edges(v, goal, d, n) ==
             IF d > 0 THEN Ceil(goal) - Pixel(v, n) - 1
             ELSE IF d < 0 THEN Ceil(v) - Pixel(goal, n) - 1 ELSE 0
           Incr(d) == IF d = 0 THEN Steps ELSE (Sub * Steps) \div Abs(d)
           FirstEdge(v, d, n) ==
             LET off == ((v - Sub * Enter(v, d, n)) * Steps) \div Abs(d)
             IN IF d = 0 THEN 100 * Steps ELSE IF d > 0 THEN Incr(d) - off ELSE off
           After(s) ==
             LET alongX == s.nx < s.ny
                 to == IF alongX THEN s.nx ELSE s.ny
                 onward == [s EXCEPT !.done = Append(@, [x |-> s.x, y |-> s.y, from |-> s.prev, to |-> to]),
                                   !.prev = to]
             IN IF alongX THEN [onward EXCEPT !.x = @ + Sign(dx), !.nx = @ + Incr(dx)]
                          ELSE [onward EXCEPT !.y = @ + Sign(dy), !.ny = @ + Incr(dy)]
           X == [x : Int, y : Int, prev : Int, done : Seq(Span), nx : Int, ny : Int]
           base == [x |-> Enter(a.x, dx, w), y |-> Enter(a.y, dy, h), prev |-> 0, done |-> <<>>,
                    nx |-> FirstEdge(a.x, dx, w), ny |-> FirstEdge(a.y, dy, h)]
           edges == Edges(a.x, b.x, dx, w) + Edges(a.y, b.y, dy, h)
           turn == [k \in Nat |-> [s \in X |-> After(s)]]
           Run(f) == f = [k \in Nat |-> IF k = 0 THEN base ELSE After(f[k - 1])]
           Walk == CHOOSE f : Run(f)
           last == Walk[edges]
<1>1. a.x \in Int /\ a.y \in Int /\ b.x \in Int /\ b.y \in Int /\ dx \in Int /\ dy \in Int BY DEF Points
<1>2. Sub \in Nat \ {0} /\ Steps \in Nat \ {0} BY OutlinesAssumption, RasterAssumption
<1>3. ASSUME NEW v \in Int, NEW goal \in Int, NEW n \in Nat PROVE Edges(v, goal, goal - v, n) \in Nat
  <2>1. Pixel(v, n) \in Int /\ Pixel(v, n) <= Floor(v) /\ Ceil(v) \in Int /\ Floor(v) \in Int BY PixelType
  <2>2. Pixel(goal, n) \in Int /\ Pixel(goal, n) <= Floor(goal) /\ Ceil(goal) \in Int /\ Floor(goal) \in Int BY PixelType
  <2>3. CASE goal - v > 0
    <3>1. Floor(v) < Ceil(goal) BY <2>3, FloorBelowCeil
    <3> QED BY <2>1, <2>2, <2>3, <3>1
  <2>4. CASE goal - v < 0
    <3>1. Floor(goal) < Ceil(v) BY <2>4, FloorBelowCeil
    <3> QED BY <2>1, <2>2, <2>4, <3>1
  <2>5. CASE goal - v = 0 BY <2>5
  <2> QED BY <2>3, <2>4, <2>5
<1>4. ASSUME NEW d \in Int PROVE Incr(d) \in Int /\ Sign(d) \in Int /\ (d # 0 => Abs(d) \in Nat \ {0})
  <2>1. d # 0 => Abs(d) \in Nat \ {0} BY DEF Abs
  <2>2. Sign(d) \in Int BY DEF Sign
  <2>3. Sub * Steps \in Int BY <1>2
  <2>4. d # 0 => (Sub * Steps) \div Abs(d) \in Int BY <2>1, <2>3, Division
  <2> QED BY <1>2, <2>1, <2>2, <2>4
<1>5. ASSUME NEW v \in Int, NEW d \in Int, NEW n \in Nat
      PROVE Enter(v, d, n) \in Int /\ FirstEdge(v, d, n) \in Int
  <2>1. Enter(v, d, n) \in Int BY PixelType
  <2> DEFINE e == Enter(v, d, n)
             near == (v - Sub * e) * Steps
             off == near \div Abs(d)
  <2>2. FirstEdge(v, d, n) = IF d = 0 THEN 100 * Steps ELSE IF d > 0 THEN Incr(d) - off ELSE off OBVIOUS
  <2> HIDE DEF e, Incr, FirstEdge
  <2>3. near \in Int BY <1>2, <2>1 DEF e
  <2> HIDE DEF near
  <2>4. d # 0 => off \in Int BY <1>4, <2>3, Division
  <2> HIDE DEF off
  <2>5. 100 * Steps \in Int /\ Incr(d) \in Int BY <1>2, <1>4
  <2> QED BY <2>1, <2>2, <2>4, <2>5 DEF e
<1> HIDE DEF Edges, Enter, FirstEdge, Incr
<1>6. edges \in Nat
  <2>1. Edges(a.x, b.x, dx, w) \in Nat /\ Edges(a.y, b.y, dy, h) \in Nat BY <1>1, <1>3
  <2> QED BY <2>1
<1>7. base \in X
  <2>1. <<>> \in Seq(Span) /\ 0 \in Int OBVIOUS
  <2>2. Enter(a.x, dx, w) \in Int /\ FirstEdge(a.x, dx, w) \in Int BY <1>1, <1>5
  <2>3. Enter(a.y, dy, h) \in Int /\ FirstEdge(a.y, dy, h) \in Int BY <1>1, <1>5
  <2> HIDE DEF dx, dy
  <2> QED BY <2>1, <2>2, <2>3
<1>8. ASSUME NEW s \in X PROVE After(s) \in X
  <2> DEFINE to == IF s.nx < s.ny THEN s.nx ELSE s.ny
             span == [x |-> s.x, y |-> s.y, from |-> s.prev, to |-> to]
             done == Append(s.done, span)
  <2>1. s.x \in Int /\ s.y \in Int /\ s.prev \in Int /\ s.nx \in Int /\ s.ny \in Int /\ s.done \in Seq(Span) OBVIOUS
  <2>2. to \in Int BY <2>1
  <2>3. After(s) = IF s.nx < s.ny
                   THEN [x |-> s.x + Sign(dx), y |-> s.y, prev |-> to, done |-> done, nx |-> s.nx + Incr(dx), ny |-> s.ny]
                   ELSE [x |-> s.x, y |-> s.y + Sign(dy), prev |-> to, done |-> done, nx |-> s.nx, ny |-> s.ny + Incr(dy)]
    <3> DEFINE onward == [s EXCEPT !.done = Append(@, span), !.prev = to]
    <3>1. After(s) = IF s.nx < s.ny THEN [onward EXCEPT !.x = @ + Sign(dx), !.nx = @ + Incr(dx)]
                     ELSE [onward EXCEPT !.y = @ + Sign(dy), !.ny = @ + Incr(dy)]
      OBVIOUS
    <3> HIDE DEF dx, dy, After, to, span
    <3>2. onward = [[s EXCEPT !.done = done] EXCEPT !.prev = to] OBVIOUS
    <3> HIDE DEF done, onward
    <3>3. [s EXCEPT !.done = done] = [x |-> s.x, y |-> s.y, prev |-> s.prev, done |-> done, nx |-> s.nx, ny |-> s.ny] OBVIOUS
    <3>4. onward = [x |-> s.x, y |-> s.y, prev |-> to, done |-> done, nx |-> s.nx, ny |-> s.ny] BY <3>2, <3>3
    <3> QED BY <3>1, <3>4
  <2> HIDE DEF to, After, dx, dy
  <2>4. span \in Span BY <2>1, <2>2 DEF Span
  <2> HIDE DEF span
  <2>5. done \in Seq(Span) BY <2>1, <2>4
  <2> HIDE DEF done
  <2>6. Sign(dx) \in Int /\ Sign(dy) \in Int /\ Incr(dx) \in Int /\ Incr(dy) \in Int BY <1>1, <1>4
  <2> QED BY <2>1, <2>2, <2>3, <2>5, <2>6
<1>9. Spans(a, b, w, h) = IF dy = 0 THEN <<>> ELSE Append(last.done, [x |-> last.x, y |-> last.y, from |-> last.prev, to |-> Steps])
  BY DEF Spans, Edges, Enter, FirstEdge, Incr
<1> HIDE DEF X, base, After, edges, dx, dy
<1>10. \A k \in Nat, s \in X : turn[k][s] = After(s) OBVIOUS
<1> HIDE DEF turn
<1>11. StepsStay(X, turn) BY <1>8, <1>10 DEF StepsStay
<1>12. PICK f : Iterates(X, base, turn, f) BY <1>7, <1>11, Iteration
<1>13. Run(f)
  <2>1. f \in [Nat -> X] /\ f[0] = base BY <1>12 DEF Iterates
  <2>2. ASSUME NEW k \in Nat, k # 0 PROVE f[k] = After(f[k - 1])
    <3>1. k - 1 \in Nat /\ (k - 1) + 1 = k BY <2>2
    <3>2. f[(k - 1) + 1] = turn[k - 1][f[k - 1]] /\ f[k - 1] \in X BY <1>12, <3>1 DEF Iterates
    <3> QED BY <1>10, <3>1, <3>2
  <2> QED BY <2>1, <2>2
<1>14. Run(Walk) BY <1>13
<1> HIDE DEF Walk
<1>15. Walk[0] = base /\ \A k \in Nat : k # 0 => Walk[k] = After(Walk[k - 1]) BY <1>14
<1> HIDE DEF Run
<1> DEFINE T == {k \in Nat : Walk[k] \in X}
<1>16. 0 \in T BY <1>7, <1>15
<1>17. ASSUME NEW k \in Nat, k \in T PROVE k + 1 \in T
  <2>1. k + 1 \in Nat /\ k + 1 # 0 /\ (k + 1) - 1 = k OBVIOUS
  <2>2. Walk[k] \in X BY <1>17
  <2>3. Walk[k + 1] = After(Walk[k]) BY <1>15, <2>1
  <2> QED BY <1>8, <2>1, <2>2, <2>3
<1> HIDE DEF T
<1>18. Nat \subseteq T BY <1>16, <1>17, Induction
<1>19. last \in X BY <1>6, <1>18 DEF T
<1> HIDE DEF last
<1>20. last.x \in Int /\ last.y \in Int /\ last.prev \in Int /\ last.done \in Seq(Span) BY <1>19 DEF X
<1> DEFINE end == [x |-> last.x, y |-> last.y, from |-> last.prev, to |-> Steps]
<1>21. end \in Span BY <1>2, <1>20 DEF Span
<1>22. Spans(a, b, w, h) = IF dy = 0 THEN <<>> ELSE Append(last.done, end) BY <1>9
<1> HIDE DEF end
<1>23. Append(last.done, end) \in Seq(Span) BY <1>20, <1>21
<1>24. <<>> \in Seq(Span) OBVIOUS
<1> QED BY <1>22, <1>23, <1>24

LEMMA MarksType ==
  ASSUME NEW a \in Points, NEW b \in Points, NEW s \in Span
  PROVE Marks(a, b, s) \in Cells
<1> DEFINE dy == (s.to - s.from) * (b.y - a.y)
           x == 2 * Steps * a.x + (s.from + s.to) * (b.x - a.x)
           left == 2 * Cover * (s.x + 1) - x
<1>1. Sub \in Int /\ Steps \in Int BY OutlinesAssumption, RasterAssumption
<1>2. a.x \in Int /\ a.y \in Int /\ b.x \in Int /\ b.y \in Int BY DEF Points
<1>3. s.x \in Int /\ s.from \in Int /\ s.to \in Int BY DEF Span
<1>4. dy \in Int BY <1>2, <1>3
<1>5. x \in Int
  <2>1. 2 * Steps * a.x \in Int BY <1>1, <1>2
  <2>2. (s.from + s.to) * (b.x - a.x) \in Int BY <1>2, <1>3
  <2> QED BY <2>1, <2>2
<1>6. 2 * Cover * (s.x + 1) \in Int
  <2>1. Cover \in Int BY <1>1 DEF Cover
  <2> QED BY <1>3, <2>1
<1>7. Marks(a, b, s) = [cover |-> dy, area |-> left * dy] BY DEF Marks
<1> HIDE DEF dy, x
<1>8. left \in Int BY <1>5, <1>6
<1> HIDE DEF left
<1>9. left * dy \in Int BY <1>4, <1>8
<1> QED BY <1>4, <1>7, <1>9 DEF Cells

\* The cells of an image of `size` pixels.
Images(size) == [0..(size - 1) -> Cells]

LEMMA DrawLineType ==
  ASSUME NEW w \in Nat, NEW h \in Nat, NEW size \in Nat, NEW image \in Images(size), NEW a \in Points, NEW b \in Points
  PROVE DrawLine(image, a, b, w, h) \in Images(size)
<1> DEFINE spans == Spans(a, b, w, h)
           Mark(c, s) ==
             LET m == Marks(a, b, s)
             IN [c EXCEPT ![s.y * w + s.x] = [cover |-> @.cover + m.cover, area |-> @.area + m.area]]
<1>a. spans \in Seq(Span) BY SpansType
<1>b. ASSUME NEW c \in Images(size), NEW s \in Span PROVE Mark(c, s) \in Images(size)
  <2> DEFINE m == Marks(a, b, s)
             i == s.y * w + s.x
             e == [cover |-> c[i].cover + m.cover, area |-> c[i].area + m.area]
  <2>1. m \in Cells BY MarksType
  <2>2. Mark(c, s) = [c EXCEPT ![i] = e] OBVIOUS
  <2> HIDE DEF m, i, Mark
  <2>3. ASSUME i \in 0..(size - 1) PROVE e \in Cells
    <3>1. c[i] \in Cells BY <2>3 DEF Images
    <3> HIDE DEF Images
    <3> QED BY <2>1, <3>1 DEF Cells
  <2> HIDE DEF e
  <2> QED BY <2>2, <2>3 DEF Images
<1> HIDE DEF spans, Mark
<1> DEFINE X == Images(size)
           n == Len(spans)
           base == image
           Step(s, k) == Mark(s, spans[k])
           turn == [k \in 1..n |-> [s \in X |-> Step(s, k)]]
           Run(f) == f = [k \in 0..n |-> IF k = 0 THEN base ELSE Step(f[k - 1], k)]
           End == CHOOSE f : Run(f)
<1>1. n \in Nat BY <1>a
<1>2. base \in X OBVIOUS
<1>3. ASSUME NEW k \in 1..n, NEW s \in X PROVE Step(s, k) \in X
  BY <1>a, <1>b
<1>4. DrawLine(image, a, b, w, h) = End[n] BY DEF DrawLine, spans, Mark
<1> HIDE DEF n, X, base, Step
<1>5. \A k \in 1..n, s \in X : turn[k][s] = Step(s, k) OBVIOUS
<1> HIDE DEF turn
<1>6. Turns(X, n, turn) BY <1>3, <1>5 DEF Turns
<1>7. PICK u : Turned(X, base, n, turn, u) BY <1>1, <1>2, <1>6, Loop
<1>8. Run(u)
  <2>1. ASSUME NEW k \in 1..n PROVE u[k] = Step(u[k - 1], k)
    <3>1. k - 1 \in 0..n BY <1>1
    <3> QED BY <1>5, <1>7, <3>1 DEF Turned
  <2>2. \A k \in 0..n : k # 0 => k \in 1..n BY <1>1
  <2> QED BY <1>7, <2>1, <2>2 DEF Turned
<1>9. Run(End) BY <1>8
<1> HIDE DEF End
<1>10. End[0] = base BY <1>1, <1>9
<1>11. \A k \in 1..n : End[k] = Step(End[k - 1], k) BY <1>1, <1>9
<1> DEFINE T == {k \in 0..n : End[k] \in X}
<1>12. 0 \in T BY <1>1, <1>2, <1>10
<1>13. \A k \in 1..n : k - 1 \in T => k \in T BY <1>1, <1>3, <1>11
<1> HIDE DEF T
<1>14. \A k \in 0..n : k \in T BY <1>1, <1>12, <1>13, LoopStays
<1>15. End[n] \in X BY <1>1, <1>14 DEF T
<1> QED BY <1>4, <1>15 DEF X

\* The lines of an outline leave one cell for every pixel.
LEMMA DrawLinesType ==
  ASSUME NEW o \in Shapes, NEW w \in Nat, NEW h \in Nat
  PROVE DrawLines(o, w, h) \in Images(w * h)
<1> DEFINE Line(s, k) == DrawLine(s, o.points[o.lines[k].beg], o.points[o.lines[k].end], w, h)
           size == w * h
<1>a. o.lines \in Seq(Lines) /\ o.points \in Seq(Points) /\ \A k \in 1..Len(o.lines) : o.lines[k] \in LinesIn(Len(o.points))
  BY ShapeParts DEF Records
<1>b. size \in Nat OBVIOUS
<1> HIDE DEF size
<1>c. ASSUME NEW s \in Images(size), NEW k \in 1..Len(o.lines) PROVE Line(s, k) \in Images(size)
  <2> DEFINE i == o.lines[k].beg
             j == o.lines[k].end
  <2>1. i \in 1..Len(o.points) /\ j \in 1..Len(o.points) BY <1>a DEF LinesIn
  <2> HIDE DEF i, j
  <2>2. o.points[i] \in Points /\ o.points[j] \in Points BY <1>a, <2>1
  <2>3. DrawLine(s, o.points[i], o.points[j], w, h) \in Images(size) BY <1>b, <2>2, DrawLineType
  <2> QED BY <2>3 DEF i, j
<1>d. [p \in 0..(size - 1) |-> [cover |-> 0, area |-> 0]] \in Images(size) BY DEF Images, Cells
<1> HIDE DEF Line
<1> DEFINE X == Images(size)
           n == Len(o.lines)
           base == [p \in 0..(size - 1) |-> [cover |-> 0, area |-> 0]]
           Step(s, k) == Line(s, k)
           turn == [k \in 1..n |-> [s \in X |-> Step(s, k)]]
           Run(f) == f = [k \in 0..n |-> IF k = 0 THEN base ELSE Step(f[k - 1], k)]
           End == CHOOSE f : Run(f)
<1>1. n \in Nat BY <1>a
<1>2. base \in X BY <1>d
<1>3. ASSUME NEW k \in 1..n, NEW s \in X PROVE Step(s, k) \in X
  BY <1>c
<1>4. DrawLines(o, w, h) = End[n] BY DEF DrawLines, Line, size
<1> HIDE DEF n, X, base, Step
<1>5. \A k \in 1..n, s \in X : turn[k][s] = Step(s, k) OBVIOUS
<1> HIDE DEF turn
<1>6. Turns(X, n, turn) BY <1>3, <1>5 DEF Turns
<1>7. PICK u : Turned(X, base, n, turn, u) BY <1>1, <1>2, <1>6, Loop
<1>8. Run(u)
  <2>1. ASSUME NEW k \in 1..n PROVE u[k] = Step(u[k - 1], k)
    <3>1. k - 1 \in 0..n BY <1>1
    <3> QED BY <1>5, <1>7, <3>1 DEF Turned
  <2>2. \A k \in 0..n : k # 0 => k \in 1..n BY <1>1
  <2> QED BY <1>7, <2>1, <2>2 DEF Turned
<1>9. Run(End) BY <1>8
<1> HIDE DEF End
<1>10. End[0] = base BY <1>1, <1>9
<1>11. \A k \in 1..n : End[k] = Step(End[k - 1], k) BY <1>1, <1>9
<1> DEFINE T == {k \in 0..n : End[k] \in X}
<1>12. 0 \in T BY <1>1, <1>2, <1>10
<1>13. \A k \in 1..n : k - 1 \in T => k \in T BY <1>1, <1>3, <1>11
<1> HIDE DEF T
<1>14. \A k \in 0..n : k \in T BY <1>1, <1>12, <1>13, LoopStays
<1>15. End[n] \in X BY <1>1, <1>14 DEF T
<1> QED BY <1>4, <1>15 DEF X, size

\* A sum of cover and area below Full is a level of grey below 256.
LEMMA LevelType ==
  ASSUME NEW full \in Nat \ {0}, NEW v \in Nat
  PROVE (IF v >= full THEN 255 ELSE (v * 255 + full \div 2) \div full) \in 0..255
<1>1. CASE v >= full BY <1>1
<1>2. CASE ~(v >= full)
  <2> DEFINE half == full \div 2
             e == v * 255 + half
             q == e \div full
  <2>1. half \in Int /\ 2 * half <= full /\ full < 2 * half + 2 BY Division
  <2> HIDE DEF half
  <2>2. e \in Nat /\ e < 256 * full BY <1>2, <2>1
  <2> HIDE DEF e
  <2>3. q \in Int /\ full * q <= e /\ e < full * q + full BY <2>2, Division
  <2> HIDE DEF q
  <2>4. full * q < full * 256 BY <2>2, <2>3
  <2>5. q < 256 BY <2>3, <2>4, Smaller
  <2>6. full * (-1) < full * q
    <3>1. full * q \in Int BY <2>3
    <3> QED BY <2>2, <2>3, <3>1
  <2>7. -1 < q BY <2>3, <2>6, Smaller
  <2>8. q \in 0..255 BY <2>3, <2>5, <2>7
  <2> QED BY <1>2, <2>8 DEF q, e, half
<1> QED BY <1>1, <1>2

\* Every pixel of a glyph has a level of grey.
LEMMA PostProcessType ==
  ASSUME NEW size \in Nat, NEW image \in Images(size)
  PROVE PostProcess(image) \in [0..(size - 1) -> 0..255]
<1> DEFINE n == size - 1
           Step(v, k) == v + 2 * Cover * image[k - 1].cover
           turn == [k \in 1..n |-> [v \in Int |-> Step(v, k)]]
           Run(f) == f = [p \in DOMAIN image |-> IF p = 0 THEN 0 ELSE Step(f[p - 1], p)]
           Accum == CHOOSE f : Run(f)
           Level(v) == IF v >= Full THEN 255 ELSE (v * 255 + Full \div 2) \div Full
<1>1. DOMAIN image = 0..n BY DEF Images
<1>2. PostProcess(image) = [p \in DOMAIN image |-> Level(Abs(Accum[p] + image[p].area))] BY DEF PostProcess
<1>3. Cover \in Nat \ {0} /\ Full \in Nat \ {0}
  <2>1. Sub \in Nat \ {0} /\ Steps \in Nat \ {0} BY OutlinesAssumption, RasterAssumption
  <2>2. Cover \in Nat \ {0} BY <2>1 DEF Cover
  <2>3. Cover * Cover \in Nat \ {0} BY <2>2
  <2>4. 2 * Cover * Cover = 2 * (Cover * Cover) BY <2>2
  <2> QED BY <2>2, <2>3, <2>4 DEF Full
<1>4. ASSUME NEW v \in Int PROVE Level(Abs(v)) \in 0..255
  <2>1. Abs(v) \in Nat BY DEF Abs
  <2> QED BY <1>3, <2>1, LevelType
<1> HIDE DEF Level
<1>5. CASE size = 0 BY <1>1, <1>2, <1>5
<1>6. CASE size # 0
  <2>1. n \in Nat /\ 0 \in 0..n BY <1>6
  <2>2. ASSUME NEW k \in 1..n, NEW v \in Int PROVE Step(v, k) \in Int
    <3>1. k - 1 \in 0..(size - 1) OBVIOUS
    <3>2. image[k - 1] \in Cells BY <3>1 DEF Images
    <3>3. image[k - 1].cover \in Int BY <3>2 DEF Cells
    <3> QED BY <1>3, <3>3
  <2> HIDE DEF n, Step
  <2>3. \A k \in 1..n, v \in Int : turn[k][v] = Step(v, k) OBVIOUS
  <2> HIDE DEF turn
  <2>4. Turns(Int, n, turn) BY <2>2, <2>3 DEF Turns
  <2> DEFINE start == 0
  <2>a. start \in Int OBVIOUS
  <2> HIDE DEF start
  <2>5. PICK h : Turned(Int, start, n, turn, h) BY <2>a, <2>1, <2>4, Loop
  <2>6. Run(h)
    <3>1. ASSUME NEW k \in 1..n PROVE h[k] = Step(h[k - 1], k)
      <4>1. k - 1 \in 0..n BY <2>1
      <4> QED BY <2>3, <2>5, <4>1 DEF Turned
    <3>2. \A k \in 0..n : k # 0 => k \in 1..n BY <2>1
    <3> QED BY <1>1, <2>5, <3>1, <3>2 DEF Turned, start
  <2>7. Run(Accum) BY <2>6
  <2> HIDE DEF Accum
  <2>8. Accum[0] = 0 BY <1>1, <2>1, <2>7
  <2>9. \A k \in 1..n : Accum[k] = Step(Accum[k - 1], k) BY <1>1, <2>1, <2>7
  <2> DEFINE T == {k \in 0..n : Accum[k] \in Int}
  <2>10. 0 \in T BY <2>1, <2>8
  <2>11. \A k \in 1..n : k - 1 \in T => k \in T BY <2>1, <2>2, <2>9
  <2> HIDE DEF T
  <2>12. \A k \in 0..n : k \in T BY <2>1, <2>10, <2>11, LoopStays
  <2>13. ASSUME NEW p \in 0..n PROVE Level(Abs(Accum[p] + image[p].area)) \in 0..255
    <3>1. Accum[p] \in Int BY <2>12 DEF T
    <3>2. image[p] \in Cells BY DEF Images, n
    <3>3. image[p].area \in Int BY <3>2 DEF Cells
    <3>4. Accum[p] + image[p].area \in Int BY <3>1, <3>3
    <3> QED BY <1>4, <3>4
  <2> QED BY <1>1, <1>2, <2>13 DEF n
<1> QED BY <1>5, <1>6

-----------------------------------------------------------------------------
(* The inductive invariant *)

\* The glyphs of a font.
Holds(f, n) ==
  /\ IsFont(f, n)
  /\ \A m \in Frames : \A i \in 1..Len(m) :
       m[i].op = "text" => \A j \in 1..Len(m[i].text) : GlyphId(f, m[i].text[j]) \in (0..(n - 1)) \cup {Failure}

GlyphsOf(f) == CHOOSE n \in 1..GlyphLimit : Holds(f, n)

\* The characters that may be printed, and what may be drawn.
Chars(f) == {c \in Nat : GlyphId(f, c) \in (0..(GlyphsOf(f) - 1)) \cup {Failure}}

Menu(f) ==
  {c \in Rects : c.x + c.w <= ScreenW /\ c.border <= c.w /\ c.border <= c.h}
    \cup {c \in Texts : c.text \in Seq(Chars(f))}

\* A frame is drawn between beginDraw and endDraw.
Drawing == {"draw", "text", "render", "raster", "blit"}
Printing == {"text", "render", "raster", "blit"}
Glyphing == {"render", "raster", "blit"}

\* What is to be drawn and printed can be, with the font there is.
Printable ==
  /\ pc \notin {"init", "fatal"} => Loads(font)
  /\ cmds \in Seq(Menu(font)) /\ rest \in Seq(Chars(font))
  /\ pc \in Drawing \cup {"clear"} => frame <= MaxFrames
  /\ pc \in Printing => cmds # <<>> /\ Cmd.op = "text"
  /\ pc \in Glyphing =>
       /\ rest # <<>> /\ gid = GlyphId(font, Head(rest)) /\ gid # Failure
       /\ mtx = GMetrics(font, Cmd.size, gid) /\ mtx.ok

\* Both screens swap their buffers together, what is drawn goes to those that are not shown,
\* and the pixel beginDraw looks for is gone when drawing starts.
Hidden ==
  /\ work.tv = work.drc
  /\ pc \in Drawing \cup {"clear"} => Half = work.tv
  /\ \A b \in 0..1, c \in TvCells : tv[b][c] = Marker => pc = "clear" /\ b = work.tv

\* Where a text that is aligned to the right is, as far as it is printed.
Advancing ==
  pc \in Printing /\ Cmd.right /\ Newline \notin Range(Cmd.text) =>
    \E k \in 0..Len(Cmd.text) :
      /\ rest = SubSeq(Cmd.text, k + 1, Len(Cmd.text))
      /\ penX = Cmd.x - (TextWidth(font, Cmd.size, Cmd.text) - Width(font, Cmd.size, Cmd.text, k))

\* The column and the row of the TV that are a pixel's alone.
Own(v) == IF (v * mode.num) % mode.den <= mode.num % mode.den THEN Scale(v) ELSE Scale(v) + 1

Alike ==
  pc # "clear" =>
    \A x \in 1..(ScreenW - 1), y \in 0..(ScreenH - 1) :
      tv[Half][Own(x) + Own(y) * mode.w] = drc[Half][x + y * DrcW]

IInv == TypeOK /\ Printable /\ Hidden /\ Advancing /\ Alike

-----------------------------------------------------------------------------
(* Fonts and menus *)

LEMMA GlyphCount ==
  ASSUME NEW f \in Fonts
  PROVE GlyphsOf(f) \in 1..GlyphLimit /\ Holds(f, GlyphsOf(f)) /\ GlyphsOf(f) \in Nat /\ IsFont(f, GlyphsOf(f))
<1>1. \E n \in 1..GlyphLimit : Holds(f, n) BY FontsAssumption DEF Holds
<1>2. GlyphsOf(f) \in 1..GlyphLimit /\ Holds(f, GlyphsOf(f)) BY <1>1 DEF GlyphsOf
<1> QED BY <1>2 DEF Holds

LEMMA FramesInMenu ==
  ASSUME NEW f \in Fonts, NEW m \in Frames
  PROVE m \in Seq(Menu(f))
<1>1. m \in Seq(Rects \cup Texts) BY FramesAssumption
<1>2. ASSUME NEW i \in 1..Len(m) PROVE m[i] \in Menu(f)
  <2> DEFINE c == m[i]
  <2>1. c \in Rects \cup Texts BY <1>1
  <2>2. CASE c.op = "rect"
    <3>1. c \in Rects BY <2>1, <2>2 DEF Rects, Texts
    <3>2. c.x + c.w <= ScreenW /\ c.border <= c.w /\ c.border <= c.h BY <2>2, FramesAssumption
    <3> QED BY <3>1, <3>2 DEF Menu
  <2>3. CASE c.op # "rect"
    <3>1. c \in Texts /\ c.op = "text" BY <2>1, <2>3 DEF Rects, Texts
    <3>2. c.text \in Seq(Nat) BY <3>1 DEF Texts
    <3>3. \A j \in 1..Len(c.text) : GlyphId(f, c.text[j]) \in (0..(GlyphsOf(f) - 1)) \cup {Failure}
      BY <3>1, GlyphCount DEF Holds
    <3>4. c.text \in Seq(Chars(f))
      <4> DEFINE t == c.text
      <4>1. t \in Seq(Nat) BY <3>2
      <4>2. \A j \in 1..Len(t) : t[j] \in Chars(f) BY <3>2, <3>3 DEF Chars
      <4> HIDE DEF t
      <4>3. t \in Seq(Chars(f)) BY <4>1, <4>2
      <4> QED BY <4>3 DEF t
    <3> QED BY <3>1, <3>4 DEF Menu
  <2> QED BY <2>2, <2>3
<1> QED BY <1>1, <1>2

\* A character has a glyph of the font or none, and a glyph has metrics.
LEMMA GlyphType ==
  ASSUME NEW f \in Fonts, Loads(f), NEW size \in Nat \ {0}, NEW c \in Chars(f), GlyphId(f, c) # Failure
  PROVE GlyphId(f, c) \in 0..(GlyphsOf(f) - 1) /\ GMetrics(f, size, GlyphId(f, c)) \in Metrics
<1>1. GlyphId(f, c) \in 0..(GlyphsOf(f) - 1) BY DEF Chars
<1> QED BY <1>1, GlyphCount, GMetricsType

LEMMA AdvanceType ==
  ASSUME NEW f \in Fonts, Loads(f), NEW size \in Nat \ {0}, NEW c \in Chars(f)
  PROVE Advance(f, size, c) \in Int
<1>1. CASE GlyphId(f, c) = Failure BY <1>1 DEF Advance
<1>2. CASE GlyphId(f, c) # Failure
  <2> DEFINE m == GMetrics(f, size, GlyphId(f, c))
  <2>1. m \in Metrics BY <1>2, GlyphType
  <2>2. Advance(f, size, c) = Trunc(m.advance) BY <1>2 DEF Advance
  <2> HIDE DEF m
  <2>3. m.advance \in Int BY <2>1 DEF Metrics
  <2> QED BY <2>2, <2>3, TruncType
<1> QED BY <1>1, <1>2

\* The width of a text grows by each character as the pen moves on.
LEMMA Widths ==
  ASSUME NEW f \in Fonts, Loads(f), NEW size \in Nat \ {0}, NEW text \in Seq(Chars(f))
  PROVE /\ Width(f, size, text, 0) = 0
        /\ \A k \in 1..Len(text) : Width(f, size, text, k) = Width(f, size, text, k - 1) + Advance(f, size, text[k])
        /\ \A k \in 0..Len(text) : Width(f, size, text, k) \in Int
<1> DEFINE X == Int
           n == Len(text)
           base == 0
           Step(s, k) == s + Advance(f, size, text[k])
           turn == [k \in 1..n |-> [s \in X |-> Step(s, k)]]
           Run(u) == u = [k \in 0..n |-> IF k = 0 THEN base ELSE Step(u[k - 1], k)]
           End == CHOOSE u : Run(u)
<1>1. n \in Nat OBVIOUS
<1>2. base \in X OBVIOUS
<1>3. ASSUME NEW k \in 1..n, NEW s \in X PROVE Step(s, k) \in X
  <2>1. Advance(f, size, text[k]) \in Int BY AdvanceType
  <2> QED BY <2>1
<1>4. \A k : Width(f, size, text, k) = End[k] BY DEF Width
<1> HIDE DEF n, X, base, Step
<1>5. \A k \in 1..n, s \in X : turn[k][s] = Step(s, k) OBVIOUS
<1> HIDE DEF turn
<1>6. Turns(X, n, turn) BY <1>3, <1>5 DEF Turns
<1>7. PICK h : Turned(X, base, n, turn, h) BY <1>1, <1>2, <1>6, Loop
<1>8. Run(h)
  <2>1. ASSUME NEW k \in 1..n PROVE h[k] = Step(h[k - 1], k)
    <3>1. k - 1 \in 0..n BY <1>1
    <3> QED BY <1>5, <1>7, <3>1 DEF Turned
  <2>2. \A k \in 0..n : k # 0 => k \in 1..n BY <1>1
  <2> QED BY <1>7, <2>1, <2>2 DEF Turned
<1>9. Run(End) BY <1>8
<1> HIDE DEF End
<1>10. End[0] = base BY <1>1, <1>9
<1>11. \A k \in 1..n : End[k] = Step(End[k - 1], k) BY <1>1, <1>9
<1> DEFINE T == {k \in 0..n : End[k] \in X}
<1>12. 0 \in T BY <1>1, <1>2, <1>10
<1>13. \A k \in 1..n : k - 1 \in T => k \in T BY <1>1, <1>3, <1>11
<1> HIDE DEF T
<1>14. \A k \in 0..n : k \in T BY <1>1, <1>12, <1>13, LoopStays
<1>15. End[n] \in X BY <1>1, <1>14 DEF T
<1> QED BY <1>4, <1>10, <1>11, <1>14 DEF T, X, n, base, Step

-----------------------------------------------------------------------------
(* What the TV shows of a pixel *)

LEMMA Remainder ==
  ASSUME NEW v \in Int, NEW d \in Nat \ {0}
  PROVE v \div d \in Int /\ v % d \in 0..(d - 1) /\ v = d * (v \div d) + (v % d)
<1> DEFINE q == v \div d  r == v % d
<1>1. r = v - d * q OBVIOUS
<1>2. q \in Int BY Division
<1> HIDE DEF q, r
<1>3. d * q \in Int BY <1>2
<1>4. r \in Int /\ 0 <= r /\ r < d
  <2>1. v % d \in Int OBVIOUS
  <2>2. 0 <= v % d OBVIOUS
  <2>3. v % d < d OBVIOUS
  <2> QED BY <2>1, <2>2, <2>3 DEF r
<1>5. r \in 0..(d - 1) BY <1>4
<1>6. v = d * q + r BY <1>1, <1>3, <1>4
<1> QED BY <1>2, <1>5, <1>6 DEF q, r

\* A number in a row of `w` and the row are known by the place.
LEMMA Places ==
  ASSUME NEW w \in Nat \ {0}, NEW a \in Int, NEW b \in Int, NEW c \in Int, NEW d \in Int,
         a - b < w, b - a < w, a + c * w = b + d * w
  PROVE a = b /\ c = d
<1> DEFINE k == d - c
<1>1. k \in Int /\ w * k = w * d - w * c OBVIOUS
<1>2. w * d = d * w /\ w * c = c * w /\ w * d \in Int /\ w * c \in Int OBVIOUS
<1> HIDE DEF k
<1>3. w * k = a - b BY <1>1, <1>2
<1>4. w * k < w * 1 /\ w * (-1) < w * k BY <1>1, <1>3
<1>5. k < 1 BY <1>1, <1>4, Smaller
<1>6. -1 < k BY <1>1, <1>4, Smaller
<1>7. k = 0 BY <1>1, <1>5, <1>6
<1>8. c = d BY <1>7 DEF k
<1>9. w * k = 0 BY <1>7
<1> QED BY <1>3, <1>8, <1>9

\* The columns, or rows, that a pixel is scaled to.
Spread(v) ==
  {n \in Scale(v)..(Scale(v) + mode.num \div mode.den + 1) :
     n * mode.den < v * mode.num + (mode.num \div mode.den) * mode.den}

LEMMA ZoomedSpread ==
  ASSUME NEW x, NEW y
  PROVE Zoomed(x, y) = {xx + yy * mode.w : xx \in Spread(x), yy \in Spread(y)} \cap TvCells
BY DEF Zoomed, Spread

\* The scale of the TV, and where it puts a pixel.
LEMMA ScaleFacts ==
  ASSUME mode \in TvModes, NEW v \in Nat
  PROVE /\ mode.num \in Nat \ {0} /\ mode.den \in Nat \ {0} /\ 2 * mode.num >= 3 * mode.den
        /\ v * mode.num \in Nat /\ Scale(v) \in Nat
        /\ (v * mode.num) % mode.den \in 0..(mode.den - 1)
        /\ v * mode.num = mode.den * Scale(v) + ((v * mode.num) % mode.den)
<1>1. mode.num \in Nat \ {0} /\ mode.den \in Nat \ {0} /\ 2 * mode.num >= 3 * mode.den BY ScreensAssumption
<1> DEFINE num == mode.num
           den == mode.den
           a == v * num
           q == a \div den
           f == a % den
<1>2. a \in Nat BY <1>1
<1> HIDE DEF num, den, a
<1>3. q \in Int /\ f \in 0..(den - 1) /\ a = den * q + f
  <2>1. den \in Nat \ {0} /\ a \in Int BY <1>1, <1>2 DEF den
  <2>2. a \div den \in Int /\ a % den \in 0..(den - 1) /\ a = den * (a \div den) + (a % den) BY <2>1, Remainder
  <2> QED BY <2>2, Zenon
<1> HIDE DEF q, f
<1>4. q \in Nat
  <2>1. den * q \in Int /\ den \in Nat \ {0} BY <1>1, <1>3 DEF den
  <2>2. den * (-1) < den * q BY <1>2, <1>3, <2>1
  <2>3. -1 < q BY <1>3, <2>1, <2>2, Smaller
  <2> QED BY <1>3, <2>3
<1>5. Scale(v) = q BY DEF Scale, q, a, num, den
<1>6. a \in Nat /\ q \in Nat /\ f \in 0..(den - 1) /\ a = den * q + f BY <1>2, <1>3, <1>4
<1>7. v * mode.num = a /\ (v * mode.num) % mode.den = f /\ mode.den = den BY DEF f, a, num, den
<1> QED BY <1>1, <1>5, <1>6, <1>7

\* A pixel has a column of the TV that no other pixel is scaled to, and a row.
LEMMA OwnIsOwn ==
  ASSUME mode \in TvModes, NEW v \in Nat
  PROVE /\ Own(v) \in Nat /\ Scale(v) <= Own(v) /\ Own(v) < Scale(v + 1)
        /\ Own(v) \in Spread(v)
        /\ \A u \in Nat : Own(v) \in Spread(u) => u = v
<1> DEFINE num == mode.num
           den == mode.den
           a == v * num
           q == Scale(v)
           f == a % den
           reach == num \div den
           left == num % den
           own == IF f <= left THEN q ELSE q + 1
           r == reach * den
<1>1. /\ num \in Nat \ {0} /\ den \in Nat \ {0} /\ 2 * num >= 3 * den
      /\ a \in Nat /\ q \in Nat /\ f \in 0..(den - 1) /\ a = den * q + f
  <2>1. /\ mode.num \in Nat \ {0} /\ mode.den \in Nat \ {0} /\ 2 * mode.num >= 3 * mode.den
        /\ v * mode.num \in Nat /\ Scale(v) \in Nat
        /\ (v * mode.num) % mode.den \in 0..(mode.den - 1)
        /\ v * mode.num = mode.den * Scale(v) + ((v * mode.num) % mode.den)
    BY ScaleFacts
  <2> QED BY <2>1
<1>2. Own(v) = own BY DEF Own
<1> HIDE DEF num, den, a, q, f
<1>3. reach \in Int /\ left \in 0..(den - 1) /\ num = den * reach + left
  <2>1. num \in Int BY <1>1
  <2>2. num \div den \in Int /\ num % den \in 0..(den - 1) /\ num = den * (num \div den) + (num % den)
    BY <1>1, <2>1, Remainder
  <2> QED BY <2>2, Zenon
<1> HIDE DEF reach, left
<1>4. den * reach = r /\ r \in Int BY <1>1, <1>3
<1>5. reach \in Nat \ {0}
  <2>1. den * 0 < den * reach BY <1>1, <1>3
  <2>2. 0 < reach BY <1>1, <1>3, <2>1, Smaller
  <2> QED BY <1>3, <2>2
<1> HIDE DEF r
<1>6. den <= r
  <2>1. den * 0 <= den * (reach - 1)
    <3>1. reach - 1 \in Nat BY <1>5
    <3> QED BY <1>1, <3>1
  <2>2. den * (reach - 1) = den * reach - den BY <1>1, <1>5
  <2> QED BY <1>1, <1>4, <2>1, <2>2
<1>7. reach = 1 \/ 2 * den <= r
  <2> SUFFICES ASSUME reach # 1 PROVE 2 * den <= r OBVIOUS
  <2>1. reach - 2 \in Nat BY <1>5
  <2>2. den * 0 <= den * (reach - 2) BY <1>1, <2>1
  <2>3. den * (reach - 2) = den * reach - den * 2 BY <1>1, <1>5
  <2> QED BY <1>1, <1>4, <2>2, <2>3
<1>8. own \in Nat /\ q <= own /\ own <= q + 1 BY <1>1
<1>9. own * den = (IF f <= left THEN a - f ELSE a - f + den)
  <2>1. q * den = a - f BY <1>1
  <2>2. (q + 1) * den = q * den + den BY <1>1
  <2> QED BY <2>1, <2>2
<1>10. own * den \in Int BY <1>1, <1>8
<1> DEFINE c == own * den
<1> HIDE DEF own
<1>11. c < a + r BY <1>1, <1>3, <1>4, <1>6, <1>9
<1>12. a - num + r <= c BY <1>1, <1>3, <1>4, <1>9
<1>13. c + den <= a + num
  <2>1. CASE f <= left BY <1>1, <1>3, <1>4, <1>6, <1>9, <2>1
  <2>2. CASE ~(f <= left)
    <3>1. CASE reach = 1
      <4>1. r = den BY <1>1, <1>4, <3>1
      <4>2. 2 * den <= num + f BY <1>1, <1>3, <1>4, <2>2, <4>1
      <4> QED BY <1>1, <1>9, <2>2, <4>2
    <3>2. CASE 2 * den <= r
      <4>1. 2 * den <= num BY <1>1, <1>3, <1>4, <3>2
      <4> QED BY <1>1, <1>3, <1>9, <2>2, <4>1
    <3> QED BY <1>7, <3>1, <3>2
  <2> QED BY <2>1, <2>2
<1>14. own < Scale(v + 1)
  <2> DEFINE next == Scale(v + 1)
             b == (v + 1) * num
             g == b % den
  <2>1. next \in Nat /\ g \in 0..(den - 1) /\ b = den * next + g
    <3>1. v + 1 \in Nat OBVIOUS
    <3>2. /\ Scale(v + 1) \in Nat /\ ((v + 1) * mode.num) % mode.den \in 0..(mode.den - 1)
          /\ (v + 1) * mode.num = mode.den * Scale(v + 1) + (((v + 1) * mode.num) % mode.den)
      BY <3>1, ScaleFacts
    <3> QED BY <3>2 DEF num, den
  <2>2. b = a + num BY <1>1 DEF a
  <2> HIDE DEF next, b, g
  <2>3. den * (own + 1) = c + den BY <1>1, <1>8
  <2>4. den * (own + 1) < den * (next + 1)
    <3>1. den * (next + 1) = den * next + den BY <1>1, <2>1
    <3>2. den * next \in Int BY <1>1, <2>1
    <3> QED BY <1>1, <1>10, <1>13, <2>1, <2>2, <2>3, <3>1, <3>2
  <2>5. own + 1 < next + 1 BY <1>1, <1>8, <2>1, <2>4, Smaller
  <2>6. own < next BY <1>8, <2>1, <2>5
  <2> QED BY <2>6 DEF next
<1>15. own \in Spread(v)
  <2>1. own \in q..(q + reach + 1) BY <1>1, <1>5, <1>8
  <2> QED BY <1>11, <2>1 DEF Spread, q, reach, num, den, a, r
<1>16. ASSUME NEW u \in Nat, own \in Spread(u) PROVE u = v
  <2> DEFINE b == u * num
  <2>1. b \in Nat BY <1>1
  <2>2. Scale(u) \in Nat BY ScaleFacts
  <2>3. own \in Scale(u)..(Scale(u) + reach + 1) /\ c < b + r BY <1>16 DEF Spread, num, den, reach, r
  <2>4. ~(u < v)
    <3> SUFFICES ASSUME u < v PROVE FALSE OBVIOUS
    <3>1. a - num = (v - 1) * num BY <1>1 DEF a
    <3>2. num * u <= num * (v - 1)
      <4>1. v - 1 - u \in Nat OBVIOUS
      <4>2. 0 <= num * (v - 1 - u) BY <1>1, <4>1
      <4>3. num * (v - 1 - u) = num * (v - 1) - num * u BY <1>1
      <4>4. num * u \in Int /\ num * (v - 1) \in Int BY <1>1
      <4> QED BY <4>2, <4>3, <4>4
    <3>3. b = num * u /\ (v - 1) * num = num * (v - 1) BY <1>1
    <3> HIDE DEF b
    <3>4. b <= a - num BY <3>1, <3>2, <3>3
    <3> QED BY <1>1, <1>4, <1>10, <1>12, <2>1, <2>3, <3>4
  <2>5. ~(v < u)
    <3> SUFFICES ASSUME v < u PROVE FALSE OBVIOUS
    <3> DEFINE d == u - (v + 1)
               more == num * d
               y == (v + 1) * num
    <3>1. d \in Nat OBVIOUS
    <3>2. more \in Nat BY <1>1, <3>1
    <3>3. y \in Int /\ b = y + more BY <1>1
    <3> HIDE DEF d, more, b, y
    <3>4. y \div den <= b \div den BY <1>1, <2>1, <3>2, <3>3, DivisionGrows
    <3>5. Scale(v + 1) <= Scale(u) BY <3>4 DEF Scale, y, b, num, den
    <3>6. Scale(v + 1) \in Nat
      <4>1. v + 1 \in Nat OBVIOUS
      <4> QED BY <4>1, ScaleFacts
    <3> QED BY <1>8, <1>14, <2>2, <2>3, <3>5, <3>6
  <2> QED BY <2>4, <2>5
<1> QED BY <1>2, <1>8, <1>14, <1>15, <1>16 DEF q

LEMMA ScaleGrows ==
  ASSUME mode \in TvModes, NEW u \in Nat, NEW v \in Nat, u <= v
  PROVE Scale(u) <= Scale(v)
<1> DEFINE num == mode.num
           den == mode.den
           d == v - u
           more == num * d
           a == u * num
<1>1. num \in Nat \ {0} /\ den \in Nat \ {0} /\ d \in Nat BY ScreensAssumption
<1> HIDE DEF num, den
<1>2. more \in Nat /\ a \in Nat BY <1>1
<1>3. v * num = a + more BY <1>1
<1> HIDE DEF more, a
<1>4. a \div den <= (a + more) \div den BY <1>1, <1>2, DivisionGrows
<1> QED BY <1>3, <1>4 DEF Scale, num, den, a

\* Every pixel has its own on the TV.
LEMMA OwnFits ==
  ASSUME mode \in TvModes
  PROVE /\ mode.w \in Nat \ {0} /\ mode.h \in Nat \ {0}
        /\ \A x \in 0..(ScreenW - 1) : Own(x) \in 0..(mode.w - 1)
        /\ \A y \in 0..(ScreenH - 1) : Own(y) \in 0..(mode.h - 1)
<1> DEFINE num == mode.num
           den == mode.den
           w == mode.w
           h == mode.h
           last == ScreenW - 1
           right == last * num
           low == ScreenH * num
<1>1. /\ num \in Nat \ {0} /\ den \in Nat \ {0} /\ w \in Nat \ {0} /\ h \in Nat \ {0}
      /\ last \in Nat /\ ScreenH \in Nat
  BY ScreensAssumption
<1>2. low <= h * den /\ right < w * den /\ right % den <= num % den BY ScreensAssumption
<1>3. right \in Nat /\ low \in Nat BY <1>1
<1> DEFINE f == right % den
           g == low % den
<1>4. Scale(last) \in Nat /\ f \in Nat /\ right = den * Scale(last) + f
  <2>1. Scale(last) \in Nat /\ f \in 0..(den - 1) /\ right = den * Scale(last) + f
    <3>1. /\ Scale(last) \in Nat
          /\ (last * mode.num) % mode.den \in 0..(mode.den - 1)
          /\ last * mode.num = mode.den * Scale(last) + ((last * mode.num) % mode.den)
      BY <1>1, ScaleFacts
    <3> QED BY <3>1, Zenon
  <2> HIDE DEF f, right, den
  <2> QED BY <1>1, <2>1
<1>5. Scale(ScreenH) \in Nat /\ g \in Nat /\ low = den * Scale(ScreenH) + g
  <2>1. Scale(ScreenH) \in Nat /\ g \in 0..(den - 1) /\ low = den * Scale(ScreenH) + g
    <3>1. /\ Scale(ScreenH) \in Nat
          /\ (ScreenH * mode.num) % mode.den \in 0..(mode.den - 1)
          /\ ScreenH * mode.num = mode.den * Scale(ScreenH) + ((ScreenH * mode.num) % mode.den)
      BY <1>1, ScaleFacts
    <3> QED BY <3>1, Zenon
  <2> HIDE DEF g, low, den
  <2> QED BY <1>1, <2>1
<1>6. Own(last) = Scale(last) BY <1>2, Zenon DEF Own
<1> HIDE DEF num, den, w, h, right, low, f, g
<1>7. Scale(last) < w
  <2>1. den * Scale(last) \in Int /\ den * w \in Int /\ w * den = den * w BY <1>1, <1>4
  <2>2. den * Scale(last) < den * w BY <1>2, <1>3, <1>4, <2>1
  <2> QED BY <1>1, <1>4, <2>2, Smaller
<1>8. Scale(ScreenH) < h + 1
  <2>1. /\ den * Scale(ScreenH) \in Int /\ den * h \in Int /\ h * den = den * h
        /\ den * (h + 1) = den * h + den
    BY <1>1, <1>5
  <2>2. den * Scale(ScreenH) < den * (h + 1) BY <1>1, <1>2, <1>3, <1>5, <2>1
  <2> QED BY <1>1, <1>5, <2>2, Smaller
<1>9. ASSUME NEW x \in 0..last PROVE Own(x) \in 0..(w - 1)
  <2>1. CASE x = last BY <1>1, <1>4, <1>6, <1>7, <2>1
  <2>2. CASE x # last
    <3>1. x \in Nat /\ x + 1 \in Nat /\ x + 1 <= last BY <1>1, <2>2
    <3>2. Own(x) \in Nat /\ Own(x) < Scale(x + 1) BY <3>1, OwnIsOwn
    <3>3. Scale(x + 1) <= Scale(last) BY <1>1, <3>1, ScaleGrows
    <3>4. Scale(x + 1) \in Nat BY <3>1, ScaleFacts
    <3> QED BY <1>1, <1>4, <1>7, <3>2, <3>3, <3>4
  <2> QED BY <2>1, <2>2
<1>10. ASSUME NEW y \in 0..(ScreenH - 1) PROVE Own(y) \in 0..(h - 1)
  <2>1. y \in Nat /\ y + 1 \in Nat /\ y + 1 <= ScreenH BY <1>1
  <2>2. Own(y) \in Nat /\ Own(y) < Scale(y + 1) BY <2>1, OwnIsOwn
  <2>3. Scale(y + 1) <= Scale(ScreenH) BY <1>1, <2>1, ScaleGrows
  <2>4. Scale(y + 1) \in Nat BY <2>1, ScaleFacts
  <2> QED BY <1>1, <1>5, <1>8, <2>2, <2>3, <2>4
<1> QED BY <1>1, <1>9, <1>10 DEF w, h, last

\* What is drawn in the last column spills over, but only into the first column.
LEMMA SpillShort ==
  ASSUME mode \in TvModes, NEW x \in 1..(ScreenW - 1), NEW p \in 0..(ScreenW - 1), NEW n \in Spread(p)
  PROVE n \in Nat /\ n < mode.w + Own(x)
<1> DEFINE num == mode.num
           den == mode.den
           w == mode.w
           last == ScreenW - 1
           reach == num \div den
           left == num % den
           a == p * num
           right == last * num
           c == n * den
           r == reach * den
<1>1. num \in Nat \ {0} /\ den \in Nat \ {0} /\ w \in Nat \ {0} /\ last \in Nat BY ScreensAssumption
<1>2. right < w * den BY ScreensAssumption
<1>3. Scale(p) \in Nat /\ Scale(1) \in Nat /\ Scale(x) \in Nat
  <2>1. p \in Nat /\ 1 \in Nat /\ x \in Nat BY <1>1
  <2> QED BY <2>1, ScaleFacts
<1>4. n \in Scale(p)..(Scale(p) + reach + 1) /\ c < a + r BY DEF Spread
<1>5. reach = Scale(1)
  <2>1. 1 * num = num BY <1>1
  <2> QED BY <2>1 DEF Scale
<1>6. Scale(1) <= Own(x) /\ Own(x) \in Nat
  <2>1. x \in Nat /\ 1 <= x BY <1>1
  <2>2. Scale(1) <= Scale(x) BY <2>1, ScaleGrows
  <2>3. Scale(x) <= Own(x) /\ Own(x) \in Nat BY <2>1, OwnIsOwn
  <2> QED BY <1>3, <2>2, <2>3
<1>7. a <= right
  <2>1. last - p \in Nat BY <1>1
  <2>2. 0 <= (last - p) * num BY <1>1, <2>1
  <2>3. (last - p) * num = last * num - p * num BY <1>1
  <2>4. last * num \in Int /\ p * num \in Int BY <1>1
  <2> QED BY <2>2, <2>3, <2>4
<1>8. p \in Nat BY <1>1
<1> HIDE DEF num, den, w, last, reach
<1>9. n \in Nat /\ reach \in Nat BY <1>3, <1>4, <1>5
<1>10. a \in Int /\ right \in Int /\ c \in Int /\ r \in Int BY <1>1, <1>8, <1>9
<1>11. c = den * n /\ r = den * reach /\ den * (w + reach) = den * w + den * reach /\ w * den = den * w BY <1>1, <1>9
<1>12. den * w \in Int BY <1>1
<1> HIDE DEF a, right, c, r
<1>13. den * n < den * (w + reach) BY <1>2, <1>4, <1>7, <1>10, <1>11, <1>12
<1>14. n < w + reach BY <1>1, <1>9, <1>13, Smaller
<1> QED BY <1>1, <1>3, <1>5, <1>6, <1>9, <1>14 DEF w

LEMMA InBuffer ==
  ASSUME NEW w \in Nat \ {0}, NEW h \in Nat \ {0}, NEW a \in 0..(w - 1), NEW b \in 0..(h - 1)
  PROVE a + b * w \in 0..(w * h - 1)
<1> DEFINE d == h - 1 - b
           more == w * d
           c == b * w
           all == w * h
<1>1. d \in Nat OBVIOUS
<1>2. more \in Nat /\ c \in Nat BY <1>1
<1>3. all = c + more + w BY <1>1
<1>4. all \in Nat OBVIOUS
<1> HIDE DEF more, c, all
<1>5. a + c \in 0..(all - 1) BY <1>2, <1>3, <1>4
<1> QED BY <1>5 DEF c, all

\* Nothing but the pixel itself is drawn on its own place, on the GamePad and on the TV.
LEMMA OwnOnly ==
  ASSUME mode \in TvModes, NEW x \in 1..(ScreenW - 1), NEW y \in 0..(ScreenH - 1)
  PROVE /\ Own(x) + Own(y) * mode.w \in TvCells
        /\ x + y * DrcW \in DrcCells
        /\ \A px \in 0..(ScreenW - 1), py \in Nat :
             /\ (Own(x) + Own(y) * mode.w \in Zoomed(px, py)) <=> (px = x /\ py = y)
             /\ (x + y * DrcW = px + py * DrcW) <=> (px = x /\ py = y)
<1> DEFINE w == mode.w
<1>1. /\ ScreenW \in Nat \ {0} /\ ScreenH \in Nat \ {0} /\ DrcW \in Nat \ {0} /\ DrcH \in Nat \ {0}
      /\ ScreenW <= DrcW /\ ScreenH <= DrcH
  BY ScreensAssumption
<1>2. w \in Nat \ {0} /\ mode.h \in Nat \ {0} /\ Own(x) \in 0..(w - 1) /\ Own(y) \in 0..(mode.h - 1)
  <2>1. x \in 0..(ScreenW - 1) BY <1>1
  <2> QED BY <2>1, OwnFits
<1>3. Own(x) + Own(y) * w \in TvCells BY <1>2, InBuffer DEF TvCells
<1>4. x + y * DrcW \in DrcCells
  <2>1. x \in 0..(DrcW - 1) /\ y \in 0..(DrcH - 1) BY <1>1
  <2> QED BY <1>1, <2>1, InBuffer DEF DrcCells
<1>5. x \in Nat /\ y \in Nat BY <1>1
<1>6. Own(x) \in Spread(x) /\ Own(y) \in Spread(y) BY <1>5, OwnIsOwn
<1>7. ASSUME NEW px \in 0..(ScreenW - 1), NEW py \in Nat
      PROVE /\ (Own(x) + Own(y) * w \in Zoomed(px, py)) <=> (px = x /\ py = y)
            /\ (x + y * DrcW = px + py * DrcW) <=> (px = x /\ py = y)
  <2>1. ASSUME Own(x) + Own(y) * w \in Zoomed(px, py) PROVE px = x /\ py = y
    <3>1. PICK xx \in Spread(px), yy \in Spread(py) : Own(x) + Own(y) * w = xx + yy * w
      BY <2>1, ZoomedSpread
    <3>2. xx \in Nat /\ xx < w + Own(x) BY SpillShort
    <3>3. yy \in Int BY DEF Spread
    <3>4. Own(x) \in Int /\ Own(y) \in Int /\ xx \in Int /\ Own(x) - xx < w /\ xx - Own(x) < w BY <1>2, <3>2
    <3>5. Own(x) = xx /\ Own(y) = yy BY <1>2, <3>1, <3>3, <3>4, Places
    <3>6. px \in Nat BY <1>1
    <3> QED BY <1>5, <3>5, <3>6, OwnIsOwn
  <2>2. ASSUME px = x, py = y PROVE Own(x) + Own(y) * w \in Zoomed(px, py)
    BY <1>3, <1>6, <2>2, ZoomedSpread
  <2>3. ASSUME x + y * DrcW = px + py * DrcW PROVE px = x /\ py = y
    <3>1. x \in Int /\ px \in Int /\ y \in Int /\ py \in Int /\ x - px < DrcW /\ px - x < DrcW BY <1>1
    <3> QED BY <1>1, <2>3, <3>1, Places
  <2> QED BY <2>1, <2>2, <2>3
<1> QED BY <1>3, <1>4, <1>7

-----------------------------------------------------------------------------
(* Drawing *)

LEMMA BlendType ==
  ASSUME NEW shade \in Shade, NEW alpha \in 0..255, NEW under \in Shade
  PROVE Blend(shade, alpha, under) \in Shade
<1> DEFINE clear == 255 - alpha
           a == shade * alpha
           b == under * clear
           q == (a + b) \div 255
           hide == 255 - shade
           less == 255 - under
<1>1. shade \in Nat /\ under \in Nat /\ alpha \in Nat /\ clear \in Nat /\ hide \in Nat /\ less \in Nat BY DEF Shade
<1>2. a \in Nat /\ b \in Nat
  <2> HIDE DEF clear
  <2> QED BY <1>1
<1>3. a <= 255 * alpha
  <2>1. 0 <= hide * alpha
    <3> HIDE DEF hide
    <3> QED BY <1>1
  <2>2. hide * alpha = 255 * alpha - a BY <1>1
  <2> QED BY <1>1, <1>2, <2>1, <2>2
<1>4. b <= 255 * clear
  <2>1. 0 <= less * clear
    <3> HIDE DEF less, clear
    <3> QED BY <1>1
  <2>2. less * clear = 255 * clear - b BY <1>1
  <2> QED BY <1>1, <1>2, <2>1, <2>2
<1> HIDE DEF a, b
<1>5. a + b \in Nat /\ a + b <= 255 * 255 BY <1>1, <1>2, <1>3, <1>4
<1>6. q \in Int /\ 0 <= q /\ q <= 255 BY <1>5
<1>7. Blend(shade, alpha, under) = IF alpha = 255 THEN shade ELSE q BY DEF Blend, q, a, b
<1> HIDE DEF q
<1> QED BY <1>6, <1>7 DEF Shade

\* A pixel that may be drawn: none is beside the screen.
Pixels == [x : 0..(ScreenW - 1), y : Nat, shade : Shade, alpha : 0..255]

\* Buffers of which only those that are drawn to have changed, alike on both screens.
Buffers ==
  {s \in [drc : [0..1 -> [DrcCells -> Shade]], tv : [0..1 -> [TvCells -> Shade \cup {Marker}]]] :
     /\ s.drc[1 - Half] = drc[1 - Half] /\ s.tv[1 - Half] = tv[1 - Half]
     /\ s.tv[Half] \in [TvCells -> Shade]
     /\ \A x \in 1..(ScreenW - 1), y \in 0..(ScreenH - 1) :
          s.tv[Half][Own(x) + Own(y) * mode.w] = s.drc[Half][x + y * DrcW]}

LEMMA HalfType == Half \in 0..1 /\ 1 - Half \in 0..1 /\ 1 - Half # Half
BY DEF Half

LEMMA DrawPixelKeeps ==
  ASSUME mode \in TvModes, NEW s \in Buffers, NEW p \in Pixels
  PROVE DrawPixel(s, p) \in Buffers
<1> DEFINE i == p.x + p.y * DrcW
           On(shade) == Blend(p.shade, p.alpha, shade)
           b == Half
           row == [s.drc[b] EXCEPT ![i] = On(s.drc[b][i])]
           zoomed == Zoomed(p.x, p.y)
           wide == [c \in TvCells |-> IF c \in zoomed THEN On(s.tv[b][c]) ELSE s.tv[b][c]]
           d == IF i \in DrcCells THEN [s.drc EXCEPT ![b] = row] ELSE s.drc
           t == [s.tv EXCEPT ![b] = wide]
<1>1. p.x \in 0..(ScreenW - 1) /\ p.y \in Nat /\ p.shade \in Shade /\ p.alpha \in 0..255 BY DEF Pixels
<1>2. \A shade \in Shade : On(shade) \in Shade BY <1>1, BlendType
<1>3. /\ s.drc \in [0..1 -> [DrcCells -> Shade]] /\ s.tv \in [0..1 -> [TvCells -> Shade \cup {Marker}]]
      /\ s.drc[1 - b] = drc[1 - b] /\ s.tv[1 - b] = tv[1 - b] /\ s.tv[b] \in [TvCells -> Shade]
  BY DEF Buffers
<1>4. \A x \in 1..(ScreenW - 1), y \in 0..(ScreenH - 1) :
        s.tv[b][Own(x) + Own(y) * mode.w] = s.drc[b][x + y * DrcW]
  BY DEF Buffers
<1>5. b \in 0..1 /\ 1 - b \in 0..1 /\ 1 - b # b BY HalfType
<1>6. DrawPixel(s, p) = [drc |-> d, tv |-> t] BY DEF DrawPixel
<1> HIDE DEF On, b, zoomed
<1>7. s.drc[b] \in [DrcCells -> Shade] BY <1>3, <1>5
<1>8. wide \in [TvCells -> Shade] BY <1>2, <1>3
<1>9. i \in DrcCells => row \in [DrcCells -> Shade] BY <1>2, <1>7
<1>10. t \in [0..1 -> [TvCells -> Shade \cup {Marker}]] /\ t[b] = wide /\ t[1 - b] = s.tv[1 - b]
  <2> HIDE DEF wide
  <2> QED BY <1>3, <1>5, <1>8
<1>11. /\ d \in [0..1 -> [DrcCells -> Shade]] /\ d[1 - b] = s.drc[1 - b]
       /\ d[b] = IF i \in DrcCells THEN row ELSE s.drc[b]
  <2> HIDE DEF row, i
  <2> QED BY <1>3, <1>5, <1>9
<1> HIDE DEF t, d
<1>12. ASSUME NEW x \in 1..(ScreenW - 1), NEW y \in 0..(ScreenH - 1)
       PROVE t[b][Own(x) + Own(y) * mode.w] = d[b][x + y * DrcW]
  <2> DEFINE c == Own(x) + Own(y) * mode.w
             j == x + y * DrcW
  <2>1. /\ c \in TvCells /\ j \in DrcCells
        /\ c \in zoomed <=> (p.x = x /\ p.y = y)
        /\ j = i <=> (p.x = x /\ p.y = y)
    BY <1>1, OwnOnly DEF zoomed
  <2>2. s.tv[b][c] = s.drc[b][j] BY <1>4
  <2> HIDE DEF c, j, i
  <2>3. wide[c] = IF c \in zoomed THEN On(s.tv[b][c]) ELSE s.tv[b][c] BY <2>1
  <2>4. CASE c \in zoomed
    <3>1. i \in DrcCells /\ j = i BY <2>1, <2>4
    <3>2. row[j] = On(s.drc[b][j]) BY <1>7, <3>1
    <3>3. d[b] = row BY <1>11, <3>1
    <3>4. t[b][c] = On(s.tv[b][c]) BY <1>10, <2>3, <2>4
    <3> QED BY <2>2, <3>2, <3>3, <3>4 DEF c, j
  <2>5. CASE c \notin zoomed
    <3>1. j # i BY <2>1, <2>5
    <3>2. d[b][j] = s.drc[b][j] BY <1>7, <1>11, <2>1, <3>1
    <3>3. t[b][c] = s.tv[b][c] BY <1>10, <2>3, <2>5
    <3> QED BY <2>2, <3>2, <3>3 DEF c, j
  <2> QED BY <2>4, <2>5
<1> DEFINE e == [drc |-> d, tv |-> t]
<1>13. e \in [drc : [0..1 -> [DrcCells -> Shade]], tv : [0..1 -> [TvCells -> Shade \cup {Marker}]]]
  BY <1>10, <1>11
<1>14. e.drc = d /\ e.tv = t OBVIOUS
<1>15. e.drc[1 - b] = drc[1 - b] /\ e.tv[1 - b] = tv[1 - b] /\ e.tv[b] \in [TvCells -> Shade]
  BY <1>3, <1>8, <1>10, <1>11
<1> HIDE DEF e
<1>16. e \in Buffers BY <1>12, <1>13, <1>14, <1>15 DEF Buffers, b
<1> QED BY <1>6, <1>16 DEF e

\* What is drawn goes to one buffer of each screen.
LEMMA DrawKeeps ==
  ASSUME mode \in TvModes, [drc |-> drc, tv |-> tv] \in Buffers, NEW pixels \in Seq(Pixels), Draw(pixels)
  PROVE [drc |-> drc', tv |-> tv'] \in Buffers
<1> DEFINE X == Buffers
           n == Len(pixels)
           base == [drc |-> drc, tv |-> tv]
           Step(s, k) == DrawPixel(s, pixels[k])
           turn == [k \in 1..n |-> [s \in X |-> Step(s, k)]]
           Run(f) == f = [k \in 0..n |-> IF k = 0 THEN base ELSE Step(f[k - 1], k)]
           End == CHOOSE f : Run(f)
<1>1. n \in Nat OBVIOUS
<1>2. base \in X OBVIOUS
<1>3. ASSUME NEW k \in 1..n, NEW s \in X PROVE Step(s, k) \in X
  <2>1. pixels[k] \in Pixels OBVIOUS
  <2> QED BY <2>1, DrawPixelKeeps
<1>4. drc' = End[n].drc /\ tv' = End[n].tv BY DEF Draw
<1> HIDE DEF n, X, base, Step
<1>5. \A k \in 1..n, s \in X : turn[k][s] = Step(s, k) OBVIOUS
<1> HIDE DEF turn
<1>6. Turns(X, n, turn) BY <1>3, <1>5 DEF Turns
<1>7. PICK h : Turned(X, base, n, turn, h) BY <1>1, <1>2, <1>6, Loop
<1>8. Run(h)
  <2>1. ASSUME NEW k \in 1..n PROVE h[k] = Step(h[k - 1], k)
    <3>1. k - 1 \in 0..n BY <1>1
    <3> QED BY <1>5, <1>7, <3>1 DEF Turned
  <2>2. \A k \in 0..n : k # 0 => k \in 1..n BY <1>1
  <2> QED BY <1>7, <2>1, <2>2 DEF Turned
<1>9. Run(End) BY <1>8
<1> HIDE DEF End
<1>10. End[0] = base BY <1>1, <1>9
<1>11. \A k \in 1..n : End[k] = Step(End[k - 1], k) BY <1>1, <1>9
<1> DEFINE T == {k \in 0..n : End[k] \in X}
<1>12. 0 \in T BY <1>1, <1>2, <1>10
<1>13. \A k \in 1..n : k - 1 \in T => k \in T BY <1>1, <1>3, <1>11
<1> HIDE DEF T
<1>14. \A k \in 0..n : k \in T BY <1>1, <1>12, <1>13, LoopStays
<1>15. End[n] \in X BY <1>1, <1>14 DEF T
<1> DEFINE s == End[n]
<1>16. s \in Buffers BY <1>15 DEF X
<1>17. drc' = s.drc /\ tv' = s.tv BY <1>4
<1> HIDE DEF s
<1>18. s \in [drc : [0..1 -> [DrcCells -> Shade]], tv : [0..1 -> [TvCells -> Shade \cup {Marker}]]]
  BY <1>16 DEF Buffers
<1>19. s = [drc |-> s.drc, tv |-> s.tv] BY <1>18
<1> QED BY <1>16, <1>17, <1>19

\* The rows of a filled rectangle.
LEMMA FilledPixels ==
  ASSUME NEW x \in Nat, NEW y \in Nat, NEW w \in Nat, NEW h \in Nat, NEW shade \in Shade, x + w <= ScreenW
  PROVE Filled(x, y, w, h, shade) \in Seq(Pixels)
<1> DEFINE n == w * h
           At(k) == [x |-> x + ((k - 1) % w), y |-> y + ((k - 1) \div w), shade |-> shade, alpha |-> 255]
<1>1. n \in Nat OBVIOUS
<1>2. ScreenW \in Nat BY ScreensAssumption
<1>3. ASSUME NEW k \in 1..n PROVE At(k) \in Pixels
  <2> DEFINE v == k - 1
             q == v \div w
             r == v % w
  <2>1. v \in Nat /\ n # 0 BY <1>1
  <2>2. w # 0 BY <2>1
  <2>3. w \in Nat \ {0} BY <2>2
  <2> HIDE DEF v
  <2>4. q \in Int /\ r \in 0..(w - 1)
    <3>1. v \in Int BY <2>1
    <3> QED BY <2>3, <3>1, Remainder
  <2>5. 0 <= q BY <2>1, <2>3
  <2> HIDE DEF q, r
  <2>6. x + r \in 0..(ScreenW - 1) /\ y + q \in Nat BY <1>2, <2>3, <2>4, <2>5
  <2>7. At(k) = [x |-> x + r, y |-> y + q, shade |-> shade, alpha |-> 255] BY DEF r, q, v
  <2> QED BY <2>6, <2>7 DEF Pixels
<1>4. Filled(x, y, w, h, shade) = [k \in 1..n |-> At(k)] BY DEF Filled
<1> HIDE DEF n, At
<1>5. [k \in 1..n |-> At(k)] \in Seq(Pixels) BY <1>1, <1>3
<1> QED BY <1>4, <1>5

LEMMA SidesPixels ==
  ASSUME NEW r \in Rects, r.x + r.w <= ScreenW, r.border <= r.w, r.border <= r.h
  PROVE Sides(r) \in Seq(Pixels)
<1> DEFINE b == r.border
           top == Filled(r.x, r.y, r.w, b, r.shade)
           bottom == Filled(r.x, r.y + r.h - b, r.w, b, r.shade)
           left == Filled(r.x, r.y, b, r.h, r.shade)
           right == Filled(r.x + r.w - b, r.y, b, r.h, r.shade)
<1>1. r.x \in Nat /\ r.y \in Nat /\ r.w \in Nat /\ r.h \in Nat /\ b \in Nat /\ r.shade \in Shade BY DEF Rects
<1>2. ScreenW \in Nat BY ScreensAssumption
<1>3. /\ r.y + r.h - b \in Nat /\ r.x + r.w - b \in Nat
      /\ r.x + b <= ScreenW /\ (r.x + r.w - b) + b <= ScreenW
  BY <1>1, <1>2
<1>4. top \in Seq(Pixels) BY <1>1, FilledPixels
<1>5. bottom \in Seq(Pixels) BY <1>1, <1>3, FilledPixels
<1>6. left \in Seq(Pixels) BY <1>1, <1>3, FilledPixels
<1>7. right \in Seq(Pixels) BY <1>1, <1>3, FilledPixels
<1>8. Sides(r) = top \o bottom \o left \o right BY DEF Sides
<1> HIDE DEF top, bottom, left, right
<1>9. top \o bottom \in Seq(Pixels) BY <1>4, <1>5
<1>10. top \o bottom \o left \in Seq(Pixels) BY <1>6, <1>9
<1>11. top \o bottom \o left \o right \in Seq(Pixels) BY <1>7, <1>10
<1> QED BY <1>8, <1>11

\* Only what is on the screen is drawn of a glyph.
LEMMA BitmapPixels ==
  ASSUME NEW x \in Int, NEW y \in Int, NEW w \in Nat, NEW h \in Nat,
         NEW image \in [0..(w * h - 1) -> 0..255], NEW shade \in Shade
  PROVE Bitmap(x, y, w, h, image, shade) \in Seq(Pixels)
<1> DEFINE At(k) == [x |-> x + ((k - 1) \div h), y |-> y + ((k - 1) % h), shade |-> shade,
                     alpha |-> image[((k - 1) % h) * w + ((k - 1) \div h)]]
           OnScreen(p) == p.x \in 0..(ScreenW - 1) /\ p.y \in 0..(ScreenH - 1)
<1>0. ASSUME NEW k \in 1..(w * h), OnScreen(At(k)) PROVE At(k) \in Pixels
  <2> DEFINE v == k - 1
             q == v \div h
             r == v % h
             all == w * h
             place == r * w + q
  <2>1. v \in Nat /\ v < all /\ all \in Nat OBVIOUS
  <2>2. w # 0 /\ h # 0 BY <2>1
  <2>3. w \in Nat \ {0} /\ h \in Nat \ {0} BY <2>2
  <2> HIDE DEF v
  <2>4. q \in Int /\ r \in 0..(h - 1) /\ h * q <= v
    <3>1. v \in Int BY <2>1
    <3> QED BY <2>3, <3>1, Remainder, Division
  <2>5. 0 <= q BY <2>1, <2>3
  <2> HIDE DEF q, r
  <2>6. q < w
    <3>1. h * q \in Int /\ h * w \in Int /\ all = h * w BY <2>3, <2>4
    <3>2. h * q < h * w BY <2>1, <2>4, <3>1
    <3> QED BY <2>3, <2>4, <3>2, Smaller
  <2>7. q \in 0..(w - 1) BY <2>3, <2>4, <2>5, <2>6
  <2>8. q + r * w \in 0..(all - 1) BY <2>3, <2>4, <2>7, InBuffer
  <2>9. place = q + r * w
    <3>1. r * w \in Int BY <2>3, <2>4
    <3> QED BY <2>4, <3>1
  <2>10. image[place] \in 0..255 BY <2>8, <2>9
  <2>11. At(k) = [x |-> x + q, y |-> y + r, shade |-> shade, alpha |-> image[place]] BY DEF r, q, v
  <2> HIDE DEF place
  <2>12. x + q \in 0..(ScreenW - 1) /\ y + r \in 0..(ScreenH - 1) BY <1>0, <2>11
  <2>13. y + r \in Nat
    <3>1. ScreenH \in Nat BY ScreensAssumption
    <3> QED BY <2>12, <3>1
  <2> HIDE DEF At
  <2> QED BY <2>10, <2>11, <2>12, <2>13 DEF Pixels
<1> HIDE DEF At, OnScreen
<1> DEFINE X == Seq(Pixels)
           n == w * h
           base == <<>>
           Step(s, k) == IF OnScreen(At(k)) THEN Append(s, At(k)) ELSE s
           turn == [k \in 1..n |-> [s \in X |-> Step(s, k)]]
           Run(f) == f = [k \in 0..n |-> IF k = 0 THEN base ELSE Step(f[k - 1], k)]
           End == CHOOSE f : Run(f)
<1>1. n \in Nat OBVIOUS
<1>2. base \in X OBVIOUS
<1>3. ASSUME NEW k \in 1..n, NEW s \in X PROVE Step(s, k) \in X
  <2> DEFINE p == At(k)
  <2>1. CASE OnScreen(p)
    <3>1. p \in Pixels BY <1>0, <2>1
    <3>2. Append(s, p) \in Seq(Pixels) BY <3>1
    <3> QED BY <2>1, <3>2
  <2>2. CASE ~OnScreen(p) BY <2>2
  <2> QED BY <2>1, <2>2
<1>4. Bitmap(x, y, w, h, image, shade) = End[n] BY DEF Bitmap, At, OnScreen
<1> HIDE DEF n, X, base, Step
<1>5. \A k \in 1..n, s \in X : turn[k][s] = Step(s, k) OBVIOUS
<1> HIDE DEF turn
<1>6. Turns(X, n, turn) BY <1>3, <1>5 DEF Turns
<1>7. PICK u : Turned(X, base, n, turn, u) BY <1>1, <1>2, <1>6, Loop
<1>8. Run(u)
  <2>1. ASSUME NEW k \in 1..n PROVE u[k] = Step(u[k - 1], k)
    <3>1. k - 1 \in 0..n BY <1>1
    <3> QED BY <1>5, <1>7, <3>1 DEF Turned
  <2>2. \A k \in 0..n : k # 0 => k \in 1..n BY <1>1
  <2> QED BY <1>7, <2>1, <2>2 DEF Turned
<1>9. Run(End) BY <1>8
<1> HIDE DEF End
<1>10. End[0] = base BY <1>1, <1>9
<1>11. \A k \in 1..n : End[k] = Step(End[k - 1], k) BY <1>1, <1>9
<1> DEFINE T == {k \in 0..n : End[k] \in X}
<1>12. 0 \in T BY <1>1, <1>2, <1>10
<1>13. \A k \in 1..n : k - 1 \in T => k \in T BY <1>1, <1>3, <1>11
<1> HIDE DEF T
<1>14. \A k \in 0..n : k \in T BY <1>1, <1>12, <1>13, LoopStays
<1>15. End[n] \in X BY <1>1, <1>14 DEF T
<1> QED BY <1>4, <1>15 DEF X

-----------------------------------------------------------------------------
(* The outline of a glyph that has metrics *)

LEMMA RenderShape ==
  ASSUME NEW f \in Fonts, Loads(f), NEW size \in Nat \ {0}, NEW g \in 0..(GlyphsOf(f) - 1),
         GMetrics(f, size, g).ok, OutlineOffset(f, g) # NoOutline, NEW w \in Nat, NEW h \in Nat
  PROVE LET q == TesselateCurves(ClipPoints(
                   TransformPoints(DecodeOutline(f, OutlineOffset(f, g), NewOutline), 0,
                                   Placement(f, size, GlyphBox(f, size, Outline(f, OutlineOffset(f, g))))), w, h))
        IN q \in Shapes /\ (q.ok => \A i \in Nat : Excess(q.lines, i) = 0)
<1> DEFINE o == OutlineOffset(f, g)
           b == GlyphBox(f, size, Outline(f, o))
           m == Placement(f, size, b)
           decoded == DecodeOutline(f, o, NewOutline)
           placed == TransformPoints(decoded, 0, m)
           clipped == ClipPoints(placed, w, h)
           n == GlyphsOf(f)
<1>1. n \in Nat /\ IsFont(f, n) BY GlyphCount
<1>2. o # Failure /\ b # <<>>
  <2> SUFFICES ASSUME o = Failure \/ b = <<>> PROVE FALSE OBVIOUS
  <2> DEFINE a == HorMetrics(f, g)
             flat == [ok |-> a.ok, advance |-> Scaled(f, size, a.advance),
                      bearing |-> Scaled(f, size, a.bearing), width |-> 0, height |-> 0, up |-> 0]
  <2>1. GMetrics(f, size, g) = IF ~a.ok \/ o = NoOutline THEN flat ELSE [flat EXCEPT !.ok = FALSE]
    BY DEF GMetrics
  <2>2. flat.ok = a.ok /\ [flat EXCEPT !.ok = FALSE].ok = FALSE OBVIOUS
  <2> HIDE DEF flat, a
  <2> QED BY <2>1, <2>2
<1>3. o \in DOMAIN f.tables.glyf.at /\ IsGlyph(Outline(f, o), n) BY <1>1, <1>2, OutlineThere
<1>4. Has(f, "glyf")
  <2>1. ~Has(f, "glyf") => o = Failure BY DEF OutlineOffset
  <2> QED BY <1>2, <2>1
<1>5. b \in Boxes BY <1>1, <1>3, GlyphBoxType
<1>6. m \in [one : Nat \ {0}, xx : Int, xy : Int, yx : Int, yy : Int, dx : Int, dy : Int]
  <2>1. b[1] \in Int /\ b[4] \in Int BY <1>2, <1>5, BoxSides
  <2>2. f.tables.head.unitsPerEm \in Nat \ {0} BY <1>1 DEF Loads, IsFont, HasTables
  <2>3. Sub \in Nat BY OutlinesAssumption
  <2> HIDE DEF b
  <2>4. size * Sub \in Int /\ -(size * Sub) \in Int /\ -(b[1] * Sub) \in Int /\ b[4] * Sub \in Int BY <2>1, <2>3
  <2> QED BY <2>2, <2>4 DEF Placement
<1> HIDE DEF o, b, n
<1>7. decoded \in Shapes /\ Tied(NewOutline, decoded) BY <1>1, <1>3, <1>4, NewShape, DecodeShape
<1> HIDE DEF m, decoded
<1>8. placed \in Shapes /\ Tied(decoded, placed) BY <1>6, <1>7, TransformShape
<1> HIDE DEF placed
<1>9. clipped \in Shapes /\ Tied(placed, clipped) BY <1>8, ClipShape
<1> HIDE DEF clipped
<1> DEFINE q == TesselateCurves(clipped)
<1>10. /\ q \in Shapes /\ Kept(clipped, q)
       /\ q.ok /\ Roomy(clipped) => \A i \in Nat : Excess(q.lines, i) = Degree(clipped, i)
  BY <1>9, TesselateAllShape
<1> HIDE DEF q
<1>11. Tied(NewOutline, clipped) BY <1>7, <1>8, <1>9, TiedOn
<1>12. q.ok => Roomy(clipped) /\ \A i \in Nat : Degree(clipped, i) = 0
  BY <1>10, <1>11, NewShape DEF Tied, Kept
<1>13. q \in Shapes /\ (q.ok => \A i \in Nat : Excess(q.lines, i) = 0) BY <1>10, <1>12
<1> QED BY <1>13 DEF q, clipped, placed, decoded, m, b, o

-----------------------------------------------------------------------------
(* The text that is being printed *)

LEMMA CmdText ==
  ASSUME IInv, pc \in Printing
  PROVE /\ font \in Fonts /\ Loads(font) /\ cmds # <<>> /\ Cmd \in Texts
        /\ Cmd.text \in Seq(Chars(font)) /\ Cmd.text \in Seq(Nat) /\ Cmd.size \in Nat \ {0} /\ Cmd.right \in BOOLEAN
        /\ Cmd.x \in Nat /\ Cmd.y \in Nat /\ Cmd.shade \in Shade
        /\ Tail(cmds) \in Seq(Menu(font)) /\ Tail(cmds) \in Seq(Rects \cup Texts)
<1>1. font \in Fonts /\ cmds \in Seq(Menu(font)) /\ cmds \in Seq(Rects \cup Texts) /\ cmds # <<>> /\ Cmd.op = "text" /\ Loads(font)
  BY DEF IInv, TypeOK, Printable, Printing
<1>2. Cmd \in Menu(font)
  <2> DEFINE M == Menu(font)
  <2>1. cmds \in Seq(M) /\ cmds # <<>> BY <1>1
  <2> HIDE DEF M
  <2>2. Head(cmds) \in M BY <2>1
  <2> QED BY <2>2 DEF M, Cmd
<1> DEFINE c == Cmd
<1>3. c \in Texts /\ c.text \in Seq(Chars(font)) BY <1>1, <1>2 DEF Menu, Rects
<1>4. Tail(cmds) \in Seq(Menu(font)) /\ Tail(cmds) \in Seq(Rects \cup Texts)
  <2> DEFINE M == Menu(font)
             A == Rects \cup Texts
  <2>1. cmds \in Seq(M) /\ cmds \in Seq(A) /\ cmds # <<>> BY <1>1
  <2> HIDE DEF M, A
  <2>2. Tail(cmds) \in Seq(M) /\ Tail(cmds) \in Seq(A) BY <2>1
  <2> QED BY <2>2 DEF M, A
<1> HIDE DEF c
<1>5. c.text \in Seq(Nat) /\ c.size \in Nat \ {0} /\ c.right \in BOOLEAN /\ c.x \in Nat /\ c.y \in Nat /\ c.shade \in Shade
  BY <1>3 DEF Texts
<1> QED BY <1>1, <1>3, <1>4, <1>5 DEF c

LEMMA RestOf ==
  ASSUME NEW S, NEW s \in Seq(S), s # <<>>
  PROVE Head(s) \in S /\ Tail(s) \in Seq(S)
OBVIOUS

\* What is left of a text after its first k characters.
LEMMA RestFrom ==
  ASSUME NEW S, NEW text \in Seq(S), NEW k \in 0..Len(text)
  PROVE LET left == SubSeq(text, k + 1, Len(text))
        IN /\ k = 0 => left = text
           /\ left # <<>> => /\ k + 1 \in 1..Len(text) /\ Head(left) = text[k + 1]
                             /\ Tail(left) = SubSeq(text, (k + 1) + 1, Len(text))
           /\ left = <<>> => k = Len(text)
<1> DEFINE n == Len(text)
           left == SubSeq(text, k + 1, n)
           more == SubSeq(text, (k + 1) + 1, n)
<1>1. n \in Nat OBVIOUS
<1>2. left \in Seq(S) /\ Len(left) = n - k /\ \A i \in 1..(n - k) : left[i] = text[k + i]
  OBVIOUS
<1>3. ASSUME k = 0 PROVE left = text
  <2>1. Len(left) = n /\ \A i \in 1..n : left[i] = text[i] BY <1>2, <1>3
  <2> HIDE DEF left
  <2> QED BY <1>2, <2>1
<1>4. ASSUME left # <<>>
      PROVE k + 1 \in 1..n /\ Head(left) = text[k + 1] /\ Tail(left) = more
  <2> HIDE DEF left, n
  <2>1. Len(left) # 0 BY <1>2, <1>4
  <2>2. k < n BY <1>1, <1>2, <2>1 DEF n
  <2>3. k + 1 \in 1..n BY <1>1, <2>2 DEF n
  <2>4. Head(left) = left[1] /\ 1 \in 1..(n - k) BY <1>1, <1>2, <1>4, <2>2
  <2>5. Head(left) = text[k + 1] BY <1>2, <2>4
  <2>6. Tail(left) \in Seq(S) /\ Len(Tail(left)) = n - k - 1 /\ \A i \in 1..(n - k - 1) : Tail(left)[i] = left[i + 1]
    BY <1>1, <1>2, <1>4, <2>2
  <2>7. more \in Seq(S) /\ Len(more) = n - (k + 1) /\ \A i \in 1..(n - (k + 1)) : more[i] = text[(k + 1) + i]
    BY <1>1, <2>3 DEF n
  <2> DEFINE t == Tail(left)
  <2>8. t \in Seq(S) /\ Len(t) = n - k - 1 /\ \A i \in 1..(n - k - 1) : t[i] = left[i + 1] BY <2>6
  <2> HIDE DEF t, more
  <2>9. ASSUME NEW i \in 1..(n - k - 1) PROVE t[i] = more[i]
    <3>1. i + 1 \in 1..(n - k) /\ k + (i + 1) = (k + 1) + i /\ i \in 1..(n - (k + 1)) BY <1>1
    <3>2. t[i] = left[i + 1] BY <2>8
    <3>3. left[i + 1] = text[k + (i + 1)] BY <1>2, <3>1
    <3>4. more[i] = text[(k + 1) + i] BY <2>7, <3>1
    <3> QED BY <3>1, <3>2, <3>3, <3>4
  <2>10. Len(t) = Len(more) BY <1>1, <2>7, <2>8
  <2>11. t = more BY <2>7, <2>8, <2>9, <2>10
  <2> QED BY <2>3, <2>5, <2>11 DEF t
<1>5. ASSUME left = <<>> PROVE k = n
  <2> HIDE DEF left
  <2>1. Len(left) = 0 BY <1>5
  <2> QED BY <1>1, <1>2, <2>1
<1> QED BY <1>3, <1>4, <1>5

\* A character more, or one that is left out: the pen is where the width says.
LEMMA AdvanceStep ==
  ASSUME IInv, pc \in Printing, rest # <<>>, UNCHANGED <<font, cmds>>, rest' = Tail(rest),
         Head(rest) # Newline => penX' = penX + Advance(font, Cmd.size, Head(rest))
  PROVE Advancing'
<1> DEFINE text == Cmd.text
           size == Cmd.size
           W(k) == Width(font, size, text, k)
           all == TextWidth(font, size, text)
<1>1. /\ font \in Fonts /\ Loads(font) /\ text \in Seq(Chars(font)) /\ size \in Nat \ {0} /\ Cmd.x \in Nat
  BY CmdText
<1>2. Cmd' = Cmd BY DEF Cmd
<1>3. SUFFICES ASSUME Cmd.right, Newline \notin Range(text)
      PROVE \E k \in 0..Len(text) : rest' = SubSeq(text, k + 1, Len(text)) /\ penX' = Cmd.x - (all - W(k))
  BY <1>2 DEF Advancing
<1>4. PICK k \in 0..Len(text) : rest = SubSeq(text, k + 1, Len(text)) /\ penX = Cmd.x - (all - W(k))
  BY <1>3 DEF IInv, Advancing
<1>5. /\ k + 1 \in 1..Len(text) /\ Head(rest) = text[k + 1]
      /\ Tail(rest) = SubSeq(text, (k + 1) + 1, Len(text))
  BY <1>1, <1>4, RestFrom
<1>6. k \in Nat /\ Len(text) \in Nat BY <1>1
<1>7. Head(rest) # Newline
  <2>1. text[k + 1] \in Range(text) BY <1>1, <1>5 DEF Range
  <2> QED BY <1>3, <1>5, <2>1
<1> DEFINE add == Advance(font, size, text[k + 1])
           j == k + 1
<1>8. j \in 1..Len(text) /\ j - 1 = k BY <1>5, <1>6
<1>9. W(j) = W(j - 1) + Advance(font, size, text[j]) /\ W(j) \in Int /\ W(j - 1) \in Int /\ W(Len(text)) \in Int
  <2>1. j \in 0..Len(text) /\ j - 1 \in 0..Len(text) /\ Len(text) \in 0..Len(text) BY <1>6, <1>8
  <2> HIDE DEF j, text, size
  <2> QED BY <1>1, <1>8, <2>1, Widths
<1>10. W(j) = W(k) + add /\ W(k) \in Int /\ add \in Int /\ all \in Int
  <2>1. text[j] \in Chars(font) BY <1>1, <1>8
  <2>2. Advance(font, size, text[j]) \in Int BY <1>1, <2>1, AdvanceType
  <2> QED BY <1>8, <1>9, <2>2 DEF TextWidth
<1>11. penX' = penX + add BY <1>5, <1>7
<1>12. rest' = SubSeq(text, j + 1, Len(text)) BY <1>5
<1> HIDE DEF text, j
<1>13. j \in 0..Len(text) BY <1>6, <1>8
<1> DEFINE before == W(k)
           after == W(j)
           x == Cmd.x
<1>14. after = before + add /\ before \in Int /\ add \in Int /\ all \in Int /\ x \in Int BY <1>1, <1>10
<1>15. penX = x - (all - before) /\ penX' = penX + add BY <1>4, <1>11
<1> HIDE DEF before, after, x, all, add
<1>16. penX' = x - (all - after) BY <1>14, <1>15
<1> QED BY <1>12, <1>13, <1>16 DEF x, all, after

LEMMA AdvanceStays ==
  ASSUME IInv, UNCHANGED <<font, cmds, rest, penX>>, pc \in Printing \/ pc' \notin Printing
  PROVE Advancing'
<1>1. Cmd' = Cmd BY DEF Cmd
<1>2. CASE pc' \notin Printing BY <1>2 DEF Advancing
<1>3. CASE pc \in Printing BY <1>1, <1>3 DEF Advancing, IInv
<1> QED BY <1>2, <1>3

-----------------------------------------------------------------------------
(* The buffers *)

\* What the buffers hold while a frame is drawn.
LEMMA BuffersNow ==
  ASSUME IInv, pc \in Drawing
  PROVE mode \in TvModes /\ [drc |-> drc, tv |-> tv] \in Buffers
<1> DEFINE s == [drc |-> drc, tv |-> tv]
<1>1. mode \in TvModes /\ s \in [drc : [0..1 -> [DrcCells -> Shade]], tv : [0..1 -> [TvCells -> Shade \cup {Marker}]]]
  BY DEF IInv, TypeOK
<1>2. s.drc = drc /\ s.tv = tv OBVIOUS
<1>3. pc # "clear" BY DEF Drawing
<1>4. tv[Half] \in [TvCells -> Shade]
  <2>1. tv[Half] \in [TvCells -> Shade \cup {Marker}] BY HalfType DEF IInv, TypeOK
  <2>2. \A c \in TvCells : tv[Half][c] # Marker BY <1>3, HalfType DEF IInv, Hidden
  <2> QED BY <2>1, <2>2
<1>5. \A x \in 1..(ScreenW - 1), y \in 0..(ScreenH - 1) :
        tv[Half][Own(x) + Own(y) * mode.w] = drc[Half][x + y * DrcW]
  BY <1>3 DEF IInv, Alike
<1> HIDE DEF s
<1>6. s \in Buffers BY <1>1, <1>2, <1>4, <1>5 DEF Buffers
<1> QED BY <1>1, <1>6 DEF s

LEMMA SamePlaces ==
  ASSUME mode' = mode
  PROVE TvCells' = TvCells /\ \A v : Own(v)' = Own(v)
BY DEF TvCells, Own, Scale

\* What they hold after a step that draws.
LEMMA BuffersThen ==
  ASSUME IInv, pc \in Drawing, pc' \in Drawing, UNCHANGED <<mode, work, isBack>>,
         [drc |-> drc', tv |-> tv'] \in Buffers
  PROVE /\ drc' \in [0..1 -> [DrcCells -> Shade]] /\ tv' \in [0..1 -> [TvCells -> Shade \cup {Marker}]]
        /\ tv'[1 - work.tv] = tv[1 - work.tv] /\ drc'[1 - work.drc] = drc[1 - work.drc]
        /\ Hidden' /\ Alike'
<1> DEFINE s == [drc |-> drc', tv |-> tv']
<1>1. s.drc = drc' /\ s.tv = tv' OBVIOUS
<1>2. Half' = Half /\ TvCells' = TvCells BY SamePlaces DEF Half
<1>3. work.tv = Half /\ work.drc = Half /\ pc # "clear" /\ pc' # "clear" BY DEF IInv, Hidden, Drawing
<1>4. /\ s \in [drc : [0..1 -> [DrcCells -> Shade]], tv : [0..1 -> [TvCells -> Shade \cup {Marker}]]]
      /\ s.drc[1 - Half] = drc[1 - Half] /\ s.tv[1 - Half] = tv[1 - Half] /\ s.tv[Half] \in [TvCells -> Shade]
      /\ \A x \in 1..(ScreenW - 1), y \in 0..(ScreenH - 1) :
           s.tv[Half][Own(x) + Own(y) * mode.w] = s.drc[Half][x + y * DrcW]
  BY DEF Buffers
<1> HIDE DEF s
<1>5. drc' \in [0..1 -> [DrcCells -> Shade]] /\ tv' \in [0..1 -> [TvCells -> Shade \cup {Marker}]] BY <1>1, <1>4
<1>6. \A b \in 0..1, c \in TvCells : tv'[b][c] # Marker
  <2> SUFFICES ASSUME NEW b \in 0..1, NEW c \in TvCells PROVE tv'[b][c] # Marker OBVIOUS
  <2>1. CASE b = Half
    <3>1. tv'[Half][c] \in Shade BY <1>1, <1>4
    <3>2. Marker \notin Shade BY DEF Marker, Shade
    <3> QED BY <2>1, <3>1, <3>2
  <2>2. CASE b = 1 - Half
    <3>1. tv[1 - Half][c] # Marker BY <1>3, HalfType DEF IInv, Hidden
    <3> QED BY <1>1, <1>4, <2>2, <3>1
  <2>3. b = Half \/ b = 1 - Half BY HalfType DEF Half
  <2> QED BY <2>1, <2>2, <2>3
<1>7. Hidden'
  <2>1. work'.tv = work'.drc /\ Half' = work'.tv BY <1>2, <1>3
  <2> QED BY <1>2, <1>6, <2>1 DEF Hidden
<1>8. Alike'
  <2>1. \A x \in 1..(ScreenW - 1), y \in 0..(ScreenH - 1) :
          tv'[Half'][Own(x)' + Own(y)' * mode'.w] = drc'[Half'][x + y * DrcW]
    <3>1. \A v : Own(v)' = Own(v) BY SamePlaces
    <3> QED BY <1>1, <1>2, <1>4, <3>1
  <2> QED BY <2>1 DEF Alike
<1> QED BY <1>1, <1>3, <1>4, <1>5, <1>7, <1>8

\* A step that draws nothing.
LEMMA ScreensStay ==
  ASSUME IInv, mode' = mode, UNCHANGED screens, pc # "clear", pc' # "clear", pc' \in Drawing => pc \in Drawing
  PROVE /\ work' \in [tv : 0..1, drc : 0..1] /\ isBack' \in BOOLEAN
        /\ drc' \in [0..1 -> [DrcCells -> Shade]] /\ tv' \in [0..1 -> [TvCells -> Shade \cup {Marker}]]
        /\ Hidden' /\ Alike'
<1>1. work' = work /\ isBack' = isBack /\ drc' = drc /\ tv' = tv BY DEF screens
<1>2. Half' = Half /\ TvCells' = TvCells /\ \A v : Own(v)' = Own(v) BY <1>1, SamePlaces DEF Half
<1>3. Hidden' BY <1>1, <1>2 DEF IInv, Hidden, Drawing
<1>4. Alike'
  <2>1. \A x \in 1..(ScreenW - 1), y \in 0..(ScreenH - 1) :
          tv'[Half'][Own(x)' + Own(y)' * mode'.w] = drc'[Half'][x + y * DrcW]
    BY <1>1, <1>2 DEF IInv, Alike
  <2> QED BY <2>1 DEF Alike
<1> QED BY <1>1, <1>3, <1>4 DEF IInv, TypeOK

-----------------------------------------------------------------------------
(* Every step keeps the invariant *)

LEMMA InitHolds ==
  ASSUME Init
  PROVE IInv
<1>1. work \in [tv : 0..1, drc : 0..1] /\ work.tv = work.drc /\ isBack = FALSE /\ pc = "init" /\ Half = 0
  BY DEF Init, Half
<1>2. font \in Fonts /\ mode \in TvModes /\ frame = 0 /\ cmds = <<>> /\ rest = <<>> /\ penX = 0 /\ penY = 0
  BY DEF Init
<1>3. gid = 0 /\ mtx = NoGlyph /\ outl = NewOutline BY DEF Init
<1>4. drc = [b \in 0..1 |-> [c \in DrcCells |-> Black]] /\ tv = [b \in 0..1 |-> [c \in TvCells |-> Black]]
  BY DEF Init
<1>5. Black \in Shade /\ Black # Marker BY DEF Black, Shade, Marker
<1>6. drc \in [0..1 -> [DrcCells -> Shade]] /\ tv \in [0..1 -> [TvCells -> Shade \cup {Marker}]] BY <1>4, <1>5
<1>7. mtx \in Metrics BY <1>3 DEF NoGlyph, Metrics
<1>8. frame \in 0..(MaxFrames + 1) BY <1>2, ScreensAssumption
<1>9. TypeOK
  <2>1. cmds \in Seq(Rects \cup Texts) /\ rest \in Seq(Nat) /\ penX \in Int /\ penY \in Int BY <1>2
  <2>2. gid \in Nat /\ outl \in Shapes BY <1>3, NewShape
  <2>3. isBack \in BOOLEAN BY <1>1
  <2> QED BY <1>1, <1>2, <1>6, <1>7, <1>8, <2>1, <2>2, <2>3 DEF TypeOK
<1>10. Printable BY <1>1, <1>2 DEF Printable, Drawing, Printing, Glyphing
<1>11. Hidden
  <2>1. \A b \in 0..1, c \in TvCells : tv[b][c] # Marker BY <1>4, <1>5
  <2> QED BY <1>1, <2>1 DEF Hidden, Drawing
<1>12. Advancing BY <1>1 DEF Advancing, Printing
<1>13. Alike
  <2>1. ASSUME NEW x \in 1..(ScreenW - 1), NEW y \in 0..(ScreenH - 1)
        PROVE tv[Half][Own(x) + Own(y) * mode.w] = drc[Half][x + y * DrcW]
    <3> DEFINE c == Own(x) + Own(y) * mode.w
               j == x + y * DrcW
    <3>1. c \in TvCells /\ j \in DrcCells BY <1>2, OwnOnly
    <3> HIDE DEF c, j
    <3>2. tv[Half][c] = drc[Half][j] BY <1>1, <1>4, <3>1
    <3> QED BY <3>2 DEF c, j
  <2> QED BY <2>1 DEF Alike
<1> QED BY <1>9, <1>10, <1>11, <1>12, <1>13 DEF IInv

LEMMA InitFontKeeps ==
  ASSUME IInv, InitFont
  PROVE IInv'
<1>1. /\ pc = "init" /\ pc' \in {"idle", "fatal"} /\ (pc' = "idle" => Loads(font))
      /\ UNCHANGED <<font, mode, screens, frame, cmds, pen, glyph>>
  BY DEF InitFont
<1>2. UNCHANGED <<rest, penX, penY, gid, mtx, outl, cells>> BY <1>1 DEF pen, glyph
<1>3. /\ work' \in [tv : 0..1, drc : 0..1] /\ isBack' \in BOOLEAN
      /\ drc' \in [0..1 -> [DrcCells -> Shade]] /\ tv' \in [0..1 -> [TvCells -> Shade \cup {Marker}]]
      /\ Hidden' /\ Alike'
  BY <1>1, ScreensStay DEF Drawing
<1>4. TypeOK' BY <1>1, <1>2, <1>3, SamePlaces DEF IInv, TypeOK
<1>5. Printable' BY <1>1, <1>2 DEF IInv, Printable, Drawing, Printing, Glyphing
<1>6. Advancing' BY <1>1, <1>2, AdvanceStays DEF Printing
<1> QED BY <1>3, <1>4, <1>5, <1>6 DEF IInv

\* The buffer that the pixel of OSScreen turned up in is the one OSScreen draws to.
LEMMA BeginDrawKeeps ==
  ASSUME IInv, BeginDraw
  PROVE IInv' /\ tv'[1 - work.tv] = tv[1 - work.tv]
<1> DEFINE a == [tv[0] EXCEPT ![0] = Marker]
           b == [tv[1] EXCEPT ![0] = Marker]
           marked == [tv EXCEPT ![work.tv][0] = Marker]
           T == [TvCells -> Shade \cup {Marker}]
<1>1. /\ pc = "idle" /\ pc' = "clear" /\ frame <= MaxFrames /\ isBack' = (marked[0][0] # Marker)
      /\ tv' = [marked EXCEPT ![0][0] = tv[0][0]] /\ cmds' \in Frames \cup {<<>>}
      /\ UNCHANGED <<font, mode, work, drc, frame, rest, penX, penY, gid, mtx, outl, cells>>
  BY DEF BeginDraw, pen, glyph
<1>2. tv \in [0..1 -> T] /\ work \in [tv : 0..1, drc : 0..1] /\ mode \in TvModes /\ font \in Fonts /\ Marker \in Shade \cup {Marker}
  BY DEF IInv, TypeOK
<1>3. 0 \in TvCells
  <2> DEFINE w == mode.w
             h == mode.h
  <2>1. w \in Nat \ {0} /\ h \in Nat \ {0} BY <1>2, ScreensAssumption
  <2> HIDE DEF w, h
  <2>2. 0 \in 0..(w - 1) /\ 0 \in 0..(h - 1) BY <2>1
  <2>3. 0 + 0 * w \in 0..(w * h - 1) BY <2>1, <2>2, InBuffer
  <2>4. 0 + 0 * w = 0 BY <2>1
  <2> QED BY <2>3, <2>4 DEF TvCells, w, h
<1>4. \A i \in 0..1, c \in TvCells : tv[i][c] # Marker BY <1>1 DEF IInv, Hidden
<1> HIDE DEF T
<1>5. tv[0] \in T /\ tv[1] \in T BY <1>2
<1>6. a \in T /\ b \in T /\ a[0] = Marker BY <1>2, <1>3, <1>5 DEF T
<1>7. ASSUME work.tv = 0
      PROVE /\ tv' \in [0..1 -> T] /\ tv'[1 - work.tv] = tv[1 - work.tv]
            /\ isBack' \in BOOLEAN /\ Half' = work.tv
  <2>1. marked \in [0..1 -> T] /\ marked[0] = a /\ marked[1] = tv[1]
    <3>1. marked = [tv EXCEPT ![0] = a] BY <1>7
    <3> HIDE DEF marked, a
    <3> QED BY <1>2, <1>6, <3>1
  <2>2. isBack' = FALSE BY <1>1, <1>6, <2>1
  <2> DEFINE back == [a EXCEPT ![0] = tv[0][0]]
  <2>3. back \in T BY <1>3, <1>5, <1>6 DEF T
  <2>4. tv' = [marked EXCEPT ![0] = back] BY <1>1, <2>1
  <2> HIDE DEF back, marked
  <2>5. tv' \in [0..1 -> T] /\ tv'[1] = tv[1] BY <2>1, <2>3, <2>4
  <2>6. 1 - work.tv = 1 BY <1>7
  <2> QED BY <1>7, <2>2, <2>5, <2>6 DEF Half
<1>8. ASSUME work.tv = 1
      PROVE /\ tv' \in [0..1 -> T] /\ tv'[1 - work.tv] = tv[1 - work.tv]
            /\ isBack' \in BOOLEAN /\ Half' = work.tv
  <2>1. marked \in [0..1 -> T] /\ marked[0] = tv[0] /\ marked[1] = b
    <3>1. marked = [tv EXCEPT ![1] = b] BY <1>8
    <3> HIDE DEF marked, b
    <3> QED BY <1>2, <1>6, <3>1
  <2>2. isBack' = TRUE
    <3>1. tv[0][0] # Marker BY <1>3, <1>4
    <3>2. marked[0][0] # Marker BY <2>1, <3>1
    <3> HIDE DEF marked
    <3> QED BY <1>1, <3>2
  <2>3. tv' = [marked EXCEPT ![0] = [tv[0] EXCEPT ![0] = tv[0][0]]] BY <1>1, <2>1
  <2>4. [tv[0] EXCEPT ![0] = tv[0][0]] = tv[0] BY <1>5 DEF T
  <2> HIDE DEF marked
  <2>5. tv' \in [0..1 -> T] /\ tv'[0] = tv[0] BY <1>5, <2>1, <2>3, <2>4
  <2>6. 1 - work.tv = 0 BY <1>8
  <2> QED BY <1>8, <2>2, <2>5, <2>6 DEF Half
<1> HIDE DEF marked, a, b
<1>9. tv' \in [0..1 -> T] /\ tv'[1 - work.tv] = tv[1 - work.tv] /\ isBack' \in BOOLEAN /\ Half' = work.tv
  <2>1. work.tv = 0 \/ work.tv = 1 BY <1>2
  <2> QED BY <1>7, <1>8, <2>1
<1>10. TvCells' = TvCells /\ work' = work BY <1>1, SamePlaces
<1>11. Hidden'
  <2>1. ASSUME NEW i \in 0..1, NEW c \in TvCells, tv'[i][c] = Marker PROVE i = work.tv
    <3>1. i = work.tv \/ i = 1 - work.tv BY <1>2
    <3> QED BY <1>4, <1>9, <2>1, <3>1
  <2>2. work.tv = work.drc BY DEF IInv, Hidden
  <2> QED BY <1>1, <1>9, <1>10, <2>1, <2>2 DEF Hidden
<1>12. Alike' BY <1>1 DEF Alike
<1>13. Advancing' BY <1>1 DEF Advancing, Printing
<1>14. cmds' \in Seq(Menu(font)) /\ cmds' \in Seq(Rects \cup Texts)
  <2>1. CASE cmds' \in Frames
    <3>1. cmds' \in Seq(Menu(font)) BY <1>2, <2>1, FramesInMenu
    <3>2. cmds' \in Seq(Rects \cup Texts) BY <2>1, FramesAssumption
    <3> QED BY <3>1, <3>2
  <2>2. CASE cmds' = <<>> BY <2>2
  <2> QED BY <1>1, <2>1, <2>2
<1>15. Printable' BY <1>1, <1>14 DEF IInv, Printable, Drawing, Printing, Glyphing
<1>16. TypeOK' BY <1>1, <1>9, <1>10, <1>14 DEF IInv, TypeOK, T
<1> QED BY <1>9, <1>11, <1>12, <1>13, <1>15, <1>16 DEF IInv

LEMMA ClearKeeps ==
  ASSUME IInv, Clear
  PROVE IInv' /\ tv'[1 - work.tv] = tv[1 - work.tv] /\ drc'[1 - work.drc] = drc[1 - work.drc]
<1> DEFINE shade == IF frame = MaxFrames THEN Black ELSE Background
           wide == [c \in TvCells |-> shade]
           row == [c \in DrcCells |-> shade]
<1>1. /\ pc = "clear" /\ pc' = "draw" /\ tv' = [tv EXCEPT ![work.tv] = wide] /\ drc' = [drc EXCEPT ![work.drc] = row]
      /\ UNCHANGED <<font, mode, work, isBack, frame, cmds, rest, penX, penY, gid, mtx, outl, cells>>
  BY DEF Clear, pen, glyph
<1>2. /\ drc \in [0..1 -> [DrcCells -> Shade]] /\ tv \in [0..1 -> [TvCells -> Shade \cup {Marker}]]
      /\ work.tv \in 0..1 /\ work.drc = work.tv /\ Half = work.tv /\ mode \in TvModes
  BY <1>1 DEF IInv, TypeOK, Hidden
<1>3. shade \in Shade BY DEF Shade, Black, Background
<1> HIDE DEF shade
<1>4. wide \in [TvCells -> Shade] /\ row \in [DrcCells -> Shade] BY <1>3
<1>5. /\ drc' \in [0..1 -> [DrcCells -> Shade]] /\ tv' \in [0..1 -> [TvCells -> Shade \cup {Marker}]]
      /\ tv'[work.tv] = wide /\ drc'[work.tv] = row
      /\ tv'[1 - work.tv] = tv[1 - work.tv] /\ drc'[1 - work.drc] = drc[1 - work.drc]
  <2> HIDE DEF wide, row
  <2> QED BY <1>1, <1>2, <1>4
<1>6. Half' = Half /\ TvCells' = TvCells /\ \A v : Own(v)' = Own(v) BY <1>1, SamePlaces DEF Half
<1>7. Hidden'
  <2>1. ASSUME NEW i \in 0..1, NEW c \in TvCells PROVE tv'[i][c] # Marker
    <3>1. CASE i = work.tv
      <4>1. tv'[i][c] \in Shade BY <1>4, <1>5, <3>1
      <4> QED BY <4>1 DEF Shade, Marker
    <3>2. CASE i # work.tv
      <4>1. i = 1 - work.tv BY <1>2, <3>2
      <4>2. tv[i][c] # Marker BY <3>2 DEF IInv, Hidden
      <4> QED BY <1>5, <4>1, <4>2
    <3> QED BY <3>1, <3>2
  <2> QED BY <1>1, <1>2, <1>6, <2>1 DEF Hidden
<1>8. Alike'
  <2>1. ASSUME NEW x \in 1..(ScreenW - 1), NEW y \in 0..(ScreenH - 1)
        PROVE tv'[Half'][Own(x)' + Own(y)' * mode'.w] = drc'[Half'][x + y * DrcW]
    <3> DEFINE c == Own(x) + Own(y) * mode.w
               j == x + y * DrcW
    <3>1. c \in TvCells /\ j \in DrcCells BY <1>2, OwnOnly
    <3>2. Own(x)' + Own(y)' * mode'.w = c BY <1>1, <1>6
    <3> HIDE DEF c, j
    <3>3. tv'[Half'][c] = drc'[Half'][j] BY <1>2, <1>5, <1>6, <3>1
    <3> QED BY <3>2, <3>3 DEF j
  <2> QED BY <2>1 DEF Alike
<1>9. Advancing' BY <1>1 DEF Advancing, Printing
<1>10. Printable' BY <1>1 DEF IInv, Printable, Drawing, Printing, Glyphing
<1>11. TypeOK' BY <1>1, <1>5, <1>6 DEF IInv, TypeOK
<1> QED BY <1>5, <1>7, <1>8, <1>9, <1>10, <1>11 DEF IInv

LEMMA DrawRectKeeps ==
  ASSUME IInv, DrawRect
  PROVE IInv' /\ tv'[1 - work.tv] = tv[1 - work.tv] /\ drc'[1 - work.drc] = drc[1 - work.drc]
<1> DEFINE c == Cmd
           pixels == IF c.border = 0 THEN Filled(c.x, c.y, c.w, c.h, c.shade) ELSE Sides(c)
<1>1. /\ pc = "draw" /\ pc' = "draw" /\ cmds # <<>> /\ c.op = "rect" /\ Draw(pixels) /\ cmds' = Tail(cmds)
      /\ UNCHANGED <<font, mode, work, isBack, frame, rest, penX, penY, gid, mtx, outl, cells>>
  BY DEF DrawRect, pen, glyph
<1>2. cmds \in Seq(Menu(font)) /\ cmds \in Seq(Rects \cup Texts) BY DEF IInv, TypeOK, Printable
<1>3. c \in Menu(font) /\ Tail(cmds) \in Seq(Menu(font)) /\ Tail(cmds) \in Seq(Rects \cup Texts)
  BY <1>1, <1>2, RestOf DEF Cmd
<1> HIDE DEF c
<1>4. c \in Rects /\ c.x + c.w <= ScreenW /\ c.border <= c.w /\ c.border <= c.h BY <1>1, <1>3 DEF Menu, Texts
<1>5. pixels \in Seq(Pixels)
  <2>1. c.x \in Nat /\ c.y \in Nat /\ c.w \in Nat /\ c.h \in Nat /\ c.shade \in Shade BY <1>4 DEF Rects
  <2>2. Filled(c.x, c.y, c.w, c.h, c.shade) \in Seq(Pixels) BY <1>4, <2>1, FilledPixels
  <2>3. Sides(c) \in Seq(Pixels) BY <1>4, SidesPixels
  <2> QED BY <2>2, <2>3
<1> HIDE DEF pixels
<1>6. mode \in TvModes /\ [drc |-> drc, tv |-> tv] \in Buffers BY <1>1, BuffersNow DEF Drawing
<1>7. [drc |-> drc', tv |-> tv'] \in Buffers BY <1>1, <1>5, <1>6, DrawKeeps
<1>8. /\ drc' \in [0..1 -> [DrcCells -> Shade]] /\ tv' \in [0..1 -> [TvCells -> Shade \cup {Marker}]]
      /\ tv'[1 - work.tv] = tv[1 - work.tv] /\ drc'[1 - work.drc] = drc[1 - work.drc]
      /\ Hidden' /\ Alike'
  BY <1>1, <1>7, BuffersThen DEF Drawing
<1>9. Advancing' BY <1>1 DEF Advancing, Printing
<1>10. Printable' BY <1>1, <1>3 DEF IInv, Printable, Drawing, Printing, Glyphing
<1>11. TypeOK' BY <1>1, <1>3, <1>8, SamePlaces DEF IInv, TypeOK
<1> QED BY <1>8, <1>9, <1>10, <1>11 DEF IInv

LEMMA ReturnKeeps ==
  ASSUME IInv, pc \in Printing, Return
  PROVE IInv'
<1>1. /\ cmds' = Tail(cmds) /\ rest' = <<>> /\ pc' = "draw"
      /\ UNCHANGED <<font, mode, screens, frame, penX, penY, gid, mtx, outl, cells>>
  BY DEF Return, glyph
<1>2. Loads(font) /\ Tail(cmds) \in Seq(Menu(font)) /\ Tail(cmds) \in Seq(Rects \cup Texts) BY CmdText
<1>3. /\ work' \in [tv : 0..1, drc : 0..1] /\ isBack' \in BOOLEAN
      /\ drc' \in [0..1 -> [DrcCells -> Shade]] /\ tv' \in [0..1 -> [TvCells -> Shade \cup {Marker}]]
      /\ Hidden' /\ Alike'
  BY <1>1, ScreensStay DEF Drawing, Printing
<1>4. TypeOK' BY <1>1, <1>2, <1>3, SamePlaces DEF IInv, TypeOK
<1>5. Printable' BY <1>1, <1>2 DEF IInv, Printable, Drawing, Printing, Glyphing
<1>6. Advancing' BY <1>1 DEF Advancing, Printing
<1> QED BY <1>3, <1>4, <1>5, <1>6 DEF IInv

LEMMA StartTextKeeps ==
  ASSUME IInv, StartText
  PROVE IInv'
<1> DEFINE text == Cmd.text
           size == Cmd.size
           all == TextWidth(font, size, text)
<1>1. /\ pc = "draw" /\ pc' = "text" /\ cmds # <<>> /\ Cmd.op = "text" /\ rest' = text
      /\ penX' = Cmd.x - (IF Cmd.right THEN all ELSE 0) /\ penY' = Cmd.y
      /\ UNCHANGED <<font, mode, screens, frame, cmds, gid, mtx, outl, cells>>
  BY DEF StartText, glyph
<1>2. Loads(font) /\ font \in Fonts /\ cmds \in Seq(Menu(font)) BY <1>1 DEF IInv, TypeOK, Printable
<1>3. Cmd \in Menu(font) BY <1>1, <1>2, RestOf DEF Cmd
<1> DEFINE c == Cmd
<1>4. c \in Texts /\ c.text \in Seq(Chars(font))
  <2> HIDE DEF c
  <2> QED BY <1>1, <1>3 DEF Menu, Rects, c
<1>5. c.text \in Seq(Nat) /\ c.size \in Nat \ {0} /\ c.right \in BOOLEAN /\ c.x \in Nat /\ c.y \in Nat
  <2> HIDE DEF c
  <2> QED BY <1>4 DEF Texts
<1>6. Width(font, size, text, 0) = 0 /\ all \in Int
  <2>1. /\ Width(font, size, text, 0) = 0
        /\ \A k \in 0..Len(text) : Width(font, size, text, k) \in Int
    <3> HIDE DEF size, text
    <3>1. text \in Seq(Chars(font)) /\ size \in Nat \ {0} BY <1>4, <1>5 DEF text, size
    <3> QED BY <1>2, <3>1, Widths
  <2>2. Len(text) \in 0..Len(text) BY <1>5
  <2> QED BY <2>1, <2>2 DEF TextWidth
<1> HIDE DEF all
<1>7. penX' \in Int BY <1>1, <1>5, <1>6
<1>8. /\ work' \in [tv : 0..1, drc : 0..1] /\ isBack' \in BOOLEAN
      /\ drc' \in [0..1 -> [DrcCells -> Shade]] /\ tv' \in [0..1 -> [TvCells -> Shade \cup {Marker}]]
      /\ Hidden' /\ Alike'
  BY <1>1, ScreensStay DEF Drawing
<1>9. TypeOK'
  <2>1. rest' \in Seq(Nat) /\ penY' \in Int BY <1>1, <1>5
  <2> HIDE DEF c, text
  <2> QED BY <1>1, <1>7, <1>8, <2>1, SamePlaces DEF IInv, TypeOK
<1>10. Cmd' = Cmd BY <1>1 DEF Cmd
<1>11. Printable'
  <2>1. rest' \in Seq(Chars(font)) BY <1>1, <1>4
  <2> HIDE DEF c, text
  <2> QED BY <1>1, <1>10, <2>1 DEF IInv, Printable, Drawing, Printing, Glyphing
<1>12. Advancing'
  <2> SUFFICES ASSUME Cmd.right
               PROVE \E k \in 0..Len(text) :
                       /\ rest' = SubSeq(text, k + 1, Len(text))
                       /\ penX' = Cmd.x - (all - Width(font, size, text, k))
    BY <1>1, <1>10 DEF Advancing, all
  <2>1. 0 \in 0..Len(text) BY <1>5
  <2>2. rest' = SubSeq(text, 0 + 1, Len(text))
    <3> HIDE DEF text
    <3>1. text \in Seq(Nat) BY <1>5 DEF text
    <3> QED BY <1>1, <2>1, <3>1, RestFrom
  <2>3. penX' = Cmd.x - (all - Width(font, size, text, 0)) BY <1>1, <1>5, <1>6
  <2> QED BY <2>1, <2>2, <2>3
<1> QED BY <1>8, <1>9, <1>11, <1>12 DEF IInv

\* What is printed next.
LEMMA NextChar ==
  ASSUME IInv, pc \in Printing, rest # <<>>
  PROVE /\ Head(rest) \in Chars(font) /\ Tail(rest) \in Seq(Chars(font)) /\ Tail(rest) \in Seq(Nat)
        /\ GlyphId(font, Head(rest)) # Failure =>
             /\ GlyphId(font, Head(rest)) \in 0..(GlyphsOf(font) - 1) /\ GlyphId(font, Head(rest)) \in Nat
             /\ GMetrics(font, Cmd.size, GlyphId(font, Head(rest))) \in Metrics
<1>1. rest \in Seq(Chars(font)) /\ rest \in Seq(Nat) BY DEF IInv, TypeOK, Printable
<1>2. Head(rest) \in Chars(font) /\ Tail(rest) \in Seq(Chars(font)) BY <1>1, RestOf
<1>3. Tail(rest) \in Seq(Nat) BY <1>1, RestOf
<1>4. font \in Fonts /\ Loads(font) /\ Cmd.size \in Nat \ {0} BY CmdText
<1>5. ASSUME GlyphId(font, Head(rest)) # Failure
      PROVE /\ GlyphId(font, Head(rest)) \in 0..(GlyphsOf(font) - 1)
            /\ GMetrics(font, Cmd.size, GlyphId(font, Head(rest))) \in Metrics
  BY <1>2, <1>4, <1>5, GlyphType
<1>6. GlyphsOf(font) \in Nat BY <1>4, GlyphCount
<1> QED BY <1>2, <1>3, <1>5, <1>6

LEMMA PrintLookupKeeps ==
  ASSUME IInv, PrintLookup
  PROVE IInv'
<1> DEFINE g == GlyphId(font, Head(rest))
           m == GMetrics(font, Cmd.size, g)
           next == Head(rest)
<1>1. pc = "text" /\ pc \in Printing /\ rest # <<>> BY DEF PrintLookup, Printing
<1>2. /\ next \in Chars(font) /\ Tail(rest) \in Seq(Chars(font)) /\ Tail(rest) \in Seq(Nat)
      /\ g # Failure => g \in Nat /\ m \in Metrics
  BY <1>1, NextChar
<1>3. \/ /\ g = Failure /\ rest' = Tail(rest)
         /\ UNCHANGED <<pc, font, mode, screens, frame, cmds, penX, penY, glyph>>
      \/ g # Failure /\ ~m.ok /\ Return
      \/ /\ g # Failure /\ m.ok /\ next = Newline
         /\ penX' = Cmd.x /\ penY' = penY + m.height /\ rest' = Tail(rest)
         /\ UNCHANGED <<pc, font, mode, screens, frame, cmds, glyph>>
      \/ /\ g # Failure /\ m.ok /\ next # Newline
         /\ gid' = g /\ mtx' = m /\ pc' = "render"
         /\ UNCHANGED <<font, mode, screens, frame, cmds, pen, outl, cells>>
  BY DEF PrintLookup
<1>4. Cmd.x \in Nat /\ font \in Fonts /\ Loads(font) /\ Cmd.op = "text" /\ cmds # <<>> BY <1>1, CmdText DEF Texts
<1>5. g = Failure => Advance(font, Cmd.size, next) = 0 BY DEF Advance
<1>6. penX \in Int /\ penY \in Int BY DEF IInv, TypeOK
<1> HIDE DEF g, m
<1>7. CASE /\ g = Failure /\ rest' = Tail(rest)
           /\ UNCHANGED <<pc, font, mode, screens, frame, cmds, penX, penY, glyph>>
  <2>1. UNCHANGED <<gid, mtx, outl, cells>> BY <1>7 DEF glyph
  <2>2. /\ work' \in [tv : 0..1, drc : 0..1] /\ isBack' \in BOOLEAN
        /\ drc' \in [0..1 -> [DrcCells -> Shade]] /\ tv' \in [0..1 -> [TvCells -> Shade \cup {Marker}]]
        /\ Hidden' /\ Alike'
    BY <1>1, <1>7, ScreensStay
  <2>3. Advancing'
    <3>1. penX' = penX + Advance(font, Cmd.size, next) BY <1>5, <1>6, <1>7
    <3> QED BY <1>1, <1>7, <3>1, AdvanceStep
  <2> HIDE DEF next
  <2>4. TypeOK' BY <1>1, <1>2, <1>7, <2>1, <2>2, SamePlaces DEF IInv, TypeOK
  <2>5. Cmd' = Cmd BY <1>7 DEF Cmd
  <2>6. Printable' BY <1>1, <1>2, <1>7, <2>5 DEF IInv, Printable, Drawing, Printing, Glyphing
  <2> QED BY <2>2, <2>3, <2>4, <2>6 DEF IInv
<1>8. CASE g # Failure /\ ~m.ok /\ Return BY <1>1, <1>8, ReturnKeeps
<1>9. CASE /\ g # Failure /\ m.ok /\ next = Newline
           /\ penX' = Cmd.x /\ penY' = penY + m.height /\ rest' = Tail(rest)
           /\ UNCHANGED <<pc, font, mode, screens, frame, cmds, glyph>>
  <2>1. UNCHANGED <<gid, mtx, outl, cells>> BY <1>9 DEF glyph
  <2>2. /\ work' \in [tv : 0..1, drc : 0..1] /\ isBack' \in BOOLEAN
        /\ drc' \in [0..1 -> [DrcCells -> Shade]] /\ tv' \in [0..1 -> [TvCells -> Shade \cup {Marker}]]
        /\ Hidden' /\ Alike'
    BY <1>1, <1>9, ScreensStay
  <2>3. Advancing' BY <1>1, <1>9, AdvanceStep
  <2>4. penX' \in Int /\ penY' \in Int
    <3>1. m.height \in Nat BY <1>2, <1>9 DEF Metrics
    <3> QED BY <1>4, <1>6, <1>9, <3>1
  <2> HIDE DEF next
  <2>5. TypeOK' BY <1>1, <1>2, <1>9, <2>1, <2>2, <2>4, SamePlaces DEF IInv, TypeOK
  <2>6. Cmd' = Cmd BY <1>9 DEF Cmd
  <2>7. Printable' BY <1>1, <1>2, <1>9, <2>6 DEF IInv, Printable, Drawing, Printing, Glyphing
  <2> QED BY <2>2, <2>3, <2>5, <2>7 DEF IInv
<1>10. CASE /\ g # Failure /\ m.ok /\ next # Newline
            /\ gid' = g /\ mtx' = m /\ pc' = "render"
            /\ UNCHANGED <<font, mode, screens, frame, cmds, pen, outl, cells>>
  <2>1. UNCHANGED <<rest, penX, penY>> BY <1>10 DEF pen
  <2>2. /\ work' \in [tv : 0..1, drc : 0..1] /\ isBack' \in BOOLEAN
        /\ drc' \in [0..1 -> [DrcCells -> Shade]] /\ tv' \in [0..1 -> [TvCells -> Shade \cup {Marker}]]
        /\ Hidden' /\ Alike'
    BY <1>1, <1>10, ScreensStay DEF Drawing
  <2>3. Advancing' BY <1>1, <1>10, <2>1, AdvanceStays
  <2>4. TypeOK' BY <1>1, <1>2, <1>10, <2>1, <2>2, SamePlaces DEF IInv, TypeOK
  <2>5. Cmd' = Cmd BY <1>10 DEF Cmd
  <2>6. gid' = GlyphId(font, Head(rest)) /\ mtx' = GMetrics(font, Cmd.size, gid') /\ mtx'.ok BY <1>10 DEF g, m
  <2>7. Printable' BY <1>1, <1>10, <2>1, <2>5, <2>6 DEF IInv, Printable, Drawing, Printing, Glyphing
  <2> QED BY <2>2, <2>3, <2>4, <2>7 DEF IInv
<1> QED BY <1>3, <1>7, <1>8, <1>9, <1>10

LEMMA RenderKeeps ==
  ASSUME IInv, Render
  PROVE IInv'
<1> DEFINE offset == OutlineOffset(font, gid)
           box == GlyphBox(font, Cmd.size, Outline(font, offset))
           lines == TesselateCurves(ClipPoints(
                      TransformPoints(DecodeOutline(font, offset, NewOutline), 0, Placement(font, Cmd.size, box)),
                      ImageW, ImageH))
<1>1. pc = "render" /\ pc \in Printing BY DEF Render, Printing
<1>2. \/ Return
      \/ /\ outl' = IF offset = NoOutline THEN NewOutline ELSE lines
         /\ pc' = "raster"
         /\ UNCHANGED <<font, mode, screens, frame, cmds, pen, gid, mtx, cells>>
  BY DEF Render
<1>3. /\ rest # <<>> /\ gid = GlyphId(font, Head(rest)) /\ gid # Failure
      /\ mtx = GMetrics(font, Cmd.size, gid) /\ mtx.ok /\ mtx \in Metrics
  BY <1>1 DEF IInv, TypeOK, Printable, Glyphing
<1>4. font \in Fonts /\ Loads(font) /\ Cmd.size \in Nat \ {0} BY <1>1, CmdText
<1>5. gid \in 0..(GlyphsOf(font) - 1) BY <1>1, <1>3, NextChar
<1>6. ImageW \in Nat /\ ImageH \in Nat BY <1>3 DEF ImageW, ImageH, Metrics
<1>7. offset # NoOutline => lines \in Shapes BY <1>3, <1>4, <1>5, <1>6, RenderShape
<1> HIDE DEF lines, offset
<1>8. CASE Return BY <1>1, <1>8, ReturnKeeps
<1>9. CASE /\ outl' = IF offset = NoOutline THEN NewOutline ELSE lines
           /\ pc' = "raster"
           /\ UNCHANGED <<font, mode, screens, frame, cmds, pen, gid, mtx, cells>>
  <2>1. UNCHANGED <<rest, penX, penY>> BY <1>9 DEF pen
  <2>2. outl' \in Shapes BY <1>7, <1>9, NewShape
  <2>3. /\ work' \in [tv : 0..1, drc : 0..1] /\ isBack' \in BOOLEAN
        /\ drc' \in [0..1 -> [DrcCells -> Shade]] /\ tv' \in [0..1 -> [TvCells -> Shade \cup {Marker}]]
        /\ Hidden' /\ Alike'
    BY <1>1, <1>9, ScreensStay DEF Drawing
  <2>4. Advancing' BY <1>1, <1>9, <2>1, AdvanceStays
  <2>5. TypeOK' BY <1>1, <1>9, <2>1, <2>2, <2>3, SamePlaces DEF IInv, TypeOK
  <2>6. Cmd' = Cmd BY <1>9 DEF Cmd
  <2>7. Printable' BY <1>1, <1>3, <1>9, <2>1, <2>6 DEF IInv, Printable, Drawing, Printing, Glyphing
  <2> QED BY <2>3, <2>4, <2>5, <2>7 DEF IInv
<1> QED BY <1>2, <1>8, <1>9

LEMMA RasterizeKeeps ==
  ASSUME IInv, Rasterize
  PROVE IInv'
<1>1. /\ pc = "raster" /\ pc' = "blit" /\ cells' = DrawLines(outl, ImageW, ImageH)
      /\ UNCHANGED <<font, mode, screens, frame, cmds, rest, penX, penY, gid, mtx, outl>>
  BY DEF Rasterize, pen
<1>2. mtx \in Metrics /\ outl \in Shapes BY DEF IInv, TypeOK
<1>3. ImageW \in Nat /\ ImageH \in Nat BY <1>2 DEF ImageW, ImageH, Metrics
<1>4. cells' \in [0..(ImageW * ImageH - 1) -> Cells] BY <1>1, <1>2, <1>3, DrawLinesType DEF Images
<1>5. ImageW' = ImageW /\ ImageH' = ImageH BY <1>1 DEF ImageW, ImageH
<1>6. cells' \in [0..(ImageW' * ImageH' - 1) -> Cells] BY <1>4, <1>5
<1>7. /\ work' \in [tv : 0..1, drc : 0..1] /\ isBack' \in BOOLEAN
      /\ drc' \in [0..1 -> [DrcCells -> Shade]] /\ tv' \in [0..1 -> [TvCells -> Shade \cup {Marker}]]
      /\ Hidden' /\ Alike'
  BY <1>1, ScreensStay DEF Drawing
<1>8. Advancing' BY <1>1, AdvanceStays DEF Printing
<1>9. TypeOK' BY <1>1, <1>6, <1>7, SamePlaces DEF IInv, TypeOK
<1>10. Cmd' = Cmd BY <1>1 DEF Cmd
<1>11. Printable' BY <1>1, <1>10 DEF IInv, Printable, Drawing, Printing, Glyphing
<1> QED BY <1>7, <1>8, <1>9, <1>11 DEF IInv

LEMMA BlitKeeps ==
  ASSUME IInv, Blit
  PROVE IInv' /\ tv'[1 - work.tv] = tv[1 - work.tv] /\ drc'[1 - work.drc] = drc[1 - work.drc]
<1> DEFINE x == Trunc(penX * Sub + mtx.bearing)
           y == penY + mtx.up
           image == PostProcess(cells)
           pixels == Bitmap(x, y, ImageW, ImageH, image, Cmd.shade)
<1>1. /\ pc = "blit" /\ pc' = "text" /\ Draw(pixels) /\ penX' = penX + Trunc(mtx.advance) /\ rest' = Tail(rest)
      /\ UNCHANGED <<font, mode, work, isBack, frame, cmds, penY, gid, mtx, outl, cells>>
  BY DEF Blit, glyph
<1>2. pc \in Printing /\ pc \in Drawing /\ pc' \in Drawing BY <1>1 DEF Printing, Drawing
<1>3. /\ rest # <<>> /\ gid = GlyphId(font, Head(rest)) /\ gid # Failure
      /\ mtx = GMetrics(font, Cmd.size, gid) /\ mtx \in Metrics /\ penX \in Int /\ penY \in Int
      /\ cells \in [0..(ImageW * ImageH - 1) -> Cells]
  BY <1>1 DEF IInv, TypeOK, Printable, Glyphing
<1>4. mtx.advance \in Int /\ mtx.bearing \in Int /\ mtx.up \in Int BY <1>3 DEF Metrics
<1>5. ImageW \in Nat /\ ImageH \in Nat BY <1>3 DEF ImageW, ImageH, Metrics
<1>6. x \in Int /\ y \in Int
  <2> DEFINE v == penX * Sub + mtx.bearing
  <2>1. v \in Int /\ y \in Int
    <3>1. Sub \in Int BY OutlinesAssumption
    <3>2. penX * Sub \in Int BY <1>3, <3>1
    <3> QED BY <1>3, <1>4, <3>2
  <2> HIDE DEF v
  <2>2. Trunc(v) \in Int BY <2>1, TruncType
  <2> QED BY <2>1, <2>2 DEF v
<1>7. image \in [0..(ImageW * ImageH - 1) -> 0..255]
  <2> DEFINE size == ImageW * ImageH
  <2>1. size \in Nat BY <1>5
  <2>2. cells \in Images(size) BY <1>3 DEF Images
  <2> HIDE DEF size
  <2>3. image \in [0..(size - 1) -> 0..255] BY <2>1, <2>2, PostProcessType
  <2> QED BY <2>3 DEF size
<1>8. Cmd.shade \in Shade BY <1>2, CmdText
<1> HIDE DEF x, y, image
<1>9. pixels \in Seq(Pixels) BY <1>5, <1>6, <1>7, <1>8, BitmapPixels
<1> HIDE DEF pixels
<1>10. mode \in TvModes /\ [drc |-> drc, tv |-> tv] \in Buffers BY <1>2, BuffersNow
<1>11. [drc |-> drc', tv |-> tv'] \in Buffers BY <1>1, <1>9, <1>10, DrawKeeps
<1>12. /\ drc' \in [0..1 -> [DrcCells -> Shade]] /\ tv' \in [0..1 -> [TvCells -> Shade \cup {Marker}]]
       /\ tv'[1 - work.tv] = tv[1 - work.tv] /\ drc'[1 - work.drc] = drc[1 - work.drc]
       /\ Hidden' /\ Alike'
  BY <1>1, <1>2, <1>11, BuffersThen
<1>13. Advancing'
  <2>1. Advance(font, Cmd.size, Head(rest)) = Trunc(mtx.advance) BY <1>3 DEF Advance
  <2> QED BY <1>1, <1>2, <1>3, <2>1, AdvanceStep
<1>14. Tail(rest) \in Seq(Chars(font)) /\ Tail(rest) \in Seq(Nat) BY <1>2, <1>3, NextChar
<1>15. Cmd' = Cmd BY <1>1 DEF Cmd
<1>16. Printable' BY <1>1, <1>14, <1>15 DEF IInv, Printable, Drawing, Printing, Glyphing
<1>17. penX' \in Int BY <1>1, <1>3, <1>4, TruncType
<1>18. TypeOK' BY <1>1, <1>12, <1>14, <1>17, SamePlaces DEF IInv, TypeOK
<1> QED BY <1>12, <1>13, <1>16, <1>18 DEF IInv

LEMMA EndDrawKeeps ==
  ASSUME IInv, EndDraw
  PROVE IInv'
<1>1. /\ pc = "draw" /\ pc' = "idle" /\ work' = [tv |-> 1 - work.tv, drc |-> 1 - work.drc] /\ frame' = frame + 1
      /\ UNCHANGED <<font, mode, isBack, drc, tv, cmds, rest, penX, penY, gid, mtx, outl, cells>>
  BY DEF EndDraw, pen, glyph
<1>2. work \in [tv : 0..1, drc : 0..1] /\ work.tv = work.drc BY DEF IInv, TypeOK, Hidden
<1>3. work' \in [tv : 0..1, drc : 0..1] /\ work'.tv = work'.drc
  <2>1. 1 - work.tv \in 0..1 /\ 1 - work.drc = 1 - work.tv BY <1>2
  <2> QED BY <1>1, <2>1
<1>4. frame' \in 0..(MaxFrames + 1)
  <2>1. frame \in 0..(MaxFrames + 1) /\ frame <= MaxFrames BY <1>1 DEF IInv, TypeOK, Printable, Drawing
  <2>2. MaxFrames \in Nat BY ScreensAssumption
  <2> QED BY <1>1, <2>1, <2>2
<1>5. Half' = Half /\ TvCells' = TvCells /\ \A v : Own(v)' = Own(v) BY <1>1, SamePlaces DEF Half
<1>6. Hidden' BY <1>1, <1>3, <1>5 DEF IInv, Hidden, Drawing
<1>7. Alike'
  <2>1. \A x \in 1..(ScreenW - 1), y \in 0..(ScreenH - 1) :
          tv'[Half'][Own(x)' + Own(y)' * mode'.w] = drc'[Half'][x + y * DrcW]
    BY <1>1, <1>5 DEF IInv, Alike
  <2> QED BY <2>1 DEF Alike
<1>8. Advancing' BY <1>1, AdvanceStays DEF Printing
<1>9. TypeOK' BY <1>1, <1>3, <1>4, <1>5 DEF IInv, TypeOK
<1>10. Printable' BY <1>1 DEF IInv, Printable, Drawing, Printing, Glyphing
<1> QED BY <1>6, <1>7, <1>8, <1>9, <1>10 DEF IInv

LEMMA DeinitFontKeeps ==
  ASSUME IInv, DeinitFont
  PROVE IInv'
<1>1. pc = "idle" /\ pc' = "done" /\ UNCHANGED <<font, mode, screens, frame, cmds, rest, penX, penY, gid, mtx, outl, cells>>
  BY DEF DeinitFont, pen, glyph
<1>2. /\ work' \in [tv : 0..1, drc : 0..1] /\ isBack' \in BOOLEAN
      /\ drc' \in [0..1 -> [DrcCells -> Shade]] /\ tv' \in [0..1 -> [TvCells -> Shade \cup {Marker}]]
      /\ Hidden' /\ Alike'
  BY <1>1, ScreensStay DEF Drawing
<1>3. TypeOK' BY <1>1, <1>2, SamePlaces DEF IInv, TypeOK
<1>4. Printable' BY <1>1 DEF IInv, Printable, Drawing, Printing, Glyphing
<1>5. Advancing' BY <1>1, AdvanceStays DEF Printing
<1> QED BY <1>2, <1>3, <1>4, <1>5 DEF IInv

\* What is on show stays as it is through every step.
Still == tv'[1 - work.tv] = tv[1 - work.tv] /\ drc'[1 - work.drc] = drc[1 - work.drc]

LEMMA StepHolds ==
  ASSUME IInv, [Next]_vars
  PROVE IInv' /\ Still
<1>1. CASE InitFont BY <1>1, InitFontKeeps DEF InitFont, screens, Still
<1>2. CASE BeginDraw BY <1>2, BeginDrawKeeps DEF BeginDraw, Still
<1>3. CASE Clear BY <1>3, ClearKeeps DEF Still
<1>4. CASE DrawRect BY <1>4, DrawRectKeeps DEF Still
<1>5. CASE StartText BY <1>5, StartTextKeeps DEF StartText, screens, Still
<1>6. CASE PrintLookup
  <2>1. UNCHANGED screens BY <1>6 DEF PrintLookup, Return
  <2> QED BY <1>6, <2>1, PrintLookupKeeps DEF screens, Still
<1>7. CASE Render
  <2>1. UNCHANGED screens BY <1>7 DEF Render, Return
  <2> QED BY <1>7, <2>1, RenderKeeps DEF screens, Still
<1>8. CASE Rasterize BY <1>8, RasterizeKeeps DEF Rasterize, screens, Still
<1>9. CASE Blit BY <1>9, BlitKeeps DEF Still
<1>10. CASE PrintEnd
  <2>1. pc \in Printing /\ Return BY <1>10 DEF PrintEnd, Printing
  <2> QED BY <2>1, ReturnKeeps DEF Return, screens, Still
<1>11. CASE EndDraw BY <1>11, EndDrawKeeps DEF EndDraw, Still
<1>12. CASE DeinitFont BY <1>12, DeinitFontKeeps DEF DeinitFont, screens, Still
<1>13. CASE UNCHANGED vars
  <2>1. /\ UNCHANGED <<pc, font, mode, work, isBack, drc, tv, frame, cmds, rest, penX, penY, gid, mtx, outl, cells>>
        /\ UNCHANGED screens
    BY <1>13 DEF vars, screens
  <2>2. Half' = Half /\ TvCells' = TvCells /\ (\A v : Own(v)' = Own(v)) /\ Cmd' = Cmd /\ ImageW' = ImageW /\ ImageH' = ImageH
    BY <2>1, SamePlaces DEF Half, Cmd, ImageW, ImageH
  <2>3. TypeOK' BY <2>1, <2>2 DEF IInv, TypeOK
  <2>4. Printable' BY <2>1, <2>2 DEF IInv, Printable
  <2>5. Hidden' BY <2>1, <2>2 DEF IInv, Hidden
  <2>6. Advancing' BY <2>1, <2>2 DEF IInv, Advancing
  <2>7. Alike'
    <3>1. pc' # "clear" => \A x \in 1..(ScreenW - 1), y \in 0..(ScreenH - 1) :
            tv'[Half'][Own(x)' + Own(y)' * mode'.w] = drc'[Half'][x + y * DrcW]
      BY <2>1, <2>2 DEF IInv, Alike
    <3> QED BY <3>1 DEF Alike
  <2> QED BY <2>1, <2>3, <2>4, <2>5, <2>6, <2>7 DEF IInv, Still
<1> QED BY <1>1, <1>2, <1>3, <1>4, <1>5, <1>6, <1>7, <1>8, <1>9, <1>10, <1>11, <1>12, <1>13 DEF Next

\* What is invariant: the types; what is being printed fits the text and its glyph; the
\* buffer drawn to is the one that is not shown; the pen is where the characters printed
\* have moved it; and each pixel of the GamePad has one of its own on the TV.
THEOREM Invariance == Spec => []IInv
<1>1. Init => IInv BY InitHolds
<1>2. IInv /\ [Next]_vars => IInv' BY StepHolds
<1> QED BY <1>1, <1>2, PTL DEF Spec

-----------------------------------------------------------------------------
(* The lines of a glyph *)

\* No point has more lines that begin at it than end there.
Enclosed == pc \in {"raster", "blit"} => \A i \in Nat : Excess(outl.lines, i) = 0

LEMMA RenderEncloses ==
  ASSUME IInv, Render
  PROVE Enclosed'
<1> DEFINE offset == OutlineOffset(font, gid)
           decoded == DecodeOutline(font, offset, NewOutline)
           box == GlyphBox(font, Cmd.size, Outline(font, offset))
           lines == TesselateCurves(ClipPoints(
                      TransformPoints(decoded, 0, Placement(font, Cmd.size, box)), ImageW, ImageH))
<1>1. pc = "render" BY DEF Render
<1>2. IF offset # NoOutline /\ (~decoded.ok \/ ~lines.ok)
      THEN Return
      ELSE outl' = IF offset = NoOutline THEN NewOutline ELSE lines
  BY DEF Render
<1>3. rest # <<>> /\ gid = GlyphId(font, Head(rest)) /\ gid # Failure /\ mtx = GMetrics(font, Cmd.size, gid) /\ mtx.ok
      /\ mtx \in Metrics
  BY <1>1 DEF IInv, TypeOK, Printable, Glyphing
<1>4. font \in Fonts /\ Loads(font) /\ Cmd.size \in Nat \ {0} BY <1>1, CmdText DEF Printing
<1>5. gid \in 0..(GlyphsOf(font) - 1) BY <1>1, <1>3, NextChar DEF Printing
<1>6. ImageW \in Nat /\ ImageH \in Nat BY <1>3 DEF ImageW, ImageH, Metrics
<1>7. offset # NoOutline => (lines.ok => \A i \in Nat : Excess(lines.lines, i) = 0)
  BY <1>3, <1>4, <1>5, <1>6, RenderShape
<1>8. \A i \in Nat : Excess(NewOutline.lines, i) = 0
  <2>1. NewOutline.lines = <<>> BY DEF NewOutline
  <2> QED BY <2>1, ExcessEmpty
<1> HIDE DEF lines, decoded, offset
<1>9. CASE offset # NoOutline /\ (~decoded.ok \/ ~lines.ok)
  <2>1. pc' \notin {"raster", "blit"} BY <1>2, <1>9 DEF Return
  <2> QED BY <2>1 DEF Enclosed
<1>10. CASE ~(offset # NoOutline /\ (~decoded.ok \/ ~lines.ok))
  BY <1>2, <1>7, <1>8, <1>10 DEF Enclosed
<1> QED BY <1>9, <1>10

LEMMA StepEncloses ==
  ASSUME IInv, Enclosed, [Next]_vars
  PROVE Enclosed'
<1>1. CASE Render BY <1>1, RenderEncloses
<1>2. CASE Rasterize
  <2>1. pc = "raster" /\ outl' = outl BY <1>2 DEF Rasterize
  <2> QED BY <2>1 DEF Enclosed
<1>3. CASE Blit
  <2>1. pc' \notin {"raster", "blit"} BY <1>3 DEF Blit
  <2> QED BY <2>1 DEF Enclosed
<1>4. CASE InitFont \/ BeginDraw \/ Clear \/ DrawRect \/ StartText
  <2>1. pc' \notin {"raster", "blit"} BY <1>4 DEF InitFont, BeginDraw, Clear, DrawRect, StartText
  <2> QED BY <2>1 DEF Enclosed
<1>5. CASE PrintLookup \/ PrintEnd \/ EndDraw \/ DeinitFont
  <2>1. pc' \notin {"raster", "blit"} BY <1>5 DEF PrintLookup, PrintEnd, EndDraw, DeinitFont, Return
  <2> QED BY <2>1 DEF Enclosed
<1>6. CASE UNCHANGED vars
  <2>1. pc' = pc /\ outl' = outl BY <1>6 DEF vars
  <2> QED BY <2>1 DEF Enclosed
<1> QED BY <1>1, <1>2, <1>3, <1>4, <1>5, <1>6 DEF Next

\* The lines that are drawn of a glyph form closed loops, for every font: whatever its
\* contours, components and curves, and wherever its arrays grow or no longer can.
THEOREM LoopsAlwaysClosed == Spec => []LoopsClosed
<1>1. Init => Enclosed
  <2>1. Init => pc \notin {"raster", "blit"} BY DEF Init
  <2> QED BY <2>1 DEF Enclosed
<1>2. IInv /\ Enclosed /\ [Next]_vars => Enclosed' BY StepEncloses
<1>3. IInv /\ Enclosed => LoopsClosed
  <2> SUFFICES ASSUME IInv, Enclosed, pc = "blit", NEW i \in DOMAIN outl.points
               PROVE Cardinality(Touching(outl.lines, "beg", i)) = Cardinality(Touching(outl.lines, "end", i))
    BY DEF LoopsClosed, Touching
  <2>1. outl \in Records BY ShapeParts DEF IInv, TypeOK
  <2>2. outl.points \in Seq(Points) /\ outl.lines \in Seq(Lines) BY <2>1 DEF Records
  <2>3. i \in Nat BY <2>2
  <2>4. Excess(outl.lines, i) = 0 BY <2>3 DEF Enclosed
  <2>5. [beg |-> 0, end |-> 0] \in Lines BY DEF Lines
  <2>6. /\ Cardinality(Touching(outl.lines, "beg", i)) \in Nat
        /\ Cardinality(Touching(outl.lines, "end", i)) \in Nat
    BY <2>2, <2>5, TouchingAppend
  <2> QED BY <2>4, <2>6 DEF Excess
<1> QED BY <1>1, <1>2, <1>3, Invariance, PTL DEF Spec

-----------------------------------------------------------------------------
(* The map of a font *)

LEMMA LeastThere ==
  ASSUME NEW P, P \subseteq Nat, P # {}
  PROVE First(P) \in P /\ \A j \in P : First(P) <= j
BY Least DEF First

\* A choice from one.
LEMMA OnlyOne ==
  ASSUME NEW k, NEW P, k \in P, \A j \in P : j = k
  PROVE (CHOOSE j \in P : TRUE) = k
OBVIOUS

\* The 16 bits a font's tables are made of hold a number up to 65535.
LEMMA WordsAreNumbers == \A v \in Words : v \in Int /\ v <= 65535
BY SMTT(60) DEF Words

\* csearch finds the segment that holds a code, if one does.
LEMMA SegmentMaps ==
  ASSUME NEW t, IsMap(t), t.format = 4, NEW code \in Nat, CmapFmt4(t, code) # Failure
  PROVE CmapFmt4(t, code) = InSegments(t, code)
<1>a. \A v \in Words : v \in Int /\ v <= 65535 BY WordsAreNumbers
<1>b. /\ {t.ends, t.starts, t.deltas, t.ranges, t.ids} \subseteq Seq(Words)
      /\ Len(t.starts) = Len(t.ends) /\ Len(t.ranges) = Len(t.ends)
      /\ t.ends # <<>> => t.ends[Len(t.ends)] = 65535
  BY SMTT(60) DEF IsMap
<1>c. t.ends \in Seq(Words) /\ t.starts \in Seq(Words) /\ t.ranges \in Seq(Words) /\ t.ids \in Seq(Words) BY <1>b
<1>d. Len(t.ends) \in Nat /\ DOMAIN t.ends = 1..Len(t.ends) BY <1>c
<1>e. \A i \in 1..Len(t.ends) : t.starts[i] <= t.ends[i] /\ \A j \in 1..(i - 1) : t.ends[j] < t.starts[i]
  BY SMTT(60) DEF IsMap
<1>f. \A i \in 1..Len(t.ends) : t.ranges[i] # 0 =>
        /\ t.ranges[i] \div 2 - (Len(t.ends) - i) >= 1
        /\ t.ranges[i] \div 2 - (Len(t.ends) - i) + (t.ends[i] - t.starts[i]) <= Len(t.ids)
  BY SMTT(60) DEF IsMap
<1> DEFINE ends == t.ends
           starts == t.starts
           ranges == t.ranges
           ids == t.ids
           n == Len(ends)
           k == Csearch(ends, code)
           holds == {j \in DOMAIN ends : starts[j] <= code /\ code <= ends[j]}
           half == ranges[k] \div 2
           word == k + half + (code - starts[k])
           id == (ranges \o ids)[word]
           j0 == CHOOSE j \in holds : TRUE
           place == half - (n - k) + (code - starts[k])
<1>1. /\ ends \in Seq(Words) /\ starts \in Seq(Words) /\ ranges \in Seq(Words) /\ ids \in Seq(Words)
      /\ Len(starts) = n /\ Len(ranges) = n /\ n \in Nat /\ DOMAIN ends = 1..n
      /\ ends # <<>> => ends[n] = 65535
      /\ \A i \in 1..n : starts[i] <= ends[i] /\ \A j \in 1..(i - 1) : ends[j] < starts[i]
      /\ \A i \in 1..n : ranges[i] # 0 =>
           /\ ranges[i] \div 2 - (n - i) >= 1
           /\ ranges[i] \div 2 - (n - i) + (ends[i] - starts[i]) <= Len(ids)
  BY <1>b, <1>c, <1>d, <1>e, <1>f, SMTT(60)
<1>2. InSegments(t, code) =
        IF holds = {} THEN 0
        ELSE IF ranges[j0] = 0 THEN (code + t.deltas[j0]) % 65536
        ELSE IF ids[ranges[j0] \div 2 - (n - j0) + (code - starts[j0])] = 0 THEN 0
        ELSE (ids[ranges[j0] \div 2 - (n - j0) + (code - starts[j0])] + t.deltas[j0]) % 65536
  BY DEF InSegments
<1>3. CmapFmt4(t, code) =
        IF code > 65535 THEN 0
        ELSE IF ~Safe(t, 6, 8) \/ n = 0 \/ ~Safe(t, 16 + 6 * n, 2 * n) THEN Failure
        ELSE IF starts[k] > code THEN 0
        ELSE IF ranges[k] = 0 THEN (code + t.deltas[k]) % 65536
        ELSE IF ~Safe(t, 14 + 6 * n + 2 * word, 2) THEN Failure
        ELSE IF id = 0 THEN 0 ELSE (id + t.deltas[k]) % 65536
  BY SMTT(60) DEF CmapFmt4
<1>4. \A i \in 1..n : ends[i] \in Words /\ starts[i] \in Words /\ ranges[i] \in Words
  <2> HIDE DEF ends, starts, ranges, ids
  <2> QED BY <1>1
<1> HIDE DEF ends, starts, ranges, ids, k
<1>5. CASE code > 65535
  <2>1. \A i \in 1..n : ~(code <= ends[i]) BY <1>a, <1>4, <1>5
  <2>2. holds = {} BY <1>1, <2>1
  <2> HIDE DEF holds, half, word, id, j0, place
  <2>3. CmapFmt4(t, code) = 0 BY <1>3, <1>5
  <2>4. InSegments(t, code) = 0 BY <1>2, <2>2
  <2> QED BY <2>3, <2>4
<1>6. CASE ~(code > 65535)
  <2>1. n # 0 BY <1>3, <1>6
  <2>2. ends # <<>> BY <1>1, <2>1
  <2>3. ends \in Seq(Int)
    <3>1. \A i \in 1..n : ends[i] \in Int BY <1>a, <1>4
    <3> QED BY <1>1, <3>1
  <2>4. Ascending(ends)
    <3> SUFFICES ASSUME NEW i \in 1..n, NEW j \in 1..n, i < j PROVE ends[i] < ends[j] BY DEF Ascending
    <3>1. i \in 1..(j - 1) BY <1>1
    <3>2. ends[i] < starts[j] /\ starts[j] <= ends[j] BY <1>1, <3>1
    <3>3. ends[i] \in Int /\ ends[j] \in Int /\ starts[j] \in Int BY <1>a, <1>4
    <3> QED BY <3>2, <3>3
  <2>5. k \in 1..n /\ (\A i \in 1..(k - 1) : ends[i] < code) /\ (k < n => code <= ends[k])
    BY <2>2, <2>3, <2>4, CsearchFinds DEF k
  <2>6. code <= ends[k] BY <1>1, <1>6, <2>2, <2>5
  <2>7. \A i \in 1..n : ends[i] \in Int /\ starts[i] \in Int /\ ranges[i] \in Int BY <1>a, <1>4
  <2>8. ASSUME NEW j \in holds PROVE j = k
    <3>1. j \in 1..n /\ starts[j] <= code /\ code <= ends[j] BY <1>1
    <3>2. ~(j < k)
      <4> SUFFICES ASSUME j < k PROVE FALSE OBVIOUS
      <4>1. j \in 1..(k - 1) BY <1>1, <2>5, <3>1
      <4> QED BY <2>5, <2>7, <3>1, <4>1
    <3>3. ~(k < j)
      <4> SUFFICES ASSUME k < j PROVE FALSE OBVIOUS
      <4>1. k \in 1..(j - 1) BY <1>1, <2>5, <3>1
      <4>2. ends[k] < starts[j] BY <1>1, <3>1, <4>1
      <4> QED BY <2>5, <2>6, <2>7, <3>1, <4>2
    <3> QED BY <1>1, <2>5, <3>1, <3>2, <3>3
  <2>9. k \in holds <=> starts[k] <= code BY <1>1, <2>5, <2>6
  <2>10. CASE starts[k] > code
    <3>1. ~(starts[k] <= code) BY <2>5, <2>7, <2>10
    <3>2. holds = {} BY <2>8, <2>9, <3>1
    <3> QED BY <1>2, <1>3, <1>6, <2>10, <3>2
  <2>11. CASE ~(starts[k] > code)
    <3>1. k \in holds /\ holds # {} BY <2>5, <2>7, <2>9, <2>11
    <3>2. j0 = k
      <4> HIDE DEF holds
      <4> QED BY <2>8, <3>1, OnlyOne
    <3> HIDE DEF j0, holds
    <3>3. CASE ranges[k] = 0 BY <1>2, <1>3, <1>6, <2>11, <3>1, <3>2, <3>3
    <3>4. CASE ranges[k] # 0
      <4>1. /\ half - (n - k) >= 1
            /\ half - (n - k) + (ends[k] - starts[k]) <= Len(ids)
        BY <1>1, <2>5, <3>4
      <4>2. half \in Int /\ Len(ids) \in Nat /\ ends[k] \in Int /\ starts[k] \in Int
        <5>1. ranges[k] \in Int BY <2>5, <2>7
        <5> QED BY <1>1, <2>5, <2>7, <5>1
      <4> HIDE DEF half
      <4>3. place \in 1..Len(ids) /\ word = n + place
        <5> DEFINE s == starts[k]
                   e == ends[k]
                   m == Len(ids)
        <5>1. s \in Int /\ e \in Int /\ m \in Nat /\ half \in Int /\ n \in Nat /\ k \in Int BY <1>1, <2>5, <4>2
        <5>2. half - (n - k) >= 1 /\ half - (n - k) + (e - s) <= m /\ code <= e /\ s <= code
          BY <2>6, <2>11, <4>1, <4>2
        <5> HIDE DEF s, e, m
        <5>3. half - (n - k) + (code - s) \in 1..m BY <5>1, <5>2
        <5>4. k + half + (code - s) = n + (half - (n - k) + (code - s)) BY <5>1
        <5> QED BY <5>3, <5>4 DEF s, m
      <4> HIDE DEF word, place
      <4>4. (ranges \o ids)[n + place] = ids[place]
        <5> DEFINE i == n + place
        <5>1. i \in 1..(Len(ranges) + Len(ids)) /\ ~(i <= Len(ranges)) /\ i - Len(ranges) = place BY <1>1, <4>2, <4>3
        <5> HIDE DEF i
        <5>2. (ranges \o ids)[i] = ids[i - Len(ranges)] BY <1>1, <5>1
        <5> QED BY <5>1, <5>2 DEF i
      <4>5. id = ids[place] BY <4>3, <4>4
      <4>6. ids[ranges[j0] \div 2 - (n - j0) + (code - starts[j0])] = id BY <3>2, <4>5 DEF place, half
      <4> HIDE DEF id
      <4> QED BY <1>2, <1>3, <1>6, <2>11, <3>1, <3>2, <3>4, <4>6
    <3> QED BY <3>3, <3>4
  <2> QED BY <2>10, <2>11
<1> QED BY <1>5, <1>6

LEMMA RunMaps ==
  ASSUME NEW t, IsMap(t), t.format = 6, NEW code \in Nat, CmapFmt6(t, code) # Failure
  PROVE CmapFmt6(t, code) = InRun(t, code)
<1>a. \A v \in Words : v \in Int /\ v <= 65535 BY WordsAreNumbers
<1> DEFINE first == t.first
           ids == t.ids
           n == Len(ids)
<1>1. first \in Words /\ ids \in Seq(Words) /\ n \in Nat /\ first + n <= 65536 /\ DOMAIN ids = 1..n BY DEF IsMap
<1>2. first \in Int BY <1>a, <1>1
<1>3. CmapFmt6(t, code) = IF code > 65535 THEN 0 ELSE ids[code - first + 1]
  BY SMTT(60) DEF CmapFmt6
<1>4. ~(code > 65535) => code - first \in 0..(n - 1) BY SMTT(60) DEF CmapFmt6
<1>5. InRun(t, code) = IF code - first + 1 \in 1..n THEN ids[code - first + 1] ELSE IF code > 65535 THEN 0 ELSE Failure
  BY <1>1, SMTT(60) DEF InRun
<1> HIDE DEF first, ids, n
<1>6. CASE code > 65535
  <2>1. code - first + 1 \notin 1..n BY <1>1, <1>2, <1>6
  <2> QED BY <1>3, <1>5, <1>6, <2>1
<1>7. CASE ~(code > 65535)
  <2>1. code - first + 1 \in 1..n BY <1>1, <1>2, <1>4, <1>7
  <2> QED BY <1>3, <1>5, <1>7, <2>1
<1> QED BY <1>6, <1>7

LEMMA GroupMaps ==
  ASSUME NEW t, IsMap(t), t.format = 12, NEW code \in Nat, CmapFmt12(t, code) # Failure
  PROVE CmapFmt12(t, code) = InGroups(t, code)
<1> DEFINE groups == t.groups
           G == [first : Nat, last : Nat, glyph : Nat]
           n == Len(groups)
           held == Holding(t, code)
           k == First(held)
           holds == {j \in DOMAIN groups : code \in groups[j].first..groups[j].last}
           j0 == CHOOSE j \in holds : TRUE
<1>1. groups \in Seq(G) /\ n \in Nat /\ DOMAIN groups = 1..n BY DEF IsMap
<1>2. \A i \in 1..n : \A j \in 1..(i - 1) : groups[j].last < groups[i].first BY DEF IsMap
<1>3. CmapFmt12(t, code) = IF held = {} THEN 0 ELSE code - groups[k].first + groups[k].glyph BY DEF CmapFmt12
<1>4. InGroups(t, code) = IF holds = {} THEN 0 ELSE groups[j0].glyph + (code - groups[j0].first) BY DEF InGroups
<1>5. \A i \in 1..n : groups[i].first \in Nat /\ groups[i].last \in Nat /\ groups[i].glyph \in Nat
  <2> SUFFICES ASSUME NEW i \in 1..n PROVE groups[i].first \in Nat /\ groups[i].last \in Nat /\ groups[i].glyph \in Nat
    OBVIOUS
  <2> HIDE DEF groups, G
  <2>1. groups[i] \in G BY <1>1
  <2> QED BY <2>1 DEF G
<1>6. held = {i \in 1..n : groups[i].first <= code /\ code <= groups[i].last} BY <1>1 DEF Holding
<1> HIDE DEF groups, held, k
<1>7. holds = held BY <1>1, <1>5, <1>6
<1> HIDE DEF holds
<1>8. CASE held = {} BY <1>3, <1>4, <1>7, <1>8
<1>9. CASE held # {}
  <2>1. k \in held
    <3>1. held \subseteq Nat BY <1>1, <1>6
    <3> QED BY <1>9, <3>1, LeastThere DEF k
  <2>2. ASSUME NEW j \in held PROVE j = k
    <3>1. j \in 1..n /\ k \in 1..n BY <1>6, <2>1
    <3>2. ~(j < k)
      <4> SUFFICES ASSUME j < k PROVE FALSE OBVIOUS
      <4>1. j \in 1..(k - 1) BY <1>1, <3>1
      <4>2. groups[j].last < groups[k].first BY <1>2, <3>1, <4>1
      <4> QED BY <1>5, <1>6, <2>1, <3>1, <4>2
    <3>3. ~(k < j)
      <4> SUFFICES ASSUME k < j PROVE FALSE OBVIOUS
      <4>1. k \in 1..(j - 1) BY <1>1, <3>1
      <4>2. groups[k].last < groups[j].first BY <1>2, <3>1, <4>1
      <4> QED BY <1>5, <1>6, <2>1, <3>1, <4>2
    <3> QED BY <1>1, <3>1, <3>2, <3>3
  <2>3. j0 = k BY <1>7, <2>1, <2>2, OnlyOne
  <2> HIDE DEF j0
  <2>4. groups[k].glyph \in Int /\ groups[k].first \in Int BY <1>5, <1>6, <2>1
  <2>5. code - groups[k].first + groups[k].glyph = groups[k].glyph + (code - groups[k].first) BY <2>4
  <2> QED BY <1>3, <1>4, <1>7, <1>9, <2>3, <2>5
<1> QED BY <1>8, <1>9

\* glyph_id: the best map of the font gives the glyph.
LEMMA BestMaps ==
  ASSUME NEW f \in Fonts, NEW code \in Nat, GlyphId(f, code) # Failure
  PROVE LET entries == f.tables.cmap.entries
            Plane(k) == entries[k].plane
        IN \E k \in DOMAIN entries :
             /\ Plane(k) = IF \E j \in DOMAIN entries : Plane(j) = "full" THEN "full" ELSE "basic"
             /\ \A j \in DOMAIN entries : Plane(j) = Plane(k) => k <= j
             /\ GlyphId(f, code) = MapsTo(entries[k].table, code)
<1> DEFINE entries == f.tables.cmap.entries
           full == Maps(f, "full")
           basic == Maps(f, "basic")
           P == IF full # {} THEN full ELSE basic
           k == First(P)
           t == entries[k].table
           E == [plane : {"full", "basic", "other"}, table : {entries[j].table : j \in DOMAIN entries}]
<1>1. Has(f, "cmap") BY DEF GlyphId
<1>2. entries \in Seq(E) /\ \A j \in DOMAIN entries : IsMap(entries[j].table)
  <2>1. HasTables(f, GlyphsOf(f)) BY GlyphCount DEF IsFont
  <2> QED BY <1>1, <2>1 DEF HasTables
<1> HIDE DEF E
<1>3. DOMAIN entries \subseteq Nat BY <1>2
<1>4. /\ full = {j \in DOMAIN entries : entries[j].plane = "full"}
      /\ basic = {j \in DOMAIN entries : entries[j].plane = "basic"}
  BY DEF Maps
<1>5. BestMap(f) = t BY DEF BestMap
<1>6. P # {} BY DEF GlyphId
<1>7. /\ full # {} => t.format = 12 /\ GlyphId(f, code) = CmapFmt12(t, code)
      /\ full = {} => \/ t.format = 4 /\ GlyphId(f, code) = CmapFmt4(t, code)
                      \/ t.format = 6 /\ GlyphId(f, code) = CmapFmt6(t, code)
  <2> HIDE DEF t
  <2> QED BY <1>5 DEF GlyphId
<1> HIDE DEF entries, full, basic
<1>8. k \in P /\ \A j \in P : k <= j
  <2>1. P \subseteq Nat BY <1>3, <1>4
  <2> HIDE DEF P
  <2> QED BY <1>6, <2>1, LeastThere
<1> HIDE DEF k
<1>9. k \in DOMAIN entries BY <1>4, <1>8
<1>10. entries[k].plane = IF \E j \in DOMAIN entries : entries[j].plane = "full" THEN "full" ELSE "basic"
  BY <1>4, <1>8
<1>11. \A j \in DOMAIN entries : entries[j].plane = entries[k].plane => k <= j BY <1>4, <1>8
<1>12. IsMap(t) BY <1>2, <1>9
<1> HIDE DEF t
<1>13. GlyphId(f, code) = MapsTo(t, code)
  <2>1. CASE t.format = 12 /\ GlyphId(f, code) = CmapFmt12(t, code) BY <1>12, <2>1, GroupMaps DEF MapsTo
  <2>2. CASE t.format = 4 /\ GlyphId(f, code) = CmapFmt4(t, code) BY <1>12, <2>2, SegmentMaps DEF MapsTo
  <2>3. CASE t.format = 6 /\ GlyphId(f, code) = CmapFmt6(t, code) BY <1>12, <2>3, RunMaps DEF MapsTo
  <2> QED BY <1>7, <2>1, <2>2, <2>3
<1> QED BY <1>9, <1>10, <1>11, <1>13 DEF t, entries

-----------------------------------------------------------------------------
(* What is proved of the program *)

\* Every variable keeps its type: an outline refers to points it has, whatever the font,
\* and there is a cell for every pixel of a glyph.
THEOREM TypeCorrect == Spec => []TypeOK
<1>1. IInv => TypeOK BY DEF IInv
<1> QED BY <1>1, Invariance, PTL

\* What a screen shows is never drawn on.
THEOREM NeverOnShow == Spec => ShownIsStill
<1>1. Init => IInv BY InitHolds
<1>2. IInv /\ [Next]_vars => IInv' /\ Still BY StepHolds
<1>3. IInv /\ [Next]_vars => [ /\ tv'[1 - work.tv] = tv[1 - work.tv]
                               /\ drc'[1 - work.drc] = drc[1 - work.drc] ]_vars
  BY <1>2 DEF Still
<1> QED BY <1>1, <1>2, <1>3, PTL DEF Spec, ShownIsStill

\* A text that is aligned to the right and was printed in full ends where it was to end.
THEOREM EndsAtItsRight == Spec => []EndsAtRight
<1>1. IInv => EndsAtRight
  <2> SUFFICES ASSUME IInv, pc = "text", rest = <<>>, Cmd.right, Newline \notin Range(Cmd.text)
               PROVE penX = Cmd.x
    BY DEF EndsAtRight
  <2> DEFINE text == Cmd.text
             W(k) == Width(font, Cmd.size, text, k)
             all == W(Len(text))
             x == Cmd.x
  <2>1. pc \in Printing BY DEF Printing
  <2>2. /\ font \in Fonts /\ Loads(font) /\ text \in Seq(Chars(font)) /\ Cmd.size \in Nat \ {0} /\ x \in Nat
    BY <2>1, CmdText
  <2>3. PICK k \in 0..Len(text) : rest = SubSeq(text, k + 1, Len(text)) /\ penX = x - (all - W(k))
    BY <2>1 DEF IInv, Advancing, TextWidth
  <2>4. k = Len(text) BY <2>2, <2>3, RestFrom
  <2>5. all \in Int
    <3>1. Len(text) \in 0..Len(text) BY <2>2
    <3> HIDE DEF text
    <3> QED BY <2>2, <3>1, Widths
  <2>6. penX = x - (all - all) BY <2>3, <2>4
  <2> HIDE DEF all, x
  <2>7. penX = x BY <2>2, <2>5, <2>6
  <2> QED BY <2>7 DEF x
<1> QED BY <1>1, Invariance, PTL

\* Every character is printed with the glyph that the font's best map gives it.
THEOREM MappedGlyphs == Spec => []GlyphsAsMapped
<1>1. IInv => GlyphsAsMapped
  <2> SUFFICES ASSUME IInv, pc = "render" PROVE GlyphsAsMapped BY DEF GlyphsAsMapped
  <2>1. rest # <<>> /\ gid = GlyphId(font, Head(rest)) /\ gid # Failure /\ font \in Fonts /\ rest \in Seq(Nat)
    BY DEF IInv, TypeOK, Printable, Glyphing
  <2> DEFINE code == Head(rest)
  <2>2. code \in Nat BY <2>1, RestOf
  <2> HIDE DEF code
  <2>3. LET entries == font.tables.cmap.entries
            Plane(k) == entries[k].plane
        IN \E k \in DOMAIN entries :
             /\ Plane(k) = IF \E j \in DOMAIN entries : Plane(j) = "full" THEN "full" ELSE "basic"
             /\ \A j \in DOMAIN entries : Plane(j) = Plane(k) => k <= j
             /\ GlyphId(font, code) = MapsTo(entries[k].table, code)
    <3>1. GlyphId(font, code) # Failure BY <2>1 DEF code
    <3> QED BY <2>1, <2>2, <3>1, BestMaps
  <2>4. gid = GlyphId(font, code) BY <2>1 DEF code
  <2> QED BY <2>3, <2>4 DEF GlyphsAsMapped, code
<1> QED BY <1>1, Invariance, PTL

\* The TV shows what the GamePad shows, apart from the first column.
THEOREM ScreensAlike == Spec => []BothScreensAlike
<1>1. IInv => BothScreensAlike
  <2> SUFFICES ASSUME IInv, pc \in {"draw", "text", "idle"}, NEW b \in {Half},
                      NEW x \in 1..(ScreenW - 1), NEW y \in 0..(ScreenH - 1)
               PROVE \E xx \in Scale(x)..Scale(x + 1), yy \in Scale(y)..Scale(y + 1) :
                       xx < mode.w /\ yy < mode.h /\ tv[b][xx + yy * mode.w] = drc[b][x + y * DrcW]
    BY DEF BothScreensAlike
  <2>1. mode \in TvModes /\ tv[Half][Own(x) + Own(y) * mode.w] = drc[Half][x + y * DrcW]
    BY DEF IInv, TypeOK, Alike
  <2>2. ScreenW \in Nat /\ ScreenH \in Nat BY ScreensAssumption
  <2>3. x \in Nat /\ y \in Nat /\ x \in 0..(ScreenW - 1) /\ x + 1 \in Nat /\ y + 1 \in Nat BY <2>2
  <2>4. /\ Own(x) \in Nat /\ Scale(x) <= Own(x) /\ Own(x) < Scale(x + 1)
        /\ Own(y) \in Nat /\ Scale(y) <= Own(y) /\ Own(y) < Scale(y + 1)
    BY <2>1, <2>3, OwnIsOwn
  <2>5. Scale(x) \in Nat /\ Scale(x + 1) \in Nat /\ Scale(y) \in Nat /\ Scale(y + 1) \in Nat
    BY <2>1, <2>3, ScaleFacts
  <2>6. Own(x) \in Scale(x)..Scale(x + 1) /\ Own(y) \in Scale(y)..Scale(y + 1) BY <2>4, <2>5
  <2>7. Own(x) < mode.w /\ Own(y) < mode.h
    <3>1. /\ mode.w \in Nat \ {0} /\ mode.h \in Nat \ {0}
          /\ Own(x) \in 0..(mode.w - 1) /\ Own(y) \in 0..(mode.h - 1)
      BY <2>1, <2>3, OwnFits
    <3> DEFINE w == mode.w
               h == mode.h
    <3> HIDE DEF w, h
    <3> QED BY <3>1
  <2> QED BY <2>1, <2>6, <2>7
<1> QED BY <1>1, Invariance, PTL

=============================================================================

----------------------------- MODULE LayoutProofs -----------------------------
(***************************************************************************)
(* Proofs about Layout and ModuleLoad, for every file, every place and     *)
(* size of its heap and every size of what the heap takes for itself.      *)
(***************************************************************************)
EXTENDS ModuleLoad, Counting

-----------------------------------------------------------------------------
(* Arithmetic and types *)

LEMMA ModRange ==
  ASSUME NEW n \in Nat \ {0}, NEW x \in Int PROVE x % n \in 0 .. n - 1
  BY SMT

LEMMA ModSame ==
  ASSUME NEW n \in Nat \ {0}, NEW x \in 0 .. n - 1 PROVE x % n = x
  BY SMT

LEMMA ModOnce ==
  ASSUME NEW n \in Nat \ {0}, NEW x \in n .. 2 * n - 1 PROVE x % n = x - n
<1>1. x - n \in 0 .. n - 1 OBVIOUS
<1> QED BY <1>1, SMT

\* What an aligned address is good for here: it is not below the address.
LEMMA AlignUpRises ==
  ASSUME NEW x \in Nat, NEW a \in Nat \ {0}
  PROVE AlignUp(x, a) \in Nat /\ x <= AlignUp(x, a)
<1>1. x % a \in 0 .. a - 1 BY ModRange
<1>2. a - (x % a) \in Int BY <1>1
<1> DEFINE d == a - (x % a)
<1>3. d % a \in 0 .. a - 1
  <2> HIDE DEF d
  <2> QED BY <1>2, ModRange DEF d
<1> QED BY <1>3 DEF AlignUp

\* Whole quotients: what is divided, what a sum and a divisor of a divisor divide.
LEMMA Quotient ==
  ASSUME NEW a \in Nat \ {0}, NEW x \in Int PROVE x \div a \in Int /\ x = a * (x \div a) + (x % a)
  BY SMT

\* x is a multiple of a.
Divides(a, x) == x % a = 0

LEMMA Multiple ==
  ASSUME NEW a \in Nat \ {0}, NEW q \in Int PROVE (a * q) % a = 0
  BY SMT

LEMMA DividesSum ==
  ASSUME NEW a \in Nat \ {0}, NEW x \in Int, NEW y \in Int, Divides(a, x), Divides(a, y)
  PROVE Divides(a, x + y) /\ Divides(a, x - y)
<1>1. PICK p \in Int : x = a * p
  <2>1. x \div a \in Int /\ x = a * (x \div a) BY Quotient DEF Divides
  <2> QED BY <2>1
<1>2. PICK q \in Int : y = a * q
  <2>1. y \div a \in Int /\ y = a * (y \div a) BY Quotient DEF Divides
  <2> QED BY <2>1
<1>3. x + y = a * (p + q) /\ x - y = a * (p - q) BY <1>1, <1>2
<1>4. p + q \in Int /\ p - q \in Int OBVIOUS
<1> QED BY <1>3, <1>4, Multiple DEF Divides

LEMMA DividesOn ==
  ASSUME NEW a \in Nat \ {0}, NEW b \in Nat \ {0}, NEW x \in Int, Divides(b, x), Divides(a, b)
  PROVE Divides(a, x)
<1>1. PICK p \in Int : x = b * p
  <2>1. x \div b \in Int /\ x = b * (x \div b) BY Quotient DEF Divides
  <2> QED BY <2>1
<1>2. PICK q \in Int : b = a * q
  <2>1. b \div a \in Int /\ b = a * (b \div a) BY Quotient DEF Divides
  <2> QED BY <2>1
<1>3. x = a * (q * p) BY <1>1, <1>2
<1>4. q * p \in Int OBVIOUS
<1> QED BY <1>3, <1>4, Multiple DEF Divides

\* An address aligned is a multiple, and not further than it must be.
LEMMA AlignUpAligns ==
  ASSUME NEW x \in Nat, NEW a \in Nat \ {0}
  PROVE AlignUp(x, a) % a = 0 /\ AlignUp(x, a) <= x + a - 1
<1> DEFINE r == x % a
<1>1. r \in 0 .. a - 1 BY ModRange
<1>2. PICK q \in Int : x = a * q + r
  <2>1. x \div a \in Int /\ x = a * (x \div a) + r BY Quotient
  <2> QED BY <2>1
<1>3. AlignUp(x, a) = x + ((a - r) % a) BY DEF AlignUp
<1> HIDE DEF r
<1>4. CASE r = 0
  <2>1. a % a = 0
    <3>1. a = a * 1 OBVIOUS
    <3> QED BY <3>1, Multiple
  <2>2. AlignUp(x, a) = a * q BY <1>2, <1>3, <1>4, <2>1
  <2> QED BY <1>2, <1>4, <2>2, Multiple
<1>5. CASE r # 0
  <2>1. a - r \in 0 .. a - 1 BY <1>1, <1>5
  <2>2. (a - r) % a = a - r BY <2>1, ModSame
  <2>3. AlignUp(x, a) = a * (q + 1) BY <1>1, <1>2, <1>3, <2>2
  <2>4. AlignUp(x, a) <= x + a - 1 BY <1>1, <1>3, <1>5, <2>2
  <2> QED BY <2>3, <2>4, Multiple
<1> QED BY <1>4, <1>5

LEMMA ConstantTypes ==
  /\ {Word, TextVA, DataVA, ImportVA, Granule, Unit, Info, Spare, Front, Header} \subseteq Nat
  /\ TextVA < DataVA /\ DataVA < ImportVA /\ ImportVA < Word
  /\ Granule > 0 /\ Unit > 0 /\ Front <= Spare
  /\ TextVA % Granule = 0 /\ DataVA % Granule = 0
  /\ Starts \subseteq Nat /\ Extra \subseteq Nat
  BY LayoutAssumption DEF LayoutAssumption

LEMMA WordPositive == Word \in Nat \ {0} BY ConstantTypes

-----------------------------------------------------------------------------
(* The loops that add up sizes *)

\* What the loop adds for section j.
Adds(f, I, j) == IF j \in I THEN f[j].size + f[j].align ELSE 0

LEMMA AddsNat ==
  ASSUME NEW f \in Seq(Section), NEW I, NEW j \in 1 .. Len(f)
  PROVE Adds(f, I, j) \in Nat /\ f[j].size \in Nat /\ f[j].align \in Nat
<1>1. f[j] \in Section OBVIOUS
<1>2. f[j].size \in Nat /\ f[j].align \in Nat BY <1>1 DEF Section
<1> QED BY <1>2 DEF Adds

\* The total is the last of the sums the loop goes through.
LEMMA TotalSums ==
  ASSUME NEW f \in Seq(Section), NEW I
  PROVE \E s \in [0 .. Len(f) -> Nat] :
          /\ s[0] = 0 /\ \A j \in 1 .. Len(f) : s[j] = s[j - 1] + Adds(f, I, j)
          /\ Total(f, I) = s[Len(f)]
<1> DEFINE G(s) == s = [n \in 0 .. Len(f) |->
                          IF n = 0 THEN 0
                          ELSE s[n - 1] + (IF n \in I THEN f[n].size + f[n].align ELSE 0)]
           sum == CHOOSE s : G(s)
           add == [j \in 1 .. Len(f) |-> Adds(f, I, j)]
<1>1. Len(f) \in Nat /\ add \in [1 .. Len(f) -> Nat] BY AddsNat
<1>2. PICK s \in [0 .. Len(f) -> Nat] : s[0] = 0 /\ \A j \in 1 .. Len(f) : s[j] = s[j - 1] + add[j]
  <2> HIDE DEF add
  <2> QED BY <1>1, PartialSums
<1>3. G(s)
  <2>1. ASSUME NEW n \in 0 .. Len(f)
        PROVE s[n] = IF n = 0 THEN 0
                     ELSE s[n - 1] + (IF n \in I THEN f[n].size + f[n].align ELSE 0)
    <3>1. CASE n = 0 BY <1>2, <3>1
    <3>2. CASE n # 0
      <4>1. n \in 1 .. Len(f) BY <1>1, <3>2
      <4> QED BY <1>2, <3>2, <4>1 DEF Adds
    <3> QED BY <3>1, <3>2
  <2> QED BY <2>1
<1>4. G(sum) BY <1>3
<1>5. Total(f, I) = sum[Len(f)] BY DEF Total
<1> HIDE DEF sum
<1>6. \A n \in 0 .. Len(f) : sum[n] =
        IF n = 0 THEN 0 ELSE sum[n - 1] + (IF n \in I THEN f[n].size + f[n].align ELSE 0)
  BY <1>4
<1>7. sum[0] = 0 BY <1>1, <1>6
<1>8. ASSUME NEW n \in 1 .. Len(f) PROVE sum[n] = sum[n - 1] + Adds(f, I, n)
  <2>1. n \in 0 .. Len(f) /\ n # 0 BY <1>1
  <2> QED BY <1>6, <2>1 DEF Adds
<1>9. DOMAIN sum = 0 .. Len(f) /\ sum = [n \in 0 .. Len(f) |-> sum[n]] BY <1>4
<1>10. \A n \in 0 .. Len(f) : sum[n] \in Nat
  <2> DEFINE T == {n \in Nat : n <= Len(f) => sum[n] \in Nat}
  <2>1. 0 \in T BY <1>7
  <2>2. ASSUME NEW n \in Nat, n \in T PROVE n + 1 \in T
    <3> SUFFICES ASSUME n + 1 <= Len(f) PROVE sum[n + 1] \in Nat OBVIOUS
    <3>1. sum[n] \in Nat /\ n + 1 \in 1 .. Len(f) /\ (n + 1) - 1 = n BY <1>1, <2>2
    <3>2. sum[n + 1] = sum[n] + Adds(f, I, n + 1) BY <1>8, <3>1
    <3>3. Adds(f, I, n + 1) \in Nat BY <3>1, AddsNat
    <3> QED BY <3>1, <3>2, <3>3
  <2> HIDE DEF T
  <2>3. Nat \subseteq T BY <2>1, <2>2, Induction
  <2> QED BY <2>3, <1>1 DEF T
<1>11. sum \in [0 .. Len(f) -> Nat] BY <1>9, <1>10
<1> QED BY <1>5, <1>7, <1>8, <1>11

LEMMA TotalNat == ASSUME NEW f \in Seq(Section), NEW I PROVE Total(f, I) \in Nat
<1>1. Len(f) \in 0 .. Len(f) OBVIOUS
<1> QED BY <1>1, TotalSums

\* Section by section, I and J together add no more than K and L.
LEMMA TotalsBounded ==
  ASSUME NEW f \in Seq(Section), NEW I, NEW J, NEW K, NEW L,
         \A j \in 1 .. Len(f) :
           Adds(f, I, j) + Adds(f, J, j) <= Adds(f, K, j) + Adds(f, L, j)
  PROVE Total(f, I) + Total(f, J) <= Total(f, K) + Total(f, L)
<1>1. PICK i \in [0 .. Len(f) -> Nat] :
        /\ i[0] = 0 /\ \A n \in 1 .. Len(f) : i[n] = i[n - 1] + Adds(f, I, n)
        /\ Total(f, I) = i[Len(f)]
  BY TotalSums
<1>2. PICK j \in [0 .. Len(f) -> Nat] :
        /\ j[0] = 0 /\ \A n \in 1 .. Len(f) : j[n] = j[n - 1] + Adds(f, J, n)
        /\ Total(f, J) = j[Len(f)]
  BY TotalSums
<1>3. PICK p \in [0 .. Len(f) -> Nat] :
        /\ p[0] = 0 /\ \A n \in 1 .. Len(f) : p[n] = p[n - 1] + Adds(f, K, n)
        /\ Total(f, K) = p[Len(f)]
  BY TotalSums
<1>4. PICK q \in [0 .. Len(f) -> Nat] :
        /\ q[0] = 0 /\ \A n \in 1 .. Len(f) : q[n] = q[n - 1] + Adds(f, L, n)
        /\ Total(f, L) = q[Len(f)]
  BY TotalSums
<1> DEFINE T == {n \in Nat : n <= Len(f) => i[n] + j[n] <= p[n] + q[n]}
<1>5. 0 \in T BY <1>1, <1>2, <1>3, <1>4
<1>6. ASSUME NEW n \in Nat, n \in T PROVE n + 1 \in T
  <2> SUFFICES ASSUME n + 1 <= Len(f) PROVE i[n + 1] + j[n + 1] <= p[n + 1] + q[n + 1] OBVIOUS
  <2>1. n + 1 \in 1 .. Len(f) /\ (n + 1) - 1 = n /\ n \in 0 .. Len(f) OBVIOUS
  <2> DEFINE a == Adds(f, I, n + 1)
             b == Adds(f, J, n + 1)
             c == Adds(f, K, n + 1)
             d == Adds(f, L, n + 1)
  <2>2. i[n + 1] = i[n] + a /\ j[n + 1] = j[n] + b /\ p[n + 1] = p[n] + c /\ q[n + 1] = q[n] + d
    BY <1>1, <1>2, <1>3, <1>4, <2>1
  <2>3. i[n] \in Nat /\ j[n] \in Nat /\ p[n] \in Nat /\ q[n] \in Nat BY <2>1
  <2>4. a \in Nat /\ b \in Nat /\ c \in Nat /\ d \in Nat BY <2>1, AddsNat
  <2>5. a + b <= c + d BY <2>1
  <2>6. i[n] + j[n] <= p[n] + q[n] BY <1>6
  <2> DEFINE i0 == i[n]
             j0 == j[n]
             p0 == p[n]
             q0 == q[n]
  <2>7. i0 \in Nat /\ j0 \in Nat /\ p0 \in Nat /\ q0 \in Nat /\ i0 + j0 <= p0 + q0
    BY <2>3, <2>6
  <2>8. /\ i[n + 1] = i0 + a /\ j[n + 1] = j0 + b
        /\ p[n + 1] = p0 + c /\ q[n + 1] = q0 + d
    BY <2>2
  <2> HIDE DEF a, b, c, d, i0, j0, p0, q0
  <2>9. (i0 + a) + (j0 + b) <= (p0 + c) + (q0 + d) BY <2>4, <2>5, <2>7
  <2> QED BY <2>8, <2>9
<1> HIDE DEF T
<1>7. Nat \subseteq T BY <1>5, <1>6, Induction
<1>8. Len(f) \in Nat OBVIOUS
<1>9. i[Len(f)] + j[Len(f)] <= p[Len(f)] + q[Len(f)] BY <1>7, <1>8 DEF T
<1> QED BY <1>1, <1>2, <1>3, <1>4, <1>9

\* The total of one section is what it adds, and that of none is nothing.
LEMMA TotalOne ==
  ASSUME NEW f \in Seq(Section), NEW j \in 1 .. Len(f)
  PROVE Total(f, {j}) = f[j].size + f[j].align
<1>1. PICK s \in [0 .. Len(f) -> Nat] :
        /\ s[0] = 0 /\ \A n \in 1 .. Len(f) : s[n] = s[n - 1] + Adds(f, {j}, n)
        /\ Total(f, {j}) = s[Len(f)]
  BY TotalSums
<1> DEFINE v == f[j].size + f[j].align
           T == {n \in Nat : n <= Len(f) => s[n] = IF n < j THEN 0 ELSE v}
<1>2. v \in Nat BY AddsNat
<1>3. \A n \in 1 .. Len(f) : Adds(f, {j}, n) = IF n = j THEN v ELSE 0 BY DEF Adds
<1> HIDE DEF v
<1>4. 0 \in T BY <1>1
<1>5. ASSUME NEW n \in Nat, n \in T PROVE n + 1 \in T
  <2> SUFFICES ASSUME n + 1 <= Len(f) PROVE s[n + 1] = IF n + 1 < j THEN 0 ELSE v OBVIOUS
  <2>1. n + 1 \in 1 .. Len(f) /\ (n + 1) - 1 = n OBVIOUS
  <2>2. s[n + 1] = s[n] + (IF n + 1 = j THEN v ELSE 0) BY <1>1, <1>3, <2>1
  <2>3. s[n] = IF n < j THEN 0 ELSE v BY <1>5
  <2> QED BY <1>2, <2>2, <2>3
<1> HIDE DEF T
<1>6. Nat \subseteq T BY <1>4, <1>5, Induction
<1>7. Len(f) \in Nat /\ ~(Len(f) < j) OBVIOUS
<1>8. s[Len(f)] = v BY <1>6, <1>7 DEF T
<1> QED BY <1>1, <1>8 DEF v

LEMMA TotalNone == ASSUME NEW f \in Seq(Section) PROVE Total(f, {}) = 0
<1>1. \A j \in 1 .. Len(f) : Adds(f, {}, j) = 0 BY DEF Adds
<1>2. PICK s \in [0 .. Len(f) -> Nat] :
        /\ s[0] = 0 /\ \A n \in 1 .. Len(f) : s[n] = s[n - 1] + Adds(f, {}, n)
        /\ Total(f, {}) = s[Len(f)]
  BY TotalSums
<1> DEFINE T == {n \in Nat : n <= Len(f) => s[n] = 0}
<1>3. 0 \in T BY <1>2
<1>4. ASSUME NEW n \in Nat, n \in T PROVE n + 1 \in T
  <2> SUFFICES ASSUME n + 1 <= Len(f) PROVE s[n + 1] = 0 OBVIOUS
  <2>1. n + 1 \in 1 .. Len(f) /\ (n + 1) - 1 = n OBVIOUS
  <2> QED BY <1>1, <1>2, <1>4, <2>1
<1> HIDE DEF T
<1>5. Nat \subseteq T BY <1>3, <1>4, Induction
<1>6. Len(f) \in Nat OBVIOUS
<1> QED BY <1>2, <1>5, <1>6 DEF T

\* A set of sections with one more adds at least that one.
LEMMA TotalGrows ==
  ASSUME NEW f \in Seq(Section), NEW I, NEW J, I \subseteq J, NEW j \in 1 .. Len(f),
         j \in J, j \notin I
  PROVE Total(f, I) + f[j].size + f[j].align <= Total(f, J)
<1>1. ASSUME NEW n \in 1 .. Len(f)
      PROVE Adds(f, I, n) + Adds(f, {j}, n) <= Adds(f, J, n) + Adds(f, {}, n)
  <2>1. f[n].size \in Nat /\ f[n].align \in Nat BY AddsNat
  <2> QED BY <2>1 DEF Adds
<1>2. Total(f, I) + Total(f, {j}) <= Total(f, J) + Total(f, {}) BY <1>1, TotalsBounded
<1>3. Total(f, I) \in Nat /\ Total(f, J) \in Nat /\ Total(f, {}) = 0 BY TotalNat, TotalNone
<1>4. f[j].size \in Nat /\ f[j].align \in Nat BY AddsNat
<1> QED BY <1>2, <1>3, <1>4, TotalOne

LEMMA TotalSubset ==
  ASSUME NEW f \in Seq(Section), NEW I, NEW J, I \subseteq J
  PROVE Total(f, I) <= Total(f, J)
<1>1. ASSUME NEW n \in 1 .. Len(f)
      PROVE Adds(f, I, n) + Adds(f, {}, n) <= Adds(f, J, n) + Adds(f, {}, n)
  <2>1. f[n].size \in Nat /\ f[n].align \in Nat BY AddsNat
  <2> QED BY <2>1 DEF Adds
<1>2. Total(f, I) + Total(f, {}) <= Total(f, J) + Total(f, {}) BY <1>1, TotalsBounded
<1>3. Total(f, I) \in Nat /\ Total(f, J) \in Nat /\ Total(f, {}) = 0 BY TotalNat, TotalNone
<1> QED BY <1>2, <1>3

-----------------------------------------------------------------------------
(* Files and heaps *)

LEMMA FileTypes ==
  ASSUME NEW f \in Files
  PROVE /\ f \in Seq(Section)
        /\ \A j \in DOMAIN f : f[j] \in Section /\ f[j].va < Word /\ f[j].size < Word
        /\ TextSize(f) \in Nat /\ DataSize(f) \in Nat
        /\ GetSizeOfModule(f) \in Nat /\ Required(f) \in Nat
<1>1. f \in Seq(Section) /\ \A s \in Range(f) : s.va < Word /\ s.size < Word
  BY LayoutAssumption DEF LayoutAssumption
<1>2. \A j \in DOMAIN f : f[j] \in Range(f) BY DEF Range
<1>3. \A j \in DOMAIN f : f[j] \in Section BY <1>1
<1>4. ASSUME NEW I PROVE Total(f, I) % Word \in Nat
  <2>1. Total(f, I) \in Int BY <1>1, TotalNat
  <2> QED BY <2>1, ModRange, WordPositive
<1>5. TextSize(f) \in Nat /\ DataSize(f) \in Nat /\ GetSizeOfModule(f) \in Nat
  BY <1>4 DEF TextSize, DataSize, GetSizeOfModule
<1>6. Required(f) \in Nat
  <2>1. GetSizeOfModule(f) + Info + Spare \in Int BY <1>5, ConstantTypes
  <2> QED BY <2>1, ModRange, WordPositive DEF Required
<1> QED BY <1>1, <1>2, <1>3, <1>5, <1>6

\* The heap of a module ends below 2^32 and has room for what it takes for itself.
LEMMA HeapTypes ==
  ASSUME NEW f \in Files, NEW h \in HeapOf(f)
  PROVE h \in Ranges /\ h.from <= h.to /\ h.from + Front <= h.to
<1>1. PICK start \in Starts, x \in Extra : h = [from |-> start, to |-> start + Required(f) + x]
  BY DEF HeapOf
<1>2. h.from + Front <= h.to /\ h.to < Word BY DEF HeapOf
<1>3. start \in Nat /\ x \in Nat /\ Required(f) \in Nat /\ Front \in Nat
  BY FileTypes, ConstantTypes
<1>4. h.from = start /\ h.to = start + Required(f) + x BY <1>1
<1>5. h.from \in 0 .. Word - 1 /\ h.to \in 0 .. Word - 1 /\ h.from <= h.to
  BY <1>2, <1>3, <1>4, WordPositive
<1>6. h \in Ranges BY <1>1, <1>4, <1>5 DEF Ranges
<1> QED BY <1>2, <1>5, <1>6
-----------------------------------------------------------------------------
(* The steps *)

\* A block is taken behind everything taken before, and inside the heap.
LEMMA AllocGives ==
  ASSUME LayoutInv, NEW name \in Names, NEW size \in Nat, NEW align \in Nat \ {0}, NEW next,
         Alloc(name, size, align, next)
  PROVE /\ phase = name /\ UNCHANGED <<file, heap, k, placed>>
        /\ \/ phase' = "nomem" /\ UNCHANGED <<free, blocks>>
           \/ /\ phase' = next /\ free' \in Nat /\ free' <= heap.to
              /\ \E at \in Nat :
                   /\ free <= at /\ at + size <= free'
                   /\ blocks' = [blocks EXCEPT ![name] = [from |-> at, to |-> at + size]]
<1> DEFINE at == AlignUp(free + Header, align)
           end == at + AlignUp(size, Unit)
<1>1. /\ phase = name /\ UNCHANGED <<file, heap, k, placed>>
      /\ IF end <= heap.to
           THEN /\ blocks' = [blocks EXCEPT ![name] = [from |-> at, to |-> at + size]]
                /\ free' = end /\ phase' = next
           ELSE phase' = "nomem" /\ UNCHANGED <<free, blocks>>
  BY DEF Alloc
<1>2. free \in Nat /\ Header \in Nat /\ Unit \in Nat \ {0}
  BY ConstantTypes DEF LayoutInv, TypeOK
<1>3. at \in Nat /\ free + Header <= at
  <2>1. free + Header \in Nat BY <1>2
  <2> QED BY <2>1, AlignUpRises
<1>4. AlignUp(size, Unit) \in Nat /\ size <= AlignUp(size, Unit)
  BY <1>2, AlignUpRises
<1> HIDE DEF at
<1>5. free <= at /\ at + size <= end /\ end \in Nat BY <1>2, <1>3, <1>4
<1> QED BY <1>1, <1>3, <1>5

\* A section that is not refused goes where its offset says: an address that wrapped is
\* before its block.  It is inside the block unless it does not end below 2^32.
LEMMA CopyInPlace ==
  ASSUME LayoutInv, phase = "copy", k \in DOMAIN file, Copied(file[k]), ~Refused(file[k])
  PROVE LET s == file[k]
        IN
        /\ InText(s) \/ InData(s)
        /\ Destination(s) = Block(s).from + Offset(s)
        /\ Destination(s) + s.size < Word => Destination(s) + s.size <= Block(s).to
        /\ Destination(s) \in 0 .. Word - 1 /\ Destination(s) + s.size \in Nat
<1> DEFINE s == file[k]
           b == Block(s)
<1>0. Copied(s) /\ ~Refused(s) OBVIOUS
<1> HIDE DEF s
<1>1. file \in Files /\ heap \in HeapOf(file) BY DEF LayoutInv, FileFits
<1>2. s.va \in Nat /\ s.size \in Nat /\ s.va < Word BY <1>1, FileTypes DEF Section, s
<1>3. InText(s) \/ InData(s) BY <1>0 DEF Refused
<1>4. Offset(s) \in 0 .. Word - 1
  BY <1>2, <1>3, ConstantTypes DEF Offset, InText, InData
<1>5. b.from \in 0 .. Word - 1 /\ b.to \in Nat
  <2>1. blocks["text"] \in Ranges /\ blocks["data"] \in Ranges
    BY DEF LayoutInv, TypeOK, Names
  <2>2. b \in Ranges BY <2>1 DEF Block
  <2>3. b.from \in 0 .. Word - 1 /\ b.to \in 0 .. Word - 1 BY <2>2 DEF Ranges
  <2> QED BY <2>3, WordPositive
<1>6. Destination(s) = (b.from + Offset(s)) % Word BY DEF Destination
<1>7. (Destination(s) + s.size) % Word <= b.to /\ Destination(s) >= b.from
  <2>1. ~Outside(s) BY <1>0 DEF Refused
  <2>2. b.from + Offset(s) \in Int BY <1>4, <1>5
  <2>3. Destination(s) \in Nat BY <1>6, <2>2, ModRange, WordPositive
  <2>4. Destination(s) + s.size \in Int BY <1>2, <2>3
  <2>5. (Destination(s) + s.size) % Word \in Nat BY <2>4, ModRange, WordPositive
  <2> QED BY <2>1, <2>3, <2>5, <1>5 DEF Outside
<1>8. /\ Destination(s) = b.from + Offset(s)
      /\ Destination(s) + s.size < Word => Destination(s) + s.size <= b.to
      /\ Destination(s) \in 0 .. Word - 1 /\ Destination(s) + s.size \in Nat
  <2> DEFINE off == Offset(s)
             d == Destination(s)
             size == s.size
             from == b.from
             to == b.to
             x == from + off
             y == d + size
  <2>1. /\ from \in 0 .. Word - 1 /\ to \in Nat /\ off \in 0 .. Word - 1 /\ size \in Nat
        /\ d = x % Word /\ d >= from /\ y % Word <= to
    BY <1>2, <1>4, <1>5, <1>6, <1>7
  <2> HIDE DEF off, d, size, from, to
  <2>2. x \in Nat BY <2>1
  <2>3. d = x /\ x < Word
    <3>1. CASE x < Word
      <4>1. x \in 0 .. Word - 1 BY <2>2, <3>1, WordPositive
      <4> HIDE DEF x
      <4> QED BY <2>1, <3>1, <4>1, ModSame, WordPositive
    <3>2. CASE x >= Word
      <4>1. x \in Word .. 2 * Word - 1 BY <2>1, <3>2, WordPositive
      <4>2. d = x - Word
        <5> HIDE DEF x
        <5> QED BY <2>1, <4>1, ModOnce, WordPositive
      <4> QED BY <2>1, <4>2, WordPositive
    <3> QED BY <2>2, <3>1, <3>2, WordPositive
  <2>4. d \in 0 .. Word - 1 /\ y \in Nat BY <2>1, <2>2, <2>3, WordPositive
  <2>5. y < Word => y <= to
    <3> SUFFICES ASSUME y < Word PROVE y <= to OBVIOUS
    <3>1. y \in 0 .. Word - 1 BY <2>4, WordPositive
    <3> HIDE DEF y
    <3>2. y % Word = y BY <3>1, ModSame, WordPositive
    <3> QED BY <2>1, <3>2
  <2> QED BY <2>3, <2>4, <2>5 DEF off, d, size, from, to
<1> QED BY <1>3, <1>8 DEF s

LEMMA InvInit == Init => LayoutInv
<1> SUFFICES ASSUME Init PROVE LayoutInv OBVIOUS
<1>1. free = heap.from + Front BY DEF Init, Begin
<1>2. file \in Files /\ heap \in HeapOf(file) BY DEF Init, Begin
<1>3. /\ heap \in Ranges /\ heap.from + Front <= heap.to
  BY <1>2, HeapTypes
<1>4. free \in 0 .. Word - 1 /\ heap.from <= free /\ free <= heap.to
  BY <1>1, <1>3, ConstantTypes DEF Ranges
<1>5. file \in Seq(Section) BY <1>2, FileTypes
<1>6. TypeOK
  <2>1. NoBlock \in Ranges BY WordPositive DEF NoBlock, Ranges
  <2>2. k \in 1 .. Len(file) + 1 BY <1>5 DEF Init, Begin
  <2> QED BY <1>3, <1>4, <1>5, <2>1, <2>2 DEF Init, Begin, TypeOK, Names
<1>7. BlocksFit BY <1>4 DEF Init, Begin, BlocksFit, Copying
<1> QED BY <1>2, <1>6, <1>7 DEF Init, Begin, LayoutInv, FileFits, PlacedFits, Copying

\* A step that takes a block leaves the blocks taken before where they are.
LEMMA InvAlloc ==
  ASSUME LayoutInv, NEW name \in Names, NEW size \in Nat, NEW align \in Nat \ {0},
         NEW next \in Names \cup {"copy"}, Alloc(name, size, align, next),
         <<name, next>> \in {<<"info", "text">>, <<"text", "data">>, <<"data", "copy">>}
  PROVE LayoutInv'
<1> USE DEF LayoutInv
<1>1. /\ phase = name /\ UNCHANGED <<file, heap, k, placed>>
      /\ \/ phase' = "nomem" /\ UNCHANGED <<free, blocks>>
         \/ /\ phase' = next /\ free' \in Nat /\ free' <= heap.to
            /\ \E at \in Nat :
                 /\ free <= at /\ at + size <= free'
                 /\ blocks' = [blocks EXCEPT ![name] = [from |-> at, to |-> at + size]]
  BY AllocGives
<1>2. FileFits' BY <1>1 DEF FileFits
<1>3. placed = {} BY <1>1 DEF PlacedFits, Copying, Names
<1>4. PlacedFits' BY <1>1, <1>3 DEF PlacedFits
<1>5. heap.from \in Nat /\ heap.to \in Nat /\ heap.to < Word /\ free \in Nat
  BY WordPositive DEF TypeOK, Ranges
<1>6. CASE phase' = "nomem" /\ UNCHANGED <<free, blocks>>
  <2>1. TypeOK' BY <1>1, <1>6 DEF TypeOK
  <2>2. BlocksFit' BY <1>1, <1>6 DEF BlocksFit, Copying
  <2> QED BY <1>2, <1>4, <2>1, <2>2
<1>7. ASSUME phase' = next, free' \in Nat, free' <= heap.to, NEW at \in Nat,
             free <= at, at + size <= free',
             blocks' = [blocks EXCEPT ![name] = [from |-> at, to |-> at + size]]
      PROVE LayoutInv'
  <2>1. [from |-> at, to |-> at + size] \in Ranges
    BY <1>5, <1>7, WordPositive DEF Ranges
  <2>2. /\ blocks' \in [Names -> Ranges] /\ blocks'[name] = [from |-> at, to |-> at + size]
        /\ \A other \in Names : other # name => blocks'[other] = blocks[other]
    BY <1>7, <2>1 DEF TypeOK
  <2>3. free' \in 0 .. Word - 1 BY <1>5, <1>7, WordPositive
  <2>4. TypeOK' BY <1>1, <1>7, <2>2, <2>3 DEF TypeOK, Names
  <2>5. /\ heap.from <= free' /\ free' <= heap.to /\ free <= free'
        /\ blocks'[name].from = at /\ blocks'[name].to = at + size
    BY <1>5, <1>7, <2>2 DEF BlocksFit
  <2>6. Taken(name)' BY <1>1, <1>5, <1>7, <2>5 DEF Taken, BlocksFit
  <2>7. \A other \in Names : blocks[other].from \in Nat /\ blocks[other].to \in Nat
    BY WordPositive DEF TypeOK, Ranges
  <2>8. ASSUME NEW other \in Names, other # name, Taken(other)
        PROVE Taken(other)' /\ (blocks[other].to <= blocks[name].from)'
    BY <1>1, <1>5, <1>7, <2>2, <2>5, <2>7, <2>8 DEF Taken
  <2>9. BlocksFit'
    <3>1. CASE name = "info" /\ next = "text"
      BY <1>1, <1>7, <2>5, <2>6, <3>1 DEF BlocksFit, Copying
    <3>2. CASE name = "text" /\ next = "data"
      <4>1. Taken("info") BY <1>1, <3>2 DEF BlocksFit
      <4> QED BY <1>1, <1>7, <2>5, <2>6, <2>8, <3>2, <4>1 DEF BlocksFit, Copying, Names
    <3>3. CASE name = "data" /\ next = "copy"
      <4>1. Taken("info") /\ Taken("text") /\ blocks["info"].to <= blocks["text"].from
        BY <1>1, <3>3 DEF BlocksFit
      <4>2. (blocks["info"].to <= blocks["text"].from)' BY <2>2, <3>3, <4>1 DEF Names
      <4> QED BY <1>1, <1>7, <2>5, <2>6, <2>8, <3>3, <4>1, <4>2 DEF BlocksFit, Copying, Names
    <3> QED BY <3>1, <3>2, <3>3
  <2> QED BY <1>2, <1>4, <2>4, <2>9
<1> QED BY <1>1, <1>6, <1>7

LEMMA InvCopy == ASSUME LayoutInv, Copy PROVE LayoutInv'
<1> DEFINE s == file[k]
           p == [sec |-> k, from |-> Destination(s), to |-> Destination(s) + s.size]
<1>1. /\ phase = "copy" /\ k <= Len(file) /\ Copied(s) /\ ~Refused(s)
      /\ placed' = placed \cup {p} /\ k' = k + 1
      /\ UNCHANGED <<phase, file, heap, free, blocks>>
  BY DEF Copy, Following
<1>2. file \in Seq(Section) /\ k \in 1 .. Len(file) + 1 BY DEF LayoutInv, TypeOK
<1>3. k \in DOMAIN file /\ k \in Nat BY <1>1, <1>2
<1>4. /\ InText(s) \/ InData(s)
      /\ p.from = Block(s).from + Offset(s) /\ p.to = p.from + s.size
      /\ p.to < Word => p.to <= Block(s).to
      /\ p.from \in 0 .. Word - 1 /\ p.to \in Nat
  BY <1>1, <1>3, CopyInPlace
<1>5. p.sec = k OBVIOUS
<1> HIDE DEF p
<1>6. TypeOK'
  <2>1. k' \in 1 .. Len(file) + 1 BY <1>1, <1>2, <1>3
  <2>2. \A q \in placed' : /\ q.sec \in 1 .. k' - 1
                           /\ q.from \in 0 .. Word - 1 /\ q.to \in Nat
    BY <1>1, <1>3, <1>4, <1>5, <1>2 DEF LayoutInv, TypeOK
  <2> QED BY <1>1, <2>1, <2>2 DEF LayoutInv, TypeOK
<1>7. FileFits' /\ BlocksFit' BY <1>1 DEF LayoutInv, FileFits, BlocksFit, Taken
<1>8. PlacedFits'
  <2>1. \A t : Block(t)' = Block(t) BY <1>1 DEF Block
  <2>2. ASSUME NEW q \in placed'
        PROVE LET t == file[q.sec]
              IN /\ InText(t) \/ InData(t)
                 /\ q.from = Block(t).from + Offset(t) /\ q.to = q.from + t.size
                 /\ q.to < Word => q.to <= Block(t).to
    BY <1>1, <1>4, <1>5, <2>2 DEF LayoutInv, PlacedFits
  <2> QED BY <1>1, <2>1, <2>2 DEF PlacedFits, Copying
<1> QED BY <1>6, <1>7, <1>8 DEF LayoutInv

LEMMA InvNext == LayoutInv /\ [Next]_vars => LayoutInv'
<1> SUFFICES ASSUME LayoutInv, [Next]_vars PROVE LayoutInv' OBVIOUS
<1>1. TextSize(file) \in Nat /\ DataSize(file) \in Nat
  BY FileTypes DEF LayoutInv, FileFits
<1>2. Info \in Nat /\ Unit \in Nat \ {0} /\ Granule \in Nat \ {0} BY ConstantTypes
<1>3. CASE AllocInfo BY <1>2, <1>3, InvAlloc DEF AllocInfo, Names
<1>4. CASE AllocText BY <1>1, <1>2, <1>4, InvAlloc DEF AllocText, Names
<1>5. CASE AllocData BY <1>1, <1>2, <1>5, InvAlloc DEF AllocData, Names
<1>6. CASE Pass
  <2>1. k \in 1 .. Len(file) + 1 /\ Len(file) \in Nat BY DEF LayoutInv, TypeOK
  <2>2. k' = k + 1 /\ k <= Len(file) /\ UNCHANGED <<phase, file, heap, free, blocks, placed>>
    BY <1>6 DEF Pass, Following
  <2>3. k' \in 1 .. Len(file) + 1 BY <2>1, <2>2
  <2>4. \A p \in placed : p.sec \in 1 .. k' - 1
    BY <2>1, <2>2 DEF LayoutInv, TypeOK
  <2>5. TypeOK' BY <2>2, <2>3, <2>4 DEF LayoutInv, TypeOK
  <2> QED BY <2>2, <2>5 DEF LayoutInv, FileFits, BlocksFit, PlacedFits, Taken, Block
<1>7. CASE Copy BY <1>7, InvCopy
<1>8. CASE Refuse
  BY <1>8 DEF Refuse, LayoutInv, TypeOK, FileFits, BlocksFit, PlacedFits, Taken, Block, Copying
<1>9. CASE Link
  BY <1>9 DEF Link, LayoutInv, TypeOK, FileFits, BlocksFit, PlacedFits, Taken, Block, Copying
<1>10. CASE UNCHANGED vars
  BY <1>10 DEF vars, LayoutInv, TypeOK, FileFits, BlocksFit, PlacedFits, Taken, Block
<1> QED BY <1>3, <1>4, <1>5, <1>6, <1>7, <1>8, <1>9, <1>10 DEF Next, Stopped

LEMMA Invariance == Spec => []LayoutInv
  BY InvInit, InvNext, PTL DEF Spec

-----------------------------------------------------------------------------
(* The theorems *)

\* What the invariant says of one section that was placed, and of its block.
LEMMA PlacedRight ==
  ASSUME LayoutInv, NEW p \in placed
  PROVE LET s == file[p.sec]
            b == Block(s)
        IN /\ s.va \in Nat /\ s.size \in Nat
           /\ p.from = b.from + Offset(s) /\ p.to = p.from + s.size
           /\ p.to \in Nat /\ p.from \in Nat
           /\ heap.from <= b.from /\ b.from <= p.from /\ b.to <= heap.to
           /\ p.to < Word => p.to <= b.to
           /\ \/ InText(s) /\ b = blocks["text"] /\ Offset(s) = s.va - TextVA
              \/ ~InText(s) /\ InData(s) /\ b = blocks["data"] /\ Offset(s) = s.va - DataVA
<1> DEFINE s == file[p.sec]
           b == Block(s)
<1> USE DEF LayoutInv
<1>1. file \in Files /\ file \in Seq(Section) /\ k \in 1 .. Len(file) + 1 /\ p.sec \in 1 .. k - 1
  BY DEF FileFits, TypeOK
<1>2. p.sec \in DOMAIN file BY <1>1
<1>3. s.va \in Nat /\ s.size \in Nat BY <1>1, <1>2, FileTypes DEF Section
<1>4. phase \in Copying BY DEF PlacedFits
<1>5. /\ InText(s) \/ InData(s)
      /\ p.from = b.from + Offset(s) /\ p.to = p.from + s.size
      /\ p.to < Word => p.to <= b.to
  BY DEF PlacedFits
<1>6. Taken("text") /\ Taken("data") /\ free <= heap.to
  BY <1>4 DEF BlocksFit
<1>7. /\ blocks["text"] \in Ranges /\ blocks["data"] \in Ranges
      /\ heap \in Ranges /\ free \in Nat
  BY WordPositive DEF TypeOK, Names
<1>8. \/ InText(s) /\ b = blocks["text"] /\ Offset(s) = s.va - TextVA
      \/ ~InText(s) /\ InData(s) /\ b = blocks["data"] /\ Offset(s) = s.va - DataVA
  BY <1>5 DEF Block, Offset
<1>9. /\ b.from \in Nat /\ b.to \in Nat /\ heap.from <= b.from /\ b.to <= heap.to
  BY <1>6, <1>7, <1>8, WordPositive DEF Taken, Ranges
<1>10. Offset(s) \in Nat BY <1>3, <1>8, ConstantTypes DEF InText, InData
<1>11. p.from \in Nat /\ p.to \in Nat /\ b.from <= p.from
  BY <1>3, <1>5, <1>9, <1>10
<1> QED BY <1>3, <1>5, <1>8, <1>9, <1>11

LEMMA InvContained == LayoutInv => Contained
<1> SUFFICES ASSUME LayoutInv, NEW p \in placed
             PROVE LET b == Block(file[p.sec])
                   IN /\ heap.from <= b.from /\ b.from <= p.from /\ b.to <= heap.to
                      /\ p.to < Word => p.to <= b.to
  BY DEF Contained
<1> QED BY PlacedRight

LEMMA InvNothingOverwritten == LayoutInv => NothingOverwritten
<1> SUFFICES ASSUME LayoutInv, NEW p \in placed
             PROVE /\ blocks["info"].to <= p.from
                   /\ \A q \in placed :
                        LET s == file[p.sec]  t == file[q.sec]
                        IN p.to < Word /\ s.va + s.size <= t.va
                             => p.to <= q.from \/ q.to <= p.from
  BY DEF NothingOverwritten
<1>1. /\ blocks["info"].to <= blocks["text"].from /\ blocks["text"].to <= blocks["data"].from
      /\ blocks["text"].from <= blocks["text"].to
  BY DEF LayoutInv, PlacedFits, BlocksFit, Taken
<1>2. \A name \in Names : blocks[name].from \in Nat /\ blocks[name].to \in Nat
  BY WordPositive DEF LayoutInv, TypeOK, Ranges
<1>3. blocks["info"].to <= p.from
  BY <1>1, <1>2, PlacedRight DEF Names
<1>4. ASSUME NEW q \in placed, p.to < Word, file[p.sec].va + file[p.sec].size <= file[q.sec].va
      PROVE p.to <= q.from \/ q.to <= p.from
  <2> DEFINE s == file[p.sec]
             t == file[q.sec]
  <2>1. CASE InText(s) <=> InText(t)
    <3>1. Block(s) = Block(t) BY <2>1, PlacedRight
    <3>2. Offset(t) - Offset(s) = t.va - s.va
      BY <2>1, PlacedRight, ConstantTypes
    <3>3. /\ p.to = Block(s).from + Offset(s) + s.size /\ q.from = Block(s).from + Offset(t)
          /\ Block(s).from \in Nat
      BY <1>2, <3>1, PlacedRight DEF Names
    <3>4. /\ s.va \in Nat /\ s.size \in Nat /\ t.va \in Nat
          /\ Offset(s) \in Int /\ Offset(t) \in Int
      BY PlacedRight, ConstantTypes
    <3> QED BY <1>4, <3>2, <3>3, <3>4
  <2>2. CASE InText(s) /\ ~InText(t)
    BY <1>1, <1>2, <1>4, <2>2, PlacedRight DEF Names
  <2>3. CASE ~InText(s) /\ InText(t)
    <3>1. s.va >= DataVA /\ t.va < DataVA BY <2>3, PlacedRight DEF InText, InData
    <3>2. s.va \in Nat /\ s.size \in Nat /\ t.va \in Nat /\ DataVA \in Nat
      BY PlacedRight, ConstantTypes
    <3> QED BY <1>4, <3>1, <3>2
  <2> QED BY <2>1, <2>2, <2>3
<1> QED BY <1>3, <1>4

\* Every variable keeps its type; no address at which something begins exceeds a word.
THEOREM LayoutTypeCorrect == Spec => []TypeOK
<1>1. LayoutInv => TypeOK BY DEF LayoutInv
<1> QED BY <1>1, Invariance, PTL

\* Whatever the headers of its sections say, a module is written only inside its blocks,
\* and these lie in its heap, but for a section that does not end below 2^32.
THEOREM AlwaysContained == Spec => []Contained
  BY Invariance, InvContained, PTL

\* Placing a section overwrites neither another section nor the trampolines.
THEOREM NothingIsOverwritten == Spec => []NothingOverwritten
  BY Invariance, InvNothingOverwritten, PTL

-----------------------------------------------------------------------------
(* The heap suffices, and what a linker makes is not refused *)

\* If all sections together fit in a word, so does every sum over some of them.
LEMMA SumsExact ==
  ASSUME NEW f \in Files, AddsUp(f), NEW I, I \subseteq {j \in DOMAIN f : Loaded(f[j])}
  PROVE /\ Total(f, I) % Word = Total(f, I)
        /\ Total(f, I) + Info + Spare \in 0 .. Word - 1
<1> DEFINE all == {j \in DOMAIN f : Loaded(f[j])}
           part == Total(f, I)
           total == Total(f, all)
<1>1. f \in Seq(Section) BY FileTypes
<1>2. part <= total
  <2> HIDE DEF all
  <2> QED BY <1>1, TotalSubset DEF all
<1>3. part \in Nat /\ total \in Nat BY <1>1, TotalNat
<1>4. total + Info + Spare < Word BY DEF AddsUp
<1> HIDE DEF part, total
<1>5. part \in 0 .. Word - 1 /\ part + Info + Spare \in 0 .. Word - 1
  BY <1>2, <1>3, <1>4, ConstantTypes
<1> QED BY <1>5, ModSame, WordPositive DEF part

\* What load() asks for is what GetSizeOfModule counts, and .wut_load_bounds.
LEMMA AskedIsCounted ==
  ASSUME NEW f \in Files, AddsUp(f)
  PROVE /\ TextSize(f) + DataSize(f) <= GetSizeOfModule(f) + BoundsSize(f)
        /\ Required(f) = GetSizeOfModule(f) + Info + Spare
        /\ GetSizeOfModule(f) \in Nat /\ BoundsSize(f) \in Nat
<1> DEFINE I == {j \in DOMAIN f : Loaded(f[j]) /\ InText(f[j])}
           J == {j \in DOMAIN f : Loaded(f[j]) /\ InData(f[j])}
           K == {j \in DOMAIN f : Copied(f[j])}
           L == {j \in DOMAIN f : Loaded(f[j]) /\ f[j].bounds}
<1>1. f \in Seq(Section) BY FileTypes
<1>2. I \cap J = {}
  <2>1. ASSUME NEW j \in DOMAIN f PROVE ~(InText(f[j]) /\ InData(f[j]))
    <3>1. f[j].va \in Nat BY FileTypes DEF Section
    <3> QED BY <3>1, ConstantTypes DEF InText, InData
  <2> QED BY <2>1
<1>3. I \cup J \subseteq K \cup L BY DEF Copied
<1> HIDE DEF I, J, K, L
<1>4. ASSUME NEW j \in 1 .. Len(f)
      PROVE Adds(f, I, j) + Adds(f, J, j) <= Adds(f, K, j) + Adds(f, L, j)
  <2>1. f[j].size \in Nat /\ f[j].align \in Nat BY <1>1, AddsNat
  <2> QED BY <1>2, <1>3, <2>1 DEF Adds
<1>5. Total(f, I) + Total(f, J) <= Total(f, K) + Total(f, L)
  BY <1>1, <1>4, TotalsBounded
<1>6. /\ Total(f, I) % Word = Total(f, I) /\ Total(f, J) % Word = Total(f, J)
      /\ Total(f, K) % Word = Total(f, K) /\ Total(f, K) + Info + Spare \in 0 .. Word - 1
  <2>1. /\ I \subseteq {j \in DOMAIN f : Loaded(f[j])} /\ J \subseteq {j \in DOMAIN f : Loaded(f[j])}
        /\ K \subseteq {j \in DOMAIN f : Loaded(f[j])}
    BY DEF I, J, K, Copied
  <2> QED BY <2>1, SumsExact
<1>7. /\ TextSize(f) = Total(f, I) /\ DataSize(f) = Total(f, J)
      /\ GetSizeOfModule(f) = Total(f, K) /\ BoundsSize(f) = Total(f, L)
  BY <1>6 DEF TextSize, DataSize, GetSizeOfModule, BoundsSize, I, J, K, L
<1>8. Required(f) = GetSizeOfModule(f) + Info + Spare
  BY <1>6, <1>7, ModSame, WordPositive DEF Required
<1> QED BY <1>1, <1>5, <1>7, <1>8, TotalNat

\* Of the sections in the part of f that s is in, those that do not begin behind it.
Upto(f, s) ==
  {n \in DOMAIN f : Loaded(f[n]) /\ (InText(f[n]) <=> InText(s)) /\ f[n].va <= s.va}

\* In a module laid out by a linker, what is in front of a section takes no more than
\* their sizes and alignments: by induction on where it begins.
LEMMA SectionReach ==
  ASSUME NEW f \in Files, WellFormed(f)
  PROVE \A j \in DOMAIN f : Loaded(f[j]) =>
          Offset(f[j]) + f[j].size <= Total(f, Upto(f, f[j]))
<1> DEFINE Good(j) == Offset(f[j]) + f[j].size <= Total(f, Upto(f, f[j]))
           T == {v \in Nat : \A j \in DOMAIN f : Loaded(f[j]) /\ f[j].va = v => Good(j)}
<1>1. f \in Seq(Section) /\ \A j \in DOMAIN f : j \in 1 .. Len(f) BY FileTypes
<1>2. ASSUME NEW j \in DOMAIN f
      PROVE f[j].va \in Nat /\ f[j].size \in Nat /\ f[j].align \in Nat /\ f[j] \in Range(f)
  <2>1. f[j] \in Section BY <1>1
  <2> QED BY <2>1 DEF Section, Range
<1>3. ASSUME NEW v \in Nat, \A u \in Nat : u < v => u \in T PROVE v \in T
  <2> SUFFICES ASSUME NEW j \in DOMAIN f, Loaded(f[j]), f[j].va = v PROVE Good(j)
    OBVIOUS
  <2> DEFINE s == f[j]
             all == Upto(f, s)
             off == Offset(s)
  <2>1. /\ InText(s) \/ InData(s)
        /\ \/ Follows(s, s.va - off)
           \/ \E t \in Range(f) : Loaded(t) /\ (InText(s) <=> InText(t)) /\ Follows(s, t.va + t.size)
    BY <1>2 DEF WellFormed
  <2>2. s.va \in Nat /\ s.size \in Nat /\ s.align \in Nat /\ off \in Int
    BY <1>2, ConstantTypes DEF Offset
  <2>3. j \in all BY <1>2 DEF Upto
  <2>4. CASE Follows(s, s.va - off)
    <3>1. off < s.align BY <2>2, <2>4 DEF Follows
    <3>2. Total(f, {}) + s.size + s.align <= Total(f, all)
      BY <1>1, <2>3, TotalGrows
    <3>3. Total(f, {}) = 0 /\ Total(f, all) \in Nat BY <1>1, TotalNone, TotalNat
    <3> HIDE DEF all, off, s
    <3>4. off + s.size <= Total(f, all) BY <2>2, <3>1, <3>2, <3>3
    <3> QED BY <3>4 DEF all, off, s
  <2>5. CASE \E t \in Range(f) :
               Loaded(t) /\ (InText(s) <=> InText(t)) /\ Follows(s, t.va + t.size)
    <3>1. PICK i \in DOMAIN f : /\ Loaded(f[i]) /\ (InText(s) <=> InText(f[i]))
                                /\ Follows(s, f[i].va + f[i].size)
      BY <2>5 DEF Range
    <3> DEFINE t == f[i]
               before == Upto(f, t)
    <3>2. t.va \in Nat /\ t.size \in Nat /\ t.align \in Nat /\ t.size > 0
      BY <1>2, <3>1 DEF WellFormed
    <3>3. t.va + t.size <= s.va /\ s.va < t.va + t.size + s.align BY <3>1 DEF Follows
    <3>4. t.va < v BY <2>2, <3>2, <3>3
    <3>5. Good(i) BY <1>3, <3>1, <3>2, <3>4
    <3>6. s.va - off = t.va - Offset(t) BY <2>2, <3>1, <3>2, ConstantTypes DEF Offset
    <3>7. before \subseteq all /\ j \notin before
      <4>1. ASSUME NEW n \in before PROVE n \in all
        <5>1. f[n].va \in Nat /\ f[n].va <= t.va BY <1>2 DEF Upto
        <5> QED BY <2>2, <3>1, <3>2, <3>3, <5>1 DEF Upto
      <4>2. j \notin before BY <2>2, <3>2, <3>4 DEF Upto
      <4> QED BY <4>1, <4>2
    <3>8. Total(f, before) + s.size + s.align <= Total(f, all)
      BY <1>1, <2>3, <3>7, TotalGrows
    <3>9. Total(f, before) \in Nat /\ Total(f, all) \in Nat BY <1>1, TotalNat
    <3>10. Offset(t) \in Int BY <3>2, ConstantTypes DEF Offset
    <3>11. Offset(t) + t.size <= Total(f, before) BY <3>5
    <3> HIDE DEF all, off, s, t, before
    <3>12. off + s.size <= Total(f, all) BY <2>2, <3>2, <3>3, <3>6, <3>8, <3>9, <3>10, <3>11
    <3> QED BY <3>12 DEF all, off, s
  <2> QED BY <2>1, <2>4, <2>5
<1> HIDE DEF T
<1>4. Nat \subseteq T BY <1>3, StrongInduction
<1>5. ASSUME NEW j \in DOMAIN f, Loaded(f[j]) PROVE Good(j)
  <2>1. f[j].va \in T BY <1>2, <1>4
  <2> QED BY <1>5, <2>1 DEF T
<1> QED BY <1>5

\* So each ends inside the block made for its part.
LEMMA SectionInBlock ==
  ASSUME NEW f \in Files, WellFormed(f), AddsUp(f), NEW j \in DOMAIN f, Loaded(f[j])
  PROVE Offset(f[j]) + f[j].size <= IF InText(f[j]) THEN TextSize(f) ELSE DataSize(f)
<1> DEFINE s == f[j]
           I == {n \in DOMAIN f : Loaded(f[n]) /\ InText(f[n])}
           J == {n \in DOMAIN f : Loaded(f[n]) /\ InData(f[n])}
<1>1. f \in Seq(Section) /\ s \in Section BY FileTypes
<1>2. Offset(s) + s.size <= Total(f, Upto(f, s)) BY SectionReach
<1>3. \A n \in DOMAIN f : Loaded(f[n]) => InText(f[n]) \/ InData(f[n])
  BY DEF WellFormed, Range
<1>4. IF InText(s) THEN Upto(f, s) \subseteq I ELSE Upto(f, s) \subseteq J
  BY <1>3 DEF Upto
<1>5. Total(f, Upto(f, s)) <= IF InText(s) THEN TextSize(f) ELSE DataSize(f)
  <2>1. Total(f, I) % Word = Total(f, I) /\ Total(f, J) % Word = Total(f, J)
    <3>1. I \subseteq {n \in DOMAIN f : Loaded(f[n])} /\ J \subseteq {n \in DOMAIN f : Loaded(f[n])}
      OBVIOUS
    <3> HIDE DEF I, J
    <3> QED BY <3>1, SumsExact
  <2>2. TextSize(f) = Total(f, I) /\ DataSize(f) = Total(f, J) BY <2>1 DEF TextSize, DataSize
  <2> HIDE DEF I, J
  <2>3. CASE InText(s) BY <1>1, <1>4, <2>2, <2>3, TotalSubset
  <2>4. CASE ~InText(s) BY <1>1, <1>4, <2>2, <2>4, TotalSubset
  <2> QED BY <2>3, <2>4
<1>6. /\ Total(f, Upto(f, s)) \in Nat /\ TextSize(f) \in Nat /\ DataSize(f) \in Nat
      /\ Offset(s) \in Int /\ s.size \in Nat
  <2>1. TextSize(f) \in Nat /\ DataSize(f) \in Nat BY FileTypes
  <2>2. Total(f, Upto(f, s)) \in Nat BY <1>1, TotalNat
  <2>3. s.va \in Nat /\ s.size \in Nat BY <1>1 DEF Section
  <2>4. Offset(s) \in Int BY <2>3, ConstantTypes DEF Offset
  <2> QED BY <2>1, <2>2, <2>3, <2>4
<1> DEFINE off == Offset(s)
           total == Total(f, Upto(f, s))
<1>7. off + s.size <= total /\ off \in Int /\ s.size \in Nat /\ total \in Nat BY <1>2, <1>6
<1>8. total <= IF InText(s) THEN TextSize(f) ELSE DataSize(f) BY <1>5
<1> HIDE DEF off, total, s
<1>9. off + s.size <= IF InText(s) THEN TextSize(f) ELSE DataSize(f) BY <1>6, <1>7, <1>8
<1> QED BY <1>9 DEF off, s

\* A block made of the heap reaches no further than the gaps before and behind it.
LEMMA AllocReaches ==
  ASSUME LayoutInv, NEW name \in Names, NEW size \in Nat, NEW align \in Nat \ {0}, NEW next,
         Alloc(name, size, align, next)
  PROVE LET reach == free + Header + size + (align - 1) + (Unit - 1)
        IN /\ phase = name /\ UNCHANGED <<file, heap>>
           /\ \/ phase' = "nomem" /\ heap.to < reach
              \/ /\ phase' = next /\ free' <= reach
                 /\ blocks'[name].from % align = 0
                 /\ blocks'[name].to = blocks'[name].from + size
                 /\ \A other \in Names \ {name} : blocks'[other] = blocks[other]
<1> DEFINE at == AlignUp(free + Header, align)
           up == AlignUp(size, Unit)
<1>1. /\ phase = name /\ UNCHANGED <<file, heap, k, placed>>
      /\ IF at + up <= heap.to
           THEN /\ blocks' = [blocks EXCEPT ![name] = [from |-> at, to |-> at + size]]
                /\ free' = at + up /\ phase' = next
           ELSE phase' = "nomem" /\ UNCHANGED <<free, blocks>>
  BY DEF Alloc
<1>2. free \in Nat /\ Header \in Nat /\ Unit \in Nat \ {0} /\ heap.to \in Nat
  BY ConstantTypes DEF LayoutInv, TypeOK, Ranges
<1>3. at \in Nat /\ at % align = 0 /\ at <= free + Header + align - 1
  <2>1. free + Header \in Nat BY <1>2
  <2> QED BY <2>1, AlignUpRises, AlignUpAligns
<1>4. up \in Nat /\ up <= size + Unit - 1 BY <1>2, AlignUpRises, AlignUpAligns
<1>5. blocks \in [Names -> Ranges] BY DEF LayoutInv, TypeOK
<1> HIDE DEF at, up
<1>6. at + up <= free + Header + size + (align - 1) + (Unit - 1) /\ at + up \in Nat
  BY <1>2, <1>3, <1>4
<1>7. CASE at + up <= heap.to
  <2>1. blocks'[name] = [from |-> at, to |-> at + size] BY <1>1, <1>5, <1>7
  <2>2. \A other \in Names \ {name} : blocks'[other] = blocks[other] BY <1>1, <1>5, <1>7
  <2> QED BY <1>1, <1>3, <1>6, <1>7, <2>1, <2>2
<1>8. CASE ~(at + up <= heap.to) BY <1>1, <1>2, <1>6, <1>8
<1> QED BY <1>7, <1>8

\* A section of such a module is inside its block, and where its alignment asks.
LEMMA WellFormedAccepted ==
  ASSUME LayoutInv, BlocksSized, WellFormed(file), AddsUp(file), phase = "copy", k \in DOMAIN file, Copied(file[k])
  PROVE ~Refused(file[k])
<1> DEFINE s == file[k]
           b == Block(s)
           off == Offset(s)
<1>1. file \in Files /\ s \in Section BY FileTypes DEF LayoutInv, FileFits
<1>2. Loaded(s) /\ s \in Range(file) BY DEF Copied, Range
<1>3. /\ InText(s) \/ InData(s)
      /\ s.align \in Nat \ {0} /\ Granule % s.align = 0 /\ s.va % s.align = 0
      /\ s.va \in Nat /\ s.size \in Nat
  BY <1>1, <1>2 DEF WellFormed, Section
<1>4. /\ b \in Ranges /\ heap.from <= b.from /\ b.to <= heap.to
      /\ b.from % Granule = 0
      /\ b.to = b.from + IF InText(s) THEN TextSize(file) ELSE DataSize(file)
  <2>1. Taken("text") /\ Taken("data") /\ free <= heap.to /\ heap.from \in Nat /\ heap.to \in Nat
    BY ConstantTypes DEF LayoutInv, BlocksFit, Copying, TypeOK, Ranges
  <2>2. /\ blocks["text"] \in Ranges /\ blocks["data"] \in Ranges /\ free \in Nat
    BY ConstantTypes DEF LayoutInv, TypeOK, Names
  <2>3. Sized("text", TextSize(file)) /\ Sized("data", DataSize(file))
    BY DEF BlocksSized, Copying
  <2>4. /\ heap.from <= blocks["text"].from /\ blocks["text"].to <= heap.to
        /\ heap.from <= blocks["data"].from /\ blocks["data"].to <= heap.to
    <3>1. /\ blocks["text"].from \in Nat /\ blocks["text"].to \in Nat
          /\ blocks["data"].from \in Nat /\ blocks["data"].to \in Nat
      BY <2>2, ConstantTypes DEF Ranges
    <3> QED BY <2>1, <2>2, <3>1 DEF Taken
  <2>5. CASE InText(s) BY <2>2, <2>3, <2>4, <2>5 DEF Block, Sized
  <2>6. CASE ~InText(s) BY <2>2, <2>3, <2>4, <2>6 DEF Block, Sized
  <2> QED BY <2>5, <2>6
<1>5. b.from \in Nat /\ b.to \in Nat /\ b.to < Word
  <2>1. heap \in Ranges BY DEF LayoutInv, TypeOK
  <2> QED BY <1>4, <2>1, ConstantTypes DEF Ranges
<1>6. off \in Nat /\ off % s.align = 0
  <2>1. TextVA \in Nat /\ DataVA \in Nat /\ Granule \in Nat \ {0} BY ConstantTypes
  <2> DEFINE a == s.align
             va == s.va
  <2>2. a \in Nat \ {0} /\ Granule % a = 0 /\ va % a = 0 /\ va \in Int BY <1>3
  <2>3. (va - TextVA) % a = 0 /\ (va - DataVA) % a = 0
    <3> HIDE DEF a, va
    <3>1. Divides(a, Granule) /\ Divides(a, va) BY <2>2 DEF Divides
    <3>2. Divides(Granule, TextVA) /\ Divides(Granule, DataVA) BY ConstantTypes DEF Divides
    <3>3. Divides(a, TextVA) /\ Divides(a, DataVA) BY <2>1, <2>2, <3>1, <3>2, DividesOn
    <3>4. Divides(a, va - TextVA) /\ Divides(a, va - DataVA)
      BY <2>1, <2>2, <3>1, <3>3, DividesSum
    <3> QED BY <3>4 DEF Divides
  <2>4. off \in Nat BY <1>3, <2>1 DEF Offset, InText, InData
  <2> QED BY <2>3, <2>4 DEF Offset
<1>7. b.from + off + s.size <= b.to
  <2>1. off + s.size <= IF InText(s) THEN TextSize(file) ELSE DataSize(file)
    BY <1>1, <1>2, SectionInBlock
  <2>2. TextSize(file) \in Nat /\ DataSize(file) \in Nat BY <1>1, FileTypes
  <2> DEFINE room == IF InText(s) THEN TextSize(file) ELSE DataSize(file)
  <2>3. room \in Nat /\ off + s.size <= room /\ b.to = b.from + room BY <1>4, <2>1, <2>2
  <2> HIDE DEF room, off, b, s
  <2> QED BY <1>3, <1>5, <1>6, <2>3
<1>8. Destination(s) = b.from + off /\ (Destination(s) + s.size) % Word = b.from + off + s.size
  <2> DEFINE x == b.from + off
             y == x + s.size
  <2>1. x \in 0 .. Word - 1 /\ y \in 0 .. Word - 1 BY <1>3, <1>5, <1>6, <1>7, WordPositive
  <2>2. Destination(s) = x % Word BY DEF Destination
  <2> HIDE DEF x
  <2>3. x % Word = x BY <2>1, ModSame, WordPositive
  <2>4. (Destination(s) + s.size) % Word = y % Word BY <2>2, <2>3
  <2> HIDE DEF y
  <2>5. y % Word = y BY <2>1, ModSame, WordPositive
  <2> QED BY <2>2, <2>3, <2>4, <2>5 DEF x, y
<1>9. ~Outside(s)
  <2> HIDE DEF s, off
  <2> QED BY <1>3, <1>5, <1>6, <1>7, <1>8 DEF Outside
<1>10. ~Misaligned(s)
  <2> DEFINE a == s.align
             from == b.from
  <2>1. /\ a \in Nat \ {0} /\ Granule \in Nat \ {0} /\ from \in Int /\ off \in Int
        /\ Divides(Granule, from) /\ Divides(a, Granule) /\ Divides(a, off)
    BY <1>3, <1>4, <1>5, <1>6, ConstantTypes DEF Divides
  <2> HIDE DEF a, from, off
  <2>2. Divides(a, from) BY <2>1, DividesOn
  <2>3. Divides(a, from + off) BY <2>1, <2>2, DividesSum
  <2> QED BY <1>3, <1>8, <2>3 DEF Misaligned, Divides, a, from, off
<1> QED BY <1>3, <1>9, <1>10 DEF Refused

LEMMA RoomInit == Init => RoomInv
<1> SUFFICES ASSUME Init PROVE RoomInv OBVIOUS
<1>1. LayoutInv BY InvInit
<1>2. phase = "info" /\ free = heap.from + Front BY DEF Init, Begin
<1> QED BY <1>1, <1>2 DEF RoomInv, ReachFits, BlocksSized, Copying, HeapSuffices, WellFormedLoads

\* The blocks are taken: each reaches no further than foreseen, and the last not behind
\* the end of the heap.
LEMMA RoomAlloc ==
  ASSUME RoomInv, AllocInfo \/ AllocText \/ AllocData, LayoutInv'
  PROVE RoomInv'
<1> USE DEF RoomInv
<1>1. file \in Files /\ heap \in HeapOf(file) BY DEF LayoutInv, FileFits
<1>2. PICK start \in Starts, x \in Extra :
        heap = [from |-> start, to |-> start + Required(file) + x]
  BY <1>1 DEF HeapOf
<1> DEFINE text == TextSize(file)
           info == Info
           bytes == DataSize(file)
           counted == GetSizeOfModule(file)
           bounds == BoundsSize(file)
           exact == AddsUp(file)
           granule == Granule - 1
           unit == Unit - 1
           from == heap.from
           to == heap.to
<1>3. /\ text \in Nat /\ bytes \in Nat /\ counted \in Nat /\ bounds \in Nat /\ info \in Nat
      /\ granule \in Nat /\ unit \in Nat /\ Front \in Nat /\ Header \in Nat /\ Spare \in Nat
      /\ exact => text + bytes <= counted + bounds
  <2>1. text \in Nat /\ bytes \in Nat /\ counted \in Nat BY <1>1, FileTypes
  <2>2. bounds \in Nat /\ (exact => text + bytes <= counted + bounds)
    <3>1. file \in Seq(Section) BY <1>1, FileTypes
    <3> QED BY <1>1, <3>1, TotalNat, AskedIsCounted DEF BoundsSize
  <2>3. /\ info \in Nat /\ granule \in Nat /\ unit \in Nat
        /\ Front \in Nat /\ Header \in Nat /\ Spare \in Nat
    BY ConstantTypes
  <2> QED BY <2>1, <2>2, <2>3
<1>4. /\ from \in Nat /\ to \in Nat /\ free \in Nat
      /\ exact => from + counted + info + Spare <= to
  <2>1. from = start /\ to = start + Required(file) + x BY <1>2
  <2>2. start \in Nat /\ x \in Nat /\ Required(file) \in Nat BY <1>1, FileTypes, ConstantTypes
  <2>3. free \in Nat BY ConstantTypes DEF LayoutInv, TypeOK
  <2>4. exact => Required(file) = counted + info + Spare BY <1>1, AskedIsCounted
  <2> DEFINE required == Required(file)
  <2> HIDE DEF from, to, exact, counted, info, required
  <2>5. to = start + required + x /\ required \in Nat /\ (exact => required = counted + info + Spare)
    BY <2>1, <2>2, <2>4 DEF required
  <2> QED BY <1>3, <2>1, <2>2, <2>3, <2>5
<1> DEFINE enough == exact /\ bounds + Front + 3 * Header + 4 * unit + 2 * granule <= Spare
<1>5. AddsUp(file) /\ BoundsSize(file) + Overhead <= Spare <=> enough
  <2>1. Overhead \in Int /\ Overhead = Front + 3 * Header + 4 * unit + 2 * granule
    BY <1>3, ConstantTypes DEF Overhead
  <2> DEFINE sum == Front + 3 * Header + 4 * unit + 2 * granule
  <2>2. BoundsSize(file) = bounds /\ Overhead = sum BY <2>1
  <2> HIDE DEF bounds, granule, unit, exact
  <2>3. enough <=> exact /\ bounds + sum <= Spare BY <1>3
  <2> QED BY <2>2, <2>3 DEF exact
<1>6. /\ ReachOf("info") = from + Front + Header + info + 2 * unit
      /\ ReachOf("text") = ReachOf("info") + Header + text + granule + unit
  BY <1>3, <1>4 DEF ReachOf
<1>7. CASE AllocInfo
  <2>1. Alloc("info", Info, Unit, "text") /\ phase = "info" BY <1>7 DEF AllocInfo, Alloc
  <2> DEFINE reach == free + Header + info + unit + unit
  <2>2. /\ UNCHANGED <<file, heap>>
        /\ \/ phase' = "nomem" /\ to < reach
           \/ phase' = "text" /\ free' <= reach
    BY <2>1, AllocReaches, ConstantTypes DEF Names
  <2>3. free = from + Front BY <2>1 DEF ReachFits
  <2>4. phase' = "text" => (free <= ReachOf("info"))'
    <3>1. ReachOf("info")' = ReachOf("info") BY <2>2 DEF ReachOf
    <3>2. phase' = "text" => free' <= reach BY <2>2
    <3>3. reach = ReachOf("info")
      <4> HIDE DEF from, to, info, unit
      <4> QED BY <1>3, <1>4, <1>6, <2>3
    <3> QED BY <3>1, <3>2, <3>3
  <2>5. phase' = "nomem" => ~enough
    <3>1. phase' = "nomem" => to < reach BY <2>2
    <3> HIDE DEF from, to, info, unit, granule, counted, bounds, text, bytes, exact
    <3> QED BY <1>3, <1>4, <2>3, <3>1
  <2>6. HeapSuffices'
    <3>1. phase' = "nomem" => ~(AddsUp(file) /\ BoundsSize(file) + Overhead <= Spare) BY <1>5, <2>5
    <3> QED BY <2>2, <3>1 DEF HeapSuffices
  <2> QED BY <2>2, <2>4, <2>6 DEF ReachFits, BlocksSized, WellFormedLoads, Copying
<1>8. CASE AllocText
  <2>1. Alloc("text", text, Granule, "data") /\ phase = "text" BY <1>8 DEF AllocText, Alloc
  <2> DEFINE reach == free + Header + text + granule + unit
  <2>2. /\ UNCHANGED <<file, heap>>
        /\ \/ phase' = "nomem" /\ to < reach
           \/ /\ phase' = "data" /\ free' <= reach
              /\ blocks'["text"].from % Granule = 0
              /\ blocks'["text"].to = blocks'["text"].from + text
    BY <1>3, <2>1, AllocReaches, ConstantTypes DEF Names
  <2>3. free <= ReachOf("info") BY <2>1 DEF ReachFits
  <2>4. reach <= ReachOf("text")
    <3> HIDE DEF from, to, info, unit, granule, text
    <3> QED BY <1>3, <1>4, <1>6, <2>3
  <2>5. phase' = "data" => (free <= ReachOf("text"))'
    <3>1. ReachOf("text")' = ReachOf("text") BY <2>2 DEF ReachOf
    <3>2. phase' = "data" => free' <= reach BY <2>2
    <3>3. phase' = "data" => free' \in Nat
      BY ConstantTypes DEF LayoutInv, TypeOK
    <3>4. reach \in Int /\ ReachOf("text") \in Int
      <4> HIDE DEF from, to, info, unit, granule, text
      <4> QED BY <1>3, <1>4, <1>6
    <3> HIDE DEF reach
    <3> QED BY <2>4, <3>1, <3>2, <3>3, <3>4
  <2>6. phase' = "nomem" => ~enough
    <3>1. phase' = "nomem" => to < reach BY <2>2
    <3> HIDE DEF from, to, info, unit, granule, counted, bounds, text, bytes, exact
    <3> QED BY <1>3, <1>4, <1>6, <2>3, <3>1
  <2>7. HeapSuffices'
    <3>1. phase' = "nomem" => ~(AddsUp(file) /\ BoundsSize(file) + Overhead <= Spare) BY <1>5, <2>6
    <3> QED BY <2>2, <3>1 DEF HeapSuffices
  <2>8. phase' = "data" => Sized("text", TextSize(file))' BY <2>2 DEF Sized
  <2> QED BY <2>2, <2>5, <2>7, <2>8 DEF ReachFits, BlocksSized, WellFormedLoads, Copying
<1>9. CASE AllocData
  <2>1. Alloc("data", bytes, Granule, "copy") /\ phase = "data" BY <1>9 DEF AllocData, Alloc
  <2> DEFINE reach == free + Header + bytes + granule + unit
  <2>2. /\ UNCHANGED <<file, heap>>
        /\ \/ phase' = "nomem" /\ to < reach
           \/ /\ phase' = "copy" /\ free' <= reach
              /\ blocks'["data"].from % Granule = 0
              /\ blocks'["data"].to = blocks'["data"].from + bytes
              /\ blocks'["text"] = blocks["text"]
    BY <1>3, <2>1, AllocReaches, ConstantTypes DEF Names
  <2>3. free <= ReachOf("text") BY <2>1 DEF ReachFits
  <2>4. phase' = "nomem" => ~enough
    <3>1. phase' = "nomem" => to < reach BY <2>2
    <3> HIDE DEF from, to, info, unit, granule, counted, bounds, text, bytes, exact
    <3> QED BY <1>3, <1>4, <1>6, <2>3, <3>1
  <2>5. HeapSuffices'
    <3>1. phase' = "nomem" => ~(AddsUp(file) /\ BoundsSize(file) + Overhead <= Spare) BY <1>5, <2>4
    <3> QED BY <2>2, <3>1 DEF HeapSuffices
  <2>6. Sized("text", TextSize(file)) BY <2>1 DEF BlocksSized
  <2>7. phase' = "copy" => /\ Sized("text", TextSize(file))'
                           /\ Sized("data", DataSize(file))'
    BY <2>2, <2>6 DEF Sized
  <2> QED BY <2>2, <2>5, <2>7 DEF ReachFits, BlocksSized, WellFormedLoads, Copying
<1> QED BY <1>7, <1>8, <1>9

LEMMA RoomNext == RoomInv /\ [Next]_vars => RoomInv'
<1> SUFFICES ASSUME RoomInv, [Next]_vars PROVE RoomInv' OBVIOUS
<1>1. LayoutInv /\ LayoutInv' BY InvNext DEF RoomInv
<1>2. CASE AllocInfo \/ AllocText \/ AllocData BY <1>1, <1>2, RoomAlloc
<1>3. ASSUME UNCHANGED <<file, heap, blocks>>, phase \in Copying, phase' \in Copying,
             WellFormedLoads'
      PROVE RoomInv'
  <2>1. BlocksSized' BY <1>3 DEF RoomInv, BlocksSized, Sized, Copying
  <2>2. ReachFits' /\ HeapSuffices' BY <1>3 DEF ReachFits, HeapSuffices, Copying
  <2> QED BY <1>1, <1>3, <2>1, <2>2 DEF RoomInv
<1>4. CASE Pass
  BY <1>3, <1>4 DEF Pass, Copying, WellFormedLoads
<1>5. CASE Copy
  BY <1>3, <1>5 DEF Copy, Copying, WellFormedLoads
<1>6. CASE Refuse
  <2>1. k \in DOMAIN file
    <3>1. file \in Seq(Section) /\ k \in 1 .. Len(file) + 1 BY <1>1 DEF LayoutInv, TypeOK
    <3> QED BY <1>6, <3>1 DEF Refuse
  <2>2. ~(WellFormed(file) /\ AddsUp(file))
    BY <1>1, <1>6, <2>1, WellFormedAccepted DEF Refuse, RoomInv
  <2>3. WellFormedLoads' BY <1>6, <2>2 DEF Refuse, WellFormedLoads
  <2> QED BY <1>3, <1>6, <2>3 DEF Refuse, Copying
<1>7. CASE Link
  BY <1>3, <1>7 DEF Link, Copying, WellFormedLoads
<1>8. CASE UNCHANGED vars
  BY <1>1, <1>8 DEF vars, RoomInv, ReachFits, ReachOf, BlocksSized, Sized, HeapSuffices, WellFormedLoads
<1> QED BY <1>2, <1>4, <1>5, <1>6, <1>7, <1>8 DEF Next, Stopped

\* A heap of the size asked for has room for all that load() takes from it.
THEOREM HeapIsEnough == Spec => []HeapSuffices
<1>1. RoomInv => HeapSuffices BY DEF RoomInv
<1> QED BY <1>1, RoomInit, RoomNext, PTL DEF Spec

\* A module as a linker lays it out is never refused.
THEOREM WellFormedIsLoaded == Spec => []WellFormedLoads
<1>1. RoomInv => WellFormedLoads BY DEF RoomInv
<1> QED BY <1>1, RoomInit, RoomNext, PTL DEF Spec

-----------------------------------------------------------------------------
(* From the file *)

\* Whatever the file of a module, whole, cut short or damaged, what follows its parsing is
\* a behaviour of Layout, or the end.
THEOREM LoadImplementsLayout == LoadSpec => Spec
<1>1. LoadInit => Init
  <2> SUFFICES ASSUME LoadInit PROVE Init OBVIOUS
  <2>1. outcome = "good" => load(image) BY DEF LoadInit
  <2>2. file \in Files BY <2>1, ImagesAssumption DEF LoadInit, ImagesAssumption
  <2> QED BY <2>2 DEF LoadInit, Init
<1>2. [LoadNext]_<<vars, loadVars>> => [Next]_vars
  BY DEF LoadNext, Crash, vars
<1> QED BY <1>1, <1>2, PTL DEF LoadSpec, Spec

\* For every file, sections are written only inside their blocks.
THEOREM FilesContained == LoadSpec => []Contained
  BY LoadImplementsLayout, AlwaysContained, PTL

\* For every file, no section overwrites another or the trampolines.
THEOREM FilesOverwriteNothing == LoadSpec => []NothingOverwritten
  BY LoadImplementsLayout, NothingIsOverwritten, PTL

\* For every file, its heap suffices.
THEOREM FilesHaveRoom == LoadSpec => []HeapSuffices
  BY LoadImplementsLayout, HeapIsEnough, PTL

\* A file that a linker made, and that is whole, is not refused for where its sections go.
THEOREM WellFormedFilesLoad == LoadSpec => []WellFormedLoads
  BY LoadImplementsLayout, WellFormedIsLoaded, PTL
-----------------------------------------------------------------------------
(* What is read is what was built *)

LEMMA FieldNat ==
  ASSUME NEW img, NEW bytes \in Bytes4 PROVE Field(img, bytes) \in Nat
<1> DEFINE b == IF need_conversion(img.encoding) THEN [n \in 1 .. 4 |-> bytes[5 - n]] ELSE bytes
<1>1. b \in Bytes4
  <2>1. \A n \in 1 .. 4 : 5 - n \in 1 .. 4 OBVIOUS
  <2> QED BY <2>1 DEF Bytes4
<1> HIDE DEF b
<1>2. b[1] \in Nat /\ b[2] \in Nat /\ b[3] \in Nat /\ b[4] \in Nat BY <1>1 DEF Bytes4
<1>3. Field(img, bytes) = 256 * (256 * (256 * b[1] + b[2]) + b[3]) + b[4]
  BY DEF Field, Convert, b
<1> QED BY <1>2, <1>3

\* A header that is in the file, byte by byte the one stored.
LEMMA HeaderIsRaw ==
  ASSUME NEW img \in Images, NEW n \in DOMAIN img.sections, HeaderOf(img, n - 1) # Null
  PROVE LET raw == img.sections[n]
            h == HeaderOf(img, n - 1)
        IN /\ h.type = raw.type /\ h.alloc = raw.alloc /\ h.deflate = raw.deflate
           /\ h.nameAt = raw.nameAt /\ h.name = raw.name /\ h.stream = raw.stream
           /\ h.offset = Field(img, raw.offset) /\ h.size = Field(img, raw.size)
           /\ h.addr = Field(img, raw.addr) /\ h.align = Field(img, raw.align)
           /\ h.offset \in Nat /\ h.size \in Nat /\ h.addr \in Nat /\ h.align \in Nat
           /\ h.stream.made \in Nat /\ Field(img, h.stream.claim) \in Nat
           /\ h.deflate \in BOOLEAN /\ h.type \in DOMAIN Kinds /\ h.nameAt \in Nat
<1> DEFINE raw == img.sections[n]
           h == HeaderOf(img, n - 1)
<1>1. img.sections \in Seq(RawSection) BY BuiltAssumption DEF BuiltAssumption
<1>2. raw \in RawSection BY <1>1
<1>3. (n - 1) + 1 = n
  <2>1. n \in Nat BY <1>1
  <2> QED BY <2>1
<1>4. h = [raw EXCEPT !.offset = Field(img, raw.offset), !.size = Field(img, raw.size),
                      !.addr = Field(img, raw.addr), !.align = Field(img, raw.align)]
  BY <1>3 DEF HeaderOf
<1>5. /\ Field(img, raw.offset) \in Nat /\ Field(img, raw.size) \in Nat
      /\ Field(img, raw.addr) \in Nat /\ Field(img, raw.align) \in Nat
      /\ Field(img, raw.stream.claim) \in Nat
  BY <1>2, FieldNat DEF RawSection
<1> HIDE DEF raw, h
<1>6. /\ h.type = raw.type /\ h.alloc = raw.alloc /\ h.deflate = raw.deflate
      /\ h.nameAt = raw.nameAt /\ h.name = raw.name /\ h.stream = raw.stream
      /\ h.offset = Field(img, raw.offset) /\ h.size = Field(img, raw.size)
      /\ h.addr = Field(img, raw.addr) /\ h.align = Field(img, raw.align)
  BY <1>2, <1>4 DEF RawSection
<1>7. raw.stream.made \in Nat /\ raw.deflate \in BOOLEAN /\ raw.type \in DOMAIN Kinds /\ raw.nameAt \in Nat
  BY <1>2 DEF RawSection
<1> QED BY <1>5, <1>6, <1>7 DEF raw, h

\* What becomes of a section whose stream is sound, that there is the memory to inflate,
\* and that is not read from nowhere.
LEMMA SoundSection ==
  ASSUME NEW img \in Images, NEW n \in DOMAIN img.sections, HeaderOf(img, n - 1) # Null,
         Sound(img, HeaderOf(img, n - 1)), Memory(HeaderOf(img, n - 1)),
         ~Faults(img, HeaderOf(img, n - 1))
  PROVE LET h == HeaderOf(img, n - 1)
            sec == LoadedSection(img, n - 1)
        IN /\ sec.header = h
           /\ IF h.deflate /\ load_data(img, h)
                THEN sec.size = Field(img, h.stream.claim) /\ sec.data = "inflated"
                ELSE sec.size = h.size /\ sec.data = Stored(img, h)
<1> DEFINE h == HeaderOf(img, n - 1)
           stored == [header |-> h, size |-> h.size, data |-> Stored(img, h)]
<1>1. LoadedSection(img, n - 1) =
        IF load_data(img, h) /\ is_compressed(h) /\ ~Faults(img, h) /\ Inflates(img, h)
          THEN [stored EXCEPT !.size = Field(img, h.stream.claim), !.data = "inflated"]
          ELSE stored
  BY DEF LoadedSection
<1>2. h.stream.made \in Nat /\ h.deflate \in BOOLEAN BY HeaderIsRaw
<1>3. h.deflate => Inflates(img, h)
  <2> SUFFICES ASSUME h.deflate PROVE Inflates(img, h) OBVIOUS
  <2>1. h.stream.memory /\ h.stream.ok /\ h.stream.made = Field(img, h.stream.claim)
    BY DEF Sound, Memory
  <2> QED BY <1>2, <2>1 DEF Inflates
<1> HIDE DEF h
<1>4. CASE h.deflate /\ load_data(img, h)
  <2>1. LoadedSection(img, n - 1) =
          [stored EXCEPT !.size = Field(img, h.stream.claim), !.data = "inflated"]
    BY <1>1, <1>3, <1>4 DEF is_compressed, h
  <2> QED BY <1>4, <2>1 DEF h
<1>5. CASE ~(h.deflate /\ load_data(img, h))
  <2>1. LoadedSection(img, n - 1) = stored BY <1>1, <1>5 DEF is_compressed, h
  <2> QED BY <1>5, <2>1 DEF h
<1> QED BY <1>4, <1>5 DEF h

LEMMA SectionsAre ==
  ASSUME NEW img, EntriesFit(img)
  PROVE /\ DOMAIN LoadedSections(img) = DOMAIN img.sections
        /\ DOMAIN SectionsOf(img) = DOMAIN img.sections
        /\ \A n \in DOMAIN img.sections :
             LET sec == LoadedSection(img, n - 1)
             IN /\ LoadedSections(img)[n] = sec
                /\ SectionsOf(img)[n] =
                     [kind |-> Kinds[sec.header.type], alloc |-> sec.header.alloc,
                      bounds |-> NameOf(img, LoadedSections(img), n) = ".wut_load_bounds",
                      va |-> sec.header.addr, size |-> sec.size, align |-> sec.header.align]
<1> DEFINE secs == LoadedSections(img)
<1>1. secs = [n \in DOMAIN img.sections |-> LoadedSection(img, n - 1)] BY DEF LoadedSections
<1>2. DOMAIN secs = DOMAIN img.sections BY <1>1
<1>3. ASSUME NEW n \in DOMAIN img.sections PROVE secs[n] = LoadedSection(img, n - 1) BY <1>1
<1> HIDE DEF secs
<1>4. SectionsOf(img) = [n \in DOMAIN secs |->
         [kind |-> Kinds[secs[n].header.type], alloc |-> secs[n].header.alloc,
          bounds |-> NameOf(img, secs, n) = ".wut_load_bounds",
          va |-> secs[n].header.addr, size |-> secs[n].size, align |-> secs[n].header.align]]
  BY DEF SectionsOf, secs
<1> QED BY <1>2, <1>3, <1>4 DEF secs

LEMMA FaultsNowhere ==
  ASSUME NEW img, EntriesFit(img), ~ReadFaults(img), NEW n \in DOMAIN img.sections
  PROVE ~Faults(img, HeaderOf(img, n - 1))
  BY DEF ReadFaults

\* In a whole file every section has its data, and is as large as it was built.
LEMMA WholeSection ==
  ASSUME NEW img \in Images, Whole(img), NEW n \in DOMAIN img.sections
  PROVE LET raw == img.sections[n]
            sec == LoadedSection(img, n - 1)
            asked == img.built[n]
        IN /\ ~Faults(img, HeaderOf(img, n - 1))
           /\ sec.header.type = raw.type /\ sec.header.name = raw.name
           /\ sec.header.deflate = raw.deflate /\ sec.header.nameAt = raw.nameAt
           /\ raw.type \notin {"null", "nobits"} =>
                sec.data = IF raw.deflate THEN "inflated" ELSE "stored"
           /\ Kinds[sec.header.type] = asked.kind /\ sec.header.alloc = asked.alloc
           /\ sec.header.addr = asked.va /\ sec.header.align = asked.align
           /\ sec.size = asked.size
           /\ (raw.name = ".wut_load_bounds") = asked.bounds
<1> DEFINE raw == img.sections[n]
           h == HeaderOf(img, n - 1)
           sec == LoadedSection(img, n - 1)
           asked == img.built[n]
<1>1. /\ load(img) /\ h # Null /\ Sound(img, h) /\ Memory(h)
      /\ IF h.type \in {"null", "nobits"} THEN ~h.deflate ELSE Stored(img, h) = "stored"
  BY DEF Whole
<1>2. h.type \notin {"null", "nobits"} => load_data(img, h)
  BY <1>1 DEF Stored
<1>3. ~Faults(img, h) BY <1>1 DEF Faults, is_compressed
<1>4. /\ sec.header = h
      /\ IF h.deflate /\ load_data(img, h)
           THEN sec.size = Field(img, h.stream.claim) /\ sec.data = "inflated"
           ELSE sec.size = h.size /\ sec.data = Stored(img, h)
  BY <1>1, <1>3, SoundSection
<1>5. /\ h.type = raw.type /\ h.alloc = raw.alloc /\ h.deflate = raw.deflate
      /\ h.nameAt = raw.nameAt /\ h.name = raw.name /\ h.stream = raw.stream
      /\ h.size = Field(img, raw.size)
      /\ h.addr = Field(img, raw.addr) /\ h.align = Field(img, raw.align)
  BY <1>1, HeaderIsRaw
<1>6. ~Damaged(raw) BY <1>1, <1>5 DEF Damaged
<1>7. Describes(img, raw, asked) BY <1>1, <1>6, BuiltAssumption DEF BuiltAssumption
<1>8. h.deflate => load_data(img, h) BY <1>1, <1>2
<1>9. sec.size = asked.size
  <2> HIDE DEF h, raw, sec, asked
  <2> QED BY <1>4, <1>5, <1>7, <1>8 DEF Describes
<1>10. h.type \notin {"null", "nobits"} =>
         sec.data = IF h.deflate THEN "inflated" ELSE "stored"
  <2> HIDE DEF h, sec
  <2> QED BY <1>1, <1>2, <1>4 DEF h
<1> HIDE DEF h, raw, sec, asked
<1>11. /\ Kinds[sec.header.type] = asked.kind /\ sec.header.alloc = asked.alloc
       /\ sec.header.addr = asked.va /\ sec.header.align = asked.align
       /\ (raw.name = ".wut_load_bounds") = asked.bounds
  BY <1>4, <1>5, <1>7 DEF Describes
<1> QED BY <1>3, <1>4, <1>5, <1>9, <1>10, <1>11 DEF h, raw, sec, asked

LEMMA WholeAsBuilt ==
  ASSUME NEW img \in Images, Whole(img)
  PROVE ~ReadFaults(img) /\ SectionsOf(img) = img.built
<1> DEFINE secs == LoadedSections(img)
           last == Len(img.sections)
<1>1. /\ load(img) /\ EntriesFit(img) /\ img.shstrndx = Len(img.sections) - 1 BY DEF Whole
<1>2. /\ img.sections \in Seq(RawSection) /\ Len(img.sections) > 1
      /\ img.built \in Seq(Section) /\ Len(img.built) = Len(img.sections)
      /\ img.sections[last].type = "strtab"
      /\ \A n \in DOMAIN img.sections : img.sections[n].nameAt < img.built[last].size
  BY <1>1, BuiltAssumption DEF BuiltAssumption
<1>3. DOMAIN img.sections = 1 .. last /\ DOMAIN img.built = 1 .. last /\ last \in Nat
  BY <1>2
<1>4. ~ReadFaults(img) BY WholeSection DEF ReadFaults
<1>5. ASSUME NEW n \in DOMAIN img.sections
      PROVE NameOf(img, secs, n) = img.sections[n].name
  <2> DEFINE table == secs[img.shstrndx + 1]
  <2>1. last \in DOMAIN img.sections BY <1>2, <1>3
  <2>2. img.shstrndx + 1 = last /\ img.shstrndx \in 1 .. last - 1 BY <1>1, <1>2, <1>3
  <2>3. table = LoadedSection(img, last - 1) BY <1>1, <2>1, <2>2, SectionsAre
  <2>4. /\ table.data = IF img.sections[last].deflate THEN "inflated" ELSE "stored"
        /\ table.size = img.built[last].size
        /\ table.header.deflate = img.sections[last].deflate
    <3> DEFINE sec == LoadedSection(img, last - 1)
               raw == img.sections[last]
    <3>1. raw.type \notin {"null", "nobits"} BY <1>2
    <3>2. /\ sec.header.deflate = raw.deflate /\ sec.size = img.built[last].size
          /\ raw.type \notin {"null", "nobits"} =>
               sec.data = IF raw.deflate THEN "inflated" ELSE "stored"
      BY <2>1, WholeSection
    <3> HIDE DEF sec, raw, table
    <3> QED BY <2>3, <3>1, <3>2 DEF sec, raw
  <2>5. /\ secs[n].header.nameAt = img.sections[n].nameAt
        /\ secs[n].header.name = img.sections[n].name
    <3>1. secs[n] = LoadedSection(img, n - 1) BY <1>1, SectionsAre
    <3>2. /\ LoadedSection(img, n - 1).header.nameAt = img.sections[n].nameAt
          /\ LoadedSection(img, n - 1).header.name = img.sections[n].name
      BY WholeSection
    <3> HIDE DEF secs
    <3> QED BY <3>1, <3>2
  <2>6. Len(secs) = last
    <3>1. DOMAIN secs = 1 .. last /\ last \in Nat BY <1>1, <1>3, SectionsAre
    <3>2. secs = [m \in 1 .. last |-> secs[m]]
      <4>1. secs = [m \in DOMAIN img.sections |-> LoadedSection(img, m - 1)]
        BY <1>1 DEF LoadedSections
      <4> QED BY <1>3, <4>1
    <3> HIDE DEF secs, last
    <3> QED BY <3>1, <3>2
  <2>7. img.sections[n].nameAt < table.size BY <1>2, <2>4
  <2> HIDE DEF table
  <2>8. HasString(table, secs[n].header.nameAt) BY <2>4, <2>5, <2>7 DEF HasString
  <2> QED BY <2>2, <2>4, <2>5, <2>6, <2>8 DEF NameOf, is_compressed, table
<1>6. ASSUME NEW n \in DOMAIN img.sections PROVE SectionsOf(img)[n] = img.built[n]
  <2> DEFINE sec == LoadedSection(img, n - 1)
             asked == img.built[n]
  <2>1. SectionsOf(img)[n] =
          [kind |-> Kinds[sec.header.type], alloc |-> sec.header.alloc,
           bounds |-> NameOf(img, secs, n) = ".wut_load_bounds",
           va |-> sec.header.addr, size |-> sec.size, align |-> sec.header.align]
    BY <1>1, SectionsAre
  <2>2. /\ Kinds[sec.header.type] = asked.kind /\ sec.header.alloc = asked.alloc
        /\ sec.header.addr = asked.va /\ sec.header.align = asked.align
        /\ sec.size = asked.size
        /\ (img.sections[n].name = ".wut_load_bounds") = asked.bounds
    BY WholeSection
  <2>3. asked \in Section BY <1>2, <1>3
  <2>4. asked = [kind |-> asked.kind, alloc |-> asked.alloc, bounds |-> asked.bounds,
                 va |-> asked.va, size |-> asked.size, align |-> asked.align]
    BY <2>3 DEF Section
  <2> HIDE DEF sec, asked, secs
  <2>5. (NameOf(img, secs, n) = ".wut_load_bounds") = asked.bounds BY <1>5, <2>2
  <2> QED BY <2>1, <2>2, <2>4, <2>5 DEF asked
<1>7. DOMAIN SectionsOf(img) = 1 .. last BY <1>1, <1>3, SectionsAre
<1>8. SectionsOf(img) = [n \in 1 .. last |-> SectionsOf(img)[n]]
  <2>1. SectionsOf(img) = [n \in DOMAIN SectionsOf(img) |-> SectionsOf(img)[n]]
    BY DEF SectionsOf
  <2> QED BY <1>7, <2>1
<1>9. img.built = [n \in 1 .. last |-> img.built[n]] BY <1>2, <1>3
<1>10. SectionsOf(img) = img.built
  <2> HIDE DEF last
  <2> QED BY <1>3, <1>6, <1>8, <1>9
<1> QED BY <1>4, <1>10

LEMMA LoadInvInit == LoadInit => LoadInv
<1> SUFFICES ASSUME LoadInit PROVE LoadInv OBVIOUS
<1>1. image \in Images /\ placed = {} BY DEF LoadInit, Begin
<1>2. load(image) => HeaderLoads(image) BY DEF load
<1>3. CASE load(image) /\ ~ReadFaults(image)
  <2>1. outcome = "good" BY <1>3 DEF LoadInit
  <2> QED BY <1>1, <1>3, <2>1 DEF LoadInit, LoadInv, Parsed
<1>4. CASE ~(load(image) /\ ~ReadFaults(image))
  <2>1. outcome # "good" BY <1>2, <1>4 DEF LoadInit
  <2> QED BY <1>1, <1>4, <2>1 DEF LoadInv
<1> QED BY <1>3, <1>4

LEMMA LoadInvNext ==
  LayoutInv /\ LoadInv /\ [LoadNext]_<<vars, loadVars>> => LoadInv'
<1> SUFFICES ASSUME LayoutInv, LoadInv, [LoadNext]_<<vars, loadVars>> PROVE LoadInv'
  OBVIOUS
<1>1. CASE Crash
  <2>1. load(image) /\ ~ReadFaults(image) BY <1>1 DEF Crash, LoadInv
  <2>2. UNCHANGED <<image, data, phase, file, k, blocks, placed>> BY <1>1 DEF Crash, vars
  <2>3. CopiesNothing' /\ outcome' = "crash"
    BY <1>1, <2>2 DEF Crash, CopiesNothing, Refused, Outside, Misaligned, Destination, Block
  <2> QED BY <2>1, <2>2, <2>3 DEF LoadInv, Parsed
<1>2. CASE outcome = "good" /\ ~CopiesNothing /\ Next /\ UNCHANGED loadVars
  <2>1. load(image) /\ ~ReadFaults(image) /\ Parsed BY <1>2 DEF LoadInv
  <2>2. UNCHANGED <<image, data, outcome, file>>
    BY <1>2 DEF loadVars, Next, AllocInfo, AllocText, AllocData, Alloc, Pass, Copy, Refuse, Link,
                Stopped, vars
  <2>3. ASSUME NEW p \in placed', p \notin placed
        PROVE file[p.sec].kind = "progbits" /\ file[p.sec].size > 0 => data[p.sec] # "none"
    <3>1. Copy
      BY <1>2, <2>3 DEF Next, AllocInfo, AllocText, AllocData, Alloc, Pass, Refuse, Link, Stopped, vars
    <3>2. p.sec = k BY <2>3, <3>1 DEF Copy
    <3>3. /\ phase = "copy" /\ k <= Len(file) /\ Copied(file[k]) /\ ~Refused(file[k])
      BY <3>1 DEF Copy
    <3> QED BY <1>2, <3>2, <3>3 DEF CopiesNothing
  <2> QED BY <1>2, <2>1, <2>2, <2>3 DEF LoadInv, Parsed
<1>3. CASE UNCHANGED <<vars, loadVars>>
  BY <1>3 DEF vars, loadVars, LoadInv, Parsed, CopiesNothing, Refused, Outside, Misaligned,
              Destination, Block
<1> QED BY <1>1, <1>2, <1>3 DEF LoadNext

LEMMA LoadInvHolds == LoadSpec => [](LayoutInv /\ LoadInv)
<1>1. LoadSpec => []LayoutInv BY LoadImplementsLayout, Invariance, PTL
<1> QED BY <1>1, LoadInvInit, LoadInvNext, PTL DEF LoadSpec

LEMMA KindsOne == \A t \in DOMAIN Kinds : Kinds[t] = "progbits" <=> t = "progbits"
  BY DEF Kinds

\* A section that was copied, of a file that may be cut short.
LEMMA CopiedAsBuilt ==
  ASSUME LayoutInv, LoadInv, NEW p \in placed,
         Sound(image, HeaderOf(image, p.sec - 1)), Memory(HeaderOf(image, p.sec - 1)),
         HeaderOf(image, p.sec - 1).type = "progbits",
         image.built[p.sec].size > 0
  PROVE LET asked == image.built[p.sec]
            h == HeaderOf(image, p.sec - 1)
        IN /\ p.to - p.from = asked.size /\ file[p.sec].va = asked.va
           /\ data[p.sec] = IF h.deflate THEN "inflated" ELSE "stored"
           /\ h.offset + h.size <= image.size
<1> DEFINE n == p.sec
           raw == image.sections[n]
           asked == image.built[n]
           h == HeaderOf(image, n - 1)
           sec == LoadedSection(image, n - 1)
           s == file[n]
<1>1. /\ image \in Images /\ load(image) /\ ~ReadFaults(image) /\ file = SectionsOf(image)
      /\ data = [m \in DOMAIN LoadedSections(image) |-> LoadedSections(image)[m].data]
      /\ s.kind = "progbits" /\ s.size > 0 => data[n] # "none"
  BY DEF LoadInv, Parsed
<1>2. n \in DOMAIN file
  BY DEF LayoutInv, TypeOK
<1>3. EntriesFit(image)
  <2> SUFFICES ASSUME ~EntriesFit(image) PROVE FALSE OBVIOUS
  <2>1. LoadedSections(image) = <<>> BY DEF LoadedSections
  <2>2. DOMAIN SectionsOf(image) = {} BY <2>1 DEF SectionsOf
  <2> QED BY <1>1, <1>2, <2>2
<1>4. n \in DOMAIN image.sections BY <1>1, <1>2, <1>3, SectionsAre
<1>5. h # Null
  <2>1. Null.type = "null" /\ h.type = "progbits" BY DEF Null
  <2> HIDE DEF h
  <2> QED BY <2>1
<1>6. ~Faults(image, h) BY <1>1, <1>3, <1>4, FaultsNowhere
<1>7. /\ sec.header = h
      /\ IF h.deflate /\ load_data(image, h)
           THEN sec.size = Field(image, h.stream.claim) /\ sec.data = "inflated"
           ELSE sec.size = h.size /\ sec.data = Stored(image, h)
  BY <1>1, <1>4, <1>5, <1>6, SoundSection
<1>8. /\ h.type = raw.type /\ h.deflate = raw.deflate /\ h.stream = raw.stream
      /\ h.size = Field(image, raw.size) /\ h.addr = Field(image, raw.addr)
      /\ h.offset \in Nat /\ h.size \in Nat
  BY <1>1, <1>4, <1>5, HeaderIsRaw
<1>9. Describes(image, raw, asked)
  <2>1. ~Damaged(raw) BY <1>8 DEF Damaged
  <2> QED BY <1>1, <1>4, <2>1, BuiltAssumption DEF BuiltAssumption
<1>10. /\ asked.va = h.addr
       /\ asked.size = IF h.deflate THEN Field(image, h.stream.claim) ELSE h.size
       /\ h.deflate => h.size > 0
  <2> HIDE DEF h, raw, asked
  <2> QED BY <1>8, <1>9 DEF Describes
<1>11. /\ LoadedSections(image)[n] = sec
       /\ s.kind = Kinds[sec.header.type] /\ s.va = sec.header.addr /\ s.size = sec.size
  <2>1. LoadedSections(image)[n] = sec BY <1>3, <1>4, SectionsAre
  <2>2. s = [kind |-> Kinds[sec.header.type], alloc |-> sec.header.alloc,
             bounds |-> NameOf(image, LoadedSections(image), n) = ".wut_load_bounds",
             va |-> sec.header.addr, size |-> sec.size, align |-> sec.header.align]
    BY <1>1, <1>3, <1>4, SectionsAre
  <2> HIDE DEF s, sec
  <2> QED BY <2>1, <2>2
<1>12. data[n] = sec.data
  <2>1. n \in DOMAIN LoadedSections(image) BY <1>3, <1>4, SectionsAre
  <2> QED BY <1>1, <1>11, <2>1
<1>13. s.kind = "progbits" BY <1>7, <1>11 DEF Kinds
<1>14. p.to - p.from = s.size
  <2>1. s.size \in Nat /\ p.from \in Nat /\ p.to = p.from + s.size BY PlacedRight
  <2> HIDE DEF s
  <2> QED BY <2>1
<1>15. image.size \in Nat BY <1>1, BuiltAssumption DEF BuiltAssumption
<1>16. h.size > 0
  <2>1. CASE h.deflate BY <1>10, <2>1
  <2>2. CASE ~h.deflate
    <3>1. asked.size > 0 OBVIOUS
    <3> HIDE DEF asked, h
    <3> QED BY <1>10, <2>2, <3>1
  <2> QED BY <2>1, <2>2
<1>17. load_data(image, h) /\ HasData(image, h)
  <2> SUFFICES ASSUME ~(load_data(image, h) /\ HasData(image, h)) PROVE FALSE OBVIOUS
  <2>1. ~(h.deflate /\ load_data(image, h))
    <3> SUFFICES ASSUME h.deflate, load_data(image, h) PROVE FALSE OBVIOUS
    <3>1. Stored(image, h) = "none" BY DEF Stored
    <3> QED BY <1>6, <3>1 DEF Faults, is_compressed
  <2>2. sec.data = "none" /\ sec.size = h.size
    <3> HIDE DEF h, sec
    <3> QED BY <1>7, <2>1 DEF Stored
  <2> QED BY <1>1, <1>11, <1>12, <1>13, <1>16, <2>2
<1>18. InFile(image, h) BY <1>16, <1>17 DEF load_data
<1>19. Stored(image, h) = "stored" BY <1>17 DEF Stored
<1> HIDE DEF h, raw, sec, s, asked
<1>20. sec.size = asked.size /\ data[n] = IF h.deflate THEN "inflated" ELSE "stored"
  BY <1>7, <1>10, <1>12, <1>17, <1>19
<1>21. h.offset + h.size <= image.size BY <1>18 DEF InFile
<1> QED BY <1>7, <1>10, <1>11, <1>14, <1>20, <1>21 DEF h, s, asked

LEMMA InvSectionsAsBuilt == LayoutInv /\ LoadInv => SectionsAsBuilt
<1> SUFFICES ASSUME LayoutInv, LoadInv PROVE SectionsAsBuilt OBVIOUS
<1>1. image \in Images BY DEF LoadInv
<1>2. ASSUME Whole(image) PROVE outcome = "good" /\ file = image.built
  <2>1. load(image) /\ EntriesFit(image) BY <1>2 DEF Whole
  <2>2. ~ReadFaults(image) /\ SectionsOf(image) = image.built BY <1>1, <1>2, WholeAsBuilt
  <2>3. Parsed /\ (outcome = "good" \/ (outcome = "crash" /\ CopiesNothing))
    BY <2>1, <2>2 DEF LoadInv
  <2>4. ~CopiesNothing
    <3> SUFFICES ASSUME CopiesNothing PROVE FALSE OBVIOUS
    <3> DEFINE sec == LoadedSection(image, k - 1)
               raw == image.sections[k]
    <3>1. k <= Len(file) /\ file[k].kind = "progbits" /\ data[k] = "none"
      BY DEF CopiesNothing
    <3>2. k \in DOMAIN file BY <3>1 DEF LayoutInv, TypeOK
    <3>3. k \in DOMAIN image.sections BY <2>1, <2>3, <3>2, SectionsAre DEF Parsed
    <3>4. /\ sec.header.type = raw.type
          /\ raw.type \notin {"null", "nobits"} =>
               sec.data = IF raw.deflate THEN "inflated" ELSE "stored"
      BY <1>1, <1>2, <3>3, WholeSection
    <3>5. file[k].kind = Kinds[sec.header.type] /\ LoadedSections(image)[k] = sec
      <4>1. LoadedSections(image)[k] = sec BY <2>1, <3>3, SectionsAre
      <4>2. file[k] = [kind |-> Kinds[sec.header.type], alloc |-> sec.header.alloc,
                       bounds |-> NameOf(image, LoadedSections(image), k) = ".wut_load_bounds",
                       va |-> sec.header.addr, size |-> sec.size, align |-> sec.header.align]
        BY <2>1, <2>3, <3>3, SectionsAre DEF Parsed
      <4> HIDE DEF sec
      <4> QED BY <4>1, <4>2
    <3>6. data[k] = sec.data
      <4>1. k \in DOMAIN LoadedSections(image) BY <2>1, <3>3, SectionsAre
      <4> QED BY <2>3, <3>5, <4>1 DEF Parsed
    <3>7. raw.type \in DOMAIN Kinds
      <4>1. image.sections \in Seq(RawSection) BY <1>1, BuiltAssumption DEF BuiltAssumption
      <4>2. raw \in RawSection BY <3>3, <4>1
      <4> HIDE DEF raw
      <4> QED BY <4>2 DEF RawSection
    <3>8. raw.type = "progbits"
      <4> HIDE DEF sec, raw
      <4> QED BY <3>1, <3>4, <3>5, <3>7, KindsOne
    <3> HIDE DEF sec, raw
    <3> QED BY <3>1, <3>4, <3>6, <3>8
  <2> QED BY <2>2, <2>3, <2>4 DEF Parsed
<1> QED BY <1>2, CopiedAsBuilt DEF SectionsAsBuilt

\* Of every file, whole, cut short or damaged, no section is copied compressed or in part
\* unless its own stream is bad or there was no memory to inflate it, and of a whole one,
\* read with memory for all of it, every section is as it was built.
THEOREM FilesAsBuilt == LoadSpec => []SectionsAsBuilt
  BY LoadInvHolds, InvSectionsAsBuilt, PTL

=============================================================================

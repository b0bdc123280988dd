---------------------------- MODULE FolderProofs ----------------------------
(***************************************************************************)
(* Proofs about Folder: names are ordered by strcasecmp, SortList puts a   *)
(* list in that order, and DirList lists what was asked for.               *)
(***************************************************************************)
EXTENDS Folder, Counting, FiniteSetTheorems, SequenceTheorems

\* FileNames as C strings: no character is 0.
Chars == Nat \ {0}

Strings == Seq(Chars)

-----------------------------------------------------------------------------
(* The order of strcasecmp *)

\* What strcasecmp looks at, up to the terminator.
Bytes(s) == Append(Lower(s), 0)

LEMMA LowerIs ==
  ASSUME NEW s \in Strings
  PROVE  /\ Lower(s) \in Strings /\ Len(Lower(s)) = Len(s)
         /\ \A k \in 1 .. Len(s) : Lower(s)[k] = ToLower(s[k]) /\ s[k] \in Chars
<1>1. \A k \in 1 .. Len(s) : s[k] \in Chars /\ ToLower(s[k]) \in Chars
  BY DEF Strings, Chars, ToLower
<1>2. Lower(s) = [k \in 1 .. Len(s) |-> ToLower(s[k])]
  BY DEF Lower, Strings
<1>3. Lower(s) \in [1 .. Len(s) -> Chars]
  BY <1>1, <1>2
<1>4. Len(s) \in Nat
  BY DEF Strings
<1>5. Lower(s) \in Seq(Chars)
  BY <1>3, <1>4
<1>6. Len(Lower(s)) = Len(s)
  BY <1>3, <1>4, <1>5
<1> QED BY <1>1, <1>2, <1>5, <1>6 DEF Strings

LEMMA BytesIs ==
  ASSUME NEW s \in Strings
  PROVE  /\ Len(s) \in Nat /\ DOMAIN Bytes(s) = 1 .. Len(s) + 1
         /\ \A k \in 1 .. Len(s) : Bytes(s)[k] = ToLower(s[k]) /\ Bytes(s)[k] \in Chars
         /\ Bytes(s)[Len(s) + 1] = 0
         /\ \A k \in 1 .. Len(s) + 1 : Bytes(s)[k] \in Nat
<1>1. Lower(s) \in Seq(Nat) /\ Len(Lower(s)) = Len(s) /\ Len(s) \in Nat
  BY LowerIs DEF Strings, Chars
<1>2. /\ DOMAIN Bytes(s) = 1 .. Len(s) + 1
      /\ \A k \in 1 .. Len(s) : Bytes(s)[k] = Lower(s)[k]
      /\ Bytes(s)[Len(s) + 1] = 0
  BY <1>1 DEF Bytes
<1>3. \A k \in 1 .. Len(s) : Lower(s)[k] \in Chars /\ Lower(s)[k] = ToLower(s[k])
  BY LowerIs, <1>1 DEF Strings
<1> QED BY <1>1, <1>2, <1>3 DEF Chars

\* a is greater at k, the first place where they differ.
Differs(a, b, k) ==
  /\ k \in DOMAIN Bytes(a) \cap DOMAIN Bytes(b)
  /\ Bytes(a)[k] > Bytes(b)[k] /\ \A j \in 1 .. k - 1 : Bytes(a)[j] = Bytes(b)[j]

LEMMA GreaterIs ==
  ASSUME NEW a, NEW b
  PROVE  Greater(a, b) <=> \E k : Differs(a, b, k)
BY DEF Greater, Bytes, Differs

LEMMA GreaterNotSelf == ASSUME NEW a \in Strings PROVE ~Greater(a, a)
BY BytesIs, GreaterIs DEF Differs

LEMMA GreaterTransitive ==
  ASSUME NEW a \in Strings, NEW b \in Strings, NEW c \in Strings, Greater(a, b), Greater(b, c)
  PROVE  Greater(a, c)
<1>1. PICK k : Differs(a, b, k)
  BY GreaterIs
<1>2. PICK l : Differs(b, c, l)
  BY GreaterIs
<1>3. /\ k \in 1 .. Len(a) + 1 /\ k \in 1 .. Len(b) + 1 /\ l \in 1 .. Len(b) + 1
      /\ l \in 1 .. Len(c) + 1
      /\ Len(a) \in Nat /\ Len(b) \in Nat /\ Len(c) \in Nat
      /\ DOMAIN Bytes(a) = 1 .. Len(a) + 1 /\ DOMAIN Bytes(c) = 1 .. Len(c) + 1
      /\ \A j \in 1 .. Len(a) + 1 : Bytes(a)[j] \in Nat
      /\ \A j \in 1 .. Len(b) + 1 : Bytes(b)[j] \in Nat
      /\ \A j \in 1 .. Len(c) + 1 : Bytes(c)[j] \in Nat
  BY <1>1, <1>2, BytesIs DEF Differs
<1>4. /\ Bytes(a)[k] > Bytes(b)[k] /\ \A j \in 1 .. k - 1 : Bytes(a)[j] = Bytes(b)[j]
      /\ Bytes(b)[l] > Bytes(c)[l] /\ \A j \in 1 .. l - 1 : Bytes(b)[j] = Bytes(c)[j]
  BY <1>1, <1>2 DEF Differs
<1>5. CASE k < l
  <2>1. Differs(a, c, k)
    BY <1>3, <1>4, <1>5 DEF Differs
  <2> QED BY <2>1, GreaterIs
<1>6. CASE k = l
  <2>1. Bytes(a)[k] > Bytes(c)[k]
    BY <1>3, <1>4, <1>6
  <2>2. Differs(a, c, k)
    BY <1>3, <1>4, <1>6, <2>1 DEF Differs
  <2> QED BY <2>2, GreaterIs
<1>7. CASE l < k
  <2>1. Differs(a, c, l)
    BY <1>3, <1>4, <1>7 DEF Differs
  <2> QED BY <2>1, GreaterIs
<1> QED BY <1>3, <1>5, <1>6, <1>7

\* Of two names that differ in more than case, one is greater.
LEMMA GreaterTotal ==
  ASSUME NEW a \in Strings, NEW b \in Strings, ~SameIgnoringCase(a, b)
  PROVE  Greater(a, b) \/ Greater(b, a)
<1> DEFINE D == {k \in Nat : k \in 1 .. Len(a) + 1 /\ k \in 1 .. Len(b) + 1
                            /\ Bytes(a)[k] # Bytes(b)[k]}
<1>1. /\ Len(a) \in Nat /\ Len(b) \in Nat
      /\ DOMAIN Bytes(a) = 1 .. Len(a) + 1 /\ DOMAIN Bytes(b) = 1 .. Len(b) + 1
      /\ \A j \in 1 .. Len(a) + 1 : Bytes(a)[j] \in Nat
      /\ \A j \in 1 .. Len(b) + 1 : Bytes(b)[j] \in Nat
  BY BytesIs
<1>2. D # {}
  <2> SUFFICES ASSUME D = {} PROVE FALSE
    OBVIOUS
  <2>1. \A k \in 1 .. Len(a) + 1 : k \in 1 .. Len(b) + 1 => Bytes(a)[k] = Bytes(b)[k]
    BY <1>1
  <2>2. Len(a) = Len(b)
    <3>1. Bytes(a)[Len(a) + 1] = 0 /\ Bytes(b)[Len(b) + 1] = 0
      BY BytesIs
    <3>2. \A k \in 1 .. Len(a) : Bytes(a)[k] # 0
      BY BytesIs DEF Chars
    <3>3. \A k \in 1 .. Len(b) : Bytes(b)[k] # 0
      BY BytesIs DEF Chars
    <3>4. CASE Len(a) < Len(b)
      <4>1. Len(a) + 1 \in 1 .. Len(b) /\ Len(a) + 1 \in 1 .. Len(a) + 1
            /\ Len(a) + 1 \in 1 .. Len(b) + 1
        BY <1>1, <3>4
      <4> QED BY <2>1, <3>1, <3>3, <4>1
    <3>5. CASE Len(b) < Len(a)
      <4>1. Len(b) + 1 \in 1 .. Len(a) /\ Len(b) + 1 \in 1 .. Len(a) + 1
            /\ Len(b) + 1 \in 1 .. Len(b) + 1
        BY <1>1, <3>5
      <4> QED BY <2>1, <3>1, <3>2, <4>1
    <3> QED BY <1>1, <3>4, <3>5
  <2>3. \A k \in 1 .. Len(a) : ToLower(a[k]) = ToLower(b[k])
    <3> TAKE k \in 1 .. Len(a)
    <3>1. k \in 1 .. Len(a) + 1 /\ k \in 1 .. Len(b) + 1 /\ k \in 1 .. Len(b)
      BY <1>1, <2>2
    <3>2. Bytes(a)[k] = ToLower(a[k]) /\ Bytes(b)[k] = ToLower(b[k])
      BY <3>1, BytesIs
    <3> QED BY <2>1, <3>1, <3>2
  <2>4. Lower(a) = [k \in 1 .. Len(a) |-> ToLower(a[k])]
        /\ Lower(b) = [k \in 1 .. Len(b) |-> ToLower(b[k])]
    BY DEF Lower, Strings
  <2> QED BY <2>2, <2>3, <2>4 DEF SameIgnoringCase
<1>3. PICK m \in D : \A n \in D : m <= n
  BY <1>2, Least
<1>4. \A j \in 1 .. m - 1 : Bytes(a)[j] = Bytes(b)[j]
  <2> TAKE j \in 1 .. m - 1
  <2>1. j \in Nat /\ j < m /\ j \in 1 .. Len(a) + 1 /\ j \in 1 .. Len(b) + 1
    BY <1>1, <1>3
  <2> QED BY <1>3, <2>1
<1>5. m \in 1 .. Len(a) + 1 /\ m \in 1 .. Len(b) + 1 /\ Bytes(a)[m] \in Nat /\ Bytes(b)[m] \in Nat
      /\ Bytes(a)[m] # Bytes(b)[m]
  BY <1>1, <1>3
<1> HIDE DEF D
<1>6. Differs(a, b, m) \/ Differs(b, a, m)
  BY <1>1, <1>4, <1>5 DEF Differs
<1> QED BY <1>6, GreaterIs

-----------------------------------------------------------------------------
(* SortList *)

\* Each of 1 .. n comes after those of its set: all but itself, and in one order.
Ordering(n, B) ==
  /\ B \in [1 .. n -> SUBSET (1 .. n)]
  /\ \A k \in 1 .. n : k \notin B[k]
  /\ \A j, k \in 1 .. n : j # k => j \in B[k] \/ k \in B[j]
  /\ \A j, k \in 1 .. n : j \in B[k] => B[j] \subseteq B[k]

\* One has less before it exactly when it comes before.
LEMMA FewerBefore ==
  ASSUME NEW n \in Nat, NEW B, Ordering(n, B), NEW j \in 1 .. n, NEW k \in 1 .. n
  PROVE  /\ Cardinality(B[k]) \in 0 .. n - 1
         /\ j \in B[k] <=> Cardinality(B[j]) < Cardinality(B[k])
         /\ j # k => Cardinality(B[j]) # Cardinality(B[k])
<1>1. IsFiniteSet(1 .. n) /\ Cardinality(1 .. n) = n
  BY FS_Interval
<1>2. ASSUME NEW l \in 1 .. n
      PROVE  IsFiniteSet(B[l]) /\ Cardinality(B[l]) \in 0 .. n - 1
  <2>1. B[l] \subseteq 1 .. n /\ l \notin B[l]
    BY DEF Ordering
  <2>2. IsFiniteSet(B[l]) /\ Cardinality(B[l]) <= n /\ Cardinality(B[l]) # n
    BY <1>1, <2>1, FS_Subset
  <2>3. Cardinality(B[l]) \in Nat
    BY <2>2, FS_CardinalityType
  <2> QED BY <2>2, <2>3
<1>3. ASSUME NEW l \in 1 .. n, NEW m \in 1 .. n, l \in B[m]
      PROVE  Cardinality(B[l]) < Cardinality(B[m])
  <2>1. B[l] \in SUBSET B[m] /\ B[l] # B[m]
    BY <1>3 DEF Ordering
  <2>2. Cardinality(B[l]) <= Cardinality(B[m]) /\ Cardinality(B[m]) # Cardinality(B[l])
    BY <1>2, <2>1, FS_Subset
  <2>3. Cardinality(B[l]) \in Int /\ Cardinality(B[m]) \in Int
    BY <1>2
  <2> QED BY <2>2, <2>3
<1>4. Cardinality(B[j]) \in 0 .. n - 1 /\ Cardinality(B[k]) \in 0 .. n - 1
  BY <1>2
<1>5. ASSUME j # k
      PROVE  \/ j \in B[k] /\ Cardinality(B[j]) < Cardinality(B[k])
             \/ k \in B[j] /\ Cardinality(B[k]) < Cardinality(B[j])
  BY <1>3, <1>5 DEF Ordering
<1>6. j = k => j \notin B[k]
  BY DEF Ordering
<1> QED BY <1>3, <1>4, <1>5, <1>6

\* At each place there is one.
LEMMA OneAtEach ==
  ASSUME NEW n \in Nat, NEW B, Ordering(n, B), NEW p \in 1 .. n
  PROVE  \E k \in 1 .. n : Cardinality(B[k]) = p - 1
<1> SUFFICES ASSUME \A k \in 1 .. n : Cardinality(B[k]) # p - 1 PROVE FALSE
  OBVIOUS
<1> DEFINE S == 1 .. n
           T == (0 .. n - 1) \ {p - 1}
           rank == [k \in S |-> Cardinality(B[k])]
<1>1. IsFiniteSet(S) /\ Cardinality(S) = n
  BY FS_Interval
<1>2. IsFiniteSet(0 .. n - 1) /\ Cardinality(0 .. n - 1) = n
  <2>1. 0 \in Int /\ n - 1 \in Int /\ ~(0 > n - 1) /\ (n - 1) - 0 + 1 = n
    OBVIOUS
  <2> QED BY <2>1, FS_Interval
<1>3. IsFiniteSet(T) /\ Cardinality(T) < n
  <2>1. p - 1 \in 0 .. n - 1
    OBVIOUS
  <2>2. Cardinality(T) = n - 1
    BY <1>2, <2>1, FS_RemoveElement
  <2>3. IsFiniteSet(T)
    BY <1>2, FS_RemoveElement
  <2> HIDE DEF T
  <2> QED BY <2>2, <2>3
<1>4. rank \in [S -> T]
  BY FewerBefore
<1>5. \A j, k \in S : j # k => rank[j] # rank[k]
  BY FewerBefore
<1> HIDE DEF S, T, rank
<1> QED BY <1>1, <1>3, <1>4, <1>5, FS_PigeonHole

\* Files, no directories, whose paths differ in more than case.
FileList(s) ==
  /\ Len(s) \in Nat /\ DOMAIN s = 1 .. Len(s)
  /\ \A k \in 1 .. Len(s) : s[k].file.isDir = FALSE /\ s[k].FilePath \in Strings
  /\ \A j, k \in 1 .. Len(s) : SameIgnoringCase(s[j].FilePath, s[k].FilePath) => j = k

LEMMA BeforeIs ==
  ASSUME NEW s, FileList(s), NEW j \in 1 .. Len(s), NEW k \in 1 .. Len(s)
  PROVE  /\ j \in Before(s, k) <=> Greater(s[k].FilePath, s[j].FilePath)
         /\ Before(s, k) \subseteq 1 .. Len(s)
<1>1. /\ s[j].file.isDir = FALSE /\ s[k].file.isDir = FALSE
      /\ s[j].FilePath \in Strings /\ s[k].FilePath \in Strings
      /\ DOMAIN s = 1 .. Len(s)
  BY DEF FileList
<1>2. SortCallback(s[j], s[k]) <=> ~Greater(s[j].FilePath, s[k].FilePath)
  BY <1>1 DEF SortCallback
<1>3. j # k => ~SameIgnoringCase(s[j].FilePath, s[k].FilePath)
  BY DEF FileList
<1>4. ~Greater(s[k].FilePath, s[k].FilePath)
  BY <1>1, GreaterNotSelf
<1>5. Greater(s[j].FilePath, s[k].FilePath) => ~Greater(s[k].FilePath, s[j].FilePath)
  BY <1>1, GreaterNotSelf, GreaterTransitive
<1>6. j # k => Greater(s[j].FilePath, s[k].FilePath) \/ Greater(s[k].FilePath, s[j].FilePath)
  BY <1>1, <1>3, GreaterTotal
<1> QED BY <1>1, <1>2, <1>4, <1>5, <1>6 DEF Before

\* SortList puts the files of a list in the order of their paths; it loses and adds none.
LEMMA SortedByPath ==
  ASSUME NEW s, FileList(s)
  PROVE  /\ DOMAIN SortList(s) = 1 .. Len(s)
         /\ \A j, k \in 1 .. Len(s) :
              j < k => Greater(SortList(s)[k].FilePath, SortList(s)[j].FilePath)
         /\ \A n \in 1 .. Len(s) : \E k \in 1 .. Len(s) : SortList(s)[n] = s[k]
         /\ \A k \in 1 .. Len(s) : \E n \in 1 .. Len(s) : SortList(s)[n] = s[k]
<1> DEFINE B == [k \in 1 .. Len(s) |-> Before(s, k)]
           at(n) == CHOOSE k \in DOMAIN s : Cardinality(Before(s, k)) = n - 1
<1>1. Len(s) \in Nat /\ DOMAIN s = 1 .. Len(s) /\ \A k \in 1 .. Len(s) : s[k].FilePath \in Strings
  BY DEF FileList
<1>2. \A k \in 1 .. Len(s) : B[k] = Before(s, k)
  OBVIOUS
<1> HIDE DEF B
<1>3. Ordering(Len(s), B)
  <2>1. B \in [1 .. Len(s) -> SUBSET (1 .. Len(s))]
    BY BeforeIs DEF B
  <2>2. \A k \in 1 .. Len(s) : k \notin B[k]
    BY <1>1, <1>2, BeforeIs, GreaterNotSelf
  <2>3. ASSUME NEW j \in 1 .. Len(s), NEW k \in 1 .. Len(s), j # k
        PROVE  j \in B[k] \/ k \in B[j]
    <3>1. ~SameIgnoringCase(s[j].FilePath, s[k].FilePath)
      BY <2>3 DEF FileList
    <3>2. Greater(s[j].FilePath, s[k].FilePath) \/ Greater(s[k].FilePath, s[j].FilePath)
      BY <1>1, <3>1, GreaterTotal
    <3> QED BY <1>2, <3>2, BeforeIs
  <2>4. ASSUME NEW j \in 1 .. Len(s), NEW k \in 1 .. Len(s), j \in B[k], NEW l \in B[j]
        PROVE  l \in B[k]
    <3>1. l \in 1 .. Len(s)
      BY <2>1
    <3>2. Greater(s[k].FilePath, s[j].FilePath) /\ Greater(s[j].FilePath, s[l].FilePath)
      BY <1>2, <2>4, <3>1, BeforeIs
    <3>3. Greater(s[k].FilePath, s[l].FilePath)
      BY <1>1, <3>1, <3>2, GreaterTransitive
    <3> QED BY <1>2, <3>1, <3>3, BeforeIs
  <2> QED BY <2>1, <2>2, <2>3, <2>4 DEF Ordering
<1>4. \A n \in 1 .. Len(s) : at(n) \in 1 .. Len(s) /\ Cardinality(B[at(n)]) = n - 1
  <2> TAKE n \in 1 .. Len(s)
  <2>1. PICK k \in 1 .. Len(s) : Cardinality(B[k]) = n - 1
    BY <1>1, <1>3, OneAtEach
  <2>2. k \in DOMAIN s /\ Cardinality(Before(s, k)) = n - 1
    BY <1>1, <1>2, <2>1
  <2>3. at(n) \in DOMAIN s /\ Cardinality(Before(s, at(n))) = n - 1
    BY <2>2
  <2> HIDE DEF at
  <2> QED BY <1>1, <1>2, <2>3
<1>5. DOMAIN SortList(s) = 1 .. Len(s) /\ \A n \in 1 .. Len(s) : SortList(s)[n] = s[at(n)]
  BY <1>1 DEF SortList
<1> HIDE DEF at
<1>6. ASSUME NEW j \in 1 .. Len(s), NEW k \in 1 .. Len(s), j < k
      PROVE  Greater(s[at(k)].FilePath, s[at(j)].FilePath)
  <2>1. Cardinality(B[at(j)]) < Cardinality(B[at(k)])
    BY <1>4, <1>6
  <2>2. at(j) \in B[at(k)]
    BY <1>1, <1>3, <1>4, <2>1, FewerBefore
  <2> QED BY <1>2, <1>4, <2>2, BeforeIs
<1>7. ASSUME NEW k \in 1 .. Len(s)
      PROVE  \E n \in 1 .. Len(s) : at(n) = k
  <2> DEFINE n == Cardinality(B[k]) + 1
  <2>1. Cardinality(B[k]) \in 0 .. Len(s) - 1
    BY <1>1, <1>3, FewerBefore
  <2>2. n \in 1 .. Len(s) /\ n - 1 = Cardinality(B[k])
    BY <1>1, <2>1
  <2> HIDE DEF n
  <2>3. Cardinality(B[at(n)]) = Cardinality(B[k])
    BY <1>4, <2>2
  <2>4. at(n) = k
    BY <1>1, <1>3, <1>4, <2>2, <2>3, FewerBefore
  <2> QED BY <2>2, <2>4
<1> QED BY <1>4, <1>5, <1>6, <1>7

-----------------------------------------------------------------------------
(* Paths *)

LEMMA BytesOfConcat ==
  ASSUME NEW p \in Strings, NEW a \in Strings
  PROVE  /\ p \o a \in Strings /\ Len(p \o a) = Len(p) + Len(a)
         /\ \A k \in 1 .. Len(p) : Bytes(p \o a)[k] = Bytes(p)[k]
         /\ \A k \in 1 .. Len(a) + 1 : Bytes(p \o a)[Len(p) + k] = Bytes(a)[k]
<1> DEFINE s == p \o a
<1>1. /\ s \in Strings /\ Len(s) = Len(p) + Len(a)
      /\ Len(p) \in Nat /\ Len(a) \in Nat
      /\ \A k \in 1 .. Len(p) + Len(a) : s[k] = IF k <= Len(p) THEN p[k] ELSE a[k - Len(p)]
  BY ConcatProperties DEF Strings
<1> HIDE DEF s
<1>2. ASSUME NEW k \in 1 .. Len(p) PROVE Bytes(s)[k] = Bytes(p)[k]
  <2>1. k \in 1 .. Len(s) /\ s[k] = p[k]
    BY <1>1
  <2> QED BY <1>1, <2>1, BytesIs
<1>3. ASSUME NEW k \in 1 .. Len(a) + 1 PROVE Bytes(s)[Len(p) + k] = Bytes(a)[k]
  <2>1. CASE k = Len(a) + 1
    <3>1. Len(p) + k = Len(s) + 1
      BY <1>1, <2>1
    <3>2. Bytes(s)[Len(s) + 1] = 0 /\ Bytes(a)[Len(a) + 1] = 0
      BY <1>1, BytesIs
    <3> QED BY <2>1, <3>1, <3>2
  <2>2. CASE k # Len(a) + 1
    <3>1. k \in 1 .. Len(a) /\ Len(p) + k \in 1 .. Len(s) /\ ~(Len(p) + k <= Len(p))
          /\ (Len(p) + k) - Len(p) = k
      BY <1>1, <2>2
    <3>2. s[Len(p) + k] = a[k]
      BY <1>1, <3>1
    <3>3. Bytes(s)[Len(p) + k] = ToLower(s[Len(p) + k])
      BY <1>1, <3>1, BytesIs
    <3>4. Bytes(a)[k] = ToLower(a[k])
      BY <3>1, BytesIs
    <3> QED BY <3>2, <3>3, <3>4
  <2> QED BY <2>1, <2>2
<1> QED BY <1>1, <1>2, <1>3 DEF s

\* What two paths have in common at their start does not matter to their order.
LEMMA GreaterBehind ==
  ASSUME NEW p \in Strings, NEW a \in Strings, NEW b \in Strings
  PROVE  Greater(p \o a, p \o b) => Greater(a, b)
<1> DEFINE s == p \o a
           t == p \o b
<1>1. /\ s \in Strings /\ Len(s) = Len(p) + Len(a)
      /\ t \in Strings /\ Len(t) = Len(p) + Len(b)
      /\ \A k \in 1 .. Len(p) : Bytes(s)[k] = Bytes(p)[k] /\ Bytes(t)[k] = Bytes(p)[k]
      /\ \A k \in 1 .. Len(a) + 1 : Bytes(s)[Len(p) + k] = Bytes(a)[k]
      /\ \A k \in 1 .. Len(b) + 1 : Bytes(t)[Len(p) + k] = Bytes(b)[k]
  BY BytesOfConcat
<1>2. /\ Len(p) \in Nat /\ Len(a) \in Nat /\ Len(b) \in Nat
      /\ DOMAIN Bytes(p) = 1 .. Len(p) + 1 /\ \A k \in 1 .. Len(p) + 1 : Bytes(p)[k] \in Nat
      /\ DOMAIN Bytes(a) = 1 .. Len(a) + 1 /\ DOMAIN Bytes(b) = 1 .. Len(b) + 1
  BY BytesIs
<1> HIDE DEF s, t
<1>3. DOMAIN Bytes(s) = 1 .. Len(s) + 1 /\ DOMAIN Bytes(t) = 1 .. Len(t) + 1
  BY <1>1, BytesIs
<1>4. SUFFICES ASSUME Greater(s, t) PROVE Greater(a, b)
  BY DEF s, t
<1>5. PICK k : Differs(s, t, k)
  BY <1>4, GreaterIs
<1>6. /\ k \in 1 .. Len(s) + 1 /\ k \in 1 .. Len(t) + 1 /\ Bytes(s)[k] > Bytes(t)[k]
      /\ \A j \in 1 .. k - 1 : Bytes(s)[j] = Bytes(t)[j]
  BY <1>3, <1>5 DEF Differs
<1>7. ~(k <= Len(p))
  <2> SUFFICES ASSUME k <= Len(p) PROVE FALSE
    OBVIOUS
  <2>1. k \in 1 .. Len(p) /\ k \in 1 .. Len(p) + 1
    BY <1>2, <1>6
  <2>2. Bytes(s)[k] = Bytes(p)[k] /\ Bytes(t)[k] = Bytes(p)[k] /\ Bytes(p)[k] \in Nat
    BY <1>1, <1>2, <2>1
  <2> QED BY <1>6, <2>2
<1> DEFINE l == k - Len(p)
<1>8. l \in 1 .. Len(a) + 1 /\ l \in 1 .. Len(b) + 1 /\ Len(p) + l = k
  BY <1>1, <1>2, <1>6, <1>7
<1> HIDE DEF l
<1>9. Bytes(a)[l] > Bytes(b)[l]
  BY <1>1, <1>6, <1>8
<1>10. ASSUME NEW j \in 1 .. l - 1 PROVE Bytes(a)[j] = Bytes(b)[j]
  <2>1. j \in 1 .. Len(a) + 1 /\ j \in 1 .. Len(b) + 1 /\ Len(p) + j \in 1 .. k - 1
    BY <1>2, <1>8
  <2> QED BY <1>1, <1>6, <2>1
<1>11. Differs(a, b, l)
  BY <1>2, <1>8, <1>9, <1>10 DEF Differs
<1> QED BY <1>11, GreaterIs

LEMMA SameBehind ==
  ASSUME NEW p \in Strings, NEW a \in Strings, NEW b \in Strings,
         SameIgnoringCase(p \o a, p \o b)
  PROVE  SameIgnoringCase(a, b)
<1> SUFFICES ASSUME ~SameIgnoringCase(a, b) PROVE FALSE
  OBVIOUS
<1>1. Bytes(p \o a) = Bytes(p \o b) /\ Len(p \o a) = Len(p \o b)
  <2>1. Lower(p \o a) = Lower(p \o b)
    BY DEF SameIgnoringCase
  <2>2. Len(Lower(p \o a)) = Len(p \o a) /\ Len(Lower(p \o b)) = Len(p \o b)
    BY BytesOfConcat, LowerIs
  <2> QED BY <2>1, <2>2 DEF Bytes
<1>2. Len(a) = Len(b) /\ Len(a) \in Nat
  <2>1. Len(p) \in Nat /\ Len(a) \in Nat /\ Len(b) \in Nat
    BY BytesIs
  <2>2. Len(p \o a) = Len(p) + Len(a) /\ Len(p \o b) = Len(p) + Len(b)
    BY BytesOfConcat
  <2>3. Len(p \o a) = Len(p \o b)
    BY <1>1
  <2>4. Len(p) + Len(a) = Len(p) + Len(b)
    BY <2>2, <2>3
  <2> QED BY <2>1, <2>4
<1>3. ASSUME NEW k \in 1 .. Len(a) PROVE ToLower(a[k]) = ToLower(b[k])
  <2>1. k \in 1 .. Len(a) + 1 /\ k \in 1 .. Len(b) + 1 /\ k \in 1 .. Len(b)
    BY <1>2
  <2>2. Bytes(p \o a)[Len(p) + k] = Bytes(a)[k] /\ Bytes(p \o b)[Len(p) + k] = Bytes(b)[k]
    BY <2>1, BytesOfConcat
  <2>3. Bytes(a)[k] = ToLower(a[k]) /\ Bytes(b)[k] = ToLower(b[k])
    BY <2>1, BytesIs
  <2> QED BY <1>1, <2>2, <2>3
<1>4. Lower(a) = [k \in 1 .. Len(a) |-> ToLower(a[k])]
      /\ Lower(b) = [k \in 1 .. Len(b) |-> ToLower(b[k])]
  BY DEF Lower, Strings
<1> QED BY <1>2, <1>3, <1>4 DEF SameIgnoringCase

\* A name, which is not empty and has no slash.
FileNames == Seq(Chars \ {Slash}) \ {<<>>}

LEMMA FileNamesAreStrings == FileNames \subseteq Strings
BY DEF FileNames, Strings

\* The name is what comes behind the folder.
LEMMA FilenameIs ==
  ASSUME NEW p \in Strings, NEW name \in FileNames
  PROVE  FullpathToFilename(p \o <<Slash>> \o name) = name
<1> DEFINE q == p \o <<Slash>>
           s == q \o name
           at == {k \in 1 .. Len(s) - 1 : s[k] = Slash}
           last == CHOOSE k \in at : \A j \in at : j <= k
<1>1. <<Slash>> \in Strings /\ Len(<<Slash>>) = 1 /\ name \in Strings
  BY FileNamesAreStrings DEF Strings, Chars, Slash
<1>2. q \in Strings /\ Len(q) = Len(p) + 1 /\ q[Len(p) + 1] = Slash /\ Len(p) \in Nat
  BY <1>1, ConcatProperties DEF Strings
<1> HIDE DEF q
<1>3. /\ s \in Strings /\ Len(s) = Len(q) + Len(name) /\ Len(name) \in Nat
      /\ \A k \in 1 .. Len(q) + Len(name) : s[k] = IF k <= Len(q) THEN q[k] ELSE name[k - Len(q)]
  <2>1. q \in Seq(Chars) /\ name \in Seq(Chars)
    BY <1>1, <1>2 DEF Strings
  <2>2. /\ s \in Seq(Chars) /\ Len(s) = Len(q) + Len(name)
        /\ \A k \in 1 .. Len(q) + Len(name) : s[k] = IF k <= Len(q) THEN q[k] ELSE name[k - Len(q)]
    BY <2>1, ConcatProperties
  <2> QED BY <2>1, <2>2, LenProperties DEF Strings
<1>4. Len(name) > 0 /\ \A k \in 1 .. Len(name) : name[k] # Slash
  BY DEF FileNames
<1> HIDE DEF s
<1>5. Len(q) \in at
  <2>1. Len(q) \in 1 .. Len(q) + Len(name) /\ Len(q) \in 1 .. Len(s) - 1 /\ Len(q) \in Int
    BY <1>2, <1>3, <1>4
  <2>2. s[Len(q)] = Slash
    BY <1>2, <1>3, <2>1
  <2> QED BY <2>1, <2>2
<1>6. ASSUME NEW k \in at PROVE k <= Len(q)
  <2> SUFFICES ASSUME ~(k <= Len(q)) PROVE FALSE
    OBVIOUS
  <2>1. k \in 1 .. Len(q) + Len(name) /\ k - Len(q) \in 1 .. Len(name)
    BY <1>2, <1>3
  <2> QED BY <1>3, <1>4, <2>1
<1>7. at \subseteq Int
  BY <1>3
<1> HIDE DEF at
<1>8. last = Len(q)
  <2>1. last \in at /\ \A j \in at : j <= last
    BY <1>5, <1>6
  <2>2. Len(q) <= last /\ last <= Len(q) /\ last \in Int /\ Len(q) \in Int
    BY <1>5, <1>6, <1>7, <2>1
  <2> HIDE DEF last
  <2> QED BY <2>2
<1>9. SubSeq(s, Len(q) + 1, Len(s)) = name
  <2>1. \A k \in Len(q) + 1 .. Len(s) : s[k] \in Chars
    BY <1>2, <1>3 DEF Strings
  <2>2. Len(q) + 1 \in Int /\ Len(s) \in Int /\ Len(s) - (Len(q) + 1) + 1 = Len(name)
    BY <1>2, <1>3
  <2>3. /\ SubSeq(s, Len(q) + 1, Len(s)) \in Seq(Chars)
        /\ Len(SubSeq(s, Len(q) + 1, Len(s))) = Len(name)
        /\ \A k \in 1 .. Len(name) : SubSeq(s, Len(q) + 1, Len(s))[k] = s[Len(q) + 1 + k - 1]
    BY <1>2, <1>3, <1>4, <2>1, <2>2, SubSeqProperties
  <2>4. \A k \in 1 .. Len(name) : s[Len(q) + 1 + k - 1] = name[k]
    BY <1>2, <1>3
  <2>5. name \in Seq(Chars)
    BY <1>1 DEF Strings
  <2> QED BY <2>3, <2>4, <2>5, SeqEqual
<1>10. FullpathToFilename(s) = SubSeq(s, last + 1, Len(s))
  BY <1>5 DEF FullpathToFilename, at
<1> QED BY <1>8, <1>9, <1>10 DEF s, q

\* Of slashes in a row the first is kept; a path that begins with three other characters
\* still does.
Rooted(s) ==
  /\ s \in Strings /\ Len(s) >= 3
  /\ \A k \in 1 .. 3 : s[k] # Slash

LEMMA RootedStays ==
  ASSUME NEW s, Rooted(s), NEW t \in Strings
  PROVE  Rooted(s \o t)
<1>1. /\ s \o t \in Strings /\ Len(s) \in Nat /\ Len(t) \in Nat /\ Len(s \o t) = Len(s) + Len(t)
      /\ \A k \in 1 .. Len(s) + Len(t) : (s \o t)[k] = IF k <= Len(s) THEN s[k] ELSE t[k - Len(s)]
  BY ConcatProperties, LenProperties DEF Rooted, Strings
<1>2. Len(s) >= 3 /\ \A k \in 1 .. 3 : s[k] # Slash
  BY DEF Rooted
<1> QED BY <1>1, <1>2 DEF Rooted

LEMMA AppendIs ==
  ASSUME NEW s \in Strings, NEW c \in Chars
  PROVE  /\ Append(s, c) \in Strings /\ Len(s) \in Nat /\ Len(Append(s, c)) = Len(s) + 1
         /\ \A k \in 1 .. Len(s) : Append(s, c)[k] = s[k]
         /\ Append(s, c)[Len(s) + 1] = c
BY DEF Strings

LEMMA SinglesAreRooted ==
  ASSUME NEW str, Rooted(str)
  PROVE  Rooted(RemoveDoubleSlashs(str))
<1> DEFINE double(n) == n > 1 /\ str[n - 1] = Slash /\ str[n] = Slash
           G(f) == f = [n \in 0 .. Len(str) |->
                          IF n = 0 THEN <<>>
                          ELSE IF n > 1 /\ str[n - 1] = Slash /\ str[n] = Slash THEN f[n - 1]
                          ELSE Append(f[n - 1], str[n])]
           kept == CHOOSE f : G(f)
           step == [n \in 1 .. Len(str) |->
                      [v \in Strings |-> IF double(n) THEN v ELSE Append(v, str[n])]]
<1>1. /\ Len(str) \in Nat /\ Len(str) >= 3 /\ \A n \in 1 .. Len(str) : str[n] \in Chars
      /\ \A n \in 1 .. 3 : str[n] # Slash
  BY LenProperties DEF Rooted, Strings
<1>2. \A n \in 1 .. Len(str) : \A v \in Strings :
        step[n][v] = IF double(n) THEN v ELSE Append(v, str[n])
  OBVIOUS
<1> HIDE DEF step
<1>3. \A n \in 1 .. Len(str) : \A v \in Strings : step[n][v] \in Strings
  BY <1>1, <1>2, AppendIs
<1>4. PICK g : Turned(Strings, <<>>, Len(str), step, g)
  <2>1. <<>> \in Strings
    BY DEF Strings
  <2>2. Turns(Strings, Len(str), step)
    BY <1>3 DEF Turns
  <2> QED BY <1>1, <2>1, <2>2, Loop
<1>5. G(g)
  <2>1. ASSUME NEW n \in 0 .. Len(str)
        PROVE  g[n] = IF n = 0 THEN <<>> ELSE IF double(n) THEN g[n - 1]
                                              ELSE Append(g[n - 1], str[n])
    <3>1. CASE n = 0
      BY <1>4, <3>1 DEF Turned
    <3>2. CASE n # 0
      <4>1. n \in 1 .. Len(str) /\ n - 1 \in 0 .. Len(str)
        BY <1>1, <3>2
      <4>2. g[n - 1] \in Strings
        BY <1>4, <4>1 DEF Turned
      <4>3. g[n] = step[n][g[n - 1]]
        BY <1>4, <4>1 DEF Turned
      <4> HIDE DEF double
      <4> QED BY <1>2, <3>2, <4>1, <4>2, <4>3
    <3> QED BY <3>1, <3>2
  <2> QED BY <1>4, <2>1 DEF Turned
<1>6. G(kept)
  BY <1>5
<1>7. RemoveDoubleSlashs(str) = kept[Len(str)]
  BY DEF RemoveDoubleSlashs
<1> HIDE DEF kept
<1>8. /\ kept[0] = <<>>
      /\ \A n \in 1 .. Len(str) :
           kept[n] = IF double(n) THEN kept[n - 1] ELSE Append(kept[n - 1], str[n])
  <2>1. \A n \in 0 .. Len(str) : kept[n] =
          IF n = 0 THEN <<>> ELSE IF double(n) THEN kept[n - 1] ELSE Append(kept[n - 1], str[n])
    BY <1>6
  <2> HIDE DEF G, double
  <2> QED BY <1>1, <2>1
<1> DEFINE I(n) == /\ kept[n] \in Strings
                   /\ n <= 3 => Len(kept[n]) = n
                   /\ n >= 3 => Len(kept[n]) >= 3
                   /\ \A k \in 1 .. 3 : k <= Len(kept[n]) => kept[n][k] # Slash
           T == {n \in Nat : n <= Len(str) => I(n)}
<1>9. 0 \in T
  <2>1. <<>> \in Strings /\ Len(<<>>) = 0
    BY DEF Strings
  <2> QED BY <1>8, <2>1
<1>10. ASSUME NEW n \in Nat, n \in T PROVE n + 1 \in T
  <2> SUFFICES ASSUME n + 1 <= Len(str) PROVE I(n + 1)
    OBVIOUS
  <2>1. I(n) /\ n + 1 \in 1 .. Len(str) /\ (n + 1) - 1 = n
    BY <1>1, <1>10
  <2>2. kept[n + 1] = IF double(n + 1) THEN kept[n] ELSE Append(kept[n], str[n + 1])
    BY <1>8, <2>1
  <2>3. CASE double(n + 1)
    <3>1. kept[n + 1] = kept[n]
      BY <2>2, <2>3
    <3>2. n + 1 > 3
      BY <1>1, <2>1, <2>3
    <3> HIDE DEF double
    <3> QED BY <2>1, <3>1, <3>2
  <2>4. CASE ~double(n + 1)
    <3> DEFINE s == kept[n]
               t == kept[n + 1]
               c == str[n + 1]
    <3>1. t = Append(s, c) /\ c \in Chars
      BY <1>1, <2>1, <2>2, <2>4
    <3>2. /\ s \in Strings
          /\ n <= 3 => Len(s) = n
          /\ n >= 3 => Len(s) >= 3
          /\ \A k \in 1 .. 3 : k <= Len(s) => s[k] # Slash
      BY <2>1
    <3>3. n + 1 <= 3 => c # Slash
      BY <1>1
    <3> HIDE DEF s, t, c, double
    <3>4. /\ t \in Strings /\ Len(s) \in Nat /\ Len(t) = Len(s) + 1
          /\ \A k \in 1 .. Len(s) : t[k] = s[k]
          /\ t[Len(s) + 1] = c
      BY <3>1, <3>2, AppendIs
    <3>5. /\ n + 1 <= 3 => Len(t) = n + 1
          /\ n + 1 >= 3 => Len(t) >= 3
      BY <3>2, <3>4
    <3>6. ASSUME NEW k \in 1 .. 3, k <= Len(t) PROVE t[k] # Slash
      <4>1. CASE k <= Len(s)
        BY <3>2, <3>4, <4>1
      <4>2. CASE ~(k <= Len(s))
        <5>1. k = Len(s) + 1 /\ n + 1 <= 3
          BY <3>2, <3>4, <3>6, <4>2
        <5> QED BY <3>3, <3>4, <5>1
      <4> QED BY <4>1, <4>2
    <3>7. I(n + 1)
      BY <3>4, <3>5, <3>6 DEF t
    <3> QED BY <3>7
  <2> QED BY <2>3, <2>4
<1> HIDE DEF T
<1>11. Nat \subseteq T
  BY <1>9, <1>10, Induction
<1>12. I(Len(str))
  BY <1>1, <1>11 DEF T
<1> QED BY <1>1, <1>7, <1>12 DEF Rooted

\* The path that is opened is as long as its beginning at least.
LEMMA FolderIsRooted ==
  ASSUME NEW folder, Rooted(folder)
  PROVE  Rooted(FolderPath(folder))
<1> DEFINE single == RemoveDoubleSlashs(folder)
           last == Len(single)
           bare == IF last = Len(folder) /\ single[last] = Slash THEN SubSeq(single, 1, last - 1)
                   ELSE single
<1>1. Rooted(single)
  BY SinglesAreRooted
<1> HIDE DEF single
<1>2. /\ last \in Nat /\ last >= 3 /\ \A k \in 1 .. 3 : single[k] # Slash
      /\ \A k \in 1 .. last : single[k] \in Chars
  BY <1>1, LenProperties DEF Rooted, Strings
<1>3. Rooted(bare)
  <2>1. CASE single[last] = Slash
    <3>1. last - 1 >= 3 /\ 1 \in Int /\ last - 1 \in Int /\ (last - 1) - 1 + 1 = last - 1
      BY <1>2, <2>1
    <3>2. /\ SubSeq(single, 1, last - 1) \in Strings
          /\ Len(SubSeq(single, 1, last - 1)) = last - 1
          /\ \A k \in 1 .. last - 1 : SubSeq(single, 1, last - 1)[k] = single[k]
      <4>1. \A k \in 1 .. last - 1 : single[k] \in Chars
        BY <1>2
      <4>2. /\ SubSeq(single, 1, last - 1) \in Seq(Chars)
            /\ Len(SubSeq(single, 1, last - 1)) = last - 1
            /\ \A k \in 1 .. last - 1 : SubSeq(single, 1, last - 1)[k] = single[1 + k - 1]
        BY <3>1, <4>1, SubSeqProperties
      <4>3. \A k \in 1 .. last - 1 : 1 + k - 1 = k
        OBVIOUS
      <4> QED BY <4>2, <4>3 DEF Strings
    <3>3. Rooted(SubSeq(single, 1, last - 1))
      <4>1. \A k \in 1 .. 3 : k \in 1 .. last - 1
        BY <3>1
      <4> QED BY <1>2, <3>1, <3>2, <4>1 DEF Rooted
    <3> QED BY <1>1, <3>3
  <2>2. CASE single[last] # Slash
    BY <1>1, <2>2
  <2> QED BY <2>1, <2>2
<1>4. FolderPath(folder) = IF \E k \in DOMAIN bare : bare[k] = Slash THEN bare
                           ELSE Append(bare, Slash)
  BY DEF FolderPath, single
<1> HIDE DEF bare
<1>5. Slash \in Chars
  BY DEF Slash, Chars
<1>6. Rooted(Append(bare, Slash))
  <2>1. bare \in Strings /\ Len(bare) \in Nat /\ Len(bare) >= 3 /\ \A k \in 1 .. 3 : bare[k] # Slash
    BY <1>3, LenProperties DEF Rooted, Strings
  <2>2. /\ Append(bare, Slash) \in Strings /\ Len(Append(bare, Slash)) = Len(bare) + 1
        /\ \A k \in 1 .. Len(bare) : Append(bare, Slash)[k] = bare[k]
    BY <1>5, <2>1, AppendIs
  <2>3. \A k \in 1 .. 3 : k \in 1 .. Len(bare)
    BY <2>1
  <2> QED BY <2>1, <2>2, <2>3 DEF Rooted
<1> QED BY <1>3, <1>4, <1>6

-----------------------------------------------------------------------------
(* DirList *)

\* What readdir gives: names that differ in more than case.
Directory(dir) ==
  /\ Len(dir) \in Nat /\ DOMAIN dir = 1 .. Len(dir)
  /\ \A j \in 1 .. Len(dir) : dir[j].name \in FileNames
  /\ \A j, k \in 1 .. Len(dir) : SameIgnoringCase(dir[j].name, dir[k].name) => j = k

\* The list l holds what is accepted of the first n entries, each once.
Gathered(l, n, path, dir, dirs, filter) ==
  /\ Len(l) \in Nat /\ DOMAIN l = 1 .. Len(l)
  /\ \A k \in 1 .. Len(l) : \E j \in 1 .. n :
       Accepted(dir[j], dirs, filter) /\ l[k] = Entry(path, dir[j])
  /\ \A j \in 1 .. n : Accepted(dir[j], dirs, filter) =>
       \E k \in 1 .. Len(l) : l[k] = Entry(path, dir[j])
  /\ \A k, m \in 1 .. Len(l) : SameIgnoringCase(l[k].file.name, l[m].file.name) => k = m

LEMMA OneMoreListed ==
  ASSUME NEW dir, Directory(dir), NEW path, NEW dirs, NEW filter, NEW E, NEW l \in Seq(E),
         NEW n \in Nat, n + 1 <= Len(dir), Gathered(l, n, path, dir, dirs, filter)
  PROVE  LET m == IF Accepted(dir[n + 1], dirs, filter)
                  THEN Append(l, Entry(path, dir[n + 1])) ELSE l
         IN  Gathered(m, n + 1, path, dir, dirs, filter)
<1> DEFINE e == Entry(path, dir[n + 1])
           m == Append(l, e)
<1>1. /\ Len(l) \in Nat /\ DOMAIN l = 1 .. Len(l)
      /\ \A k \in 1 .. Len(l) : \E j \in 1 .. n :
           Accepted(dir[j], dirs, filter) /\ l[k] = Entry(path, dir[j])
      /\ \A j \in 1 .. n : Accepted(dir[j], dirs, filter) =>
           \E k \in 1 .. Len(l) : l[k] = Entry(path, dir[j])
      /\ \A k, o \in 1 .. Len(l) : SameIgnoringCase(l[k].file.name, l[o].file.name) => k = o
  BY DEF Gathered
<1>2. \A j \in 1 .. n + 1 : j \in 1 .. n \/ j = n + 1
  OBVIOUS
<1>3. \A j \in 1 .. n : j \in 1 .. n + 1
  OBVIOUS
<1>4. CASE ~Accepted(dir[n + 1], dirs, filter)
  <2>1. \A k \in 1 .. Len(l) : \E j \in 1 .. n + 1 :
           Accepted(dir[j], dirs, filter) /\ l[k] = Entry(path, dir[j])
    BY <1>1, <1>3
  <2>2. \A j \in 1 .. n + 1 : Accepted(dir[j], dirs, filter) =>
           \E k \in 1 .. Len(l) : l[k] = Entry(path, dir[j])
    BY <1>1, <1>2, <1>4
  <2>3. Gathered(l, n + 1, path, dir, dirs, filter)
    BY <1>1, <2>1, <2>2 DEF Gathered
  <2> QED BY <1>4, <2>3
<1>5. CASE Accepted(dir[n + 1], dirs, filter)
  <2>1. /\ Len(m) = Len(l) + 1 /\ DOMAIN m = 1 .. Len(m) /\ m[Len(l) + 1] = e
        /\ \A k \in 1 .. Len(l) : m[k] = l[k]
    BY DEF m
  <2>2. \A k \in 1 .. Len(m) : k \in 1 .. Len(l) \/ k = Len(l) + 1
    BY <1>1, <2>1
  <2>3. \A k \in 1 .. Len(l) : k \in 1 .. Len(m)
    BY <1>1, <2>1
  <2>4. Len(l) + 1 \in 1 .. Len(m) /\ Len(m) \in Nat /\ n + 1 \in 1 .. n + 1
    BY <1>1, <2>1
  <2>5. e.file = dir[n + 1]
    BY DEF Entry
  <2>6. \A k \in 1 .. Len(l) : \E j \in 1 .. n : l[k].file = dir[j]
    <3>1. \A j \in 1 .. n : Entry(path, dir[j]).file = dir[j]
      BY DEF Entry
    <3> QED BY <1>1, <3>1
  <2>7. ASSUME NEW k \in 1 .. Len(l)
        PROVE  ~SameIgnoringCase(l[k].file.name, e.file.name)
               /\ ~SameIgnoringCase(e.file.name, l[k].file.name)
    <3>1. PICK j \in 1 .. n : l[k].file = dir[j]
      BY <2>6
    <3>2. j \in 1 .. Len(dir) /\ n + 1 \in 1 .. Len(dir) /\ j # n + 1
      BY DEF Directory
    <3>3. ~SameIgnoringCase(dir[j].name, dir[n + 1].name)
          /\ ~SameIgnoringCase(dir[n + 1].name, dir[j].name)
      BY <3>2 DEF Directory
    <3> HIDE DEF e
    <3> QED BY <2>5, <3>1, <3>3
  <2>8. e = Entry(path, dir[n + 1])
    OBVIOUS
  <2> HIDE DEF e, m
  <2>9. \A k \in 1 .. Len(m) : \E j \in 1 .. n + 1 :
           Accepted(dir[j], dirs, filter) /\ m[k] = Entry(path, dir[j])
    <3> TAKE k \in 1 .. Len(m)
    <3>1. CASE k \in 1 .. Len(l)
      BY <1>1, <1>3, <2>1, <3>1
    <3>2. CASE k = Len(l) + 1
      BY <1>5, <2>1, <2>4, <2>8, <3>2
    <3> QED BY <2>2, <3>1, <3>2
  <2>10. \A j \in 1 .. n + 1 : Accepted(dir[j], dirs, filter) =>
           \E k \in 1 .. Len(m) : m[k] = Entry(path, dir[j])
    <3> TAKE j \in 1 .. n + 1
    <3>1. CASE j \in 1 .. n
      BY <1>1, <2>1, <2>3, <3>1
    <3>2. CASE j = n + 1
      BY <2>1, <2>4, <2>8, <3>2
    <3> QED BY <1>2, <3>1, <3>2
  <2>11. \A k, o \in 1 .. Len(m) : SameIgnoringCase(m[k].file.name, m[o].file.name) => k = o
    BY <1>1, <2>1, <2>2, <2>7
  <2>12. Gathered(m, n + 1, path, dir, dirs, filter)
    BY <2>1, <2>4, <2>9, <2>10, <2>11 DEF Gathered
  <2> QED BY <1>5, <2>12 DEF m, e
<1> QED BY <1>4, <1>5

\* readdir's entries are gone through one by one.
LEMMA InternalLists ==
  ASSUME NEW path, Len(path) >= 3, NEW dir, Directory(dir), NEW dirs, NEW filter
  PROVE  Gathered(InternalLoadPath(path, dir, dirs, filter), Len(dir), path, dir, dirs, filter)
<1> DEFINE G(f) == f = [n \in 0 .. Len(dir) |->
                          IF n = 0 THEN <<>>
                          ELSE IF Accepted(dir[n], dirs, filter)
                               THEN Append(f[n - 1], Entry(path, dir[n]))
                          ELSE f[n - 1]]
           listed == CHOOSE f : G(f)
           E == {Entry(path, dir[n]) : n \in 1 .. Len(dir)}
           step == [n \in 1 .. Len(dir) |-> [v \in Seq(E) |->
                      IF Accepted(dir[n], dirs, filter) THEN Append(v, Entry(path, dir[n])) ELSE v]]
<1>1. Len(dir) \in Nat
  BY DEF Directory
<1>2. \A n \in 1 .. Len(dir) : \A v \in Seq(E) :
        step[n][v] = IF Accepted(dir[n], dirs, filter) THEN Append(v, Entry(path, dir[n])) ELSE v
  OBVIOUS
<1>3. \A n \in 1 .. Len(dir) : Entry(path, dir[n]) \in E
  OBVIOUS
<1> HIDE DEF step, E
<1>4. Turns(Seq(E), Len(dir), step)
  <2>1. ASSUME NEW n \in 1 .. Len(dir), NEW v \in Seq(E) PROVE step[n][v] \in Seq(E)
    <3>1. Append(v, Entry(path, dir[n])) \in Seq(E)
      BY <1>3
    <3> QED BY <1>2, <3>1
  <2> QED BY <2>1 DEF Turns
<1>5. PICK g : Turned(Seq(E), <<>>, Len(dir), step, g)
  <2>1. <<>> \in Seq(E)
    OBVIOUS
  <2> QED BY <1>1, <1>4, <2>1, Loop
<1>6. G(g)
  <2>1. ASSUME NEW n \in 0 .. Len(dir)
        PROVE  g[n] = IF n = 0 THEN <<>>
                      ELSE IF Accepted(dir[n], dirs, filter)
                           THEN Append(g[n - 1], Entry(path, dir[n]))
                      ELSE g[n - 1]
    <3>1. CASE n = 0
      BY <1>5, <3>1 DEF Turned
    <3>2. CASE n # 0
      <4>1. n \in 1 .. Len(dir) /\ n - 1 \in 0 .. Len(dir)
        BY <1>1, <3>2
      <4>2. g[n - 1] \in Seq(E) /\ g[n] = step[n][g[n - 1]]
        BY <1>5, <4>1 DEF Turned
      <4> QED BY <1>2, <3>2, <4>1, <4>2
    <3> QED BY <3>1, <3>2
  <2> QED BY <1>5, <2>1 DEF Turned
<1>7. G(listed)
  BY <1>6
<1>8. InternalLoadPath(path, dir, dirs, filter) = listed[Len(dir)]
  <2>1. ~(Len(path) < 3)
    OBVIOUS
  <2> QED BY <2>1 DEF InternalLoadPath
<1> HIDE DEF listed
<1>9. /\ listed[0] = <<>>
      /\ \A n \in 1 .. Len(dir) : listed[n] =
           IF Accepted(dir[n], dirs, filter) THEN Append(listed[n - 1], Entry(path, dir[n]))
           ELSE listed[n - 1]
  <2>1. \A n \in 0 .. Len(dir) : listed[n] =
          IF n = 0 THEN <<>>
          ELSE IF Accepted(dir[n], dirs, filter) THEN Append(listed[n - 1], Entry(path, dir[n]))
          ELSE listed[n - 1]
    BY <1>7
  <2> HIDE DEF G
  <2> QED BY <1>1, <2>1
<1> DEFINE T == {n \in Nat : n <= Len(dir) =>
                   listed[n] \in Seq(E) /\ Gathered(listed[n], n, path, dir, dirs, filter)}
<1>10. 0 \in T
  <2>1. <<>> \in Seq(E) /\ Len(<<>>) = 0 /\ DOMAIN <<>> = 1 .. 0
    OBVIOUS
  <2>2. \A k \in 1 .. 0 : FALSE
    OBVIOUS
  <2>3. Gathered(<<>>, 0, path, dir, dirs, filter)
    BY <2>1, <2>2 DEF Gathered
  <2> QED BY <1>9, <2>1, <2>3
<1>11. ASSUME NEW n \in Nat, n \in T PROVE n + 1 \in T
  <2> SUFFICES ASSUME n + 1 <= Len(dir)
               PROVE  listed[n + 1] \in Seq(E)
                      /\ Gathered(listed[n + 1], n + 1, path, dir, dirs, filter)
    OBVIOUS
  <2>1. /\ listed[n] \in Seq(E) /\ Gathered(listed[n], n, path, dir, dirs, filter)
        /\ n + 1 \in 1 .. Len(dir) /\ (n + 1) - 1 = n
    BY <1>1, <1>11
  <2>2. listed[n + 1] = IF Accepted(dir[n + 1], dirs, filter)
                        THEN Append(listed[n], Entry(path, dir[n + 1])) ELSE listed[n]
    BY <1>9, <2>1
  <2>3. Gathered(listed[n + 1], n + 1, path, dir, dirs, filter)
    BY <2>1, <2>2, OneMoreListed
  <2>4. Append(listed[n], Entry(path, dir[n + 1])) \in Seq(E)
    BY <1>3, <2>1
  <2> QED BY <2>1, <2>2, <2>3, <2>4
<1> HIDE DEF T
<1>12. Nat \subseteq T
  BY <1>10, <1>11, Induction
<1> QED BY <1>1, <1>8, <1>12 DEF T

\* Those accepted of a folder of files, in the order of their names.
Listing(l, dir, dirs, filter) ==
  /\ \A j, k \in DOMAIN l : j < k => Greater(GetFilename(l[k]), GetFilename(l[j]))
  /\ \A k \in DOMAIN l : \E j \in DOMAIN dir :
       Accepted(dir[j], dirs, filter) /\ l[k].file = dir[j] /\ GetFilename(l[k]) = dir[j].name
  /\ \A j \in DOMAIN dir : Accepted(dir[j], dirs, filter) =>
       \E k \in DOMAIN l : GetFilename(l[k]) = dir[j].name

\* What DirList makes of a folder.
LEMMA DirListIs ==
  ASSUME NEW folder, Rooted(folder), NEW dir, Directory(dir), NEW dirs, dirs = FALSE, NEW filter
  PROVE  Listing(DirList(folder, dir, dirs, filter), dir, dirs, filter)
<1> DEFINE l == DirList(folder, dir, dirs, filter)
           path == FolderPath(folder)
           q == path \o <<Slash>>
           s == InternalLoadPath(path, dir, dirs, filter)
<1>1. Rooted(path) /\ path \in Strings /\ Len(path) >= 3
  BY FolderIsRooted DEF Rooted
<1>2. Gathered(s, Len(dir), path, dir, dirs, filter)
  BY <1>1, InternalLists
<1>3. l = SortList(s)
  <2>1. folder # <<>>
    BY DEF Rooted
  <2> QED BY <2>1 DEF DirList, LoadPath
<1>4. q \in Strings
  <2>1. <<Slash>> \in Strings
    BY DEF Strings, Chars, Slash
  <2> QED BY <1>1, <2>1, BytesOfConcat
<1>5. ASSUME NEW e PROVE Entry(path, e).file = e /\ Entry(path, e).FilePath = q \o e.name
  BY DEF Entry
<1>6. Len(dir) \in Nat /\ DOMAIN dir = 1 .. Len(dir)
      /\ \A j \in 1 .. Len(dir) : dir[j].name \in FileNames
  BY DEF Directory
<1>7. ASSUME NEW j \in 1 .. Len(dir)
      PROVE  /\ dir[j].name \in Strings
             /\ q \o dir[j].name \in Strings
             /\ GetFilename(Entry(path, dir[j])) = dir[j].name
  <2>1. dir[j].name \in FileNames /\ dir[j].name \in Strings
    BY <1>6, FileNamesAreStrings
  <2>2. q \o dir[j].name \in Strings
    BY <1>4, <2>1, BytesOfConcat
  <2>3. FullpathToFilename(q \o dir[j].name) = dir[j].name
    BY <1>1, <2>1, FilenameIs
  <2> QED BY <1>5, <2>1, <2>2, <2>3 DEF GetFilename
<1> HIDE DEF l, path, q, s
<1>8. /\ Len(s) \in Nat /\ DOMAIN s = 1 .. Len(s)
      /\ \A k \in 1 .. Len(s) : \E j \in 1 .. Len(dir) :
           Accepted(dir[j], dirs, filter) /\ s[k] = Entry(path, dir[j])
      /\ \A j \in 1 .. Len(dir) : Accepted(dir[j], dirs, filter) =>
           \E k \in 1 .. Len(s) : s[k] = Entry(path, dir[j])
      /\ \A k, m \in 1 .. Len(s) : SameIgnoringCase(s[k].file.name, s[m].file.name) => k = m
  BY <1>2 DEF Gathered
<1>9. ASSUME NEW k \in 1 .. Len(s)
      PROVE  \E j \in 1 .. Len(dir) :
               /\ Accepted(dir[j], dirs, filter) /\ s[k].file = dir[j]
               /\ s[k].FilePath = q \o dir[j].name /\ GetFilename(s[k]) = dir[j].name
               /\ dir[j].name \in Strings /\ q \o dir[j].name \in Strings
  <2>1. PICK j \in 1 .. Len(dir) : Accepted(dir[j], dirs, filter) /\ s[k] = Entry(path, dir[j])
    BY <1>8
  <2> QED BY <1>5, <1>7, <2>1
<1>10. FileList(s)
  <2>1. ASSUME NEW k \in 1 .. Len(s) PROVE s[k].file.isDir = FALSE /\ s[k].FilePath \in Strings
    <3>1. PICK j \in 1 .. Len(dir) :
            Accepted(dir[j], dirs, filter) /\ s[k].file = dir[j] /\ s[k].FilePath \in Strings
      BY <1>9
    <3>2. dir[j].isDir = FALSE
      BY <3>1 DEF Accepted
    <3> QED BY <3>1, <3>2
  <2>2. ASSUME NEW j \in 1 .. Len(s), NEW k \in 1 .. Len(s),
               SameIgnoringCase(s[j].FilePath, s[k].FilePath)
        PROVE  j = k
    <3>1. PICK a \in 1 .. Len(dir) :
            s[j].file = dir[a] /\ s[j].FilePath = q \o dir[a].name /\ dir[a].name \in Strings
      BY <1>9
    <3>2. PICK b \in 1 .. Len(dir) :
            s[k].file = dir[b] /\ s[k].FilePath = q \o dir[b].name /\ dir[b].name \in Strings
      BY <1>9
    <3>3. SameIgnoringCase(q \o dir[a].name, q \o dir[b].name)
      BY <2>2, <3>1, <3>2
    <3>4. SameIgnoringCase(dir[a].name, dir[b].name)
      BY <1>4, <3>1, <3>2, <3>3, SameBehind
    <3> QED BY <1>8, <3>1, <3>2, <3>4
  <2> QED BY <1>8, <2>1, <2>2 DEF FileList
<1>11. /\ DOMAIN l = 1 .. Len(s)
       /\ \A j, k \in 1 .. Len(s) : j < k => Greater(l[k].FilePath, l[j].FilePath)
       /\ \A n \in 1 .. Len(s) : \E k \in 1 .. Len(s) : l[n] = s[k]
       /\ \A k \in 1 .. Len(s) : \E n \in 1 .. Len(s) : l[n] = s[k]
  <2>1. /\ DOMAIN SortList(s) = 1 .. Len(s)
        /\ \A j, k \in 1 .. Len(s) :
             j < k => Greater(SortList(s)[k].FilePath, SortList(s)[j].FilePath)
        /\ \A n \in 1 .. Len(s) : \E k \in 1 .. Len(s) : SortList(s)[n] = s[k]
        /\ \A k \in 1 .. Len(s) : \E n \in 1 .. Len(s) : SortList(s)[n] = s[k]
    BY <1>10, SortedByPath
  <2> QED BY <1>3, <2>1
<1>12. ASSUME NEW k \in 1 .. Len(s)
       PROVE  \E j \in 1 .. Len(dir) :
                /\ Accepted(dir[j], dirs, filter) /\ l[k].file = dir[j]
                /\ l[k].FilePath = q \o dir[j].name /\ GetFilename(l[k]) = dir[j].name
                /\ dir[j].name \in Strings
  <2>1. PICK m \in 1 .. Len(s) : l[k] = s[m]
    BY <1>11
  <2>2. PICK j \in 1 .. Len(dir) :
               /\ Accepted(dir[j], dirs, filter) /\ s[m].file = dir[j]
               /\ s[m].FilePath = q \o dir[j].name /\ GetFilename(s[m]) = dir[j].name
               /\ dir[j].name \in Strings
    BY <1>9
  <2> QED BY <2>1, <2>2
<1>13. ASSUME NEW j \in 1 .. Len(s), NEW k \in 1 .. Len(s), j < k
       PROVE  Greater(GetFilename(l[k]), GetFilename(l[j]))
  <2>1. PICK a \in 1 .. Len(dir) :
          l[j].FilePath = q \o dir[a].name /\ GetFilename(l[j]) = dir[a].name
          /\ dir[a].name \in Strings
    BY <1>12
  <2>2. PICK b \in 1 .. Len(dir) :
          l[k].FilePath = q \o dir[b].name /\ GetFilename(l[k]) = dir[b].name
          /\ dir[b].name \in Strings
    BY <1>12
  <2>3. Greater(q \o dir[b].name, q \o dir[a].name)
    BY <1>11, <1>13, <2>1, <2>2
  <2>4. Greater(dir[b].name, dir[a].name)
    BY <1>4, <2>1, <2>2, <2>3, GreaterBehind
  <2> QED BY <2>1, <2>2, <2>4
<1>14. ASSUME NEW j \in 1 .. Len(dir), Accepted(dir[j], dirs, filter)
       PROVE  \E k \in 1 .. Len(s) : GetFilename(l[k]) = dir[j].name
  <2>1. PICK m \in 1 .. Len(s) : s[m] = Entry(path, dir[j])
    BY <1>8, <1>14
  <2>2. PICK k \in 1 .. Len(s) : l[k] = s[m]
    BY <1>11
  <2>3. GetFilename(l[k]) = dir[j].name
    BY <1>7, <2>1, <2>2
  <2> QED BY <2>3
<1>15. \A k \in 1 .. Len(s) : \E j \in 1 .. Len(dir) :
         Accepted(dir[j], dirs, filter) /\ l[k].file = dir[j] /\ GetFilename(l[k]) = dir[j].name
  BY <1>12
<1>16. Listing(l, dir, dirs, filter)
  <2>1. DOMAIN l = 1 .. Len(s) /\ DOMAIN dir = 1 .. Len(dir)
    BY <1>6, <1>11
  <2>2. \A j, k \in DOMAIN l : j < k => Greater(GetFilename(l[k]), GetFilename(l[j]))
    BY <1>13, <2>1
  <2>3. \A k \in DOMAIN l : \E j \in DOMAIN dir :
          Accepted(dir[j], dirs, filter) /\ l[k].file = dir[j] /\ GetFilename(l[k]) = dir[j].name
    BY <1>15, <2>1
  <2>4. \A j \in DOMAIN dir : Accepted(dir[j], dirs, filter) =>
          \E k \in DOMAIN l : GetFilename(l[k]) = dir[j].name
    BY <1>14, <2>1
  <2> QED BY <2>2, <2>3, <2>4 DEF Listing
<1> QED BY <1>16 DEF l

-----------------------------------------------------------------------------
(* The extension *)

\* An extension: a dot, then neither dots nor commas.
Extension(ext) ==
  /\ ext \in Strings /\ Len(ext) >= 1 /\ ext[1] = Dot
  /\ \A k \in 1 .. Len(ext) : ext[k] # Comma
  /\ \A k \in 2 .. Len(ext) : ext[k] # Dot

\* A filter of one extension is its own only part.
LEMMA OneToken ==
  ASSUME NEW ext, Extension(ext), NEW string
  PROVE  strtokcmp(string, ext, Comma) <=> SameIgnoringCase(string, ext)
<1>1. /\ Len(ext) \in Nat /\ Len(ext) >= 1 /\ DOMAIN ext = 1 .. Len(ext) /\ ext \in Seq(Chars)
      /\ \A k \in 1 .. Len(ext) : ext[k] # Comma
  BY LenProperties DEF Extension, Strings
<1>2. SubSeq(ext, 1, Len(ext)) = ext
  BY <1>1, SubSeqFull
<1>3. ASSUME NEW a \in 1 .. Len(ext), NEW b \in 1 .. Len(ext)
      PROVE  Token(ext, Comma, a, b) <=> a = 1 /\ b = Len(ext)
  <2>1. a = 1 \/ ext[a - 1] # Comma
    <3>1. CASE a # 1
      <4>1. a - 1 \in 1 .. Len(ext)
        BY <1>1, <3>1
      <4> QED BY <1>1, <4>1
    <3> QED BY <3>1
  <2>2. b = Len(ext) \/ ext[b + 1] # Comma
    <3>1. CASE b # Len(ext)
      <4>1. b \in Int /\ b <= Len(ext) /\ Len(ext) \in Int
        BY <1>1
      <4>3. b < Len(ext)
        BY <3>1, <4>1
      <4>2. b + 1 \in 1 .. Len(ext)
        BY <4>1, <4>3
      <4> QED BY <1>1, <4>2
    <3> QED BY <3>1
  <2>3. \A k \in a .. b : ext[k] # Comma
    <3>1. \A k \in a .. b : k \in 1 .. Len(ext)
      BY <1>1
    <3> QED BY <1>1, <3>1
  <2>4. a = 1 /\ b = Len(ext) => a <= b
    BY <1>1
  <2> QED BY <2>1, <2>2, <2>3, <2>4 DEF Token
<1>4. 1 \in 1 .. Len(ext) /\ Len(ext) \in 1 .. Len(ext)
  BY <1>1
<1>5. ASSUME NEW a \in DOMAIN ext, NEW b \in DOMAIN ext, Token(ext, Comma, a, b)
      PROVE  SubSeq(ext, a, b) = ext
  <2>1. a \in 1 .. Len(ext) /\ b \in 1 .. Len(ext)
    BY <1>1
  <2>2. a = 1 /\ b = Len(ext)
    BY <1>3, <1>5, <2>1
  <2> QED BY <1>2, <2>2
<1>6. Token(ext, Comma, 1, Len(ext)) /\ 1 \in DOMAIN ext /\ Len(ext) \in DOMAIN ext
  BY <1>1, <1>3, <1>4
<1> QED BY <1>2, <1>5, <1>6 DEF strtokcmp

LEMMA LowerDot == ASSUME NEW c \in Nat PROVE ToLower(c) = Dot <=> c = Dot
BY DEF ToLower, Dot

\* The end of a name, as long as the extension.
Ending(name, ext) == SubSeq(name, Len(name) - Len(ext) + 1, Len(name))

LEMMA TailIs ==
  ASSUME NEW s \in Strings, NEW k \in 1 .. Len(s)
  PROVE  /\ SubSeq(s, k, Len(s)) \in Strings /\ Len(SubSeq(s, k, Len(s))) = Len(s) - k + 1
         /\ \A j \in 1 .. Len(s) - k + 1 : SubSeq(s, k, Len(s))[j] = s[k + j - 1]
<1>1. Len(s) \in Nat /\ \A j \in 1 .. Len(s) : s[j] \in Chars
  BY LenProperties DEF Strings
<1>2. k \in Int /\ Len(s) \in Int /\ k <= Len(s) /\ \A j \in k .. Len(s) : s[j] \in Chars
  BY <1>1
<1>3. SubSeq(s, k, Len(s)) \in Seq(Chars)
  BY <1>2, SubSeqProperties
<1> QED BY <1>2, <1>3, SubSeqProperties DEF Strings

\* FileNames equal but for case have dots at the same places.
LEMMA SameDots ==
  ASSUME NEW s \in Strings, NEW t \in Strings, SameIgnoringCase(s, t)
  PROVE  /\ Len(s) = Len(t)
         /\ \A k \in 1 .. Len(s) : s[k] = Dot <=> t[k] = Dot
<1>1. Len(s) = Len(t)
  BY LowerIs DEF SameIgnoringCase
<1>2. ASSUME NEW k \in 1 .. Len(s) PROVE s[k] = Dot <=> t[k] = Dot
  <2>1. Lower(s)[k] = ToLower(s[k]) /\ s[k] \in Nat
    BY LowerIs DEF Chars
  <2>2. Lower(t)[k] = ToLower(t[k]) /\ t[k] \in Nat
    BY <1>1, LowerIs DEF Chars
  <2>3. ToLower(s[k]) = ToLower(t[k])
    BY <2>1, <2>2 DEF SameIgnoringCase
  <2> QED BY <2>1, <2>2, <2>3, LowerDot
<1> QED BY <1>1, <1>2

\* What follows the last dot is the extension exactly when the name ends with it.
LEMMA ExtensionIs ==
  ASSUME NEW name \in Strings, NEW ext, Extension(ext)
  PROVE  (FromLast(name, Dot) # <<>> /\ SameIgnoringCase(FromLast(name, Dot), ext)) <=>
         (Len(name) >= Len(ext) /\ SameIgnoringCase(Ending(name, ext), ext))
<1> DEFINE at == {k \in DOMAIN name : name[k] = Dot}
           last == CHOOSE k \in at : \A j \in at : j <= k
           q == Len(name) - Len(ext) + 1
<1>1. Len(name) \in Nat /\ DOMAIN name = 1 .. Len(name)
  BY LenProperties DEF Strings
<1>2. /\ ext \in Strings /\ Len(ext) \in Nat /\ Len(ext) >= 1 /\ ext[1] = Dot
      /\ \A k \in 2 .. Len(ext) : ext[k] # Dot
  BY LenProperties DEF Extension, Strings
<1>3. FromLast(name, Dot) = IF at = {} THEN <<>> ELSE SubSeq(name, last, Len(name))
  BY DEF FromLast
<1>4. at # {} => last \in at /\ last \in 1 .. Len(name) /\ \A j \in at : j <= last
  <2>1. at \subseteq 0 .. Len(name)
    BY <1>1
  <2>2. at # {} => \E m \in at : \A n \in at : n <= m
    BY <1>1, <2>1, Greatest
  <2>3. at # {} => last \in at /\ \A j \in at : j <= last
    BY <2>2
  <2> HIDE DEF last
  <2> QED BY <1>1, <2>3
<1>5. \A k \in 1 .. Len(name) : k \in at <=> name[k] = Dot
  BY <1>1
<1> HIDE DEF at, last
<1>6. ASSUME FromLast(name, Dot) # <<>>, SameIgnoringCase(FromLast(name, Dot), ext)
      PROVE  Len(name) >= Len(ext) /\ SameIgnoringCase(Ending(name, ext), ext)
  <2>1. at # {} /\ FromLast(name, Dot) = SubSeq(name, last, Len(name)) /\ last \in 1 .. Len(name)
    BY <1>3, <1>4, <1>6
  <2>2. /\ SubSeq(name, last, Len(name)) \in Strings
        /\ Len(SubSeq(name, last, Len(name))) = Len(name) - last + 1
    BY <2>1, TailIs
  <2>3. Len(name) - last + 1 = Len(ext)
    BY <1>2, <1>6, <2>1, <2>2, SameDots
  <2>4. Len(name) >= Len(ext) /\ q = last
    BY <1>1, <1>2, <2>1, <2>3
  <2> QED BY <1>6, <2>1, <2>4 DEF Ending
<1>7. ASSUME Len(name) >= Len(ext), SameIgnoringCase(Ending(name, ext), ext)
      PROVE  FromLast(name, Dot) # <<>> /\ SameIgnoringCase(FromLast(name, Dot), ext)
  <2>1. q \in 1 .. Len(name) /\ Len(name) - q + 1 = Len(ext)
    BY <1>1, <1>2, <1>7
  <2>2. Ending(name, ext) = SubSeq(name, q, Len(name))
    BY DEF Ending
  <2> HIDE DEF q
  <2> DEFINE t == SubSeq(name, q, Len(name))
  <2>3. /\ t \in Strings /\ Len(t) = Len(ext)
        /\ \A j \in 1 .. Len(ext) : t[j] = name[q + j - 1]
    BY <2>1, TailIs
  <2> HIDE DEF t
  <2>4. \A j \in 1 .. Len(ext) : t[j] = Dot <=> ext[j] = Dot
    <3>1. t = Ending(name, ext)
      BY <2>2 DEF t
    <3>2. SameIgnoringCase(t, ext)
      BY <1>7, <3>1
    <3> QED BY <1>2, <2>3, <3>2, SameDots
  <2>5. name[q] = Dot
    <3>1. 1 \in 1 .. Len(ext) /\ q + 1 - 1 = q
      BY <1>2, <2>1
    <3> QED BY <1>2, <2>3, <2>4, <3>1
  <2>6. ASSUME NEW k \in 1 .. Len(name), k > q PROVE name[k] # Dot
    <3> DEFINE j == k - q + 1
    <3>1. j \in 1 .. Len(ext) /\ j \in 2 .. Len(ext) /\ q + j - 1 = k
      BY <1>1, <1>2, <2>1, <2>6
    <3> HIDE DEF j
    <3> QED BY <1>2, <2>3, <2>4, <3>1
  <2>7. q \in at
    BY <1>5, <2>1, <2>5
  <2>8. last = q
    <3>1. last \in at /\ last \in 1 .. Len(name) /\ q <= last
      BY <1>4, <2>7
    <3>2. ~(last > q)
      BY <1>5, <2>6, <3>1
    <3> QED BY <1>1, <2>1, <3>1, <3>2
  <2>9. FromLast(name, Dot) = t
    BY <1>3, <2>7, <2>8 DEF t
  <2>10. t # <<>>
    BY <1>2, <2>3
  <2> QED BY <1>7, <2>2, <2>9, <2>10 DEF t
<1> QED BY <1>6, <1>7

=============================================================================

---------------------------- MODULE LinkerProofs ----------------------------
(***************************************************************************)
(* Proofs about Linker, for every word, half and branch size, every place  *)
(* the module may be loaded to, every set of trampolines and every set of  *)
(* relocations; and about Tables: what is proved of Linker holds for       *)
(* modules whose relocations are read from tables, readable or not, and a  *)
(* module that runs has had all of them applied.                           *)
(***************************************************************************)
EXTENDS Tables, TLAPS

-----------------------------------------------------------------------------
(* Words *)

LEMMA ModRange ==
  ASSUME NEW n \in Nat \ {0}, NEW x \in Int PROVE x % n \in 0 .. n - 1
  BY SMT

LEMMA ModSame ==
  ASSUME NEW n \in Nat \ {0}, NEW x \in 0 .. n - 1
  PROVE x % n = x /\ (x + n) % n = x /\ (x - n) % n = x
  BY SMT

\* A number within one n of the word range is reduced by at most one n.
LEMMA ModNear ==
  ASSUME NEW n \in Nat \ {0}, NEW x \in Int, -n < x, x < n
  PROVE x % n = IF x < 0 THEN x + n ELSE x
<1>1. CASE x < 0
  <2>1. x + n \in 0 .. n - 1 BY <1>1
  <2>2. ((x + n) - n) % n = x + n BY <2>1, ModSame
  <2> QED BY <2>2, <1>1
<1>2. CASE x >= 0
  BY <1>2, ModSame
<1> QED BY <1>1, <1>2

\* What is sign-extended from a field is what was stored in it.
LEMMA SignedMod ==
  ASSUME NEW n \in Nat, n >= 8, n % 2 = 0, NEW d \in Int, Reachable(d, n)
  PROVE Signed(d % n, n) = d
<1>1. n = 2 * (n \div 2) BY SMT
<1>2. -(n \div 2) < d /\ d < n \div 2 BY <1>1 DEF Reachable
<1>3. n \in Nat \ {0} /\ -n < d /\ d < n BY <1>1, <1>2
<1>4. d % n = IF d < 0 THEN d + n ELSE d BY ONLY <1>3, ModNear, d \in Int
<1> QED BY <1>1, <1>2, <1>4 DEF Signed

LEMMA WordPositive == Word \in Nat /\ Word >= 64 /\ Half \in Nat /\ Field \in Nat
<1>1. Half \in Nat /\ Half >= 8 /\ Word = Half * Half /\ Field \in Nat
  BY WordAssumption DEF WordAssumption
<1>2. Half * Half >= 64 BY <1>1, SMT
<1> QED BY <1>1, <1>2

\* A word taken as a signed distance leads from `from` to `to`.
LEMMA DistanceLeads ==
  ASSUME NEW to \in 0 .. Word - 1, NEW from \in 0 .. Word - 1
  PROVE /\ Distance(to, from) \in Int
        /\ (from + Distance(to, from)) % Word = to
<1> DEFINE q == (to - from) % Word
<1>1. Word \in Nat \ {0} BY WordPositive
<1>2. to - from \in Int /\ -Word < to - from /\ to - from < Word BY <1>1
<1>3. q = IF to - from < 0 THEN to - from + Word ELSE to - from
  BY ONLY <1>1, <1>2, ModNear
<1> HIDE DEF q
<1>4. Signed(q, Word) = q \/ Signed(q, Word) = q - Word BY DEF Signed
<1>5. Distance(to, from) = Signed(q, Word) BY DEF Distance, q
<1>6. from + Distance(to, from) \in {to, to + Word, to - Word}
  BY <1>1, <1>3, <1>4, <1>5
<1>7. to % Word = to /\ (to + Word) % Word = to /\ (to - Word) % Word = to
  BY <1>1, ModSame
<1>8. Distance(to, from) \in Int BY <1>1, <1>3, <1>4, <1>5
<1> QED BY <1>6, <1>7, <1>8

LEMMA ModWord == ASSUME NEW x \in Int PROVE x % Word \in 0 .. Word - 1
  BY ModRange, WordPositive

LEMMA AddressTypes ==
  /\ {TextVA, DataVA, ImportVA, Text, Data} \subseteq Int
  /\ \A i \in Slots : SlotAt[i] \in 0 .. Word - 1
  BY AddressAssumption, WordPositive DEF AddressAssumption

LEMMA RelocTypes ==
  ASSUME NEW r \in Relocs PROVE r.offset \in Int /\ r.addend \in Int /\ r.sym \in Int
  BY RelocAssumption, AddressTypes, WordPositive DEF RelocAssumption

LEMMA PlaceType == ASSUME NEW r \in Relocs PROVE Place(r) \in 0 .. Word - 1
<1> DEFINE off == IF r.offset \in TextVA .. DataVA - 1 THEN r.offset - TextVA
                  ELSE IF r.offset \in DataVA .. ImportVA - 1 THEN r.offset - DataVA
                  ELSE IF r.offset >= ImportVA THEN r.offset - ImportVA
                  ELSE r.offset
<1>1. off \in Int BY RelocTypes, AddressTypes
<1>2. Base(r) \in Int BY AddressTypes DEF Base
<1>3. Base(r) + off \in Int BY <1>1, <1>2
<1>4. Base(r) + r.offset - TextVA \in Int BY <1>2, RelocTypes, AddressTypes
<1> HIDE DEF off
<1>5. (Base(r) + off) % Word \in 0 .. Word - 1 BY <1>3, ModWord
<1>6. (Base(r) + r.offset - TextVA) % Word \in 0 .. Word - 1 BY <1>4, ModWord
<1> QED BY <1>5, <1>6 DEF Place, PlaceInSection, PlaceOfImport, off

LEMMA ValueType == ASSUME NEW r \in Relocs PROVE Value(r) \in 0 .. Word - 1
<1>1. r.sym - TextVA + Text \in Int /\ r.sym - DataVA + Data \in Int
  BY RelocTypes, AddressTypes
<1>2. (r.sym - TextVA + Text) % Word \in Int /\ (r.sym - DataVA + Data) % Word \in Int
  BY <1>1, ModWord, WordPositive
<1>3. SymbolAddress(r) \in Int BY <1>2, RelocTypes DEF SymbolAddress
<1> DEFINE to == IF r.import = Local THEN SymbolAddress(r) ELSE r.sym
<1>4. to + r.addend \in Int BY <1>3, RelocTypes
<1> HIDE DEF to
<1>5. (to + r.addend) % Word \in 0 .. Word - 1 BY <1>4, ModWord
<1> QED BY <1>5 DEF Value, to

LEMMA WidthType == ASSUME NEW r PROVE Width(r) \in Nat /\ Width(r) >= 8 /\ Width(r) % 2 = 0
                                      /\ Width(r) <= Word
<1>1. Half \in Nat /\ Half >= 8 /\ Half % 2 = 0 /\ Word = Half * Half
      /\ Field \in Nat /\ Field >= 8 /\ Field % 2 = 0 /\ Field <= Word
  BY WordAssumption DEF WordAssumption
<1>2. Half <= Half * Half BY <1>1, SMT
<1> QED BY <1>1, <1>2 DEF Width

\* A branch with a reachable displacement, executed, goes to where it points.
LEMMA DirectLeads ==
  ASSUME NEW r \in Relocs, NEW to \in 0 .. Word - 1, Direct(r, to)
  PROVE (Place(r) + Signed(Displacement(r, to), Width(r))) % Word = to
<1>1. Distance(to, Place(r)) \in Int /\ (Place(r) + Distance(to, Place(r))) % Word = to
  BY DistanceLeads, PlaceType
<1>2. Reachable(Distance(to, Place(r)), Width(r)) BY DEF Direct
<1>3. Signed(Displacement(r, to), Width(r)) = Distance(to, Place(r))
  BY <1>1, <1>2, SignedMod, WidthType DEF Displacement
<1> QED BY <1>1, <1>3

LEMMA DisplacementType ==
  ASSUME NEW r \in Relocs, NEW to \in 0 .. Word - 1
  PROVE Displacement(r, to) \in 0 .. Word - 1
<1>1. Distance(to, Place(r)) \in Int BY DistanceLeads, PlaceType
<1>2. Width(r) \in Nat \ {0} /\ Width(r) <= Word BY WidthType
<1>3. Distance(to, Place(r)) % Width(r) \in 0 .. Width(r) - 1 BY <1>1, <1>2, ModRange
<1> QED BY <1>2, <1>3, WordPositive DEF Displacement

LEMMA JumpType ==
  ASSUME NEW r \in Relocs, NEW i \in Slots PROVE Jump(r, i) \in 0 .. Word - 1
<1>1. SlotAt[i] + r.addend \in Int BY AddressTypes, RelocTypes, WordPositive
<1> QED BY <1>1, ModWord DEF Jump

LEMMA DivType ==
  ASSUME NEW x \in Nat, NEW n \in Nat \ {0}
  PROVE x \div n \in 0 .. x
<1>1. x = n * (x \div n) + (x % n) /\ x % n \in 0 .. n - 1 /\ x \div n \in Int BY SMT
<1>2. x \div n >= 0 BY <1>1, SMT
<1>3. x \div n <= n * (x \div n) BY <1>1, <1>2, SMT
<1> QED BY <1>1, <1>2, <1>3

LEMMA HalfTypes ==
  ASSUME NEW x \in 0 .. Word - 1
  PROVE /\ Lo(x) \in 0 .. Half - 1 /\ Lo(x) \in 0 .. Word - 1
        /\ Hi(x) \in 0 .. Word - 1 /\ Ha(x) \in 0 .. Word - 1
<1>1. Half \in Nat \ {0} /\ Half <= Word /\ Word \in Nat
  <2>1. Half \in Nat /\ Half >= 8 /\ Word = Half * Half
    BY WordAssumption DEF WordAssumption
  <2>2. Half <= Half * Half BY <2>1, SMT
  <2> QED BY <2>1, <2>2, WordPositive
<1>2. x \in Nat /\ x < Word BY <1>1
<1>3. Lo(x) \in 0 .. Half - 1 BY <1>1, <1>2, ModRange DEF Lo
<1>4. Hi(x) \in 0 .. x BY <1>1, <1>2, DivType DEF Hi
<1>5. Half \div 2 \in Int BY <1>1
<1>6. (x + Half \div 2) % Word \in 0 .. Word - 1 BY <1>2, <1>5, ModWord
<1> DEFINE y == (x + Half \div 2) % Word
<1>7. y \in Nat /\ y < Word BY <1>6, <1>1
<1> HIDE DEF y
<1>8. y \div Half \in 0 .. y BY <1>1, <1>7, DivType
<1>9. Ha(x) \in 0 .. Word - 1 BY <1>1, <1>7, <1>8 DEF Ha, y
<1> QED BY <1>1, <1>2, <1>3, <1>4, <1>9

LEMMA BitsType ==
  ASSUME NEW r \in Relocs, r.type \in Stores \cup Branches
  PROVE Bits(r) \in 0 .. Word - 1
<1>1. CASE r.type \in Branches BY <1>1, DisplacementType, ValueType DEF Bits
<1>2. CASE r.type \in Stores /\ r.type \notin Branches
  <2> DEFINE rel == (Value(r) - Place(r)) % Word
  <2>1. Value(r) - Place(r) \in Int BY ValueType, PlaceType, WordPositive
  <2>2. rel \in 0 .. Word - 1 BY <2>1, ModWord
  <2>3. Value(r) \in 0 .. Word - 1 BY ValueType
  <2> HIDE DEF rel
  <2>4. Stored(r) \in {Value(r), Lo(Value(r)), Hi(Value(r)), Ha(Value(r)),
                       Lo(rel), Hi(rel), Ha(rel)}
    BY <1>2 DEF Stored, Stores, rel
  <2> QED BY <1>2, <2>2, <2>3, <2>4, HalfTypes DEF Bits
<1> QED BY <1>1, <1>2

-----------------------------------------------------------------------------
(* The invariant *)

LEMMA InitLinkInv == Init => LinkInv
<1> SUFFICES ASSUME Init PROVE LinkInv OBVIOUS
<1>1. TypeOK BY WordPositive DEF Init, Begin, TypeOK
<1>2. StoredInPlace /\ FixedHaveSlots BY DEF Init, Begin, StoredInPlace, FixedHaveSlots
<1>3. RefsListed BY DEF Init, Begin, RefsListed
<1> QED BY <1>1, <1>2, <1>3 DEF LinkInv

LEMMA WriteEffect ==
  ASSUME NEW r \in Relocs, NEW bits, Write(r, bits)
  PROVE /\ DOMAIN mem' = DOMAIN mem \cup {Place(r)}
        /\ mem'[Place(r)] = bits
        /\ \A a \in DOMAIN mem : a # Place(r) => mem'[a] = mem[a]
  BY DEF Write

LEMMA DoneTypes ==
  ASSUME TypeOK
  PROVE /\ relocs \subseteq Relocs /\ done \subseteq relocs
        /\ \A r, s \in relocs : Place(r) = Place(s) => r = s
  BY PlaceAssumption DEF TypeOK, PlaceAssumption, Relocs

\* A relocation that did not write leaves the others, and is none that is stored.
LEMMA NothingStep ==
  ASSUME LinkInv, NEW r \in relocs, LinkNothing(r), done' = done \cup {r}
  PROVE StoredInPlace' /\ FixedHaveSlots'
<1>1. r.type \notin Stores \cup Branches /\ ~Far(r)
  BY DEF LinkNothing, Stores, Branches, Far
<1>2. StoredInPlace' BY <1>1 DEF LinkInv, StoredInPlace, LinkNothing
<1>3. FixedHaveSlots' BY <1>1 DEF LinkInv, FixedHaveSlots, HasSlot, LinkNothing
<1> QED BY <1>2, <1>3

\* A write at the place of a new relocation leaves what the others stored.
LEMMA OthersStored ==
  ASSUME LinkInv, NEW r \in relocs \ done, NEW bits, Write(r, bits),
         NEW s \in done, s.type \in Stores \/ (s.type \in Branches /\ ~Far(s))
  PROVE /\ Place(s) \in DOMAIN mem' /\ mem'[Place(s)] = Bits(s)
        /\ s.type \in Branches => Direct(s, Value(s))
<1>1. s \in relocs /\ Place(s) # Place(r) /\ r \in Relocs BY DoneTypes DEF LinkInv
<1>2. /\ Place(s) \in DOMAIN mem /\ mem[Place(s)] = Bits(s)
      /\ s.type \in Branches => Direct(s, Value(s))
  BY DEF LinkInv, StoredInPlace
<1> QED BY <1>1, <1>2, WriteEffect

LEMMA InPlaceStep ==
  ASSUME LinkInv, NEW r \in relocs \ done, LinkInPlace(r), done' = done \cup {r}
  PROVE StoredInPlace' /\ FixedHaveSlots'
<1>1. r \in Relocs /\ InPlace(r) /\ Write(r, Bits(r)) /\ slots' = slots
  BY DoneTypes DEF LinkInv, LinkInPlace
<1>2. r.type \in Branches => Direct(r, Value(r))
  BY <1>1 DEF InPlace, Stores, Branches
<1>3. ~Far(r)
  BY <1>2 DEF Far, Direct, Width, Branches
<1>4. Place(r) \in DOMAIN mem' /\ mem'[Place(r)] = Bits(r) BY <1>1, WriteEffect
<1>5. StoredInPlace'
  <2> SUFFICES ASSUME NEW s \in done', s.type \in Stores \/ (s.type \in Branches /\ ~Far(s))
               PROVE /\ Place(s) \in DOMAIN mem' /\ mem'[Place(s)] = Bits(s)
                     /\ s.type \in Branches => Direct(s, Value(s))
    BY DEF StoredInPlace
  <2>1. CASE s = r BY <2>1, <1>2, <1>4
  <2>2. CASE s \in done BY <2>2, <1>1, OthersStored
  <2> QED BY <2>1, <2>2
<1>6. FixedHaveSlots'
  <2> SUFFICES ASSUME NEW s \in done', Far(s), s.import = Local
               PROVE \E i \in Slots : HasSlot(s, i)'
    BY DEF FixedHaveSlots
  <2>1. s \in done /\ s \in relocs /\ Place(s) # Place(r)
    BY <1>3, DoneTypes DEF LinkInv
  <2>2. PICK i \in Slots : HasSlot(s, i) BY <2>1 DEF LinkInv, FixedHaveSlots
  <2>3. HasSlot(s, i)' BY <1>1, <2>1, <2>2, WriteEffect DEF HasSlot
  <2> QED BY <2>3
<1> QED BY <1>5, <1>6

\* The trampoline taken was no fixed one, so the fixed branches keep theirs.
LEMMA ViaSlotStep ==
  ASSUME LinkInv, NEW r \in relocs \ done, NEW status \in {"fixed", "importDone"},
         r.import = Local => status = "fixed",
         LinkViaSlot(r, status), done' = done \cup {r}
  PROVE StoredInPlace' /\ FixedHaveSlots'
<1>1. PICK i \in Slots :
        /\ ViaSlot(r, i)
        /\ Write(r, Displacement(r, Jump(r, i)))
        /\ slots' = [slots EXCEPT ![i] = [status |-> status, to |-> Value(r)]]
  BY DEF LinkViaSlot
<1>2. r \in Relocs /\ Far(r) /\ slots[i].status # "fixed" /\ Direct(r, Jump(r, i))
  BY <1>1, DoneTypes DEF LinkInv, ViaSlot, Reusable
<1>3. i \in DOMAIN slots BY DEF LinkInv, TypeOK
<1>4. slots'[i] = [status |-> status, to |-> Value(r)] /\ \A j \in Slots : j # i => slots'[j] = slots[j]
  BY <1>1, <1>3 DEF LinkInv, TypeOK
<1>5. StoredInPlace'
  <2> SUFFICES ASSUME NEW s \in done', s.type \in Stores \/ (s.type \in Branches /\ ~Far(s))
               PROVE /\ Place(s) \in DOMAIN mem' /\ mem'[Place(s)] = Bits(s)
                     /\ s.type \in Branches => Direct(s, Value(s))
    BY DEF StoredInPlace
  <2>1. s # r BY <1>2 DEF Far, Stores
  <2> QED BY <2>1, <1>1, OthersStored
<1>6. FixedHaveSlots'
  <2> SUFFICES ASSUME NEW s \in done', Far(s), s.import = Local
               PROVE \E j \in Slots : HasSlot(s, j)'
    BY DEF FixedHaveSlots
  <2>1. CASE s = r
    <3>1. Place(r) \in DOMAIN mem' /\ mem'[Place(r)] = Displacement(r, Jump(r, i))
      BY <1>1, <1>2, WriteEffect
    <3>2. slots'[i].status = "fixed" /\ slots'[i].to = Value(r) BY <2>1, <1>4
    <3> QED BY <2>1, <3>1, <3>2, <1>2 DEF HasSlot
  <2>2. CASE s \in done
    <3>1. s \in relocs /\ Place(s) # Place(r) BY <2>2, DoneTypes DEF LinkInv
    <3>2. PICK j \in Slots : HasSlot(s, j) BY <2>2 DEF LinkInv, FixedHaveSlots
    <3>3. j # i BY <3>2, <1>2 DEF HasSlot
    <3>4. HasSlot(s, j)' BY <1>1, <1>2, <1>4, <3>1, <3>2, <3>3, WriteEffect DEF HasSlot
    <3> QED BY <3>4
  <2> QED BY <2>1, <2>2
<1> QED BY <1>5, <1>6

\* What elfLinkOne writes is bits, and addresses.
LEMMA LinkTypes ==
  ASSUME LinkInv, NEW r \in relocs, NEW status \in {"fixed", "importDone"},
         elfLinkOne(r, status)
  PROVE /\ DOMAIN mem' \subseteq 0 .. Word - 1
        /\ \A a \in DOMAIN mem' : mem'[a] \in 0 .. Word - 1
        /\ slots' \in [Slots -> [status : {"free", "fixed", "importDone"}, to : 0 .. Word - 1]]
<1>1. r \in Relocs /\ Place(r) \in 0 .. Word - 1 /\ Value(r) \in 0 .. Word - 1
  BY DoneTypes, PlaceType, ValueType DEF LinkInv
<1>2. ASSUME NEW bits \in 0 .. Word - 1, Write(r, bits)
      PROVE /\ DOMAIN mem' \subseteq 0 .. Word - 1
            /\ \A a \in DOMAIN mem' : mem'[a] \in 0 .. Word - 1
  BY <1>1, <1>2, WriteEffect DEF LinkInv, TypeOK
<1>3. CASE LinkNothing(r) BY <1>3 DEF LinkNothing, LinkInv, TypeOK
<1>4. CASE LinkInPlace(r)
  <2>1. Bits(r) \in 0 .. Word - 1 BY <1>1, <1>4, BitsType DEF LinkInPlace, InPlace
  <2> QED BY <2>1, <1>2, <1>4 DEF LinkInPlace, LinkInv, TypeOK
<1>5. CASE LinkViaSlot(r, status)
  <2>1. PICK i \in Slots :
          /\ Write(r, Displacement(r, Jump(r, i)))
          /\ slots' = [slots EXCEPT ![i] = [status |-> status, to |-> Value(r)]]
    BY <1>5 DEF LinkViaSlot
  <2>2. Displacement(r, Jump(r, i)) \in 0 .. Word - 1
    BY <1>1, JumpType, DisplacementType
  <2> QED BY <2>1, <2>2, <1>1, <1>2 DEF LinkInv, TypeOK
<1> QED BY <1>3, <1>4, <1>5 DEF elfLinkOne

\* The two passes link a relocation alike.
LEMMA LinkStep ==
  ASSUME LinkInv, NEW r \in relocs \ done, NEW status \in {"fixed", "importDone"},
         r.import = Local => status = "fixed",
         elfLinkOne(r, status), done' = done \cup {r}
  PROVE StoredInPlace' /\ FixedHaveSlots'
  BY NothingStep, InPlaceStep, ViaSlotStep DEF elfLinkOne

LEMMA LinkSectionStep == LinkInv /\ linkSection => LinkInv'
<1> SUFFICES ASSUME LinkInv, linkSection PROVE LinkInv' OBVIOUS
<1>1. CASE Fatal
  BY <1>1 DEF Fatal, LinkInv, TypeOK, StoredInPlace, FixedHaveSlots, HasSlot, RefsListed
<1>2. CASE \E r \in Pending(FALSE) :
             /\ elfLinkOne(r, "fixed") /\ done' = done \cup {r}
             /\ UNCHANGED <<phase, relocs, usedRPls, refs>>
  <2>1. PICK r \in relocs \ done :
          /\ r.import = Local /\ elfLinkOne(r, "fixed") /\ done' = done \cup {r}
          /\ UNCHANGED <<phase, relocs, usedRPls, refs>>
    BY <1>2 DEF Pending
  <2>2. TypeOK' BY <2>1, LinkTypes DEF LinkInv, TypeOK
  <2>3. StoredInPlace' /\ FixedHaveSlots' BY <2>1, LinkStep
  <2>4. RefsListed' BY <2>1 DEF LinkInv, RefsListed
  <2> QED BY <2>2, <2>3, <2>4 DEF LinkInv
<1> QED BY <1>1, <1>2 DEF linkSection

LEMMA DoRelocationStep == LinkInv /\ doRelocation => LinkInv'
<1> SUFFICES ASSUME LinkInv, doRelocation PROVE LinkInv' OBVIOUS
<1>1. CASE Fatal
  BY <1>1 DEF Fatal, LinkInv, TypeOK, StoredInPlace, FixedHaveSlots, HasSlot, RefsListed
<1>2. CASE \E r \in Pending(TRUE) :
             /\ Acquire(r.import)
             /\ elfLinkOne(r, "importDone") /\ done' = done \cup {r}
             /\ UNCHANGED <<phase, relocs>>
  <2>1. PICK r \in relocs \ done :
          /\ r.import # Local /\ Acquire(r.import)
          /\ elfLinkOne(r, "importDone") /\ done' = done \cup {r}
          /\ UNCHANGED <<phase, relocs>>
    BY <1>2 DEF Pending
  <2>2. phase = "imports" BY DEF doRelocation
  <2>3. r.import \in Rpls BY <2>1, DoneTypes DEF LinkInv, Rpls
  <2>4. /\ usedRPls' = usedRPls \cup {r.import} /\ refs' \in [Rpls -> Nat]
        /\ \A l \in Rpls : refs'[l] = IF l \in usedRPls' THEN 1 ELSE 0
    BY <2>1, <2>3 DEF Acquire, LinkInv, TypeOK, RefsListed
  <2>5. TypeOK' BY <2>1, <2>3, <2>4, LinkTypes DEF LinkInv, TypeOK
  <2>6. StoredInPlace' /\ FixedHaveSlots' BY <2>1, LinkStep
  <2>7. RefsListed' BY <2>1, <2>2, <2>4 DEF LinkInv, RefsListed
  <2> QED BY <2>5, <2>6, <2>7 DEF LinkInv
<1> QED BY <1>1, <1>2 DEF doRelocation

LEMMA ReleaseStep == LinkInv /\ Release => LinkInv'
<1> SUFFICES ASSUME LinkInv, Release PROVE LinkInv' OBVIOUS
<1>1. StoredInPlace' /\ FixedHaveSlots'
  BY DEF Release, LinkInv, StoredInPlace, FixedHaveSlots, HasSlot
<1>2. CASE \E l \in usedRPls :
             /\ usedRPls' = usedRPls \ {l} /\ refs' = [refs EXCEPT ![l] = @ - 1]
             /\ UNCHANGED phase
  <2>1. PICK l \in usedRPls :
             /\ usedRPls' = usedRPls \ {l} /\ refs' = [refs EXCEPT ![l] = @ - 1]
             /\ UNCHANGED phase
    BY <1>2
  <2>2. /\ refs' \in [Rpls -> Nat]
        /\ \A k \in Rpls : refs'[k] = IF k \in usedRPls' THEN 1 ELSE 0
    BY <2>1 DEF LinkInv, TypeOK, RefsListed
  <2>3. TypeOK' BY <2>1, <2>2 DEF Release, LinkInv, TypeOK
  <2>4. RefsListed' BY <2>1, <2>2 DEF Release, LinkInv, RefsListed
  <2> QED BY <1>1, <2>3, <2>4 DEF LinkInv
<1>3. CASE usedRPls = {} /\ phase' = "ended" /\ UNCHANGED <<usedRPls, refs>>
  <2>1. TypeOK' BY <1>3 DEF Release, LinkInv, TypeOK
  <2>2. RefsListed' BY <1>3 DEF Release, LinkInv, RefsListed
  <2> QED BY <1>1, <2>1, <2>2 DEF LinkInv
<1> QED BY <1>2, <1>3 DEF Release

LEMMA NextLinkInv == LinkInv /\ [Next]_vars => LinkInv'
<1> SUFFICES ASSUME LinkInv, [Next]_vars PROVE LinkInv' OBVIOUS
<1>1. CASE linkSection BY <1>1, LinkSectionStep
<1>2. CASE doRelocation BY <1>2, DoRelocationStep
<1>3. CASE Release BY <1>3, ReleaseStep
<1>4. CASE Linked \/ Run \/ Back
  <2>1. UNCHANGED <<relocs, done, mem, slots, usedRPls, refs>>
    BY <1>4 DEF Linked, Run, Back
  <2>2. phase' \in {"imports", "running", "release"}
    BY <1>4 DEF Linked, Run, Back
  <2>3. TypeOK' BY <2>1, <2>2 DEF LinkInv, TypeOK
  <2>4. StoredInPlace' /\ FixedHaveSlots'
    BY <2>1 DEF LinkInv, StoredInPlace, FixedHaveSlots, HasSlot
  <2>5. RefsListed' BY <1>4, <2>1, <2>2 DEF Linked, Run, Back, LinkInv, RefsListed
  <2> QED BY <2>3, <2>4, <2>5 DEF LinkInv
<1>5. CASE UNCHANGED vars
  BY <1>5 DEF vars, LinkInv, TypeOK, StoredInPlace, FixedHaveSlots, HasSlot, RefsListed
<1> QED BY <1>1, <1>2, <1>3, <1>4, <1>5 DEF Next, Stopped

LEMMA LinkInvariance == Spec => []LinkInv
  BY InitLinkInv, NextLinkInv, PTL DEF Spec

-----------------------------------------------------------------------------
(* The theorems *)

\* Every variable of the linker keeps its type; what it stores are words.
THEOREM LinkerTypeCorrect == Spec => []TypeOK
<1>1. LinkInv => TypeOK BY DEF LinkInv
<1> QED BY <1>1, LinkInvariance, PTL

\* Where a branch with an untouched displacement to an address outside the trampolines,
\* or to a trampoline, takes the processor.
LEMMA LandsDirect ==
  ASSUME NEW r \in Relocs, r.type \in Branches, Direct(r, Value(r)),
         mem[Place(r)] = Displacement(r, Value(r))
  PROVE Lands(r) = Value(r)
<1>1. (Place(r) + Signed(mem[Place(r)], Width(r))) % Word = Value(r)
  BY DirectLeads, ValueType
<1>2. \A i \in Slots : SlotAt[i] # Value(r)
  BY PlaceAssumption DEF PlaceAssumption
<1> QED BY <1>1, <1>2 DEF Lands

LEMMA LandsViaSlot ==
  ASSUME NEW r \in Relocs, NEW i \in Slots, HasSlot(r, i), r.addend = 0
  PROVE Lands(r) = Value(r)
<1>1. Jump(r, i) = SlotAt[i]
  <2>1. SlotAt[i] + r.addend = SlotAt[i] /\ SlotAt[i] \in 0 .. Word - 1
    BY AddressTypes, WordPositive
  <2>2. SlotAt[i] % Word = SlotAt[i] BY <2>1, ModSame, WordPositive
  <2> QED BY <2>1, <2>2 DEF Jump
<1>2. (Place(r) + Signed(mem[Place(r)], Width(r))) % Word = SlotAt[i]
  BY <1>1, DirectLeads, JumpType DEF HasSlot
<1>3. \A j \in Slots : SlotAt[j] = SlotAt[i] => j = i
  BY AddressAssumption DEF AddressAssumption
<1>4. (CHOOSE j \in Slots : SlotAt[j] = SlotAt[i]) = i BY <1>3
<1>5. slots[i].status # "free" /\ slots[i].to = Value(r) BY DEF HasSlot
<1> QED BY <1>2, <1>4, <1>5 DEF Lands

LEMMA LinkInvBranches == ASSUME LinkInv PROVE BranchesLand
<1> SUFFICES ASSUME NEW r \in done, r.type \in Branches,
                    Far(r) => r.import = Local /\ r.addend = 0
             PROVE Lands(r) = Value(r)
  BY DEF BranchesLand
<1>1. r \in Relocs BY DoneTypes DEF LinkInv
<1>2. CASE ~Far(r)
  <2>1. mem[Place(r)] = Bits(r) /\ Direct(r, Value(r))
    BY <1>2 DEF LinkInv, StoredInPlace
  <2> QED BY <1>1, <2>1, LandsDirect DEF Bits
<1>3. CASE Far(r)
  <2>1. PICK i \in Slots : HasSlot(r, i) BY <1>3 DEF LinkInv, FixedHaveSlots
  <2> QED BY <1>1, <1>3, <2>1, LandsViaSlot
<1> QED BY <1>2, <1>3

\* Every near branch, and every far branch of the module to itself, goes where its
\* relocation says, however many imports are linked after it.
THEOREM BranchesAlwaysLand == Spec => []BranchesLand
<1>1. LinkInv => BranchesLand BY LinkInvBranches
<1> QED BY <1>1, LinkInvariance, PTL

\* While a module runs it holds a reference on every RPL it was linked to; afterwards
\* none is left.
THEOREM RplsAreHeld == Spec => []RplsHeld
<1>1. LinkInv => RplsHeld
  <2> SUFFICES ASSUME LinkInv PROVE RplsHeld OBVIOUS
  <2>1. \A r \in done : r.import # Local => r.import \in Rpls
    BY DoneTypes DEF LinkInv, Rpls
  <2> QED BY <2>1 DEF LinkInv, RefsListed, RplsHeld
<1> QED BY <1>1, LinkInvariance, PTL

-----------------------------------------------------------------------------
(* Halves of a word *)

\* More whole halves make a larger word.
LEMMA TimesGrows ==
  ASSUME NEW a \in Nat, NEW b \in Nat, NEW n \in Nat, a < b PROVE a * n + n <= b * n
<1> DEFINE d == b - a - 1
<1>1. d \in Nat /\ b = a + d + 1 OBVIOUS
<1> HIDE DEF d
<1>2. b * n = a * n + d * n + n BY <1>1, SMT
<1>3. d * n \in Nat /\ a * n \in Nat BY <1>1, SMT
<1>4. b * n \in Nat BY SMT
<1> QED BY <1>2, <1>3, <1>4

\* A word is in one way a number of halves and a rest.
LEMMA Split ==
  ASSUME NEW n \in Nat \ {0}, NEW q \in Nat, NEW l \in 0 .. n - 1, NEW x \in Nat, x = q * n + l
  PROVE x \div n = q /\ x % n = l
<1> DEFINE k == x \div n
           m == x % n
<1>1. k \in Nat /\ m \in 0 .. n - 1 /\ x = k * n + m BY SMT
<1> HIDE DEF k, m
<1>2. k * n \in Nat /\ q * n \in Nat BY <1>1, SMT
<1>3. ~(k < q)
  <2> SUFFICES ASSUME k < q PROVE FALSE OBVIOUS
  <2>1. k * n + n <= q * n BY <1>1, TimesGrows
  <2> QED BY <2>1, <1>1, <1>2
<1>4. ~(q < k)
  <2> SUFFICES ASSUME q < k PROVE FALSE OBVIOUS
  <2>1. q * n + n <= k * n BY <1>1, TimesGrows
  <2> QED BY <2>1, <1>1, <1>2
<1>5. k = q BY <1>1, <1>3, <1>4
<1>6. m = l BY <1>1, <1>2, <1>5
<1> QED BY <1>5, <1>6 DEF k, m

\* The high half, carried or not, and the low half make up the word they came from.
LEMMA Halves ==
  ASSUME NEW v \in 0 .. Word - 1
  PROVE /\ Hi(v) * Half + Lo(v) = v
        /\ (Ha(v) * Half + Signed(Lo(v), Half)) % Word = v
<1> DEFINE q == v \div Half
           l == v % Half
           h == Half \div 2
           p == q * Half
<1>1. Half \in Nat \ {0} /\ Half >= 8 /\ Half % 2 = 0 /\ Word = Half * Half
  BY WordAssumption DEF WordAssumption
<1>2. h \in Nat \ {0} /\ Half = 2 * h BY <1>1, SMT
<1>3. Word \in Nat \ {0} /\ v \in Nat BY <1>1, SMT
<1>4. q \in Nat /\ l \in 0 .. Half - 1 /\ p \in Nat /\ v = p + l BY <1>1, <1>3, SMT
<1>5. Hi(v) * Half + Lo(v) = v BY <1>4 DEF Hi, Lo
<1>6. Signed(Lo(v), Half) = IF l < h THEN l ELSE l - Half BY DEF Signed, Lo
<1>7. Ha(v) = ((v + h) % Word) \div Half BY DEF Ha
<1>8. q < Half
  <2> SUFFICES ASSUME q >= Half PROVE FALSE BY <1>1, <1>4
  <2>1. Half * Half <= q * Half
    <3>1. CASE q = Half BY <3>1, <1>1, SMT
    <3>2. CASE Half < q
      <4>1. Half * Half + Half <= q * Half BY <3>2, <1>1, <1>4, TimesGrows
      <4> QED BY <4>1, <1>1, <1>3, <1>4
    <3> HIDE DEF q
    <3> QED BY <3>1, <3>2, <1>1, <1>4
  <2> QED BY <2>1, <1>1, <1>3, <1>4
<1>9. p + Half <= Word
  BY <1>1, <1>4, <1>8, TimesGrows
<1> HIDE DEF l, h, q
<1>10. CASE l < h
  <2>1. v + h \in 0 .. Word - 1 /\ l + h \in 0 .. Half - 1
    <3> HIDE DEF p
    <3> QED BY <1>10, <1>2, <1>3, <1>4, <1>9
  <2>2. (v + h) % Word = v + h BY <2>1, <1>3, ModSame
  <2>3. v + h = q * Half + (l + h) 
    <3>1. v + h = p + (l + h)
      <4> HIDE DEF p
      <4> QED BY <1>2, <1>4
    <3> QED BY <3>1
  <2>4. (v + h) \div Half = q
    <3> DEFINE x == v + h
               rest == l + h
    <3>1. x \in Nat /\ q \in Nat BY <1>2, <1>3, <1>4
    <3>2. rest \in 0 .. Half - 1 /\ x = q * Half + rest BY <2>1, <2>3
    <3> HIDE DEF p, x, rest
    <3>3. x \div Half = q BY ONLY <3>1, <3>2, <1>1, Split
    <3> QED BY <3>3 DEF x
  <2>5. Ha(v) * Half + Signed(Lo(v), Half) = p + l BY <2>2, <2>4, <1>7, <1>6, <1>10
  <2>6. v % Word = v BY <1>3, ModSame
  <2> QED BY <2>5, <2>6, <1>4, <1>5
<1>11. CASE l >= h /\ q < Half - 1
  <2>1. (q + 1) * Half = p + Half BY <1>1, <1>4, SMT
  <2>2. p + Half + Half <= Word
    <3>1. (q + 1) * Half + Half <= Half * Half BY <1>1, <1>4, <1>11, TimesGrows
    <3> QED BY <3>1, <2>1, <1>1
  <2>3. v + h \in 0 .. Word - 1 /\ l - h \in 0 .. Half - 1
    <3> HIDE DEF p
    <3> QED BY <1>11, <1>2, <1>3, <1>4, <2>2
  <2>4. (v + h) % Word = v + h BY <2>3, <1>3, ModSame
  <2>5. v + h = (q + 1) * Half + (l - h)
    <3>1. v + h = (p + Half) + (l - h)
      <4> HIDE DEF p
      <4> QED BY <1>1, <1>2, <1>4
    <3> QED BY <3>1, <2>1
  <2>6. (v + h) \div Half = q + 1
    <3>1. v + h \in Nat /\ q + 1 \in Nat BY <1>2, <1>3, <1>4
    <3> HIDE DEF p
    <3> QED BY ONLY <3>1, <2>3, <2>5, <1>1, Split
  <2>7. Ha(v) * Half + Signed(Lo(v), Half) = (p + Half) + (l - Half)
    <3>1. Ha(v) = q + 1 BY <2>4, <2>6, <1>7
    <3>2. Ha(v) * Half = p + Half BY <3>1, <2>1
    <3>3. Signed(Lo(v), Half) = l - Half BY <1>6, <1>11, <1>2, <1>4
    <3> QED BY <3>2, <3>3
  <2>8. (p + Half) + (l - Half) = v
    <3> HIDE DEF p
    <3> QED BY <1>1, <1>4
  <2>9. v % Word = v BY <1>3, ModSame
  <2> QED BY <2>7, <2>8, <2>9, <1>5
<1>12. CASE l >= h /\ q = Half - 1
  <2>1. p = Word - Half BY <1>1, <1>12, SMT
  <2>2. v + h = Word + (l - h) /\ l - h \in 0 .. Half - 1 /\ Half <= Word
    <3> HIDE DEF p
    <3> QED BY <2>1, <1>12, <1>2, <1>3, <1>4
  <2>3. (v + h) % Word = l - h
    <3>1. l - h \in 0 .. Word - 1 BY <2>2, <1>3, <1>1
    <3>2. ((l - h) + Word) % Word = l - h BY ONLY <3>1, <1>3, ModSame
    <3>3. v + h = (l - h) + Word BY <2>2, <1>3, <1>2, <1>4
    <3> QED BY <3>2, <3>3
  <2>4. (l - h) \div Half = 0
    <3>1. l - h \in Nat /\ l - h = 0 * Half + (l - h) BY <2>2, <1>1
    <3> QED BY <3>1, <2>2, <1>1, Split
  <2>5. Ha(v) * Half + Signed(Lo(v), Half) = l - Half
    BY <2>3, <2>4, <1>7, <1>6, <1>12, <1>1, <1>2, <1>4
  <2>6. (l - Half) % Word = v
    <3>1. v = l - Half + Word
      <4> HIDE DEF p
      <4> QED BY <2>1, <1>1, <1>3, <1>4
    <3>2. l - Half \in Int /\ -Word < l - Half /\ l - Half < Word /\ l - Half < 0
      BY <2>2, <1>1, <1>3, <1>4, <1>8
    <3> QED BY <3>1, <3>2, <1>3, ModNear
  <2> QED BY <2>5, <2>6, <1>5
<1> QED BY <1>1, <1>2, <1>4, <1>8, <1>10, <1>11, <1>12

LEMMA LinkInvHalves == ASSUME LinkInv PROVE HalvesRebuild
<1> SUFFICES ASSUME NEW hi \in done, NEW lo \in done,
                    lo.type = "ADDR16_LO", Value(hi) = Value(lo)
             PROVE /\ hi.type = "ADDR16_HA" =>
                        (mem[Place(hi)] * Half + Signed(mem[Place(lo)], Half)) % Word = Value(hi)
                   /\ hi.type = "ADDR16_HI" =>
                        mem[Place(hi)] * Half + mem[Place(lo)] = Value(hi)
  BY DEF HalvesRebuild
<1>1. Value(hi) \in 0 .. Word - 1 BY DoneTypes, ValueType DEF LinkInv
<1>2. mem[Place(lo)] = Lo(Value(hi))
  BY DEF LinkInv, StoredInPlace, Stores, Branches, Bits, Stored
<1>3. hi.type = "ADDR16_HA" => mem[Place(hi)] = Ha(Value(hi))
  BY DEF LinkInv, StoredInPlace, Stores, Branches, Bits, Stored
<1>4. hi.type = "ADDR16_HI" => mem[Place(hi)] = Hi(Value(hi))
  BY DEF LinkInv, StoredInPlace, Stores, Branches, Bits, Stored
<1> QED BY <1>1, <1>2, <1>3, <1>4, Halves

\* lis and addi, or lis and ori, of the halves stored anywhere in a module rebuild the
\* address both relocations are about, whatever it is, the carry at 16 bits and the wrap
\* at the end of the address space included.
THEOREM HalvesAlwaysRebuild == Spec => []HalvesRebuild
<1>1. LinkInv => HalvesRebuild BY LinkInvHalves
<1> QED BY <1>1, LinkInvariance, PTL

-----------------------------------------------------------------------------
(* From the tables *)

\* What is true of the relocations, besides Linker's invariant: they are those the tables
\* hold, and none is pending once the module runs.
TablesInv ==
  /\ LinkInv
  /\ object \in Objects /\ relocs = RelocsOf(object)
  /\ phase \in {"imports", "running"} => \A r \in relocs \ done : r.import # Local
  /\ phase \in {"imports", "running"} => ~Unreadable(object)
  /\ phase = "running" => done = relocs

LEMMA InitTablesInv == TablesInit => TablesInv
<1> SUFFICES ASSUME TablesInit PROVE TablesInv
  OBVIOUS
<1>1. relocs \in Files BY ObjectsAssumption DEF TablesInit, ObjectsAssumption
<1>2. LinkInv BY <1>1, InitLinkInv DEF TablesInit, Init
<1> QED BY <1>2 DEF TablesInit, TablesInv, Begin

\* Giving up leaves what was stored alone.
LEMMA FatalKeepsLinkInv == LinkInv /\ Fatal => LinkInv'
  BY DEF Fatal, LinkInv, TypeOK, StoredInPlace, FixedHaveSlots, HasSlot, RefsListed

LEMMA NextTablesInv == TablesInv /\ [TablesNext]_<<vars, object>> => TablesInv'
<1> SUFFICES ASSUME TablesInv, [TablesNext]_<<vars, object>> PROVE TablesInv'
  OBVIOUS
<1> USE DEF TablesInv
<1>1. CASE UNCHANGED <<vars, object>>
  <2>1. LinkInv' BY <1>1, NextLinkInv
  <2> QED BY <1>1, <2>1 DEF vars
<1>2. CASE Fatal /\ UNCHANGED object
  <2>1. LinkInv' BY <1>2, FatalKeepsLinkInv
  <2> QED BY <1>2, <2>1 DEF Fatal
<1>3. CASE Next /\ UNCHANGED object /\ ~(phase = "link" /\ Unreadable(object))
  <2>1. LinkInv' BY <1>3, NextLinkInv
  <2>2. CASE linkSection
    BY <1>3, <2>1, <2>2 DEF linkSection, Fatal
  <2>3. CASE doRelocation
    BY <1>3, <2>1, <2>3 DEF doRelocation, Fatal
  <2>4. CASE Linked
    BY <1>3, <2>1, <2>4 DEF Linked, Pending
  <2>5. CASE Run
    <3>1. relocs \ done = {} BY <2>5 DEF Run, Pending
    <3>2. done \subseteq relocs BY DEF LinkInv, TypeOK
    <3>3. UNCHANGED <<relocs, done>> /\ phase' = "running" BY <2>5 DEF Run
    <3> QED BY <1>3, <2>1, <3>1, <3>2, <3>3
  <2>6. CASE Back \/ Release
    BY <1>3, <2>1, <2>6 DEF Back, Release
  <2>7. CASE Stopped
    BY <1>3, <2>1, <2>7 DEF Stopped, vars
  <2> QED BY <1>3, <2>2, <2>3, <2>4, <2>5, <2>6, <2>7 DEF Next
<1> QED BY <1>1, <1>2, <1>3 DEF TablesNext

LEMMA TablesInvariance == TablesSpec => []TablesInv
  BY InitTablesInv, NextTablesInv, PTL DEF TablesSpec

\* Whatever tables a module has, a branch in reach, or a far branch of the module to
\* itself, lands where the entry it was read from says.
THEOREM TablesBranchesLand == TablesSpec => []BranchesLand
<1>1. TablesInv => BranchesLand
  BY LinkInvBranches DEF TablesInv
<1> QED BY <1>1, TablesInvariance, PTL

\* Whatever tables a module has, the halves stored in it rebuild their addresses.
THEOREM TablesHalvesRebuild == TablesSpec => []HalvesRebuild
<1>1. TablesInv => HalvesRebuild
  BY LinkInvHalves DEF TablesInv
<1> QED BY <1>1, TablesInvariance, PTL

\* The entries of the sections linkSection walks through are those of the relocation
\* sections: what else it takes for one has no entries, or fails.
LEMMA WalkedEntries ==
  ASSUME NEW o \in Objects, ~LinkFails(o), Unshadowed(o)
  PROVE UNION {Entries(o, i) : i \in Walked(o)} = AllEntries(o)
<1>1. ASSUME NEW i \in Walked(o), NEW e \in Entries(o, i) PROVE e \in AllEntries(o)
  <2>1. PICK j \in Indices(o) : IsLoaded(SectionAt(o, j)) /\ i \in Found(o, j)
    BY DEF Walked
  <2>2. i \in Indices(o) /\ SectionAt(o, i).info = j BY <2>1 DEF Found
  <2>3. HasSymbol(o, SectionAt(o, i), e[2]) BY DEF LinkFails
  <2>4. IsRelocation(SectionAt(o, i)) BY <2>3, TablesAssumption DEF TablesAssumption
  <2>5. i \in Relocating(o) BY <2>1, <2>2, <2>4 DEF Relocating
  <2> QED BY <2>5 DEF AllEntries
<1>2. ASSUME NEW i \in Relocating(o) PROVE i \in Walked(o)
  <2>1. i \in Found(o, SectionAt(o, i).info) BY DEF Unshadowed
  <2>2. SectionAt(o, i).info \in Indices(o) /\ IsLoaded(SectionAt(o, SectionAt(o, i).info))
    BY DEF Relocating
  <2> QED BY <2>1, <2>2 DEF Walked
<1> QED BY <1>1, <1>2 DEF AllEntries

\* A scan that gets to its end has seen the imports of all of them, and of nothing else.
LEMMA ScannedImports ==
  ASSUME NEW o \in Objects, ~LinkFails(o), ScanEnds(o)
  PROVE Imports(o) = {e \in AllEntries(o) : Imported(o, SectionAt(o, e[1]), e[2])}
<1> DEFINE all == UNION {Entries(o, i) : i \in {x \in Indices(o) : IsRelocation(SectionAt(o, x))}}
<1>1. ASSUME NEW i \in Indices(o), NEW e \in Entries(o, i) PROVE e[1] = i
  BY DEF Entries
<1>2. ASSUME NEW e \in all PROVE HasSymbol(o, SectionAt(o, e[1]), e[2])
  <2>1. PICK i \in Indices(o) : IsRelocation(SectionAt(o, i)) /\ e \in Entries(o, i)
    OBVIOUS
  <2>2. HasSymbol(o, SectionAt(o, i), e[2]) BY <2>1 DEF ScanEnds
  <2> QED BY <1>1, <2>1, <2>2
<1>3. Scanned(o) = all BY <1>2 DEF Scanned
<1>4. AllEntries(o) \subseteq all BY DEF AllEntries, Relocating
<1>5. ASSUME NEW e \in Imports(o) PROVE e \in AllEntries(o)
  <2>1. e \in all BY <1>3 DEF Imports
  <2>2. PICK i \in Indices(o) : IsRelocation(SectionAt(o, i)) /\ e \in Entries(o, i)
    BY <2>1
  <2>3. e[1] = i BY <1>1, <2>2
  <2>4. LET j == SectionAt(o, e[1]).info IN j \in Indices(o) /\ IsLoaded(SectionAt(o, j))
    BY TablesAssumption DEF TablesAssumption
  <2>5. i \in Relocating(o) BY <2>2, <2>3, <2>4 DEF Relocating
  <2> QED BY <2>2, <2>5 DEF AllEntries
<1> HIDE DEF all
<1> QED BY <1>2, <1>3, <1>4, <1>5 DEF Imports

\* What the walk and the scan hand on between them is what the module is meant to be.
LEMMA NothingBetween ==
  ASSUME NEW o \in Objects, ~Unreadable(o), ScanEnds(o), Unshadowed(o)
  PROVE RelocsOf(o) = Meant(o)
<1> DEFINE of(e) == LET sym == get_symbol(o, SectionAt(o, e[1]), e[2])
                    IN  IF Imported(o, SectionAt(o, e[1]), e[2])
                          THEN Relocation(o, e, SectionAt(o, sym.shndx).rpl, sym.export)
                          ELSE Relocation(o, e, Local, sym.value)
           foreign(e) == Imported(o, SectionAt(o, e[1]), e[2])
<1>1. ~LinkFails(o) /\ RelocsOf(o) = LocalRelocs(o) \cup ImportRelocs(o)
  BY DEF Unreadable, RelocsOf
<1>2. LocalRelocs(o) = {of(e) : e \in {f \in AllEntries(o) : ~foreign(f)}}
  <2>1. \A e \in AllEntries(o) : ~foreign(e) =>
          of(e) = Relocation(o, e, Local, get_symbol(o, SectionAt(o, e[1]), e[2]).value)
    OBVIOUS
  <2>2. LocalRelocs(o) =
          {Relocation(o, e, Local, get_symbol(o, SectionAt(o, e[1]), e[2]).value) :
             e \in {f \in AllEntries(o) : ~foreign(f)}}
    BY <1>1, WalkedEntries DEF LocalRelocs
  <2> HIDE DEF of, foreign
  <2> QED BY <2>1, <2>2
<1>3. ImportRelocs(o) = {of(e) : e \in {f \in AllEntries(o) : foreign(f)}}
  <2>1. \A e \in AllEntries(o) : foreign(e) =>
          of(e) = Relocation(o, e, ImportRpl(o, e), ImportSymbol(o, e).export)
    BY DEF ImportRpl, ImportSymbol
  <2>2. ImportRelocs(o) =
          {Relocation(o, e, ImportRpl(o, e), ImportSymbol(o, e).export) :
             e \in {f \in AllEntries(o) : foreign(f)}}
    BY <1>1, ScannedImports DEF ImportRelocs
  <2> HIDE DEF of, foreign
  <2> QED BY <2>1, <2>2
<1>4. Meant(o) = {of(e) : e \in AllEntries(o)} BY DEF Meant
<1> HIDE DEF of, foreign
<1> QED BY <1>1, <1>2, <1>3, <1>4

\* A module never runs without one of its relocations, or with one of another kind or of
\* another RPL: none is lost between the two passes, however they interleave with
\* trampolines and RPLs, if the scan gets to its end and no section is taken for another.
THEOREM NoneIsLost == TablesSpec => []EveryRelocation
<1>1. TablesInv => EveryRelocation
  <2> SUFFICES ASSUME TablesInv, phase = "running", ScanEnds(object), Unshadowed(object)
               PROVE  done = object.meant
    BY DEF EveryRelocation
  <2>1. object \in Objects /\ ~Unreadable(object) /\ done = RelocsOf(object)
    BY DEF TablesInv
  <2>2. object.meant = Meant(object) BY <2>1, MeantAssumption DEF MeantAssumption
  <2>3. RelocsOf(object) = Meant(object) BY <2>1, NothingBetween
  <2> QED BY <2>1, <2>2, <2>3
<1> QED BY <1>1, TablesInvariance, PTL

=============================================================================

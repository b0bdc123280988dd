------------------------------- MODULE Linker -------------------------------
(***************************************************************************)
(* Linking one setup module after its sections were copied: the relocation *)
(* loops of ModuleDataFactory::load (linkSection, getImportRelocationData),*)
(* ElfUtils::doRelocation and ElfUtils::elfLinkOne with its trampolines,   *)
(* then the run of the module, which holds the RPLs it imports from.       *)
(* Addresses are words; branches and halves are kept as the bits that are  *)
(* stored, so that what the processor makes of them can be asked.          *)
(***************************************************************************)
EXTENDS Integers

CONSTANTS
  Word, Half, Field,         \* 2^32, 2^16 and the 2^26 a 24-bit branch spans, scaled
  TextVA, DataVA, ImportVA,  \* 0x02000000, 0x10000000 and 0xC0000000, scaled
  Text, Data,                \* where .text and .data were loaded
  SlotAt,                    \* address of each trampoline
  Files,                     \* the modules that may be linked: sets of relocations
  Local                      \* the import of a relocation against a symbol of its own

Relocs == UNION Files
Rpls == {r.import : r \in Relocs} \ {Local}
Slots == DOMAIN SlotAt

ASSUME WordAssumption ==
  /\ {Word, Half, Field} \subseteq Nat
  /\ Word = Half * Half
  /\ Half >= 8 /\ Half % 2 = 0
  /\ Field >= 8 /\ Field % 2 = 0 /\ Field <= Word

ASSUME AddressAssumption ==
  /\ {TextVA, DataVA, ImportVA, Text, Data} \subseteq 0 .. Word - 1
  /\ \A i \in Slots : SlotAt[i] \in 0 .. Word - 1
  /\ \A i, j \in Slots : SlotAt[i] = SlotAt[j] => i = j
  /\ Slots \subseteq Nat

\* `sym` is a virtual address of the module, or for an import what FindExport returns.
ASSUME RelocAssumption ==
  \A r \in Relocs :
    /\ r.offset \in 0 .. Word - 1
    /\ r.sym \in IF r.import = Local THEN 0 .. ImportVA - 1 ELSE 1 .. Word - 1
    /\ r.addend \in Int

VARIABLES
  phase,    \* "link", "imports", "running", "release", "ended" or "fatal"
  relocs,   \* the relocations of this module
  done,     \* those already applied
  mem,      \* what they stored, by address
  slots,    \* trampolines: status and the address they jump to
  usedRPls, \* RPLs acquired by doRelocation
  refs      \* references held on each RPL

vars == <<phase, relocs, done, mem, slots, usedRPls, refs>>

TypeOK ==
  /\ phase \in {"link", "imports", "running", "release", "ended", "fatal"}
  /\ relocs \in Files
  /\ done \subseteq relocs
  /\ DOMAIN mem \subseteq 0 .. Word - 1
  /\ \A a \in DOMAIN mem : mem[a] \in 0 .. Word - 1
  /\ slots \in [Slots -> [status : {"free", "fixed", "importDone"}, to : 0 .. Word - 1]]
  /\ usedRPls \subseteq Rpls
  /\ refs \in [Rpls -> Nat]

\* The relocations of a module are known, none is applied.
Begin ==
  /\ phase = "link"
  /\ done = {}
  /\ mem = [a \in {} |-> 0]
  /\ slots = [i \in Slots |-> [status |-> "free", to |-> 0]]
  /\ usedRPls = {}
  /\ refs = [l \in Rpls |-> 0]

Init == relocs \in Files /\ Begin

-----------------------------------------------------------------------------
(* Addresses *)

\* A word of n values read as a signed number.
Signed(x, n) == IF x < n \div 2 THEN x ELSE x - n

Base(r) == IF r.sec = "text" THEN Text ELSE Data

\* linkSection: the virtual address of a symbol, adjusted to where its section is; 0
\* is a weak symbol nobody defined.
HasAddress(r) == r.sym = 0 \/ r.sym >= TextVA

SymbolAddress(r) ==
  IF r.sym \in TextVA .. DataVA - 1 THEN (r.sym - TextVA + Text) % Word
  ELSE IF r.sym >= DataVA THEN (r.sym - DataVA + Data) % Word
  ELSE r.sym

\* linkSection: the place a relocation patches.
PlaceInSection(r) ==
  (Base(r) + IF r.offset \in TextVA .. DataVA - 1 THEN r.offset - TextVA
             ELSE IF r.offset \in DataVA .. ImportVA - 1 THEN r.offset - DataVA
             ELSE IF r.offset >= ImportVA THEN r.offset - ImportVA
             ELSE r.offset) % Word

\* getImportRelocationData takes every offset for one of .text.
PlaceOfImport(r) == (Base(r) + r.offset - TextVA) % Word

Place(r) == IF r.import = Local THEN PlaceInSection(r) ELSE PlaceOfImport(r)

Value(r) == ((IF r.import = Local THEN SymbolAddress(r) ELSE r.sym) + r.addend) % Word

Branches == {"REL14", "REL24"}

\* No two relocations of a module patch the same place, and none is a branch into the
\* trampolines.
ASSUME PlaceAssumption ==
  /\ \A file \in Files : \A r, s \in file : Place(r) = Place(s) => r = s
  /\ \A r \in Relocs : r.type \in Branches => \A i \in Slots : Value(r) # SlotAt[i]

Distance(to, from) == Signed((to - from) % Word, Word)

-----------------------------------------------------------------------------
(* elfLinkOne *)

Lo(x) == x % Half
Hi(x) == x \div Half

\* Mutant of Ha: without the carry of a negative low half.
HaNoCarry(x) == Hi(x)

Ha(x) == ((x + Half \div 2) % Word) \div Half

Stores == {"ADDR32", "DTPREL32", "ADDR16_LO", "ADDR16_HI", "ADDR16_HA",
           "GHS_REL16_LO", "GHS_REL16_HI", "GHS_REL16_HA"}

\* What the relocations without a branch store.
Stored(r) ==
  LET value == Value(r)
      relValue == (value - Place(r)) % Word
  IN CASE r.type \in {"ADDR32", "DTPREL32"} -> value
       [] r.type = "ADDR16_LO" -> Lo(value)
       [] r.type = "ADDR16_HI" -> Hi(value)
       [] r.type = "ADDR16_HA" -> Ha(value)
       [] r.type = "GHS_REL16_LO" -> Lo(relValue)
       [] r.type = "GHS_REL16_HI" -> Hi(relValue)
       [] r.type = "GHS_REL16_HA" -> Ha(relValue)

\* How many displacements the field of a branch distinguishes.
Width(r) == IF r.type = "REL14" THEN Half ELSE Field

\* A displacement that a field of n values holds: one word short of the field's end on
\* both sides.
Reachable(d, n) == -(n \div 2 - 4) <= d /\ d <= n \div 2 - 4

\* The place of a branch reaches the address `to`, which is word aligned from there.
Direct(r, to) ==
  Reachable(Distance(to, Place(r)), Width(r)) /\ Distance(to, Place(r)) % 4 = 0

\* The displacement is stored as it is; opcode and link bits are kept.
Displacement(r, to) == Distance(to, Place(r)) % Width(r)

Far(r) == r.type = "REL24" /\ ~Reachable(Distance(Value(r), Place(r)), Field)

\* Mutant of Reusable: the status is not looked at.
ReusableAny(slot) == TRUE

Reusable(slot) == slot.status \in {"free", "importDone"}

\* The jump to trampoline i: the addend, part of the value already, counts once more.
Jump(r, i) == (SlotAt[i] + r.addend) % Word

\* The trampoline a far branch gets: the first that is free or held an import.
ViaSlot(r, i) ==
  /\ Far(r)
  /\ Reusable(slots[i]) /\ \A j \in Slots : j < i => ~Reusable(slots[j])
  /\ Direct(r, Jump(r, i))

InPlace(r) == r.type \in Stores \/ (r.type \in Branches /\ Direct(r, Value(r)))

\* elfLinkOne returns true.
Linkable(r) ==
  r.type \in {"NONE", "DTPMOD32"} \/ InPlace(r) \/ \E i \in Slots : ViaSlot(r, i)

Write(r, bits) ==
  mem' = [a \in DOMAIN mem \cup {Place(r)} |-> IF a = Place(r) THEN bits ELSE mem[a]]

\* A thread-local module index is reported as linked, but not written.
LinkNothing(r) == r.type \in {"NONE", "DTPMOD32"} /\ UNCHANGED <<mem, slots>>

Bits(r) == IF r.type \in Branches THEN Displacement(r, Value(r)) ELSE Stored(r)

LinkInPlace(r) == InPlace(r) /\ Write(r, Bits(r)) /\ UNCHANGED slots

\* lis, ori, mtctr, bctr: the trampoline jumps to the value.
LinkViaSlot(r, status) ==
  \E i \in Slots :
    /\ ViaSlot(r, i)
    /\ Write(r, Displacement(r, Jump(r, i)))
    /\ slots' = [slots EXCEPT ![i] = [status |-> status, to |-> Value(r)]]

elfLinkOne(r, status) == LinkNothing(r) \/ LinkInPlace(r) \/ LinkViaSlot(r, status)

-----------------------------------------------------------------------------
(* load, doRelocation and the run *)

Pending(import) == {r \in relocs \ done : (r.import = Local) = ~import}

\* OSFatal; what the failing step had written is of no more use.
Fatal == phase' = "fatal" /\ UNCHANGED <<relocs, done, mem, slots, usedRPls, refs>>

\* linkSection, for every section: a relocation against a symbol of the module.
linkSection ==
  /\ phase = "link"
  /\ \E r \in Pending(FALSE) :
       IF HasAddress(r) /\ Linkable(r)
         THEN /\ elfLinkOne(r, "fixed") /\ done' = done \cup {r}
              /\ UNCHANGED <<phase, relocs, usedRPls, refs>>
         ELSE Fatal

Linked ==
  /\ phase = "link" /\ Pending(FALSE) = {}
  /\ phase' = "imports"
  /\ UNCHANGED <<relocs, done, mem, slots, usedRPls, refs>>

\* Mutants of Acquire: the handle is found without taking a reference, and an RPL
\* already in use is acquired again.
AcquireNoReference(l) == usedRPls' = usedRPls \cup {l} /\ UNCHANGED refs

AcquireAlways(l) ==
  usedRPls' = usedRPls \cup {l} /\ refs' = [refs EXCEPT ![l] = @ + 1]

\* OSDynLoad_Acquire, once for each RPL of the module.
Acquire(l) ==
  IF l \in usedRPls THEN UNCHANGED <<usedRPls, refs>>
  ELSE usedRPls' = usedRPls \cup {l} /\ refs' = [refs EXCEPT ![l] = @ + 1]

\* The RPL or the export may be missing.
doRelocation ==
  /\ phase = "imports"
  /\ \E r \in Pending(TRUE) :
       \/ /\ Linkable(r) /\ Acquire(r.import)
          /\ elfLinkOne(r, "importDone") /\ done' = done \cup {r}
          /\ UNCHANGED <<phase, relocs>>
       \/ Fatal

\* Everything is linked: the entry point is called.
Run ==
  /\ phase = "imports" /\ Pending(TRUE) = {}
  /\ phase' = "running"
  /\ UNCHANGED <<relocs, done, mem, slots, usedRPls, refs>>

Back ==
  /\ phase = "running" /\ phase' = "release"
  /\ UNCHANGED <<relocs, done, mem, slots, usedRPls, refs>>

\* OSDynLoad_Release for each entry of usedRPls; then LoadAndRunModule is done.
Release ==
  /\ phase = "release"
  /\ \/ \E l \in usedRPls :
          /\ usedRPls' = usedRPls \ {l} /\ refs' = [refs EXCEPT ![l] = @ - 1]
          /\ UNCHANGED phase
     \/ usedRPls = {} /\ phase' = "ended" /\ UNCHANGED <<usedRPls, refs>>
  /\ UNCHANGED <<relocs, done, mem, slots>>

Stopped == phase \in {"ended", "fatal"} /\ UNCHANGED vars

Next == linkSection \/ Linked \/ doRelocation \/ Run \/ Back \/ Release \/ Stopped

Spec == Init /\ [][Next]_vars

-----------------------------------------------------------------------------
(* Properties *)

\* Where control goes when the processor executes the branch that r patched: a
\* sign-extended displacement, then through the trampoline if there is one there.
Lands(r) ==
  LET at == (Place(r) + Signed(mem[Place(r)], Width(r))) % Word
  IN IF \E i \in Slots : SlotAt[i] = at /\ slots[i].status # "free"
       THEN slots[CHOOSE i \in Slots : SlotAt[i] = at].to
       ELSE at

\* Every branch within reach, and every branch of the module to itself through a
\* trampoline, goes where its relocation says, and keeps doing so while imports are
\* linked after it: trampolines that "won't change" (ElfUtils.cpp 133) do not.
BranchesLand ==
  \A r \in done : r.type \in Branches /\ (Far(r) => r.import = Local /\ r.addend = 0) =>
    Lands(r) = Value(r)

\* The same of far imports, which "will be turned into" reusable ones only "when all
\* relocations are done successfully" (ElfUtils.cpp 129-131).
FarImportsLand ==
  \A r \in done : Far(r) /\ r.import # Local /\ r.addend = 0 => Lands(r) = Value(r)

\* lis with the high half, then addi with the sign-extended low half (or ori with the
\* plain one), rebuild the address, for any address (ElfUtils.cpp 70-76).
HalvesRebuild ==
  \A hi, lo \in done :
    lo.type = "ADDR16_LO" /\ Value(hi) = Value(lo) =>
      LET h == mem[Place(hi)]
          l == mem[Place(lo)]
      IN /\ hi.type = "ADDR16_HA" => (h * Half + Signed(l, Half)) % Word = Value(hi)
         /\ hi.type = "ADDR16_HI" => h * Half + l = Value(hi)

\* An RPL whose export was linked stays referenced until the module is back
\* (ElfUtils.cpp 19), and in the end no reference is left.
RplsHeld ==
  /\ phase \in {"imports", "running"} =>
       \A r \in done : r.import # Local => refs[r.import] > 0
  /\ phase = "ended" => \A l \in Rpls : refs[l] = 0

-----------------------------------------------------------------------------
(* The inductive invariant behind the safety properties *)

\* What was linked without a trampoline is where it belongs.
StoredInPlace ==
  \A r \in done : r.type \in Stores \/ (r.type \in Branches /\ ~Far(r)) =>
    /\ Place(r) \in DOMAIN mem /\ mem[Place(r)] = Bits(r)
    /\ r.type \in Branches => Direct(r, Value(r))

\* A far branch of the module to itself has a trampoline of its own, for good.
HasSlot(r, i) ==
  /\ slots[i].status = "fixed" /\ slots[i].to = Value(r)
  /\ Place(r) \in DOMAIN mem /\ mem[Place(r)] = Displacement(r, Jump(r, i))
  /\ Direct(r, Jump(r, i))

FixedHaveSlots == \A r \in done : Far(r) /\ r.import = Local => \E i \in Slots : HasSlot(r, i)

\* usedRPls lists the references held, one each.
RefsListed ==
  /\ \A l \in Rpls : refs[l] = IF l \in usedRPls THEN 1 ELSE 0
  /\ phase \in {"imports", "running"} =>
       \A r \in done : r.import # Local => r.import \in usedRPls
  /\ phase = "link" => \A r \in done : r.import = Local
  /\ phase = "ended" => usedRPls = {}

LinkInv == TypeOK /\ StoredInPlace /\ FixedHaveSlots /\ RefsListed

=============================================================================

-------------------------------- MODULE Layout --------------------------------
(***************************************************************************)
(* Laying out one setup module in memory: the size of its heap             *)
(* (GetSizeOfModule, LoadAndRunModule), the three blocks taken from it, and *)
(* the loop of ModuleDataFactory::load that places every section in its    *)
(* block.  The expanded heap of coreinit is external: a fresh one hands    *)
(* out its memory from the front, each block after a header.               *)
(***************************************************************************)
EXTENDS Integers, Sequences, Functions

CONSTANTS
  Files,                     \* modules: the sections of each, in order
  Starts, Extra,             \* where a heap may begin; bytes it may have to spare
  Word,                      \* 2^32, scaled
  TextVA, DataVA, ImportVA,  \* 0x02000000, 0x10000000 and 0xC0000000, scaled
  Granule,                   \* 0x100: the alignment of .text and .data, scaled
  Unit,                      \* 4: the alignment of the module information, scaled
  Info, Spare,               \* sizeof(module_information_t) and 0x10000, scaled
  Front, Header              \* what a heap and a block of it take for themselves

Section ==
  [kind : {"progbits", "nobits", "import", "other"}, alloc : BOOLEAN, bounds : BOOLEAN,
   va : Nat, size : Nat, align : Nat]

ASSUME LayoutAssumption ==
  /\ {Word, TextVA, DataVA, ImportVA, Granule, Unit, Info, Spare, Front, Header} \subseteq Nat
  /\ TextVA < DataVA /\ DataVA < ImportVA /\ ImportVA < Word
  /\ Granule > 0 /\ Unit > 0 /\ Front <= Spare
  /\ TextVA % Granule = 0 /\ DataVA % Granule = 0
  /\ Starts \subseteq Nat /\ Extra \subseteq Nat
  /\ \A f \in Files : f \in Seq(Section) /\ \A s \in Range(f) : s.va < Word /\ s.size < Word

-----------------------------------------------------------------------------
(* Sections, and the sums over them *)

\* Sections that load() gives memory to; of these ".wut_load_bounds" is not copied.
Loaded(s) == s.kind \in {"progbits", "nobits"} /\ s.alloc

Copied(s) == Loaded(s) /\ ~s.bounds

InText(s) == TextVA <= s.va /\ s.va < DataVA
InData(s) == DataVA <= s.va /\ s.va < ImportVA

\* What the loops over the sections add up: size and alignment of those in `indices`.
Total(f, indices) ==
  LET sum[n \in 0 .. Len(f)] ==
        IF n = 0 THEN 0
        ELSE sum[n - 1] + (IF n \in indices THEN f[n].size + f[n].align ELSE 0)
  IN  sum[Len(f)]

\* Mutants of TextSize and GetSizeOfModule: no room to align a section.
Unaligned(f) == [j \in DOMAIN f |-> [f[j] EXCEPT !.align = 0]]
TextSizeTight(f) == Total(Unaligned(f), {j \in DOMAIN f : Loaded(f[j]) /\ InText(f[j])}) % Word
SizeTight(f) == Total(Unaligned(f), {j \in DOMAIN f : Copied(f[j])}) % Word

\* The sums are kept in 32 bits, whatever the headers say.
TextSize(f) == Total(f, {j \in DOMAIN f : Loaded(f[j]) /\ InText(f[j])}) % Word

DataSize(f) == Total(f, {j \in DOMAIN f : Loaded(f[j]) /\ InData(f[j])}) % Word

GetSizeOfModule(f) == Total(f, {j \in DOMAIN f : Copied(f[j])}) % Word

\* requiredHeapSize.
Required(f) == (GetSizeOfModule(f) + Info + Spare) % Word

\* The heaps there may be for a module: large enough for the heap itself, below 2^32.
HeapOf(f) ==
  {h \in {[from |-> start, to |-> start + Required(f) + x] : start \in Starts, x \in Extra} :
     h.from + Front <= h.to /\ h.to < Word}

\* Where a section is in its part of the address space.
Offset(s) == IF InText(s) THEN s.va - TextVA ELSE s.va - DataVA

-----------------------------------------------------------------------------

VARIABLES
  phase,   \* "info", "text", "data", "copy", "link", or how OSFatal was reached
  file,    \* the sections of the module
  heap,    \* the bytes of its heap
  free,    \* first byte of the heap not handed out
  blocks,  \* the blocks handed out
  k,       \* section the loop is at
  placed   \* the sections written, and where

vars == <<phase, file, heap, free, blocks, k, placed>>

Ranges == [from : 0 .. Word - 1, to : 0 .. Word - 1]

NoBlock == [from |-> 0, to |-> 0]

Names == {"info", "text", "data"}

TypeOK ==
  /\ phase \in Names \cup {"copy", "link", "nomem", "refused"}
  /\ file \in Seq(Section)
  /\ heap \in Ranges
  /\ free \in 0 .. Word - 1
  /\ blocks \in [Names -> Ranges]
  /\ k \in 1 .. Len(file) + 1
  /\ \A p \in placed : /\ p.sec \in 1 .. k - 1
                       /\ p.from \in 0 .. Word - 1 /\ p.to \in Nat

\* A module that was read, and a heap of the size asked for.
Begin ==
  /\ phase = "info"
  /\ heap \in HeapOf(file) /\ free = heap.from + Front
  /\ blocks = [name \in Names |-> NoBlock]
  /\ k = 1 /\ placed = {}

Init == file \in Files /\ Begin

AlignUp(x, a) == x + ((a - (x % a)) % a)

\* HeapWrapper::Alloc; a block that does not fit ends in OSFatal.
Alloc(name, size, align, next) ==
  LET at == AlignUp(free + Header, align)
      end == at + AlignUp(size, Unit)
  IN /\ phase = name
     /\ IF end <= heap.to
          THEN /\ blocks' = [blocks EXCEPT ![name] = [from |-> at, to |-> at + size]]
               /\ free' = end /\ phase' = next
          ELSE phase' = "nomem" /\ UNCHANGED <<free, blocks>>
     /\ UNCHANGED <<file, heap, k, placed>>

AllocInfo == Alloc("info", Info, Unit, "text")
AllocText == Alloc("text", TextSize(file), Granule, "data")
AllocData == Alloc("data", DataSize(file), Granule, "copy")

-----------------------------------------------------------------------------
(* The loop over the sections *)

\* Mutant of Block: .data is placed in the block of .text.
BlockText(s) == blocks["text"]

Block(s) == IF InText(s) THEN blocks["text"] ELSE blocks["data"]

Destination(s) == (Block(s).from + Offset(s)) % Word

\* Mutant of Outside: the size of the section is forgotten.
OutsideStart(s) == Destination(s) > Block(s).to \/ Destination(s) < Block(s).from

\* "Tried to overflow" and "Tried to underflow"; the end that is compared has 32 bits.
Outside(s) ==
  \/ (Destination(s) + s.size) % Word > Block(s).to
  \/ Destination(s) < Block(s).from

\* destination & (align - 1), for a power of two and for none.
Misaligned(s) == IF s.align = 0 THEN Destination(s) # 0 ELSE Destination(s) % s.align # 0

Refused(s) == ~(InText(s) \/ InData(s)) \/ Outside(s) \/ Misaligned(s)

\* Mutant of Following: a section is left out.
FollowingNext == k + 2

Following == k + 1

Pass ==
  /\ phase = "copy" /\ k <= Len(file) /\ ~Copied(file[k])
  /\ k' = Following
  /\ UNCHANGED <<phase, file, heap, free, blocks, placed>>

\* All of the section is written, also where its end is beyond the last address.
Copy ==
  /\ phase = "copy" /\ k <= Len(file) /\ Copied(file[k]) /\ ~Refused(file[k])
  /\ LET at == Destination(file[k])
     IN placed' = placed \cup {[sec |-> k, from |-> at, to |-> at + file[k].size]}
  /\ k' = Following
  /\ UNCHANGED <<phase, file, heap, free, blocks>>

Refuse ==
  /\ phase = "copy" /\ k <= Len(file) /\ Copied(file[k]) /\ Refused(file[k])
  /\ phase' = "refused"
  /\ UNCHANGED <<file, heap, free, blocks, k, placed>>

\* On to linkSection, see Linker.
Link ==
  /\ phase = "copy" /\ k > Len(file) /\ phase' = "link"
  /\ UNCHANGED <<file, heap, free, blocks, k, placed>>

Stopped == phase \in {"link", "nomem", "refused"} /\ UNCHANGED vars

Next == AllocInfo \/ AllocText \/ AllocData \/ Pass \/ Copy \/ Refuse \/ Link \/ Stopped

Spec == Init /\ [][Next]_vars

-----------------------------------------------------------------------------
(* Properties *)

\* A section is written only inside the block made for its part of the module, and that
\* block lies in the heap ("Tried to overflow", "Tried to underflow": ModuleDataFactory.cpp
\* 114-132); but a section that does not end below 2^32 only begins there.
Contained ==
  \A p \in placed :
    LET b == Block(file[p.sec])
    IN /\ heap.from <= b.from /\ b.from <= p.from /\ b.to <= heap.to
       /\ p.to < Word => p.to <= b.to

\* Sections that are apart in the module are apart in memory, .text from .data too, and
\* none begins before the end of the trampolines, which the linker writes later; the
\* exception is that of Contained.
NothingOverwritten ==
  \A p \in placed :
    /\ blocks["info"].to <= p.from
    /\ \A q \in placed :
         LET s == file[p.sec]  t == file[q.sec]
         IN p.to < Word /\ s.va + s.size <= t.va => p.to <= q.from \/ q.to <= p.from

\* A heap of requiredHeapSize, computed before the module is looked at closely, has room
\* for the blocks load() then asks for: what it counts less (".wut_load_bounds") and the
\* heap takes for itself fits in the 0x10000 added "to be safe" (main.cpp 376).  The sums
\* are sizes as long as they fit in a word.
AddsUp(f) == Total(f, {j \in DOMAIN f : Loaded(f[j])}) + Info + Spare < Word

BoundsSize(f) == Total(f, {j \in DOMAIN f : Loaded(f[j]) /\ f[j].bounds})

Overhead == Front + 3 * Header + 4 * (Unit - 1) + 2 * (Granule - 1)

HeapSuffices ==
  AddsUp(file) /\ BoundsSize(file) + Overhead <= Spare => phase # "nomem"

\* A module as a linker lays it out is not refused: sections one after the other, with no
\* gap larger than their alignment takes, in any order in the file.
Follows(s, from) == from <= s.va /\ s.va < from + s.align

WellFormed(f) ==
  \A s \in {t \in Range(f) : Loaded(t)} :
    /\ InText(s) \/ InData(s)
    /\ s.size > 0 /\ s.align > 0 /\ Granule % s.align = 0 /\ s.va % s.align = 0
    /\ \/ Follows(s, s.va - Offset(s))
       \/ \E t \in Range(f) : Loaded(t) /\ (InText(s) <=> InText(t)) /\ Follows(s, t.va + t.size)

WellFormedLoads == WellFormed(file) /\ AddsUp(file) => phase # "refused"

-----------------------------------------------------------------------------
(* The inductive invariant behind Contained and NothingOverwritten *)

FileFits == file \in Files /\ heap \in HeapOf(file)

Copying == {"copy", "link", "refused"}

Taken(name) ==
  /\ heap.from <= blocks[name].from /\ blocks[name].from <= blocks[name].to
  /\ blocks[name].to <= free

\* The blocks are taken one after the other from the front of the heap.
BlocksFit ==
  /\ heap.from <= free /\ free <= heap.to
  /\ phase \in {"text", "data"} \cup Copying => Taken("info")
  /\ phase \in {"data"} \cup Copying =>
       Taken("text") /\ blocks["info"].to <= blocks["text"].from
  /\ phase \in Copying => Taken("data") /\ blocks["text"].to <= blocks["data"].from

\* Where a section is: its address has not wrapped, and its end only if it was not checked.
PlacedFits ==
  /\ phase \notin Copying => placed = {}
  /\ \A p \in placed :
       LET s == file[p.sec]
       IN /\ InText(s) \/ InData(s)
          /\ p.from = Block(s).from + Offset(s) /\ p.to = p.from + s.size
          /\ p.to < Word => p.to <= Block(s).to

LayoutInv == TypeOK /\ FileFits /\ BlocksFit /\ PlacedFits

-----------------------------------------------------------------------------
(* What it takes besides for HeapSuffices and WellFormedLoads *)

\* How far into the heap the blocks taken so far can reach, with the gaps before them.
ReachOf(name) ==
  LET info == heap.from + Front + Header + Info + 2 * (Unit - 1)
  IN  IF name = "info" THEN info
      ELSE info + Header + TextSize(file) + (Granule - 1) + (Unit - 1)

ReachFits ==
  /\ phase = "info" => free = heap.from + Front
  /\ phase = "text" => free <= ReachOf("info")
  /\ phase = "data" => free <= ReachOf("text")

\* A block is as large as asked for and begins where a section may.
Sized(name, size) ==
  blocks[name].from % Granule = 0 /\ blocks[name].to = blocks[name].from + size

BlocksSized ==
  /\ phase \in {"data"} \cup Copying => Sized("text", TextSize(file))
  /\ phase \in Copying => Sized("data", DataSize(file))

RoomInv ==
  LayoutInv /\ ReachFits /\ BlocksSized /\ HeapSuffices /\ WellFormedLoads

=============================================================================

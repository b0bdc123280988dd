------------------------------ MODULE MCLinker ------------------------------
(***************************************************************************)
(* The TLC instance of Linker: words of 8 bits, halves of 4, branches that *)
(* reach 28 bytes, two trampolines, and modules that between them have     *)
(* every kind of relocation, near and far, with and without addend, one    *)
(* whose branches fill the trampolines and some that cannot be linked;     *)
(* every word by halves and every branch target, alone; and one module in  *)
(* tables that are not as they should be.                                  *)
(***************************************************************************)
EXTENDS Tables, FiniteSets
LOCAL INSTANCE TLC

CONSTANTS coreinit, gx2

MCSlotAt == <<68, 72>>

Reloc(type, sec, offset, import, sym, addend) ==
  [type |-> type, sec |-> sec, offset |-> offset, import |-> import, sym |-> sym,
   addend |-> addend]

Near      == Reloc("REL24", "text", 32, Local, 44, 4)
Weak      == Reloc("REL24", "text", 36, Local, 0, 0)
Weak2     == Reloc("REL24", "text", 40, Local, 0, 0)
FarCall   == Reloc("REL24", "text", 44, coreinit, 160, 0)
FarCall2  == Reloc("REL24", "text", 48, gx2, 201, 0)
NearCall  == Reloc("REL24", "text", 52, coreinit, 108, 0)
Ahead     == Reloc("REL14", "text", 33, Local, 37, 0)
Beyond    == Reloc("REL14", "text", 34, Local, 60, 0)
Skewed    == Reloc("REL24", "text", 35, Local, 41, 1)
HaData    == Reloc("ADDR16_HA", "text", 53, Local, 70, 3)
HiData    == Reloc("ADDR16_HI", "text", 54, Local, 70, 3)
LoData    == Reloc("ADDR16_LO", "text", 55, Local, 70, 3)
RelData   == <<Reloc("GHS_REL16_HA", "data", 64, Local, 46, 0),
              Reloc("GHS_REL16_HI", "data", 65, Local, 46, 0),
              Reloc("GHS_REL16_LO", "data", 66, Local, 46, 0)>>
Pointer   == Reloc("ADDR32", "data", 68, coreinit, 160, 0)
Thread    == Reloc("DTPMOD32", "data", 72, Local, 0, 0)
ThreadRel == Reloc("DTPREL32", "data", 76, Local, 80, 0)
Other     == Reloc("unknown", "data", 77, Local, 80, 0)
Unplaced  == Reloc("ADDR32", "data", 78, Local, 5, 0)

\* Every word, by halves; every branch target.
Halves == {<<Reloc("ADDR16_HA", "text", 53, Local, 0, v), Reloc("ADDR16_HI", "text", 54, Local, 0, v),
             Reloc("ADDR16_LO", "text", 55, Local, 0, v)>> : v \in 0 .. Word - 1}
Calls  == {<<Reloc(type, "text", 40, coreinit, v, 0)>> :
             type \in {"REL14", "REL24"}, v \in (1 .. Word - 1) \ {68, 72}}

Mixed   == <<Near, Weak, FarCall, NearCall, Ahead, HaData, HiData, LoData, Pointer>>
Imports2 == <<Weak, FarCall, FarCall2, NearCall, Thread, ThreadRel>> \o RelData
Failing == {<<Near, Beyond>>, <<Near, Skewed>>, <<Near, Other>>, <<Near, Unplaced>>}
Lists   == Halves \cup Calls \cup Failing \cup {Mixed, Imports2, <<Weak, Weak2, FarCall, NearCall, Near>>}

-----------------------------------------------------------------------------
(* The object a list of relocations is in: .text, .data, their relocation  *)
(* sections, two sections of imports and the symbols, one per relocation   *)

Parts(list) == {list[n] : n \in DOMAIN list}

Code(type) == IF type = "unknown" THEN 69 ELSE CHOOSE c \in DOMAIN TypeNames : TypeNames[c] = type

Sec(type, va, info, link, entsize, entries) ==
  [type |-> type, va |-> va, alloc |-> type = "progbits", info |-> info, link |-> link,
   entsize |-> entsize, size |-> entsize * Len(entries), entries |-> entries]

EntriesOf(list, sec, class) ==
  LET of == {n \in DOMAIN list : list[n].sec = sec}
      At(k) == CHOOSE n \in of : Cardinality({m \in of : m <= n}) = k
  IN  [k \in 1 .. Cardinality(of) |->
         [offset |-> list[At(k)].offset, info |-> At(k) * TypeBits[class] + Code(list[At(k)].type),
          addend |-> list[At(k)].addend]]

Symbol(r, n) ==
  [value |-> IF r.import = Local THEN r.sym ELSE ImportVA + n, export |-> r.sym,
   shndx |-> IF r.import = coreinit THEN 5 ELSE IF r.import = gx2 THEN 6 ELSE 1]

\* `type` is that of the relocations of .data, none of which has an addend.
ObjectOf(list, class, type) ==
  [class |-> class, meant |-> Parts(list),
   sections |->
     <<Sec("null", 0, 0, 0, 0, <<>>),
       Sec("progbits", TextVA, 0, 0, 0, <<>>),
       Sec("rela", 0, 1, 7, 12, EntriesOf(list, "text", class)),
       Sec("progbits", DataVA, 0, 0, 0, <<>>),
       Sec(type, 0, 3, 7, 8, EntriesOf(list, "data", class)),
       [Sec("import", ImportVA, 0, 0, 0, <<>>) EXCEPT !.alloc = TRUE] @@ [rpl |-> coreinit],
       [Sec("import", ImportVA, 0, 0, 0, <<>>) EXCEPT !.alloc = TRUE] @@ [rpl |-> gx2],
       Sec("symtab", 0, 1, 8, SymbolSize[class],
           <<[value |-> 0, export |-> 0, shndx |-> 0]>> \o [n \in DOMAIN list |-> Symbol(list[n], n)]),
       Sec("strtab", 0, 0, 0, 0, <<>>)>>]

Object == ObjectOf(Mixed, 32, "rela")

\* The symbols' info is the index of a section; symbols are missing, reserved, of no
\* section of imports; there is no symbol table; the import scan fails in a section
\* that is not linked; a section without entries has the info of a relocation section.
Shadowed == [Object EXCEPT !.sections[1] = Sec("other", 0, 1, 0, 0, <<>>)]

Odd ==
  {Shadowed}
  \cup {[Object EXCEPT !.sections[8].info = n] : n \in 1 .. 8}
  \cup {[Object EXCEPT !.sections[5].info = 0, !.sections[8].info = 3, !.meant = {}],
        [Object EXCEPT !.sections[8].size = 16 * 9], [Object EXCEPT !.sections[8].size = 16 * 3],
        [Object EXCEPT !.sections[8].entsize = 8], [Object EXCEPT !.sections[5].link = 20],
        [Object EXCEPT !.sections[1] = [Sec("rela", 0, 8, 20, 12, <<[offset |-> 0, info |-> 1, addend |-> 0]>>)
                                          EXCEPT !.alloc = FALSE]],
        [Object EXCEPT !.sections[1] = [Sec("rela", 0, 8, 8, 12, <<[offset |-> 0, info |-> 1, addend |-> 0]>>)
                                          EXCEPT !.alloc = FALSE]],
        [Object EXCEPT !.sections[8].entries[2].shndx = 65522], [Object EXCEPT !.sections[8].entries[2].shndx = Abs],
        [Object EXCEPT !.sections[8].entries[4].shndx = 65522],
        [Object EXCEPT !.sections[8].entries[10].shndx = 3]}

MCObjects ==
  {ObjectOf(list, 32, "rela") : list \in Lists} \cup Odd
  \cup {ObjectOf(list, class, type) : list \in {Mixed, Imports2}, class \in {32, 64}, type \in {"rel", "rela"}}

\* What the tables are read as: every relocation, none, those that need no import, and, if
\* a section is passed over, those that do and those of .data; and the module that imports from two RPLs with whichever RPLs its symbols give.
MCFiles ==
  {Parts(list) : list \in Lists}
  \cup {{}, {r \in Parts(Mixed) : r.import = Local}, RelocsOf(ObjectOf(Imports2, 32, "rela")), RelocsOf(Shadowed)}
=============================================================================

------------------------------- MODULE Tables -------------------------------
(***************************************************************************)
(* Where the relocations of a module come from: its relocation sections    *)
(* and symbol tables, as elfio's accessors read them, walked through once  *)
(* per section by linkSection and once more by getImportRelocationData.    *)
(*                                                                         *)
(* An object has a class and sections; section j is sections[j + 1], a     *)
(* record [type, va, alloc, info, link, entsize, size, entries], its       *)
(* entries those of a relocation section, [offset, info, addend], or of a  *)
(* symbol table, [value, shndx, export]: `export` is what FindExport will  *)
(* say of an imported symbol.  A section of imports has an `rpl`.          *)
(***************************************************************************)
EXTENDS Linker, Sequences
LOCAL INSTANCE TLC

CONSTANT Objects  \* with `meant`: the relocations the module was built with

VARIABLE object

SectionAt(o, j) == o.sections[j + 1]
Indices(o) == 0 .. Len(o.sections) - 1

-----------------------------------------------------------------------------
(* The accessors of elfio *)

\* r_info: the type in its low 8 bits, or 32 (scaled to 16) of a 64-bit file.
TypeBits == 32 :> 256 @@ 64 :> 65536

get_r_sym(o, info) == info \div TypeBits[o.class]
get_r_type(o, info) == info % TypeBits[o.class]

TypeNames ==
  0 :> "NONE" @@ 1 :> "ADDR32" @@ 4 :> "ADDR16_LO" @@ 5 :> "ADDR16_HI" @@ 6 :> "ADDR16_HA"
  @@ 10 :> "REL24" @@ 11 :> "REL14" @@ 68 :> "DTPMOD32" @@ 78 :> "DTPREL32"
  @@ 251 :> "GHS_REL16_HA" @@ 252 :> "GHS_REL16_HI" @@ 253 :> "GHS_REL16_LO"

TypeName(code) == IF code \in DOMAIN TypeNames THEN TypeNames[code] ELSE "unknown"

IsRelocation(sec) == sec.type \in {"rel", "rela"}

get_entries_num(sec) == IF sec.entsize = 0 THEN 0 ELSE sec.size \div sec.entsize

\* sizeof a symbol, by class.
SymbolSize == 32 :> 16 @@ 64 :> 24

get_symbols_num(o, sec) ==
  IF sec.entsize >= SymbolSize[o.class] THEN sec.size \div sec.entsize ELSE 0

\* Entry n, from 0; one without addend has 0.  Of the type a char is kept.
get_entry(o, sec, n) ==
  LET e == sec.entries[n + 1]
  IN  [offset |-> e.offset, symbol |-> get_r_sym(o, e.info), type |-> TypeName(get_r_type(o, e.info) % 256),
       addend |-> IF sec.type = "rela" THEN e.addend ELSE 0]

\* In a section that holds no relocations get_entry still says yes, having set nothing
\* but for the symbol, which its caller had set to 0.
SymbolOf(o, sec, n) == IF IsRelocation(sec) THEN get_entry(o, sec, n).symbol ELSE 0

\* get_symbol: only one that is in the table.
HasSymbol(o, sec, n) ==
  /\ sec.link \in Indices(o)
  /\ SymbolOf(o, sec, n) < get_symbols_num(o, SectionAt(o, sec.link))

get_symbol(o, sec, n) == SectionAt(o, sec.link).entries[SymbolOf(o, sec, n) + 1]

-----------------------------------------------------------------------------
(* linkSection and getImportRelocationData *)

\* Sections that were given memory, and are linked.
IsLoaded(sec) == sec.type \in {"progbits", "nobits"} /\ sec.alloc

\* linkSection looks for the first section whose info is j, whatever it is.
Found(o, j) ==
  {i \in Indices(o) : SectionAt(o, i).info = j /\ \A h \in 0 .. i - 1 : SectionAt(o, h).info # j}

Imported(o, sec, n) == get_symbol(o, sec, n).value >= ImportVA

\* SHN_LORESERVE and SHN_ABS.
LoReserve == 65280
Abs == 65521

\* SHN_ABS is let through, what else is reserved is "NOT IMPLEMENTED".
Reserved(o, sec, n) ==
  LET shndx == get_symbol(o, sec, n).shndx IN shndx > LoReserve /\ shndx # Abs

\* The sections linkSection walks through and the entries in them.
Walked(o) == UNION {Found(o, j) : j \in {x \in Indices(o) : IsLoaded(SectionAt(o, x))}}

Entries(o, i) == {<<i, n>> : n \in 0 .. get_entries_num(SectionAt(o, i)) - 1}

LinkFails(o) ==
  \E i \in Walked(o) : \E e \in Entries(o, i) :
    LET sec == SectionAt(o, i)
    IN  \/ ~HasSymbol(o, sec, e[2])
        \/ ~Imported(o, sec, e[2]) /\ Reserved(o, sec, e[2])

\* The import scan takes every relocation section, and ends with the first entry without
\* symbol: nobody looks at its result.
Scanned(o) ==
  LET all == UNION {Entries(o, i) : i \in {x \in Indices(o) : IsRelocation(SectionAt(o, x))}}
      Before(e, f) == e[1] < f[1] \/ (e[1] = f[1] /\ e[2] < f[2])
  IN  {e \in all : \A f \in all : Before(f, e) => HasSymbol(o, SectionAt(o, f[1]), f[2])}

\* Without a symbol table the accessor is made of a null pointer: the console crashes.
ScanCrashes(o) == \E e \in Scanned(o) : SectionAt(o, e[1]).link \notin Indices(o)

Imports(o) ==
  {e \in Scanned(o) : HasSymbol(o, SectionAt(o, e[1]), e[2]) /\ Imported(o, SectionAt(o, e[1]), e[2])}

ImportSymbol(o, e) == get_symbol(o, SectionAt(o, e[1]), e[2])

\* infoMap: the sections of imports.
InfoMap(o) == {i \in Indices(o) : SectionAt(o, i).type = "import"}

\* "Relocation is referencing a unknown section."
ImportFatal(o) == \E e \in Imports(o) : ImportSymbol(o, e).shndx \notin InfoMap(o)

\* Mutant of ImportRpl: the first section of imports.
ImportRplFirst(o, e) == SectionAt(o, CHOOSE i \in InfoMap(o) : \A j \in InfoMap(o) : i <= j).rpl

\* The RPL a symbol is imported from.
ImportRpl(o, e) == SectionAt(o, ImportSymbol(o, e).shndx).rpl

\* A relocation as Linker takes it; its destination is the block of the section that the
\* relocation section names.
Relocation(o, e, import, sym) ==
  LET sec == SectionAt(o, e[1])
      entry == get_entry(o, sec, e[2])
      target == SectionAt(o, sec.info)
  IN  [type |-> entry.type, offset |-> entry.offset, addend |-> entry.addend,
       import |-> import, sym |-> sym, sec |-> IF target.va < DataVA THEN "text" ELSE "data"]

LocalRelocs(o) ==
  {Relocation(o, e, Local, get_symbol(o, SectionAt(o, e[1]), e[2]).value) :
     e \in {f \in UNION {Entries(o, i) : i \in Walked(o)} : ~Imported(o, SectionAt(o, f[1]), f[2])}}

ImportRelocs(o) ==
  {Relocation(o, e, ImportRpl(o, e), ImportSymbol(o, e).export) :
     e \in Imports(o)}

Unreadable(o) == LinkFails(o) \/ ScanCrashes(o) \/ ImportFatal(o)

RelocsOf(o) ==
  IF Unreadable(o) THEN {} ELSE LocalRelocs(o) \cup ImportRelocs(o)

\* What takes the place of a relocation section has no symbols, and imports are used in
\* sections that were given memory: otherwise what is applied, and where, is undefined.
ASSUME TablesAssumption ==
  \A o \in Objects :
    /\ \A i \in Walked(o) : \A e \in Entries(o, i) :
         IsRelocation(SectionAt(o, i)) \/ ~HasSymbol(o, SectionAt(o, i), e[2])
    /\ ~LinkFails(o) => \A e \in Imports(o) :
         LET j == SectionAt(o, e[1]).info IN j \in Indices(o) /\ IsLoaded(SectionAt(o, j))

\* Files are what these objects hold.
ASSUME ObjectsAssumption == {RelocsOf(o) : o \in Objects} \subseteq Files

-----------------------------------------------------------------------------

TablesInit ==
  /\ object \in Objects
  /\ relocs = RelocsOf(object)
  /\ Begin

\* Tables that cannot be read end in OSFatal or a crash, some sections linked or not.
TablesNext ==
  /\ IF phase = "link" /\ Unreadable(object) THEN Fatal ELSE Next
  /\ UNCHANGED object

TablesSpec == TablesInit /\ [][TablesNext]_<<vars, object>>

-----------------------------------------------------------------------------
(* The properties *)

\* The import scan gets to its end.
ScanEnds(o) ==
  \A i \in Indices(o) : IsRelocation(SectionAt(o, i)) =>
    \A e \in Entries(o, i) : HasSymbol(o, SectionAt(o, i), e[2])

\* The relocation sections of what was given memory, and their entries.
Relocating(o) ==
  {i \in Indices(o) : /\ IsRelocation(SectionAt(o, i)) /\ SectionAt(o, i).info \in Indices(o)
                      /\ IsLoaded(SectionAt(o, SectionAt(o, i).info))}

AllEntries(o) == UNION {Entries(o, i) : i \in Relocating(o)}

\* No other section has the info of one of these and comes before it.
Unshadowed(o) == \A i \in Relocating(o) : i \in Found(o, SectionAt(o, i).info)

\* What a module is meant to be: each of these entries applied, as its symbol says.
Meant(o) ==
  {LET sym == get_symbol(o, SectionAt(o, e[1]), e[2])
   IN  IF Imported(o, SectionAt(o, e[1]), e[2])
         THEN Relocation(o, e, SectionAt(o, sym.shndx).rpl, sym.export)
         ELSE Relocation(o, e, Local, sym.value) : e \in AllEntries(o)}

ASSUME MeantAssumption ==
  \A o \in Objects : ~Unreadable(o) /\ ScanEnds(o) => o.meant = Meant(o)

\* Every relocation the module was built with, and no other, is applied before it runs:
\* between the walk of linkSection, which leaves imports out, and the scan for imports,
\* which leaves the others out, none is lost or taken for the other kind.  There are two
\* exceptions, those of RelocationDone.
EveryRelocation ==
  phase = "running" /\ ScanEnds(object) /\ Unshadowed(object) => done = object.meant

\* "Relocation done" (main.cpp 406), also when the scan for imports fails half way, whose
\* result load() ignores (ModuleDataFactory.cpp 173), and when another section has the same
\* info and comes first, which linkSection then takes for the relocation section (266).
RelocationDone == phase = "running" => done = object.meant

=============================================================================

----------------------------- MODULE ModuleLoad -----------------------------
(***************************************************************************)
(* From the module file in memory to its sections in their blocks: what    *)
(* Reader makes of an image is what Layout lays out.                       *)
(***************************************************************************)
EXTENDS Layout, Reader

CONSTANT Images  \* files: an image of Reader with `built`, the Sections it was made of

VARIABLES
  image,    \* the file
  data,     \* of each section: "stored", "inflated" or "none"
  outcome   \* "good" so far, "refused" by elfio::load, or "crash": address 0 was read

loadVars == <<image, data, outcome>>

Kinds == [null |-> "other", progbits |-> "progbits", nobits |-> "nobits", import |-> "import",
          strtab |-> "other"]

\* The sections as Layout takes them.
SectionsOf(img) ==
  LET secs == LoadedSections(img)
  IN  [n \in DOMAIN secs |->
         LET h == secs[n].header
         IN [kind |-> Kinds[h.type], alloc |-> h.alloc,
             bounds |-> NameOf(img, secs, n) = ".wut_load_bounds",
             va |-> h.addr, size |-> secs[n].size, align |-> h.align]]

ReadFaults(img) ==
  EntriesFit(img) /\ \E n \in DOMAIN img.sections : Faults(img, HeaderOf(img, n - 1))

\* Files are what these images are parsed as; no module has no sections.
ASSUME ImagesAssumption == {<<>>} \cup {SectionsOf(i) : i \in {j \in Images : load(j)}} \subseteq Files

\* What the files are made of: bytes, and headers that describe the sections asked for,
\* but for one that says there is no data and that it is compressed.
Bytes4 == [1 .. 4 -> 0 .. 255]

RawSection ==
  [type : DOMAIN Kinds, alloc : BOOLEAN, deflate : BOOLEAN, nameAt : Nat,
   offset : Bytes4, size : Bytes4, addr : Bytes4, align : Bytes4, name : STRING,
   room : BOOLEAN, stream : [claim : Bytes4, made : Nat, ok : BOOLEAN, memory : BOOLEAN]]

Damaged(raw) == raw.deflate /\ raw.type \in {"null", "nobits"}

Describes(img, raw, asked) ==
  /\ raw.deflate => Field(img, raw.size) > 0
  /\ asked.kind = Kinds[raw.type]
  /\ asked.alloc = raw.alloc /\ asked.bounds = (raw.name = ".wut_load_bounds")
  /\ asked.va = Field(img, raw.addr) /\ asked.align = Field(img, raw.align)
  /\ asked.size = Field(img, IF raw.deflate THEN raw.stream.claim ELSE raw.size)

ASSUME BuiltAssumption ==
  \A img \in Images :
    /\ img.size \in Nat /\ img.sections \in Seq(RawSection) /\ Len(img.sections) > 1
    /\ img.built \in Seq(Section) /\ Len(img.built) = Len(img.sections)
    /\ load(img) =>
         \A n \in DOMAIN img.sections :
           /\ ~Damaged(img.sections[n]) => Describes(img, img.sections[n], img.built[n])
           /\ img.sections[n].nameAt < img.built[Len(img.built)].size
    /\ img.sections[Len(img.sections)].type = "strtab"

\* A file that cannot be parsed ends in OSFatal: there is no module to lay out.
LoadInit ==
  /\ image \in Images
  /\ outcome = IF HeaderLoads(image) /\ ReadFaults(image) THEN "crash"
               ELSE IF load(image) THEN "good" ELSE "refused"
  /\ data = IF outcome = "good"
              THEN [n \in DOMAIN LoadedSections(image) |-> LoadedSections(image)[n].data] ELSE <<>>
  /\ file = IF outcome = "good" THEN SectionsOf(image) ELSE <<>>
  /\ Begin

\* memcpy from the data of a section that has none.
CopiesNothing ==
  /\ phase = "copy" /\ k <= Len(file) /\ Copied(file[k]) /\ ~Refused(file[k])
  /\ file[k].kind = "progbits" /\ data[k] = "none" /\ file[k].size > 0

Crash ==
  /\ outcome = "good" /\ CopiesNothing
  /\ outcome' = "crash" /\ UNCHANGED <<image, data, vars>>

LoadNext ==
  \/ Crash
  \/ outcome = "good" /\ ~CopiesNothing /\ Next /\ UNCHANGED loadVars
  \/ outcome # "good" /\ UNCHANGED <<vars, loadVars>>

LoadSpec == LoadInit /\ [][LoadNext]_<<vars, loadVars>>

-----------------------------------------------------------------------------
(* The property *)

\* A stream that is what it claims to be.
Sound(img, raw) ==
  raw.deflate => raw.stream.ok /\ raw.stream.made = Field(img, raw.stream.claim)

\* There is the memory it takes to inflate the section, if it is compressed.
Memory(raw) == raw.deflate => raw.stream.memory

\* The file is whole: all that its headers name is in it and could be taken into memory,
\* and its streams are sound.
Whole(img) ==
  /\ load(img) /\ EntriesFit(img)
  /\ img.shstrndx = Len(img.sections) - 1
  /\ \A n \in DOMAIN img.sections :
       LET h == HeaderOf(img, n - 1)
       IN  /\ h # Null /\ Sound(img, h) /\ Memory(h)
           /\ IF h.type \in {"null", "nobits"} THEN ~h.deflate ELSE Stored(img, h) = "stored"

\* Big-endian or little, compressed or not, a whole file gives the sections it was made
\* of.  Of a file cut short at any byte, or read with memory for a part of it, nothing is
\* copied into the module but what was meant: no section gets there compressed, or in
\* part, unless its own stream is bad or there was no memory to inflate it, which
\* section_impl::load takes for a section that need not be (elfio_section.hpp 227).
SectionsAsBuilt ==
  /\ Whole(image) => outcome = "good" /\ file = image.built
  /\ \A p \in placed :
       LET asked == image.built[p.sec]
           h == HeaderOf(image, p.sec - 1)
       IN  Sound(image, h) /\ Memory(h) /\ h.type = "progbits" /\ asked.size > 0 =>
             /\ p.to - p.from = asked.size /\ file[p.sec].va = asked.va
             /\ data[p.sec] = IF h.deflate THEN "inflated" ELSE "stored"
             /\ h.offset + h.size <= image.size

-----------------------------------------------------------------------------
(* The inductive invariant behind it *)

Parsed ==
  /\ load(image) /\ ~ReadFaults(image) /\ file = SectionsOf(image)
  /\ data = [n \in DOMAIN LoadedSections(image) |-> LoadedSections(image)[n].data]

\* A file is parsed, or nothing happens; it crashes before a copy from nowhere.
LoadInv ==
  /\ image \in Images
  /\ IF load(image) /\ ~ReadFaults(image)
       THEN Parsed /\ (outcome = "good" \/ (outcome = "crash" /\ CopiesNothing))
       ELSE outcome # "good" /\ placed = {}
  /\ \A p \in placed :
       file[p.sec].kind = "progbits" /\ file[p.sec].size > 0 => data[p.sec] # "none"

=============================================================================

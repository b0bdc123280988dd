------------------------------- MODULE MCLayout -------------------------------
(***************************************************************************)
(* The TLC instance of Layout: every module of up to two sections out of   *)
(* those below, of three out of fewer, in a heap near the front of the     *)
(* address space and in one so far back that an address can wrap.          *)
(***************************************************************************)
EXTENDS ModuleLoad

Sec(kind, va, size, align) ==
  [kind |-> kind, alloc |-> TRUE, bounds |-> FALSE, va |-> va, size |-> size, align |-> align]

TextSections == {Sec("progbits", va, size, align) :
                   va \in {16, 20, 24}, size \in {3, 4, 8}, align \in {1, 4, 16}}
DataSections == {Sec("nobits", va, size, 4) : va \in {64, 68}, size \in {3, 4, 8}}
Wrapping     == Sec("progbits", 324, 4, 4)
Oddities     == {Wrapping, Sec("progbits", 8, 4, 4), Sec("progbits", 400, 4, 4),
                 Sec("progbits", 16, 4, 0), Sec("import", 384, 4, 4), Sec("other", 16, 8, 4),
                 [Sec("progbits", 16, 8, 4) EXCEPT !.alloc = FALSE],
                 [Sec("progbits", 64, 2, 1) EXCEPT !.bounds = TRUE],
                 [Sec("progbits", 64, 40, 4) EXCEPT !.bounds = TRUE],
                 Sec("nobits", 20, 508, 4), Sec("nobits", 16, 300, 4), Sec("nobits", 68, 300, 4)}
All          == TextSections \cup DataSections \cup Oddities
Few          == {s \in TextSections \cup DataSections : s.size # 3 /\ s.align = 4 /\ s.va # 24}
                  \cup {Sec("progbits", 24, 4, 4), Wrapping}

Modules == {<<s>> : s \in All} \cup {<<s, t>> : s \in All, t \in All}
             \cup {<<s, t, u>> : s \in Few, t \in Few, u \in Few}

-----------------------------------------------------------------------------
(* The files these modules are in: headers, then the data of each section *)

Bytes(v, enc) ==
  LET b == <<v \div 16777216, (v \div 65536) % 256, (v \div 256) % 256, v % 256>>
  IN  IF enc = "MSB" THEN b ELSE <<b[4], b[3], b[2], b[1]>>

StrTab == [Sec("other", 0, 20, 1) EXCEPT !.alloc = FALSE]

\* What a section takes in the file; compressed, six bytes.
InImage(s, packed) == IF s.kind = "nobits" THEN 0 ELSE IF packed THEN 6 ELSE s.size

Raw(s, type, packed, offset, enc) ==
  [type |-> type, alloc |-> s.alloc, deflate |-> packed, nameAt |-> 1,
   offset |-> Bytes(offset, enc),
   size |-> Bytes(IF packed THEN 6 ELSE s.size, enc),
   addr |-> Bytes(s.va, enc), align |-> Bytes(s.align, enc),
   name |-> IF s.bounds THEN ".wut_load_bounds" ELSE ".name", room |-> TRUE,
   stream |-> [claim |-> Bytes(s.size, enc), made |-> s.size, ok |-> TRUE, memory |-> TRUE]]

\* `packed`: positions of the compressed sections.
Image(f, class, enc, packed) ==
  LET all == Append(f, StrTab)
      start == Ehdr[class] + Len(all) * Shdr[class]
      at[n \in 1 .. Len(all) + 1] ==
        IF n = 1 THEN start ELSE LET before == at[n - 1] IN before + InImage(all[n - 1], n - 1 \in packed)
  IN  [size |-> at[Len(all) + 1], magic |-> TRUE, class |-> class, encoding |-> enc,
       shoff |-> Ehdr[class], shentsize |-> Shdr[class], shstrndx |-> Len(f),
       phoff |-> 0, phentsize |-> 0, segments |-> <<>>,
       sections |-> [n \in DOMAIN all |->
                       Raw(all[n], IF n = Len(all) THEN "strtab"
                                   ELSE IF all[n].kind = "other" THEN "null" ELSE all[n].kind,
                           n \in packed, at[n], enc)],
       built |-> all]

Pair == <<Sec("progbits", 16, 8, 4), Sec("progbits", 64, 8, 4)>>
Bounds == <<Sec("progbits", 16, 8, 4), [Sec("progbits", 64, 2, 1) EXCEPT !.bounds = TRUE]>>

Plain == Image(Pair, 32, "MSB", {})
Packed == Image(Pair, 32, "MSB", {1, 2})
Named == Image(Bounds, 32, "MSB", {3})

\* Files of either byte order and class, compressed in part.
Ordinary ==
  {Image(f, 32, "MSB", {}) : f \in Modules}
  \cup {Image(f, class, enc, packed) :
          f \in {Pair, Bounds}, class \in {32, 64}, enc \in {"MSB", "LSB"}, packed \in SUBSET {1, 2, 3}}

\* Files cut short, files whose headers or streams are not what they should be, and files
\* there is not enough memory to read.
Odd ==
  {[i EXCEPT !.size = n] : i \in {Plain, Packed, Named},
                           n \in {10, 40, 60, 91, 92, 132, 171, 172, 176, 180, 184, 188, 200}}
  \cup {[Plain EXCEPT !.magic = FALSE], [Plain EXCEPT !.class = 0], [Plain EXCEPT !.encoding = "none"],
        [Plain EXCEPT !.shentsize = 8], [Plain EXCEPT !.shstrndx = 9], [Named EXCEPT !.shstrndx = 0],
        [Packed EXCEPT !.sections[1].stream.ok = FALSE],
        [Packed EXCEPT !.sections[2].stream.made = 9], [Packed EXCEPT !.sections[2].stream.made = 3],
        [Named EXCEPT !.sections[3].stream.ok = FALSE],
        [Packed EXCEPT !.sections[1].stream.memory = FALSE],
        [Named EXCEPT !.sections[3].stream.memory = FALSE], [Named EXCEPT !.sections[3].room = FALSE],
        [Plain EXCEPT !.sections[1].room = FALSE], [Packed EXCEPT !.sections[2].room = FALSE],
        [Plain EXCEPT !.sections[3].room = FALSE],
        [Plain EXCEPT !.sections[1].type = "nobits", !.sections[1].deflate = TRUE],
        [Plain EXCEPT !.segments = << <<>> >>],
        [Plain EXCEPT !.segments = << <<>> >>, !.phentsize = 32],
        [Plain EXCEPT !.segments = << <<>>, <<>> >>, !.phentsize = 32, !.phoff = 150]}

MCImages == Ordinary \cup Odd

MCFiles == {<<>>} \cup {SectionsOf(i) : i \in {j \in MCImages : load(j)}}
=============================================================================

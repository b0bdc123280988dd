------------------------------- MODULE Reader -------------------------------
(***************************************************************************)
(* Reading a module file from memory: elfio::load, the loading of sections *)
(* and segments, their names, the byte order (endianess_convertor) and the *)
(* decompression of sections (wiiu_zlib).                                  *)
(*                                                                         *)
(* An image is a record of what is in the file: `size` bytes; the ident    *)
(* (magic, class, encoding); the fields of the header, [shoff, shentsize,  *)
(* shstrndx, phoff, phentsize]; and the entries of its two tables in turn. *)
(* A section header is [type, alloc, deflate, nameAt, offset, size, addr,  *)
(* align], the numbers as the bytes stored.  What the bytes of a section   *)
(* are is told beside it: `name`, the string at nameAt of the string       *)
(* table, and `stream`, of a compressed one: [claim, made, ok, memory], the *)
(* size it begins with, the size it really inflates to, whether it is      *)
(* sound, and whether there is the memory to inflate it.  `room` is         *)
(* whether the memory asked for its bytes is had.                          *)
(***************************************************************************)
LOCAL INSTANCE Integers
LOCAL INSTANCE Sequences
LOCAL INSTANCE TLC

\* sizeof the structures of elf_types.hpp, by class.
Ehdr == 32 :> 52 @@ 64 :> 64
Shdr == 32 :> 40 @@ 64 :> 64
Phdr == 32 :> 32 @@ 64 :> 56

-----------------------------------------------------------------------------
(* endianess_convertor; the host is big-endian *)

get_host_encoding == "MSB"

need_conversion(encoding) == encoding # get_host_encoding

\* The value of four stored bytes, the first the highest unless the order is turned round.
Convert(encoding, bytes) ==
  LET b == IF need_conversion(encoding) THEN [n \in 1 .. 4 |-> bytes[5 - n]] ELSE bytes
  IN  256 * (256 * (256 * b[1] + b[2]) + b[3]) + b[4]

Field(image, bytes) == Convert(image.encoding, bytes)

-----------------------------------------------------------------------------
(* Sections *)

\* A header beyond the end of the file stays zero.
Null == [type |-> "null", alloc |-> FALSE, deflate |-> FALSE, nameAt |-> 0, offset |-> 0,
         size |-> 0, addr |-> 0, align |-> 0, name |-> "", room |-> TRUE,
         stream |-> [claim |-> <<0, 0, 0, 0>>, made |-> 0, ok |-> FALSE, memory |-> TRUE]]

\* The header at index j, from 0, of section_impl::load.
HeaderOf(image, j) ==
  LET raw == image.sections[j + 1]
      at == image.shoff + j * image.shentsize
  IN  IF at + Shdr[image.class] > image.size THEN Null
      ELSE [raw EXCEPT !.offset = Field(image, @), !.size = Field(image, @),
                       !.addr = Field(image, @), !.align = Field(image, @)]

\* Mutant of InFile: the end of the section is not compared with the end of the file.
InFileStart(image, h) == h.offset <= image.size

InFile(image, h) == h.offset + h.size <= image.size

\* load_data: whether there is memory for its bytes; for a section as large as the file
\* none is asked for, and not getting it is no error.
HasData(image, h) == h.type \notin {"null", "nobits"} /\ h.size < image.size /\ h.room

\* Its result: data that is there is all in the file.
load_data(image, h) == HasData(image, h) /\ h.size # 0 => InFile(image, h)

\* The section's data: as stored in the file, or none.
Stored(image, h) ==
  IF HasData(image, h) /\ load_data(image, h) THEN "stored" ELSE "none"

\* inflate() needs memory, for its result and for zlib itself, and all of the output to
\* fit in the size the stream claims.
Inflates(image, h) ==
  h.stream.memory /\ h.stream.ok /\ h.stream.made <= Field(image, h.stream.claim)

is_compressed(h) == h.deflate

\* A compressed section without data is read all the same, at address 0.
Faults(image, h) ==
  load_data(image, h) /\ is_compressed(h) /\ Stored(image, h) = "none"

\* section_impl::load.  A stream that does not inflate leaves the section as it was.
LoadedSection(image, j) ==
  LET h == HeaderOf(image, j)
      stored == [header |-> h, size |-> h.size, data |-> Stored(image, h)]
  IN  IF load_data(image, h) /\ is_compressed(h) /\ ~Faults(image, h) /\ Inflates(image, h)
        THEN [stored EXCEPT !.size = Field(image, h.stream.claim), !.data = "inflated"]
        ELSE stored

\* load_sections: with entries too small there are none, which load() does not notice.
EntriesFit(image) == image.shentsize >= Shdr[image.class]

LoadedSections(image) ==
  IF ~EntriesFit(image) THEN <<>>
  ELSE [n \in DOMAIN image.sections |-> LoadedSection(image, n - 1)]

\* get_string: only from data that is there, and from inside it.
HasString(table, at) == table.data # "none" /\ at < table.size

\* Section n keeps its empty name if the string table has none for it.
NameOf(image, secs, n) ==
  LET table == secs[image.shstrndx + 1]
  IN  IF image.shstrndx \in 1 .. Len(secs) - 1 /\ HasString(table, secs[n].header.nameAt)
        THEN IF table.data = "stored" /\ is_compressed(table.header) THEN "garbage"
             ELSE secs[n].header.name
        ELSE ""

-----------------------------------------------------------------------------
(* Segments, and the whole file *)

\* segment_impl::load; its data is copied from wherever its offset points.
SegmentLoads(image, j) == image.phoff + j * image.phentsize + Phdr[image.class] <= image.size

load_segments(image) ==
  image.segments # <<>> =>
    /\ image.phentsize >= Phdr[image.class]
    /\ \A n \in DOMAIN image.segments : SegmentLoads(image, n - 1)

\* The identification and the header; sections are loaded whatever comes of them.
HeaderLoads(image) ==
  /\ image.size >= 16
  /\ image.magic /\ image.class \in {32, 64} /\ image.encoding \in {"LSB", "MSB"}
  /\ image.size >= Ehdr[image.class]

load(image) == HeaderLoads(image) /\ load_segments(image)

=============================================================================

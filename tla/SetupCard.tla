----------------------------- MODULE SetupCard -----------------------------
(***************************************************************************)
(* The setup modules on the SD card: SetupRun, with the owners of its      *)
(* memory, composed with the listing of the environment's modules/setup    *)
(* (DirList) and with LoadFileToMem, which reads each file in blocks that  *)
(* may come back short.                                                    *)
(***************************************************************************)
EXTENDS Ownership, Folder

CONSTANTS
  Folders,   \* what readdir gives of modules/setup: [name, isDir, size, need] in turn
  Block,     \* 0x20000, scaled
  Line,      \* 0x40, scaled: LoadFileToMem allocates whole lines
  Ext        \* ".rpx"

VARIABLES
  dir,       \* the folder, one of Folders
  list,      \* setupModules: what DirList made of it
  mounted,   \* FSAMount found the card
  fd,        \* LoadFileToMem of this module: "closed", "open", "loop" or an end
  filesize,  \* what lseek gave
  room,      \* size of the buffer
  blocksize,
  done       \* bytes read into the buffer

fileVars == <<mounted, fd, filesize, room, blocksize, done>>

\* fs:/v/e/, where the environments are, and the one chosen.
Environments == <<102, 115, 58, Slash, 118, Slash, 101, Slash>>

Chosen == FolderPath(Environments) \o <<Slash, 97>>

\* setupModules; its second SortList changes nothing.
SetupModules(d) == DirList(Chosen \o <<Slash, 109, Slash, 115>>, d, FALSE, Ext)

\* Linux and mac files.
Starts(name) == name[1] \in {Dot, Underscore}

\* The list SetupRun walks through.
FilesOf(l) ==
  [k \in DOMAIN l |-> [hidden |-> Starts(GetFilename(l[k])), need |-> l[k].file.need]]

CardInit ==
  /\ dir \in Folders /\ list = SetupModules(dir)
  /\ mounted = TRUE /\ fd = "closed" /\ filesize = 0 /\ room = 0 /\ blocksize = 0 /\ done = 0
  /\ files = FilesOf(list) /\ Init /\ world = NoWorld

\* The extension is one; names are neither empty nor paths, and the file system of a card
\* holds no two that differ only in case.
ASSUME FolderAssumption ==
  /\ Ext \in Seq(Nat \ {0, Comma}) /\ Ext # <<>> /\ Ext[1] = Dot
  /\ \A k \in 2 .. Len(Ext) : Ext[k] # Dot
  /\ \A d \in Folders :
       /\ d \in Seq([name : Seq(Nat \ {0, Slash}) \ {<<>>}, isDir : BOOLEAN,
                    size : Nat, need : Nat \ {0}])
       /\ \A j, k \in DOMAIN d : SameIgnoringCase(d[j].name, d[k].name) => j = k

File == list[i].file

\* The largest word, (uint32_t) -1, is what a failing lseek leaves.
NoSize == Word - 1

\* Mutant of RoundUp: rounded down.
RoundDown(n) == n - (n % Line)

\* ROUNDUP; the sum may wrap.
RoundUp(n) == LET m == (n + Line - 1) % Word IN m - (m % Line)

\* A file on the card is far below 4 GiB.
ASSUME FileAssumption ==
  /\ Line \in Nat \ {0} /\ Block \in Nat \ {0}
  /\ \A d \in Folders : \A k \in DOMAIN SetupModules(d) :
       SetupModules(d)[k].file.size \in 0 .. Word - Line - 1

-----------------------------------------------------------------------------
(* LoadFileToMem *)

Same == UNCHANGED <<dir, list, vars, world>>

\* The card is mounted, if the client can be added; the file is opened, its size asked for.
Open ==
  /\ phase = "next" /\ i <= Len(files) /\ ~Hidden
  /\ fd = "closed"
  /\ \/ /\ mounted' = TRUE /\ filesize' \in {File.size, NoSize} /\ fd' = "open"
     \/ /\ mounted' \in {TRUE, card} /\ filesize' = 0 /\ fd' = "failed"
  /\ room' = 0 /\ blocksize' = Block /\ done' = 0
  /\ Same

Memalign ==
  /\ fd = "open"
  /\ \/ room' = RoundUp(filesize) /\ fd' = "loop"
     \/ room' = 0 /\ fd' = "failed"
  /\ UNCHANGED <<mounted, filesize, blocksize, done>> /\ Same

\* The last block is cut to what is left.
ToRead == IF done + blocksize > filesize THEN filesize - done ELSE blocksize

\* read may give less than was asked for, but no more than the file has, or fail.
ReadBlock ==
  /\ fd = "loop" /\ done < filesize
  /\ blocksize' = ToRead
  /\ \/ /\ \E n \in 1 .. blocksize' : n <= File.size - done /\ done' = done + n
        /\ UNCHANGED fd
     \/ fd' = "cut" /\ UNCHANGED done
  /\ UNCHANGED <<mounted, filesize, room>> /\ Same

\* Mutant of Complete: what was read before an error is enough.
CompleteIfAny == done > 0

Complete == done = filesize

Close ==
  /\ fd = "cut" \/ (fd = "loop" /\ done >= filesize)
  /\ fd' = IF Complete THEN "read" ELSE "failed"
  /\ UNCHANGED <<mounted, filesize, room, blocksize, done>> /\ Same

\* Back in LoadAndRunModule: a file that was not read, or does not parse, is fatal.
Loaded ==
  /\ fd \in {"read", "failed"} /\ fd' = "closed"
  /\ Load /\ card' = mounted
  /\ fd = "failed" => phase' = "fatal"
  /\ UNCHANGED <<dir, list, world, mounted, filesize, room, blocksize, done>>

-----------------------------------------------------------------------------

CardMain ==
  \/ Open \/ Memalign \/ ReadBlock \/ Close \/ Loaded
  \/ OwnerMain /\ UNCHANGED <<dir, list, fileVars>>

restVars == <<dir, list, world, fileVars>>

CardNext ==
  \/ CardMain
  \/ (Module \/ Return \/ Exit \/ Stopped) /\ UNCHANGED restVars

cardVars == <<vars, restVars>>

\* main never waits; a setup module returns.
CardSpec ==
  /\ CardInit /\ [][CardNext]_cardVars
  /\ WF_cardVars(CardMain) /\ WF_cardVars(Return /\ UNCHANGED restVars)

-----------------------------------------------------------------------------
(* Properties *)

Name(k) == GetFilename(list[k])

\* The setup modules of the folder: plain files whose extension is .rpx in any case.
IsModule(e) ==
  /\ ~e.isDir /\ ~Starts(e.name)
  /\ Len(e.name) >= Len(Ext)
  /\ SameIgnoringCase(SubSeq(e.name, Len(e.name) - Len(Ext) + 1, Len(e.name)), Ext)

\* Modules run in the order of their names, whatever their case and the order of the
\* card ("50_hbl_installer.rpx" after "00_..."); when main is done, all that are modules
\* of the folder ran and nothing else did.
RunInNameOrder ==
  /\ \A k, l \in ran : k < l => Greater(Name(l), Name(k))
  /\ phase \in {"wait", "ended"} =>
       {Name(k) : k \in ran} = {e.name : e \in {x \in {dir[j] : j \in DOMAIN dir} : IsModule(x)}}

\* However short the reads come back, nothing is written past the buffer, and what is
\* parsed as a module is the whole file.  (If lseek fails the buffer has no room at all.)
WholeFileRead ==
  /\ filesize # NoSize => done <= room
  /\ phase = "heap" => done = File.size

-----------------------------------------------------------------------------
(* The inductive invariant behind WholeFileRead *)

\* While a file is read nothing else happens, and what was read is part of it; only a
\* whole file leads on to a heap.
CardInv ==
  /\ dir \in Folders /\ list = SetupModules(dir) /\ files = FilesOf(list)
  /\ fd \in {"closed", "open", "loop", "cut", "read", "failed"}
  /\ fd # "closed" => phase = "next" /\ i \in DOMAIN list /\ ~Hidden
  /\ fd \in {"open", "loop", "cut", "read"} =>
       /\ filesize \in {File.size, NoSize}
       /\ done \in 0 .. File.size
  /\ fd \in {"loop", "cut", "read"} => room = RoundUp(filesize)
  /\ fd = "read" => done = filesize
  /\ fd \in {"loop", "cut", "read"} \/ (filesize # NoSize => done <= room)
  /\ fd = "open" => done = 0 /\ room = 0
  /\ phase = "heap" => done = File.size

=============================================================================

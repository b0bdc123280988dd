------------------------------ MODULE SetupRun ------------------------------
(***************************************************************************)
(* The run of an environment (main.cpp): its setup modules one after the   *)
(* other, the memory each is loaded to (GetHeapForModule and the ownership *)
(* of MemoryUtils.h), the region of memory handed to the module, and the   *)
(* kernel module's system calls.  What a module does while it runs is the  *)
(* environment of this specification.                                      *)
(***************************************************************************)
EXTENDS Integers, Sequences

CONSTANTS
  Lists,        \* what DirList may find, in order: [hidden, need] of each file
  Word, Align,  \* 2^32 and 0x10000, scaled
  RegionStart,  \* MEMORY_REGION_START
  TextStart,    \* textStart() - 0x100: where the loader itself begins
  Pool,         \* bytes of mapped memory that memorymapping manages
  UsedMax       \* bound: bytes of it that resident modules take for themselves

ASSUME RegionAssumption ==
  /\ {Word, Align, RegionStart, TextStart, Pool, UsedMax} \subseteq Nat
  /\ Align > 0 /\ 0 < RegionStart /\ RegionStart <= TextStart /\ TextStart < Word
  /\ UsedMax <= Pool

\* `need` is requiredHeapSize, a uint32_t.
ASSUME ListAssumption ==
  \A l \in Lists : l \in Seq([hidden : BOOLEAN, need : 1 .. Word - 1])

VARIABLES
  phase,    \* where main is; "fatal" is OSFatal
  files,    \* the sorted list of setup files
  i,        \* position in it
  ran,      \* positions of the modules called
  card,     \* the SD card is mounted
  mapping,  \* homebrew_memorymapping: "absent", "loaded" (no functions yet) or "ready"
  used,     \* mapped memory that resident modules hold
  lent,     \* mapped memory that the loader holds
  heap,     \* the HeapWrapper of this module
  blocks,   \* ExpHeapMemory blocks alive in it
  owned,    \* resident modules own [RegionStart, owned)
  kernel    \* homebrew_kernel: "absent", "old" (without the export), "unset" or "set"

moduleVars == <<card, mapping, used, owned, kernel>>
heapVars == <<lent, heap, blocks>>
vars == <<phase, files, i, ran, heapVars, moduleVars>>

NoHeap == [kind |-> "none", start |-> 0, size |-> 0]

TypeOK ==
  /\ phase \in {"next", "heap", "load", "running", "return", "free", "kernel",
                "wait", "ended", "fatal"}
  /\ files \in Lists
  /\ i \in 1 .. Len(files) + 1
  /\ ran \subseteq DOMAIN files
  /\ card \in BOOLEAN
  /\ mapping \in {"absent", "loaded", "ready"}
  /\ used \in 0 .. UsedMax /\ lent \in Nat
  /\ heap \in [kind : {"none", "mapped", "region"}, start : 0 .. Word - 1, size : Nat]
  /\ blocks \subseteq {"info", "text", "data"}
  /\ owned \in RegionStart .. Word - 1
  /\ kernel \in {"absent", "old", "unset", "set"}

Init ==
  /\ phase = "next"
  /\ files \in Lists
  /\ i = 1 /\ ran = {}
  /\ card = TRUE
  /\ mapping = "absent" /\ used = 0
  /\ lent = 0 /\ heap = NoHeap /\ blocks = {}
  /\ owned = RegionStart
  /\ kernel = "absent"

-----------------------------------------------------------------------------
(* The loop over the setup modules, and loading one *)

Fatal == phase' = "fatal" /\ UNCHANGED <<files, i, ran, heapVars, moduleVars>>

\* Mutants of Hidden and Following: every file is a module; the index advances twice.
HiddenNever == FALSE

FollowingTwice == i + 2

\* Linux and mac files whose name starts with . or _.
Hidden == files[i].hidden

Following == i + 1

Skip ==
  /\ phase = "next" /\ i <= Len(files) /\ Hidden
  /\ i' = Following
  /\ UNCHANGED <<phase, files, ran, heapVars, moduleVars>>

\* The card is mounted again, if the client can be added; the file is read and parsed.
Load ==
  /\ phase = "next" /\ i <= Len(files) /\ ~Hidden
  /\ \E mounted \in {TRUE, card} :
       /\ card' = mounted
       /\ phase' \in IF mounted THEN {"heap", "fatal"} ELSE {"fatal"}
  /\ UNCHANGED <<files, i, ran, heapVars, mapping, used, owned, kernel>>

Need == files[i].need

\* GetHeapFromMappedMemory finds the functions, and memory.
FromMapping == mapping = "ready" /\ Need <= Pool - used - lent

MappedHeap ==
  /\ phase = "heap" /\ FromMapping
  /\ lent' = lent + Need
  /\ heap' = [kind |-> "mapped", start |-> 0, size |-> Need]
  /\ phase' = "load"
  /\ UNCHANGED <<files, i, ran, blocks, moduleVars>>

AlignDown(x) == x - (x % Align)

\* Mutant of Start: rounded up.
StartUp == AlignDown((TextStart - Need + Align - 1) % Word)

\* Below the loader, rounded down to 64 KiB.
Start == AlignDown((TextStart - Need) % Word)

\* Only the lower end is compared: a module that needs more than lies below the loader
\* has its start wrap to the top of the address space, above the region.  There the heap
\* is made if coreinit finds memory and accepts an end below the start; if not, its
\* handle is not the address, which is fatal too.
RegionHeap ==
  /\ phase = "heap" /\ ~FromMapping
  /\ \/ /\ RegionStart <= Start
        /\ heap' = [kind |-> "region", start |-> Start, size |-> (TextStart - Start) % Word]
        /\ phase' = "load"
        /\ UNCHANGED <<files, i, ran, lent, blocks, moduleVars>>
     \/ (Start < RegionStart \/ TextStart < Start) /\ Fatal

\* The module information, then .text and .data of ModuleDataFactory::load.
Alloc ==
  /\ phase = "load" /\ blocks # {"info", "text", "data"}
  /\ \/ /\ blocks' = CASE blocks = {} -> {"info"}
                       [] blocks = {"info"} -> {"info", "text"}
                       [] OTHER -> {"info", "text", "data"}
        /\ UNCHANGED <<phase, files, i, ran, lent, heap, moduleVars>>
     \/ Fatal

\* Sections copied and relocations done, the entry point is called.
Call ==
  /\ phase = "load" /\ blocks = {"info", "text", "data"}
  /\ \/ /\ phase' = "running" /\ ran' = ran \cup {i}
        /\ UNCHANGED <<files, i, heapVars, moduleVars>>
     \/ Fatal

-----------------------------------------------------------------------------
(* What the module may do before it returns *)

\* Mutant of Given: the end of the heap for its start.
GivenEnd == IF heap.kind = "mapped" THEN 0 ELSE heap.start + heap.size

\* usable_mem_end, the fourth argument.
Given == IF heap.kind = "mapped" THEN 0 ELSE heap.start

Running == phase = "running" /\ UNCHANGED <<phase, files, i, ran, heapVars>>

\* "Some module may unmount the sd card on exit."
Unmount == Running /\ card /\ card' = FALSE /\ UNCHANGED <<mapping, used, owned, kernel>>

InstallMapping ==
  /\ Running /\ mapping = "absent" /\ mapping' = "loaded"
  /\ UNCHANGED <<card, used, owned, kernel>>

\* Aroma's module loader keeps the region it was given, and is then "expected to expose
\* new memory region via the custom rpl".
TakeRegion ==
  /\ Running /\ Given # 0
  /\ owned' = IF owned < Given THEN Given ELSE owned
  /\ mapping' = "ready"
  /\ UNCHANGED <<card, used, kernel>>

TakeMapped ==
  /\ Running /\ mapping = "ready"
  /\ \E n \in 1 .. UsedMax - used : n <= Pool - used - lent /\ used' = used + n
  /\ UNCHANGED <<card, mapping, owned, kernel>>

InstallKernel ==
  /\ Running /\ kernel = "absent" /\ kernel' \in {"old", "unset"}
  /\ UNCHANGED <<card, mapping, used, owned>>

\* "module may override the syscalls used by the Aroma KernelModule"
Override ==
  /\ Running /\ kernel = "set" /\ kernel' = "unset"
  /\ UNCHANGED <<card, mapping, used, owned>>

\* The module returns; its RPLs are released.
Return ==
  /\ phase = "running" /\ phase' = "return"
  /\ UNCHANGED <<files, i, ran, heapVars, moduleVars>>

-----------------------------------------------------------------------------
(* After the module *)

\* Mutant of Drop: the heap goes while blocks are alive.
DropEarly == blocks # {"info", "text", "data"}

\* The scope ends in the reverse order: ModuleData, then the information, then the heap.
Drop == blocks = {}

FreeBlock ==
  /\ phase = "return" /\ ~Drop
  /\ blocks' = CASE blocks = {"info", "text", "data"} -> {"info", "text"}
                 [] blocks = {"info", "text"} -> {"info"}
                 [] OTHER -> {}
  /\ UNCHANGED <<phase, files, i, ran, lent, heap, moduleVars>>

\* ~HeapWrapper: the heap is destroyed and its memory cleared.
DestroyHeap ==
  /\ phase = "return" /\ Drop
  /\ heap' = NoHeap /\ phase' = "free"
  /\ UNCHANGED <<files, i, ran, lent, blocks, moduleVars>>

\* Mutant of Freed: the free function is lost when the wrapper is moved.
FreedNever == lent

\* ~MemoryWrapper: only memory of the static region has no free function.
Freed == 0

FreeMemory ==
  /\ phase = "free" /\ lent' = Freed /\ phase' = "kernel"
  /\ UNCHANGED <<files, i, ran, heap, blocks, moduleVars>>

\* Mutant of Restored: the kernel module is not set up again.
RestoredNot == kernel

\* KernelSetupDefaultSyscalls is called if homebrew_kernel is there.
Restored == IF kernel = "absent" THEN "absent" ELSE "set"

SetupKernelModule ==
  /\ phase = "kernel"
  /\ IF kernel = "old" THEN Fatal
     ELSE /\ kernel' = Restored
          /\ phase' = "next" /\ i' = Following
          /\ UNCHANGED <<files, ran, heapVars, card, mapping, used, owned>>

\* ProcUIInit, then CheckRunning until the system switches to another title.
Wait ==
  /\ phase = "next" /\ i > Len(files) /\ phase' = "wait"
  /\ UNCHANGED <<files, i, ran, heapVars, moduleVars>>

Exit ==
  /\ phase = "wait" /\ phase' = "ended"
  /\ UNCHANGED <<files, i, ran, heapVars, moduleVars>>

-----------------------------------------------------------------------------

Main ==
  \/ Skip \/ Load \/ MappedHeap \/ RegionHeap \/ Alloc \/ Call
  \/ FreeBlock \/ DestroyHeap \/ FreeMemory \/ SetupKernelModule \/ Wait

Module ==
  Unmount \/ InstallMapping \/ TakeRegion \/ TakeMapped \/ InstallKernel \/ Override

Stopped == phase \in {"ended", "fatal"} /\ UNCHANGED vars

Next == Main \/ Module \/ Return \/ Exit \/ Stopped

\* main never waits; a setup module returns.
Spec == Init /\ [][Next]_vars /\ WF_vars(Main) /\ WF_vars(Return)

-----------------------------------------------------------------------------
(* Properties *)

\* The region a resident module was given is never part of the heap of a later module:
\* "if Aroma is already loaded, we can't use the region" (main.cpp 284).
RegionKept == heap.kind = "region" => owned <= heap.start

\* A heap in the static region does not begin below it, begins on a 64 KiB boundary and,
\* unless the module needs more than lies below the loader at all, holds what the module
\* needs and ends where the loader begins (main.cpp 288-301).
HeapFits ==
  heap.kind = "region" =>
    /\ RegionStart <= heap.start /\ heap.start % Align = 0
    /\ Need <= TextStart => heap.start + heap.size = TextStart /\ Need <= heap.size

\* What the code says of every heap made without mapped memory (main.cpp 288): it is in
\* the region below the loader.
HeapInRegion == heap.kind = "region" => heap.start + heap.size <= TextStart

\* Blocks do not survive their heap ("must not survive the heapWrapper", main.cpp 380
\* and 392), nor does the loader keep mapped memory from one module to the next.
NothingOutlives ==
  /\ blocks # {} => heap.kind # "none"
  /\ heap.kind = "mapped" => lent = heap.size
  /\ phase \in {"next", "wait"} => lent = 0 /\ heap = NoHeap /\ blocks = {}

\* However modules override the system calls, the next file is opened, and the console
\* left to the user, only with those of the kernel module (main.cpp 441).
SyscallsSet == phase \in {"next", "heap", "load", "wait"} => kernel \in {"absent", "set"}

\* The promise to the modules: in order, once, one at a time, to the end.
PromiseState ==
  IF phase = "running" THEN "running"
  ELSE IF phase \in {"wait", "ended"} THEN "complete"
  ELSE IF phase = "fatal" THEN "stopped"
  ELSE "idle"

Promise == INSTANCE SetupPromise WITH
  visible <- {k \in DOMAIN files : ~files[k].hidden},
  state <- PromiseState

PromiseKept == Promise!Spec

-----------------------------------------------------------------------------
(* The inductive invariant behind the safety properties *)

\* There is always mapped memory for a module: what RegionKept takes.
Enough == \A l \in Lists : \A k \in DOMAIN l : l[k].need + UsedMax <= Pool

AtModule == {"heap", "load", "running", "return", "free", "kernel"}

\* Where main is says whether there is a module, and whether it has a heap.
PhaseFits ==
  /\ phase \in AtModule => i <= Len(files) /\ ~files[i].hidden
  /\ phase \in {"wait", "ended"} => i > Len(files)
  /\ phase \in {"load", "running", "return"} => heap.kind # "none"
  /\ heap.kind # "none" => phase \in {"load", "running", "return", "fatal"} /\ i <= Len(files)
  /\ heap.kind = "none" => heap = NoHeap /\ blocks = {}

\* What is lent is what the heap is made of.
LentFits ==
  /\ heap.kind = "mapped" => lent = heap.size
  /\ phase \in {"next", "heap", "kernel", "wait", "ended"} \/ heap.kind = "region" => lent = 0

\* The visible files before this one were called, and this one if main got there.
RanFits ==
  phase # "fatal" =>
    ran = {k \in DOMAIN files :
             /\ ~files[k].hidden
             /\ k < i \/ (k = i /\ phase \in {"running", "return", "free", "kernel"})}

\* Whoever owns the region provides mapped memory.
OwnerProvides == owned # RegionStart => mapping = "ready"

SetupInv ==
  /\ TypeOK /\ PhaseFits /\ LentFits /\ RanFits /\ OwnerProvides
  /\ HeapFits /\ SyscallsSet
  /\ Enough => RegionKept

=============================================================================

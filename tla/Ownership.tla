----------------------------- MODULE Ownership -----------------------------
(***************************************************************************)
(* Who owns the memory of a setup module: SetupRun with the C++ objects    *)
(* that hold it, MemoryWrapper, HeapWrapper and ExpHeapMemory of           *)
(* MemoryUtils.h, as they are constructed, moved from function to function *)
(* and destroyed on the way.  A destructor that runs on an object still    *)
(* holding what was moved out of it would take the memory from under the   *)
(* module.                                                                 *)
(***************************************************************************)
EXTENDS SetupRun

VARIABLE world   \* the objects, what is alive outside them, and whether a destructor broke it

\* The temporaries of a return, the locals they are moved to and the owners in the end.
Objects ==
  {"memory", "temp", "local", "heapWrapper", "block", "infoOpt", "info", "textOpt", "text",
   "dataOpt", "data", "mText", "mData"}

\* The fields of all three classes; sizes move with their pointers.
Null == [mem |-> "null", free |-> FALSE, handle |-> "null", ptr |-> "null", data |-> "null"]

\* What a MemoryWrapper, a HeapWrapper with a heap and an ExpHeapMemory hold.
OfMemory(mem, free) ==
  [mem |-> mem, free |-> free, handle |-> "null", ptr |-> "null", data |-> "null"]

OfHeap(mem, free) ==
  [mem |-> mem, free |-> free, handle |-> "heap", ptr |-> mem, data |-> "null"]

OfBlock(b) ==
  [mem |-> "null", free |-> FALSE, handle |-> "heap", ptr |-> "null", data |-> b]

NoObjects == [o \in Objects |-> Null]

-----------------------------------------------------------------------------
(* Constructors, moves and destructors, on a world w *)

\* MemoryWrapper(ptr, size, freeFn)
Construct(w, o, mem, free) == [w EXCEPT !.objs[o] = OfMemory(mem, free)]

\* Mutant of Move: the source keeps what it had.
MoveCopies(w, to, from) == [w EXCEPT !.objs[to] = w.objs[from]]

\* Each move constructor, and each move assignment, empties its source; what the target of
\* an assignment held is not given back.
Move(w, to, from) == [w EXCEPT !.objs[to] = w.objs[from], !.objs[from] = Null]

\* HeapWrapper(MemoryWrapper&&) makes a heap of the memory it takes over.
Wrap(w, to, from) ==
  LET moved == Move(w, to, from)
  IN  [moved EXCEPT !.objs[to] = OfHeap(@.mem, @.free), !.live = @ \cup {"heap"}]

\* ExpHeapMemory::Alloc: the value it returns is moved into an optional.
Allocate(w, opt, name) ==
  LET got == [w EXCEPT !.objs["block"] = OfBlock(name), !.live = @ \cup {name}]
  IN  Move(got, opt, "block")

Lost(w, what) == what \notin w.live

\* ~ExpHeapMemory
FreeOf(w, o) ==
  IF w.objs[o].data = "null" THEN w
  ELSE [objs |-> [w.objs EXCEPT ![o] = Null],
        live |-> w.live \ {w.objs[o].data},
        broken |-> w.broken \/ Lost(w, w.objs[o].data) \/ Lost(w, "heap")]

\* ~HeapWrapper, up to its member: the heap is destroyed with its blocks, then cleared.
DestroyOf(w, o) ==
  LET had == w.objs[o]
      left == IF had.handle = "null" THEN w.live ELSE w.live \cap {"memory"}
  IN  [objs |-> [w.objs EXCEPT ![o] = OfMemory(had.mem, had.free)],
       live |-> left,
       broken |-> \/ w.broken
                  \/ had.handle # "null" /\ Lost(w, "heap")
                  \/ had.ptr # "null" /\ "heap" \in left]

\* ~MemoryWrapper: memory with a free function is cleared and given back.
ReleaseOf(w, o) ==
  IF w.objs[o].mem = "null" \/ ~w.objs[o].free THEN [w EXCEPT !.objs[o] = Null]
  ELSE [objs |-> [w.objs EXCEPT ![o] = Null],
        live |-> w.live \ {"memory"},
        broken |-> w.broken \/ Lost(w, "memory") \/ "heap" \in w.live]

\* ~HeapWrapper, all of it.
EndOf(w, o) == ReleaseOf(DestroyOf(w, o), o)

\* MemoryWrapper::IsAllocated, which HeapWrapper passes on.
IsAllocated(w, o) == w.objs[o].free /\ w.objs[o].mem # "null"

-----------------------------------------------------------------------------
(* The objects of LoadAndRunModule *)

\* The heap of GetHeapFromMappedMemory goes through its result into that of
\* GetHeapForModule; each function destroys what it moved from.
MappedObjects(w) ==
  LET lentNow == Construct([w EXCEPT !.live = @ \cup {"memory"}], "memory", "memory", TRUE)
      result  == Move(Wrap(lentNow, "temp", "memory"), "local", "temp")
      back    == ReleaseOf(EndOf(result, "temp"), "memory")
  IN  EndOf(Move(back, "heapWrapper", "local"), "local")

\* The heap in the static region; its memory has no free function.
RegionObjects(w) ==
  LET res  == Wrap(Construct(w, "memory", "region", FALSE), "local", "memory")
      back == ReleaseOf(res, "memory")
  IN  EndOf(Move(back, "heapWrapper", "local"), "local")

NewBlock == CHOOSE b \in blocks' : b \notin blocks

OptOf(b) == CASE b = "info" -> "infoOpt" [] b = "text" -> "textOpt" [] OTHER -> "dataOpt"

\* Each block is moved out of its optional at once.
AllocObjects(w, b) ==
  FreeOf(Move(FreeOf(Allocate(w, OptOf(b), b), "block"), b, OptOf(b)), "block")

\* ModuleDataFactory::load hands its blocks to the ModuleData, and its locals end.
LoadObjects(w) ==
  LET given == Move(Move(w, "mText", "text"), "mData", "data")
  IN  FreeOf(FreeOf(FreeOf(FreeOf(given, "data"), "dataOpt"), "text"), "textOpt")

\* ~ModuleData destroys its members last to first; then moduleInfo and moduleInfoOpt end.
ScopeObjects(w) ==
  IF "data" \in blocks THEN FreeOf(w, "mData")
  ELSE IF "text" \in blocks THEN FreeOf(w, "mText")
  ELSE FreeOf(FreeOf(w, "info"), "infoOpt")

Unless(fatal, after) == world' = IF fatal THEN world ELSE after

OwnerMain ==
  \/ MappedHeap /\ world' = MappedObjects(world)
  \/ RegionHeap /\ Unless(phase' = "fatal", RegionObjects(world))
  \/ Alloc /\ Unless(phase' = "fatal", AllocObjects(world, NewBlock))
  \/ Call /\ Unless(phase' = "fatal", LoadObjects(world))
  \/ FreeBlock /\ world' = ScopeObjects(world)
  \/ DestroyHeap /\ world' = DestroyOf(world, "heapWrapper")
  \/ FreeMemory /\ world' = ReleaseOf(world, "heapWrapper")
  \/ (Skip \/ SetupKernelModule \/ Wait) /\ UNCHANGED world

NoWorld == [objs |-> NoObjects, live |-> {}, broken |-> FALSE]

-----------------------------------------------------------------------------
(* Properties *)

Owners(what) ==
  {o \in Objects : what \in {world.objs[o].handle, world.objs[o].data} \/
                   (what = "memory" /\ IsAllocated(world, o))}

\* Through all moves and early ends, what is alive is what SetupRun says is: no destructor
\* of an object moved from frees a block, destroys the heap or clears the memory of a
\* module that is loaded or running, and none of them is freed twice or kept.  Blocks and
\* lent memory have one owner, and the module is given a region only if none was lent.
OwnedOnce ==
  /\ ~world.broken
  /\ world.live = blocks \cup (IF heap.kind # "none" THEN {"heap"} ELSE {})
                         \cup (IF lent > 0 THEN {"memory"} ELSE {})
  /\ \A what \in world.live \ {"heap"} : \E o \in Objects : Owners(what) = {o}
  /\ phase = "running" => (IsAllocated(world, "heapWrapper") <=> Given = 0)

-----------------------------------------------------------------------------
(* The inductive invariant behind OwnedOnce *)

\* heapWrapper has a heap, then only the heap's memory.
Wrapper ==
  LET mem == IF lent > 0 THEN "memory" ELSE "region"
  IN  IF heap.kind # "none" THEN OfHeap(mem, lent > 0)
      ELSE IF phase = "free" THEN OfMemory(mem, lent > 0) ELSE Null

Owner(b) == IF b \in blocks THEN OfBlock(b) ELSE Null

\* .text and .data pass to the ModuleData when load returns.
Passed == phase \in {"running", "return"}

\* What each object holds.
Held ==
  [o \in Objects |->
    CASE o = "heapWrapper" -> Wrapper
      [] o = "info" -> Owner("info")
      [] o = (IF Passed THEN "mText" ELSE "text") -> Owner("text")
      [] o = (IF Passed THEN "mData" ELSE "data") -> Owner("data")
      [] OTHER -> Null]

Alive ==
  blocks \cup (IF heap.kind # "none" THEN {"heap"} ELSE {})
         \cup (IF lent > 0 THEN {"memory"} ELSE {})

\* Blocks are alive in the order of their allocation, all of them while the module runs.
OwnerInv ==
  /\ world = [objs |-> Held, live |-> Alive, broken |-> FALSE]
  /\ blocks \in {{}, {"info"}, {"info", "text"}, {"info", "text", "data"}}
  /\ phase = "running" => blocks = {"info", "text", "data"}
  /\ heap.kind = "mapped" => heap.size > 0
  /\ heap.kind = "none" /\ phase # "free" => lent = 0

=============================================================================

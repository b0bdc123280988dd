---------------------------- MODULE SetupProofs ----------------------------
(***************************************************************************)
(* Proofs about SetupRun and SetupCard, for every list of setup files,     *)
(* every place of the loader and every amount of mapped memory.  First the *)
(* run; then that listing, reading files and passing the memory from       *)
(* object to object add nothing to what it allows, so that its theorems    *)
(* hold of the composition; that what is loaded is a whole file; that the  *)
(* modules run are those of the folder, in order; and that what is alive   *)
(* of a module's memory has one owner through all constructions, moves and *)
(* destructions: the lemmas compute the world each of them leaves, from    *)
(* one object at a time to a whole function of the code.                   *)
(***************************************************************************)
EXTENDS SetupCard, FolderProofs

-----------------------------------------------------------------------------
(* The static region *)

LEMMA ModRange ==
  ASSUME NEW n \in Nat \ {0}, NEW x \in Int PROVE x % n \in 0 .. n - 1
  BY SMT

LEMMA ModSame ==
  ASSUME NEW n \in Nat \ {0}, NEW x \in 0 .. n - 1
  PROVE x % n = x /\ (x - n) % n = x
  BY SMT

LEMMA AlignedDown ==
  ASSUME NEW x \in Nat
  PROVE /\ AlignDown(x) \in Nat /\ AlignDown(x) % Align = 0
        /\ AlignDown(x) <= x /\ x < AlignDown(x) + Align
<1> DEFINE q == x \div Align
           r == x % Align
<1>1. Align \in Nat \ {0} BY RegionAssumption DEF RegionAssumption
<1>2. r \in 0 .. Align - 1 BY <1>1, ModRange
<1>3. x = Align * q + r /\ q \in Nat BY <1>1, SMT
<1>4. AlignDown(x) = x - r BY DEF AlignDown
<1>5. (Align * q) % Align = 0 BY <1>1, <1>3, SMT
<1> HIDE DEF q, r
<1>6. Align * q \in Nat BY <1>1, <1>3
<1>7. AlignDown(x) = Align * q BY <1>1, <1>2, <1>3, <1>4, <1>6
<1> QED BY <1>1, <1>2, <1>4, <1>5, <1>6, <1>7

\* Where a heap starts, and for a need that lies below the loader, that there is room.
LEMMA RegionHolds ==
  ASSUME NEW need \in 1 .. Word - 1,
         NEW start, start = AlignDown((TextStart - need) % Word)
  PROVE /\ start \in 0 .. Word - 1 /\ start % Align = 0
        /\ (TextStart - start) % Word \in Nat
        /\ need <= TextStart =>
             start + ((TextStart - start) % Word) = TextStart /\ need <= (TextStart - start) % Word
<1> DEFINE x == (TextStart - need) % Word
           size == (TextStart - start) % Word
<1>1. /\ Word \in Nat \ {0} /\ Align \in Nat \ {0} /\ TextStart \in Nat
      /\ TextStart < Word
  BY RegionAssumption DEF RegionAssumption
<1>2. x \in 0 .. Word - 1
  BY <1>1, ModRange, TextStart - need \in Int
<1>3. need <= TextStart => x = TextStart - need
  <2> SUFFICES ASSUME need <= TextStart PROVE x = TextStart - need
    OBVIOUS
  <2>1. TextStart - need \in 0 .. Word - 1
    BY <1>1
  <2> QED BY <1>1, <2>1, ModSame
<1> HIDE DEF x
<1>4. start = AlignDown(x) BY DEF x
<1>5. start \in Nat /\ start % Align = 0 /\ start <= x /\ x < start + Align
  BY <1>1, <1>2, <1>4, AlignedDown
<1>6. size \in Nat
  <2>1. TextStart - start \in Int
    BY <1>1, <1>5
  <2>2. size \in 0 .. Word - 1
    BY <1>1, <2>1, ModRange
  <2> QED BY <1>1, <2>2
<1>7. ASSUME need <= TextStart PROVE size = TextStart - start /\ need <= TextStart - start
  <2>1. TextStart - start \in 0 .. Word - 1 /\ need <= TextStart - start
    BY <1>1, <1>3, <1>5, <1>7
  <2>2. (TextStart - start) % Word = TextStart - start
    BY <1>1, <2>1, ModSame
  <2> QED BY <2>1, <2>2
<1> HIDE DEF size
<1>8. need <= TextStart => start + size = TextStart /\ need <= size
  BY <1>1, <1>5, <1>6, <1>7
<1>9. start \in 0 .. Word - 1
  BY <1>1, <1>2, <1>5
<1> QED BY <1>5, <1>6, <1>8, <1>9 DEF size

-----------------------------------------------------------------------------
(* The invariant *)

LEMMA FilesTyped ==
  ASSUME TypeOK
  PROVE /\ Len(files) \in Nat /\ DOMAIN files = 1 .. Len(files)
        /\ i \in Nat /\ i >= 1 /\ i <= Len(files) + 1
        /\ \A k \in DOMAIN files : files[k].need \in 1 .. Word - 1 /\ files[k].hidden \in BOOLEAN
<1> DEFINE Listed == [hidden : BOOLEAN, need : 1 .. Word - 1]
<1>1. files \in Lists /\ i \in 1 .. Len(files) + 1 BY DEF TypeOK
<1>2. files \in Seq(Listed)
  BY <1>1, ListAssumption DEF ListAssumption
<1> HIDE DEF Listed
<1>3. \A k \in DOMAIN files : files[k] \in Listed BY <1>2
<1>4. Len(files) \in Nat /\ DOMAIN files = 1 .. Len(files) BY <1>2
<1>5. i \in Nat /\ i >= 1 /\ i <= Len(files) + 1 BY <1>1, <1>4
<1>6. \A k \in DOMAIN files : files[k].need \in 1 .. Word - 1 /\ files[k].hidden \in BOOLEAN
  BY <1>3 DEF Listed
<1> QED BY <1>4, <1>5, <1>6

LEMMA InvInit == Init => SetupInv
<1> SUFFICES ASSUME Init PROVE SetupInv OBVIOUS
<1>1. TypeOK
  <2>1. files \in Seq([hidden : BOOLEAN, need : 1 .. Word - 1])
    BY ListAssumption DEF Init, ListAssumption
  <2>2. Len(files) \in Nat BY <2>1
  <2> QED BY <2>2, RegionAssumption DEF Init, TypeOK, NoHeap, RegionAssumption
<1>2. PhaseFits /\ LentFits /\ OwnerProvides /\ HeapFits /\ SyscallsSet /\ RegionKept
  BY DEF Init, PhaseFits, LentFits, OwnerProvides, HeapFits, SyscallsSet, RegionKept,
         NoHeap, AtModule
<1>3. RanFits
  <2>1. DOMAIN files = 1 .. Len(files) /\ Len(files) \in Nat BY <1>1, FilesTyped
  <2> QED BY <2>1 DEF Init, RanFits
<1> QED BY <1>1, <1>2, <1>3 DEF SetupInv

\* A step of main that leaves the heap, and what modules own, alone.
LEMMA KeepsMemory ==
  ASSUME SetupInv, heap' = heap, i' = i, files' = files, owned' = owned
  PROVE HeapFits' /\ (Enough => RegionKept')
BY DEF SetupInv, HeapFits, RegionKept, Need

LEMMA InvNext == SetupInv /\ [Next]_vars => SetupInv'
<1> SUFFICES ASSUME SetupInv, [Next]_vars PROVE SetupInv' OBVIOUS
<1> USE DEF SetupInv
<1>0. /\ Len(files) \in Nat /\ DOMAIN files = 1 .. Len(files)
      /\ i \in Nat /\ i >= 1 /\ i <= Len(files) + 1
      /\ \A k \in DOMAIN files : files[k].need \in 1 .. Word - 1 /\ files[k].hidden \in BOOLEAN
  BY FilesTyped
<1>f. ASSUME Fatal PROVE SetupInv'
  <2>1. TypeOK' BY <1>f DEF Fatal, TypeOK, heapVars, moduleVars
  <2>2. HeapFits' /\ (Enough => RegionKept')
    BY <1>f, KeepsMemory DEF Fatal, heapVars, moduleVars
  <2>3. PhaseFits' /\ LentFits' /\ RanFits' /\ OwnerProvides' /\ SyscallsSet'
    BY <1>f DEF Fatal, PhaseFits, LentFits, RanFits, OwnerProvides, SyscallsSet,
                heapVars, moduleVars, AtModule
  <2> QED BY <2>1, <2>2, <2>3
<1>1. CASE Skip
  <2> USE <1>1 DEF Skip, Following, Hidden, heapVars, moduleVars
  <2>1. TypeOK' BY <1>0 DEF TypeOK
  <2>2. heap = NoHeap /\ lent = 0 BY DEF PhaseFits, LentFits, TypeOK
  <2>3. PhaseFits' /\ LentFits' /\ OwnerProvides' /\ SyscallsSet' /\ HeapFits' /\ RegionKept'
    BY <2>2 DEF PhaseFits, LentFits, OwnerProvides, SyscallsSet, HeapFits, RegionKept,
                NoHeap, AtModule
  <2>4. RanFits' BY <1>0 DEF RanFits
  <2> QED BY <2>1, <2>3, <2>4
<1>2. CASE Load
  <2> USE <1>2 DEF Load, Hidden, heapVars, moduleVars
  <2>0. phase' \in {"heap", "fatal"} /\ card' \in BOOLEAN BY DEF TypeOK
  <2>1. TypeOK' BY <2>0 DEF TypeOK
  <2>2. HeapFits' /\ (Enough => RegionKept') BY KeepsMemory
  <2>3. PhaseFits' /\ LentFits' /\ OwnerProvides' /\ SyscallsSet'
    BY <2>0 DEF PhaseFits, LentFits, OwnerProvides, SyscallsSet, AtModule
  <2>4. RanFits' BY <2>0, <1>0 DEF RanFits
  <2> QED BY <2>1, <2>2, <2>3, <2>4
<1>3. CASE MappedHeap
  <2> USE <1>3 DEF MappedHeap, heapVars, moduleVars
  <2>0. Need \in Nat /\ lent = 0 BY <1>0 DEF Need, PhaseFits, LentFits, AtModule
  <2>1. TypeOK' BY <2>0, RegionAssumption DEF TypeOK, RegionAssumption
  <2>2. HeapFits' /\ RegionKept' BY DEF HeapFits, RegionKept
  <2>3. PhaseFits' /\ LentFits' /\ OwnerProvides' /\ SyscallsSet'
    BY <2>0 DEF PhaseFits, LentFits, OwnerProvides, SyscallsSet, AtModule
  <2>4. RanFits' BY <1>0 DEF RanFits
  <2> QED BY <2>1, <2>2, <2>3, <2>4
<1>4. CASE RegionHeap
  <2>1. CASE /\ RegionStart <= Start
             /\ heap' = [kind |-> "region", start |-> Start, size |-> (TextStart - Start) % Word]
             /\ phase' = "load"
             /\ UNCHANGED <<files, i, ran, lent, blocks, moduleVars>>
    <3> DEFINE size == (TextStart - Start) % Word
    <3>0. /\ Need \in 1 .. Word - 1 /\ lent = 0
          /\ i <= Len(files) /\ ~files[i].hidden
          /\ phase = "heap" /\ ~FromMapping
      BY <1>0, <1>4 DEF RegionHeap, Need, PhaseFits, LentFits, AtModule
    <3>1. /\ Start \in 0 .. Word - 1 /\ Start % Align = 0 /\ size \in Nat
          /\ Need <= TextStart => Start + size = TextStart /\ Need <= size
      <4>1. Start = AlignDown((TextStart - Need) % Word)
        BY DEF Start
      <4> QED BY <3>0, <4>1, RegionHolds
    <3>2. TextStart \in Nat /\ RegionStart \in Nat BY RegionAssumption DEF RegionAssumption
    <3>3. heap' = [kind |-> "region", start |-> Start, size |-> size]
      BY <2>1
    <3> HIDE DEF size
    <3>4. TypeOK'
      BY <2>1, <3>1, <3>3 DEF TypeOK, moduleVars
    <3>5. HeapFits'
      <4>1. Need' = Need /\ RegionStart <= Start BY <2>1 DEF Need
      <4> QED BY <3>0, <3>1, <3>2, <3>3, <4>1 DEF HeapFits
    <3> USE <2>1 DEF heapVars, moduleVars
    <3>6. Enough => RegionKept'
      <4> SUFFICES ASSUME Enough PROVE owned <= Start BY <3>3 DEF RegionKept
      <4>1. Need + UsedMax <= Pool BY <3>0, <1>0 DEF Enough, Need, TypeOK
      <4>2. ~FromMapping BY <3>0
      <4>3. used \in 0 .. UsedMax /\ UsedMax \in Nat /\ Pool \in Nat
        BY RegionAssumption DEF TypeOK, RegionAssumption
      <4>4. mapping # "ready" BY <3>0, <4>1, <4>2, <4>3 DEF FromMapping
      <4>5. owned = RegionStart BY <4>4 DEF OwnerProvides
      <4> QED BY <4>5
    <3>7. PhaseFits' /\ LentFits' /\ OwnerProvides' /\ SyscallsSet'
      BY <3>0, <3>3 DEF PhaseFits, LentFits, OwnerProvides, SyscallsSet, AtModule
    <3>8. RanFits' BY <1>0, <3>0 DEF RanFits
    <3> QED BY <3>4, <3>5, <3>6, <3>7, <3>8
  <2> QED BY <1>4, <2>1, <1>f DEF RegionHeap
<1>5. CASE Alloc
  <2>1. CASE UNCHANGED <<phase, files, i, ran, lent, heap, moduleVars>>
    <3> USE <1>5, <2>1 DEF Alloc, moduleVars
    <3>0. blocks' \subseteq {"info", "text", "data"}
      <4>1. CASE Fatal BY <4>1 DEF Fatal, heapVars, TypeOK
      <4>2. CASE ~Fatal BY <4>2
      <4> QED BY <4>1, <4>2
    <3>1. TypeOK' BY <3>0 DEF TypeOK
    <3>2. HeapFits' /\ (Enough => RegionKept') BY KeepsMemory
    <3>3. PhaseFits' /\ LentFits' /\ OwnerProvides' /\ SyscallsSet' /\ RanFits'
      BY DEF PhaseFits, LentFits, OwnerProvides, SyscallsSet, RanFits, AtModule
    <3> QED BY <3>1, <3>2, <3>3
  <2> QED BY <1>5, <2>1, <1>f DEF Alloc
<1>6. CASE Call
  <2>1. CASE phase' = "running" /\ ran' = ran \cup {i} /\ UNCHANGED <<files, i, heapVars, moduleVars>>
    <3> USE <1>6, <2>1 DEF Call, heapVars, moduleVars
    <3>1. TypeOK' BY <1>0 DEF TypeOK, PhaseFits, AtModule
    <3>2. HeapFits' /\ (Enough => RegionKept') BY KeepsMemory
    <3>3. PhaseFits' /\ LentFits' /\ OwnerProvides' /\ SyscallsSet'
      BY DEF PhaseFits, LentFits, OwnerProvides, SyscallsSet, AtModule
    <3>4. RanFits' BY <1>0 DEF RanFits, PhaseFits, AtModule
    <3> QED BY <3>1, <3>2, <3>3, <3>4
  <2> QED BY <1>6, <2>1, <1>f DEF Call
<1>7. CASE FreeBlock
  <2> USE <1>7 DEF FreeBlock, moduleVars
  <2>1. TypeOK' BY DEF TypeOK
  <2>2. HeapFits' /\ (Enough => RegionKept') BY KeepsMemory
  <2>3. PhaseFits' /\ LentFits' /\ OwnerProvides' /\ SyscallsSet' /\ RanFits'
    BY DEF PhaseFits, LentFits, OwnerProvides, SyscallsSet, RanFits, AtModule
  <2> QED BY <2>1, <2>2, <2>3
<1>8. CASE DestroyHeap
  <2> USE <1>8 DEF DestroyHeap, Drop, NoHeap, moduleVars
  <2>1. TypeOK' BY RegionAssumption DEF TypeOK, RegionAssumption
  <2>2. HeapFits' /\ RegionKept' BY DEF HeapFits, RegionKept
  <2>3. PhaseFits' /\ LentFits' /\ OwnerProvides' /\ SyscallsSet' /\ RanFits'
    BY DEF PhaseFits, LentFits, OwnerProvides, SyscallsSet, RanFits, AtModule
  <2> QED BY <2>1, <2>2, <2>3
<1>9. CASE FreeMemory
  <2> USE <1>9 DEF FreeMemory, Freed, moduleVars
  <2>1. TypeOK' BY DEF TypeOK
  <2>2. HeapFits' /\ (Enough => RegionKept') BY KeepsMemory
  <2>3. PhaseFits' /\ LentFits' /\ OwnerProvides' /\ SyscallsSet' /\ RanFits'
    BY DEF PhaseFits, LentFits, OwnerProvides, SyscallsSet, RanFits, AtModule, TypeOK
  <2> QED BY <2>1, <2>2, <2>3
<1>10. CASE SetupKernelModule
  <2>1. CASE kernel # "old"
    <3> USE <1>10, <2>1 DEF SetupKernelModule, Following, Restored, heapVars, moduleVars
    <3>0. heap = NoHeap /\ lent = 0 /\ i <= Len(files)
      BY DEF PhaseFits, LentFits, TypeOK, AtModule
    <3>1. TypeOK'
      <4>1. i' \in 1 .. Len(files) + 1 BY <1>0, <3>0
      <4>2. kernel' \in {"absent", "set"} OBVIOUS
      <4> QED BY <4>1, <4>2 DEF TypeOK
    <3>2. PhaseFits' /\ LentFits' /\ OwnerProvides' /\ SyscallsSet' /\ HeapFits' /\ RegionKept'
      BY <3>0 DEF PhaseFits, LentFits, OwnerProvides, SyscallsSet, HeapFits, RegionKept,
                  NoHeap, AtModule
    <3>3. RanFits' BY <1>0 DEF RanFits
    <3> QED BY <3>1, <3>2, <3>3
  <2> QED BY <1>10, <2>1, <1>f DEF SetupKernelModule
<1>11. CASE Wait
  <2> USE <1>11 DEF Wait, heapVars, moduleVars
  <2>1. TypeOK' BY DEF TypeOK
  <2>2. HeapFits' /\ (Enough => RegionKept') BY KeepsMemory
  <2>3. PhaseFits' /\ LentFits' /\ OwnerProvides' /\ SyscallsSet' /\ RanFits'
    BY <1>0 DEF PhaseFits, LentFits, OwnerProvides, SyscallsSet, RanFits, AtModule
  <2> QED BY <2>1, <2>2, <2>3
<1>12. CASE Module
  <2>0. Running
    BY <1>12 DEF Module, Unmount, InstallMapping, TakeRegion, TakeMapped, InstallKernel, Override
  <2> USE <2>0 DEF Running, heapVars
  <2>1. PhaseFits' /\ LentFits' /\ SyscallsSet' /\ HeapFits' /\ RanFits'
    BY DEF PhaseFits, LentFits, SyscallsSet, HeapFits, RanFits, AtModule, Need
  <2>2. ASSUME owned' = owned, mapping' = mapping \/ mapping # "ready"
        PROVE OwnerProvides' /\ (Enough => RegionKept')
    BY <2>2 DEF OwnerProvides, RegionKept
  <2>3. CASE TakeRegion
    <3>1. heap.kind = "region" /\ Given = heap.start
      BY <2>3 DEF TakeRegion, Given, PhaseFits, TypeOK
    <3>2. heap.start \in 0 .. Word - 1 /\ RegionStart <= heap.start
      BY <3>1 DEF HeapFits, TypeOK
    <3>3. owned' \in RegionStart .. Word - 1
      BY <2>3, <3>1, <3>2, RegionAssumption DEF TakeRegion, TypeOK, RegionAssumption
    <3>4. TypeOK' BY <2>3, <3>3 DEF TakeRegion, TypeOK
    <3>5. OwnerProvides' BY <2>3 DEF TakeRegion, OwnerProvides
    <3>6. Enough => RegionKept' BY <2>3, <3>1, <3>2 DEF TakeRegion, RegionKept
    <3> QED BY <2>1, <3>4, <3>5, <3>6
  <2>4. CASE TakeMapped
    <3>1. TypeOK' BY <2>4, RegionAssumption, SMTT(30) DEF TakeMapped, TypeOK, RegionAssumption
    <3> QED BY <2>1, <2>2, <2>4, <3>1 DEF TakeMapped
  <2>5. CASE Unmount \/ InstallMapping \/ InstallKernel \/ Override
    <3>1. TypeOK' BY <2>5 DEF Unmount, InstallMapping, InstallKernel, Override, TypeOK
    <3>2. owned' = owned /\ (mapping' = mapping \/ mapping # "ready")
      BY <2>5 DEF Unmount, InstallMapping, InstallKernel, Override
    <3> QED BY <2>1, <2>2, <3>1, <3>2
  <2> QED BY <1>12, <2>3, <2>4, <2>5 DEF Module
<1>13. CASE Return
  <2> USE <1>13 DEF Return, heapVars, moduleVars
  <2>1. TypeOK' BY DEF TypeOK
  <2>2. HeapFits' /\ (Enough => RegionKept') BY KeepsMemory
  <2>3. PhaseFits' /\ LentFits' /\ OwnerProvides' /\ SyscallsSet' /\ RanFits'
    BY DEF PhaseFits, LentFits, OwnerProvides, SyscallsSet, RanFits, AtModule
  <2> QED BY <2>1, <2>2, <2>3
<1>14. CASE Exit
  <2> USE <1>14 DEF Exit, heapVars, moduleVars
  <2>1. TypeOK' BY DEF TypeOK
  <2>2. HeapFits' /\ (Enough => RegionKept') BY KeepsMemory
  <2>3. PhaseFits' /\ LentFits' /\ OwnerProvides' /\ SyscallsSet' /\ RanFits'
    BY DEF PhaseFits, LentFits, OwnerProvides, SyscallsSet, RanFits, AtModule
  <2> QED BY <2>1, <2>2, <2>3
<1>15. CASE UNCHANGED vars
  <2> USE <1>15 DEF vars, heapVars, moduleVars
  <2>1. TypeOK' BY DEF TypeOK
  <2>2. HeapFits' /\ (Enough => RegionKept') BY KeepsMemory
  <2>3. PhaseFits' /\ LentFits' /\ OwnerProvides' /\ SyscallsSet' /\ RanFits'
    BY DEF PhaseFits, LentFits, OwnerProvides, SyscallsSet, RanFits, AtModule
  <2> QED BY <2>1, <2>2, <2>3
<1> QED
  BY <1>1, <1>2, <1>3, <1>4, <1>5, <1>6, <1>7, <1>8, <1>9, <1>10, <1>11, <1>12, <1>13,
     <1>14, <1>15 DEF Next, Main, Stopped

LEMMA InvAlways == Spec => []SetupInv
BY InvInit, InvNext, PTL DEF Spec

-----------------------------------------------------------------------------
(* The theorems *)

\* LoadAndRunModule keeps every variable in its type.
THEOREM SetupTypeCorrect == Spec => []TypeOK
<1>1. SetupInv => TypeOK BY DEF SetupInv
<1> QED BY <1>1, InvAlways, PTL

\* No heap made without mapped memory begins below the region, and that of a module that
\* fits below the loader at all ends there and is large enough.
THEOREM HeapAlwaysFits == Spec => []HeapFits
<1>1. SetupInv => HeapFits BY DEF SetupInv
<1> QED BY <1>1, InvAlways, PTL

\* If no module needs more than lies below the loader, every such heap is in the region;
\* main.cpp 298 does not look for the modules that do.
THEOREM HeapStaysInRegion ==
  ASSUME \A l \in Lists : \A k \in DOMAIN l : l[k].need <= TextStart
  PROVE  Spec => []HeapInRegion
<1>1. SetupInv => HeapInRegion
  <2> SUFFICES ASSUME SetupInv, heap.kind = "region" PROVE heap.start + heap.size <= TextStart
    BY DEF HeapInRegion
  <2>1. i \in DOMAIN files /\ files \in Lists
    BY FilesTyped DEF SetupInv, PhaseFits, TypeOK
  <2>2. heap.start + heap.size = TextStart
    BY <2>1 DEF SetupInv, HeapFits, Need
  <2> QED BY <2>2, RegionAssumption DEF RegionAssumption
<1> QED BY <1>1, InvAlways, PTL

\* As long as mapped memory suffices, no later module is loaded over the region that an
\* earlier one keeps.
THEOREM RegionStaysKept == ASSUME Enough PROVE Spec => []RegionKept
<1>1. SetupInv => RegionKept BY Enough DEF SetupInv
<1> QED BY <1>1, InvAlways, PTL

\* Heap blocks never outlive their heap, and mapped memory is given back after each module.
THEOREM NothingEverOutlives == Spec => []NothingOutlives
<1>1. SetupInv => NothingOutlives
  BY DEF SetupInv, NothingOutlives, PhaseFits, LentFits
<1> QED BY <1>1, InvAlways, PTL

\* The kernel module's system calls are in place whenever the next file is opened.
THEOREM SyscallsAlwaysSet == Spec => []SyscallsSet
<1>1. SetupInv => SyscallsSet BY DEF SetupInv
<1> QED BY <1>1, InvAlways, PTL

-----------------------------------------------------------------------------
(* SetupRun implements SetupPromise, its liveness apart *)

LEMMA PromiseInit == Init => Promise!Init
<1> SUFFICES ASSUME Init PROVE Promise!Init OBVIOUS
<1>1. DOMAIN files \subseteq Nat BY InvInit, FilesTyped DEF SetupInv
<1> QED BY <1>1 DEF Init, Promise!Init, PromiseState

LEMMA PromiseNext == SetupInv /\ [Next]_vars => [Promise!Next]_Promise!vars
<1> SUFFICES ASSUME SetupInv, [Next]_vars PROVE [Promise!Next]_Promise!vars OBVIOUS
<1> DEFINE shown == {k \in DOMAIN files : ~files[k].hidden}
<1>0. /\ Len(files) \in Nat /\ DOMAIN files = 1 .. Len(files)
      /\ i \in Nat /\ i >= 1 /\ i <= Len(files) + 1
  BY FilesTyped DEF SetupInv
<1>f. ASSUME Fatal, phase \in {"next", "heap", "load", "kernel"}
      PROVE [Promise!Next]_Promise!vars
  BY <1>f DEF Fatal, Promise!Next, Promise!Stop, Promise!Becomes, PromiseState
<1>s. ASSUME UNCHANGED <<files, ran>>, PromiseState' = PromiseState
      PROVE [Promise!Next]_Promise!vars
  BY <1>s DEF Promise!vars
<1>1. CASE Load
  <2>1. phase' \in {"heap", "fatal"} BY <1>1 DEF Load
  <2>2. CASE phase' = "heap" BY <1>1, <2>2, <1>s DEF Load, PromiseState
  <2>3. CASE phase' = "fatal"
    BY <1>1, <2>3 DEF Load, Promise!Next, Promise!Stop, Promise!Becomes, PromiseState
  <2> QED BY <2>1, <2>2, <2>3
<1>2. CASE Skip \/ MappedHeap \/ FreeBlock \/ DestroyHeap \/ FreeMemory
  BY <1>2, <1>s DEF Skip, MappedHeap, FreeBlock, DestroyHeap, FreeMemory, PromiseState
<1>3. CASE RegionHeap
  <2>1. CASE Fatal BY <1>3, <2>1, <1>f DEF RegionHeap
  <2>2. CASE ~Fatal BY <1>3, <2>2, <1>s DEF RegionHeap, PromiseState
  <2> QED BY <2>1, <2>2
<1>4. CASE Alloc
  <2>1. CASE Fatal BY <1>4, <2>1, <1>f DEF Alloc
  <2>2. CASE ~Fatal BY <1>4, <2>2, <1>s DEF Alloc, PromiseState
  <2> QED BY <2>1, <2>2
<1>5. CASE Call
  <2>1. CASE Fatal BY <1>5, <2>1, <1>f DEF Call
  <2>2. CASE ~Fatal
    <3>1. /\ phase = "load" /\ phase' = "running" /\ ran' = ran \cup {i}
          /\ UNCHANGED <<files, i>>
      BY <1>5, <2>2 DEF Call
    <3>2. i \in shown /\ ran = {k \in shown : k < i}
      BY <3>1, <1>0 DEF SetupInv, PhaseFits, AtModule, RanFits
    <3>3. i \in shown \ ran /\ \A n \in shown \ ran : i <= n BY <3>2, <1>0
    <3>4. Promise!Start BY <3>1, <3>3 DEF Promise!Start, Promise!Waiting, PromiseState
    <3> QED BY <3>4 DEF Promise!Next
  <2> QED BY <2>1, <2>2
<1>6. CASE Return
  BY <1>6 DEF Return, Promise!Next, Promise!Return, Promise!Becomes, PromiseState
<1>7. CASE SetupKernelModule
  <2>1. CASE kernel = "old" BY <1>7, <2>1, <1>f DEF SetupKernelModule
  <2>2. CASE kernel # "old" BY <1>7, <2>2, <1>s DEF SetupKernelModule, PromiseState
  <2> QED BY <2>1, <2>2
<1>8. CASE Wait
  <2>1. phase = "next" /\ phase' = "wait" /\ UNCHANGED <<files, ran>> /\ i > Len(files)
    BY <1>8 DEF Wait
  <2>2. shown \ ran = {} BY <2>1, <1>0 DEF SetupInv, RanFits
  <2>3. Promise!Complete
    BY <2>1, <2>2 DEF Promise!Complete, Promise!Waiting, Promise!Becomes, PromiseState
  <2> QED BY <2>3 DEF Promise!Next
<1>9. CASE Module
  BY <1>9, <1>s DEF Module, Unmount, InstallMapping, TakeRegion, TakeMapped, InstallKernel,
                    Override, Running, PromiseState
<1>10. CASE Exit BY <1>10, <1>s DEF Exit, PromiseState
<1>11. CASE UNCHANGED vars BY <1>11, <1>s DEF vars, PromiseState
<1> QED
  BY <1>1, <1>2, <1>3, <1>4, <1>5, <1>6, <1>7, <1>8, <1>9, <1>10, <1>11
     DEF Next, Main, Stopped

\* The visible setup modules are called in order, each once, and never two at a time.
THEOREM SetupKeepsPromise == Spec => Promise!Init /\ [][Promise!Next]_Promise!vars
BY PromiseInit, PromiseNext, InvAlways, PTL DEF Spec

-----------------------------------------------------------------------------
(* The composition implements SetupRun *)

\* Every step is a step of SetupRun or leaves its state alone.
LEMMA CardStep == [CardNext]_cardVars => [Next]_vars
<1> SUFFICES ASSUME [CardNext]_cardVars PROVE [Next]_vars
  OBVIOUS
<1>1. CASE Open \/ Memalign \/ ReadBlock \/ Close
  BY <1>1 DEF Open, Memalign, ReadBlock, Close, Same
<1>2. CASE Loaded
  BY <1>2 DEF Loaded, Next, Main
<1>3. CASE OwnerMain
  BY <1>3 DEF OwnerMain, Next, Main
<1>4. CASE Module \/ Return \/ Exit \/ Stopped
  BY <1>4 DEF Next
<1>5. CASE UNCHANGED cardVars
  BY <1>5 DEF cardVars
<1> QED BY <1>1, <1>2, <1>3, <1>4, <1>5 DEF CardNext, CardMain

\* Without its fairness, the composition implements SetupRun.
THEOREM CardImplementsRun == CardSpec => Init /\ [][Next]_vars
<1>1. CardInit => Init
  BY DEF CardInit
<1> QED BY <1>1, CardStep, PTL DEF CardSpec

\* The invariant of SetupRun holds of the composition.
LEMMA CardRunInv == CardSpec => []SetupInv
BY CardImplementsRun, InvInit, InvNext, PTL

\* What HeapAlwaysFits says holds whatever files the card has.
THEOREM CardHeapFits == CardSpec => []HeapFits
<1>1. SetupInv => HeapFits
  BY DEF SetupInv
<1> QED BY <1>1, CardRunInv, PTL

\* The calls of the modules of the card are those SetupPromise allows.
THEOREM CardKeepsPromise == CardSpec => Promise!Init /\ [][Promise!Next]_Promise!vars
BY CardImplementsRun, CardRunInv, PromiseInit, PromiseNext, PTL

-----------------------------------------------------------------------------
(* Files are read whole *)

\* The size of the file at hand.
LEMMA SizeOfFile ==
  ASSUME CardInv, i \in DOMAIN list
  PROVE  File.size \in Nat /\ File.size + Line < Word
<1>1. File.size \in 0 .. Word - Line - 1
  BY FileAssumption DEF CardInv, File
<1> QED BY <1>1, FileAssumption, RegionAssumption

\* The buffer has room for a file that is not near the end of the words.
LEMMA RoomForFile ==
  ASSUME NEW n \in Nat, n + Line < Word
  PROVE  RoundUp(n) \in Nat /\ n <= RoundUp(n)
<1> DEFINE m == n + Line - 1
           r == m % Line
<1>1. Line \in Nat \ {0} /\ Word \in Nat \ {0}
  BY FileAssumption, RegionAssumption
<1>2. m \in 0 .. Word - 1
  BY <1>1
<1>3. m % Word = m
  BY <1>1, <1>2, ModSame
<1>4. r \in 0 .. Line - 1
  BY <1>1, <1>2, ModRange
<1>5. RoundUp(n) = m - r
  BY <1>3 DEF RoundUp
<1> HIDE DEF r
<1> QED BY <1>1, <1>4, <1>5

LEMMA CardInvInit == CardInit => CardInv
<1> SUFFICES ASSUME CardInit PROVE CardInv
  OBVIOUS
<1> QED BY DEF CardInit, Init, CardInv

\* LoadFileToMem keeps to the file.
LEMMA ReadingKeeps ==
  ASSUME SetupInv, CardInv, Open \/ Memalign \/ ReadBlock \/ Close
  PROVE  CardInv'
<1> USE DEF CardInv, Same
<1>1. /\ UNCHANGED <<dir, list, phase, files, i>>
      /\ File' = File /\ Hidden' = Hidden
  BY DEF Open, Memalign, ReadBlock, Close, vars, File, Hidden
<1>2. NoSize \in Int
  BY RegionAssumption DEF NoSize
<1>3. CASE Open
  <2>1. i \in DOMAIN files /\ phase = "next" /\ ~Hidden
    BY <1>3, FilesTyped DEF Open, SetupInv
  <2>2. i \in DOMAIN list
    BY <2>1 DEF FilesOf
  <2>3. File.size \in Nat
    BY <2>2, SizeOfFile
  <2>4. /\ room' = 0 /\ done' = 0
        /\ \/ filesize' \in {File.size, NoSize} /\ fd' = "open"
           \/ filesize' = 0 /\ fd' = "failed"
    BY <1>3 DEF Open
  <2> HIDE DEF File, Hidden
  <2>5. CASE fd' = "open"
    BY <1>1, <2>1, <2>2, <2>3, <2>4, <2>5
  <2>6. CASE fd' = "failed"
    BY <1>1, <2>1, <2>2, <2>4, <2>6
  <2> QED BY <2>4, <2>5, <2>6
<1>4. CASE Memalign
  <2>1. fd = "open" /\ UNCHANGED <<mounted, filesize, blocksize, done>>
        /\ \/ room' = RoundUp(filesize) /\ fd' = "loop"
           \/ room' = 0 /\ fd' = "failed"
    BY <1>4 DEF Memalign
  <2>2. RoundUp(filesize)' = RoundUp(filesize)
    BY <2>1 DEF RoundUp
  <2> QED BY <1>1, <2>1, <2>2
<1>5. CASE ReadBlock
  <2>1. /\ fd = "loop" /\ UNCHANGED <<mounted, filesize, room>>
        /\ \/ /\ \E n \in 1 .. blocksize' : n <= File.size - done /\ done' = done + n
              /\ UNCHANGED fd
           \/ fd' = "cut" /\ UNCHANGED done
    BY <1>5 DEF ReadBlock
  <2>2. i \in DOMAIN list /\ File.size \in Nat
    BY <2>1, SizeOfFile
  <2>3. done' \in 0 .. File.size
    BY <2>1, <2>2
  <2>4. RoundUp(filesize)' = RoundUp(filesize)
    BY <2>1 DEF RoundUp
  <2>5. phase = "next"
    BY <2>1
  <2> QED BY <1>1, <2>1, <2>3, <2>4, <2>5
<1>6. CASE Close
  <2>1. /\ fd \in {"cut", "loop"} /\ UNCHANGED <<mounted, filesize, room, blocksize, done>>
        /\ fd' = IF done = filesize THEN "read" ELSE "failed"
    BY <1>6 DEF Close, Complete
  <2>2. RoundUp(filesize)' = RoundUp(filesize)
    BY <2>1 DEF RoundUp
  <2>3. File.size \in Nat /\ File.size + Line < Word
    BY <2>1, SizeOfFile
  <2>4. filesize # NoSize => done <= room
    BY <2>1, <2>3, RoomForFile
  <2>5. phase = "next"
    BY <2>1
  <2> QED BY <1>1, <2>1, <2>2, <2>4, <2>5
<1> QED BY <1>3, <1>4, <1>5, <1>6

\* Only a file that was read leads on to a heap.
LEMMA LoadedKeeps == ASSUME CardInv, Loaded PROVE CardInv'
<1> USE DEF CardInv
<1>1. /\ fd \in {"read", "failed"} /\ fd' = "closed"
      /\ UNCHANGED <<dir, list, filesize, room, done, files, i>>
      /\ phase' \in {"heap", "fatal"}
      /\ fd = "failed" => phase' = "fatal"
  BY DEF Loaded, Load
<1>2. File' = File
  BY <1>1 DEF File
<1>3. ASSUME fd = "read"
      PROVE  done = File.size /\ done <= room
  <2>1. File.size \in Nat /\ File.size + Line < Word
    BY <1>3, SizeOfFile
  <2>2. filesize = File.size
    BY <1>3, <2>1, FileAssumption, RegionAssumption DEF NoSize
  <2> QED BY <1>3, <2>1, <2>2, RoomForFile
<1> QED BY <1>1, <1>2, <1>3

\* The rest of main leaves LoadFileToMem alone, and has no file open.
LEMMA OthersKeep ==
  ASSUME SetupInv, CardInv, UNCHANGED <<dir, list, fileVars>>,
         OwnerMain \/ Module \/ Return \/ Exit \/ Stopped
  PROVE  CardInv'
<1> USE DEF CardInv, fileVars
<1>1. RoundUp(filesize)' = RoundUp(filesize) /\ UNCHANGED files
  BY DEF RoundUp, OwnerMain, Skip, MappedHeap, RegionHeap, Alloc, Call, FreeBlock, DestroyHeap,
    FreeMemory, SetupKernelModule, Wait, Module, Return, Exit, Stopped, vars, Fatal, Running,
    Unmount, InstallMapping, TakeRegion, TakeMapped, InstallKernel, Override
<1>2. phase' # "heap" \/ (phase' = phase /\ i' = i)
  BY DEF OwnerMain, Skip, MappedHeap, RegionHeap, Alloc, Call, FreeBlock, DestroyHeap,
    FreeMemory, SetupKernelModule, Wait, Module, Return, Exit, Stopped, vars, Fatal, Running,
    Unmount, InstallMapping, TakeRegion, TakeMapped, InstallKernel, Override
<1>3. CASE UNCHANGED <<phase, i>>
  <2>1. File' = File /\ Hidden' = Hidden
    BY <1>1, <1>3 DEF File, Hidden
  <2> QED BY <1>1, <1>3, <2>1
<1>4. CASE ~UNCHANGED <<phase, i>>
  <2>1. fd = "closed"
    <3>1. CASE Skip \/ Wait
      <4>1. phase = "next" /\ (Hidden \/ i > Len(files))
        BY <3>1 DEF Skip, Wait
      <4>2. DOMAIN list = DOMAIN files
        BY DEF FilesOf
      <4>3. i \in DOMAIN files => i <= Len(files)
        BY FilesTyped DEF SetupInv
      <4>4. Len(files) \in Nat /\ i \in Nat
        BY FilesTyped DEF SetupInv
      <4> QED BY <4>1, <4>2, <4>3, <4>4
    <3>2. CASE ~(Skip \/ Wait)
      <4>1. phase # "next"
        BY <1>4, <3>2 DEF OwnerMain, MappedHeap, RegionHeap, Alloc, Call, FreeBlock, DestroyHeap,
          FreeMemory, SetupKernelModule, Module, Return, Exit, Stopped, vars, Running,
          Unmount, InstallMapping, TakeRegion, TakeMapped, InstallKernel, Override
      <4> QED BY <4>1
    <3> QED BY <3>1, <3>2
  <2>2. phase' # "heap"
    BY <1>2, <1>4
  <2> QED BY <1>1, <2>1, <2>2
<1> QED BY <1>3, <1>4

LEMMA CardInvNext == SetupInv /\ CardInv /\ [CardNext]_cardVars => CardInv'
<1> SUFFICES ASSUME SetupInv, CardInv, [CardNext]_cardVars PROVE CardInv'
  OBVIOUS
<1>1. CASE UNCHANGED cardVars
  BY <1>1 DEF cardVars, vars, restVars, fileVars, CardInv, File, Hidden, RoundUp
<1>2. CASE CardNext
  BY <1>2, ReadingKeeps, LoadedKeeps, OthersKeep DEF CardNext, CardMain, restVars
<1> QED BY <1>1, <1>2

\* What is parsed as a module is a whole file, whatever the sizes of blocks, lines and
\* files and however short the reads come back; and reading it stays within the buffer,
\* unless lseek failed: its -1 becomes a size whose buffer has no room, and what is read
\* then is written past it.
THEOREM FilesAreReadWhole == CardSpec => []WholeFileRead
<1>1. SetupInv /\ CardInv => WholeFileRead
  <2> SUFFICES ASSUME SetupInv, CardInv PROVE WholeFileRead
    OBVIOUS
  <2>1. ASSUME fd \in {"loop", "cut", "read"}, filesize # NoSize PROVE done <= room
    <3>1. File.size \in Nat /\ File.size + Line < Word
      BY <2>1, SizeOfFile DEF CardInv
    <3> QED BY <2>1, <3>1, RoomForFile DEF CardInv
  <2> QED BY <2>1 DEF CardInv, WholeFileRead
<1> QED BY <1>1, CardInvInit, CardInvNext, CardRunInv, PTL DEF CardSpec

-----------------------------------------------------------------------------
(* The order of the modules *)

\* The path of modules/setup is long enough to be opened.
LEMMA SetupFolderOpened == Rooted(Chosen \o <<Slash, 109, Slash, 115>>)
<1>1. Rooted(Environments)
  <2>1. Environments \in Seq(Nat \ {0}) /\ Len(Environments) = 8
        /\ Environments[1] = 102 /\ Environments[2] = 115 /\ Environments[3] = 58
    BY DEF Environments, Slash
  <2>2. \A k \in 1 .. 3 : k = 1 \/ k = 2 \/ k = 3
    OBVIOUS
  <2> QED BY <2>1, <2>2 DEF Rooted, Strings, Chars, Slash
<1>2. <<Slash, 97>> \in Strings /\ <<Slash, 109, Slash, 115>> \in Strings
  BY DEF Strings, Chars, Slash
<1> QED BY <1>1, <1>2, FolderIsRooted, RootedStays DEF Chosen

LEMMA FoldersAreDirectories ==
  ASSUME NEW d \in Folders
  PROVE  Directory(d) /\ \A j \in DOMAIN d : d[j].name \in FileNames /\ d[j].isDir \in BOOLEAN
<1> DEFINE Listed == [name : Seq(Nat \ {0, Slash}) \ {<<>>}, isDir : BOOLEAN,
                      size : Nat, need : Nat \ {0}]
<1>1. /\ d \in Seq(Listed)
      /\ \A j, k \in DOMAIN d : SameIgnoringCase(d[j].name, d[k].name) => j = k
  BY FolderAssumption
<1>2. Nat \ {0, Slash} = Chars \ {Slash}
  BY DEF Chars
<1>3. \A r \in Listed : r.name \in FileNames /\ r.isDir \in BOOLEAN
  BY <1>2 DEF FileNames
<1> HIDE DEF Listed
<1>4. Len(d) \in Nat /\ DOMAIN d = 1 .. Len(d) /\ \A j \in DOMAIN d : d[j] \in Listed
  BY <1>1
<1> QED BY <1>1, <1>3, <1>4 DEF Directory

\* What the filter and the hidden files leave are the modules.
LEMMA ModulesAre ==
  ASSUME NEW e, e.name \in FileNames, e.isDir \in BOOLEAN, NEW dirs, dirs = FALSE
  PROVE  IsModule(e) <=> Accepted(e, dirs, Ext) /\ ~Starts(e.name)
<1>1. Extension(Ext)
  <2>1. Ext \in Seq(Nat \ {0, Comma}) /\ Ext # <<>> /\ Ext[1] = Dot
        /\ \A k \in 2 .. Len(Ext) : Ext[k] # Dot
    BY FolderAssumption
  <2>2. Ext \in Seq(Chars) /\ Len(Ext) >= 1 /\ \A k \in 1 .. Len(Ext) : Ext[k] # Comma
    BY <2>1 DEF Chars
  <2> QED BY <2>1, <2>2 DEF Extension, Strings
<1>2. Ext # <<>>
  BY FolderAssumption
<1> DEFINE name == e.name
           last == FromLast(name, Dot)
<1>3. name \in Strings
  BY FileNamesAreStrings
<1> HIDE DEF name
<1>4. (last # <<>> /\ SameIgnoringCase(last, Ext)) <=>
      (Len(name) >= Len(Ext) /\ SameIgnoringCase(Ending(name, Ext), Ext))
  BY <1>1, <1>3, ExtensionIs
<1>5. strtokcmp(last, Ext, Comma) <=> SameIgnoringCase(last, Ext)
  BY <1>1, OneToken
<1> HIDE DEF last
<1>6. Accepted(e, dirs, Ext) <=> ~e.isDir /\ last # <<>> /\ strtokcmp(last, Ext, Comma)
  BY <1>2 DEF Accepted, last, name
<1>7. IsModule(e) <=> /\ ~e.isDir /\ ~Starts(name) /\ Len(name) >= Len(Ext)
                      /\ SameIgnoringCase(Ending(name, Ext), Ext)
  BY DEF IsModule, Ending, name
<1> QED BY <1>4, <1>5, <1>6, <1>7 DEF name

\* The modules that ran are in the order of their names, and are those of the folder, for
\* every folder of a card and every order it gives its files in.
THEOREM AlwaysInNameOrder == CardSpec => []RunInNameOrder
<1>1. SetupInv /\ CardInv => RunInNameOrder
  <2> SUFFICES ASSUME SetupInv, CardInv PROVE RunInNameOrder
    OBVIOUS
  <2> DEFINE no == FALSE
             path == Chosen \o <<Slash, 109, Slash, 115>>
  <2>1. dir \in Folders /\ list = SetupModules(dir) /\ files = FilesOf(list)
    BY DEF CardInv
  <2>2. Listing(list, dir, no, Ext)
    <3>1. list = DirList(path, dir, no, Ext)
      BY <2>1 DEF SetupModules
    <3>2. Rooted(path) /\ Directory(dir)
      BY <2>1, SetupFolderOpened, FoldersAreDirectories
    <3>3. no = FALSE
      OBVIOUS
    <3> HIDE DEF no, path
    <3>4. Listing(DirList(path, dir, no, Ext), dir, no, Ext)
      BY <3>2, <3>3, DirListIs
    <3> QED BY <3>1, <3>4
  <2>3. ASSUME NEW j \in DOMAIN dir
        PROVE  IsModule(dir[j]) <=> Accepted(dir[j], no, Ext) /\ ~Starts(dir[j].name)
    <3>1. no = FALSE /\ dir[j].name \in FileNames /\ dir[j].isDir \in BOOLEAN
      BY <2>1, FoldersAreDirectories
    <3> HIDE DEF no
    <3> QED BY <3>1, ModulesAre
  <2> HIDE DEF no, path
  <2>4. /\ DOMAIN files = DOMAIN list
        /\ \A k \in DOMAIN list : files[k].hidden <=> Starts(Name(k))
    BY <2>1 DEF FilesOf, Name
  <2>5. ran \subseteq DOMAIN list
    BY <2>4 DEF SetupInv, TypeOK
  <2>6. \A k, l \in ran : k < l => Greater(Name(l), Name(k))
    BY <2>2, <2>5 DEF Listing, Name
  <2>7. ASSUME phase \in {"wait", "ended"}
        PROVE  \A k \in DOMAIN list : k \in ran <=> ~Starts(Name(k))
    <3>1. i > Len(files) /\ i \in Nat /\ Len(files) \in Nat /\ DOMAIN files = 1 .. Len(files)
      BY <2>7, FilesTyped DEF SetupInv, PhaseFits
    <3>2. \A k \in DOMAIN files : k \in ran <=> ~files[k].hidden
      BY <2>7, <3>1 DEF SetupInv, RanFits
    <3> QED BY <2>4, <3>2
  <2>8. ASSUME phase \in {"wait", "ended"}, NEW k \in ran
        PROVE  \E j \in DOMAIN dir : IsModule(dir[j]) /\ Name(k) = dir[j].name
    <3>1. PICK j \in DOMAIN dir : Accepted(dir[j], no, Ext) /\ Name(k) = dir[j].name
      BY <2>2, <2>5 DEF Listing, Name
    <3>2. ~Starts(Name(k))
      BY <2>5, <2>7, <2>8
    <3> QED BY <2>3, <3>1, <3>2
  <2>9. ASSUME phase \in {"wait", "ended"}, NEW j \in DOMAIN dir, IsModule(dir[j])
        PROVE  \E k \in ran : Name(k) = dir[j].name
    <3>1. Accepted(dir[j], no, Ext) /\ ~Starts(dir[j].name)
      BY <2>3, <2>9
    <3>2. PICK k \in DOMAIN list : Name(k) = dir[j].name
      BY <2>2, <3>1 DEF Listing, Name
    <3>3. k \in ran
      BY <2>7, <2>9, <3>1, <3>2
    <3> QED BY <3>2, <3>3
  <2> QED BY <2>6, <2>8, <2>9 DEF RunInNameOrder
<1> QED BY <1>1, CardInvInit, CardInvNext, CardRunInv, PTL DEF CardSpec

-----------------------------------------------------------------------------
(* Who owns the memory of a module: the worlds its objects are in *)

\* A world, with what it says of destructors by name.
World(f, live, broken) == [objs |-> f, live |-> live, broken |-> broken]

Names == {"null", "memory", "region", "heap", "info", "text", "data"}

Fields == [mem : Names, free : BOOLEAN, handle : Names, ptr : Names, data : Names]

Places == [Objects -> Fields]

\* Object o made v, in the objects f and in the world w.
At(f, o, v) == [f EXCEPT ![o] = v]

Put(w, o, v) == [w EXCEPT !.objs[o] = v]

\* Nothing is broken, and memory has a free function, by names of their own.
Sound == FALSE

Lent == TRUE

\* Both names are truth values.
LEMMA Truths == Sound \in BOOLEAN /\ Lent \in BOOLEAN
BY DEF Sound, Lent

\* An empty object is one.
LEMMA NullHolds == Null \in Fields
BY DEF Null, Fields, Names

\* At changes one object.
LEMMA AtIs ==
  ASSUME NEW f \in Places, NEW o \in Objects, NEW v \in Fields
  PROVE  /\ At(f, o, v) \in Places
         /\ \A p \in Objects : At(f, o, v)[p] = IF p = o THEN v ELSE f[p]
BY DEF Places, At

\* Objects are the same if each is.
LEMMA SameObjects ==
  ASSUME NEW f \in Places, NEW g \in Places, \A p \in Objects : f[p] = g[p]
  PROVE  f = g
BY DEF Places

\* Assigning what an object holds already changes nothing.
LEMMA AtSame == ASSUME NEW f \in Places, NEW o \in Objects PROVE At(f, o, f[o]) = f
BY DEF Places, At

\* Put and At agree.
LEMMA PutIs ==
  ASSUME NEW f \in Places, NEW live, NEW broken, NEW o \in Objects, NEW v \in Fields
  PROVE  Put(World(f, live, broken), o, v) = World(At(f, o, v), live, broken)
<1> DEFINE w == World(f, live, broken)
<1>1. f \in [Objects -> Fields]
  BY DEF Places
<1>2. w = [objs |-> f, live |-> live, broken |-> broken]
  BY DEF World
<1>3. [w EXCEPT !.objs[o] = v] = [objs |-> [f EXCEPT ![o] = v], live |-> live, broken |-> broken]
  <2> HIDE DEF w
  <2> QED BY <1>1, <1>2
<1> QED BY <1>3 DEF World, Put, At

\* The fields of a world.
LEMMA WorldIs ==
  ASSUME NEW f, NEW live, NEW broken
  PROVE  LET w == World(f, live, broken) IN w.objs = f /\ w.live = live /\ w.broken = broken
BY DEF World

-----------------------------------------------------------------------------
(* Constructors, moves and destructors *)

\* A move passes what an object holds to another.
LEMMA MoveGives ==
  ASSUME NEW f \in Places, NEW live, NEW broken, NEW to \in Objects, NEW from \in Objects
  PROVE  /\ Move(World(f, live, broken), to, from) =
              World(At(At(f, to, f[from]), from, Null), live, broken)
         /\ At(At(f, to, f[from]), from, Null) \in Places
<1> DEFINE w == World(f, live, broken)
<1>1. f[from] \in Fields /\ w.objs = f
  BY WorldIs DEF Places
<1>2. Put(w, to, f[from]) = World(At(f, to, f[from]), live, broken)
      /\ At(f, to, f[from]) \in Places
  BY <1>1, PutIs, AtIs
<1>3. Put(Put(w, to, f[from]), from, Null) = World(At(At(f, to, f[from]), from, Null), live, broken)
      /\ At(At(f, to, f[from]), from, Null) \in Places
  <2> HIDE DEF w
  <2> QED BY <1>2, PutIs, AtIs, NullHolds
<1>4. Move(w, to, from) = Put(Put(w, to, f[from]), from, Null)
  BY <1>1 DEF Move, Put
<1> QED BY <1>3, <1>4

\* A move from an object that held nothing before v.
LEMMA MoveAt ==
  ASSUME NEW f \in Places, NEW o \in Objects, NEW p \in Objects, o # p, f[o] = Null,
         NEW v \in Fields, NEW live, NEW broken
  PROVE  Move(World(At(f, o, v), live, broken), p, o) = World(At(f, p, v), live, broken)
<1> DEFINE d == At(f, o, v)
           e == At(d, p, v)
           g == At(e, o, Null)
<1>1. d \in Places /\ \A q \in Objects : d[q] = IF q = o THEN v ELSE f[q]
  BY AtIs
<1> HIDE DEF d
<1>2. e \in Places /\ \A q \in Objects : e[q] = IF q = p THEN v ELSE d[q]
  BY <1>1, AtIs
<1>3. d[o] = v
  BY <1>1
<1>4. Move(World(d, live, broken), p, o) = World(g, live, broken)
  BY <1>1, <1>3, MoveGives
<1> HIDE DEF e
<1>5. g \in Places /\ \A q \in Objects : g[q] = IF q = o THEN Null ELSE e[q]
  BY <1>2, AtIs, NullHolds
<1> HIDE DEF g
<1>6. \A q \in Objects : g[q] = IF q = p THEN v ELSE f[q]
  BY <1>1, <1>2, <1>5
<1>7. At(f, p, v) \in Places /\ \A q \in Objects : At(f, p, v)[q] = IF q = p THEN v ELSE f[q]
  BY AtIs
<1>8. g = At(f, p, v)
  BY <1>5, <1>6, <1>7, SameObjects
<1> QED BY <1>4, <1>8 DEF d

\* The destructors of an object moved from do nothing.
LEMMA NullEnds ==
  ASSUME NEW f \in Places, NEW live, NEW broken \in BOOLEAN,
         NEW o \in Objects, f[o] = Null
  PROVE  LET w == World(f, live, broken)
         IN  FreeOf(w, o) = w /\ ReleaseOf(w, o) = w /\ EndOf(w, o) = w
<1> DEFINE w == World(f, live, broken)
<1>1. w.objs = f /\ w.live = live /\ w.broken = broken
  BY WorldIs
<1>2. At(f, o, Null) = f
  BY AtSame
<1>3. Put(w, o, Null) = w
  BY <1>2, PutIs, NullHolds
<1>4. [f EXCEPT ![o] = OfMemory(f[o].mem, f[o].free)] = f
  <2>1. OfMemory(f[o].mem, f[o].free) = Null
    BY DEF OfMemory, Null
  <2> QED BY <1>2, <2>1 DEF At
<1>5. DestroyOf(w, o) = w
  <2>1. /\ f[o].handle = "null" /\ f[o].ptr = "null"
    BY DEF Null
  <2> DEFINE left == IF f[o].handle = "null" THEN live ELSE live \cap {"memory"}
             bad == \/ w.broken
                    \/ f[o].handle # "null" /\ Lost(w, "heap")
                    \/ f[o].ptr # "null" /\ "heap" \in left
  <2>2. DestroyOf(w, o) = [objs |-> [f EXCEPT ![o] = OfMemory(f[o].mem, f[o].free)],
                           live |-> left, broken |-> bad]
    BY <1>1 DEF DestroyOf
  <2>3. left = live
    BY <2>1
  <2>4. bad = broken
    BY <1>1, <2>1
  <2> HIDE DEF left, bad
  <2> QED BY <1>4, <2>2, <2>3, <2>4 DEF World
<1>6. f[o].mem = "null" /\ f[o].data = "null"
  BY DEF Null
<1>7. ReleaseOf(w, o) = w
  BY <1>1, <1>3, <1>6 DEF ReleaseOf, Put
<1>8. FreeOf(w, o) = w
  BY <1>1, <1>6 DEF FreeOf
<1> QED BY <1>5, <1>7, <1>8 DEF EndOf


\* What the constructors make is an object.
LEMMA ShapesHold ==
  ASSUME NEW mem \in Names, NEW free \in BOOLEAN
  PROVE  /\ OfMemory(mem, free) \in Fields /\ OfHeap(mem, free) \in Fields
         /\ OfBlock(mem) \in Fields
BY DEF OfMemory, OfHeap, OfBlock, Fields, Names

\* What a constructor leaves.
LEMMA ConstructGives ==
  ASSUME NEW f \in Places, NEW live, NEW broken, NEW o \in Objects,
         NEW mem \in Names, NEW free \in BOOLEAN
  PROVE  Construct(World(f, live, broken), o, mem, free) =
           World(At(f, o, OfMemory(mem, free)), live, broken)
<1>1. Construct(World(f, live, broken), o, mem, free) =
        Put(World(f, live, broken), o, OfMemory(mem, free))
  BY DEF Construct, Put
<1> QED BY <1>1, PutIs, ShapesHold

\* More is alive.
Born(w, what) == [w EXCEPT !.live = @ \cup {what}]

\* Only what is alive changes.
LEMMA BornIs ==
  ASSUME NEW f, NEW live, NEW broken, NEW what
  PROVE  Born(World(f, live, broken), what) = World(f, live \cup {what}, broken)
<1> DEFINE w == World(f, live, broken)
<1>1. w = [objs |-> f, live |-> live, broken |-> broken]
  BY DEF World
<1>2. [w EXCEPT !.live = w.live \cup {what}] =
        [objs |-> f, live |-> live \cup {what}, broken |-> broken]
  <2> HIDE DEF w
  <2> QED BY <1>1
<1> QED BY <1>2 DEF Born, World

-----------------------------------------------------------------------------
(* The functions of the code *)

\* Only object o holds something.
Only(o, v) == At(NoObjects, o, v)

\* Object by object.
LEMMA OnlyIs ==
  ASSUME NEW o \in Objects, NEW v \in Fields
  PROVE  /\ Only(o, v) \in Places
         /\ \A p \in Objects : Only(o, v)[p] = IF p = o THEN v ELSE Null
<1>1. NoObjects \in Places /\ \A p \in Objects : NoObjects[p] = Null
  BY NullHolds DEF NoObjects, Places
<1> QED BY <1>1, AtIs DEF Only

\* The one object is moved.
LEMMA MoveOnly ==
  ASSUME NEW o \in Objects, NEW p \in Objects, o # p, NEW v \in Fields, NEW live, NEW broken
  PROVE  Move(World(Only(o, v), live, broken), p, o) = World(Only(p, v), live, broken)
<1>1. NoObjects \in Places /\ NoObjects[o] = Null
  BY NullHolds DEF NoObjects, Places
<1> QED BY <1>1, MoveAt DEF Only

\* The memory of the one object is made a heap.
LEMMA WrapOnly ==
  ASSUME NEW o \in Objects, NEW p \in Objects, o # p, NEW live, NEW broken,
         NEW mem \in Names, NEW free \in BOOLEAN
  PROVE  Wrap(World(Only(o, OfMemory(mem, free)), live, broken), p, o) =
           World(Only(p, OfHeap(mem, free)), live \cup {"heap"}, broken)
<1> DEFINE v == OfMemory(mem, free)
           u == OfHeap(mem, free)
           w == World(Only(o, v), live, broken)
           moved == Move(w, p, o)
           g == Only(p, v)
<1>1. v \in Fields /\ u \in Fields
  BY ShapesHold
<1>2. moved = World(g, live, broken)
  <2> HIDE DEF v
  <2> QED BY <1>1, MoveOnly
<1>3. g \in Places /\ g[p] = v
  <2> HIDE DEF v
  <2> QED BY <1>1, OnlyIs
<1>4. moved.objs[p].mem = mem /\ moved.objs[p].free = free
  <2> HIDE DEF g, moved
  <2> QED BY <1>2, <1>3, WorldIs DEF OfMemory
<1>5. Wrap(w, p, o) = Born(Put(moved, p, u), "heap")
  <2>1. Wrap(w, p, o) =
         [[moved EXCEPT !.objs[p] = OfHeap(moved.objs[p].mem, moved.objs[p].free)]
           EXCEPT !.live = @ \cup {"heap"}]
    BY DEF Wrap
  <2> QED BY <2>1, <1>4 DEF Put, Born
<1>6. Put(moved, p, u) = World(At(g, p, u), live, broken)
  <2> HIDE DEF g, moved, u
  <2> QED BY <1>1, <1>2, <1>3, PutIs
<1>7. At(g, p, u) = Only(p, u)
  <2> DEFINE h == At(g, p, u)
  <2> HIDE DEF u, v, g
  <2>1. h \in Places /\ \A q \in Objects : h[q] = IF q = p THEN u ELSE g[q]
    BY <1>1, <1>3, AtIs
  <2> HIDE DEF h
  <2>2. \A q \in Objects : h[q] = IF q = p THEN u ELSE Null
    BY <1>1, <2>1, OnlyIs DEF g
  <2>3. h = Only(p, u)
    BY <1>1, <2>1, <2>2, OnlyIs, SameObjects
  <2> QED BY <2>3 DEF h
<1>8. Put(moved, p, u) = World(Only(p, u), live, broken)
  BY <1>6, <1>7
<1>9. Wrap(w, p, o) = World(Only(p, u), live \cup {"heap"}, broken)
  <2> HIDE DEF moved, u, w
  <2> QED BY <1>5, <1>8, BornIs
<1> QED BY <1>9

\* The ends of all others do nothing.
LEMMA EndOnly ==
  ASSUME NEW o \in Objects, NEW p \in Objects, o # p, NEW v \in Fields, NEW live,
         NEW broken \in BOOLEAN
  PROVE  LET w == World(Only(o, v), live, broken)
         IN  ReleaseOf(w, p) = w /\ EndOf(w, p) = w
BY OnlyIs, NullEnds

\* The heap of mapped memory ends up in heapWrapper, which owns the memory.
LEMMA MappedGives ==
  MappedObjects(World(NoObjects, {}, Sound)) =
    World(Only("heapWrapper", OfHeap("memory", Lent)), {"heap", "memory"}, Sound)
<1> DEFINE hp == OfHeap("memory", Lent)
           live == {"heap", "memory"}
           lentNow == World(Only("memory", OfMemory("memory", Lent)), {"memory"}, Sound)
           W(o) == World(Only(o, hp), live, Sound)
<1>1. /\ {"memory", "temp", "local", "heapWrapper"} \subseteq Objects
      /\ "memory" \in Names /\ hp \in Fields
  BY ShapesHold, Truths DEF Objects, Names
<1>2. NoObjects \in Places
  BY NullHolds DEF NoObjects, Places
<1>3. Construct([World(NoObjects, {}, Sound) EXCEPT !.live = @ \cup {"memory"}],
                "memory", "memory", Lent) = lentNow
  <2>1. [World(NoObjects, {}, Sound) EXCEPT !.live = @ \cup {"memory"}] =
          World(NoObjects, {"memory"}, Sound)
    <3>1. {} \cup {"memory"} = {"memory"}
      OBVIOUS
    <3>2. Born(World(NoObjects, {}, Sound), "memory") = World(NoObjects, {} \cup {"memory"}, Sound)
      BY BornIs
    <3>3. Born(World(NoObjects, {}, Sound), "memory") = World(NoObjects, {"memory"}, Sound)
      BY <3>1, <3>2
    <3> QED BY <3>3 DEF Born
  <2> QED BY <1>1, <1>2, <2>1, ConstructGives, Truths DEF Only
<1>4. Wrap(lentNow, "temp", "memory") = W("temp")
  <2>1. {"memory"} \cup {"heap"} = live
    OBVIOUS
  <2> HIDE DEF live
  <2> QED BY <1>1, <2>1, WrapOnly, Truths
<1> HIDE DEF hp, live, lentNow

<1>5. Move(W("temp"), "local", "temp") = W("local")
  BY <1>1, MoveOnly
<1>6. EndOf(W("local"), "temp") = W("local") /\ ReleaseOf(W("local"), "memory") = W("local")
  BY <1>1, EndOnly, Truths
<1>7. Move(W("local"), "heapWrapper", "local") = W("heapWrapper")
  BY <1>1, MoveOnly
<1>8. EndOf(W("heapWrapper"), "local") = W("heapWrapper")
  BY <1>1, EndOnly, Truths
<1> HIDE DEF W
<1>9. MappedObjects(World(NoObjects, {}, Sound)) = W("heapWrapper")
  BY <1>3, <1>4, <1>5, <1>6, <1>7, <1>8 DEF MappedObjects, Lent
<1> QED BY <1>9 DEF W, hp, live

\* The heap of the region ends up there too, and nothing owns its memory.
LEMMA RegionGives ==
  RegionObjects(World(NoObjects, {}, Sound)) =
    World(Only("heapWrapper", OfHeap("region", Sound)), {"heap"}, Sound)
<1> DEFINE hp == OfHeap("region", Sound)
           live == {"heap"}
           res == World(Only("memory", OfMemory("region", Sound)), {}, Sound)
           W(o) == World(Only(o, hp), live, Sound)
<1>1. /\ {"memory", "local", "heapWrapper"} \subseteq Objects
      /\ "region" \in Names /\ hp \in Fields
  BY ShapesHold, Truths DEF Objects, Names
<1>2. NoObjects \in Places
  BY NullHolds DEF NoObjects, Places
<1>3. Construct(World(NoObjects, {}, Sound), "memory", "region", Sound) = res
  BY <1>1, <1>2, ConstructGives, Truths DEF Only
<1>4. Wrap(res, "local", "memory") = W("local")
  <2>1. {} \cup {"heap"} = live
    OBVIOUS
  <2> HIDE DEF live
  <2> QED BY <1>1, <2>1, WrapOnly, Truths
<1> HIDE DEF hp, live, res
<1>5. ReleaseOf(W("local"), "memory") = W("local")
  BY <1>1, EndOnly, Truths
<1>6. Move(W("local"), "heapWrapper", "local") = W("heapWrapper")
  BY <1>1, MoveOnly
<1>7. EndOf(W("heapWrapper"), "local") = W("heapWrapper")
  BY <1>1, EndOnly, Truths
<1> HIDE DEF W
<1>8. RegionObjects(World(NoObjects, {}, Sound)) = W("heapWrapper")
  BY <1>3, <1>4, <1>5, <1>6, <1>7 DEF RegionObjects, Sound
<1> QED BY <1>8 DEF W, hp, live

\* A block passes through its optional to its owner.
LEMMA AllocGives ==
  ASSUME NEW f \in Places, NEW live, NEW b \in {"info", "text", "data"},
         f["block"] = Null, f[OptOf(b)] = Null
  PROVE  AllocObjects(World(f, live, Sound), b) =
           World(At(f, b, OfBlock(b)), live \cup {b}, Sound)
<1> DEFINE w == World(f, live, Sound)
           opt == OptOf(b)
           v == OfBlock(b)
           more == live \cup {b}
           W(o) == World(At(f, o, v), more, Sound)
<1>1. /\ opt \in Objects /\ "block" \in Objects /\ b \in Objects
      /\ opt # "block" /\ b # "block" /\ b # opt
      /\ f["block"] = Null /\ f[opt] = Null
      /\ v \in Fields
  <2>1. b \in Names
    BY DEF Names
  <2> QED BY <2>1, ShapesHold, Truths DEF OptOf, Objects
<1>2. Allocate(w, opt, b) = Move(Born(Put(w, "block", v), b), opt, "block")
  BY DEF Allocate, Born, Put
<1> HIDE DEF v, opt
<1>3. Put(w, "block", v) = World(At(f, "block", v), live, Sound)
  BY <1>1, PutIs
<1>4. Born(Put(w, "block", v), b) = W("block")
  BY <1>3, BornIs
<1> HIDE DEF more
<1>5. Move(W("block"), opt, "block") = W(opt)
  BY <1>1, MoveAt
<1>6. FreeOf(W(opt), "block") = W(opt)
  <2>1. At(f, opt, v) \in Places /\ At(f, opt, v)["block"] = Null
    BY <1>1, AtIs
  <2> QED BY <1>1, <2>1, NullEnds, Truths
<1>7. Move(W(opt), b, opt) = W(b)
  BY <1>1, MoveAt
<1>8. FreeOf(W(b), "block") = W(b)
  <2>1. At(f, b, v) \in Places /\ At(f, b, v)["block"] = Null
    BY <1>1, AtIs
  <2> QED BY <1>1, <2>1, NullEnds, Truths
<1> HIDE DEF W, w
<1>9. AllocObjects(w, b) = W(b)
  BY <1>2, <1>4, <1>5, <1>6, <1>7, <1>8 DEF AllocObjects, opt
<1> QED BY <1>9 DEF W, w, v, more

\* load passes .text and .data to the ModuleData.
LEMMA LoadGives ==
  ASSUME NEW f \in Places, NEW live,
         \A o \in {"mText", "mData", "textOpt", "dataOpt"} : f[o] = Null
  PROVE  \E g \in Places :
           /\ LoadObjects(World(f, live, Sound)) = World(g, live, Sound)
           /\ \A q \in Objects :
                g[q] = IF q = "mText" THEN f["text"] ELSE IF q = "mData" THEN f["data"]
                       ELSE IF q \in {"text", "data"} THEN Null ELSE f[q]
<1> DEFINE d == At(f, "mText", f["text"])
           e == At(d, "text", Null)
           g == At(At(e, "mData", e["data"]), "data", Null)
           w == World(g, live, Sound)
<1>1. /\ \A o \in {"mText", "mData", "textOpt", "dataOpt", "text", "data"} : o \in Objects
      /\ \A q \in Objects : f[q] \in Fields
  BY DEF Objects, Places
<1>2. d \in Places /\ \A q \in Objects : d[q] = IF q = "mText" THEN f["text"] ELSE f[q]
  BY <1>1, AtIs
<1>3. Move(World(f, live, Sound), "mText", "text") = World(e, live, Sound)
  BY <1>1, MoveGives
<1> HIDE DEF d
<1>4. e \in Places /\ \A q \in Objects : e[q] = IF q = "text" THEN Null ELSE d[q]
  BY <1>1, <1>2, AtIs, NullHolds
<1> HIDE DEF e
<1>5. Move(World(e, live, Sound), "mData", "data") = w /\ g \in Places
  BY <1>1, <1>4, MoveGives
<1>6. \A q \in Objects : g[q] = IF q = "data" THEN Null
                               ELSE IF q = "mData" THEN e["data"] ELSE e[q]
  <2> DEFINE h == At(e, "mData", e["data"])
  <2>1. e["data"] \in Fields /\ "mData" \in Objects
    BY <1>1, <1>4 DEF Places
  <2>2. h \in Places /\ \A q \in Objects : h[q] = IF q = "mData" THEN e["data"] ELSE e[q]
    BY <1>4, <2>1, AtIs
  <2> HIDE DEF h
  <2>3. \A q \in Objects : At(h, "data", Null)[q] = IF q = "data" THEN Null ELSE h[q]
    BY <1>1, <2>2, AtIs, NullHolds
  <2> QED BY <2>2, <2>3 DEF h
<1> HIDE DEF g
<1>7. \A q \in Objects :
        g[q] = IF q = "mText" THEN f["text"] ELSE IF q = "mData" THEN f["data"]
               ELSE IF q \in {"text", "data"} THEN Null ELSE f[q]
  BY <1>1, <1>2, <1>4, <1>6
<1>8. /\ FreeOf(w, "data") = w /\ FreeOf(w, "dataOpt") = w
      /\ FreeOf(w, "text") = w /\ FreeOf(w, "textOpt") = w
  <2>1. \A o \in {"data", "dataOpt", "text", "textOpt"} : g[o] = Null
    BY <1>1, <1>7
  <2> QED BY <1>1, <1>5, <2>1, NullEnds, Truths
<1> HIDE DEF w
<1>9. LoadObjects(World(f, live, Sound)) = w
  BY <1>3, <1>5, <1>8 DEF LoadObjects
<1> QED BY <1>5, <1>7, <1>9 DEF w

\* ~ExpHeapMemory of an owner.
LEMMA FreeGives ==
  ASSUME NEW f \in Places, NEW live, NEW o \in Objects, NEW b \in {"info", "text", "data"},
         f[o] = OfBlock(b), b \in live, "heap" \in live
  PROVE  FreeOf(World(f, live, Sound), o) = World(At(f, o, Null), live \ {b}, Sound)
<1> DEFINE w == World(f, live, Sound)
           bad == w.broken \/ Lost(w, b) \/ Lost(w, "heap")
<1>1. w.objs = f /\ w.live = live /\ w.broken = Sound
  BY WorldIs
<1>2. f[o].data = b /\ b # "null"
  BY DEF OfBlock
<1> HIDE DEF w
<1>3. FreeOf(w, o) = [objs |-> [f EXCEPT ![o] = Null], live |-> live \ {b}, broken |-> bad]
  BY <1>1, <1>2 DEF FreeOf
<1>4. bad = Sound
  BY <1>1 DEF Lost, Sound
<1> HIDE DEF bad
<1> QED BY <1>3, <1>4 DEF World, At, w

\* ~HeapWrapper of the owner of a heap without blocks.
LEMMA DestroyGives ==
  ASSUME NEW f \in Places, NEW live, NEW o \in Objects, f[o].handle = "heap", "heap" \in live
  PROVE  DestroyOf(World(f, live, Sound), o) =
           World(At(f, o, OfMemory(f[o].mem, f[o].free)), live \cap {"memory"}, Sound)
<1> DEFINE w == World(f, live, Sound)
           left == live \cap {"memory"}
           bad == \/ w.broken
                  \/ f[o].handle # "null" /\ Lost(w, "heap")
                  \/ f[o].ptr # "null" /\ "heap" \in left
           g == [f EXCEPT ![o] = OfMemory(f[o].mem, f[o].free)]
<1>1. w.objs = f /\ w.live = live /\ w.broken = Sound
  BY WorldIs
<1> HIDE DEF w
<1>2. DestroyOf(w, o) = [objs |-> g, live |-> left, broken |-> bad]
  BY <1>1 DEF DestroyOf
<1>3. bad = Sound
  BY <1>1 DEF Lost, Sound
<1> HIDE DEF bad
<1> QED BY <1>2, <1>3 DEF World, At, w

\* ~MemoryWrapper
LEMMA ReleaseGives ==
  ASSUME NEW f \in Places, NEW live, NEW o \in Objects, f[o].mem # "null",
         f[o].free => "memory" \in live, "heap" \notin live
  PROVE  ReleaseOf(World(f, live, Sound), o) =
           World(At(f, o, Null), IF f[o].free THEN live \ {"memory"} ELSE live, Sound)
<1> DEFINE w == World(f, live, Sound)
           bad == w.broken \/ Lost(w, "memory") \/ "heap" \in w.live
<1>1. w.objs = f /\ w.live = live /\ w.broken = Sound
  BY WorldIs
<1>2. CASE ~f[o].free
  <2>1. ReleaseOf(w, o) = Put(w, o, Null)
    <3> HIDE DEF w
    <3> QED BY <1>1, <1>2 DEF ReleaseOf, Put
  <2> QED BY <1>2, <2>1, PutIs, NullHolds
<1>3. CASE f[o].free
  <2> HIDE DEF w
  <2>1. ReleaseOf(w, o) =
          [objs |-> [f EXCEPT ![o] = Null], live |-> live \ {"memory"}, broken |-> bad]
    BY <1>1, <1>3 DEF ReleaseOf
  <2>2. bad = Sound
    BY <1>1, <1>3 DEF Lost, Sound
  <2> HIDE DEF bad
  <2> QED BY <1>3, <2>1, <2>2 DEF World, At, w
<1> QED BY <1>2, <1>3

-----------------------------------------------------------------------------
(* What each object holds *)

\* The objects when heapWrapper is v and the blocks bs are alive, .text and .data at t and d.
HeldBy(v, t, d, bs) ==
  [o \in Objects |->
    IF o = "heapWrapper" THEN v
    ELSE IF o = "info" /\ "info" \in bs THEN OfBlock("info")
    ELSE IF o = t /\ "text" \in bs THEN OfBlock("text")
    ELSE IF o = d /\ "data" \in bs THEN OfBlock("data")
    ELSE Null]

TextAt == IF Passed THEN "mText" ELSE "text"

DataAt == IF Passed THEN "mData" ELSE "data"

\* Object by object.
LEMMA HeldByIs ==
  ASSUME NEW v \in Fields, NEW t \in Objects, NEW d \in Objects, NEW bs
  PROVE  /\ HeldBy(v, t, d, bs) \in Places
         /\ \A o \in Objects : HeldBy(v, t, d, bs)[o] =
              IF o = "heapWrapper" THEN v
              ELSE IF o = "info" /\ "info" \in bs THEN OfBlock("info")
              ELSE IF o = t /\ "text" \in bs THEN OfBlock("text")
              ELSE IF o = d /\ "data" \in bs THEN OfBlock("data")
              ELSE Null
<1>1. OfBlock("info") \in Fields /\ OfBlock("text") \in Fields /\ OfBlock("data") \in Fields
  BY ShapesHold, Truths DEF Names
<1> QED BY <1>1, NullHolds DEF HeldBy, Places

\* Held, from its parts.
LEMMA HeldIs == Held = HeldBy(Wrapper, TextAt, DataAt, blocks)
BY DEF Held, HeldBy, TextAt, DataAt, Owner, Objects

\* The same after a step.
LEMMA HeldNext == Held' = HeldBy(Wrapper', TextAt', DataAt', blocks')
BY DEF Held, HeldBy, TextAt, DataAt, Owner, Objects

\* A heap without blocks.
LEMMA HeldHeap ==
  ASSUME NEW v \in Fields, NEW t \in Objects, NEW d \in Objects
  PROVE  HeldBy(v, t, d, {}) = Only("heapWrapper", v)
<1>1. "heapWrapper" \in Objects
  BY DEF Objects
<1>2. \A o \in Objects : HeldBy(v, t, d, {})[o] = Only("heapWrapper", v)[o]
  BY <1>1, HeldByIs, OnlyIs
<1> QED BY <1>1, <1>2, HeldByIs, OnlyIs, SameObjects

\* Nothing held.
LEMMA HeldNothing ==
  ASSUME NEW t \in Objects, NEW d \in Objects
  PROVE  HeldBy(Null, t, d, {}) = NoObjects
BY DEF HeldBy, NoObjects

\* One block more.
LEMMA HeldMore ==
  ASSUME NEW v \in Fields, NEW b \in {"info", "text", "data"}, NEW bs,
         NEW cs, \A c : c \in cs <=> c \in bs \/ c = b
  PROVE  At(HeldBy(v, "text", "data", bs), b, OfBlock(b)) = HeldBy(v, "text", "data", cs)
<1> DEFINE f == HeldBy(v, "text", "data", bs)
           g == HeldBy(v, "text", "data", cs)
<1>1. "text" \in Objects /\ "data" \in Objects /\ b \in Objects /\ b \in Names
  BY DEF Objects, Names
<1>2. OfBlock(b) \in Fields
  BY <1>1, ShapesHold, Truths
<1>3. f \in Places /\ g \in Places
  BY <1>1, HeldByIs
<1>4. /\ At(f, b, OfBlock(b)) \in Places
      /\ \A o \in Objects : At(f, b, OfBlock(b))[o] = IF o = b THEN OfBlock(b) ELSE f[o]
  BY <1>1, <1>2, <1>3, AtIs
<1>5. \A o \in Objects : At(f, b, OfBlock(b))[o] = g[o]
  <2>1. \A q \in Objects : f[q] =
            IF q = "heapWrapper" THEN v
            ELSE IF q = "info" /\ "info" \in bs THEN OfBlock("info")
            ELSE IF q = "text" /\ "text" \in bs THEN OfBlock("text")
            ELSE IF q = "data" /\ "data" \in bs THEN OfBlock("data")
            ELSE Null
    BY <1>1, HeldByIs
  <2>2. \A q \in Objects : g[q] =
            IF q = "heapWrapper" THEN v
            ELSE IF q = "info" /\ "info" \in cs THEN OfBlock("info")
            ELSE IF q = "text" /\ "text" \in cs THEN OfBlock("text")
            ELSE IF q = "data" /\ "data" \in cs THEN OfBlock("data")
            ELSE Null
    BY <1>1, HeldByIs
  <2> HIDE DEF f, g
  <2>3. CASE b = "info"
    BY <1>4, <2>1, <2>2, <2>3
  <2>4. CASE b = "text"
    BY <1>4, <2>1, <2>2, <2>4
  <2>5. CASE b = "data"
    BY <1>4, <2>1, <2>2, <2>5
  <2> QED BY <2>3, <2>4, <2>5
<1> QED BY <1>3, <1>4, <1>5, SameObjects

\* One block less.
LEMMA HeldLess ==
  ASSUME NEW v \in Fields, NEW b \in {"info", "text", "data"}, NEW bs,
         NEW cs, \A c : c \in cs <=> c \in bs /\ c # b,
         NEW o \in {"info", "mText", "mData"},
         o = IF b = "info" THEN "info" ELSE IF b = "text" THEN "mText" ELSE "mData"
  PROVE  At(HeldBy(v, "mText", "mData", bs), o, Null) = HeldBy(v, "mText", "mData", cs)
<1> DEFINE f == HeldBy(v, "mText", "mData", bs)
           g == HeldBy(v, "mText", "mData", cs)
<1>1. "mText" \in Objects /\ "mData" \in Objects /\ o \in Objects
  BY DEF Objects
<1>3. f \in Places /\ g \in Places
  BY <1>1, HeldByIs
<1>4. /\ At(f, o, Null) \in Places
      /\ \A q \in Objects : At(f, o, Null)[q] = IF q = o THEN Null ELSE f[q]
  BY <1>1, <1>3, AtIs, NullHolds
<1>5. \A q \in Objects : At(f, o, Null)[q] = g[q]
  <2>1. \A q \in Objects : f[q] =
            IF q = "heapWrapper" THEN v
            ELSE IF q = "info" /\ "info" \in bs THEN OfBlock("info")
            ELSE IF q = "mText" /\ "text" \in bs THEN OfBlock("text")
            ELSE IF q = "mData" /\ "data" \in bs THEN OfBlock("data")
            ELSE Null
    BY <1>1, HeldByIs
  <2>2. \A q \in Objects : g[q] =
            IF q = "heapWrapper" THEN v
            ELSE IF q = "info" /\ "info" \in cs THEN OfBlock("info")
            ELSE IF q = "mText" /\ "text" \in cs THEN OfBlock("text")
            ELSE IF q = "mData" /\ "data" \in cs THEN OfBlock("data")
            ELSE Null
    BY <1>1, HeldByIs
  <2> HIDE DEF f, g
  <2>3. CASE b = "info"
    BY <1>4, <2>1, <2>2, <2>3
  <2>4. CASE b = "text"
    BY <1>4, <2>1, <2>2, <2>4
  <2>5. CASE b = "data"
    BY <1>4, <2>1, <2>2, <2>5
  <2> QED BY <2>3, <2>4, <2>5
<1> QED BY <1>3, <1>4, <1>5, SameObjects

\* heapWrapper made another.
LEMMA HeldOther ==
  ASSUME NEW v \in Fields, NEW u \in Fields, NEW t \in Objects, NEW d \in Objects
  PROVE  At(HeldBy(v, t, d, {}), "heapWrapper", u) = HeldBy(u, t, d, {})
<1> DEFINE f == HeldBy(v, t, d, {})
           g == HeldBy(u, t, d, {})
<1>1. "heapWrapper" \in Objects
  BY DEF Objects
<1>3. f \in Places /\ g \in Places
  BY <1>1, HeldByIs
<1>4. /\ At(f, "heapWrapper", u) \in Places
      /\ \A q \in Objects : At(f, "heapWrapper", u)[q] = IF q = "heapWrapper" THEN u ELSE f[q]
  BY <1>1, <1>3, AtIs
<1>5. \A q \in Objects : At(f, "heapWrapper", u)[q] = g[q]
  BY <1>1, <1>4, HeldByIs
<1> QED BY <1>3, <1>4, <1>5, SameObjects

\* heapWrapper is an object, whatever is lent.
LEMMA WrapperFits == ASSUME lent \in Nat PROVE Wrapper \in Fields
<1> DEFINE free == lent > 0
           mem == IF free THEN "memory" ELSE "region"
<1>1. free \in BOOLEAN /\ mem \in Names
  BY DEF Names
<1> HIDE DEF mem, free
<1>2. OfHeap(mem, free) \in Fields /\ OfMemory(mem, free) \in Fields
  BY <1>1, ShapesHold
<1> QED BY <1>2, NullHolds DEF Wrapper, mem, free


-----------------------------------------------------------------------------
(* The invariant, step by step *)

\* The world before a step.
LEMMA WorldBefore ==
  ASSUME SetupInv, OwnerInv
  PROVE  /\ world = World(HeldBy(Wrapper, TextAt, DataAt, blocks), Alive, Sound)
         /\ Wrapper \in Fields /\ TextAt \in Objects /\ DataAt \in Objects
         /\ lent \in Nat
<1>1. lent \in Nat
  BY DEF SetupInv, TypeOK
<1>2. TextAt \in Objects /\ DataAt \in Objects
  BY DEF TextAt, DataAt, Objects
<1>3. world = World(Held, Alive, Sound)
  BY DEF OwnerInv, World, Sound
<1> QED BY <1>1, <1>2, <1>3, HeldIs, WrapperFits

\* What makes the world fit after a step.
LEMMA WorldAfter ==
  ASSUME world' = World(HeldBy(Wrapper', TextAt', DataAt', blocks'), Alive', Sound),
         blocks' \in {{}, {"info"}, {"info", "text"}, {"info", "text", "data"}},
         phase' = "running" => blocks' = {"info", "text", "data"},
         heap'.kind = "mapped" => heap'.size > 0,
         heap'.kind = "none" /\ phase' # "free" => lent' = 0
  PROVE  OwnerInv'
<1>1. world' = [objs |-> Held', live |-> Alive', broken |-> FALSE]
  BY HeldNext DEF World, Sound
<1> QED BY <1>1 DEF OwnerInv

\* What concerns no owner.
LEMMA QuietKeeps ==
  ASSUME SetupInv, OwnerInv, UNCHANGED <<world, lent, heap, blocks>>,
         Passed' <=> Passed, phase' = "free" <=> phase = "free",
         phase' = "running" => phase = "running"
  PROVE  OwnerInv'
<1>1. Wrapper' = Wrapper /\ TextAt' = TextAt /\ DataAt' = DataAt /\ Alive' = Alive
  BY DEF Wrapper, TextAt, DataAt, Alive
<1> QED BY <1>1, WorldBefore, WorldAfter DEF OwnerInv

\* Without a heap, nothing is owned.
LEMMA NoHeapNoObjects ==
  ASSUME SetupInv, OwnerInv, heap.kind = "none", phase # "free"
  PROVE  world = World(NoObjects, {}, Sound) /\ blocks = {} /\ lent = 0
<1>1. blocks = {} /\ lent = 0
  BY DEF SetupInv, PhaseFits, OwnerInv
<1>2. Wrapper = Null
  BY DEF Wrapper
<1>3. Alive = {}
  BY <1>1 DEF Alive
<1>4. HeldBy(Null, TextAt, DataAt, {}) = NoObjects
  BY WorldBefore, HeldNothing
<1> QED BY <1>1, <1>2, <1>3, <1>4, WorldBefore

\* A heap of mapped memory.
LEMMA MappedKeeps ==
  ASSUME SetupInv, OwnerInv, MappedHeap, world' = MappedObjects(world)
  PROVE  OwnerInv'
<1>1. heap.kind = "none" /\ phase = "heap" /\ i \in DOMAIN files
  BY FilesTyped DEF SetupInv, PhaseFits, MappedHeap, AtModule
<1>2. world = World(NoObjects, {}, Sound) /\ blocks = {} /\ lent = 0
  BY <1>1, NoHeapNoObjects
<1>3. phase' = "load" /\ lent' = lent + Need /\ UNCHANGED blocks
      /\ heap' = [kind |-> "mapped", start |-> 0, size |-> Need]
  BY DEF MappedHeap
<1>4. Need \in Nat /\ Need > 0
  BY <1>1, FilesTyped DEF SetupInv, Need
<1>5. lent' > 0 /\ heap'.kind = "mapped" /\ heap'.size > 0
  BY <1>2, <1>3, <1>4
<1>6. Wrapper' = OfHeap("memory", Lent)
  BY <1>5 DEF Wrapper, Lent
<1>7. Alive' = {"heap", "memory"}
  BY <1>2, <1>3, <1>5 DEF Alive
<1>8. HeldBy(Wrapper', TextAt', DataAt', {}) = Only("heapWrapper", OfHeap("memory", Lent))
  <2>1. OfHeap("memory", Lent) \in Fields
    BY ShapesHold, Truths DEF Names
  <2>2. TextAt' \in Objects /\ DataAt' \in Objects
    BY DEF TextAt, DataAt, Objects
  <2> QED BY <1>6, <2>1, <2>2, HeldHeap
<1>9. world' = World(HeldBy(Wrapper', TextAt', DataAt', blocks'), Alive', Sound)
  BY <1>2, <1>3, <1>7, <1>8, MappedGives
<1> QED BY <1>2, <1>3, <1>5, <1>9, WorldAfter

\* A heap in the region, or none.
LEMMA RegionKeeps ==
  ASSUME SetupInv, OwnerInv, RegionHeap, Unless(phase' = "fatal", RegionObjects(world))
  PROVE  OwnerInv'
<1>1. heap.kind = "none" /\ phase = "heap"
  BY DEF SetupInv, PhaseFits, RegionHeap
<1>2. world = World(NoObjects, {}, Sound) /\ blocks = {} /\ lent = 0
  BY <1>1, NoHeapNoObjects
<1>3. CASE phase' = "fatal"
  <2>1. UNCHANGED <<world, lent, heap, blocks>>
    BY <1>3 DEF RegionHeap, Unless, Fatal, heapVars
  <2> QED BY <1>1, <1>3, <2>1, QuietKeeps DEF Passed
<1>4. CASE phase' # "fatal"
  <2>1. phase' = "load" /\ UNCHANGED <<lent, blocks>>
        /\ heap' = [kind |-> "region", start |-> Start, size |-> (TextStart - Start) % Word]
        /\ world' = RegionObjects(world)
    BY <1>4 DEF RegionHeap, Unless, Fatal
  <2>2. heap'.kind = "region" /\ lent' = 0 /\ ~(lent' > 0)
    BY <1>2, <2>1
  <2>3. Wrapper' = OfHeap("region", Sound)
    <3>1. (lent' > 0) = Sound /\ (IF lent' > 0 THEN "memory" ELSE "region") = "region"
      BY <2>2 DEF Sound
    <3> QED BY <2>2, <3>1 DEF Wrapper
  <2>4. Alive' = {"heap"}
    BY <1>2, <2>1, <2>2 DEF Alive
  <2>5. HeldBy(Wrapper', TextAt', DataAt', {}) = Only("heapWrapper", OfHeap("region", Sound))
    <3>1. OfHeap("region", Sound) \in Fields
      BY ShapesHold, Truths DEF Names
    <3>2. TextAt' \in Objects /\ DataAt' \in Objects
      BY DEF TextAt, DataAt, Objects
    <3> QED BY <2>3, <3>1, <3>2, HeldHeap
  <2>6. world' = World(HeldBy(Wrapper', TextAt', DataAt', blocks'), Alive', Sound)
    BY <1>2, <2>1, <2>4, <2>5, RegionGives
  <2> QED BY <1>2, <2>1, <2>2, <2>6, WorldAfter
<1> QED BY <1>3, <1>4

\* The block that is alive after and was not before.
LEMMA NewBlockIs ==
  ASSUME NEW b, b \notin blocks, blocks' = blocks \cup {b}
  PROVE  NewBlock = b
BY DEF NewBlock

\* A block more, or a fatal error.
LEMMA AllocKeeps ==
  ASSUME SetupInv, OwnerInv, Alloc, Unless(phase' = "fatal", AllocObjects(world, NewBlock))
  PROVE  OwnerInv'
<1>1. phase = "load" /\ heap.kind # "none"
  BY DEF SetupInv, PhaseFits, Alloc
<1>2. CASE phase' = "fatal"
  <2>1. UNCHANGED <<world, lent, heap, blocks>>
    BY <1>1, <1>2 DEF Alloc, Unless, Fatal, heapVars
  <2> QED BY <1>1, <1>2, <2>1, QuietKeeps DEF Passed
<1>3. CASE phase' # "fatal"
  <2>1. /\ UNCHANGED <<phase, lent, heap>> /\ world' = AllocObjects(world, NewBlock)
        /\ blocks # {"info", "text", "data"}
        /\ blocks' = CASE blocks = {} -> {"info"}
                       [] blocks = {"info"} -> {"info", "text"}
                       [] OTHER -> {"info", "text", "data"}
    BY <1>3 DEF Alloc, Unless, Fatal
  <2>2. PICK b \in {"info", "text", "data"} : b \notin blocks /\ blocks' = blocks \cup {b}
    <3>1. CASE blocks = {}
      BY <2>1, <3>1
    <3>2. CASE blocks = {"info"}
      BY <2>1, <3>2
    <3>3. CASE blocks = {"info", "text"}
      BY <2>1, <3>3
    <3> QED BY <2>1, <3>1, <3>2, <3>3 DEF OwnerInv
  <2>3. blocks' \in {{"info"}, {"info", "text"}, {"info", "text", "data"}}
    BY <2>1
  <2>4. NewBlock = b
    BY <2>2, NewBlockIs
  <2>5. /\ TextAt = "text" /\ DataAt = "data" /\ TextAt' = "text" /\ DataAt' = "data"
        /\ Wrapper' = Wrapper
    BY <1>1, <2>1 DEF TextAt, DataAt, Passed, Wrapper
  <2>6. Alive' = Alive \cup {b}
    BY <2>1, <2>2 DEF Alive
  <2> DEFINE f == HeldBy(Wrapper, "text", "data", blocks)
  <2>7. world = World(f, Alive, Sound) /\ Wrapper \in Fields
    BY <2>5, WorldBefore
  <2>8. f \in Places /\ f["block"] = Null /\ f[OptOf(b)] = Null
    <3>1. /\ "text" \in Objects /\ "data" \in Objects /\ "block" \in Objects
          /\ OptOf(b) \in {"infoOpt", "textOpt", "dataOpt"} /\ OptOf(b) \in Objects
      BY DEF OptOf, Objects
    <3>2. f \in Places
      BY <2>7, <3>1, HeldByIs
    <3>3. \A o \in Objects : f[o] =
            IF o = "heapWrapper" THEN Wrapper
            ELSE IF o = "info" /\ "info" \in blocks THEN OfBlock("info")
            ELSE IF o = "text" /\ "text" \in blocks THEN OfBlock("text")
            ELSE IF o = "data" /\ "data" \in blocks THEN OfBlock("data")
            ELSE Null
      BY <2>7, <3>1, HeldByIs
    <3> HIDE DEF f
    <3> QED BY <3>1, <3>2, <3>3
  <2>9. AllocObjects(World(f, Alive, Sound), b) = World(At(f, b, OfBlock(b)), Alive \cup {b}, Sound)
    <3> HIDE DEF f
    <3> QED BY <2>8, AllocGives
  <2>10. At(f, b, OfBlock(b)) = HeldBy(Wrapper, "text", "data", blocks')
    <3>1. \A c : c \in blocks' <=> c \in blocks \/ c = b
      BY <2>2
    <3> QED BY <2>7, <3>1, HeldMore
  <2>11. world' = World(HeldBy(Wrapper', TextAt', DataAt', blocks'), Alive', Sound)
    <3> HIDE DEF f
    <3> QED BY <2>1, <2>4, <2>5, <2>6, <2>7, <2>9, <2>10
  <2>12. /\ phase' = "load" /\ heap'.kind # "none"
         /\ heap'.kind = "mapped" => heap'.size > 0
    BY <1>1, <2>1 DEF OwnerInv
  <2> QED BY <2>3, <2>11, <2>12, WorldAfter
<1> QED BY <1>2, <1>3

\* The module is called, or could not be loaded.
LEMMA CallKeeps ==
  ASSUME SetupInv, OwnerInv, Call, Unless(phase' = "fatal", LoadObjects(world))
  PROVE  OwnerInv'
<1>1. phase = "load" /\ heap.kind # "none" /\ blocks = {"info", "text", "data"}
  BY DEF SetupInv, PhaseFits, Call
<1>2. CASE phase' = "fatal"
  <2>1. UNCHANGED <<world, lent, heap, blocks>>
    BY <1>1, <1>2 DEF Call, Unless, Fatal, heapVars
  <2> QED BY <1>1, <1>2, <2>1, QuietKeeps DEF Passed
<1>3. CASE phase' # "fatal"
  <2>1. phase' = "running" /\ UNCHANGED <<lent, heap, blocks>> /\ world' = LoadObjects(world)
    BY <1>3 DEF Call, Unless, Fatal, heapVars
  <2>2. /\ TextAt = "text" /\ DataAt = "data" /\ TextAt' = "mText" /\ DataAt' = "mData"
        /\ Wrapper' = Wrapper /\ Alive' = Alive
    BY <1>1, <2>1 DEF TextAt, DataAt, Passed, Wrapper, Alive
  <2> DEFINE f == HeldBy(Wrapper, "text", "data", blocks)
             h == HeldBy(Wrapper, "mText", "mData", blocks)
  <2>3. world = World(f, Alive, Sound) /\ Wrapper \in Fields
    BY <2>2, WorldBefore
  <2>4. \A o \in {"text", "data", "mText", "mData", "textOpt", "dataOpt"} : o \in Objects
    BY DEF Objects
  <2>5. f \in Places /\ h \in Places
    BY <2>3, <2>4, HeldByIs
  <2>6. \A o \in Objects : f[o] =
          IF o = "heapWrapper" THEN Wrapper
          ELSE IF o = "info" /\ "info" \in blocks THEN OfBlock("info")
          ELSE IF o = "text" /\ "text" \in blocks THEN OfBlock("text")
          ELSE IF o = "data" /\ "data" \in blocks THEN OfBlock("data")
          ELSE Null
    BY <2>3, <2>4, HeldByIs
  <2>7. \A o \in Objects : h[o] =
          IF o = "heapWrapper" THEN Wrapper
          ELSE IF o = "info" /\ "info" \in blocks THEN OfBlock("info")
          ELSE IF o = "mText" /\ "text" \in blocks THEN OfBlock("text")
          ELSE IF o = "mData" /\ "data" \in blocks THEN OfBlock("data")
          ELSE Null
    BY <2>3, <2>4, HeldByIs
  <2> HIDE DEF f, h
  <2>8. \A o \in {"mText", "mData", "textOpt", "dataOpt"} : f[o] = Null
    BY <2>4, <2>6
  <2>9. PICK g \in Places :
          /\ LoadObjects(World(f, Alive, Sound)) = World(g, Alive, Sound)
          /\ \A q \in Objects :
               g[q] = IF q = "mText" THEN f["text"] ELSE IF q = "mData" THEN f["data"]
                      ELSE IF q \in {"text", "data"} THEN Null ELSE f[q]
    BY <2>5, <2>8, LoadGives
  <2>10. f["text"] = OfBlock("text") /\ f["data"] = OfBlock("data")
    BY <1>1, <2>4, <2>6
  <2>11. \A q \in Objects : g[q] = h[q]
    BY <1>1, <2>6, <2>7, <2>9, <2>10
  <2>12. g = h
    BY <2>5, <2>9, <2>11, SameObjects
  <2>13. world' = World(HeldBy(Wrapper', TextAt', DataAt', blocks'), Alive', Sound)
    BY <2>1, <2>2, <2>3, <2>9, <2>12 DEF h
  <2>14. /\ blocks' = {"info", "text", "data"} /\ heap'.kind # "none"
         /\ heap'.kind = "mapped" => heap'.size > 0
    BY <1>1, <2>1 DEF OwnerInv
  <2> QED BY <2>13, <2>14, WorldAfter
<1> QED BY <1>2, <1>3

\* The scope of the module ends, block by block,
LEMMA FreeBlockKeeps ==
  ASSUME SetupInv, OwnerInv, FreeBlock, world' = ScopeObjects(world)
  PROVE  OwnerInv'
<1>1. phase = "return" /\ heap.kind # "none" /\ blocks # {}
  BY DEF SetupInv, PhaseFits, FreeBlock, Drop
<1>2. /\ UNCHANGED <<phase, lent, heap>>
      /\ blocks' = CASE blocks = {"info", "text", "data"} -> {"info", "text"}
                     [] blocks = {"info", "text"} -> {"info"}
                     [] OTHER -> {}
  BY DEF FreeBlock
<1>3. PICK b \in {"info", "text", "data"} :
        /\ b \in blocks /\ \A c : c \in blocks' <=> c \in blocks /\ c # b
        /\ b = IF "data" \in blocks THEN "data" ELSE IF "text" \in blocks THEN "text" ELSE "info"
        /\ blocks' \in {{}, {"info"}, {"info", "text"}}
  <2>1. CASE blocks = {"info"}
    BY <1>2, <2>1
  <2>2. CASE blocks = {"info", "text"}
    BY <1>2, <2>2
  <2>3. CASE blocks = {"info", "text", "data"}
    BY <1>2, <2>3
  <2> QED BY <1>1, <2>1, <2>2, <2>3 DEF OwnerInv
<1> DEFINE o == IF b = "info" THEN "info" ELSE IF b = "text" THEN "mText" ELSE "mData"
           f == HeldBy(Wrapper, "mText", "mData", blocks)
           g == At(f, o, Null)
<1>4. /\ TextAt = "mText" /\ DataAt = "mData" /\ TextAt' = "mText" /\ DataAt' = "mData"
      /\ Wrapper' = Wrapper
  BY <1>1, <1>2 DEF TextAt, DataAt, Passed, Wrapper
<1>5. Alive' = Alive \ {b} /\ b \in Alive /\ "heap" \in Alive
  BY <1>1, <1>2, <1>3 DEF Alive
<1>6. world = World(f, Alive, Sound) /\ Wrapper \in Fields
  BY <1>4, WorldBefore
<1>7. /\ o \in Objects /\ o \in {"info", "mText", "mData"}
      /\ \A q \in {"mText", "mData", "infoOpt", "info"} : q \in Objects
  BY DEF Objects
<1>8. \A q \in Objects : f[q] =
        IF q = "heapWrapper" THEN Wrapper
        ELSE IF q = "info" /\ "info" \in blocks THEN OfBlock("info")
        ELSE IF q = "mText" /\ "text" \in blocks THEN OfBlock("text")
        ELSE IF q = "mData" /\ "data" \in blocks THEN OfBlock("data")
        ELSE Null
  BY <1>6, <1>7, HeldByIs
<1>9. f \in Places
  BY <1>6, <1>7, HeldByIs
<1>10. g = HeldBy(Wrapper, "mText", "mData", blocks')
  BY <1>3, <1>6, <1>7, HeldLess
<1> HIDE DEF f
<1>11. f[o] = OfBlock(b) /\ f["infoOpt"] = Null
  BY <1>3, <1>7, <1>8
<1> HIDE DEF o
<1>12. FreeOf(world, o) = World(g, Alive', Sound)
  BY <1>5, <1>6, <1>7, <1>9, <1>11, FreeGives
<1>13. g \in Places /\ g["infoOpt"] = Null
  <2>1. \A q \in Objects : g[q] = IF q = o THEN Null ELSE f[q]
    BY <1>7, <1>9, AtIs, NullHolds
  <2>2. g \in Places
    BY <1>7, <1>9, AtIs, NullHolds
  <2> QED BY <1>7, <1>11, <2>1, <2>2
<1> HIDE DEF g
<1>14. FreeOf(World(g, Alive', Sound), "infoOpt") = World(g, Alive', Sound)
  BY <1>7, <1>13, NullEnds, Truths
<1>15. world' = World(g, Alive', Sound)
  <2>1. CASE b = "info"
    BY <1>3, <1>12, <1>14, <2>1 DEF ScopeObjects, o
  <2>2. CASE b = "text"
    BY <1>3, <1>12, <2>2 DEF ScopeObjects, o
  <2>3. CASE b = "data"
    <3>1. "data" \in blocks /\ o = "mData"
      BY <1>3, <2>3 DEF o
    <3>2. ScopeObjects(world) = FreeOf(world, "mData")
      BY <3>1 DEF ScopeObjects
    <3> QED BY <1>12, <3>1, <3>2
  <2> QED BY <2>1, <2>2, <2>3
<1>16. /\ phase' = "return" /\ heap'.kind # "none"
       /\ heap'.kind = "mapped" => heap'.size > 0
  BY <1>1, <1>2 DEF OwnerInv
<1>17. world' = World(HeldBy(Wrapper', TextAt', DataAt', blocks'), Alive', Sound)
  BY <1>4, <1>10, <1>15
<1> QED BY <1>3, <1>16, <1>17, WorldAfter

\* then the heap is destroyed,
LEMMA DestroyKeeps ==
  ASSUME SetupInv, OwnerInv, DestroyHeap, world' = DestroyOf(world, "heapWrapper")
  PROVE  OwnerInv'
<1>1. phase = "return" /\ heap.kind # "none" /\ blocks = {}
  BY DEF SetupInv, PhaseFits, DestroyHeap, Drop
<1>2. phase' = "free" /\ UNCHANGED <<lent, blocks>> /\ heap' = NoHeap /\ heap'.kind = "none"
  BY DEF DestroyHeap, NoHeap
<1> DEFINE f == HeldBy(Wrapper, "mText", "mData", {})
           free == lent > 0
           mem == IF free THEN "memory" ELSE "region"
           u == OfMemory(mem, free)
<1>3. /\ world = World(f, Alive, Sound) /\ Wrapper \in Fields
      /\ TextAt' \in Objects /\ DataAt' \in Objects
  BY <1>1, WorldBefore DEF TextAt, DataAt, Passed, Objects
<1>4. "heapWrapper" \in Objects /\ "mText" \in Objects /\ "mData" \in Objects
  BY DEF Objects
<1>5. f \in Places /\ f["heapWrapper"] = Wrapper
  BY <1>3, <1>4, HeldByIs
<1>6. Wrapper' = u
  BY <1>2 DEF Wrapper
<1>7. u \in Fields
  <2>1. free \in BOOLEAN /\ mem \in Names
    BY DEF Names
  <2> HIDE DEF free, mem
  <2> QED BY <2>1, ShapesHold
<1>8. Wrapper = OfHeap(mem, free)
  BY <1>1 DEF Wrapper
<1>9. Wrapper.handle = "heap" /\ OfMemory(Wrapper.mem, Wrapper.free) = u
  <2> HIDE DEF free, mem
  <2>1. Wrapper.mem = mem /\ Wrapper.free = free /\ Wrapper.handle = "heap"
    BY <1>8 DEF OfHeap
  <2> QED BY <2>1
<1>10. "heap" \in Alive /\ Alive' = Alive \cap {"memory"}
  BY <1>1, <1>2 DEF Alive
<1> HIDE DEF f, u
<1>11. DestroyOf(world, "heapWrapper") = World(At(f, "heapWrapper", u), Alive', Sound)
  BY <1>3, <1>4, <1>5, <1>9, <1>10, DestroyGives
<1>12. At(f, "heapWrapper", u) = HeldBy(u, "mText", "mData", {})
  BY <1>3, <1>4, <1>7, HeldOther DEF f
<1>13. HeldBy(u, "mText", "mData", {}) = HeldBy(u, TextAt', DataAt', {})
  BY <1>3, <1>4, <1>7, HeldHeap
<1>14. world' = World(HeldBy(Wrapper', TextAt', DataAt', blocks'), Alive', Sound)
  BY <1>1, <1>2, <1>6, <1>11, <1>12, <1>13
<1> QED BY <1>1, <1>2, <1>14, WorldAfter

\* and its memory given back.
LEMMA FreeMemoryKeeps ==
  ASSUME SetupInv, OwnerInv, FreeMemory, world' = ReleaseOf(world, "heapWrapper")
  PROVE  OwnerInv'
<1>1. phase = "free" /\ heap.kind = "none" /\ blocks = {}
  BY DEF SetupInv, PhaseFits, FreeMemory
<1>2. phase' = "kernel" /\ lent' = 0 /\ UNCHANGED <<heap, blocks>>
  BY DEF FreeMemory, Freed
<1> DEFINE f == HeldBy(Wrapper, TextAt, DataAt, {})
           free == lent > 0
           mem == IF free THEN "memory" ELSE "region"
<1>3. /\ world = World(f, Alive, Sound) /\ Wrapper \in Fields
      /\ TextAt \in Objects /\ DataAt \in Objects
      /\ TextAt' \in Objects /\ DataAt' \in Objects
  BY <1>1, WorldBefore DEF TextAt, DataAt, Passed, Objects
<1>4. "heapWrapper" \in Objects
  BY DEF Objects
<1>5. f \in Places /\ f["heapWrapper"] = Wrapper
  BY <1>3, <1>4, HeldByIs
<1>6. Wrapper = OfMemory(mem, free)
  BY <1>1 DEF Wrapper
<1>7. Wrapper.mem # "null" /\ (Wrapper.free <=> lent > 0)
  BY <1>6 DEF OfMemory
<1>8. Alive = (IF lent > 0 THEN {"memory"} ELSE {}) /\ Alive' = {} /\ Wrapper' = Null
  BY <1>1, <1>2 DEF Alive, Wrapper
<1> HIDE DEF f
<1>9. ReleaseOf(world, "heapWrapper") =
        World(At(f, "heapWrapper", Null),
              IF f["heapWrapper"].free THEN Alive \ {"memory"} ELSE Alive, Sound)
  BY <1>3, <1>4, <1>5, <1>7, <1>8, ReleaseGives
<1>10. (IF f["heapWrapper"].free THEN Alive \ {"memory"} ELSE Alive) = {}
  BY <1>5, <1>7, <1>8
<1>11. At(f, "heapWrapper", Null) = HeldBy(Null, TextAt, DataAt, {})
  BY <1>3, HeldOther, NullHolds DEF f
<1>12. HeldBy(Null, TextAt, DataAt, {}) = HeldBy(Null, TextAt', DataAt', {})
  BY <1>3, HeldNothing
<1>13. world' = World(HeldBy(Wrapper', TextAt', DataAt', blocks'), Alive', Sound)
  BY <1>1, <1>2, <1>8, <1>9, <1>10, <1>11, <1>12
<1> QED BY <1>1, <1>2, <1>13, WorldAfter

\* The owners follow every step.
LEMMA OwnerStep ==
  ASSUME SetupInv, OwnerInv, [CardNext]_cardVars
  PROVE  OwnerInv'
<1>1. CASE UNCHANGED cardVars
  <2>1. UNCHANGED <<world, phase, lent, heap, blocks>>
    BY <1>1 DEF cardVars, vars, restVars, heapVars
  <2> QED BY <2>1, QuietKeeps DEF Passed
<1>2. CASE Open \/ Memalign \/ ReadBlock \/ Close
  <2>1. UNCHANGED <<world, phase, lent, heap, blocks>>
    BY <1>2 DEF Open, Memalign, ReadBlock, Close, Same, vars, heapVars
  <2> QED BY <2>1, QuietKeeps DEF Passed
<1>3. CASE Loaded
  <2>1. UNCHANGED <<world, lent, heap, blocks>> /\ phase = "next" /\ phase' \in {"heap", "fatal"}
    BY <1>3 DEF Loaded, Load, heapVars
  <2> QED BY <2>1, QuietKeeps DEF Passed
<1>4. CASE OwnerMain
  <2>1. CASE (Skip \/ SetupKernelModule \/ Wait) /\ UNCHANGED world
    <3>1. /\ UNCHANGED <<world, lent, heap, blocks>>
          /\ phase \in {"next", "kernel"} /\ phase' \in {"next", "wait", "fatal"}
      BY <2>1 DEF Skip, SetupKernelModule, Wait, Fatal, heapVars
    <3> QED BY <3>1, QuietKeeps DEF Passed
  <2> QED BY <1>4, <2>1, MappedKeeps, RegionKeeps, AllocKeeps, CallKeeps, FreeBlockKeeps,
        DestroyKeeps, FreeMemoryKeeps DEF OwnerMain
<1>5. CASE (Module \/ Return \/ Exit \/ Stopped) /\ UNCHANGED restVars
  <2>1. /\ UNCHANGED <<world, lent, heap, blocks>>
        /\ UNCHANGED phase \/ (phase = "running" /\ phase' = "return")
           \/ (phase = "wait" /\ phase' = "ended")
    BY <1>5 DEF Module, Running, Unmount, InstallMapping, TakeRegion, TakeMapped, InstallKernel,
      Override, Return, Exit, Stopped, vars, restVars, heapVars
  <2> QED BY <2>1, QuietKeeps DEF Passed
<1> QED BY <1>1, <1>2, <1>3, <1>4, <1>5 DEF CardNext, CardMain

\* Nothing is owned at first.
LEMMA OwnerInit == CardInit => OwnerInv
<1> SUFFICES ASSUME CardInit PROVE OwnerInv
  OBVIOUS
<1>1. /\ phase = "next" /\ lent = 0 /\ heap = NoHeap /\ heap.kind = "none"
      /\ blocks = {} /\ world = NoWorld
  BY DEF CardInit, Init, NoHeap
<1>2. Held = NoObjects /\ Alive = {}
  BY <1>1 DEF Held, NoObjects, Owner, Wrapper, Alive
<1> QED BY <1>1, <1>2 DEF OwnerInv, NoWorld

\* heapWrapper has memory to give back if mapped memory is lent.
LEMMA WrapperLends ==
  ASSUME SetupInv, OwnerInv
  PROVE  Wrapper.data = "null" /\ (Wrapper.free /\ Wrapper.mem # "null" <=> lent > 0)
<1> DEFINE free == lent > 0
           mem == IF free THEN "memory" ELSE "region"
<1>1. mem # "null"
  OBVIOUS
<1>2. Wrapper = OfHeap(mem, free) \/ Wrapper = OfMemory(mem, free) \/ (Wrapper = Null /\ lent = 0)
  BY DEF Wrapper, OwnerInv
<1>3. free <=> lent > 0
  OBVIOUS
<1> HIDE DEF mem, free
<1>4. CASE Wrapper = OfHeap(mem, free)
  BY <1>1, <1>3, <1>4 DEF OfHeap
<1>5. CASE Wrapper = OfMemory(mem, free)
  BY <1>1, <1>3, <1>5 DEF OfMemory
<1>6. CASE Wrapper = Null /\ lent = 0
  BY <1>3, <1>6 DEF Null
<1> QED BY <1>2, <1>4, <1>5, <1>6

\* One owner for what is alive.
LEMMA OneOwner ==
  ASSUME SetupInv, OwnerInv, NEW what \in Alive \ {"heap"}
  PROVE  \E o \in Objects : Owners(what) = {o}
<1>1. world.objs = HeldBy(Wrapper, TextAt, DataAt, blocks) /\ world.live = Alive
  BY WorldBefore, WorldIs
<1> DEFINE f == HeldBy(Wrapper, TextAt, DataAt, blocks)
<1>2. \A q \in Objects : f[q] =
        IF q = "heapWrapper" THEN Wrapper
        ELSE IF q = "info" /\ "info" \in blocks THEN OfBlock("info")
        ELSE IF q = TextAt /\ "text" \in blocks THEN OfBlock("text")
        ELSE IF q = DataAt /\ "data" \in blocks THEN OfBlock("data")
        ELSE Null
  BY WorldBefore, HeldByIs
<1> HIDE DEF f
<1>3. Wrapper.data = "null" /\ (Wrapper.free /\ Wrapper.mem # "null" <=> lent > 0)
  BY WrapperLends
<1>4. what \notin {"heap", "null"} /\ what # Wrapper.handle
  BY WorldBefore DEF Wrapper, OfHeap, OfMemory, Null, Alive, OwnerInv
<1> DEFINE o == IF what = "memory" THEN "heapWrapper" ELSE IF what = "info" THEN "info"
                ELSE IF what = "text" THEN TextAt ELSE DataAt
<1>5. o \in Objects
  BY WorldBefore DEF Objects
<1>6. \A q \in Objects : q \in Owners(what) <=>
        \/ what \in {f[q].handle, f[q].data}
        \/ what = "memory" /\ f[q].free /\ f[q].mem # "null"
  BY <1>1 DEF Owners, IsAllocated, f
<1>7. /\ Null.handle = "null" /\ Null.data = "null" /\ ~Null.free
      /\ \A b \in {"info", "text", "data"} :
           OfBlock(b).handle = "heap" /\ OfBlock(b).data = b /\ ~OfBlock(b).free
  BY DEF Null, OfBlock
<1>8. what = "memory" => lent > 0
  BY DEF Alive, OwnerInv
<1>9. what \in {"info", "text", "data"} => what \in blocks
  BY DEF Alive
<1>10. what \in {"memory", "info", "text", "data"}
  BY DEF Alive, OwnerInv
<1>11. /\ TextAt \notin {"heapWrapper", "info"} /\ DataAt \notin {"heapWrapper", "info"}
       /\ TextAt # DataAt
  BY DEF TextAt, DataAt
<1>12. \A q \in Objects : q \in Owners(what) <=> q = o
  <2> HIDE DEF o
  <2> TAKE q \in Objects
  <2> DEFINE held == \/ what \in {f[q].handle, f[q].data}
                     \/ what = "memory" /\ f[q].free /\ f[q].mem # "null"
  <2>1. CASE q = "heapWrapper"
    <3>1. f[q] = Wrapper
      BY <1>2, <2>1
    <3>2. held <=> what = "memory"
      BY <1>3, <1>4, <1>8, <3>1
    <3>3. q = o <=> what = "memory"
      BY <1>10, <1>11, <2>1 DEF o
    <3> QED BY <1>6, <3>2, <3>3
  <2>2. CASE q # "heapWrapper"
    <3>1. ASSUME NEW b \in {"info", "text", "data"}, f[q] = OfBlock(b)
          PROVE  held <=> what = b
      BY <1>4, <1>7, <3>1
    <3>2. ASSUME f[q] = Null
          PROVE  ~held
      BY <1>4, <1>7, <3>2
    <3> HIDE DEF held
    <3>3. held <=> \/ q = "info" /\ "info" \in blocks /\ what = "info"
                   \/ q = TextAt /\ "text" \in blocks /\ what = "text"
                   \/ q = DataAt /\ "data" \in blocks /\ what = "data"
      BY <1>2, <1>11, <2>2, <3>1, <3>2
    <3>4. held <=> q = o
      BY <1>9, <1>10, <1>11, <2>2, <3>3 DEF o
    <3> QED BY <1>6, <3>4 DEF held
  <2> QED BY <2>1, <2>2
<1> QED BY <1>5, <1>12 DEF Owners

\* Whatever the files and however early a load ends, what is alive has one owner: no
\* destructor frees a block, the heap or the memory of a module twice or too soon.
THEOREM OwnedAlways == CardSpec => []OwnedOnce
<1>1. SetupInv /\ OwnerInv /\ [CardNext]_cardVars => OwnerInv'
  BY OwnerStep
<1>2. SetupInv /\ OwnerInv => OwnedOnce
  <2> SUFFICES ASSUME SetupInv, OwnerInv PROVE OwnedOnce
    OBVIOUS
  <2>1. ~world.broken /\ world.live = Alive
    BY DEF OwnerInv
  <2>2. \A what \in world.live \ {"heap"} : \E o \in Objects : Owners(what) = {o}
    BY <2>1, OneOwner
  <2>3. phase = "running" => (IsAllocated(world, "heapWrapper") <=> Given = 0)
    <3> SUFFICES ASSUME phase = "running" PROVE IsAllocated(world, "heapWrapper") <=> Given = 0
      OBVIOUS
    <3>1. heap.kind \in {"mapped", "region"}
      BY DEF SetupInv, TypeOK, PhaseFits
    <3>2. IsAllocated(world, "heapWrapper") <=> lent > 0
      <4>1. world.objs = HeldBy(Wrapper, TextAt, DataAt, blocks) /\ "heapWrapper" \in Objects
        BY WorldBefore, WorldIs DEF Objects
      <4>2. world.objs["heapWrapper"] = Wrapper
        BY <4>1, WorldBefore, HeldByIs
      <4> QED BY <4>2, WrapperLends DEF IsAllocated
    <3>3. CASE heap.kind = "mapped"
      BY <3>2, <3>3 DEF Given, SetupInv, LentFits, OwnerInv
    <3>4. CASE heap.kind = "region"
      <4>1. lent = 0 /\ heap.start >= RegionStart
        BY <3>4 DEF SetupInv, LentFits, HeapFits
      <4>2. Given = heap.start /\ heap.start \in Nat
        BY <3>4, RegionAssumption DEF Given, SetupInv, TypeOK
      <4> QED BY <3>2, <4>1, <4>2, RegionAssumption
    <3> QED BY <3>1, <3>3, <3>4
  <2> QED BY <2>1, <2>2, <2>3 DEF OwnedOnce, Alive
<1> QED BY <1>1, <1>2, OwnerInit, CardRunInv, PTL DEF CardSpec

=============================================================================

# EnvironmentLoader in TLA+

TLA+ specifications of EnvironmentLoader, the Wii U program that lets a user choose an
environment (a folder with setup modules) and then loads and runs its modules. The modules
here are translated from the C++ under `src/source`; each is model-checked with TLC on a
small instance, and its safety properties are proved with TLAPS for all values of its
constants.

    tlc -workers 2 -config PairMenu.cfg PairMenu      # one run, see "Runs"
    tlapm PairMenuProofs.tla                          # one proof, see "Proofs"

`PROJECT.json` lists components, runs, mutants, the map from definitions to lines, findings,
hazards and theorems.

## 1. The system

`main()` (main.cpp) sets the console up, finds the environments on the SD card, chooses one,
runs its setup modules one after the other, and waits until the system switches to another
title. Everything happens on one thread but for one callback, the SYNC button's; what makes
the program hard is that callback, the file on the SD card that outlives it, the memory it
shares with the modules it runs, the files it reads without much checking, and the arithmetic
of linking and drawing.

| Component | State it keeps | Operations | Interacts with |
|---|---|---|---|
| Controller pairing, `utils/PairUtils.cpp` | `mState`, `mSyncWPADStartTime`, one IM request, a CCR pairing | constructor, `ProcessPairScreen`, `SyncButtonCallback`, destructor | menu loop (calls it each frame), IM service (callback on a thread of its own), CCR and WPAD services |
| Environment selection, `main.cpp` | `autobootIndex`, `selected`, `autoBoot`, `default.cfg` | start of `main`, `EnvironmentSelectionScreen`, `getFileContent`, `writeFileContent` | DirList (environments), IOSU (path of the environment), controllers, the next boot (through `default.cfg`) |
| Setup modules, `main.cpp` | heap of the module, used RPLs | loop of `main`, `LoadAndRunModule`, `GetHeapForModule`, `SetupKernelModule`, `CheckRunning` | modules (which may keep memory, unmount the card, override system calls), `homebrew_memorymapping`, `homebrew_kernel` |
| Memory ownership, `utils/MemoryUtils.h` | pointer, size, free function, heap handle | construct, move, allocate, destroy | LoadAndRunModule, ModuleDataFactory |
| Module loading, `module/*` | destinations of sections, relocation list | `GetSizeOfModule`, `load`, `linkSection`, `getImportRelocationData` | elfio, heap of the module, ElfUtils |
| Relocation, `ElfUtils.cpp` | trampoline table, used RPLs | `doRelocation`, `elfLinkOne` | module memory, OSDynLoad |
| Directory listing, `fs/DirList.cpp` | list of entries | `LoadPath`, filter, `SortList` | SD card; StringTools |
| File loading, `utils/FileUtils.cpp` | buffer | `LoadFileToMem` | SD card |
| Controller input, `utils/InputUtils.cpp` | last samples | `getControllerInput` | VPAD, KPAD |
| ELF parser, `elfio/*`, and `utils/wiiu_zlib.hpp` | headers, sections and their data | `load`, the accessors of symbols and relocations, `inflate` | file in memory, ModuleDataFactory |
| Drawing, `utils/DrawUtils.cpp` | two buffers of two screens, `isBackBuffer`, the font | pixels, rectangles, text, flip | OSScreen, the menu, schrift |
| Font renderer, `utils/schrift.c` | an outline and its cells | character to glyph, outline, rasterization | DrawUtils |
| String helpers, `utils/StringTools.cpp` | none | pure functions | DirList |
| Kernel hook, `kernel.cpp` | six words of kernel memory | `RevertMainHook` | kernel |
| ProcUI loop, `main.cpp` | none | `CheckRunning` | ProcUI |
| Logging, small helpers, CFile, elfio's dump | - | - | output, or unused |

What is hard, and what would make each component correct:

* **Pairing.** `mState` is written by two threads without a lock, and read twice in one call
  of `ProcessPairScreen`. A pairing must always have a state that can end it, the menu must
  never come up during a pairing, the one-shot SYNC request must always be armed again, and
  no callback may touch the object while it is torn down.
* **Selection.** The default is a name on the card but an index in the program, the list
  changes from boot to boot, the index is computed with unsigned arithmetic, and power may
  fail between `fopen("w")` and `fputs`. A boot that asks nobody must launch what the user
  saved, or nothing.
* **Setup modules.** The memory below the loader is used as a heap until Aroma claims it;
  heap and blocks are destroyed by nested scopes; modules leave the console changed. A
  module's memory must not be used again once it is kept, mapped memory must be given back,
  and the system calls must be those of the kernel module whenever the loader goes on.
* **Layout.** One function sizes the heap, another uses it up. Sections come with addresses
  and sizes from a file: they must land inside their block and not on each other, and what a
  linker produces must not be refused.
* **Input.** Several controllers are read at several places, may not answer, and each remembers
  for itself what it last said. A button must act once, and in the screen it was pressed in.
* **Folder and files.** The card lists a folder in any order and case, and reads come back
  short. Modules must run in the order of their names, and only whole files be parsed.
* **Parsing.** Files may be cut short, compressed, of either byte order; the parser goes on after
  most errors. What is copied into memory must be what the linker built.
* **Drawing.** Pixels go straight into the memory OSScreen shows, on two screens of different
  sizes, and a hand-written rasterizer fills glyphs row by row with one running sum.
* **Linking.** Signed displacements in 14 and 24 bits, carries between halves, a table of
  trampolines with two kinds of owner: a branch must go where its relocation says, and keep
  going there.

## 2. The modules

| Module | Models |
|---|---|
| `PairPromise` | what the pairing part promises the menu: no menu, no teardown, during a pairing |
| `PairMenu` | `PairUtils.cpp` and the loop that calls it |
| `PairMenuProofs` | proofs about PairMenu |
| `Boot` | the choice of an environment over any number of boots |
| `Controllers` | one call of `getControllerInput` |
| `BootInput`, `MCBoot` | Boot driven by controllers; its instance |
| `BootProofs` | proofs about Boot and BootInput |
| `SetupPromise` | what the loader promises the modules: in order, once, one at a time, to the end |
| `SetupRun` | the loop over setup modules, heap, call and clean-up |
| `Ownership` | SetupRun with the C++ objects that own its memory |
| `Folder` | `DirList` and the string helpers it uses, as operators |
| `SetupCard`, `MCSetup` | Ownership with the folder listed and each file read by `LoadFileToMem`; its instance |
| `FolderProofs` | lemmas about Folder: the order of names, sorting, what is listed |
| `SetupProofs` | proofs about SetupRun and SetupCard, and about Ownership in SetupCard |
| `Layout` | size, blocks and sections of one module |
| `Reader` | `elfio::load`, byte order and decompression, as operators |
| `ModuleLoad`, `MCLayout` | from a file by Reader to Layout; its instance |
| `LayoutProofs` | proofs about Layout and ModuleLoad |
| `Linker` | relocations and trampolines of one module |
| `Tables`, `MCLinker` | the symbol tables and relocation sections Linker's relocations are read from; its instance |
| `LinkerProofs` | proofs about Linker and Tables |
| `Counting` | induction over numbers, and the loops and sums it defines; no model |
| `Glyphs`, `Outlines`, `Raster` | schrift: a character's glyph, its outline, its pixels |
| `Screen`, `MCScreen` | `DrawUtils` and its use by the menu; its instance |
| `ScreenProofs` | proofs about Screen, and what it needs to know of Glyphs, Outlines and Raster |

Compositions extend one another: `BootInput` adds the pads to Boot, `Ownership` and `SetupCard`
add objects, folder and file to SetupRun, `ModuleLoad` puts Reader before Layout and `Tables` puts
section headers before Linker; each run checks the composition, and the proofs carry what is
proved of the inner module to the outer one. Between them the components meet at plain values:
Boot ends where SetupCard begins (the path of an environment), SetupRun's `Alloc` and `Call`
stand for a load that ModuleLoad and Tables model in detail, Layout ends (`"link"`) where Linker
begins, with the addresses of `.text` and `.data`.

Each module defines, beside some definitions, a variant named for what it gets wrong
("Mutant of ..."): the operator as a plausible mistake would have it. They are not used by
the specification; putting one in place of the definition must break the property it is
listed with in `PROJECT.json`.

### PairMenu

State: `mState`; `main` and `cb`, the control points of the main thread and of the callback;
`cbTo`, the state the callback has decided on; `request`, the IM request as the service sees
it; `ccr`, the CCR service; `screen`, what the user sees; two saturating clocks for the 18
seconds after which WPAD syncing lapses (`mSyncWPADStartTime` and the library's own).
`raced` remembers that a press was being delivered when the destructor cancelled the request.

Every access to `mState` and every service call is a step of its own, because nothing orders
the two threads: `ProcessPairScreen`'s first switch, each case of it, and the second switch
are separate actions, and the callback reads, decides, stores, writes the time and re-arms in
separate actions. The services are external: a request fails only when it is cancelled, a
press of SYNC while no request is armed is dropped, the SYNC button starts WPAD syncing by
itself, and CCR reports the end of a pairing by success or after its timeout.

`QuietAfterCancel` is stated for a cancel no press was racing (`~raced`). The remaining
window is real: a press that completed the request just before `IM_CancelGetEventNotify` is
delivered afterwards, its callback re-arms the request, and the object may be freed under it.
It is listed as a hazard.

### Boot

State: the environments on the card and `default.cfg` (they survive a power failure), and
main's variables of the current boot. `config` is `"absent"`, `"empty"` (after `fopen("w")`),
`"minus1"` or a name. `PowerOff` may happen at any step, `PowerOn` may find any set of
environments. `selected` is a `uint32_t` of `Word` values, `autoBoot` an int of the same
width, so the unbounded cursor of an empty menu is there. Saves may fail at each call. Two
ghost variables, `default` and `cleared`, and `pressed` record what the user was told.

`Controllers` says what a read returns: for every pad that answers, the buttons held and those
that changed since it last answered, remapped to the GamePad's and merged. `BootInput` makes the
commands of Boot the branches of the menu's `else if` chain (`Dispatch`), with main's own read
before the menu (`FirstRead`) and the pairing screen, whose read takes the presses in the menu's
place (`PairFrame`). The ghost `asked` says that a button that may change the default was
pressed in this menu. The up to 100 attempts at VPADRead are one answer or none, and a read
does not block.

`getFileContent` returns at most 127 characters: of each name of `LongNames`, of 128 or more,
`Cut` says which environment has its first 127 as a name, or that none has (`CutsNameNone`).

Not told apart: a failed read of an existing `default.cfg` (`getFileContent` is taken to
succeed if the file exists). A name is shorter than a sector of the card, so a file of which a
part was written is not modelled. An environment named "-1" is excluded by `BootAssumption`.

### SetupRun

State: main's position in the list, the `HeapWrapper` (none, mapped or in the static region),
the blocks alive in it, mapped memory lent by `homebrew_memorymapping`, and of the console what
modules change: the mounted card, the memory modules hold or keep, the kernel module's system
calls. One action per step of `LoadAndRunModule`; the scope's destructors are `FreeBlock`,
`DestroyHeap` and `FreeMemory`, in their order. Addresses are scaled, subtraction wraps at
`Word`.

While a module runs, it is the environment: it may do any of `Unmount`, `InstallMapping`,
`TakeRegion`, `TakeMapped`, `InstallKernel` and `Override`, any number of times. A module that
keeps the region it is given also makes mapped memory available, as the comment at main.cpp
413-417 expects of it. `UsedMax` bounds what modules take of the mapped memory. Line 298 compares
only the lower end of the region: the start of a heap for a module that needs more than lies below the
loader wraps, passes, and a `HeapWrapper` is made up there, of a size that wraps too. Whether
coreinit finds memory there and accepts such an end is its own affair, so that both are possible:
the heap, and a handle that is not the address, which is fatal. What a module does in such a
heap is not laid out (`Layout` has heaps that begin and end below 2^32).

`Ownership` adds the thirteen objects these pieces of memory pass through, from the temporary that
`GetHeapFromMappedMemory` returns to the members of `ModuleData`: each action of SetupRun is given
the constructors, moves and destructors of the code it stands for, and `world` has the fields of
every object, what is alive, and whether a destructor freed or cleared what it no longer owned.
`SetupCard` adds the folder, listed in the order of `readdir`, filtered and sorted (`Folder`), and
the steps of `LoadFileToMem`; `lseek` may fail, `memalign` may, and each `read` may give less than
was asked for or fail. After a failed `lseek` the size is -1, the buffer has no room, and the
first block is written past it: `WholeFileRead` says that nothing is read past the end *unless
`lseek` failed*, and that half of the hazard is noted as caught by no property. Names are
sequences of character codes, because the order is one of characters.

### Layout and ModuleLoad

State: the sections of the file, the heap, its free end, the three blocks, the position of the
copy loop, and the ranges written. Sections are records of what the code looks at: type, the
ALLOC flag, whether it is `.wut_load_bounds`, address, size, alignment. The contents, cache
flushes, the entry point and failed allocations of the small objects are left out. The
expanded heap is external: fresh, it hands out its memory from the front, each block behind a
header of `Header` bytes.

All that the code keeps in a `uint32_t` is taken modulo `Word`: the sizes of the module and of
its blocks, the size of the heap, `destination`, and `destination + sectionSize` in the comparisons.
Nothing is assumed of the sizes in a file but that each is a word. So a sum may wrap, a block
be smaller than the sections in it, and a section end beyond 2^32, where the comparisons let it
pass: no linker makes such a module, but the code does not refuse it, and writes it far beyond its
block. What the loop writes is recorded with its true end. `Contained` and
`NothingOverwritten` are stated for what ends below 2^32, and after a write that does not, they say
what the code's variables say, not what memory holds. `HeapSuffices` and `WellFormedLoads` are
stated for modules whose sizes add up to less than 2^32 (`AddsUp`).

`Reader` takes an image: its size, the fields of its headers as stored bytes, and for each section
what its stream inflates to, whether there is memory for its bytes (`room`) and whether there is
memory, for the output and for zlib, to inflate them (`stream.memory`): failing there, a section
keeps its compressed bytes and loading goes on. Its operators follow `elfio::load`: headers beyond
the end of the file stay zero, sections beyond it have no data, a stream that does not inflate
stays as it is, and the result of `load_sections` is ignored. `ModuleLoad` lays out what comes of
it, and crashes where `memcpy` or `read_uncompressed_size` would read address 0.

### Linker and Tables

State: the phase of loading, the relocations of the module and those already applied, what
they stored by address, the trampolines, and the references to RPLs. Relocations are applied
in any order within each of the passes the code makes (its own, then imports). Values are
scaled (`Word`, `Half`, `Field`) but wrap, carry and sign-extend as the real ones do; branches
are kept as the bits that are stored, so that `Lands` can ask where the processor would go.
Opcode bits and cache flushes are left out, symbols are the addresses they resolve to.

`Tables` has the sections of the file, with types, info, link and entries, and reads Linker's
relocations from them as `linkSection` and `getImportRelocationData` do: the first section whose
info is the index, entries whose symbol is in the table, imports told by their address, the RPL by
the symbol's section. Tables that cannot be read end in `Fatal`. What a module was built with
(`meant`) is one relocation for each entry of each relocation section of what is loaded (`Meant`,
without regard to the order and the ends of the loops), and `EveryRelocation` compares it with
what was applied when the module runs. It leaves out two cases, in which the code does pass
relocations over: a scan for imports that ends early (`ScanEnds`) and a section with the same info
in front of a relocation section (`Unshadowed`). `RelocationDone` does not, and is finding 5.

### Screen

State: which of the two buffers OSScreen draws to on each screen, `isBackBuffer`, the pixels of
both buffers, what is left to draw, the pen, and the glyph at hand with its outline and cells.
OSScreen is external: it starts on either buffer, the same one of both screens, and swaps them.
Coordinates are exact integers, in `1/Sub` of a pixel along the axes and `1/Steps` along a line;
the instance's glyphs have slopes that divide these, so no rounding is lost, and what floats round
away is not modelled. Colours are one channel. The last column the menu draws reaches one column
past the TV's buffer (853.3 * 1.5 > 1280) and appears in the first column of the next row:
`BothScreensAlike` leaves the first column out for that reason.

## 3. Runs

`Stopped` in each specification but Boot's and Screen's is a stutter in its final states, so TLC's
check for deadlock is on in every run but `screen`, where a menu that was drawn ends
(`Screen.cfg`): everything else that stops is an error.

| Run | Instance | States | What it shows |
|---|---|---|---|
| `pair` | `PairMenu.cfg` | 16456 | all nine properties of pairing, the promise and both liveness properties |
| `pair_cancel` | `PairMenuCancel.cfg` | - | finding 1 |
| `boot` | `Boot.cfg` | 72192 | what is launched was listed, and was the saved default; nothing happens that was not asked for |
| `boot_clear` | `BootClear.cfg` | - | finding 2 |
| `boot_long_name` | `BootLongName.cfg` | - | finding 3 |
| `linker` | `Linker.cfg` | 7172 | branches land, halves rebuild every address, RPLs are held, no relocation is lost |
| `linker_far` | `LinkerFar.cfg` | - | finding 4 |
| `linker_lost` | `LinkerLost.cfg` | - | finding 5 |
| `setup` | `Setup.cfg` | 395267 | memory, its owners, system calls, whole files and order of the modules; the promise |
| `setup_full` | `SetupFull.cfg` | - | finding 6 |
| `layout` | `Layout.cfg` | 86636 | sections are as built, contained and apart, heaps suffice, linkers' modules load |
| `screen` | `Screen.cfg` | 9352 | only hidden buffers are drawn to, both screens agree, glyphs are the right ones, closed and filled |

Bounds, and why they are enough:

* `Restart = 2` ticks: enough for the two clocks to differ and for each to lapse first; they
  saturate, so longer is the same.
* Three environments: one can vanish below, at or above the default. No long name in `boot`, one
  that is cut to the name of another environment in the run of finding 3. `Word = 8`: every index,
  the largest word and the negative ints occur.
* Two controllers, a GamePad and a Wii Remote (whose 1 is an X): a press on one while the other is
  held or silent. Each holds at most one button, among them all the branches of the menu; that two
  pressed at once take the first branch comes from pressing them on different pads.
* Folders of up to three of seven entries in every order: names in both cases, a hidden file, one
  of another kind and a directory. Blocks of 2 bytes, lines of 4, files of 1 to 5: reads of one and
  of several blocks, whole and short, a last block that is cut, buffers that are rounded up.
* The modules are of a size that fits the region many times, one that nearly fills it and one
  larger than the address of the loader (so that line 295 wraps and line 298 lets it pass); hidden
  files between them. Mapped memory of 48 holds any one of them after `UsedMax = 2` were taken.
* Linker: words of 8 bits, halves of 4, branch fields of 6 (4 for a short one): every word is
  rebuilt from halves, every branch target is tried, near and far, around both ends of the
  field, and two trampolines can be used up by three far branches.
* Layout: every module of up to two of 45 sections, and of three of ten: text and data,
  overlapping or not, in either order, aligned to less and to more than the block, of no
  alignment, below and above the ranges, unallocated, of types that are not copied, `.wut_load_bounds`
  small and large, so large that sums wrap alone or in pairs; in a heap near the front and one far back,
  where addresses wrap. The files:
  both classes, both byte orders, every section compressed or not, cut short at every byte, damaged in
  each field that the parser looks at, and without memory for a part.
* Tables: the relocations above in 32-bit and 64-bit files, with and without addends, and some
  twenty odd ones: an info that is also another section's index, symbols missing, reserved or of no
  section of imports, no symbol table, a scan that ends half way,
  a section without entries in front of the relocation section.
* Screen: a GamePad of 6 by 4 pixels and TVs of 1.5 and 2.25 times that; two frames, then the
  empty one; glyphs with holes, curves, no points on the curve, larger than their box, composed and
  composed of themselves; four kinds of character maps and three damaged fonts.

### Fairness

* `PairMenu`: `WF` of the main thread and of the callback (the system's scheduler runs both; the
  menu loop never blocks), of the clock, and of the pairing timeout, which CCR keeps (the code
  asks for 120 seconds). No fairness for the user: SYNC may never be pressed, or always.
* `SetupCard` (and `SetupRun`): `WF` of `CardMain` (`Main`), for `main` never waits, and of
  `Return`, for a setup module returns; one that does not keeps the console for itself, which is
  its own affair.
* The other specifications have no liveness properties.

## 4. Findings

Six runs expect a violation; each disagrees with a line of the repository quoted in
`PROJECT.json`.

1. `pair_cancel`: a SYNC press that arrives while the pairing is being started is stored as
   STATE_CANCEL and overwritten by STATE_PAIRING (PairUtils.cpp 177), although the screen says
   that SYNC exits. Pairing then goes on until its timeout or the next press.
2. `boot_clear`: "Clear Default" writes nothing if the environment of the default is missing
   from the card, for then `autobootIndex` is -1 already (main.cpp 593).
3. `boot_long_name`: of a name of 128 characters or more the first 127 are read back; an environment
   of that name is launched in its place, without the menu (main.cpp 78, 150), and if there is none
   the default never sticks.
4. `linker_far`: the trampoline of an import is free for the next import of the same module
   (ElfUtils.cpp 134-135, 168), so two far imports end in the same function.
5. `linker_lost`: the first entry without a symbol ends the scan for imports, also one of a section
   that is not loaded, and the result is ignored (ModuleDataFactory.cpp 173); and a section
   without entries that has the info of a relocation section and comes first is taken for it (266).
   Either way the module runs with relocations left.
6. `setup_full`: when mapped memory is used up, the heap goes into the static region, over the
   memory that Aroma keeps (main.cpp 286).

Not a run, for a property could only restate one branch: holding X opens the menu only if IOSU has
no environment path (main.cpp 135), while the repository's README.md names no such condition.

## 5. Proofs

All theorems hold for every value of the constants that satisfies the named assumptions of the
module (`RestartAssumption`, `BootAssumption`, `AnswersAssumption`, `RegionAssumption`,
`ListAssumption`, `FileAssumption`, `FolderAssumption`, `LayoutAssumption`, `ImagesAssumption`,
`BuiltAssumption`, `WordAssumption`, `AddressAssumption`, `RelocAssumption`, `PlaceAssumption`,
`TablesAssumption`, `ObjectsAssumption`, `MeantAssumption`, `OutlinesAssumption`,
`RasterAssumption`, `FramesAssumption`, `FontsAssumption` and `ScreensAssumption`); TLC evaluates
each of them in a run.

| Theorem | Says | Rests on |
|---|---|---|
| `PairMenuProofs!TypeCorrect`, `PairingIsOwned`, `PairingIsShown`, `SyncIsHeard`, `CancelIsQuiet` | the five invariants of PairMenu | `IInv` |
| `CancelIsKept` | `CancelKept`, an action property | `IInv` |
| `Refinement` | PairMenu implements PairPromise | `IInv` |
| `BootProofs!BootTypeCorrect`, `LaunchedIsListed` | invariants of Boot | `BootInv` |
| `SilentBootIsTheDefault` | `SilentBootIsDefault`, if no long name is cut to that of another environment (`CutsNameNone`; finding 3 otherwise) | `BootInv` |
| `DefaultAlwaysSticks` | `DefaultSticks`, if no name is too long (`LongNames = {}`; finding 3 otherwise) | `BootInv`, `DefaultFound` |
| `BootProofs!InputImplementsBoot` | BootInput implements Boot | its steps alone |
| `SilentWithButtons` (under the same condition), `ListedWithButtons` | Boot's theorems of the composition | these and `InputImplementsBoot` |
| `ActsOnlyWhenAsked` | `OnlyWhenAsked`, an action property | `AskedInv` |
| `SetupProofs!SetupTypeCorrect`, `HeapAlwaysFits`, `NothingEverOutlives`, `SyscallsAlwaysSet` | the invariants of SetupRun | `SetupInv` |
| `HeapStaysInRegion` | `HeapInRegion`, if no module needs more than lies below the loader | `SetupInv` |
| `RegionStaysKept` | `RegionKept`, if there is always mapped memory for a module (`Enough`) | `SetupInv` |
| `SetupKeepsPromise` | every step of SetupRun is one of SetupPromise or a stutter | `SetupInv` |
| `SetupProofs!CardImplementsRun`, `CardHeapFits`, `CardKeepsPromise` | SetupCard's steps are SetupRun's, so its theorems carry over | its steps; `SetupInv` |
| `FilesAreReadWhole` | `WholeFileRead`: what is parsed is the whole file, and unless `lseek` failed nothing is read past the buffer | `CardInv` |
| `AlwaysInNameOrder` | `RunInNameOrder`: the modules that ran are those of the folder, in order | `SetupInv`, `CardInv`, FolderProofs |
| `OwnedAlways` | `OwnedOnce`: what is alive has one owner through all moves | `OwnerInv`, `SetupInv` |
| `LayoutProofs!LayoutTypeCorrect`, `AlwaysContained`, `NothingIsOverwritten` | the memory safety of Layout, for what ends below 2^32 | `LayoutInv` |
| `HeapIsEnough`, `WellFormedIsLoaded` | `HeapSuffices`, `WellFormedLoads`: both sizes the code adds up are enough, if the sums stay below 2^32 | `RoomInv`, Counting |
| `LoadImplementsLayout`, `FilesContained`, `FilesOverwriteNothing`, `FilesHaveRoom`, `WellFormedFilesLoad` | the same, under the same conditions, from any file | the above |
| `FilesAsBuilt` | `SectionsAsBuilt`: what is copied is what the linker built, but for a section that there was no memory to inflate | `LoadInv` |
| `LinkerProofs!LinkerTypeCorrect`, `BranchesAlwaysLand`, `HalvesAlwaysRebuild`, `RplsAreHeld` | the invariants of Linker | `LinkInv` |
| `LinkerProofs!TablesBranchesLand`, `TablesHalvesRebuild` | the same from any tables | `TablesInv` |
| `NoneIsLost` | `EveryRelocation`: what is applied is what the entries of the relocation sections mean, but for finding 5 | `TablesInv`, `MeantAssumption` |
| `ScreenProofs!TypeCorrect` | `TypeOK`: outlines refer to points they have, what is drawn are colours | `IInv` |
| `NeverOnShow` | `ShownIsStill`, an action property: nothing is drawn on what a screen shows | `IInv` |
| `ScreensAlike` | `BothScreensAlike`: the TV shows what the GamePad shows | `IInv`, `OwnIsOwn` |
| `LoopsAlwaysClosed` | `LoopsClosed`, the first half of `Silhouette`: the lines of a glyph form closed loops | `IInv`, `Enclosed`, Counting |
| `EndsAtItsRight` | `EndsAtRight`: the measured width is the way the pen goes | `IInv` |
| `MappedGlyphs` | `GlyphsAsMapped`: the search and the formats of maps find the right glyph | `IInv`, `BestMaps` |

Why the invariants are needed:

* `IInv`: `PairingOwned` depends on what the callback may still do with a state it read.
  `MainSees` says what `mState` may be when the main thread is inside a case of its switch,
  `CallbackSees` that a decision of the callback outlives only the one store that does not look,
  `OneOwner` that the request is with the service or with the callback.
* `BootInv`: `DefaultSaved` ties the ghost to the file, `FromConfig` and `FromMenu` tie the path
  about to be launched to the file or the list, `CursorOnEntry` keeps the unsigned cursor in
  range as long as the list is not empty, which is where the wrap of `size() - 1` matters.
  `DefaultFound` adds that a file naming a listed environment always leads to its index.
* `AskedInv`: a save comes from a mark and a mark from a press in this menu; that an unmarked
  `autoBoot` is still `autobootIndex` is what keeps an untouched menu from saving.
* `SetupInv`: `PhaseFits` and `LentFits` say at which points there is a heap and what is lent;
  `OwnerProvides` (who keeps the region provides mapped memory) together with `Enough` excludes
  the fallback. `RegionHolds` is the arithmetic of lines 295 to 301: the start is aligned whatever
  wraps, and for a module that fits below the loader nothing does.
* `CardInv`: while a file is open main is at the file it belongs to, what was read is part of it,
  and the buffer is the size rounded up, which is no smaller (`RoomForFile`) unless `lseek` failed;
  then the end is never reached.
* `LayoutInv`: `BlocksFit` orders the blocks in the heap; `PlacedFits` says that a section that was
  not refused, and ends below 2^32, is exactly where its offset puts it. Lemma `CopyInPlace` shows
  that the code's two comparisons suffice for that although the sums compared, and the sizes of
  the blocks, are taken modulo 2^32.
* The order of modules needs no more of the state than `SetupInv` (which positions of the list ran)
  and `CardInv` (the list is DirList's), but much of the operators, in FolderProofs: `strcasecmp` is
  a strict order on names that differ in more than case; a sort that puts each element behind as
  many as come before it hits every place once (by the pigeonhole principle); two paths of one
  folder compare as their names; the loops of `RemoveDoubleSlashs` and `InternalLoadPath` keep what
  they should; and the filter is the extension. `FolderAssumption` is what a FAT file system
  guarantees: no two names of a folder that differ only in case.
* `OwnerInv` says where everything is at each point of main: `heapWrapper` holds what `Wrapper`
  computes from SetupRun's state, each block is in the optional of its name or, once `Passed`, in
  ModuleData, and every other object is empty. The lemmas compute the world that each constructor,
  move and destructor leaves, then that of whole functions.
* `RoomInv`: `ReachFits` bounds how far into the heap the blocks taken so far reach with their
  headers and gaps, and `BlocksSized` says that blocks are as large as the sums of their sections
  (`SumsExact`: under `AddsUp` no sum wraps).
  That a sum over some of the sections is no larger
  than one over more, and that a section and all it follows fit in it together, is by induction on
  the position: this is what `Counting` is for.
* `LoadInv`: the sections are those Reader makes of the image, and nothing is placed that has no
  data. `BuiltAssumption` says what it means that an image was made of some sections: its raw
  headers, read in the byte order of the file, describe them.
* `LinkInv`: `StoredInPlace` and `FixedHaveSlots` say that what was linked stays linked while later
  relocations write elsewhere and take other trampolines; `RefsListed` ties references to
  `usedRPls`. `SignedMod` and `DistanceLeads` are the arithmetic of branches: a displacement that is
  in reach survives being cut to its field and sign-extended. `Halves` is that of halves, by cases
  on bit 15 and on whether the carry leaves the word.
* `TablesInv`: each pass leaves nothing of its kind pending, and tables that cannot be read never
  get to the second. `WalkedEntries` and `ScannedImports` then say what the two loops find:
  linkSection every entry of each relocation section that is the first of its info, the scan, if it
  ends, every import of all of them. `NothingBetween` puts them together: each entry is
  applied by exactly the pass its symbol asks for. `MeantAssumption` only says what `meant` stands
  for.

* Screen's `IInv`: `Hidden` says that both screens swap together, that from `beginDraw` to `endDraw`
  the half drawn to is the one OSScreen works on, and that the pixel `beginDraw` looks for is
  nowhere else when it looks. `Printable` keeps what is left to draw and print a part of the menu,
  and the glyph at hand that of the next character, with its metrics. `Advancing` says how far a
  text aligned to the right has come. `Alike` names for each pixel of the GamePad a pixel of the
  TV that is its alone (`Own`): the scaled corner, or the one after it when the corner
  is still within what the pixel before covers. Only such a pixel is sure not to be painted over
  by a neighbour; the corner itself is not.
* That the types of Screen are kept is the memory safety of schrift, for every font in which what
  the code reads is there (`IsFont`). Each operator has a lemma: `csearch` keeps the code within its
  bounds and ends, by induction on its turns; the flags and points of a contour are read in full
  before they are used; `decode_contour`, components four deep and `tesselate_curve` only make lines
  between points there are; and a line is followed over as many edges as there are between its
  ends, which is never less than none, also when it ends on the edge of the image.
* `Enclosed` counts at each point how many more lines begin than end there, and the lemmas count
  lines and curves together (`Degree`): each contour of `decode_contour` adds as many beginnings as
  ends to every point (`Open`: what is drawn of a contour leads from its first point to the last
  one); moving and clipping points leaves the count alone; and a curve that is cut is replaced by
  lines from where it begins to where it ends (`Follows`). For that the cutting must come to an end:
  every turn takes a curve from the stack or adds three points, and points have room for no more
  than `MaxTurns` allows (`Roomy`). Nothing is said of an outline that ran out of room: it is
  not drawn.
* `FontsAssumption` takes the font for a well-formed TrueType font, the console's own, which
  holds the glyphs its maps give to what is printed. `ScreensAssumption` gives the sizes of the
  screens: the TV at least half as large again, and at most a part of a pixel too narrow.

Induction. The prover cannot use an induction theorem that takes an operator as its parameter.
`Counting` states induction with a set instead of a predicate, from the library's theorem that the
numbers are well founded, and derives that a function given by its first value and its step exists
(`Iteration`, `Loop`). That is why the loops of the code that the proofs are about are recursive
functions over a position here, not recursive operators.

Only model-checked: the liveness properties (`GamepadPairingEnds`, `WpadSyncRestarts`, the
liveness part of `PromiseKept`), which the prover does not reach; `LoopsFilled`, the other half of
`Silhouette`, for the rounding of the distances along a line to whole parts leaves covers that add
up only where, as in the instance, the parts are divisible by the extents of the lines (that a
line stays within the image of its glyph is part of this: the cells it marked would be missing);
and every violation. That no two relocations of a module patch the same place, and that no branch
is meant to go to a trampoline, is an assumption of Linker (`PlaceAssumption`).

## 6. Not modelled, and what could follow

* The kernel hook (`kernel.cpp`): six unconditional writes; ProcUI beyond waiting and leaving;
  logging; the templates of `OnLeavingScope.h`.
* What nothing calls: `CFile`, `drawBitmap`, `drawPNG`, formatting and wide strings of `StringTools`,
  subfolders, sizes and lookups of `DirList`, `elfio_dump`, and of elfio building, saving, notes,
  arrays and lookups of symbols by name or address; of schrift kerning, line metrics (called, but
  the result is not used) and mapped files.
* Floating-point rounding in schrift: the lines of an outline may end a rounding error away from
  each other, and a stain as dark as that error is possible. It takes a model of floats.
* A failed allocation but for `memalign` of a file, the heaps and their blocks, and in Reader the
  bytes of a section and what inflating them takes: of the parser's own small objects, and a
  `new`, which ends the program. A compressed section that claims exactly 2^32 - 1 bytes, to which
  the parser adds one. The entry point, an offset the loader does not check.
* The hazard at ModuleDataFactory.cpp 249 (an import in `.data`) has no property: nothing in the
  repository says what it should do.

What could follow: a Linker whose reusable trampolines are kept until the end, for which
`FarImportsLand` would hold; covers as exact fractions, for which all of `Silhouette` could be
proved; two buttons of one controller in the same frame.

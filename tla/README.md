# A TLA+ model of ScriptOS

ScriptOS is a small x86-64 kernel, booted by Limine, that sets up physical memory, page tables, a
heap and a text renderer, prints what it finds on the serial port and the screen, and then looks for
AHCI controllers and reads the first sector of every drive behind them. This directory models the
parts of it that carry state and decisions, checks them with TLC on small instances, and proves with
TLAPS, for every value of the constants, the central facts about the page frame allocator, the boot
memory map, the page tables, the AHCI driver, the scan of its ports and the renderer's writes.

Paths below are relative to the repository (`src/kernel.cpp` and so on; PROJECT.json has them with
the leading `src/` of the checkout).

## 1. The system

The kernel runs one thread on one processor, with no timer interrupt: `src/idt.cpp` installs
handlers for exceptions only, and each of them ends in `Panic`. What runs *beside* that thread is
hardware: the AHCI adapter, which reads and writes memory and registers on its own, the processor's
page walker with its translation cache, the UART that sends at its own pace, and exceptions, which
the processor may raise between any two steps. The interleavings in this project are interleavings
with those four.

    kmain ── serial, tables, checks of the boot loader's responses
      ├─ initialize_allocator ──> PageFrameAllocator (Bitmap)
      │                                   ▲      ▲      ▲
      ├─ initialize_paging ──> MapPage ───┘      │      │
      ├─ initialize_renderer ─> Heap ────────────┘      │
      ├─ print_... ──> kprintf ──> kstdout ──> UART, Renderer
      ├─ ACPI tables ──> print_mcfg (PCI) ──> MapPage   │
      └─ find_ahci (PCI) ─────> Ahci, find_ahci ────────┘ ──> the HBA (hardware)
    exceptions ──> handlers ──> Panic ──> kstdout

| component | source | state | operations | what is hard | correct when |
|---|---|---|---|---|---|
| page frame allocator, bitmap | `pfa.cpp`, `bitmap.cpp` | one bit per frame | allocate one, allocate a run, lock, free | fragmentation after any sequence of calls; a run at the end; null is also the address of frame 0; a count of 1 | runs of live grants are disjoint; no frame lost; the lowest run that fits, and null only if none |
| AHCI driver | `ahci.cpp`, `ahci/hba.h` | registers, command list, command tables | Initialize, ReadATA, ReadATAPI | races with the adapter; a read that is given up while its command is still out; errors halt the list; waits | what a true answer means; the adapter finds what was written for it; calls return |
| AHCI discovery | `kernel.cpp:372-460` | frames of each port | scan the ports | memory runs out; a drive that answers late writes into a freed page | ports do not share memory; nothing is lost; the scan ends |
| heap | `heap.cpp` | a doubly linked list of headers in memory | Allocate, Reallocate, Free, extension | splitting, merging, doubling, unsigned sizes | blocks are disjoint, off the headers, inside the heap's memory |
| paging | `paging.cpp` | four levels of tables in frames | MapPage, MapPages, GetMapping | frames run out half way; stale frames; entries written in two steps under a page walker; stale translations | the address space is what was asked for; tables are a tree of frames nobody else has |
| boot memory map | `kernel.cpp:102-146` | the bitmap's first contents | initialize_allocator | unaligned entries, holes | no frame in use is free |
| renderer | `renderer.cpp` | cursor, back buffer | print a character, new line, scroll | a screen that is no multiple of a line; overwriting | the screen shows the end of the text; writes stay in the buffer |
| printing | `format.cpp`, `print.cpp` | a parser, the buffer of a number | format | bounds of its buffer, returned count, arguments taken for the wrong item | the text and the count are what the items say |
| PCI and ACPI | `pci.cpp`, `acpi.cpp` | iterators over tables, pages mapped for them | enumerate | inclusive and exclusive ends, 8-bit wrap, structures over a page boundary | every function visited once; nothing read before it is mapped |
| interrupts and panic | `interrupt/*.cpp`, `idt.cpp`, `gdt.cpp` | descriptor tables | handle, print and halt | which vectors push an error code; a fault while panicking prints | the report names the cause; the message is out when the machine stops |
| serial ports | `serial.cpp` | the registers of a UART | Initialize, Write | a loop-back test that races the transmitter; polling without a limit | nothing written is lost or reordered |
| kernel entry | `kernel.cpp` | how far the boot is | kmain, error | absent responses, pages nobody mapped | a sound machine boots, any other halts and says why |
| device names | `device_map.cpp` | none | three lookups | "any interface" is a value like others | a name or null |
| spin lock, `stl.h`, `range.h`, `printmem.cpp`, `cxa.c` | | small | | unused so far, or without state | |

The hazards, each with its line and the properties that would catch it, are listed in PROJECT.json.

## 2. Modules

One convention holds throughout: memory is abstracted to what the properties tell apart. A frame
number stands for a physical address, a function for a bitmap, a record for a register block or a
table, and frame 0 is the null pointer, as it is in the code.

### Bitmap, PageFrameAllocator, FramePool

`Bitmap` has `Set`, `Fill` and the rounding of the size (`bitmap.cpp`); a bitmap is a function to
BOOLEAN, so the packing into bytes is left out except for the bits the constructor drops.

`PageFrameAllocator` is `pfa.cpp`. `CallPage` and `CallPages` enter the two allocation loops;
`PageLocked`, `PageFound`, `PageEnd` and `PagesLocked`, `PagesFirst`, `PagesMore`, `PagesFound`,
`PagesEnd` are one iteration of each by the branch it takes, with the code's locals `found` and
`address`. `FreeGrant` is the caller's `FreePage` or `FreePages`. `held` and `reserved` are history:
what callers own and what the boot code locked. The reserved frames are any set that contains
frame 0, because `initialize_allocator` ends by locking the low 0x100 frames whatever the memory
map says (`kernel.cpp:142`).

`FramePool` is the abstract allocator: a request is answered by the lowest run of free frames that
is long enough, in one step, or refused when there is none. `Pool` in `PageFrameAllocator` is the
refinement mapping: `free` is the set of clear bits and `pending` the number of frames the loop is
after. That number is `Need`, not `count`: the loop of `AllocatePhysicalPages` compares the length
with `count` only from the second bit of a run on (`pfa.cpp:58-65`), so a count of 1 takes two
frames. A caller that frees the one frame it knows of leaves the other locked for ever; `Leftover`
and `GrantSize` say so exactly.

### BootMemory

`BootMemory` is `initialize_allocator`: one pass over the bootloader's memory map for the end of
memory and its longest region (`Measure`), the bitmap cleared there, a second pass that fills it
(`FillEntry`), the low frames, the frames for the bitmap and the allocator object, and the object
itself. Addresses are bytes, because the code computes with both units: it locks `page_count / 8 + 1`
*frames* and puts the object `memory_end / 8` *bytes* behind the bitmap, which is the last of these
frames (`OwnMemoryLocked`). `HandsOver` instantiates `PageFrameAllocator` and says that the outcome
satisfies its `Init`.

### Ahci, AhciClient, FindAhci

`Ahci` is the driver and the adapter. The driver is at a program counter and takes one register
access or one structure in memory per step; a polling loop takes an iteration per two reads. The
adapter's actions (`Hba...`) are external: its two engines follow their enable bits, it takes any
command of PxCI, transfers, completes, or fails with a task file error that halts the list until
`ST` is cleared. A command's data is reduced to which drive, address and how many sectors arrived in
which buffer. `PRDTableLength`, `CountAsked` and `TablesReached` are the arithmetic of `ReadATA`: one
PRD per sixteen sectors; the *count of the command* is what is left of `sector_count` after the
entries were filled (`ahci.cpp:185-210`); tables lie 256 bytes apart.

`AhciClient` calls it in any order: initialise again, read into any buffer, with commands of reads
that were given up still outstanding.

`FindAhci` is the port loop of `find_ahci` over that driver. Each port has its own command area in both
clients (`IsOwn`, as `kernel.cpp:412-415` allocates one per port). `AllocateArea` and `AllocateBuffer` are
the allocation *and* the `MapPages` or `MapPage` behind it, which takes frames for page tables from the same
pool (`Map`, `tableFrames`), may fail half way, and is not looked at. Memory that could not be mapped is
found when it is written to: `AreaFaults` in `Initialize` (each page of the area before it is filled,
`AreaPagesAt`), `BufferFaults` in the `Fill` of the buffer (`ZeroBuffer`); the scan ends there, and what
comes of the fault is in `Kernel`. The page of the first sector is freed after it was printed, and the
default case leaves the loop body before `FreePage` (`kernel.cpp:451-452`). Null results are used without a
check, as in the code.

### Mapping, CommandArea

`Mapping` is what the allocator and `MapPages` look like from outside, for the modules in which frames of
one pool become heap, command areas, buffers and page tables: `FindAhci` and `Kernel`. A grant is the lowest
run, as `FramePool` promises (`LowestRun`, `Granted`). A table is named by its level and the part of the
address space it is for (`TablesFor`), as it is labelled in the proofs of `Paging`. `MapPages` makes those a
run of pages still needs page by page and from the root down (`Sooner`), each with the lowest free frame,
until a frame cannot be had; nothing behind the first page that failed is mapped (`PagesMapped`), and the
tables and frames it has taken by then stay taken. `AllocateMapped` is an allocation with the mapping of what
it returned, also when that is null. `CommandArea` says which pages of its area `ahci::Initialize` writes.

### Heap, HeapBoot, HeapClient

`Heap` has the list as a function from addresses to headers with `left`, `right`, `free`, `size`, in
bytes and with unsigned wrap-around. `Allocate` is two kinds of step: an extension (`Extend`), after
which the search starts again as the code's loop does, or first fit, which takes the block whole or
splits it. `Reallocate` copies and frees in the same step as its inner `Allocate` returns. The frames
come from anywhere the allocator has memory, so that a new region may or may not follow the last one
and may lie before it.

`HeapBoot` makes the calls the kernel makes (`kernel.cpp:148-170`, `521`): the back buffer and the
`Renderer`. `HeapClient` makes any calls `memory.h` allows.

### Paging

`Paging` is `MapPages` and `MapPage` over a tree of tables in frames, one write to a table per step:
`Create` clears a new frame and makes the entry present and writable, and only `Link` gives it its
address (`paging.cpp:163-174`); `WriteFlags` and `WriteAddress` are the same two steps for a page.
`NextLevel` goes on with the physical address of a table that was there and `Link` with the virtual
address of one that was not, as `GetOrCreateNextLevel` returns them. A frame that comes from the
allocator contains entries that look present. `MmuWalk` is the processor, which may translate any
watched address between any two steps and remembers what it found; `MmuEvict` forgets. `TakeFrame`
and `GiveFrame` are the rest of the kernel.

### Renderer, Terminal

`Renderer` is `renderer.cpp`: the back buffer as rows of pixels with the rows of memory behind it,
the cursor in pixels, and one action per branch of `NextChar`, each with the `NewLine` and `Shift` it
runs into. A pixel is the set of characters whose glyphs were drawn into it since it was cleared,
because drawing ORs colours in: `m_Bitmask` is `(1u << bpp) - 1u`, which for 32 bits per pixel is
undefined and on x86 gives 0, so that nothing is masked off first (`FullMask`). `Terminal` is the
abstract screen, a grid of cells with a cursor that wraps and scrolls; `Screen` maps the top left
pixel of each cell to it.

### Format, Printf

`Format` is `vfkprintf`, one iteration of its loop per step, named after the state and the case of the
switch it runs. `print_int` is computed as the code does, digit by digit into its buffer
(`NumberBuffer`), so that how much of the buffer a number uses (`BufferUsed`), what comes out and what
is counted are three different things. `Printf` is the abstract specification: a format is a list of
items, and each item is shown in one step. Its `Shown` and `Count` follow what the code does and
not the C standard: zeros are padded before the sign, only one flag is looked at, a string ignores
its width, a precision of 0 is none, a left-justified number counts one too many. `broken` is the
overrun of the buffer, after which anything may follow.

### Kernel and the modules it composes

`Kernel` is `kmain` from its entry to the halt, one call or one turn of a loop per step:
`SerialSetup`, `SerialTest`, `LoadTables`, `CheckResponse` (with `error()` and its `int 69h`),
`InitializeMemory` with the stack page, the regions of the heap (`GrowHeap`, one for `InitializeHeap` and
one for each extension until the back buffer fits), the renderer, the printing of system information, the
ACPI tables, `print_mcfg`, `find_ahci` with the ports of every controller, and `Flush`. All of these take
their frames from one pool, `memory.free`. A *machine* is a record of everything the kernel finds: which boot
loader responses are absent, the memory map, the ACPI tables by address and length, the PCI functions with
the drives behind a controller's ports and the engines that never stop, the frames that are free, and how
many frames each region of the heap asks for (`heap`; that these requests are the ones the heap makes is in
`HeapBoot`).

Where memory runs out `Kernel` follows the code: the first region of the heap refused or mapped in part
leaves a heap at address 0 or one that ends in unmapped pages (`LoseHeap`, not followed further), one that
cannot be mapped at all faults at its header (`HeapFaults`), an extension refused is asked for for ever
(`RetryForEver`, `heap.cpp:116`). Of a port `Kernel` has the frames, the mappings and the accesses:
`SkipPort`, `InitializePort`, `ReadPort` and `PortFaults`. `InitializePort` has no step for a port in `stuck`,
at which `StopCommand` waits without a limit (`ahci.cpp:19-24`), so such a boot stands still there; what the
driver and the drive do besides is `FindAhci`'s. It composes

* `Serial`: `serial.cpp` and the UART of COM1 with its divisor latch, transmitter and loop-back
  mode. `kstdout` writes a piece to the serial port when the transmitter is empty and then to the
  renderer, in two steps with anything in between;
* `Interrupts`: the entries of GDT and IDT, which gates can be passed, what the processor pushes for
  each vector, and what each handler makes of these words (a handler that took an error code where
  none is pushed would show a shifted frame). `Raise` is an exception at any point of `Kernel`, also
  within `Panic`; without tables or stack the machine resets;
* `Acpi`: offsets, lengths and pages of RSDP, RSDT, XSDT and MCFG;
* `PciWalk`: the iterables of `pci.cpp` as four nested loops, one turn per step, with the page each
  `operator*` maps. Bus numbers are eight bits wide and wrap;
* `Mapping`: what callers of the allocator and of `MapPage` see of them. The results are ignored by every
  caller, so a call without a frame for a table leaves the page unmapped and the next access faults;
* `DeviceMap`: which classes, vendors and devices have a name.

### Proof modules and MC modules

`PageFrameAllocator_proofs`, `BootMemory_proofs`, `HeapBoot_proofs`, `Paging_proofs`, `Ahci_proofs`,
`Printing_proofs` and `Kernel_proofs` hold the theorems, and `Numbers_proofs` the lemmas about least
elements, induction and quotients. `Ahci_proofs` is about the driver and the scan, which share types and
lemmas; the driver's own specification is `ClientSpec`, the scan's `Spec`. `Printing_proofs` is about the
renderer, whose specification is `Spec`, and `vfkprintf`, whose own is `FormatSpec`. `MCPageFrameAllocator`,
`MCBootMemory`, `MCAhciClient`, `MCFindAhci`, `MCHeapBoot`, `MCHeapClient`, `MCPaging`, `MCRenderer`,
`MCFormat` and `MCKernel` give constants their values.

## 3. Runs

| run | specification | properties | shows |
|---|---|---|---|
| `frames` | PageFrameAllocator, FairSpec | `IInv`, `Exclusive`, `PoolSpec`, `CallReturns` | the inductive invariant, disjoint grants, the refinement of FramePool, every call returns |
| `boot_memory` | BootMemory, Spec | `OwnMemoryLocked`, `InUseStaysLocked`, `UsableIsFree`, `HandsOver` | the allocator's own memory and everything in use is locked, whole frames of aligned entries at least; usable memory is free; the outcome is an initial state of PageFrameAllocator |
| `ahci` | AhciClient, ClientSpec | `AInv`, `CommandsIntact`, `TrueMeansData`, `TrueMeansOver`, `BasesMoveStopped` | the inductive invariant of driver and adapter; commands in flight stay intact; a true answer means the data is there and the command is over, except where the code allows otherwise; bases move only while the engines are stopped |
| `ahci_returns` | AhciClient, FairClientSpec | `DriverReturns` | reads and initialisations return |
| `find_ahci` | FindAhci, FairSpec | `StrayOnlyAfterGivingUp`, `AreasApart`, `NothingLost`, `ScanTerminates` | a command can write to a page find_ahci has freed only if that port's read was given up, and only then another port's data is printed; areas, buffer, page tables and free frames are disjoint while memory lasts; at every point each frame is free, in an area, in hand, a page table or leaked by the default case; the scan ends |
| `find_ahci_last_port` | FindAhci, Spec | `EveryDriveFound` | *violated:* a drive behind port NP is never found |
| `heap_boot` | HeapBoot, Spec | `ListSound`, `BlocksApart`, `InsideRegions`, `ExtensionsSuffice` | the kernel's own two blocks are sound for every size of the back buffer and every placement of regions |
| `heap_split` | HeapClient, Spec | `BlocksApart` | *violated:* two callers get the same memory |
| `renderer` | Renderer, Spec | `BehindUntouched`, `CellsWhole`, `TerminalSpec` | the renderer implements Terminal; every pixel of a cell shows the cell; nothing behind the back buffer is written |
| `format` | Format, FormatSpec | `CountTrue`, `OnlyWidthOverruns`, `PrintfSteps`, `ShownToTheEnd` | vfkprintf implements Printf and comes to the end of every format; the count misses no character and is exact as long as no number is left-justified; only a right-justified width overruns the buffer |
| `kernel` | Kernel, Spec | `NothingLost`, `SoundMachineBoots`, `MissingIsReported`, `ReportsCause`, `ShownWhenHalted`, `VisitsExactly`, `Halts` | a machine that has what the kernel asks for, memory for everything it maps included, boots without a fault; what is absent is reported and never used; reports name their cause and are out when the machine halts; both PCI walks visit the same functions, once; every boot halts whose heap gets its memory, whose engines stop and whose UART sends |
| `paging` | Paging, Spec | `TablesApart`, `MapsExactly`, `FailureIsPrefix`, `StaleOnlyIfTorn` | every address translates to what was last asked for; tables own their frames; a failed call has mapped a prefix; no stale translation but those read in the window of `Link` |

The type invariant of a module is a conjunct of one of the properties of its runs.

### Bounds, and why they are enough

* `frames`: nine frames, of which the bitmap keeps eight (so the rounding is in it), counts 1 and
  3 (a run of one takes two frames, so calls take one, two and three), all 128 reserved patterns,
  any order of calls. The loops look at a bit at a time and carry only `found` and `address`; runs of
  one to three with gaps on either side, runs at the very end and pools with no run long enough all
  occur. The theorems lift the bound.
* `boot_memory`: pages of eight bytes, three layouts of five regions, each usable, reclaimable,
  reserved or unlisted, so that the longest region is first, last or in the middle and of every type;
  memory ends at 8 to 31 frames, whether they fill the bitmap's last byte or not; a reserved entry
  that is not aligned, over whatever is not memory.
* `ahci`: one port (ports share nothing in the driver), two usable slots, so that a second command
  is placed beside one that was given up and a third finds no slot; an aligned and a misaligned area;
  two buffers; 1 and 17 sectors, one PRD and two; `PollLimit` 1 where the code has 1000000, which
  makes every time-out possible and one more iteration as well.
* `ahci_returns` has one sector: the length of a table does not decide whether a loop ends.
* `find_ahci`: three ports of which the loop reaches two, 44 combinations of devices and
  availability, areas of two frames for 16, tables for four pages. The free memory holds both ports with
  all their tables; an area whose second page lacks a table; an area and no page for a buffer; and two frames
  apart, which hold no area. `PollLimit` 0: a read either succeeds at once or is given up; the polling itself is in
  `ahci`.
* `heap_boot`: headers of 2 bytes and pages of 8 keep what matters of 25 and 4096 (a header is
  smaller than a page, sizes are not multiples of one another); back buffers from 1 to 36 bytes reach
  no extension, one and two, and twelve pages of memory make the allocator refuse in some of them.
* `heap_split`: three blocks of up to a page, the smallest case where a remainder is split again.
* `paging`: four levels as in the code, with two entries a table instead of 512; two ranges of two
  pages, one that crosses a last-level table and one that crosses at the root, so that calls share
  all, some or one of their tables; five free frames, so that a call runs out at every level, on its
  first page and on its second; unmapping, read-only and writable pages; one watched address, which
  one of the ranges maps and the other does not.
* `renderer`: characters of 2x2 pixels in lines of 3 rows (8x8 and 12 in the code), a screen of 5x7: the
  last column is cut, the last line is cut inside its glyphs, and there is a line in the middle; two
  characters, the x86 mask. Lines of text wrap, scroll and are overwritten after a carriage return in
  every combination.

* `format`: words of 8 bits for 64, a buffer of 10 for 128 (eight binary digits, a sign and a prefix do
  not fill either; base 8 is the longest there is); values 0, 7, 127, 128 and 255, so that the most
  negative number and both ends of each base occur; widths absent, 3, 10, 10 by `*`, and 11, one more than the
  buffer; every flag and specifier alone, and every kind of directive between two others, because
  what can go wrong between items is how many arguments and characters one leaves for the next.
* `kernel`: one sound machine and seventy-nine that differ from it in one thing, or in two where two
  meet. Bus numbers have two bits for eight, so that walks wrap; two devices a bus and two functions a
  device; command areas of three pages, a heap of two pages and an extension of two. The sound machine has
  27 frames and needs them all; every smaller number is tried, so that memory runs out at each allocation and
  at each table, seventeen amounts more without an extension of the heap, and memory with holes. Two
  machines have an engine that never stops. Every
  vector is raised with several error codes at every step of one boot. `FifoSize` 1 is a UART without
  its FIFO, the smallest that can lose a byte; `StackFrames` 3 exceptions nest.

Deadlock is checked everywhere except in `boot_memory`, `find_ahci`, `heap_boot`, `format` and
`kernel`, whose programs end.

### Fairness

The kernel has one thread that nothing preempts: weak fairness of the union of its steps says that
it keeps running, which is all that `CallReturns` and a read of the driver need. `ahci_returns` and
`find_ahci` add that an engine of the adapter whose enable bit was cleared stops and one whose bit was
set starts to receive (`HbaFair`); `StopCommand` waits for that without a limit
(`ahci.cpp:19-24`). Without it `Initialize` need not return: the comment at `ahci.cpp:20` plans a
time-out that is not written yet. `Kernel` assumes in the same way that the UART sends what it holds
(`WF_vars(UartShift)`), because the poll of `serial.cpp:50` has no limit, and of exceptions nothing:
they may happen or not. `Halts` names the two other waits without a limit as conditions: `HeapFits`, that
the heap's regions and the tables they take are in one run of free frames, because `Allocate` retries for
ever (`heap.cpp:116`), and `EnginesStop` (`ahci.cpp:19-24`). Without them it is false of the code, and of the model. Nothing is assumed of the drives: they may stay busy, fail, or never
answer.

## 4. Proofs

### Page frames

`PageFrameAllocator_proofs` proves, for every `PageCount >= 8` (`PageCountAssumption`; below that the
bitmap has no bits and the allocator hands out nothing) and every set of positive counts
(`RequestsAssumption`):

* `Invariance`: `Spec => []IInv`
* `MutualExclusion`: no two callers hold the same frame, none holds a reserved one
* `NullIsFailure`: frame 0 is never handed out
* `Refinement`: `Spec => PoolSpec`, that is, the allocator implements `FramePool`

`Exclusive` alone is not inductive: that a run just found is nobody's needs `Accounting` (a bit is
set exactly for what is reserved or held) and `ScanInv` (every bit between `address` and `index` is
clear). `ScanInv` also says that the run is *maximal* to the left and that no long enough run lies
before it, without which neither "the lowest run" nor "refused only if there is none" follows.
`GrantSize` pins down the one-page case, so that freeing keeps the books. `TypeOK`, `0 \in reserved`
and these four make `IInv`.

The argument has one lemma per action: walking over a bit changes only `ScanInv` (`PageLockedIInv`,
`PagesWalkIInv`, with `BooksUntouched` for the rest), taking a run goes through `TakeRun`, which is
about the bitmap and the grants and not about which loop found the run, and freeing through
`FreeFact` and `LeftoverFact`. For the refinement, `GrantStep`, `RefuseStep` and `GiveStep` show that
the last step of a loop is a `Grant` or a `Refuse` of the pool and a free a `Give`; all other steps
stutter or are a `Request`.

### The boot memory map

`BootMemory_proofs` proves, for every page size that is a multiple of 8, every number of low frames,
every allocator object of at most an eighth of a page, and every memory map that `IsMap` admits (pages
are whole for what is memory, and a usable entry overlaps no other; reserved ranges may begin and end
anywhere and overlap each other):

* `BootInvariance`: `Spec => []BootInv`
* `OwnMemoryStaysLocked`, `InUseIsLocked`, `UsableFramesAreFree`, `AllocatorIsHandedOver`: the run's
  properties `OwnMemoryLocked`, `InUseStaysLocked`, `UsableIsFree` and `HandsOver`

The properties speak of the end of the function only. `BootInv` is what each loop turn keeps: the
frames of the entries the second loop has passed (`Locked`, `Free`) have what it gave them, except for
what `FillLow` and `FillOwn` lock behind it. That a later entry does not undo an earlier one is
`FramesApart`: ranges of bytes that do not overlap have no frame in common after both base and length
have been rounded down, which follows from `QuotientSum`. `OwnMemory` is the arithmetic of the two
units: an eighth of `c` pages is `c \div 8` pages and at most seven eighths of another
(`EighthOfPages`), and what is left of that holds the object.

`HandsOver` says that the bitmap is an initial state of `PageFrameAllocator`. Its `HandInv` is beside
`BootInv`: `Ends`, that `memory_end` is the largest end among the entries the first loop has passed, so
that at the end the map has as many pages as `page_count`, and `LowLocked`, that `FillLow` has locked
frame 0 and nothing frees it later. The assumption names the size of memory for that (`EndsAt`:
`PageCounts` has the end of every map of `Maps`, and it is at least eight pages).

### The page tables

`Paging_proofs` proves, for any number of levels, entries of a table, frames, calls and addresses, and
with the rest of the kernel taking and returning frames between the calls:

* `PagingInvariance`: `Spec => []PagesInv`
* `TablesStayApart`, `MapsAreExact`, `FailuresMapPrefix`, `StaleMeansTorn`: the run's four properties

`PagingAssumption` says that the arguments of a call stay in the address space, that its physical range
ends below the higher half map (`IsPhysical` could not tell them apart otherwise), and two laws of `^`,
for which the provers have none.

The first two speak of what a reader of the tables computes, by recursion over the levels. The
invariant has witnesses instead: `T`, the set of tables of each level, and `R`, the part of the address
space each table is for (its *region*, `v \div Radix^l`). `Tree` says that the tables of a level are
where the present entries of the level above lead, one entry each, and `Labelled` that entry `x` of a
table with region `r` leads to the table with region `Radix * r + x`, so that no two tables of a level
have the same. `Right` is then a statement about one table: the one of the last level with the page's
region says of the page what was last asked for it, and where there is none, nothing was. All this holds
of memory as `Linked` has it, with the address that `Link` is about to write, because between
`Create` and `Link` an entry is present and leads nowhere; and not of the page whose flags `WriteFlags`
has written and whose address is still missing. `Walking` says that `MapPage` is at the table of its level
with the page's region, reached by its physical address or its virtual one.

`Create` is the step with something to show: `Grow`, `GrowLabelled` and `GrowRight` add a clear table to
the tree. It is new because the allocator had the frame (`TablesOwn`), and it translates nothing because it
is clear, which is what the frame's former owner decided if it were not. `LastLevel` says that a write to a
last table changes one page (`OnePage`: region and index determine it). From the invariant,
`LinksAre` and `WalkIs` show that the recursive functions of `TablesApart` and `Translate` are the
tables of `T` and the entries in them: each is the only function that satisfies its recursion, by a descent
from the root (`Descend`).

`StaleMeansTorn` is `TlbInv` on top of that: what the processor remembers was asked for and still is,
but for what it found in the window between `Create` and `Link` and for the page `MapPage` is writing, which
`FlushPage` drops. The case with work in it is that window (`LinkWindow`). There the processor reads
memory without the address that `Link` will write, and a page that translates at the end of `Link` does
so without that entry (`Climb`: all the entries above a present one are present), because the table behind
it is clear. So every such page translates as before, and the flush of one page is enough.

`FailuresMapPrefix` counts. `PrefixInv` says that the pages before the one the call is at are mapped as
it asked, and that the frames that were free when it began are at most those free now, one for each
level of the pages left behind, and those made for this page; so a call that finds none free had fewer than
`(Levels - 1) * (i + 1)`. `MapsExactly` then turns what was asked for into what `GetMapping` returns.

### The AHCI driver

`Ahci_proofs` proves, for any number of ports, slots, areas, buffers and drives, and for any order of
calls (`AhciClient`):

* `EngineInvariance`: `ClientSpec => []EngineInv`, a running command list has its FIS reception on, no two ports
  share an area, a stopped list has no commands
* `MovesWhenStopped`: `ClientSpec => BasesMoveStopped`
* `AInvariance`, `CommandsAreIntact`, `ReadsAreTrue`: `AInv`, `CommandsIntact` and `TrueMeansData`, if
  no read has more than 128 sectors (`Sectors \subseteq 1 .. 128`)
* `ReadsAreOver`: `TrueMeansOver`, for reads of any length

The assumption is needed because of the code: from 129 sectors on the PRD table is longer than the 256
bytes of a command table and `WriteTable` writes over the next slot's, with which `CommandsIntact`
is false. `CommandsIntact` is not inductive alone. The adapter fetches a header and a table at some
time after the driver has written them, and the driver writes others in between: `CommandInv` says for
each program counter of a read which slot is being prepared, that it is none the adapter holds,
how much of its header and table has been written, and what the buffer of a completed command
contains. `EngineInv` provides that the areas of two ports are apart and that the list is empty when
its base moves. The proof has a lemma per action of driver and adapter.

`TrueMeansOver` needs no header and no table, so `ReadsAreOver` has an invariant of its own, `OverInv`,
and with it no limit on the length of a read: while a read is under way, no command but its own was
issued for its buffer (`OwnCommandOnly`), unless the buffer is one a read that was given up may still
write to.

### The scan of the ports

The second part of `Ahci_proofs` proves, for any number of ports, frames and devices, any size of a command area and
any memory that is free to begin with:

* `ScanInvariance`: `Spec => []FindInv`
* `AreasStayApart`, `NothingIsLost`, `StraysWereGivenUp`: the run's properties `AreasApart`,
  `NothingLost` and `StrayOnlyAfterGivingUp`

`AreasApart` alone is not inductive: that the run just granted is in no other area needs that every
frame that was free is somewhere, and in one place. `Shares` says so of the five places a frame can
be in (free, leaked by the default case, in an area, in hand as the page of the first sector, or holding a
page table that mapping one of these took), and that the areas of the ports ahead are still empty; it holds
in every state, also behind a call of `MapPages` that ran out of frames half way. `Disjoint` says that they
are disjoint, while memory lasts: after a failed allocation the code uses a run at frame 0 that was not
granted. `NothingLost` is both together. `Calls` ties the scan to the driver, so that `FindTypeOK` follows from the lemmas about
the driver's types; steps of driver and adapter move no frame (`HardwareKeeps`).

`StraysWereGivenUp` follows from `StrayInv`. `InCall` and `Commands` say that the adapter holds at most
one command of the port the scan is at, that of the read under way, and of a port the scan has left only
one whose read was given up. `Sector` says the same of data: what is in the page of the first sector comes
from the port the scan is at or from a read that was given up. The page may be one that was freed and
granted again, so that is not a fact about one turn of the loop: a drive that was given up earlier may
write at any step.

### The heap

`HeapBoot_proofs` proves, for any sizes of header, page, first region, back buffer and renderer, any
memory behind the page frame allocator and any placement of what it grants:

* `ListStaysSound`, `BlocksStayApart`, `BlocksStayInside`, `ExtensionsAreEnough`: the four properties of
  `heap_boot`

Sizes are those of the code's kind: a header is smaller than a page, the first region is a number of pages
and so is the range of a `usize` (doubling stays whole also where it wraps), and the renderer is at least
as large as a header and fits a page together with one (`HeapAssumption`, `HeapBootAssumption`). The last
is what the properties hang on, since `HeapClient` shows that they fail for other calls.

`BootInv` follows the calls of the kernel: no block, the back buffer, both. In the first two it says where
every header is (`Starts`, and one behind the back buffer where its region was cut), that every other region
is one free block of the size the search believes it has (`Vacant`, `Room`), and what is wrong behind the
back buffer: the header there claims all of the region but one header. After the second it says only what the
properties do, and that each block has its header (`Owned`), because nothing is allocated then. `Links`
is the list: neighbours say the same of each other, no header is its own neighbour, and one is the end.

The lemmas `Taking`, `Splitting` and `Extending` are about the list alone. `EndsInside` says that the last
free block of a region never ends at the region's end while nothing fits, since a region is a page longer
than its block says: so what is appended is never merged, wherever the allocator finds it. `FirstBlock` puts
the back buffer at the start of a region. `SecondFits` is the point: the renderer ends inside its region
even behind the back buffer, where the size of what is left is too large by all of the buffer, because
`Room` is a page short of the region and the renderer is less than a page.

### The renderer

The first part of `Printing_proofs` proves, for every screen at least one line high (`RendererAssumption`; no display mode
is lower than twelve pixels), every size of glyph and line, and both masks:

* `StaysInBuffer`, `CellsStayWhole`: `BehindUntouched` and `CellsWhole`
* `IsTerminal`: `Spec => TerminalSpec`, that is, the renderer implements `Terminal`

`BehindUntouched` is inductive as it stands: `WithCharStays` for drawing, `ShiftedStays` for scrolling,
`NewLineStays` over both. `CellsWhole` is not: it lets a glyph be cut where the screen ends inside its
line, and drawing over a line that was cut would leave half of two characters. `PixelInv` adds that
nothing is cut before the cursor is on the last line, where it stays (`AtBottom`). With that, each
character of the refinement is one step of the terminal: drawing changes the pixels of one cell, a shift
moves every cell up by one line, also the last one, which is not a whole line.

### Formatted printing

The second part of `Printing_proofs` proves, for every size of a word, every buffer that has room for a word
in binary and two characters more (`SizesAssumption`; 64 and 128 in the code), and every set of formats:

* `CountIsTrue`: `CountTrue`, from the exact count that `Counted` keeps
* `OverrunsAreWide`: `OnlyWidthOverruns`, with the type invariant and the locals that have no value at first
* `ShowsItsItems`: `PrintfSteps`, the refinement of `Printf`

`FormatsAssumption` says what a format is: any sequence of characters that are copied and of directives with
at most a flag, a width and a precision, of any length. Any specifier may follow but one that the parser would
take for a part of what is before it, and the last directive may break off anywhere. Of an argument only its
type is assumed, of a width nothing but that it is a number.

The model's call is a list of items, the parser sees characters. `Layout` connects them: an item begins where
the ones before it end (`Start`), its characters and arguments are found there, and no item is empty
(`StartsGrow`). It rests on `Sums`, what a recursion that puts pieces together gives, which `SumsExist` and
`SumsFind` show by `Induction`.

`CountTrue` and `OnlyWidthOverruns` say nothing of where the parser is. The invariant does: `FormatInv(i)` holds
for the `i` of the item that is being read. Either the parser is between two items (`BetweenItems`), or it is
in one of four places of item `i + 1`, with the flag, the width and the precision as far as they have been read
(`InFlags`, `InWidth`, `InPrecision`, `InSpecifier`). With that `SpecifierHere` knows at the specifier that
flag and width are the item's; `NextItem` and `NextOther` are the arithmetic of the count; `NumberKeeps` needs
in addition that a number has at most as many digits as a word has bits (`DigitsShort`: each division by
a base of at least two halves a power of two, `PowersAre`).

The refinement maps `done` to `Done`, the items whose text lies before the parser. `DoneIs` ties it to the invariant:
it is `i`, or `i + 1` when the format breaks off within item `i + 1` and all its characters have been read.
So each step is of one of three kinds:

* `InsideStep`: a step that reads is none of `Printf`'s, or the one that shows, as nothing, the item that breaks off;
* `ShowStep`, `SpecifierStep`: a copied character or a specifier takes the parser to the next item, and what it
  gives to the stream is the item's `Shown`. `CountsAgree` says that `%n` stores `Printf`'s count;
* a number whose buffer overruns is `Break`, exactly when `Overruns` says so (`NumberMaps`).

What is left is that a number looks the same. `print_int` divides by the base until nothing is left, `Printf` takes
the smallest power of the base above the number and cuts out the digit at each place. `DigitsAre` shows that the
k-th digit the loop writes is the one at place k, by induction over how many digits there are (`SizeExists`:
no more than `WordBits`, since no power is smaller than the one of two, `TwoIsLeast`), and `NumeralIs` that
`Printf`'s are these backwards. `FieldIs` adds sign, prefix and padding, which the code puts behind the digits and
turns round with them (`MirroredJoin`); `MagnitudeIs` is the negation of a word, the least number included.

### The kernel

`Kernel_proofs` proves, for any machines, any size of the FIFO and any numbers of buses, devices and
functions:

* `SerialLosesNothing`: `NothingLost`
* `EveryExceptionIsReported`: `ReportsCause`
* `MessagesAreShown`: `ShownWhenHalted`
* `MissingIsNamed`: `MissingIsReported`
* `EveryFunctionIsVisited`: `VisitsExactly`
* `SoundMachinesBoot`: `SoundMachineBoots`

Two assumptions are about the world. The stack has room for an exception of the kernel and one of the
processor (`StackAssumption`; 64 KiB from the boot loader against some hundred bytes a handler). What
`MachineAssumption` says of a machine is what the boot loader's and the firmware's formats say: what the
processor raises by itself has a vector that exists and an error code of its vector's form; the boot
loader withholds only what was requested; the root table is as long as the list of its tables, the MCFG
table as long as its entries; bus numbers are those of the walk; and the configuration space answers for
finitely many functions, each with something other than all ones. Whether any of it can be read is not
assumed: a structure beyond the page that is mapped for it, or too few frames, is part of the model.

`NothingLost` speaks of the port once its test is over, so its invariant starts before: `SetupState` says
after each of the nine writes of `serial::Initialize` what the registers hold, and that the test byte
is in the transmitter or in the receiver; `WorkingState` is what the test leaves. `WriteSerial` keeps
it because it waits for an empty transmitter, whatever the FIFO holds.

`ReportsCause`, `ShownWhenHalted` and `MissingIsReported` share an invariant and a classification of the
steps, `Kinds`: of what is printed and reported only thirteen kinds of steps differ.

* `Trap`: kmain causes one exception and the processor raises one, so that `depth` never reaches
  `StackFrames`; Panic causes none, because all that is left to print of its message has glyphs
  (`Remainders`). With `GatesPass` a reset then means that there were no tables. `ReportsAreRight` is about
  every vector and every error code: the handler finds its words where the processor pushed them
  (`HandledBy`), and `FlagsComeBack` and `SelectorComesBack` show that what it takes apart bit by bit is what
  was put together.
* `Shown`: before the renderer nothing has been printed; behind it, what is on the screen and still to
  be drawn is what has been sent and still to be sent (`screen \o queue = out \o Pending`). Within Panic
  both end with its message. `half`, between the two writes of a piece, is why the two are not equal.
* `Lacking`: the responses before `index` are there, so that the loop cannot come to its end, and the
  first piece printed is the name of the first that is missing.

`VisitsExactly` needs to know where the walk is. `WalkAt` says at each step of the four loops of `PciWalk`
what the loop variables are, and `Passed` which functions lie behind the walk: by entry, bus, device and
function, in that order. Bus numbers wrap, so that two buses are ordered by their distance from the first bus
of the entry (`Offset`). Kept along the walk:

* `Visited`: what a walk has looked at is what it has passed, each function once;
* `Lists`: the functions listed are those passed that answer, and they are in the order of the walk
  (`Sorted`); what is found is a prefix `AhciUpTo[k]` of the controllers among them, where `k` is as many
  listed functions as the second walk has passed (`Ranked`).

`AhciUpTo` is defined by recursion over the list and compared while the list grows. The library's induction
theorems are of no use here, because they take an operator; `Induction` says the same of a set of numbers (one
with 0 and with n + 1 for each n of it has them all) and follows from the least number that is missing.
`AmongExists` is where the recursion gets its solution, `AmongListed` what it is.

`SoundMachineBoots` says that a fault has a reason. What a sound machine must have is one run of free frames
as long as everything that takes frames takes together (`EnoughMemory`): the stack, the regions of the heap,
an area and a buffer for each drive, and the page tables of every page that kmain touches, its own frames
included. That this is enough is not a matter of counting alone: areas and regions are runs, tables are
single frames, and the allocator hands out the lowest that fits, so that the parts might be in each other's
way. The argument is that tables come from the bottom. `Room` says that there is a run with room for `n`
frames and all the tables still missing: `TablesFit` and `RunFits` show that after a table or a run was taken,
from that run or from before it, there is a run left with room for the rest. `Supply` is that for `Touched`
and for the frames still to be asked for, `Outstanding`: the parts of the heap from the present one on and
the drives the scan has not come to (`DrivesLeft`, by where the walk is; `Passed` and `Lists` say which
controllers those are). `Safe` adds, at the places where something is read, that it is mapped. With that
`HeapReady`, `DriveReady` and `BufferReady` say that a region, an area and a buffer are granted and mapped,
`NothingFaults` excludes every fault, error, retry and loss of the heap, and `SoundKinds` lists the steps that
remain. `Fifos` bounds what the port holds, for the types.

### Only model-checked

Liveness (`CallReturns`, `DriverReturns`, `ScanTerminates`, `ShownToTheEnd`, `Halts`): the provers here do not
handle ENABLED, so neither do they fairness.

`HeapClient` is there for a run that fails.

## 5. What the models found

Two disagreements have a run:

* `find_ahci_last_port`: `CAP.NP` is 0's based (`hba.h:58`) and `kernel.cpp:394` uses it as a count.
* `heap_split`: `heap.cpp:127` gives the remainder of a split the size of the whole block less a
  header, without taking off the bytes that were allocated. The remainder reaches past its region,
  and a block cut from it may lie in another caller's memory. The kernel itself allocates only two
  blocks and never frees, and `heap_boot` shows that it does not meet the error.

Others are in the models and outside the bounds of the runs. Frames that no map entry lists, and the
end of a reserved entry that is not page aligned, come out of `BootMemory` free; `InUseStaysLocked`
says only what does hold. If the longest region is shorter than an eighth of memory the allocator
object is written behind it. With `Sectors` up to 129,
`CommandsIntact` fails: the table of a long read covers the next slot's (`ahci.cpp:181-203`). With
`NCS = 0` no read finds a slot. With counts below `HeaderSize`, `HeapClient` violates `BlocksApart`
because `heap.cpp:118` wraps. With too little memory `Allocate` repeats `ExtendOutOfMemory` for ever (`RetryForEver` in `Kernel`, which
`Halts` excludes by `HeapFits`).
A read of more than sixteen sectors returns true with only the last PRD's share read
(`CountAsked`), which `TrueMeansData` states as it is. `StaleOnlyIfTorn` has its exception because
an entry is present before it has its address.

`Printf` and the definitions of `Format` show where printing differs from what its callers write:

* numbers are padded with zeros before the sign, and only the first flag of a directive counts;
* `print_int`'s 128-byte buffer has no check on the width (`format.cpp:86`), and a left-justified number
  counts one character too many (`format.cpp:97`);
* the comment at `format.cpp:133` lists a length modifier that no state parses;
* a string ignores its width, although `kernel.cpp:272` asks for one.

`Kernel` and its parts show

* that the end bus, inclusive in the MCFG entry, is exclusive in the iterator (`pci.cpp:152`);
* that the loop-back test reads the receiver while the byte may still be on its way
  (`serial.cpp:32`): the port then stays in loop-back mode and what is written is lost, which is why
  `NothingLost` speaks only of a port that has left it;
* that `type_string` keeps the value of an earlier entry for a memory type the switch does not know
  (`kernel.cpp:243`);
* that the registers of ports 30 and 31, and tables across a page boundary, are not mapped and fault
  (`Sound` excludes them);
* that a character without a glyph faults in the renderer. The firmware's names may have one; the messages
  of `Panic` do not, so that the fault is reported and does not repeat.

## 6. What is left out

* Contents: bytes of sectors, FIS layouts, register fields nobody reads, the wording of messages.
* Paging: cache and user flags, the upper half and the large pages that Limine mapped, caches of
  upper entries in the processor. `WalkTable` only prints.
* `ReadATA` with a count of 0; no caller passes it.
* In `Heap` memory is mapped: that nobody looks at the result of `MapPages` is in `Kernel` and `FindAhci`.
* In `Kernel` a read of a drive is one step with either answer; `FindAhci` has it in detail, with the drives.
* In `FindAhci` a transfer that comes late may land in a frame that has meanwhile become a page table or a
  command area of another port, which `StrayOnlyAfterGivingUp` says can happen only after a read was given up;
  what becomes of the tables or the commands then is not followed. In `Kernel` the same goes for a heap that
  is astray (`LoseHeap`): the renderer draws into it, and so does `Panic`.
* `fkprintmem` (loops of prints without state), the spin lock, `stl.h` and `cxa.c` (nothing calls them
  or enters them twice), `Read` and `HasReceived` of the serial ports (no caller), the task state
  segment (filled, never loaded), the FPU (switched on, not used), names and glyph bitmaps.

Every component without a module is in PROJECT.json with the reason.

## 7. Plan

The order so far was frames, driver, discovery, heap, paging, boot, renderer, format, kernel, with the
proofs of all of them. What could follow:

1. The composition of `Paging` with the scan over one pool of frames.
2. The heap and the spin lock beside a second processor, when the kernel starts one.

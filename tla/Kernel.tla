------------------------------- MODULE Kernel -------------------------------
(***************************************************************************)
(* kmain (kernel.cpp) from its entry to its halt, on a machine that may    *)
(* lack what the kernel asks for, beside the UART of COM1 and exceptions   *)
(* that the kernel causes or that the processor raises by itself.  One     *)
(* action is one call or one turn of a loop.  What is printed goes through *)
(* kstdout piece by piece: a piece is what one kprintf shows, or a string  *)
(* of the firmware in it, and stands for its characters.                   *)
(*                                                                         *)
(* All of kmain takes its frames from one pool, for the heap, the command  *)
(* areas and the page tables of what it maps (Mapping); what is in the     *)
(* frames, the heap, the back buffer and the registers of a port have      *)
(* modules of their own.                                                   *)
(***************************************************************************)
EXTENDS PciWalk, CommandArea, Serial, Interrupts, DeviceMap, SequencesExt

CONSTANT StackFrames        \* nested exceptions the boot stack has room for

(* There is room for one that the kernel causes and one that it does not:   *)
(* the boot loader gives it 64 KiB and a handler uses some hundred bytes.    *)
ASSUME StackAssumption == StackFrames \in Nat /\ StackFrames >= 2

(* The requests that kmain needs an answer to (kernel.cpp:29-64, 79-83).     *)
Requests == {"base revision", "bootloader info", "firmware type", "hhdm",
             "framebuffer", "memmap", "mp", "rsdp"}

(* Besides mcfg, mcfgLength and config (see PciWalk) a machine has           *)
(*   com1        whether there is a UART                                    *)
(*   missing     the responses the boot loader has not given                *)
(*   undrawable  strings with a character that the font does not have       *)
(*   name, version, firmware, modes, memmap, cpus, efi    what is listed    *)
(*   free        the frames that are free when kmain has its allocator      *)
(*   heap        how many frames the heap asks for, first for itself and    *)
(*               then for each extension until the back buffer fits         *)
(*   rsdp, revision, root, rootLength, tables, mcfgAt      the ACPI tables  *)
(*   exceptions  what the processor may raise by itself, as [vector, info]  *)
IsSequence(s) == s \in Seq({s[i] : i \in DOMAIN s})
FirstMcfg(tables, i) == /\ tables[i].signature = "MCFG"
                        /\ \A j \in 1 .. i - 1 : tables[j].signature # "MCFG"
Answers(header) == header.device # \hFFFF /\ header.vendor # \hFFFF

(* What is behind a port with a device; the kinds are those of a signature. *)
DriveKinds == {"ATA", "ATAPI", "SEMB", "PM", "other"}
LowMemory == Run(0, AreaFrames)     \* a part of it: never free (kernel.cpp:143)

ASSUME MachineAssumption ==
    \A m \in Machines :
        /\ m.missing \subseteq Requests
        /\ IsSequence(m.modes) /\ IsSequence(m.memmap)
        /\ m.cpus \in Nat
        /\ m.free \subseteq Nat \ LowMemory /\ IsFiniteSet(m.free)
        /\ m.heap \in Seq(Nat \ {0, 1}) /\ m.heap # <<>>
        /\ {m.rsdp, m.root, m.mcfgAt} \subseteq Nat
        /\ m.tables \in Seq([signature : STRING, address : Nat])
        /\ m.rootLength \in Nat /\ m.rootLength >= HeaderSize
        /\ m.revision \in {0, 1, 2} =>
                AddressCount(m.rootLength, AddressSize(m.revision)) = Len(m.tables)
        /\ \A i \in DOMAIN m.tables : FirstMcfg(m.tables, i) => m.tables[i].address = m.mcfgAt
        /\ m.mcfg \in Seq([base : Nat, start : 0 .. BusNumbers - 1, end : 0 .. BusNumbers - 1])
        /\ m.mcfgLength = McfgLength(Len(m.mcfg))
        /\ IsFiniteSet(DOMAIN m.config)
        /\ \A page \in DOMAIN m.config :
                /\ Answers(m.config[page])
                /\ m.config[page].abar \in Nat /\ m.config[page].NP \in 0 .. 31
                /\ m.config[page].slots \in 0 .. 31
                /\ m.config[page].implemented \subseteq 0 .. 31
                /\ m.config[page].drives \in [DOMAIN m.config[page].drives -> DriveKinds]
        /\ \A e \in m.exceptions : e.vector \in Vectors /\ e.info \in Infos(e.vector)

VARIABLES
    pc,             \* where kmain is; "panic", "halted" and "reset" are the ends
    index,          \* the variable of the loop that pc is in
    armed,          \* the descriptor tables are loaded
    renderer,       \* KernelRenderer is set
    uart,           \* COM1
    queue, half,    \* what is being printed; half: its head is out on the serial port
    out,            \* history: all that was given to the serial port
    screen, front,  \* what has been drawn, and what has been copied to the screen
    depth,          \* exceptions that have not returned
    report, cause,  \* what Panic says, and history: what it was raised for
    raised,         \* the processor's own exception has happened
    listed,         \* history: functions print_mcfg shows
    found           \* functions find_ahci has found to be controllers

console == <<uart, queue, half, out, screen, front>>
trap == <<armed, depth, report, cause, raised>>
pci == <<memory, walk, visited, listed, found>>
vars == <<machine, pc, index, renderer, console, trap, pci>>

NoReport == [serious |-> FALSE, name |-> "", details |-> 0, CS |-> 0, IP |-> 0, SS |-> 0, SP |-> 0]
NoCause == [vector |-> 0, info |-> 0, SP |-> 0]

Newline == <<"newline">>

Init ==
    /\ machine \in Machines
    /\ pc = "serial" /\ index = 1
    /\ armed = FALSE /\ renderer = FALSE
    /\ uart = IF machine.com1 THEN FreshUart ELSE NoUart
    /\ queue = <<>> /\ half = FALSE /\ out = <<>> /\ screen = <<>> /\ front = <<>>
    /\ depth = 0 /\ report = NoReport /\ cause = NoCause /\ raised = FALSE
    /\ memory = [free |-> machine.free, tables |-> {}, mapped |-> {}]
    /\ walk = WalkStart /\ visited = <<>> /\ listed = <<>> /\ found = <<>>

-----------------------------------------------------------------------------
(* kstdout: the serial port first, then the renderer if there is one.       *)

Drawable(piece) == piece[1] = "string" => piece[2] \notin machine.undrawable

Serious == pc = "panic" /\ report.serious

WriteSerialUnpolled ==
    /\ pc # "reset"
    /\ queue # <<>> /\ ~half
    /\ uart' = Written(uart, Head(queue))
    /\ out' = Append(out, Head(queue))
    /\ half' = (renderer /\ ~Serious)
    /\ queue' = IF half' THEN queue ELSE Tail(queue)
    /\ UNCHANGED <<machine, pc, index, renderer, screen, front, trap, pci>>

WriteSerial ==
    /\ pc # "reset"
    /\ queue # <<>> /\ ~half
    /\ IsTransmitEmpty(uart)
    /\ uart' = Written(uart, Head(queue))
    /\ out' = Append(out, Head(queue))
    /\ half' = (renderer /\ ~Serious)
    /\ queue' = IF half' THEN queue ELSE Tail(queue)
    /\ UNCHANGED <<machine, pc, index, renderer, screen, front, trap, pci>>

(* NextChar; what happens in the glyph of an unknown character is below. *)
WriteScreen ==
    /\ half
    /\ Drawable(Head(queue))
    /\ screen' = Append(screen, Head(queue))
    /\ half' = FALSE
    /\ queue' = Tail(queue)
    /\ UNCHANGED <<machine, pc, index, renderer, uart, out, front, trap, pci>>

(* The transmitter of COM1, at its own pace. *)
UartShift ==
    /\ CanShift(uart)
    /\ uart' = Shift(uart)
    /\ UNCHANGED <<machine, pc, index, renderer, queue, half, out, screen, front, trap, pci>>

At(place) == pc = place /\ queue = <<>>

Goto(place) == pc' = place /\ index' = 1

(* kprintf of some pieces. *)
Say(pieces) == queue' = pieces /\ UNCHANGED <<uart, half, out, screen, front>>

-----------------------------------------------------------------------------
(* Exceptions.  They are delivered through the gate of their vector, or, if  *)
(* that cannot be passed, as what the processor makes of it; without tables, *)
(* gate or stack the machine resets.                                        *)

Delivered(vector, info) ==
    IF Passable(vector) THEN [vector |-> vector, info |-> info]
    ELSE IF Passable(GeneralProtection)
         THEN [vector |-> GeneralProtection,
               info |-> [external |-> FALSE, table |-> "IDT", index |-> vector]]
         ELSE [vector |-> DoubleFault, info |-> 0]

FrameNow == [IP |-> 4096, CS |-> CodeSegment, Flags |-> 2, SP |-> 512 - depth, SS |-> DataSegment]

ReportPieces(r) == <<<<"report", r.name>>, <<"frame", r.SP>>, Newline>>

(* The handler calls Panic, which prints; nothing returns from it. *)
Raise(vector, info) ==
    LET event == Delivered(vector, info)
    IN  IF ~armed \/ ~Passable(event.vector) \/ depth = StackFrames
        THEN /\ pc' = "reset"
             /\ UNCHANGED <<index, queue, half, depth, report, cause>>
        ELSE /\ pc' = "panic"
             /\ index' = 1
             /\ report' = Report(event.vector, event.info, FrameNow)
             /\ cause' = [vector |-> vector, info |-> info, SP |-> FrameNow.SP]
             /\ depth' = depth + 1
             /\ queue' = ReportPieces(report')
             /\ half' = FALSE

PageFaults ==
    /\ Raise(PageFault, {})
    /\ UNCHANGED <<machine, armed, renderer, uart, out, screen, front, raised, pci>>

(* GetChar has no glyph for the character: DrawChar reads at address 0. *)
NoGlyph ==
    /\ half
    /\ ~Drawable(Head(queue))
    /\ PageFaults

(* The processor's own: a non-maskable interrupt, a machine check, ... *)
Exception ==
    /\ pc # "reset" /\ ~raised
    /\ \E e \in machine.exceptions : Raise(e.vector, e.info)
    /\ raised' = TRUE
    /\ UNCHANGED <<machine, armed, renderer, uart, out, screen, front, pci>>

PanicHaltsUnflushed ==
    /\ At("panic")
    /\ pc' = "halted"
    /\ UNCHANGED <<machine, index, renderer, console, trap, pci>>

(* Panic behind its messages: the picture is shown, unless it is serious. *)
PanicHalts ==
    /\ At("panic")
    /\ pc' = "halted"
    /\ front' = IF renderer /\ ~report.serious THEN screen ELSE front
    /\ UNCHANGED <<machine, index, renderer, uart, queue, half, out, screen, trap, pci>>

(* error(): the text, and int 0x69. *)
Error(text) ==
    /\ Say(<<<<text>>, Newline>>)
    /\ Goto("int69")
    /\ UNCHANGED <<machine, renderer, trap, pci>>

Int69 ==
    /\ At("int69")
    /\ Raise(KernelException, 0)
    /\ UNCHANGED <<machine, armed, renderer, uart, out, screen, front, raised, pci>>

-----------------------------------------------------------------------------
(* kmain up to the first output.                                            *)

Quiet == UNCHANGED <<queue, half, out, screen, front>>

(* serial::InitializeAll: the other seven ports are like COM1 and are never  *)
(* written to again; nobody looks at the result.                            *)
SerialSetup ==
    /\ At("serial")
    /\ IF index > Len(SetupWrites)
       THEN Goto("serial_test") /\ UNCHANGED uart
       ELSE LET write == SetupWrites[index]
            IN  uart' = OutB(uart, write[1], write[2]) /\ index' = index + 1 /\ UNCHANGED pc
    /\ Quiet /\ UNCHANGED <<machine, renderer, trap, pci>>

SerialTest ==
    /\ At("serial_test")
    /\ uart' = Tested(uart)
    /\ Goto("tables")
    /\ Quiet /\ UNCHANGED <<machine, renderer, trap, pci>>

(* fpu::Initialize, gdt::Initialize, idt::Initialize. *)
LoadTables ==
    /\ At("tables")
    /\ armed' = TRUE
    /\ Goto("responses")
    /\ UNCHANGED <<machine, renderer, console, depth, report, cause, raised, pci>>

ResponsesWithoutMp == <<"base revision", "bootloader info", "firmware type", "hhdm",
                        "framebuffer", "memmap", "rsdp">>
Responses == <<"base revision", "bootloader info", "firmware type", "hhdm",
               "framebuffer", "memmap", "mp", "rsdp">>

CheckResponse ==
    /\ At("responses")
    /\ IF index > Len(Responses)
       THEN Goto("memory") /\ UNCHANGED <<machine, renderer, console, trap, pci>>
       ELSE IF Responses[index] \in machine.missing
       THEN Error(Responses[index])
       ELSE index' = index + 1 /\ UNCHANGED <<machine, pc, renderer, console, trap, pci>>

(* paging, the allocator, and the stack page that nothing uses. *)
InitializeMemory ==
    /\ At("memory")
    /\ memory' = AllocateMapped(memory, 1)
    /\ Goto("heap")
    /\ UNCHANGED <<machine, renderer, console, trap, walk, visited, listed, found>>

(* InitializeHeap, and then __extend_heap as often as the back buffer asks  *)
(* for it: a region is allocated, mapped, and its first page written.       *)
HeapFrames == machine.heap[index]
HeapStart == LowestRun(memory.free, HeapFrames)
HeapIsGranted == Granted(memory.free, HeapFrames) # {}
GrownHeap == AllocateMapped(memory, HeapFrames)
HeapGrowing == At("heap") /\ index <= Len(machine.heap)

GrowHeap ==
    /\ HeapGrowing
    /\ HeapIsGranted /\ Readable(GrownHeap, Run(HeapStart, HeapFrames))
    /\ memory' = GrownHeap
    /\ index' = index + 1
    /\ UNCHANGED <<machine, pc, renderer, console, trap, walk, visited, listed, found>>

HeapFaults ==
    /\ HeapGrowing
    /\ ~Readable(GrownHeap, {HeapStart})
    /\ PageFaults

(* A null extension is never put in the list, and a larger one is asked for *)
(* again and again.                                                        *)
RetryForEver ==
    /\ HeapGrowing /\ index > 1
    /\ ~HeapIsGranted /\ Readable(GrownHeap, {HeapStart})
    /\ Goto("retrying")
    /\ UNCHANGED <<machine, renderer, console, trap, pci>>

(* A heap at address 0, or one that is not mapped to its end: what is drawn *)
(* in it, also by Panic, is not followed any further.                       *)
LoseHeap ==
    /\ HeapGrowing
    /\ Readable(GrownHeap, {HeapStart})
    /\ IF HeapIsGranted THEN ~Readable(GrownHeap, Run(HeapStart, HeapFrames)) ELSE index = 1
    /\ Goto("astray")
    /\ UNCHANGED <<machine, renderer, console, trap, pci>>

InitializeRenderer ==
    /\ At("heap")
    /\ index > Len(machine.heap)
    /\ renderer' = TRUE
    /\ Goto("information")
    /\ UNCHANGED <<machine, console, trap, pci>>

-----------------------------------------------------------------------------
(* print_system_information.                                                *)

FirmwareTypes == {"X86BIOS", "UEFI32", "UEFI64", "SBI"}
FirmwareTypeString == IF machine.firmware \in FirmwareTypes THEN machine.firmware ELSE "?"

(* A mode is active when its numbers are those of the framebuffer. *)
ModeActive(mode) == mode = machine.framebuffer

PrintBootloader ==
    /\ At("information")
    /\ Say(<<<<"bootloader">>, <<"string", machine.name>>, <<"string", machine.version>>, Newline,
             <<"firmware type", FirmwareTypeString>>>>
           \o [i \in DOMAIN machine.modes |-> <<"mode", ModeActive(machine.modes[i])>>])
    /\ Goto("memmap")
    /\ UNCHANGED <<machine, renderer, trap, pci>>

(* The loop over the memory map.  type_string has no value when the type is  *)
(* unknown: the string of an entry before may still be there, or no address  *)
(* at all.                                                                  *)
TypeStrings == {"USABLE", "RESERVED", "ACPI RECLAIMABLE", "ACPI NVS", "BAD MEMORY",
                "BOOTLOADER RECLAIMABLE", "EXECUTABLE AND MODULES", "FRAMEBUFFER"}

StringsShown(i) ==
    LET type == machine.memmap[i].type
    IN  IF type \in TypeStrings THEN {type}
        ELSE {machine.memmap[j].type : j \in {k \in 1 .. i - 1 : machine.memmap[k].type \in TypeStrings}}

PrintRegion ==
    /\ At("memmap")
    /\ index <= Len(machine.memmap)
    /\ \E string \in StringsShown(index) : Say(<<<<"region", string>>>>)
    /\ index' = index + 1
    /\ UNCHANGED <<machine, pc, renderer, trap, pci>>

NoTypeString ==
    /\ At("memmap")
    /\ index <= Len(machine.memmap)
    /\ machine.memmap[index].type \notin TypeStrings
    /\ PageFaults

IsMemory(entry) == entry.type \in {"USABLE", "BOOTLOADER RECLAIMABLE"}

EndAddress ==
    LET end[i \in 0 .. Len(machine.memmap)] ==
            IF i = 0 THEN 0
            ELSE LET entry == machine.memmap[i]
                 IN  IF IsMemory(entry) /\ end[i - 1] < entry.base + entry.length
                     THEN entry.base + entry.length ELSE end[i - 1]
    IN  end[Len(machine.memmap)]

PrintTotal ==
    /\ At("memmap")
    /\ index > Len(machine.memmap)
    /\ Say(<<<<"total", EndAddress>>>> \o [i \in 1 .. machine.cpus |-> <<"cpu", i>>])
    /\ Goto(IF machine.efi THEN "efi" ELSE "rsdp")
    /\ UNCHANGED <<machine, renderer, trap, pci>>

(* The EFI system table, and the vendor's name that it points to. *)
EfiTablePage == 900
EfiVendorPage == 950

PrintEfiTable ==
    /\ At("efi")
    /\ memory' = MapPage(memory, EfiTablePage)
    /\ Say(<<<<"efi system table">>>>)
    /\ Goto("efi_vendor")
    /\ UNCHANGED <<machine, renderer, trap, walk, visited, listed, found>>

PrintEfiVendor ==
    /\ At("efi_vendor")
    /\ LET mapped == MapPage(memory, EfiVendorPage)
       IN  /\ Readable(mapped, {EfiTablePage, EfiVendorPage})
           /\ memory' = mapped
    /\ Say(<<<<"firmware vendor">>, <<"string", machine.vendor>>, Newline>>)
    /\ Goto("rsdp")
    /\ UNCHANGED <<machine, renderer, trap, walk, visited, listed, found>>

EfiVendorFaults ==
    /\ At("efi_vendor")
    /\ ~Readable(MapPage(memory, EfiVendorPage), {EfiTablePage, EfiVendorPage})
    /\ PageFaults

-----------------------------------------------------------------------------
(* The ACPI tables: kmain's switch and RSDT::Find, XSDT::Find.  A read of    *)
(* bytes faults when one of their pages is not mapped.                      *)

Maps(address) == MapPage(memory, address \div PAGE_SIZE)

UnchangedBut(place) == Goto(place) /\ UNCHANGED <<machine, renderer, trap, walk, visited, listed, found>>

MapRsdp ==
    /\ At("rsdp")
    /\ memory' = Maps(machine.rsdp)
    /\ UnchangedBut("revision") /\ UNCHANGED console

RootAddressBytes ==
    IF machine.revision = 2 THEN PagesOf(machine.rsdp + XsdtAddressAt, 8)
                            ELSE PagesOf(machine.rsdp + RsdtAddressAt, 4)
RevisionBytes == PagesOf(machine.rsdp + RevisionAt, 1)

MapRoot ==
    /\ At("revision")
    /\ machine.revision \in {0, 1, 2}
    /\ Readable(memory, RevisionBytes \union RootAddressBytes)
    /\ memory' = Maps(machine.root)
    /\ UnchangedBut("find") /\ UNCHANGED console

UnsupportedRevision ==
    /\ At("revision")
    /\ machine.revision \notin {0, 1, 2}
    /\ Readable(memory, RevisionBytes)
    /\ Error("unsupported rsdp revision")

RootCount == AddressCount(machine.rootLength, AddressSize(machine.revision))
LengthBytes(table) == PagesOf(table + LengthAt, 4)
EntryBytes(i) == LET size == AddressSize(machine.revision)
                 IN  PagesOf(machine.root + AddressAt(size, i), size)
FindBytes == LengthBytes(machine.root) \union
             (IF index <= RootCount THEN EntryBytes(index - 1) ELSE {})

(* One turn of Find: the header's page is mapped, its signature compared. *)
FindTable ==
    /\ At("find")
    /\ Readable(memory, FindBytes)
    /\ index <= RootCount
    /\ LET header == machine.tables[index]
           mapped == Maps(header.address)
       IN  /\ Readable(mapped, PagesOf(header.address + SignatureAt, 4))
           /\ memory' = mapped
           /\ IF header.signature = "MCFG"
              THEN Goto("print_mcfg") ELSE index' = index + 1 /\ UNCHANGED pc
    /\ UNCHANGED <<machine, renderer, console, trap, walk, visited, listed, found>>

NoMcfg ==
    /\ At("find")
    /\ Readable(memory, FindBytes)
    /\ index > RootCount
    /\ Error("no mcfg table")

AcpiFaults ==
    /\ \/ At("revision") /\ ~Readable(memory, RevisionBytes)
       \/ /\ At("revision") /\ machine.revision \in {0, 1, 2}
          /\ ~Readable(memory, RootAddressBytes)
       \/ At("find") /\ ~Readable(memory, FindBytes)
       \/ /\ At("find") /\ Readable(memory, FindBytes) /\ index <= RootCount
          /\ LET header == machine.tables[index].address
             IN  ~Readable(Maps(header), PagesOf(header + SignatureAt, 4))
    /\ PageFaults

-----------------------------------------------------------------------------
(* print_mcfg and find_ahci: the same walk with two loop bodies.            *)

Walking == At("print_mcfg") \/ At("find_ahci")

(* MCFG::end reads the length, the loop the entry. *)
McfgBytes == LengthBytes(machine.mcfgAt) \union
             (IF walk.entry <= McfgCount(machine.mcfgLength)
              THEN PagesOf(machine.mcfgAt + McfgEntryAt(walk.entry - 1), McfgEntrySize) ELSE {})

Place == <<walk.entry, walk.bus, walk.device, walk.function>>

Walk ==
    /\ Walking
    /\ walk.at = "entry" => Readable(memory, McfgBytes)
    /\ Step
    /\ UNCHANGED <<pc, index, renderer, console, trap, listed, found>>

WalkPageFaults ==
    /\ Walking
    /\ WalkFaults \/ (walk.at = "entry" /\ ~Readable(memory, McfgBytes))
    /\ PageFaults

(* What is shown of a function: names where there are any, else numbers. *)
Row(header) ==
    <<<<"function", Place, HasDescriptor(header.class[1], header.class[2], header.class[3]),
        HasVendorName(header.vendor), HasDeviceName(header.vendor, header.device)>>>>

PrintFunction ==
    /\ At("print_mcfg")
    /\ Body
    /\ LET header == Header(FunctionHere)
       IN  IF Answers(header)
           THEN listed' = Append(listed, Place) /\ Say(Row(header))
           ELSE UNCHANGED <<listed, console>>
    /\ UNCHANGED <<pc, index, renderer, trap, memory, found>>

IsAhci(header) == header.class = <<\h01, \h06, \h01>>

HeaderAt(place) == Header(FunctionPage(place[1], place[2], place[3], place[4]))

(* The registers of a controller: one page is mapped; GHC.AE is set.         *)
ScanFunction ==
    /\ At("find_ahci")
    /\ Body
    /\ LET header == Header(FunctionHere)
       IN  IF IsAhci(header)
           THEN /\ memory' = MapPage(memory, header.abar)
                /\ Readable(memory', {header.abar})
                /\ found' = Append(found, Place)
                /\ Goto("port")
           ELSE UNCHANGED <<memory, found, pc, index>>
    /\ UNCHANGED <<renderer, console, trap, listed>>

ControllerFaults ==
    /\ At("find_ahci")
    /\ walk.at = "body" /\ FunctionHere \in memory.mapped
    /\ LET header == Header(FunctionHere)
       IN  /\ IsAhci(header)
           /\ ~Readable(MapPage(memory, header.abar), {header.abar})
    /\ PageFaults

(* Its ports; the registers of port i begin at 0x100 + 0x80 * i.  FindAhci   *)
(* has what the driver and the drives do, here a read comes back with or     *)
(* without success.                                                          *)
Controller == HeaderAt(found[Len(found)])
Port == index - 1
PortPage(abar, i) == abar + (256 + 128 * i) \div PAGE_SIZE

AtPort == At("port") /\ Port < Controller.NP
PortReadable == Port \in Controller.implemented =>
                    Readable(memory, {PortPage(Controller.abar, Port)})
IsDrive(header, i) == i < header.NP /\ i \in header.implemented /\ i \in DOMAIN header.drives

SkipPort ==
    /\ AtPort
    /\ PortReadable
    /\ ~IsDrive(Controller, Port)
    /\ index' = index + 1
    /\ UNCHANGED <<machine, pc, renderer, console, trap, pci>>

(* The command area is allocated and mapped, and Initialize fills it when    *)
(* StopCommand has seen both engines of the port stop.                       *)
NewArea == AllocateMapped(memory, AreaFrames)
AreaWritten == AreaPages(LowestRun(memory.free, AreaFrames), Controller.slots)

Initializes == AtPort /\ PortReadable /\ IsDrive(Controller, Port) /\ Port \notin Controller.stuck

InitializePort ==
    /\ Initializes
    /\ Readable(NewArea, AreaWritten)
    /\ memory' = NewArea
    /\ pc' = "buffer"
    /\ UNCHANGED <<machine, index, renderer, console, trap, walk, visited, listed, found>>

(* The page for the first sector is allocated, mapped, cleared, read to,     *)
(* shown and freed; a drive of another kind is left out with its page.       *)
NewBuffer == LowestRun(memory.free, 1)
WithBuffer == AllocateMapped(memory, 1)

SectorPieces(kind, read) ==
    <<<<"located", kind, Port>>>> \o
    (IF kind \in {"ATA", "ATAPI"} /\ ~read THEN <<<<"failed to read", Port>>>> ELSE <<>>) \o
    <<<<"sector", Port>>, Newline>>

ReadPort ==
    /\ At("buffer")
    /\ Readable(WithBuffer, {NewBuffer})
    /\ LET kind == Controller.drives[Port]
       IN  IF kind = "other"
           THEN memory' = WithBuffer /\ UNCHANGED console
           ELSE /\ memory' = [WithBuffer EXCEPT !.free = @ \union {NewBuffer}]
                /\ \E read \in BOOLEAN : Say(SectorPieces(kind, read))
    /\ pc' = "port" /\ index' = index + 1
    /\ UNCHANGED <<machine, renderer, trap, walk, visited, listed, found>>

PortFaults ==
    /\ \/ AtPort /\ ~PortReadable
       \/ Initializes /\ ~Readable(NewArea, AreaWritten)
       \/ At("buffer") /\ ~Readable(WithBuffer, {NewBuffer})
    /\ PageFaults

LeaveController ==
    /\ At("port")
    /\ Port >= Controller.NP
    /\ Goto("find_ahci")
    /\ UNCHANGED <<machine, renderer, console, trap, pci>>

WalkEnds ==
    /\ Walking /\ walk.at = "done"
    /\ IF pc = "print_mcfg"
       THEN /\ walk' = WalkStart /\ visited' = <<>>
            /\ Goto("find_ahci")
       ELSE /\ UNCHANGED <<walk, visited>>
            /\ Goto("flush")
    /\ UNCHANGED <<machine, renderer, console, trap, memory, listed, found>>

(* kflush, halt. *)
Flush ==
    /\ At("flush")
    /\ front' = IF renderer THEN screen ELSE front
    /\ Goto("halted")
    /\ UNCHANGED <<machine, renderer, uart, queue, half, out, screen, trap, pci>>

-----------------------------------------------------------------------------
Printing == WriteSerial \/ WriteScreen \/ NoGlyph

Boot == \/ SerialSetup \/ SerialTest \/ LoadTables \/ CheckResponse \/ InitializeMemory
        \/ GrowHeap \/ HeapFaults \/ RetryForEver \/ LoseHeap \/ InitializeRenderer

Information == \/ PrintBootloader \/ PrintRegion \/ NoTypeString \/ PrintTotal
               \/ PrintEfiTable \/ PrintEfiVendor \/ EfiVendorFaults

Tables == MapRsdp \/ MapRoot \/ UnsupportedRevision \/ FindTable \/ NoMcfg \/ AcpiFaults

Devices == Walk \/ WalkPageFaults \/ PrintFunction \/ ScanFunction \/ ControllerFaults \/ WalkEnds

Disks == SkipPort \/ InitializePort \/ ReadPort \/ PortFaults \/ LeaveController

Kmain == \/ Printing \/ Boot \/ Information \/ Tables \/ Devices \/ Disks \/ Flush \/ Int69
         \/ PanicHalts

Next == Kmain \/ UartShift \/ Exception

(* The processor runs, and so does the transmitter of the UART. *)
Spec == Init /\ [][Next]_vars /\ WF_vars(Kmain) /\ WF_vars(UartShift)

-----------------------------------------------------------------------------
(* Properties. *)

Places == {"serial", "serial_test", "tables", "responses", "int69", "memory", "heap", "retrying",
           "astray", "information", "memmap", "efi", "efi_vendor", "rsdp", "revision", "find",
           "print_mcfg", "find_ahci", "port", "buffer", "flush", "halted", "panic", "reset"}

(* Type invariant of kmain's control, the loop variables of the walk (bus   *)
(* numbers are 8 bits wide and wrap) and the UART.                          *)
KernelTypeOK ==
    /\ pc \in Places
    /\ index \in Nat
    /\ {armed, renderer, half, raised} \subseteq BOOLEAN
    /\ walk.bus \in 0 .. BusNumbers - 1
    /\ walk.device \in 0 .. DevicesPerBus
    /\ walk.function \in 0 .. FunctionsPerDevice
    /\ Len(uart.thr) <= FifoSize /\ Len(uart.rbr) <= FifoSize
    /\ memory.free \subseteq machine.free \union {0}
    /\ depth \in 0 .. StackFrames
    /\ half => queue # <<>>

(* A port that has left loop-back mode loses nothing and keeps the order:   *)
(* what was written is what is on the line and what is still on its way,    *)
(* at 38400 baud and 8 bits (serial.cpp:22-39, 46-54).                      *)
NothingLost ==
    machine.com1 /\ armed /\ ~Loop(uart) =>
        /\ out = uart.line \o uart.thr
        /\ uart.divisor = <<3, 0>> /\ uart.lcr = 3

(* A machine that has all the kernel asks for, no structure or register      *)
(* beyond the one page that is mapped for it, and somewhere in its memory a  *)
(* run of free frames, one for everything that kmain takes one for: the      *)
(* stack, the regions of the heap, a command area and a buffer for each      *)
(* drive, and the page tables of everything that is mapped.                  *)
OnePage(address, size) == Cardinality(PagesOf(address, size)) = 1

Touched == {EfiTablePage, EfiVendorPage, machine.rsdp \div PAGE_SIZE, machine.root \div PAGE_SIZE}
           \union {t.address \div PAGE_SIZE : t \in Range(machine.tables)}
           \union {DevicePage(p[1], p[2], p[3]) + p[4] : p \in Expected}
           \union {machine.config[p].abar : p \in DOMAIN machine.config}
           \union machine.free

HeapNeeds == UNION {{<<k, f>> : f \in 1 .. machine.heap[k]} : k \in DOMAIN machine.heap}
Drives == {d \in Expected \X (0 .. 31) : IsAhci(HeaderAt(d[1])) /\ IsDrive(HeaderAt(d[1]), d[2])}

HasRun(n) == \E lo, hi \in machine.free : lo .. hi \subseteq machine.free /\ n <= hi - lo + 1

EnoughMemory == HasRun(1 + Cardinality(HeapNeeds) + Cardinality(Drives) * (AreaFrames + 1)
                         + Cardinality(Needed({}, Touched)))

Sound ==
    /\ machine.missing = {} /\ machine.undrawable = {}
    /\ \A entry \in Range(machine.memmap) : entry.type \in TypeStrings
    /\ machine.revision \in {0, 1, 2}
    /\ \E t \in Range(machine.tables) : t.signature = "MCFG" /\ t.address = machine.mcfgAt
    /\ OnePage(machine.rsdp, 36) /\ OnePage(machine.root, machine.rootLength)
    /\ OnePage(machine.mcfgAt, machine.mcfgLength)
    /\ \A t \in Range(machine.tables) : OnePage(t.address, 36)
    /\ \A p \in DOMAIN machine.config : \A i \in machine.config[p].implemented :
            i < machine.config[p].NP => i < 30
    /\ EnoughMemory

(* On a sound machine, as long as the processor raises nothing by itself, no *)
(* path through kmain faults or reports an error, or loses its heap: every   *)
(* page is mapped before it is read or written, also where nobody looks at   *)
(* what MapPage or the allocator has returned (kernel.cpp:296-551,           *)
(* heap.cpp:62-99, pci.cpp:24-124), although each of them takes its frames   *)
(* from what the others have left.                                           *)
SoundMachineBoots == Sound /\ ~raised => pc \notin {"int69", "panic", "reset", "retrying", "astray"}

(* A missing response is reported by name and never used: no null response   *)
(* is dereferenced, and nothing behind the checks is reached                 *)
(* (kernel.cpp:473-511).                                                     *)
MissingIsReported ==
    machine.missing # {} =>
        /\ pc \in {"serial", "serial_test", "tables", "responses", "int69", "panic", "halted", "reset"}
        /\ ~raised => report.name \in {"", "KE"}
        /\ pc = "halted" /\ ~raised =>
                \E i \in DOMAIN Responses : /\ Responses[i] \in machine.missing
                                            /\ out[1] = <<Responses[i]>>

(* The report names the exception and decodes its error code as the          *)
(* processor has encoded it, and shows the frame that it pushed              *)
(* (interrupt/: a handler that takes an error code where none is pushed, or  *)
(* none where one is, shows a frame of shifted words).  Once the tables are  *)
(* loaded every exception finds its gate, at any point and within Panic too: *)
(* the machine never resets (idt.cpp, gdt.cpp).                              *)
ReportsCause ==
    /\ pc = "reset" => ~armed
    /\ report.name # "" =>
        /\ report.name = Mnemonic[cause.vector]
        /\ cause.vector # DoubleFault => report.details = cause.info
        /\ report.CS = CodeSegment /\ report.SS = DataSegment /\ report.SP = cause.SP

EndsWith(s, t) == Len(t) <= Len(s) /\ SubSeq(s, Len(s) - Len(t) + 1, Len(s)) = t

(* When Panic halts, its whole message has gone to the serial port, behind   *)
(* everything else, and is on the screen unless it was serious: also when it *)
(* was called in the middle of printing, of another Panic or for a fault in  *)
(* the renderer (panic.cpp:14-24).  A boot that comes to its end shows all   *)
(* that it has printed, on the screen and on the serial port alike           *)
(* (kernel.cpp:571).                                                         *)
ShownWhenHalted ==
    pc = "halted" =>
        IF report.name = ""
        THEN front = screen /\ screen = out
        ELSE /\ EndsWith(out, ReportPieces(report))
             /\ renderer /\ ~report.serious => EndsWith(front, ReportPieces(report))

(* What find_ahci is to scan: the AHCI controllers print_mcfg has listed.     *)
AhciUpTo ==
    LET ahci[i \in 0 .. Len(listed)] ==
            IF i = 0 THEN <<>>
            ELSE IF IsAhci(HeaderAt(listed[i])) THEN Append(ahci[i - 1], listed[i]) ELSE ahci[i - 1]
    IN  ahci
AhciListed == AhciUpTo[Len(listed)]

(* Both walks look exactly once at each function of the buses from the start *)
(* bus up to, and without, the end bus of every entry, modulo 256: all eight *)
(* of a device that has several or none at all, one of the others.  find_ahci *)
(* scans the AHCI controllers that print_mcfg has listed, in the same order,  *)
(* and no others (pci.cpp:47-153, kernel.cpp:320, 383).                       *)
VisitsExactly ==
    /\ KernelTypeOK
    /\ Cardinality(Range(visited)) = Len(visited)
    /\ Range(visited) \subseteq Expected
    /\ Walking /\ walk.at = "done" => Range(visited) = Expected
    /\ IsPrefix(found, AhciListed)
    /\ pc = "flush" => found = AhciListed

(* The loops without an end that kmain has are those of a heap that gets no  *)
(* memory (heap.cpp:116) and of StopCommand at an engine that does not stop  *)
(* (ahci.cpp:19-24).                                                         *)
HeapFits == HasRun(1 + Cardinality(HeapNeeds) + Cardinality(Needed({}, machine.free)))
EnginesStop == \A p \in DOMAIN machine.config : machine.config[p].stuck = {}

(* Where those two are out of the question and the UART sends what it has    *)
(* (serial.cpp:50 waits for it without a limit), kmain comes to a halt,      *)
(* whatever else the machine lacks (or resets before it has its tables): no  *)
(* walk over bus numbers that wrap, no scan of ports, tables or memory, and  *)
(* no exception within an exception goes on for ever.                        *)
Halts == HeapFits /\ EnginesStop => <>[](pc \in {"halted", "reset"})
=============================================================================

------------------------------ MODULE PciWalk -------------------------------
(***************************************************************************)
(* The walk over the configuration space that print_mcfg and find_ahci     *)
(* make with the iterables of pci.cpp: for every entry of the MCFG its     *)
(* buses, for every bus its devices, for every device its functions.  One  *)
(* action is one turn of one of the four nested loops: the test against    *)
(* end() and, when the loop goes on, operator* with the page it maps, and  *)
(* begin() and end() of the loop inside.                                   *)
(*                                                                         *)
(* Addresses are page numbers: a function has a page of its own, and the   *)
(* shifts by 20, 15 and 12 place it among those of its bus and device.     *)
(***************************************************************************)
EXTENDS Mapping, Acpi, FiniteSets

CONSTANTS
    Machines,               \* the machines the kernel may run on
    BusNumbers,             \* values of a bus number (256, a u8)
    DevicesPerBus,          \* 32
    FunctionsPerDevice      \* 8

ASSUME WalkAssumption == /\ BusNumbers \in Nat \ {0}
                         /\ DevicesPerBus \in Nat \ {0}
                         /\ FunctionsPerDevice \in Nat \ {0}

VARIABLES
    machine,        \* machine.mcfg: the entries; machine.config: the functions by page
    memory,         \* what is mapped (see Mapping)
    walk,           \* the loop variables
    visited         \* history: the functions whose headers the loop body has seen

BusPage(entry, bus) == machine.mcfg[entry].base + bus * DevicesPerBus * FunctionsPerDevice
DevicePage(entry, bus, device) == BusPage(entry, bus) + device * FunctionsPerDevice
FunctionPage(entry, bus, device, function) == DevicePage(entry, bus, device) + function

(* Where no function answers all bits read as ones. *)
Absent == [present |-> FALSE, multi |-> TRUE, class |-> <<\hFF, \hFF, \hFF>>,
           vendor |-> \hFFFF, device |-> \hFFFF]
Header(page) == IF page \in DOMAIN machine.config THEN machine.config[page] ELSE Absent

-----------------------------------------------------------------------------
WalkStart == [at |-> "entry", entry |-> 1, bus |-> 0, device |-> 0,
              function |-> 0, functions |-> 0]

(* MCFG::begin, end and ++; RootIterable of the entry, its begin(). *)
WalkEntry ==
    /\ walk.at = "entry"
    /\ walk' = IF walk.entry > McfgCount(machine.mcfgLength) THEN [walk EXCEPT !.at = "done"]
               ELSE [walk EXCEPT !.at = "bus", !.bus = machine.mcfg[walk.entry].start]
    /\ UNCHANGED <<machine, memory, visited>>

(* RootIterable::end and operator*; the buses run up to the end bus, which  *)
(* is not visited itself.                                                  *)
AtEndBus == walk.bus = machine.mcfg[walk.entry].end

WalkBus ==
    /\ walk.at = "bus"
    /\ IF AtEndBus
       THEN /\ walk' = [walk EXCEPT !.at = "entry", !.entry = @ + 1]
            /\ UNCHANGED memory
       ELSE /\ walk' = [walk EXCEPT !.at = "device", !.device = 0]
            /\ memory' = MapPage(memory, BusPage(walk.entry, walk.bus))
    /\ UNCHANGED <<machine, visited>>

NextBus(bus) == (bus + 1) % BusNumbers

(* BusIterable::end and operator*, or RootIterable's ++. *)
WalkDevice ==
    /\ walk.at = "device"
    /\ IF walk.device = DevicesPerBus
       THEN /\ walk' = [walk EXCEPT !.at = "bus", !.bus = NextBus(@)]
            /\ UNCHANGED memory
       ELSE /\ walk' = [walk EXCEPT !.at = "functions"]
            /\ memory' = MapPage(memory, DevicePage(walk.entry, walk.bus, walk.device))
    /\ UNCHANGED <<machine, visited>>

(* DeviceIterable::begin and end: bit 7 of the first header's type. *)
DeviceHere == DevicePage(walk.entry, walk.bus, walk.device)

FunctionsOfPresent(header) == IF header.multi /\ header.present THEN FunctionsPerDevice ELSE 1
FunctionsOf(header) == IF header.multi THEN FunctionsPerDevice ELSE 1

WalkFunctions ==
    /\ walk.at = "functions"
    /\ memory' = MapPage(memory, DeviceHere)
    /\ DeviceHere \in memory'.mapped
    /\ walk' = [walk EXCEPT !.at = "function", !.function = 0,
                            !.functions = FunctionsOf(Header(DeviceHere))]
    /\ UNCHANGED <<machine, visited>>

FunctionHere == FunctionPage(walk.entry, walk.bus, walk.device, walk.function)

WalkFunctionUnmapped ==
    /\ walk.at = "function"
    /\ walk' = IF walk.function = walk.functions
               THEN [walk EXCEPT !.at = "device", !.device = @ + 1] ELSE [walk EXCEPT !.at = "body"]
    /\ UNCHANGED <<machine, memory, visited>>

(* operator* of the function, or BusIterable's ++. *)
WalkFunction ==
    /\ walk.at = "function"
    /\ IF walk.function = walk.functions
       THEN /\ walk' = [walk EXCEPT !.at = "device", !.device = @ + 1]
            /\ UNCHANGED memory
       ELSE /\ walk' = [walk EXCEPT !.at = "body"]
            /\ memory' = MapPage(memory, FunctionHere)
    /\ UNCHANGED <<machine, visited>>

(* The loop body reads the header and leaves what it does to the caller;    *)
(* DeviceIterable's ++.                                                    *)
Body ==
    /\ walk.at = "body"
    /\ FunctionHere \in memory.mapped
    /\ visited' = Append(visited, <<walk.entry, walk.bus, walk.device, walk.function>>)
    /\ walk' = [walk EXCEPT !.at = "function", !.function = @ + 1]
    /\ UNCHANGED machine

(* A header is read on a page that MapPage could not map. *)
WalkFaults ==
    LET page == IF walk.at = "functions" THEN DeviceHere ELSE FunctionHere
        now == IF walk.at = "functions" THEN MapPage(memory, page) ELSE memory
    IN  walk.at \in {"functions", "body"} /\ page \notin now.mapped

Step == WalkEntry \/ WalkBus \/ WalkDevice \/ WalkFunctions \/ WalkFunction

-----------------------------------------------------------------------------
(* What a walk sees: the buses from the first up to, and without, the last, *)
(* modulo the size of a bus number.                                        *)
Buses(entry) == {b \in 0 .. BusNumbers - 1 :
                    (b - entry.start) % BusNumbers < (entry.end - entry.start) % BusNumbers}

Seen(e) == {<<e, b, d, f>> : b \in Buses(machine.mcfg[e]), d \in 0 .. DevicesPerBus - 1,
                             f \in 0 .. FunctionsPerDevice - 1}
FirstOf(place) == Header(DevicePage(place[1], place[2], place[3]))
Expected == {place \in UNION {Seen(e) : e \in DOMAIN machine.mcfg} :
                place[4] = 0 \/ FirstOf(place).multi}
=============================================================================

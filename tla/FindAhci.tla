------------------------------ MODULE FindAhci ------------------------------
(***************************************************************************)
(* find_ahci of src/src/kernel.cpp for one AHCI controller: the scan of its *)
(* ports, the frames each port is given, the page tables that mapping them  *)
(* takes from the same free frames (Mapping), and the driver of Ahci        *)
(* working on them.  What the page frame allocator and MapPages return is   *)
(* not looked at, as in the code; memory that is not mapped is found when   *)
(* it is written to.  What a transfer that comes late does to a frame that  *)
(* has since become a table or an area is not followed any further.         *)
(***************************************************************************)
EXTENDS Ahci, CommandArea, Mapping

CONSTANTS
  NP,          (* CAP.NP: number of ports, 0's based                       *)
  Machines,    (* controllers: ports available, what is behind each port   *)
  FreeSets,    (* sets of frames that may be free when the scan begins     *)
  TableSets    (* sets of page tables that may be there already            *)

ASSUME FindAhciAssumption ==
  /\ NP \in 0 .. 31 /\ Ports = 0 .. NP
  /\ Machines \subseteq
       [PI : (SUBSET Ports) \ {{}},
        kind : [Ports -> {"none", "ata", "atapi", "semb", "other"}]]
  /\ Bases = Buffers /\ 0 \in Buffers /\ Misaligned = {}
  /\ FreeSets \subseteq SUBSET (Buffers \ Run(0, AreaFrames))  \* low memory is locked
  /\ LBAs = {0} /\ Sectors = {1}

Frames == Buffers

VARIABLES
  PI,        (* ports the firmware made available                          *)
  kind,      (* device behind each port: status and signature registers    *)
  free,      (* frames the page frame allocator has                        *)
  tables,    (* page tables there are                                      *)
  mapped,    (* frames that are mapped                                     *)
  at,        (* where find_ahci is                                         *)
  i,         (* the port it looks at                                       *)
  base,      (* base_address of that port                                  *)
  buffer,    (* the page for its first sector                              *)
  touched,   (* history: ports one of whose registers was accessed         *)
  areas,     (* history: frames of the command area of each port           *)
  tableFrames, (* history: frames taken for page tables                    *)
  gaveUp,    (* history: ports whose read returned false                   *)
  leaked,    (* history: buffers that were never freed                     *)
  exhausted, (* history: an allocation returned null                       *)
  printed,   (* history: what kprintmem showed for each port               *)
  start      (* history: free as it was when the scan began                *)

machine == <<PI, kind, start>>
paging == <<tables, mapped, tableFrames>>
books == <<touched, areas, gaveUp, leaked, exhausted, printed>>
scanVars == <<free, paging, at, i, base, buffer, books>>
findVars == <<ahciVars, machine, scanVars>>

Init ==
  /\ AhciInit
  /\ \E m \in Machines : PI = m.PI /\ kind = m.kind
  /\ free \in FreeSets
  /\ start = free
  /\ tables \in TableSets
  /\ mapped = {}
  /\ tableFrames = {}
  /\ at = "next"
  /\ i = 0
  /\ base = 0
  /\ buffer = 0
  /\ touched = {}
  /\ areas = [p \in Ports |-> {}]
  /\ gaveUp = {}
  /\ leaked = {}
  /\ exhausted = FALSE
  /\ printed = {}

(* MapPages, with the frames that an allocation just before has left.       *)
Map(left, run) ==
  /\ free' = left \ FramesTaken(left, tables, run)
  /\ tables' = tables \cup TablesMade(left, tables, run)
  /\ mapped' = mapped \cup PagesMapped(tables', run)
  /\ tableFrames' = tableFrames \cup FramesTaken(left, tables, run)
-----------------------------------------------------------------------------
IsPresent(p) == kind[p] # "none"

IsImplemented(p) == p \in PI

SkipPortStays ==
  /\ at = "next" /\ pc = "idle"
  /\ i < NP
  /\ ~IsImplemented(i) \/ ~IsPresent(i)
  /\ touched' = touched \cup (IF IsImplemented(i) THEN {i} ELSE {})
  /\ UNCHANGED <<ahciVars, machine, free, paging, at, i, base, buffer,
                 areas, gaveUp, leaked, exhausted, printed>>

(* No drive behind port i, or no port i. *)
SkipPort ==
  /\ at = "next" /\ pc = "idle"
  /\ i < NP
  /\ ~IsImplemented(i) \/ ~IsPresent(i)
  /\ touched' = touched \cup (IF IsImplemented(i) THEN {i} ELSE {})
  /\ i' = i + 1
  /\ UNCHANGED <<ahciVars, machine, free, paging, at, base, buffer,
                 areas, gaveUp, leaked, exhausted, printed>>

AllocateAreaUnlocked ==
  /\ at = "next" /\ pc = "idle"
  /\ i < NP
  /\ IsImplemented(i) /\ IsPresent(i)
  /\ touched' = touched \cup {i}
  /\ base' = LowestRun(free, AreaFrames)
  /\ Map(free, Run(base', AreaFrames))
  /\ areas' = [areas EXCEPT ![i] = Granted(free, AreaFrames)]
  /\ exhausted' = (exhausted \/ Fitting(free, AreaFrames) = {})
  /\ at' = "initialize"
  /\ UNCHANGED <<ahciVars, machine, i, buffer, gaveUp, leaked, printed>>

(* AllocatePhysicalPages and MapPages. *)
AllocateArea ==
  /\ at = "next" /\ pc = "idle"
  /\ i < NP
  /\ IsImplemented(i) /\ IsPresent(i)
  /\ touched' = touched \cup {i}
  /\ base' = LowestRun(free, AreaFrames)
  /\ Map(free \ Granted(free, AreaFrames), Run(base', AreaFrames))
  /\ areas' = [areas EXCEPT ![i] = Run(base', AreaFrames)]
  /\ exhausted' = (exhausted \/ Fitting(free, AreaFrames) = {})
  /\ at' = "initialize"
  /\ UNCHANGED <<ahciVars, machine, i, buffer, gaveUp, leaked, printed>>

InitializePort ==
  /\ at = "initialize"
  /\ CallInitialize(i, base)
  /\ at' = "buffer"
  /\ UNCHANGED <<machine, free, paging, i, base, buffer, books>>

(* The pages of the area that Initialize is about to fill; a fault that      *)
(* comes of it is the end of kmain (see Kernel).                            *)
AreaPagesAt(l) ==
  CASE l = "clb" -> {base}
    [] l = "fb" -> {base + FISPage}
    [] l = "headers" -> TablePages(base, NCS)
    [] OTHER -> {}

AreaFaults ==
  /\ at = "buffer"
  /\ ~(AreaPagesAt(pc) \subseteq mapped)
  /\ at' = "area_unmapped"
  /\ UNCHANGED <<ahciVars, machine, free, paging, i, base, buffer, books>>

(* AllocatePhysicalPage and MapPage: the page for the first sector. *)
AllocateBuffer ==
  /\ at = "buffer" /\ pc = "idle"
  /\ buffer' = LowestRun(free, 1)
  /\ Map(free \ Granted(free, 1), {buffer'})
  /\ exhausted' = (exhausted \/ free = {})
  /\ at' = "clear"
  /\ UNCHANGED <<ahciVars, machine, i, base, touched, areas, gaveUp, leaked, printed>>

(* memory::Fill *)
ZeroBuffer ==
  /\ at = "clear"
  /\ buffer \in mapped
  /\ data' = [data EXCEPT ![buffer] = Zeros]
  /\ at' = "signature"
  /\ UNCHANGED <<port, exec, header, table, pc, locals, machine, free, paging, i, base,
                 buffer, books>>

BufferFaults ==
  /\ at = "clear"
  /\ buffer \notin mapped
  /\ at' = "buffer_unmapped"
  /\ UNCHANGED <<ahciVars, machine, free, paging, i, base, buffer, books>>

ReadDrive ==
  /\ at = "signature"
  /\ kind[i] \in {"ata", "atapi"}
  /\ CallRead(kind[i], i, 0, 1, buffer)
  /\ at' = "read"
  /\ UNCHANGED <<machine, free, paging, i, base, buffer, books>>

(* An enclosure bridge or a port multiplier is only named. *)
NameDevice ==
  /\ at = "signature"
  /\ kind[i] = "semb"
  /\ at' = "print"
  /\ UNCHANGED <<ahciVars, machine, free, paging, i, base, buffer, books>>

(* Any other signature: the loop goes on to the next port, past FreePage.   *)
UnknownDevice ==
  /\ at = "signature"
  /\ kind[i] = "other"
  /\ leaked' = leaked \cup {buffer}
  /\ i' = i + 1
  /\ at' = "next"
  /\ UNCHANGED <<ahciVars, machine, free, paging, base, buffer,
                 touched, areas, gaveUp, exhausted, printed>>

ReadReturned ==
  /\ at = "read" /\ pc = "idle"
  /\ gaveUp' = IF result THEN gaveUp ELSE gaveUp \cup {i}
  /\ at' = "print"
  /\ UNCHANGED <<ahciVars, machine, free, paging, i, base, buffer,
                 touched, areas, leaked, exhausted, printed>>

(* kprintmem and FreePage. *)
PrintSector ==
  /\ at = "print"
  /\ printed' = printed \cup {[port |-> i, data |-> data[buffer]]}
  /\ at' = "free"
  /\ UNCHANGED <<ahciVars, machine, free, paging, i, base, buffer,
                 touched, areas, gaveUp, leaked, exhausted>>

FreeBufferForgotten ==
  /\ at = "free"
  /\ i' = i + 1
  /\ at' = "next"
  /\ UNCHANGED <<ahciVars, machine, free, paging, base, buffer, books>>

FreeBuffer ==
  /\ at = "free"
  /\ free' = free \cup {buffer}
  /\ i' = i + 1
  /\ at' = "next"
  /\ UNCHANGED <<ahciVars, machine, paging, base, buffer, books>>

ScanEnds ==
  /\ at = "next" /\ pc = "idle"
  /\ i >= NP
  /\ at' = "done"
  /\ UNCHANGED <<ahciVars, machine, free, paging, i, base, buffer, books>>

Scan ==
  \/ SkipPort \/ AllocateArea \/ InitializePort \/ AreaFaults \/ AllocateBuffer
  \/ ZeroBuffer \/ BufferFaults \/ ReadDrive \/ NameDevice \/ UnknownDevice \/ ReadReturned \/ PrintSector \/ FreeBuffer \/ ScanEnds

Driver ==
  /\ AreaPagesAt(pc) \subseteq mapped
  /\ Initialize \/ Read
  /\ UNCHANGED <<machine, scanVars>>
Adapter == \E p \in Ports : Hba(p) /\ UNCHANGED <<machine, scanVars>>

Next == Scan \/ Driver \/ Adapter

Spec == Init /\ [][Next]_findVars

(* The kernel's thread keeps running and the adapter's engines follow their *)
(* enable bits; no drive is asked to answer.                                *)
FairSpec ==
  /\ Spec
  /\ WF_findVars(Scan \/ Driver)
  /\ \A p \in Ports :
       WF_findVars((HbaStop(p) \/ HbaReceive(p)) /\ UNCHANGED <<machine, scanVars>>)
-----------------------------------------------------------------------------
Ends == {"done", "area_unmapped", "buffer_unmapped"}

(* Type invariant; only registers of available ports are touched (hba.h:958). *)
FindTypeOK ==
  /\ AhciTypeOK
  /\ free \subseteq Frames
  /\ tableFrames \subseteq Frames
  /\ at \in {"next", "initialize", "buffer", "clear", "signature", "read", "print", "free"}
            \cup Ends
  /\ i \in 0 .. NP
  /\ base \in Frames /\ buffer \in Frames
  /\ gaveUp \subseteq touched /\ touched \subseteq PI

(* A command can still write to a frame other than the buffer find_ahci     *)
(* holds for that port only if the read it belongs to was given up: after a *)
(* read that succeeded, FreePage gives back a frame no drive writes to.     *)
(* What is printed for a port is therefore its own first sector or zeros,   *)
(* or the data of a port whose read was given up (kernel.cpp:425-457).      *)
StrayOnlyAfterGivingUp ==
  /\ \A p \in Ports : \A c \in Outstanding(p) :
       \/ p \in gaveUp
       \/ p = i /\ c.buffer = buffer /\ buffer \notin free
  /\ \A r \in printed : r.data # Zeros /\ r.data.port # r.port => r.data.port \in gaveUp

(* The page find_ahci holds for the first sector, and the command areas.    *)
InHand ==
  IF at \in {"clear", "signature", "read", "print", "free", "buffer_unmapped"} THEN {buffer} ELSE {}
Given == UNION {areas[p] : p \in Ports}

(* While memory lasts, the command areas of different ports, the buffer, the *)
(* page tables and the free frames are disjoint: no two engines share a      *)
(* command list, none lies in memory that can be handed out, and no drive is *)
(* told to write to a page table (kernel.cpp:412-423, paging.cpp:157-161).   *)
AreasApart ==
  /\ FindTypeOK
  /\ ~exhausted =>
       /\ \A p, q \in Ports : p # q => areas[p] \cap areas[q] = {}
       /\ Given \cap (free \cup tableFrames \cup {0}) = {}
       /\ InHand \cap (Given \cup free \cup tableFrames) = {}
       /\ tableFrames \cap free = {}

(* At every point of the scan a frame that was free is free, part of a       *)
(* command area, the page in hand, leaked by the default case               *)
(* (kernel.cpp:451-452), or holds a page table that mapping those has taken  *)
(* (kernel.cpp:413, 421), also where a call ran out of frames half way; and  *)
(* nothing else is free.  If an allocation has failed, the runs at frame 0   *)
(* that were used all the same are counted as areas, and FreePage(nullptr)   *)
(* may have added frame 0.                                                   *)
NothingLost ==
  LET used == leaked \cup Given \cup InHand \cup tableFrames
  IN  /\ start \subseteq free \cup used
      /\ free \subseteq start \cup {0}
      /\ ~exhausted => free = start \ used

(* The scan ends, whatever the drives do: at the last port, or with a fault  *)
(* of kmain on a page that could not be mapped.                              *)
ScanTerminates == <>(at \in Ends)

(* CAP.NP is 0's based (hba.h:55-63): the scan reaches every available port *)
(* with a drive behind it.                                                  *)
EveryDriveFound ==
  at = "done" => \A p \in PI : IsPresent(p) => p \in touched
=============================================================================

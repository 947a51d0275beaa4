----------------------------- MODULE Ahci_proofs -----------------------------
(***************************************************************************)
(* Proofs about AhciClient, for any number of ports, slots, areas and      *)
(* buffers, any limit of the polling loops and any order of calls, and     *)
(* about FindAhci, for any devices and any frames that are free to begin   *)
(* with.  First come the steps of the driver and of the adapter, whoever   *)
(* calls the driver, and last the scan, which relies on them.              *)
(***************************************************************************)
EXTENDS AhciClient, FindAhci, Numbers_proofs

(* Slots are numbered from 0, and the firmware owns no area of the driver. *)
LEMMA SlotsFact == NCS \in Nat /\ 0 \in Slots /\ Slots \subseteq Nat /\ Firmware \notin Bases
BY AhciAssumption DEF Slots, Firmware

(* Writing a register keeps its type. *)
LEMMA Registers ==
  ASSUME NEW r \in PortT
  PROVE  /\ [r EXCEPT !.ST = TRUE] \in PortT
         /\ [r EXCEPT !.ST = FALSE, !.CI = {}] \in PortT
         /\ [r EXCEPT !.CR = TRUE] \in PortT /\ [r EXCEPT !.CR = FALSE] \in PortT
         /\ [r EXCEPT !.FRE = TRUE] \in PortT /\ [r EXCEPT !.FRE = FALSE] \in PortT
         /\ [r EXCEPT !.FR = r.FRE] \in PortT
         /\ [r EXCEPT !.BSY = TRUE] \in PortT /\ [r EXCEPT !.BSY = FALSE] \in PortT
         /\ [r EXCEPT !.TFES = FALSE] \in PortT
         /\ [r EXCEPT !.TFES = TRUE, !.BSY = FALSE] \in PortT
         /\ \A b \in Bases : [r EXCEPT !.CLB = b] \in PortT /\ [r EXCEPT !.FB = b] \in PortT
         /\ \A s \in Slots : /\ [r EXCEPT !.CI = r.CI \cup {s}] \in PortT
                            /\ [r EXCEPT !.CI = r.CI \ {s}, !.BSY = FALSE] \in PortT
<1>1. /\ [r EXCEPT !.ST = TRUE] \in PortT
      /\ [r EXCEPT !.ST = FALSE, !.CI = {}] \in PortT
      /\ [r EXCEPT !.CR = TRUE] \in PortT /\ [r EXCEPT !.CR = FALSE] \in PortT
  BY DEF PortT
<1>2. /\ [r EXCEPT !.FRE = TRUE] \in PortT /\ [r EXCEPT !.FRE = FALSE] \in PortT
      /\ [r EXCEPT !.FR = r.FRE] \in PortT
  BY DEF PortT
<1>3. /\ [r EXCEPT !.BSY = TRUE] \in PortT /\ [r EXCEPT !.BSY = FALSE] \in PortT
      /\ [r EXCEPT !.TFES = FALSE] \in PortT
      /\ [r EXCEPT !.TFES = TRUE, !.BSY = FALSE] \in PortT
  BY DEF PortT
<1>4. \A b \in Bases : [r EXCEPT !.CLB = b] \in PortT /\ [r EXCEPT !.FB = b] \in PortT
  BY DEF PortT
<1>5. \A s \in Slots : /\ [r EXCEPT !.CI = r.CI \cup {s}] \in PortT
                     /\ [r EXCEPT !.CI = r.CI \ {s}, !.BSY = FALSE] \in PortT
  BY DEF PortT
<1> QED
  BY <1>1, <1>2, <1>3, <1>4, <1>5

(* A step of Initialize keeps the types. *)
LEMMA InitializeTypes ==
  ASSUME AhciTypeOK, call.port \in Ports, call.base \in Bases, Initialize
  PROVE  AhciTypeOK'
<1>1. port \in [Ports -> PortT]
  BY DEF AhciTypeOK
<1>2. port' \in [Ports -> PortT]
  <2>1. CASE StopWaitCR
    BY <1>1, <2>1, Registers DEF StopWaitCR, Set
  <2>2. CASE StopWaitFR \/ FillHeaders
    BY <1>1, <2>2 DEF StopWaitFR, FillHeaders
  <2>3. CASE SetCommandListBase
    BY <1>1, <2>3, Registers DEF SetCommandListBase, Set
  <2>6. CASE SetFISBase
    BY <1>1, <2>6, Registers DEF SetFISBase, Set
  <2>4. CASE EnableFIS
    BY <1>1, <2>4, Registers DEF EnableFIS, Set
  <2>5. CASE StartCommand
    BY <1>1, <2>5, Registers DEF StartCommand, Set
  <2> QED
    BY <2>1, <2>2, <2>3, <2>4, <2>5, <2>6 DEF Initialize
<1>3. pc' \in {"idle", "stop_fr", "clb", "fb", "fre", "headers", "start"} /\ UNCHANGED exec
  BY DEF Initialize, StopWaitCR, StopWaitFR, SetCommandListBase, SetFISBase, EnableFIS, FillHeaders,
       StartCommand, InitStep, Return, Goto
<1>4. slot' \in Slots /\ timeout' \in 0 .. PollLimit /\ result' \in BOOLEAN
  <2>1. CASE StartCommand
    BY <2>1, AhciAssumption, SlotsFact DEF StartCommand, Return
  <2>2. CASE UNCHANGED locals
    BY <2>2 DEF locals, AhciTypeOK
  <2> QED
    BY <2>1, <2>2 DEF Initialize, StopWaitCR, StopWaitFR, SetCommandListBase, SetFISBase, EnableFIS,
         FillHeaders, InitStep
<1> QED
  BY <1>2, <1>3, <1>4 DEF AhciTypeOK

(* A step of a read keeps the types. *)
LEMMA ReadTypes ==
  ASSUME AhciTypeOK, call.port \in Ports, Read
  PROVE  AhciTypeOK'
<1>1. port \in [Ports -> PortT] /\ slot \in Slots /\ timeout \in 0 .. PollLimit /\ PollLimit \in Nat
  BY AhciAssumption DEF AhciTypeOK
<1>2. port' \in [Ports -> PortT]
  <2>1. CASE ClearInterruptStatus
    BY <1>1, <2>1, Registers DEF ClearInterruptStatus, Set
  <2>2. CASE IssueCommand
    BY <1>1, <2>2, Registers DEF IssueCommand, Set
  <2>3. CASE UNCHANGED port
    BY <1>1, <2>3
  <2> QED
    BY <2>1, <2>2, <2>3 DEF Read, PollBusy, BusyTimeout, DeviceReady, FindSlot, NoSlot, WriteHeader,
         WriteTable, Completed, StillIssued, Failed, KeepPolling, Fail
<1>3. slot' \in Slots
  <2>1. CASE FindSlot
    <3>1. FreeSlots(call.port) \subseteq Slots /\ FreeSlots(call.port) \subseteq Nat
      BY SlotsFact DEF FreeSlots
    <3>2. slot' = Min(FreeSlots(call.port)) /\ FreeSlots(call.port) # {}
      BY <2>1 DEF FindSlot
    <3> QED
      BY <3>1, <3>2, LeastElement
  <2>2. CASE slot' = 0 \/ slot' = slot
    BY <1>1, <2>2, SlotsFact
  <2> QED
    BY <2>1, <2>2 DEF Read, PollBusy, BusyTimeout, DeviceReady, NoSlot, WriteHeader, WriteTable,
         ClearInterruptStatus, IssueCommand, Completed, StillIssued, Failed, KeepPolling, Fail,
         Return, locals
<1>4. timeout' \in 0 .. PollLimit
  <2>1. CASE PollBusy \/ KeepPolling
    BY <1>1, <2>1 DEF PollBusy, KeepPolling, Tick
  <2>2. CASE timeout' \in {0, timeout, PollLimit}
    BY <1>1, <2>2
  <2> QED
    BY <2>1, <2>2 DEF Read, BusyTimeout, DeviceReady, FindSlot, NoSlot, WriteHeader, WriteTable,
         ClearInterruptStatus, IssueCommand, Completed, StillIssued, Failed, Fail, Return, locals
<1>5. /\ pc' \in {"idle", "busy", "slot", "header", "table", "is", "ci", "poll_ci", "poll_is"}
      /\ UNCHANGED exec
  BY DEF Read, PollBusy, BusyTimeout, DeviceReady, FindSlot, NoSlot, WriteHeader, WriteTable,
       ClearInterruptStatus, IssueCommand, Completed, StillIssued, Failed, KeepPolling, Fail,
       Return, Goto
<1>6. result' \in {TRUE, FALSE, result}
  BY DEF Read, PollBusy, BusyTimeout, DeviceReady, FindSlot, NoSlot, WriteHeader, WriteTable,
       ClearInterruptStatus, IssueCommand, Completed, StillIssued, Failed, KeepPolling, Fail,
       Return, locals
<1> QED
  BY <1>2, <1>3, <1>4, <1>5, <1>6 DEF AhciTypeOK

(* A step of the adapter keeps the types. *)
LEMMA HbaTypes == ASSUME AhciTypeOK, NEW p \in Ports, Hba(p) PROVE AhciTypeOK'
<1>1. port \in [Ports -> PortT] /\ exec \in [Ports -> ExecT] /\ exec[p].slot \in Slots
  BY DEF AhciTypeOK, ExecT
<1>2. port' \in [Ports -> PortT]
  <2>1. CASE HbaStop(p)
    BY <1>1, <2>1, Registers DEF HbaStop, Set
  <2>8. CASE HbaStart(p)
    BY <1>1, <2>8, Registers DEF HbaStart, Set
  <2>2. CASE HbaReceive(p)
    BY <1>1, <2>2, Registers DEF HbaReceive, Set
  <2>3. CASE HbaReady(p)
    BY <1>1, <2>3, Registers DEF HbaReady, Set
  <2>7. CASE HbaFetch(p)
    BY <1>1, <2>7, Registers DEF HbaFetch, Set
  <2>4. CASE HbaTransfer(p)
    BY <1>1, <2>4 DEF HbaTransfer
  <2>5. CASE HbaComplete(p)
    <3>1. port' = [port EXCEPT ![p] = [port[p] EXCEPT !.CI = port[p].CI \ {exec[p].slot}, !.BSY = FALSE]]
      BY <1>1, <2>5 DEF HbaComplete
    <3> QED
      BY <1>1, <3>1, Registers
  <2>6. CASE HbaError(p)
    <3>1. port' = [port EXCEPT ![p] = [port[p] EXCEPT !.TFES = TRUE, !.BSY = FALSE]]
      BY <1>1, <2>6 DEF HbaError
    <3> QED
      BY <1>1, <3>1, Registers
  <2> QED
    BY <2>1, <2>2, <2>3, <2>4, <2>5, <2>6, <2>7, <2>8 DEF Hba
<1>3. exec' \in [Ports -> ExecT]
  <2>1. CASE HbaFetch(p)
    <3>1. PICK s \in port[p].CI : exec' = [exec EXCEPT ![p] = [state |-> "run", slot |-> s]]
      BY <2>1 DEF HbaFetch
    <3>2. s \in Slots
      BY <1>1 DEF PortT
    <3> QED
      BY <1>1, <3>1, <3>2 DEF ExecT
  <2>2. CASE HbaStop(p) \/ HbaTransfer(p) \/ HbaComplete(p) \/ HbaError(p)
    <3>1. \E s \in {"idle", "done", "halted"} : exec' = [exec EXCEPT ![p].state = s]
      BY <2>2 DEF HbaStop, HbaTransfer, HbaComplete, HbaError
    <3> QED
      BY <1>1, <3>1 DEF ExecT
  <2>3. CASE UNCHANGED exec
    BY <1>1, <2>3
  <2> QED
    BY <2>1, <2>2, <2>3 DEF Hba, HbaStart, HbaReceive, HbaReady
<1>4. UNCHANGED <<pc, slot, timeout, result>>
  BY DEF Hba, HbaStop, HbaStart, HbaReceive, HbaReady, HbaFetch, HbaTransfer, HbaComplete,
       HbaError, HbaStep, locals
<1> QED
  BY <1>2, <1>3, <1>4 DEF AhciTypeOK

(* The driver's own steps leave the arguments of the call alone and stay    *)
(* within the call until they return; the adapter leaves both alone.        *)
LEMMA StepsWithinCall ==
  /\ Initialize => call' = call /\ pc \in InitPoints /\ pc' \in InitPoints \cup {"idle"}
  /\ Read => call' = call /\ pc \in ReadPoints /\ pc' \in ReadPoints \cup {"idle"}
  /\ \A p : Hba(p) => UNCHANGED <<pc, call>>
<1>1. Initialize => call' = call /\ pc \in InitPoints /\ pc' \in InitPoints \cup {"idle"}
  BY DEF Initialize, StopWaitCR, StopWaitFR, SetCommandListBase, SetFISBase, EnableFIS, FillHeaders,
       StartCommand, InitStep, locals, Return, Goto, InitPoints
<1>2. Read => call' = call /\ pc \in ReadPoints /\ pc' \in ReadPoints \cup {"idle"}
  BY DEF Read, PollBusy, BusyTimeout, DeviceReady, FindSlot, NoSlot, WriteHeader, WriteTable,
       ClearInterruptStatus, IssueCommand, Completed, StillIssued, Failed, KeepPolling, Fail,
       Return, locals, Goto, ReadPoints
<1>3. \A p : Hba(p) => UNCHANGED <<pc, call>>
  BY DEF Hba, HbaStop, HbaStart, HbaReceive, HbaReady, HbaFetch, HbaTransfer, HbaComplete,
       HbaError, HbaStep, locals
<1> QED
  BY <1>1, <1>2, <1>3

(* A call keeps the types. *)
LEMMA CallInitializeTypes ==
  ASSUME AhciTypeOK, NEW p \in Ports, NEW clb \in Bases, CallInitialize(p, clb)
  PROVE  AhciTypeOK'
<1>5. port \in [Ports -> PortT] /\ 0 \in Slots /\ PollLimit \in Nat
  BY AhciAssumption, SlotsFact DEF AhciTypeOK
<1>1. port' = port \/ port' = [port EXCEPT ![p] = [port[p] EXCEPT !.ST = FALSE, !.CI = {}]]
  BY <1>5 DEF CallInitialize, ClearStart
<1>2. port' \in [Ports -> PortT]
  <2>1. [port[p] EXCEPT !.ST = FALSE, !.CI = {}] \in PortT
    BY <1>5, Registers
  <2> QED
    BY <1>5, <1>1, <2>1
<1>3. pc' \in {"idle", "stop_cr"} /\ UNCHANGED exec
  BY DEF CallInitialize, Return, Goto
<1>4. slot' \in Slots /\ timeout' \in 0 .. PollLimit /\ result' \in BOOLEAN
  <2>1. CASE clb \in Misaligned
    <3>1. Return(FALSE)
      BY <2>1 DEF CallInitialize
    <3>2. slot' = 0 /\ timeout' = 0 /\ result' = FALSE
      BY <3>1 DEF Return
    <3>3. slot' \in Slots /\ timeout' \in 0 .. PollLimit
      BY <1>5, <3>2
    <3>4. result' \in BOOLEAN
      BY <3>2
    <3> QED
      BY <3>3, <3>4
  <2>2. CASE clb \notin Misaligned
    BY <2>2 DEF CallInitialize, AhciTypeOK
  <2> QED
    BY <2>1, <2>2
<1> QED
  BY <1>2, <1>3, <1>4 DEF AhciTypeOK

(* A call starts with well typed arguments. *)
LEMMA CallReadTypes ==
  ASSUME AhciTypeOK, NEW p, NEW op, NEW lba, NEW n, NEW dst, CallRead(op, p, lba, n, dst)
  PROVE  AhciTypeOK'
<1>1. PollLimit \in 0 .. PollLimit
  BY AhciAssumption
<1> QED
  BY <1>1 DEF CallRead, Goto, AhciTypeOK

(* The ports the firmware leaves are well typed. *)
LEMMA InitTypes == AhciInit => AhciTypeOK
BY AhciAssumption, SlotsFact DEF AhciInit, AhciTypeOK, PortT, ExecT
-----------------------------------------------------------------------------
(* No engine runs before it has somewhere to put what it receives. *)
LEMMA InitEngineInv == AhciInit => EngineInv
<1> SUFFICES ASSUME AhciInit PROVE EngineInv
  OBVIOUS
<1> USE AhciAssumption, SlotsFact
<1>1. AhciTypeOK
  BY DEF AhciInit, AhciTypeOK, PortT, ExecT
<1>2. MemoryShape
  BY DEF AhciInit, MemoryShape
<1>3. InitProgress /\ ReadCall /\ Arguments
  BY DEF AhciInit, InitProgress, ReadCall, Arguments, InitPoints, ReadPoints, NoCall
<1>4. Engines /\ ListsApart /\ RunsWithFIS
  BY DEF AhciInit, Engines, ListsApart, RunsWithFIS
<1> QED
  BY <1>1, <1>2, <1>3, <1>4 DEF EngineInv
-----------------------------------------------------------------------------
(* Whatever the client calls keeps the types. *)
LEMMA CallTypes == ASSUME AhciTypeOK, Call PROVE AhciTypeOK'
BY CallInitializeTypes, CallReadTypes DEF Call
-----------------------------------------------------------------------------
(* What is written to memory goes to a place there is. *)
LEMMA StepShape == ASSUME MemoryShape, ClientNext PROVE MemoryShape'
<1>1. CASE Call
  BY <1>1 DEF Call, CallInitialize, CallRead, memory, MemoryShape
<1>2. ASSUME NEW dst \in Buffers, ClearBuffer(dst) PROVE MemoryShape'
  BY <1>2 DEF ClearBuffer, MemoryShape
<1>3. CASE Initialize
  <2>1. CASE SetCommandListBase \/ FillHeaders
    BY <2>1 DEF SetCommandListBase, FillHeaders, InitStep, locals, MemoryShape
  <2>2. CASE UNCHANGED <<header, table, data, issued>>
    BY <2>2 DEF MemoryShape
  <2> QED
    BY <1>3, <2>1, <2>2 DEF Initialize, StopWaitCR, StopWaitFR, SetFISBase, EnableFIS, StartCommand,
         InitStep, locals, memory
<1>4. CASE Read
  <2>1. CASE WriteHeader \/ WriteTable
    BY <2>1 DEF WriteHeader, WriteTable, locals, MemoryShape
  <2>2. CASE IssueCommand
    BY <2>2 DEF IssueCommand, memory, MemoryShape
  <2>3. CASE UNCHANGED <<header, table, data, issued>>
    BY <2>3 DEF MemoryShape
  <2> QED
    BY <1>4, <2>1, <2>2, <2>3 DEF Read, PollBusy, BusyTimeout, DeviceReady, FindSlot, NoSlot,
         ClearInterruptStatus, Completed, StillIssued, Failed, KeepPolling, Fail, locals, memory
<1>5. ASSUME NEW p \in Ports, Hba(p) PROVE MemoryShape'
  <2>1. UNCHANGED <<header, table, issued>>
    BY <1>5 DEF Hba, HbaStop, HbaStart, HbaReceive, HbaReady, HbaFetch, HbaTransfer, HbaComplete,
         HbaError, HbaStep, locals
  <2>2. CASE HbaTransfer(p)
    BY <2>1, <2>2 DEF HbaTransfer, MemoryShape
  <2>3. CASE UNCHANGED data
    BY <2>1, <2>3 DEF MemoryShape
  <2> QED
    BY <1>5, <2>2, <2>3 DEF Hba, HbaStop, HbaStart, HbaReceive, HbaReady, HbaFetch, HbaComplete,
         HbaError
<1> QED
  BY <1>1, <1>2, <1>3, <1>4, <1>5 DEF ClientNext

(* What an action did to the registers that the engine invariant is about.  *)
SameEngines(p) ==
  /\ port'[p].ST = port[p].ST /\ port'[p].CR = port[p].CR
  /\ port'[p].FRE = port[p].FRE /\ port'[p].FR = port[p].FR
SameBases(p) == port'[p].CLB = port[p].CLB /\ port'[p].FB = port[p].FB

(* A step of a read touches no engine and no base. *)
LEMMA ReadRegisters ==
  ASSUME AhciTypeOK, call.port \in Ports, Read
  PROVE  /\ \A p \in Ports : SameEngines(p) /\ SameBases(p)
         /\ \A p \in Ports :
              \/ port'[p].CI = port[p].CI
              \/ pc = "ci" /\ p = call.port /\ port'[p].CI = port[p].CI \cup {slot}
         /\ UNCHANGED <<exec, call>>
         /\ pc \in ReadPoints /\ pc' \in ReadPoints \cup {"idle"}
<1>1. port \in [Ports -> PortT]
  BY DEF AhciTypeOK
<1>2. CASE ClearInterruptStatus
  BY <1>1, <1>2 DEF ClearInterruptStatus, Set, Goto, locals, PortT, SameEngines, SameBases, ReadPoints
<1>3. CASE IssueCommand
  BY <1>1, <1>3 DEF IssueCommand, Set, Goto, PortT, SameEngines, SameBases, ReadPoints
<1>4. CASE \/ PollBusy \/ BusyTimeout \/ DeviceReady \/ FindSlot \/ NoSlot \/ WriteHeader
           \/ WriteTable \/ Completed \/ StillIssued \/ Failed \/ KeepPolling
  <2>1. UNCHANGED <<port, exec, call>> /\ pc \in ReadPoints /\ pc' \in ReadPoints \cup {"idle"}
    BY <1>4 DEF PollBusy, BusyTimeout, DeviceReady, FindSlot, NoSlot, WriteHeader, WriteTable, Completed,
         StillIssued, Failed, KeepPolling, Fail, Return, Goto, locals, ReadPoints
  <2> QED
    BY <2>1 DEF SameEngines, SameBases
<1> QED
  BY <1>2, <1>3, <1>4 DEF Read

(* The steps of a read keep the running engines in their areas. *)
LEMMA ReadEngine ==
  ASSUME EngineInv, Read
  PROVE  EngineInv'
<1>1. pc \in ReadPoints /\ call.port \in Ports
  BY DEF EngineInv, ReadCall, Read, ReadPoints, PollBusy, BusyTimeout, DeviceReady, FindSlot, NoSlot,
       WriteHeader, WriteTable, ClearInterruptStatus, IssueCommand, Completed, StillIssued, Failed,
       KeepPolling
<1>2. AhciTypeOK' /\ MemoryShape'
  BY <1>1, ReadTypes, StepShape DEF EngineInv, ClientNext
<1>3. /\ \A p \in Ports : SameEngines(p) /\ SameBases(p)
      /\ \A p \in Ports :
           \/ port'[p].CI = port[p].CI
           \/ pc = "ci" /\ p = call.port /\ port'[p].CI = port[p].CI \cup {slot}
      /\ UNCHANGED <<exec, call>>
      /\ pc' \in ReadPoints \cup {"idle"}
  BY <1>1, ReadRegisters DEF EngineInv
<1>4. InitProgress'
  BY <1>3 DEF InitProgress, InitPoints, ReadPoints
<1>5. ReadCall' /\ Arguments'
  BY <1>1, <1>3 DEF EngineInv, ReadCall, Arguments, SameEngines, SameBases
<1>6. Engines'
  BY <1>1, <1>3, SlotsFact DEF EngineInv, Engines, ReadCall, SameEngines, SameBases
<1>7. ListsApart' /\ RunsWithFIS'
  BY <1>3 DEF EngineInv, ListsApart, RunsWithFIS, SameEngines, SameBases
<1> QED
  BY <1>2, <1>4, <1>5, <1>6, <1>7 DEF EngineInv

(* The adapter moves no base and writes no enable bit: its engines follow   *)
(* them.                                                                    *)
LEMMA HbaRegisters ==
  ASSUME AhciTypeOK, NEW p \in Ports, Hba(p)
  PROVE  /\ \A q \in Ports : SameBases(q) /\ port'[q].ST = port[q].ST /\ port'[q].FRE = port[q].FRE
         /\ \A q \in Ports \ {p} : port'[q] = port[q] /\ exec'[q] = exec[q]
         /\ \/ SameEngines(p)
            \/ HbaStop(p) /\ ~port[p].ST /\ ~port'[p].CR /\ port'[p].FR = port[p].FR
            \/ HbaStart(p) /\ port[p].ST /\ port'[p].CR /\ port'[p].FR = port[p].FR
            \/ HbaReceive(p) /\ port'[p].CR = port[p].CR /\ port'[p].FR = port[p].FRE
         /\ \/ port'[p].CI = port[p].CI
            \/ HbaComplete(p) /\ port'[p].CI = port[p].CI \ {exec[p].slot}
         /\ \/ exec'[p] = exec[p]
            \/ exec'[p].state = "idle"
            \/ HbaError(p) /\ exec[p].state = "run" /\ exec'[p].state = "halted"
            \/ HbaTransfer(p) /\ exec[p].state = "run" /\ exec'[p].state = "done"
                 /\ exec'[p].slot = exec[p].slot
            \/ HbaFetch(p) /\ port[p].ST /\ port[p].CR /\ exec'[p].state = "run"
                 /\ exec'[p].slot \in port[p].CI
         /\ HbaComplete(p) \/ HbaStop(p) => exec'[p].state = "idle"
         /\ UNCHANGED <<header, table, pc, call, slot, timeout, result, issued>>
<1>1. port \in [Ports -> PortT] /\ exec \in [Ports -> ExecT]
  BY DEF AhciTypeOK
<1>2. UNCHANGED <<header, table, pc, call, slot, timeout, result, issued>>
  BY DEF Hba, HbaStop, HbaStart, HbaReceive, HbaReady, HbaFetch, HbaTransfer, HbaComplete,
       HbaError, HbaStep, locals
<1> USE <1>1, <1>2 DEF Set, PortT, ExecT, SameEngines, SameBases
<1>3. CASE HbaStop(p)
  <2>1. /\ \A q \in Ports : SameBases(q) /\ port'[q].ST = port[q].ST /\ port'[q].FRE = port[q].FRE
        /\ \A q \in Ports \ {p} : port'[q] = port[q]
        /\ port'[p].CI = port[p].CI /\ port'[p].FR = port[p].FR /\ ~port'[p].CR /\ ~port[p].ST
    BY <1>3 DEF HbaStop
  <2>2. exec'[p].state = "idle" /\ \A q \in Ports \ {p} : exec'[q] = exec[q]
    BY <1>3 DEF HbaStop
  <2> QED
    BY <1>3, <2>1, <2>2
<1>4. CASE HbaStart(p)
  <2>1. /\ \A q \in Ports : SameBases(q) /\ port'[q].ST = port[q].ST /\ port'[q].FRE = port[q].FRE
        /\ \A q \in Ports \ {p} : port'[q] = port[q]
        /\ port'[p].CI = port[p].CI /\ port'[p].FR = port[p].FR /\ port'[p].CR /\ port[p].ST
    BY <1>4 DEF HbaStart
  <2>2. UNCHANGED exec /\ ~HbaStop(p)
    BY <1>4 DEF HbaStart, HbaStop
  <2>3. ~HbaComplete(p) \/ exec'[p].state = "idle"
    BY <1>4, <2>1 DEF HbaStart, HbaComplete
  <2> QED
    BY <1>4, <2>1, <2>2, <2>3
<1>5. CASE HbaReceive(p)
  BY <1>5 DEF HbaReceive, HbaComplete, HbaError, HbaStop
<1>6. CASE HbaReady(p)
  BY <1>6 DEF HbaReady, HbaComplete, HbaError, HbaStop
<1>7. CASE HbaFetch(p)
  <2>1. PICK s \in port[p].CI : exec' = [exec EXCEPT ![p] = [state |-> "run", slot |-> s]]
    BY <1>7 DEF HbaFetch
  <2>2. /\ exec'[p].state = "run" /\ exec'[p].slot = s
        /\ \A q \in Ports \ {p} : exec'[q] = exec[q]
    BY <2>1
  <2>3. /\ \A q \in Ports : SameBases(q) /\ SameEngines(q) /\ port'[q].CI = port[q].CI
        /\ \A q \in Ports \ {p} : port'[q] = port[q]
    BY <1>7 DEF HbaFetch
  <2>4. port[p].ST /\ port[p].CR /\ exec[p].state = "idle" /\ ~HbaComplete(p) /\ ~HbaStop(p)
    BY <1>7 DEF HbaFetch, HbaComplete, HbaError, HbaStop
  <2> QED
    BY <1>7, <2>2, <2>3, <2>4
<1>8. CASE HbaTransfer(p)
  <2>1. UNCHANGED port /\ exec[p].state = "run" /\ exec' = [exec EXCEPT ![p].state = "done"]
    BY <1>8 DEF HbaTransfer
  <2>2. /\ exec'[p].state = "done" /\ exec'[p].slot = exec[p].slot
        /\ \A q \in Ports \ {p} : exec'[q] = exec[q]
    BY <2>1
  <2>3. ~HbaComplete(p) /\ ~HbaStop(p)
    BY <2>1, <2>2 DEF HbaComplete, HbaStop
  <2> QED
    BY <1>8, <2>1, <2>2, <2>3
<1>9. CASE HbaComplete(p)
  BY <1>9 DEF HbaComplete, HbaError
<1>10. CASE HbaError(p)
  BY <1>10 DEF HbaError, HbaComplete, HbaStop
<1> QED
  BY <1>3, <1>4, <1>5, <1>6, <1>7, <1>8, <1>9, <1>10 DEF Hba

(* So does the controller, whatever it finishes. *)
LEMMA HbaEngine ==
  ASSUME EngineInv, NEW p \in Ports, Hba(p)
  PROVE  EngineInv'
<1>1. AhciTypeOK' /\ MemoryShape'
  BY HbaTypes, StepShape DEF EngineInv, ClientNext
<1>2. port \in [Ports -> PortT] /\ exec \in [Ports -> ExecT]
  BY DEF EngineInv, AhciTypeOK
<1> DEFINE Facts ==
         /\ \A q \in Ports : SameBases(q) /\ port'[q].ST = port[q].ST /\ port'[q].FRE = port[q].FRE
         /\ \A q \in Ports \ {p} : port'[q] = port[q] /\ exec'[q] = exec[q]
<1>3. Facts /\ UNCHANGED <<pc, call>>
  BY HbaRegisters DEF EngineInv
<1>4. InitProgress'
  <2> SUFFICES ASSUME pc \in InitPoints PROVE InitProgress'
    BY <1>3 DEF InitProgress
  <2>1. call.port \in Ports /\ call.base \in Bases /\ InitProgress
    BY DEF EngineInv, InitProgress
  <2>2. /\ ~port[call.port].CR /\ ~port[call.port].ST => ~port'[call.port].CR
        /\ ~port[call.port].FR /\ ~port[call.port].FRE => ~port'[call.port].FR
    <3>1. CASE call.port = p
      BY <3>1, HbaRegisters DEF EngineInv, SameEngines, HbaStart
    <3>2. CASE call.port # p
      BY <1>3, <2>1, <3>2
    <3> QED
      BY <3>1, <3>2
  <2> QED
    BY <1>3, <2>1, <2>2 DEF InitProgress, InitPoints, IsOwn, SameBases
<1>5. ReadCall' /\ Arguments'
  BY <1>3 DEF EngineInv, ReadCall, Arguments, SameBases
<1>6. Engines'
  <2> SUFFICES ASSUME NEW q \in Ports
               PROVE  /\ ~port'[q].CR => exec'[q].state = "idle"
                      /\ ~port'[q].ST \/ port'[q].CLB = Firmware => port'[q].CI = {}
                      /\ port'[q].ST /\ exec'[q].state \in {"run", "done"} => exec'[q].slot \in port'[q].CI
                      /\ port'[q].CLB = Firmware => exec'[q].state = "idle"
    BY DEF Engines
  <2>1. CASE q # p
    BY <1>3, <2>1 DEF EngineInv, Engines, SameBases
  <2>2. CASE q = p
    <3>1. /\ ~port[p].CR => exec[p].state = "idle"
          /\ ~port[p].ST \/ port[p].CLB = Firmware => port[p].CI = {}
          /\ port[p].ST /\ exec[p].state \in {"run", "done"} => exec[p].slot \in port[p].CI
          /\ port[p].CLB = Firmware => exec[p].state = "idle"
      BY DEF EngineInv, Engines
    <3>2. ~port'[p].CR => exec'[p].state = "idle"
      BY <3>1, HbaRegisters DEF EngineInv, SameEngines
    <3>3. ~port'[p].ST \/ port'[p].CLB = Firmware => port'[p].CI = {}
      BY <1>3, <3>1, HbaRegisters DEF EngineInv, SameBases
    <3>4. port'[p].ST /\ exec'[p].state \in {"run", "done"} => exec'[p].slot \in port'[p].CI
      BY <1>3, <3>1, HbaRegisters DEF EngineInv
    <3>5. port'[p].CLB = Firmware => exec'[p].state = "idle"
      BY <1>3, <3>1, HbaRegisters DEF EngineInv, SameBases
    <3> QED
      BY <2>2, <3>2, <3>3, <3>4, <3>5
  <2> QED
    BY <2>1, <2>2
<1>7. ListsApart' /\ RunsWithFIS'
  BY <1>3 DEF EngineInv, ListsApart, RunsWithFIS, SameBases
<1> QED
  BY <1>1, <1>4, <1>5, <1>6, <1>7 DEF EngineInv

(* A step of Initialize moves the bases of its own port while the port is    *)
(* stopped, and starts it when FIS reception is on.                          *)
LEMMA InitializeEngine ==
  ASSUME EngineInv, Initialize
  PROVE  EngineInv'
<1> DEFINE c == call.port
<1>1. /\ pc \in InitPoints /\ c \in Ports /\ call.base \in Bases /\ IsOwn(call.base, c) /\ ~port[c].ST
      /\ call.op = "init"
      /\ port \in [Ports -> PortT]
  BY DEF EngineInv, AhciTypeOK, InitProgress, Initialize, InitPoints, InitStep, StopWaitCR, StopWaitFR,
       SetCommandListBase, SetFISBase, EnableFIS, FillHeaders, StartCommand
<1>2. AhciTypeOK' /\ MemoryShape'
  BY <1>1, InitializeTypes, StepShape DEF EngineInv, ClientNext
<1>3. UNCHANGED <<exec, call>>
  BY DEF Initialize, InitStep, StopWaitCR, StopWaitFR, SetCommandListBase, SetFISBase, EnableFIS,
       FillHeaders, StartCommand, locals
<1>4. ReadCall' /\ Arguments'
  BY <1>3 DEF EngineInv, Arguments, ReadCall, ReadPoints, Initialize, InitStep, StopWaitCR, StopWaitFR, SetCommandListBase,
       SetFISBase, EnableFIS, FillHeaders, StartCommand, Return, Goto
<1>5. \A q \in Ports \ {c} : port'[q] = port[q]
  BY <1>1 DEF Initialize, Set, StopWaitCR, StopWaitFR, SetCommandListBase, SetFISBase, EnableFIS,
       FillHeaders, StartCommand
<1> USE <1>1, <1>3, <1>5
<1>6. CASE StopWaitCR
  <2>1. /\ pc = "stop_cr" /\ pc' = "stop_fr" /\ ~port[c].CR /\ ~port'[c].FRE /\ ~port'[c].ST /\ ~port'[c].CR
        /\ port'[c].CI = port[c].CI /\ port'[c].CLB = port[c].CLB
    BY <1>6 DEF StopWaitCR, InitStep, Set, Goto, PortT
  <2>2. InitProgress'
    BY <2>1 DEF InitProgress, IsOwn
  <2>3. Engines' /\ ListsApart' /\ RunsWithFIS'
    BY <2>1 DEF EngineInv, Engines, ListsApart, RunsWithFIS
  <2> QED
    BY <1>2, <1>4, <2>2, <2>3 DEF EngineInv
<1>7. CASE StopWaitFR \/ FillHeaders
  <2>1. UNCHANGED port /\ <<pc, pc'>> \in {<<"stop_fr", "clb">>, <<"headers", "start">>}
        /\ (pc = "stop_fr" => ~port[c].FR)
    BY <1>7 DEF StopWaitFR, FillHeaders, InitStep, Goto
  <2>2. InitProgress'
    BY <2>1 DEF EngineInv, InitProgress, IsOwn
  <2>3. Engines' /\ ListsApart' /\ RunsWithFIS'
    BY <2>1 DEF EngineInv, Engines, ListsApart, RunsWithFIS
  <2> QED
    BY <1>2, <1>4, <2>2, <2>3 DEF EngineInv
<1>8. CASE SetCommandListBase
  <2>1. /\ pc = "clb" /\ pc' = "fb" /\ port'[c].CLB = call.base /\ SameEngines(c)
        /\ port'[c].CI = port[c].CI
    BY <1>8 DEF SetCommandListBase, InitStep, Set, Goto, PortT, SameEngines
  <2>2. InitProgress'
    BY <2>1 DEF EngineInv, InitProgress, InitPoints, IsOwn, SameEngines
  <2>3. ~port[c].CR /\ port[c].CI = {} /\ exec[c].state = "idle"
    BY <2>1 DEF EngineInv, InitProgress, Engines, InitPoints
  <2>4. Engines'
    BY <2>1, <2>3 DEF EngineInv, Engines, SameEngines
  <2>5. ListsApart' /\ RunsWithFIS'
    BY <2>1 DEF EngineInv, ListsApart, RunsWithFIS, IsOwn, SameEngines
  <2> QED
    BY <1>2, <1>4, <2>2, <2>4, <2>5 DEF EngineInv
<1>9. CASE SetFISBase
  <2>1. /\ pc = "fb" /\ pc' = "fre" /\ port'[c].FB = call.base /\ SameEngines(c)
        /\ port'[c].CI = port[c].CI /\ port'[c].CLB = port[c].CLB
    BY <1>9 DEF SetFISBase, InitStep, Set, Goto, PortT, SameEngines
  <2>2. InitProgress'
    BY <2>1 DEF EngineInv, InitProgress, InitPoints, IsOwn, SameEngines
  <2>3. Engines' /\ ListsApart' /\ RunsWithFIS'
    BY <2>1 DEF EngineInv, Engines, ListsApart, RunsWithFIS, SameEngines
  <2> QED
    BY <1>2, <1>4, <2>2, <2>3 DEF EngineInv
<1>10. CASE EnableFIS
  <2>1. /\ pc = "fre" /\ pc' = "headers" /\ port'[c].FRE /\ port'[c].ST = port[c].ST
        /\ port'[c].CR = port[c].CR /\ port'[c].CI = port[c].CI /\ SameBases(c)
    BY <1>10 DEF EnableFIS, InitStep, Set, Goto, PortT, SameBases
  <2>2. InitProgress'
    BY <2>1 DEF EngineInv, InitProgress, InitPoints, IsOwn, SameBases
  <2>3. Engines' /\ ListsApart' /\ RunsWithFIS'
    BY <2>1 DEF EngineInv, Engines, ListsApart, RunsWithFIS, SameBases
  <2> QED
    BY <1>2, <1>4, <2>2, <2>3 DEF EngineInv
<1>11. CASE StartCommand
  <2>1. /\ pc = "start" /\ pc' = "idle" /\ port'[c].ST /\ port'[c].CR = port[c].CR /\ ~port[c].CR
        /\ port'[c].FRE = port[c].FRE /\ port'[c].CI = port[c].CI /\ SameBases(c)
    BY <1>11 DEF StartCommand, Set, Return, Goto, PortT, SameBases
  <2>2. InitProgress'
    BY <2>1 DEF InitProgress, InitPoints
  <2>3. Engines' /\ ListsApart'
    BY <2>1 DEF EngineInv, Engines, ListsApart, SameBases
  <2>4. port[c].FRE /\ port[c].FB = port[c].CLB
    BY <2>1 DEF EngineInv, InitProgress
  <2>5. RunsWithFIS'
    <3>1. \A q \in Ports \ {c} : port'[q].ST /\ port'[q].CLB # Firmware =>
             port'[q].FRE /\ port'[q].FB = port'[q].CLB
      BY DEF EngineInv, RunsWithFIS
    <3> QED
      BY <2>1, <2>4, <3>1 DEF RunsWithFIS, SameBases
  <2> QED
    BY <1>2, <1>4, <2>2, <2>3, <2>5 DEF EngineInv
<1> QED
  BY <1>6, <1>7, <1>8, <1>9, <1>10, <1>11 DEF Initialize

(* A call starts from a port whose list is its own. *)
LEMMA CallEngine ==
  ASSUME EngineInv, Call
  PROVE  EngineInv'
<1>1. AhciTypeOK' /\ MemoryShape' /\ port \in [Ports -> PortT]
  BY CallTypes, StepShape DEF EngineInv, AhciTypeOK, ClientNext
<1>2. ASSUME NEW p \in Ports, NEW clb \in Bases, IsOwn(clb, p), CallInitialize(p, clb)
      PROVE  EngineInv'
  <2>1. call'.op = "init" /\ call'.port = p /\ call'.base = clb /\ pc = "idle" /\ pc' \in {"idle", "stop_cr"} /\ UNCHANGED exec
    BY <1>2 DEF CallInitialize, Return, Goto, NoCall
  <2>2. CASE UNCHANGED port /\ pc' = "idle"
    <3>1. InitProgress' /\ ReadCall' /\ Arguments'
      BY <2>1, <2>2 DEF Arguments, InitProgress, InitPoints, ReadCall, ReadPoints
    <3>2. Engines' /\ ListsApart' /\ RunsWithFIS'
      BY <2>1, <2>2 DEF EngineInv, Engines, ListsApart, RunsWithFIS
    <3> QED
      BY <1>1, <3>1, <3>2 DEF EngineInv
  <2>3. CASE ClearStart(p) /\ pc' = "stop_cr"
    <3>1. /\ \A q \in Ports \ {p} : port'[q] = port[q]
          /\ ~port'[p].ST /\ port'[p].CI = {} /\ port'[p].CR = port[p].CR /\ SameBases(p)
      BY <1>1, <2>3 DEF ClearStart, PortT, SameBases
    <3>2. InitProgress' /\ ReadCall' /\ Arguments'
      BY <1>2, <2>1, <2>3, <3>1 DEF Arguments, InitProgress, InitPoints, ReadCall, ReadPoints, IsOwn
    <3>3. Engines' /\ ListsApart' /\ RunsWithFIS'
      BY <2>1, <3>1 DEF EngineInv, Engines, ListsApart, RunsWithFIS, SameBases
    <3> QED
      BY <1>1, <3>2, <3>3 DEF EngineInv
  <2> QED
    BY <1>2, <2>2, <2>3 DEF CallInitialize, Return, Goto
<1>3. ASSUME NEW p \in Ports, Initialized(p), NEW lba \in LBAs, NEW n \in Sectors, NEW dst \in Buffers,
             NEW op \in {"ata", "atapi"}, CallRead(op, p, lba, n, dst)
      PROVE  EngineInv'
  <2>1. /\ call'.port = p /\ call'.op = op /\ call'.sectors = n /\ call'.buffer = dst
        /\ call'.base = port[p].CLB /\ UNCHANGED <<port, exec>> /\ pc' = "busy"
    BY <1>3 DEF CallRead, Goto
  <2>2. port[p].CLB \in Bases
    BY <1>1, <1>3 DEF Initialized, PortT
  <2>3. InitProgress' /\ ReadCall' /\ Arguments'
    BY <1>3, <2>1, <2>2 DEF Arguments, InitProgress, InitPoints, ReadCall, Initialized
  <2>4. Engines' /\ ListsApart' /\ RunsWithFIS'
    BY <2>1 DEF EngineInv, Engines, ListsApart, RunsWithFIS
  <2> QED
    BY <1>1, <2>3, <2>4 DEF EngineInv
<1> QED
  BY <1>2, <1>3 DEF Call

(* Every step keeps the invariant of the engines. *)
LEMMA NextEngine == EngineInv /\ [ClientNext]_ahciVars => EngineInv'
<1> SUFFICES ASSUME EngineInv, [ClientNext]_ahciVars PROVE EngineInv'
  OBVIOUS
<1>1. ASSUME NEW dst \in Buffers, ClearBuffer(dst) PROVE EngineInv'
  <2>1. MemoryShape'
    BY <1>1, StepShape DEF EngineInv, ClientNext
  <2>2. UNCHANGED <<port, exec, pc, slot, timeout, result>> /\ pc = "idle" /\ call'.op = "none"
    BY <1>1 DEF ClearBuffer, NoCall
  <2> QED
    BY <2>1, <2>2 DEF EngineInv, Arguments, AhciTypeOK, InitProgress, InitPoints, ReadCall, ReadPoints, Engines,
         ListsApart, RunsWithFIS
<1>2. CASE UNCHANGED ahciVars
  BY <1>2 DEF ahciVars, memory, locals, EngineInv, AhciTypeOK, Arguments, MemoryShape, InitProgress, ReadCall, Engines,
       ListsApart, RunsWithFIS, IsOwn
<1> QED
  BY <1>1, <1>2, CallEngine, InitializeEngine, ReadEngine, HbaEngine DEF ClientNext

(* However the calls follow each other and the adapter moves, the driver     *)
(* keeps its types, every list of commands that runs has its FIS area, no    *)
(* two lists share memory, and no adapter holds commands of a stopped list   *)
(* (ahci.cpp:14-82).                                                         *)
THEOREM EngineInvariance == ClientSpec => []EngineInv
<1>1. AhciInit => EngineInv
  BY InitEngineInv
<1> QED
  BY <1>1, NextEngine, PTL DEF ClientSpec

(* The bases move only under stopped engines, on every port and over any     *)
(* number of re-initialisations (ahci.cpp:37-47).                            *)
THEOREM MovesWhenStopped == ClientSpec => BasesMoveStopped
<1> DEFINE Moves == \A p \in Ports :
              /\ port[p].CLB' # port[p].CLB => ~port[p].ST /\ ~port[p].CR
              /\ port[p].FB' # port[p].FB => ~port[p].FRE /\ ~port[p].FR
<1>1. EngineInv /\ [ClientNext]_ahciVars => [Moves]_ahciVars
  <2> SUFFICES ASSUME EngineInv, ClientNext, NEW p \in Ports
               PROVE  /\ port[p].CLB' # port[p].CLB => ~port[p].ST /\ ~port[p].CR
                      /\ port[p].FB' # port[p].FB => ~port[p].FRE /\ ~port[p].FR
    OBVIOUS
  <2>1. port \in [Ports -> PortT] /\ AhciTypeOK
    BY DEF EngineInv, AhciTypeOK
  <2>2. CASE Call
    <3>1. PICK q \in Ports : UNCHANGED port \/ ClearStart(q)
      BY <2>2 DEF Call, CallInitialize, CallRead
    <3>2. CASE ClearStart(q)
      <4>1. port'[p].CLB = port[p].CLB /\ port'[p].FB = port[p].FB
        BY <2>1, <3>2 DEF ClearStart, PortT
      <4> QED
        BY <4>1
    <3> QED
      BY <3>1, <3>2
  <2>3. CASE \E dst \in Buffers : ClearBuffer(dst)
    BY <2>3 DEF ClearBuffer
  <2>4. CASE SetCommandListBase
    BY <2>1, <2>4 DEF SetCommandListBase, InitStep, Set, PortT, EngineInv, InitProgress, InitPoints
  <2>5. CASE SetFISBase
    BY <2>1, <2>5 DEF SetFISBase, InitStep, Set, PortT, EngineInv, InitProgress, InitPoints
  <2>6. CASE StopWaitFR \/ FillHeaders
    BY <2>6 DEF StopWaitFR, FillHeaders
  <2>9. CASE StopWaitCR \/ EnableFIS \/ StartCommand
    <3>1. \/ Set(call.port, "FRE", FALSE) \/ Set(call.port, "FRE", TRUE)
          \/ Set(call.port, "ST", TRUE)
      BY <2>9 DEF StopWaitCR, EnableFIS, StartCommand
    <3>2. port'[p].CLB = port[p].CLB /\ port'[p].FB = port[p].FB
      BY <2>1, <3>1 DEF Set, PortT
    <3> QED
      BY <3>2
  <2>7. CASE Read
    <3>1. pc \in ReadPoints
      BY <2>7 DEF ReadPoints, Read, PollBusy, BusyTimeout, DeviceReady, FindSlot, NoSlot, WriteHeader,
           WriteTable, ClearInterruptStatus, IssueCommand, Completed, StillIssued, Failed, KeepPolling
    <3> QED
      BY <2>1, <2>7, <3>1, ReadRegisters DEF EngineInv, ReadCall, SameBases
  <2>8. ASSUME NEW q \in Ports, Hba(q)
        PROVE  port'[p].CLB = port[p].CLB /\ port'[p].FB = port[p].FB
    BY <2>1, <2>8, HbaRegisters DEF SameBases
  <2> QED
    BY <2>2, <2>3, <2>4, <2>5, <2>6, <2>7, <2>8, <2>9 DEF ClientNext, Initialize
<1>2. ClientSpec => []EngineInv
  BY EngineInvariance
<1> QED
  BY <1>1, <1>2, PTL DEF ClientSpec, BasesMoveStopped
-----------------------------------------------------------------------------
(* A PRD table of a read of up to 128 sectors stays in its command table.   *)
LEMMA OwnTableOnly ==
  ASSUME NEW c, c.sectors \in 1 .. 128, NEW s \in Slots
  PROVE  TablesReached(s, PRDTableLength(c)) \subseteq {s}
<1>1. PRDTableLength(c) \in 1 .. 8
  <2>1. ((c.sectors - 1) \div 16) + 1 \in 1 .. 8
    OBVIOUS
  <2> QED
    BY <2>1 DEF PRDTableLength
<1>2. ASSUME NEW t \in Slots, t >= s, 256 * (t - s) < 128 + 16 * PRDTableLength(c)
      PROVE  t = s
  <2>1. t \in Nat /\ s \in Nat /\ 16 * PRDTableLength(c) <= 128
    BY <1>1, SlotsFact
  <2>2. 256 * (t - s) < 256
    <3> DEFINE n == PRDTableLength(c)
    <3>1. n \in Nat /\ n <= 8 /\ 256 * (t - s) < 128 + 16 * n
      BY <1>1, <1>2
    <3> HIDE DEF n
    <3> QED
      BY <2>1, <3>1
  <2> QED
    BY <1>2, <2>1, <2>2
<1> QED
  BY <1>2 DEF TablesReached

(* What a command of one call leaves in its buffer is what it asked for. *)
LEMMA DataOfCall ==
  ASSUME NEW c, c.sectors \in 1 .. 128
  PROVE  DataOf(c.port, TableOf(c)) = DataAsked(c)
<1> DEFINE n == CountAsked(c)
<1>1. n \in Nat /\ n <= c.sectors
  <2>1. LET k == ((c.sectors - 1) \div 16) + 1 IN
          c.sectors - 16 * (k - 1) \in Nat /\ c.sectors - 16 * (k - 1) <= c.sectors
    OBVIOUS
  <2> QED
    BY <2>1 DEF CountAsked, PRDTableLength
<1>2. Min({c.sectors, n}) = n
  <2>1. \A x \in {c.sectors, n} : n <= x
    BY <1>1
  <2>2. Min({c.sectors, n}) \in {c.sectors, n} /\ \A y \in {c.sectors, n} : Min({c.sectors, n}) <= y
    BY <2>1 DEF Min
  <2> QED
    BY <1>1, <2>1, <2>2
<1> QED
  BY <1>2 DEF DataOf, TableOf, DataAsked

(* On a running port the slots the adapter may still carry out are those in *)
(* its list; on a stopped one there are none.                               *)
LEMMA SlotsOutstanding ==
  ASSUME EngineInv, NEW p \in Ports
  PROVE  /\ OutstandingSlots(p) \subseteq Slots
         /\ port[p].ST => OutstandingSlots(p) = port[p].CI
         /\ ~port[p].ST /\ ~port[p].CR => OutstandingSlots(p) = {}
         /\ port[p].CLB = Firmware => OutstandingSlots(p) = {}
BY DEF EngineInv, AhciTypeOK, PortT, ExecT, Engines, OutstandingSlots

(* Commands that are not written over, and of which the adapter has no more *)
(* than before, stay intact.                                                *)
LEMMA CommandsStay ==
  ASSUME CommandsIntact, UNCHANGED <<header, table, issued>>,
         \A p \in Ports : OutstandingSlots(p)' \subseteq OutstandingSlots(p) /\ port'[p].CLB = port[p].CLB
  PROVE  CommandsIntact'
BY DEF CommandsIntact, HeaderOf, TableOf, PRDTableLength, CountAsked

(* The adapter has never more commands than it was given. *)
LEMMA HbaOutstanding ==
  ASSUME EngineInv, NEW p \in Ports, Hba(p)
  PROVE  \A q \in Ports : OutstandingSlots(q)' \subseteq OutstandingSlots(q)
<1>1. \A q \in Ports \ {p} : OutstandingSlots(q)' = OutstandingSlots(q)
  BY HbaRegisters DEF EngineInv, OutstandingSlots
<1>2. OutstandingSlots(p)' \subseteq OutstandingSlots(p)
  <2>1. port'[p].CI \subseteq port[p].CI
    BY HbaRegisters DEF EngineInv
  <2>2. exec'[p].state = "run" => exec'[p] = exec[p] \/ exec'[p].slot \in port[p].CI
    BY HbaRegisters DEF EngineInv
  <2> QED
    BY <2>1, <2>2 DEF OutstandingSlots
<1> QED
  BY <1>1, <1>2

(* The controller reads commands and does not change them. *)
LEMMA HbaCommands ==
  ASSUME Sectors \subseteq 1 .. 128, EngineInv, CommandInv, NEW p \in Ports, Hba(p)
  PROVE  CommandInv'
<1>1. /\ UNCHANGED <<header, table, pc, call, slot, timeout, result, issued>>
      /\ \A q \in Ports : port'[q].CLB = port[q].CLB /\ port'[q].CI \subseteq port[q].CI
      /\ \A q \in Ports : OutstandingSlots(q)' \subseteq OutstandingSlots(q)
  <2>1. \A q \in Ports : port'[q].CI \subseteq port[q].CI
    BY HbaRegisters DEF EngineInv
  <2> QED
    BY <2>1, HbaRegisters, HbaOutstanding DEF EngineInv, SameBases
<1>2. ReadProgress'
  BY <1>1 DEF CommandInv, ReadProgress, EngineInv, ReadCall, ReadPoints, HeaderOf, TableOf,
       PRDTableLength, CountAsked
<1>3. CommandsIntact'
  BY <1>1, CommandsStay DEF CommandInv
<1>4. TrueMeansOver'
  BY <1>1 DEF CommandInv, TrueMeansOver, Answered, Outstanding
<1> DEFINE s == exec[p].slot
           given == issued[p][s]
<1>5. HbaTransfer(p) => /\ s \in OutstandingSlots(p)
                        /\ data' = [data EXCEPT ![given.buffer] = DataOf(p, TableOf(given))]
                        /\ exec'[p].slot = s /\ UNCHANGED port
  <2> SUFFICES ASSUME HbaTransfer(p)
               PROVE  /\ s \in OutstandingSlots(p)
                      /\ data' = [data EXCEPT ![given.buffer] = DataOf(p, TableOf(given))]
                      /\ exec'[p].slot = s /\ UNCHANGED port
    OBVIOUS
  <2>1. s \in OutstandingSlots(p)
    BY DEF HbaTransfer, OutstandingSlots
  <2>2. table[port[p].CLB][s] = TableOf(given)
    BY <2>1 DEF CommandInv, CommandsIntact
  <2>3. data' = [data EXCEPT ![given.buffer] = DataOf(p, TableOf(given))]
    <3>1. TableOf(given).buffer = given.buffer
      BY DEF TableOf
    <3> QED
      BY <2>2, <3>1 DEF HbaTransfer
  <2> QED
    BY <2>1, <2>3 DEF HbaTransfer, EngineInv, AhciTypeOK, ExecT
<1>6. HbaTransfer(p) \/ UNCHANGED data
  BY DEF Hba, HbaStop, HbaStart, HbaReceive, HbaReady, HbaFetch, HbaComplete, HbaError
<1>7. DOMAIN data = Buffers
  BY DEF EngineInv, MemoryShape
<1>8. TrueMeansData'
  <2> SUFFICES ASSUME Answered, result PROVE data'[call.buffer] = DataAsked(call)
    BY <1>1 DEF TrueMeansData, Answered, DataAsked, CountAsked, PRDTableLength
  <2>1. data[call.buffer] = DataAsked(call)
    BY DEF CommandInv, TrueMeansData
  <2>2. HbaTransfer(p) => given.buffer # call.buffer
    BY <1>5 DEF CommandInv, TrueMeansOver, Outstanding
  <2>3. call.buffer \in Buffers
    BY DEF EngineInv, Arguments, Answered
  <2> QED
    BY <1>5, <1>6, <1>7, <2>1, <2>2, <2>3
<1>9. ReadInHand'
  <2> DEFINE Done(P, E) ==
               \/ slot \notin P[call.port].CI
               \/ E[call.port].state = "done" /\ E[call.port].slot = slot
  <2> SUFFICES ASSUME pc \in ReadPoints, ~call.shared
      PROVE  /\ \A q \in Ports : \A k \in OutstandingSlots(q)' :
                  issued[q][k].buffer = call.buffer =>
                    pc \in {"poll_ci", "poll_is"} /\ q = call.port /\ k = slot
             /\ pc \in {"poll_ci", "poll_is"} =>
                  /\ issued[call.port][slot] = call
                  /\ Done(port', exec') => data'[call.buffer] = DataAsked(call)
    BY <1>1 DEF ReadInHand, DataAsked, CountAsked, PRDTableLength
  <2>1. /\ call.port \in Ports /\ call.buffer \in Buffers /\ call.sectors \in 1 .. 128
        /\ port[call.port].ST
    BY DEF EngineInv, ReadCall, Arguments
  <2>2. /\ \A q \in Ports : \A k \in OutstandingSlots(q) :
             issued[q][k].buffer = call.buffer =>
               pc \in {"poll_ci", "poll_is"} /\ q = call.port /\ k = slot
        /\ pc \in {"poll_ci", "poll_is"} =>
             /\ issued[call.port][slot] = call
             /\ Done(port, exec) => data[call.buffer] = DataAsked(call)
    BY DEF CommandInv, ReadInHand
  <2>3. ASSUME pc \in {"poll_ci", "poll_is"}, Done(port', exec')
        PROVE  data'[call.buffer] = DataAsked(call)
    <3>1. CASE HbaTransfer(p) /\ given.buffer = call.buffer
      <4>1. p = call.port /\ s = slot /\ given = call
        BY <1>5, <2>2, <3>1
      <4>2. data'[call.buffer] = DataOf(call.port, TableOf(call))
        BY <1>5, <1>7, <2>1, <3>1, <4>1
      <4> QED
        BY <2>1, <4>2, DataOfCall
    <3>2. CASE HbaTransfer(p) /\ given.buffer # call.buffer
      <4>1. data'[call.buffer] = data[call.buffer]
        BY <1>5, <1>7, <2>1, <3>2
      <4>2. ~(p = call.port /\ s = slot)
        BY <2>2, <2>3, <3>2
      <4>3. Done(port, exec)
        <5>1. UNCHANGED port /\ exec' = [exec EXCEPT ![p].state = "done"] /\ exec \in [Ports -> ExecT]
          BY <3>2 DEF HbaTransfer, EngineInv, AhciTypeOK
        <5> QED
          BY <2>1, <2>3, <4>2, <5>1 DEF ExecT
      <4> QED
        BY <2>2, <2>3, <4>1, <4>3
    <3>3. CASE UNCHANGED data /\ ~HbaTransfer(p)
      <4>1. Done(port, exec)
        <5>1. CASE call.port = p /\ HbaComplete(p)
          <6>1. exec[p].state = "done" /\ port'[p].CI = port[p].CI \ {exec[p].slot} /\ exec'[p].state = "idle"
            <7>1. port \in [Ports -> PortT] /\ exec[p].state = "done"
              BY <5>1 DEF EngineInv, HbaComplete, AhciTypeOK
            <7>2. port'[p].CI = port[p].CI \ {exec[p].slot}
              BY <5>1, <7>1 DEF HbaComplete, PortT
            <7> QED
              BY <5>1, <7>1, <7>2, HbaRegisters DEF EngineInv
          <6> QED
            BY <2>3, <5>1, <6>1
        <5>2. CASE call.port = p /\ ~HbaComplete(p)
          BY <2>3, <3>3, <5>2, HbaRegisters DEF EngineInv
        <5>3. CASE call.port # p
          BY <2>1, <2>3, <5>3, HbaRegisters DEF EngineInv
        <5> QED
          BY <5>1, <5>2, <5>3
      <4> QED
        BY <2>2, <2>3, <3>3, <4>1
    <3> QED
      BY <1>6, <3>1, <3>2, <3>3
  <2> QED
    BY <1>1, <2>2, <2>3
<1> QED
  BY <1>2, <1>3, <1>4, <1>8, <1>9 DEF CommandInv
(* No command is outstanding before the first call. *)
LEMMA InitCommandInv == AhciInit => CommandInv
<1> SUFFICES ASSUME AhciInit PROVE CommandInv
  OBVIOUS
<1>1. \A p \in Ports : OutstandingSlots(p) = {}
  BY DEF AhciInit, OutstandingSlots
<1>2. pc = "idle" /\ call.op = "none"
  BY DEF AhciInit, NoCall
<1> QED
  BY <1>1, <1>2 DEF CommandInv, ReadProgress, CommandsIntact, ReadInHand, ReadPoints,
       TrueMeansOver, TrueMeansData, Answered

(* Initialize rewrites the list of a port whose commands are all taken back. *)
LEMMA InitializeCommands ==
  ASSUME EngineInv, CommandInv, Initialize
  PROVE  CommandInv'
<1> DEFINE c == call.port
<1>1. /\ pc \in InitPoints /\ c \in Ports /\ call.base \in Bases /\ IsOwn(call.base, c) /\ ~port[c].ST
      /\ call.op = "init" /\ port \in [Ports -> PortT]
  BY DEF EngineInv, AhciTypeOK, InitProgress, Initialize, InitPoints, InitStep, StopWaitCR, StopWaitFR,
       SetCommandListBase, SetFISBase, EnableFIS, FillHeaders, StartCommand
<1>2. UNCHANGED <<exec, call, issued, data>> /\ pc' \in InitPoints \cup {"idle"}
  BY DEF Initialize, InitStep, StopWaitCR, StopWaitFR, SetCommandListBase, SetFISBase, EnableFIS,
       FillHeaders, StartCommand, Return, Goto, locals, memory, InitPoints
<1>3. \A q \in Ports \ {c} : port'[q] = port[q]
  BY <1>1 DEF Initialize, Set, StopWaitCR, StopWaitFR, SetCommandListBase, SetFISBase, EnableFIS,
       FillHeaders, StartCommand
<1>4. port'[c].CI = port[c].CI
  <2>1. CASE StopWaitCR \/ StopWaitFR \/ SetCommandListBase
    BY <1>1, <2>1 DEF StopWaitCR, StopWaitFR, SetCommandListBase, Set, PortT
  <2>2. CASE SetFISBase \/ EnableFIS
    BY <1>1, <2>2 DEF SetFISBase, EnableFIS, Set, PortT
  <2>3. CASE FillHeaders \/ StartCommand
    BY <1>1, <2>3 DEF FillHeaders, StartCommand, Set, PortT
  <2> QED
    BY <2>1, <2>2, <2>3 DEF Initialize
<1>5. \A q \in Ports : OutstandingSlots(q)' = OutstandingSlots(q)
  BY <1>2, <1>3, <1>4 DEF OutstandingSlots
<1>6. CommandsIntact'
  <2>1. CASE StopWaitCR \/ StopWaitFR \/ SetFISBase \/ EnableFIS \/ StartCommand
    <3>1. UNCHANGED <<header, table>>
      BY <2>1 DEF StopWaitCR, StopWaitFR, SetFISBase, EnableFIS, StartCommand, memory
    <3>2. port'[c].CLB = port[c].CLB
      <4>1. CASE StopWaitCR \/ StopWaitFR \/ SetFISBase
        BY <1>1, <4>1 DEF StopWaitCR, StopWaitFR, SetFISBase, Set, PortT
      <4>2. CASE EnableFIS \/ StartCommand
        BY <1>1, <4>2 DEF EnableFIS, StartCommand, Set, PortT
      <4> QED
        BY <2>1, <4>1, <4>2
    <3> QED
      BY <1>2, <1>3, <1>5, <3>1, <3>2, CommandsStay DEF CommandInv
  <2>2. CASE SetCommandListBase \/ FillHeaders
    <3>1. pc # "stop_cr"
      BY <2>2 DEF SetCommandListBase, FillHeaders, InitStep
    <3>2. OutstandingSlots(c) = {}
      BY <1>1, <3>1, SlotsOutstanding DEF EngineInv, InitProgress
    <3>3. \A b \in Bases \ {call.base} : header'[b] = header[b] /\ table'[b] = table[b]
      BY <2>2 DEF SetCommandListBase, FillHeaders, EngineInv, MemoryShape
    <3>4. ASSUME NEW q \in Ports, NEW k \in OutstandingSlots(q)
          PROVE  /\ header'[port'[q].CLB][k] = HeaderOf(issued[q][k])
                 /\ table'[port'[q].CLB][k] = TableOf(issued[q][k])
      <4>1. q # c /\ port'[q] = port[q]
        BY <1>3, <3>2, <3>4
      <4>2. port[q].CLB \in Bases \ {call.base}
        <5>1. port[q].CLB \in Bases \cup {Firmware} /\ port[q].CLB # call.base
          BY <1>1, <4>1 DEF IsOwn, PortT
        <5> QED
          BY <3>4, <5>1, SlotsOutstanding
      <4> QED
        BY <3>3, <3>4, <4>1, <4>2 DEF CommandInv, CommandsIntact
    <3> QED
      BY <1>2, <1>5, <3>4 DEF CommandsIntact, HeaderOf, TableOf, PRDTableLength, CountAsked
  <2> QED
    BY <2>1, <2>2 DEF Initialize
<1>7. ReadProgress' /\ ReadInHand' /\ TrueMeansOver' /\ TrueMeansData'
  BY <1>1, <1>2 DEF ReadProgress, ReadInHand, ReadPoints, InitPoints, TrueMeansOver, TrueMeansData, Answered
<1> QED
  BY <1>6, <1>7 DEF CommandInv

(* A read writes the header and the table of a slot that is not outstanding, *)
(* in a list that no other port reads.                                       *)
LEMMA WritesApart ==
  ASSUME EngineInv, CommandInv, pc \in {"header", "table"},
         NEW q \in Ports, NEW k \in OutstandingSlots(q)
  PROVE  /\ port[q].CLB \in Bases /\ k \in Slots
         /\ port[q].CLB = call.base => k # slot
<1>1. /\ call.port \in Ports /\ call.base = port[call.port].CLB /\ port[call.port].ST
      /\ call.base \in Bases /\ slot \notin port[call.port].CI
  BY DEF EngineInv, ReadCall, ReadPoints, CommandInv, ReadProgress
<1>2. port[q].CLB \in Bases /\ k \in Slots
  <2>1. port[q].CLB \in Bases \cup {Firmware}
    BY DEF EngineInv, AhciTypeOK, PortT
  <2> QED
    BY <2>1, SlotsOutstanding
<1>3. port[q].CLB = call.base => q = call.port
  BY <1>1, SlotsFact DEF EngineInv, ListsApart
<1> QED
  BY <1>1, <1>2, <1>3, SlotsOutstanding

(* What no port has outstanding may be written. *)
LEMMA WrittenApart ==
  ASSUME CommandsIntact, UNCHANGED issued,
         \A q \in Ports : port'[q].CLB = port[q].CLB /\ OutstandingSlots(q)' = OutstandingSlots(q),
         \A q \in Ports : \A k \in OutstandingSlots(q) :
           /\ header'[port[q].CLB][k] = header[port[q].CLB][k]
           /\ table'[port[q].CLB][k] = table[port[q].CLB][k]
  PROVE  CommandsIntact'
<1>1. ASSUME NEW q \in Ports, NEW k \in OutstandingSlots(q)
      PROVE  /\ header'[port'[q].CLB][k] = HeaderOf(issued'[q][k])
             /\ table'[port'[q].CLB][k] = TableOf(issued'[q][k])
  BY <1>1 DEF CommandsIntact
<1> QED
  BY <1>1 DEF CommandsIntact, HeaderOf, TableOf, PRDTableLength, CountAsked

(* The steps of a read that neither issue the command nor return. *)
LEMMA ReadMoves ==
  ASSUME Sectors \subseteq 1 .. 128, EngineInv, CommandInv,
         \/ PollBusy \/ DeviceReady \/ FindSlot \/ WriteHeader \/ WriteTable
         \/ ClearInterruptStatus \/ StillIssued \/ KeepPolling
  PROVE  CommandInv'
<1>1. /\ call.port \in Ports /\ call.base \in Bases /\ call.sectors \in 1 .. 128
      /\ slot \in Slots /\ port \in [Ports -> PortT]
  BY DEF EngineInv, AhciTypeOK, ReadCall, ReadPoints, Arguments, PollBusy, DeviceReady, FindSlot,
       WriteHeader, WriteTable, ClearInterruptStatus, StillIssued, KeepPolling
<1>2. /\ UNCHANGED <<exec, call, issued, data>> /\ pc' # "idle"
      /\ pc' \in {"poll_ci", "poll_is"} => pc \in {"poll_ci", "poll_is"} /\ slot' = slot
      /\ pc \in {"poll_ci", "poll_is"} => pc' \in {"poll_ci", "poll_is"} /\ slot' = slot
      /\ pc \in ReadPoints
  BY DEF PollBusy, DeviceReady, FindSlot, WriteHeader, WriteTable, ClearInterruptStatus, StillIssued,
       KeepPolling, Goto, locals, memory, ReadPoints
<1>3. \A q \in Ports : port'[q].CI = port[q].CI /\ port'[q].CLB = port[q].CLB
  <2>1. CASE ClearInterruptStatus
    BY <1>1, <2>1 DEF ClearInterruptStatus, Set, PortT
  <2>2. CASE UNCHANGED port
    BY <2>2
  <2> QED
    BY <2>1, <2>2 DEF PollBusy, DeviceReady, FindSlot, WriteHeader, WriteTable, StillIssued, KeepPolling
<1>4. \A q \in Ports : OutstandingSlots(q)' = OutstandingSlots(q)
  BY <1>2, <1>3 DEF OutstandingSlots
<1>5. TrueMeansOver' /\ TrueMeansData'
  BY <1>2 DEF TrueMeansOver, TrueMeansData, Answered
<1>6. ReadInHand'
  BY <1>1, <1>2, <1>3, <1>4 DEF CommandInv, ReadInHand, DataAsked, CountAsked, PRDTableLength
<1>7. CASE FindSlot
  <2>1. FreeSlots(call.port) \subseteq Nat /\ FreeSlots(call.port) # {}
    BY <1>7, SlotsFact DEF FindSlot, FreeSlots
  <2>2. slot' \in FreeSlots(call.port) /\ UNCHANGED <<header, table>> /\ pc' = "header"
    BY <1>7, <2>1, LeastElement DEF FindSlot, Goto, memory
  <2>3. ReadProgress'
    BY <1>1, <1>2, <1>3, <2>2 DEF ReadProgress, FreeSlots
  <2>4. CommandsIntact'
    BY <1>2, <1>3, <1>4, <2>2, CommandsStay DEF CommandInv
  <2> QED
    BY <1>5, <1>6, <2>3, <2>4 DEF CommandInv
<1>8. CASE WriteHeader
  <2>1. /\ pc = "header" /\ pc' = "table" /\ UNCHANGED <<table, slot>>
        /\ header' = [header EXCEPT ![call.base][slot] = HeaderOf(call)]
    BY <1>8 DEF WriteHeader, Goto, locals
  <2>2. /\ header'[call.base][slot] = HeaderOf(call)
        /\ \A b \in Bases, k \in Slots : b # call.base \/ k # slot => header'[b][k] = header[b][k]
    BY <1>1, <2>1 DEF EngineInv, MemoryShape
  <2>3. ReadProgress'
    BY <1>1, <1>2, <1>3, <2>1, <2>2 DEF CommandInv, ReadProgress, HeaderOf, PRDTableLength
  <2>4. ASSUME NEW q \in Ports, NEW k \in OutstandingSlots(q)
        PROVE  header'[port[q].CLB][k] = header[port[q].CLB][k]
    BY <2>1, <2>2, <2>4, WritesApart
  <2>5. CommandsIntact'
    BY <1>2, <1>3, <1>4, <2>1, <2>4, WrittenApart DEF CommandInv
  <2> QED
    BY <1>5, <1>6, <2>3, <2>5 DEF CommandInv
<1>9. CASE WriteTable
  <2>1. /\ pc = "table" /\ pc' = "is" /\ UNCHANGED <<header, slot>>
        /\ table' = [table EXCEPT ![call.base] =
             [t \in Slots |->
                IF t = slot THEN TableOf(call)
                ELSE IF t \in TablesReached(slot, PRDTableLength(call)) THEN NoTable
                ELSE table[call.base][t]]]
    BY <1>1, <1>9 DEF WriteTable, Goto, locals, EngineInv, MemoryShape
  <2>2. TablesReached(slot, PRDTableLength(call)) \subseteq {slot}
    BY <1>1, OwnTableOnly
  <2>3. /\ table'[call.base][slot] = TableOf(call)
        /\ \A b \in Bases, k \in Slots : b # call.base \/ k # slot => table'[b][k] = table[b][k]
    BY <1>1, <2>1, <2>2 DEF EngineInv, MemoryShape
  <2>4. ReadProgress'
    BY <1>1, <1>2, <1>3, <2>1, <2>3 DEF CommandInv, ReadProgress, HeaderOf, TableOf, PRDTableLength, CountAsked
  <2>5. ASSUME NEW q \in Ports, NEW k \in OutstandingSlots(q)
        PROVE  table'[port[q].CLB][k] = table[port[q].CLB][k]
    BY <2>1, <2>3, <2>5, WritesApart
  <2>6. CommandsIntact'
    BY <1>2, <1>3, <1>4, <2>1, <2>5, WrittenApart DEF CommandInv
  <2> QED
    BY <1>5, <1>6, <2>4, <2>6 DEF CommandInv
<1>10. CASE PollBusy \/ DeviceReady \/ ClearInterruptStatus \/ StillIssued \/ KeepPolling
  <2>1. /\ UNCHANGED <<header, table, slot>>
        /\ pc' \in {"header", "table", "is", "ci"} => pc = "is" /\ pc' = "ci"
    BY <1>10 DEF PollBusy, DeviceReady, ClearInterruptStatus, StillIssued, KeepPolling, Goto, locals, memory
  <2>2. ReadProgress'
    BY <1>1, <1>2, <1>3, <2>1 DEF CommandInv, ReadProgress, HeaderOf, TableOf, PRDTableLength, CountAsked
  <2>3. CommandsIntact'
    BY <1>2, <1>3, <1>4, <2>1, CommandsStay DEF CommandInv
  <2> QED
    BY <1>5, <1>6, <2>2, <2>3 DEF CommandInv
<1> QED
  BY <1>7, <1>8, <1>9, <1>10

(* Issuing hands the adapter what was written for the slot. *)
LEMMA IssueCommands ==
  ASSUME EngineInv, CommandInv, IssueCommand
  PROVE  CommandInv'
<1>1. /\ pc = "ci" /\ pc' = "poll_ci" /\ UNCHANGED <<exec, header, table, data, call, slot>>
      /\ issued' = [issued EXCEPT ![call.port][slot] = call]
      /\ port' = [port EXCEPT ![call.port].CI = port[call.port].CI \cup {slot}]
  BY DEF IssueCommand, Goto, Set, memory
<1>2. /\ call.port \in Ports /\ call.base \in Bases /\ call.base = port[call.port].CLB
      /\ port[call.port].ST /\ slot \in Slots /\ port \in [Ports -> PortT]
      /\ slot \notin port[call.port].CI
      /\ header[call.base][slot] = HeaderOf(call) /\ table[call.base][slot] = TableOf(call)
  BY <1>1 DEF EngineInv, AhciTypeOK, ReadCall, ReadPoints, CommandInv, ReadProgress
<1>3. /\ \A q \in Ports : port'[q].CLB = port[q].CLB
      /\ \A q \in Ports \ {call.port} : port'[q] = port[q]
      /\ port'[call.port].CI = port[call.port].CI \cup {slot}
  BY <1>1, <1>2 DEF PortT
<1>4. /\ issued'[call.port][slot] = call
      /\ \A q \in Ports, k \in Slots :
           q # call.port \/ k # slot => issued'[q][k] = issued[q][k]
  BY <1>1, <1>2 DEF EngineInv, MemoryShape
<1>5. \A q \in Ports : \A k \in OutstandingSlots(q)' :
        \/ q = call.port /\ k = slot
        \/ k \in OutstandingSlots(q) /\ k \in Slots /\ issued'[q][k] = issued[q][k]
  <2> SUFFICES ASSUME NEW q \in Ports, NEW k \in OutstandingSlots(q)', ~(q = call.port /\ k = slot)
               PROVE  k \in OutstandingSlots(q) /\ k \in Slots /\ issued'[q][k] = issued[q][k]
    OBVIOUS
  <2>1. k \in OutstandingSlots(q)
    BY <1>1, <1>3 DEF OutstandingSlots
  <2>2. k \in Slots
    BY <2>1, SlotsOutstanding
  <2> QED
    BY <1>4, <2>1, <2>2
<1>6. CommandsIntact'
  <2>1. ASSUME NEW q \in Ports, NEW k \in OutstandingSlots(q)'
        PROVE  /\ header[port[q].CLB][k] = HeaderOf(issued'[q][k])
               /\ table[port[q].CLB][k] = TableOf(issued'[q][k])
    <3>1. CASE q = call.port /\ k = slot
      BY <1>2, <1>4, <3>1
    <3>2. CASE ~(q = call.port /\ k = slot)
      BY <1>5, <2>1, <3>2 DEF CommandInv, CommandsIntact
    <3> QED
      BY <3>1, <3>2
  <2>2. \A q \in Ports : \A k \in OutstandingSlots(q)' :
          /\ header'[port'[q].CLB][k] = HeaderOf(issued'[q][k])
          /\ table'[port'[q].CLB][k] = TableOf(issued'[q][k])
    BY <1>1, <1>3, <2>1
  <2> QED
    BY <2>2 DEF CommandsIntact, HeaderOf, TableOf, PRDTableLength, CountAsked
<1>7. ReadInHand'
  <2>1. ~(exec[call.port].state = "done" /\ exec[call.port].slot = slot)
    BY <1>2 DEF EngineInv, Engines
  <2> QED
    BY <1>1, <1>2, <1>3, <1>4, <1>5, <2>1 DEF CommandInv, ReadInHand, ReadPoints
<1>8. ReadProgress' /\ TrueMeansOver' /\ TrueMeansData'
  BY <1>1 DEF ReadProgress, TrueMeansOver, TrueMeansData, Answered
<1> QED
  BY <1>6, <1>7, <1>8 DEF CommandInv

(* A read writes the header and table of a slot nobody uses. *)
LEMMA ReadCommands ==
  ASSUME Sectors \subseteq 1 .. 128, EngineInv, CommandInv, Read
  PROVE  CommandInv'
<1>1. CASE BusyTimeout \/ NoSlot \/ Failed \/ Completed
  <2>1. UNCHANGED <<port, exec, header, table, data, call, issued>> /\ pc' = "idle" /\ pc \in ReadPoints
    BY <1>1 DEF BusyTimeout, NoSlot, Failed, Completed, Fail, Return, Goto, memory, ReadPoints
  <2>2. \A q \in Ports : OutstandingSlots(q)' = OutstandingSlots(q)
    BY <2>1 DEF OutstandingSlots
  <2>3. CommandsIntact'
    BY <2>1, <2>2, CommandsStay DEF CommandInv
  <2>4. ReadProgress' /\ ReadInHand'
    BY <2>1 DEF ReadProgress, ReadInHand, ReadPoints
  <2>5. TrueMeansOver' /\ TrueMeansData'
    <3>1. CASE BusyTimeout \/ NoSlot \/ Failed
      <4>1. result' = FALSE
        BY <3>1 DEF BusyTimeout, NoSlot, Failed, Fail, Return
      <4> QED
        BY <4>1 DEF TrueMeansOver, TrueMeansData
    <3>2. CASE Completed
      <4>1. pc = "poll_ci" /\ slot \notin port[call.port].CI
        BY <3>2 DEF Completed
      <4>2. call.port \in Ports /\ port[call.port].ST
        BY <2>1 DEF EngineInv, ReadCall
      <4>3. OutstandingSlots(call.port) = port[call.port].CI
        BY <4>2, SlotsOutstanding
      <4>4. ~call.shared =>
              /\ data[call.buffer] = DataAsked(call)
              /\ \A q \in Ports : \A k \in OutstandingSlots(q) : issued[q][k].buffer # call.buffer
        BY <2>1, <4>1, <4>3 DEF CommandInv, ReadInHand
      <4> QED
        BY <2>1, <2>2, <4>4 DEF TrueMeansOver, TrueMeansData, Answered, Outstanding, DataAsked, CountAsked,
             PRDTableLength
    <3> QED
      BY <1>1, <3>1, <3>2
  <2> QED
    BY <2>3, <2>4, <2>5 DEF CommandInv
<1> QED
  BY <1>1, ReadMoves, IssueCommands DEF Read

(* A call leaves the commands alone, but for those it takes back. *)
LEMMA CallCommands ==
  ASSUME EngineInv, CommandInv, Call
  PROVE  CommandInv'
<1>1. port \in [Ports -> PortT]
  BY DEF EngineInv, AhciTypeOK
<1>2. ASSUME NEW p \in Ports, NEW clb \in Bases, CallInitialize(p, clb) PROVE CommandInv'
  <2>1. /\ UNCHANGED <<exec, header, table, data, issued>> /\ call'.op = "init"
        /\ pc' \in {"idle", "stop_cr"}
    BY <1>2 DEF CallInitialize, Return, Goto, memory, NoCall
  <2>2. UNCHANGED port \/ ClearStart(p)
    BY <1>2 DEF CallInitialize
  <2>3. \A q \in Ports : port'[q].CLB = port[q].CLB /\ port'[q].CI \subseteq port[q].CI
    <3>1. CASE ClearStart(p)
      BY <1>1, <3>1 DEF ClearStart, PortT
    <3> QED
      BY <2>2, <3>1
  <2>4. CommandsIntact'
    <3>1. \A q \in Ports : OutstandingSlots(q)' \subseteq OutstandingSlots(q)
      BY <2>1, <2>3 DEF OutstandingSlots
    <3> QED
      BY <2>1, <2>3, <3>1, CommandsStay DEF CommandInv
  <2>5. ReadProgress' /\ ReadInHand' /\ TrueMeansOver' /\ TrueMeansData'
    BY <2>1 DEF ReadProgress, ReadInHand, ReadPoints, TrueMeansOver, TrueMeansData, Answered
  <2> QED
    BY <2>4, <2>5 DEF CommandInv
<1>3. ASSUME NEW p \in Ports, NEW op, NEW lba, NEW n, NEW dst, CallRead(op, p, lba, n, dst)
      PROVE  CommandInv'
  <2>1. /\ UNCHANGED <<port, exec, header, table, data, issued>> /\ pc' = "busy"
        /\ call'.buffer = dst
        /\ call'.shared = \E q \in Ports : \E c \in Outstanding(q) : c.buffer = dst
    BY <1>3 DEF CallRead, Goto, memory
  <2>2. \A q \in Ports : OutstandingSlots(q)' = OutstandingSlots(q)
    BY <2>1 DEF OutstandingSlots
  <2>3. CommandsIntact'
    BY <2>1, <2>2, CommandsStay DEF CommandInv
  <2>4. ~call'.shared =>
          \A q \in Ports : \A k \in OutstandingSlots(q) : issued[q][k].buffer # dst
    BY <2>1 DEF Outstanding
  <2>5. ReadInHand'
    BY <2>1, <2>2, <2>4 DEF ReadInHand
  <2>6. ReadProgress' /\ TrueMeansOver' /\ TrueMeansData'
    BY <2>1 DEF ReadProgress, TrueMeansOver, TrueMeansData, Answered
  <2> QED
    BY <2>3, <2>5, <2>6 DEF CommandInv
<1> QED
  BY <1>2, <1>3 DEF Call

(* Every step keeps the invariant of the commands. *)
LEMMA NextCommands ==
  ASSUME Sectors \subseteq 1 .. 128
  PROVE  AInv /\ [ClientNext]_ahciVars => AInv'
<1> SUFFICES ASSUME EngineInv, CommandInv, [ClientNext]_ahciVars PROVE CommandInv'
  BY NextEngine DEF AInv
<1>1. CASE (\E dst \in Buffers : ClearBuffer(dst)) \/ UNCHANGED ahciVars
  <2>1. /\ UNCHANGED <<port, exec, header, table, issued, pc, slot, result>>
        /\ UNCHANGED <<data, call>> \/ (pc = "idle" /\ call'.op = "none")
    BY <1>1 DEF ClearBuffer, ahciVars, memory, locals, NoCall
  <2>2. \A q \in Ports : OutstandingSlots(q)' = OutstandingSlots(q)
    BY <2>1 DEF OutstandingSlots
  <2>3. CommandsIntact'
    BY <2>1, <2>2, CommandsStay DEF CommandInv
  <2>4. CASE UNCHANGED <<data, call>>
    <3>1. ReadProgress'
      BY <2>1, <2>4 DEF CommandInv, ReadProgress, HeaderOf, TableOf, PRDTableLength, CountAsked
    <3>2. ReadInHand' /\ TrueMeansData'
      BY <2>1, <2>2, <2>4 DEF CommandInv, ReadInHand, TrueMeansData, Answered, DataAsked, CountAsked, PRDTableLength
    <3>3. TrueMeansOver'
      BY <2>1, <2>2, <2>4 DEF CommandInv, TrueMeansOver, Answered, Outstanding
    <3> QED
      BY <2>3, <3>1, <3>2, <3>3 DEF CommandInv
  <2>5. CASE pc = "idle" /\ call'.op = "none"
    BY <2>1, <2>3, <2>5 DEF CommandInv, ReadProgress, ReadInHand, ReadPoints, TrueMeansData, TrueMeansOver, Answered
  <2> QED
    BY <2>1, <2>4, <2>5
<1> QED
  BY <1>1, CallCommands, InitializeCommands, ReadCommands, HbaCommands DEF ClientNext

(* The invariant of the driver and its adapter holds for every number of     *)
(* ports, slots, areas and buffers, as long as a read asks for no more       *)
(* sectors than the PRD table of a command table has room for: the memory    *)
(* 256 bytes apart that ahci.cpp:59-64 lays out.                             *)
THEOREM AInvariance ==
  ASSUME Sectors \subseteq 1 .. 128
  PROVE  ClientSpec => []AInv
<1>1. AhciInit => AInv
  BY InitEngineInv, InitCommandInv DEF AInv
<1> QED
  BY <1>1, NextCommands, PTL DEF ClientSpec

(* The adapter finds for every command it holds the header and the table     *)
(* written for it, whatever calls came later (ahci.cpp:166-221).             *)
THEOREM CommandsAreIntact ==
  ASSUME Sectors \subseteq 1 .. 128
  PROVE  ClientSpec => []CommandsIntact
<1>1. AInv => CommandsIntact
  BY DEF AInv, CommandInv
<1> QED
  BY <1>1, AInvariance, PTL

(* A read that returned true has what the drive was asked for in its buffer  *)
(* and no command left that writes there (ahci.cpp:223-231).                 *)
THEOREM ReadsAreTrue ==
  ASSUME Sectors \subseteq 1 .. 128
  PROVE  ClientSpec => [](TrueMeansData /\ TrueMeansOver)
<1>1. AInv => TrueMeansData /\ TrueMeansOver
  BY DEF AInv, CommandInv
<1> QED
  BY <1>1, AInvariance, PTL
-----------------------------------------------------------------------------
(* Over needs neither headers nor tables, so it holds of reads of any size:  *)
(* while a read is under way no command but its own was issued for its       *)
(* buffer.                                                                   *)
OwnCommandOnly ==
  pc \in ReadPoints /\ ~call.shared =>
    \A p \in Ports : \A s \in OutstandingSlots(p) :
      issued[p][s].buffer = call.buffer =>
        pc \in {"poll_ci", "poll_is"} /\ p = call.port /\ s = slot

OverInv == OwnCommandOnly /\ TrueMeansOver

(* Commands only become fewer while no call is made or returns. *)
LEMMA FewerCommands ==
  ASSUME OverInv, UNCHANGED <<issued, call, result>>,
         pc' = pc \/ {pc, pc'} \subseteq ReadPoints,
         pc \in {"poll_ci", "poll_is"} => pc' \in {"poll_ci", "poll_is"} /\ slot' = slot,
         \A q \in Ports : OutstandingSlots(q)' \subseteq OutstandingSlots(q)
  PROVE  OverInv'
BY DEF OverInv, OwnCommandOnly, TrueMeansOver, Answered, Outstanding, ReadPoints

(* A read issues one command, and returns true when it is no longer there. *)
LEMMA ReadOver == ASSUME EngineInv, OverInv, Read PROVE OverInv'
<1>1. pc \in ReadPoints /\ call' = call /\ UNCHANGED exec
  BY DEF Read, PollBusy, BusyTimeout, DeviceReady, FindSlot, NoSlot, WriteHeader, WriteTable,
       ClearInterruptStatus, IssueCommand, Completed, StillIssued, Failed, KeepPolling, Fail,
       locals, ReadPoints
<1>2. call.port \in Ports /\ port[call.port].ST /\ slot \in Slots /\ port \in [Ports -> PortT]
  BY <1>1 DEF EngineInv, AhciTypeOK, ReadCall
<1>3. CASE IssueCommand
  <2>1. /\ pc = "ci" /\ pc' = "poll_ci" /\ UNCHANGED <<call, slot>>
        /\ issued' = [issued EXCEPT ![call.port][slot] = call]
        /\ port' = [port EXCEPT ![call.port].CI = port[call.port].CI \cup {slot}]
    BY <1>3 DEF IssueCommand, Goto, Set
  <2>2. /\ port'[call.port].CI = port[call.port].CI \cup {slot}
        /\ \A q \in Ports \ {call.port} : port'[q] = port[q]
    BY <1>2, <2>1 DEF PortT
  <2>3. ASSUME NEW q \in Ports, NEW k \in OutstandingSlots(q)', q # call.port \/ k # slot
        PROVE  k \in OutstandingSlots(q) /\ issued'[q][k] = issued[q][k]
    <3>1. k \in OutstandingSlots(q)
      BY <1>1, <2>2, <2>3 DEF OutstandingSlots
    <3>2. k \in Slots
      BY <3>1, SlotsOutstanding
    <3> QED
      BY <1>2, <2>1, <2>3, <3>1, <3>2 DEF EngineInv, MemoryShape
  <2> QED
    BY <2>1, <2>3 DEF OverInv, OwnCommandOnly, TrueMeansOver, Answered, ReadPoints
<1>4. CASE BusyTimeout \/ NoSlot \/ Failed \/ Completed
  <2>1. UNCHANGED <<port, issued>> /\ pc' = "idle"
    BY <1>4 DEF BusyTimeout, NoSlot, Failed, Completed, Fail, Return, Goto
  <2>2. \A q \in Ports : OutstandingSlots(q)' = OutstandingSlots(q)
    BY <1>1, <2>1 DEF OutstandingSlots
  <2>3. CASE Completed
    <3>1. pc = "poll_ci" /\ slot \notin port[call.port].CI
      BY <2>3 DEF Completed
    <3>2. slot \notin OutstandingSlots(call.port)
      BY <1>2, <3>1, SlotsOutstanding
    <3>3. ~call.shared =>
            \A q \in Ports : \A k \in OutstandingSlots(q) : issued[q][k].buffer # call.buffer
      BY <1>1, <3>2 DEF OverInv, OwnCommandOnly
    <3> QED
      BY <1>1, <2>1, <2>2, <3>3 DEF OverInv, OwnCommandOnly, TrueMeansOver, Answered, Outstanding, ReadPoints
  <2>4. CASE BusyTimeout \/ NoSlot \/ Failed
    <3>1. result' = FALSE
      BY <2>4 DEF BusyTimeout, NoSlot, Failed, Fail, Return
    <3> QED
      BY <2>1, <3>1 DEF OverInv, OwnCommandOnly, TrueMeansOver, ReadPoints
  <2> QED
    BY <1>4, <2>3, <2>4
<1>5. CASE ~IssueCommand /\ ~(BusyTimeout \/ NoSlot \/ Failed \/ Completed)
  <2>1. /\ UNCHANGED <<issued, result>> /\ pc' \in ReadPoints
        /\ pc \in {"poll_ci", "poll_is"} => pc' \in {"poll_ci", "poll_is"} /\ slot' = slot
    BY <1>5 DEF Read, PollBusy, DeviceReady, FindSlot, WriteHeader, WriteTable, ClearInterruptStatus,
         StillIssued, KeepPolling, Goto, locals, ReadPoints
  <2>2. \A q \in Ports : port'[q].CI = port[q].CI
    <3>1. CASE ClearInterruptStatus
      BY <1>2, <3>1 DEF ClearInterruptStatus, Set, PortT
    <3>2. CASE ~ClearInterruptStatus
      BY <1>5, <3>2 DEF Read, PollBusy, DeviceReady, FindSlot, WriteHeader, WriteTable, StillIssued, KeepPolling
    <3> QED
      BY <3>1, <3>2
  <2>3. \A q \in Ports : OutstandingSlots(q)' = OutstandingSlots(q)
    BY <1>1, <2>2 DEF OutstandingSlots
  <2> QED
    BY <1>1, <2>1, <2>3, FewerCommands
<1> QED
  BY <1>3, <1>4, <1>5

(* A call for a buffer that a command may still write to is marked shared. *)
LEMMA CallOver == ASSUME EngineInv, OverInv, Call PROVE OverInv'
<1>1. ASSUME NEW p \in Ports, NEW clb \in Bases, CallInitialize(p, clb) PROVE OverInv'
  <2>1. call'.op = "init" /\ pc' \in {"idle", "stop_cr"}
    BY <1>1 DEF CallInitialize, Return, Goto, NoCall
  <2> QED
    BY <2>1 DEF OverInv, OwnCommandOnly, ReadPoints, TrueMeansOver, Answered
<1>2. ASSUME NEW p \in Ports, NEW op, NEW lba, NEW n, NEW dst, CallRead(op, p, lba, n, dst)
      PROVE  OverInv'
  <2>1. /\ UNCHANGED <<port, exec, issued>> /\ pc' = "busy" /\ call'.buffer = dst
        /\ call'.shared = \E q \in Ports : \E c \in Outstanding(q) : c.buffer = dst
    BY <1>2 DEF CallRead, Goto
  <2>2. \A q \in Ports : OutstandingSlots(q)' = OutstandingSlots(q)
    BY <2>1 DEF OutstandingSlots
  <2>3. ~call'.shared =>
          \A q \in Ports : \A k \in OutstandingSlots(q) : issued[q][k].buffer # dst
    BY <2>1 DEF Outstanding
  <2> QED
    BY <2>1, <2>2, <2>3 DEF OverInv, OwnCommandOnly, TrueMeansOver, Answered
<1> QED
  BY <1>1, <1>2 DEF Call

(* Every step leaves a read that has returned alone with its buffer. *)
LEMMA NextOver == EngineInv /\ OverInv /\ [ClientNext]_ahciVars => OverInv'
<1> SUFFICES ASSUME EngineInv, OverInv, [ClientNext]_ahciVars PROVE OverInv'
  OBVIOUS
<1>1. CASE UNCHANGED ahciVars
  BY <1>1, FewerCommands DEF ahciVars, locals, OutstandingSlots
<1>2. ASSUME NEW dst \in Buffers, ClearBuffer(dst) PROVE OverInv'
  BY <1>2 DEF ClearBuffer, NoCall, OverInv, OwnCommandOnly, ReadPoints, TrueMeansOver, Answered
<1>3. CASE Initialize
  <2>1. call' = call /\ pc \in InitPoints /\ pc' \in InitPoints \cup {"idle"}
    BY <1>3, StepsWithinCall
  <2>2. call.op = "init"
    BY <2>1 DEF EngineInv, InitProgress
  <2> QED
    BY <2>1, <2>2 DEF OverInv, OwnCommandOnly, ReadPoints, InitPoints, TrueMeansOver, Answered
<1>4. ASSUME NEW p \in Ports, Hba(p) PROVE OverInv'
  <2>1. UNCHANGED <<pc, call, slot, result, issued>>
    BY <1>4, HbaRegisters DEF EngineInv
  <2> QED
    BY <1>4, <2>1, HbaOutstanding, FewerCommands
<1> QED
  BY <1>1, <1>2, <1>3, <1>4, ReadOver, CallOver DEF ClientNext

(* A read that returned true is over, however many sectors it was for: no    *)
(* port has a command left that was issued for its buffer (ahci.cpp:223-231). *)
THEOREM ReadsAreOver == ClientSpec => []TrueMeansOver
<1>1. AhciInit => OverInv
  BY DEF AhciInit, NoCall, OverInv, OwnCommandOnly, ReadPoints, TrueMeansOver, Answered
<1>2. EngineInv /\ OverInv /\ [ClientNext]_ahciVars => (EngineInv /\ OverInv)'
  BY NextEngine, NextOver
<1>3. OverInv => TrueMeansOver
  BY DEF OverInv
<1> QED
  BY <1>1, <1>2, <1>3, InitEngineInv, PTL DEF ClientSpec
-----------------------------------------------------------------------------
(* The scan of find_ahci, on top of the driver.                              *)
Holding == {"clear", "signature", "read", "print", "free"}

(* The driver is called for ports there are and areas there are, and every  *)
(* port the scan is at is one it may touch.                                 *)
Calls ==
  /\ pc \in InitPoints => call.base \in Bases
  /\ pc # "idle" => call.port \in Ports
  /\ at \in Holding \cup {"initialize", "buffer"} => i < NP /\ i \in touched

(* Where the frames are.  An area is given once, and what was free is in    *)
(* one place; in exactly one while memory lasts.                            *)
Places == free \cup leaked \cup Given \cup InHand \cup tableFrames
Shares ==
  /\ areas \in [Ports -> SUBSET Nat]
  /\ \A p \in Ports : i < p \/ (i = p /\ at \in {"next", "done"}) => areas[p] = {}
  /\ start \subseteq Places
  /\ free \cup InHand \subseteq start \cup {0}
Disjoint ==
  ~exhausted =>
    /\ Places \subseteq start /\ 0 \notin start
    /\ free \cap leaked = {} /\ free \cap Given = {} /\ free \cap InHand = {}
    /\ leaked \cap Given = {} /\ leaked \cap InHand = {} /\ Given \cap InHand = {}
    /\ tableFrames \cap (free \cup leaked \cup Given \cup InHand) = {}
    /\ \A p, q \in Ports : p # q => areas[p] \cap areas[q] = {}

FindInv == FindTypeOK /\ Calls /\ Shares /\ Disjoint

(* Ports and frames are numbers. *)
LEMMA Numbers == /\ NP \in Nat /\ Ports = 0 .. NP /\ AreaFrames \in Nat \ {0}
                 /\ Frames \subseteq Nat /\ Bases = Frames /\ 0 \in Frames
BY AhciAssumption, FindAhciAssumption, AreaAssumption DEF Frames

(* What the allocator grants is free, and the null pointer comes back only  *)
(* if nothing fits.                                                         *)
LEMMA Grants ==
  ASSUME NEW left, left \subseteq Nat, NEW n \in Nat \ {0}
  PROVE  /\ Granted(left, n) \subseteq left
         /\ Fitting(left, n) = {} => LowestRun(left, n) = 0 /\ Granted(left, n) = {}
         /\ Fitting(left, n) # {} => /\ LowestRun(left, n) \in left
                                     /\ Granted(left, n) = Run(LowestRun(left, n), n)
<1> DEFINE F == Fitting(left, n)
<1>1. F \subseteq Nat /\ F \subseteq left
  BY DEF Fitting
<1>2. CASE F = {}
  BY <1>2 DEF LowestRun, Granted
<1>3. CASE F # {}
  <2>1. Min(F) \in F
    BY <1>1, <1>3, LeastElement
  <2>2. LowestRun(left, n) = Min(F) /\ Granted(left, n) = Run(LowestRun(left, n), n)
    BY <1>3 DEF LowestRun, Granted
  <2> QED
    BY <1>1, <1>3, <2>1, <2>2 DEF Fitting
<1> QED
  BY <1>2, <1>3

(* A request for one frame gets the lowest free one. *)
LEMMA OneFrame ==
  ASSUME NEW left, left \subseteq Nat
  PROVE  Fitting(left, 1) = left /\ (left # {} => Granted(left, 1) = {LowestRun(left, 1)})
<1>1. ASSUME NEW b \in Nat PROVE Run(b, 1) = {b}
  <2>1. b + 1 - 1 = b
    OBVIOUS
  <2>2. b .. b = {b}
    OBVIOUS
  <2> QED
    BY <2>1, <2>2 DEF Run
<1>2. Fitting(left, 1) = left
  BY <1>1 DEF Fitting
<1>3. left # {} => LowestRun(left, 1) \in Nat /\ Granted(left, 1) = Run(LowestRun(left, 1), 1)
  <2>1. 1 \in Nat \ {0}
    OBVIOUS
  <2> QED
    BY <1>2, <2>1, Grants
<1> QED
  BY <1>1, <1>2, <1>3

(* MapPages moves free frames into tables. *)
LEMMA TablesAreTaken ==
  ASSUME NEW left, NEW run, Map(left, run)
  PROVE  \E taken \in SUBSET left :
           free' = left \ taken /\ tableFrames' = tableFrames \cup taken
<1>1. FramesTaken(left, tables, run) \in SUBSET left
  BY DEF FramesTaken
<1> QED
  BY <1>1 DEF Map

(* Before the scan nothing is taken. *)
LEMMA InitFindInv == Init => FindInv
<1> SUFFICES ASSUME Init PROVE FindInv
  OBVIOUS
<1>1. AhciTypeOK /\ pc = "idle"
  BY InitTypes DEF Init, AhciInit
<1>2. start = free /\ free \subseteq Frames \ {0}
  <2>1. 0 \in Run(0, AreaFrames)
    BY Numbers DEF Run
  <2> QED
    BY <2>1, FindAhciAssumption DEF Init, Frames
<1>3. Given = {} /\ InHand = {}
  BY DEF Init, Given, InHand
<1>4. FindTypeOK
  BY <1>1, <1>2, Numbers DEF Init, FindTypeOK
<1>5. Calls
  BY <1>1 DEF Init, Calls, Holding, InitPoints
<1>6. Shares /\ Disjoint
  BY <1>2, <1>3 DEF Init, Shares, Disjoint, Places
<1> QED
  BY <1>4, <1>5, <1>6 DEF FindInv

(* Nothing of the frames changes. *)
LEMMA FramesStay ==
  ASSUME Shares, Disjoint, UNCHANGED <<areas, free, leaked, tableFrames, start, exhausted, i, buffer>>,
         at' = at \/ {at, at'} \subseteq {"initialize", "buffer", "area_unmapped"}
                  \/ {at, at'} \subseteq Holding \cup {"buffer_unmapped"}
                  \/ {at, at'} \subseteq {"next", "done"}
  PROVE  Shares' /\ Disjoint'
<1>1. Given' = Given /\ InHand' = InHand
  BY DEF Given, InHand, Holding
<1>2. Places' = Places
  BY <1>1 DEF Places
<1> QED
  BY <1>1, <1>2 DEF Shares, Disjoint, Holding
-----------------------------------------------------------------------------
(* A port that is not implemented or has no device takes nothing. *)
LEMMA SkipPortKeeps == FindInv /\ SkipPort => FindInv'
<1> SUFFICES ASSUME FindInv, SkipPort PROVE FindInv'
  OBVIOUS
<1>1. /\ at = "next" /\ at' = "next" /\ i < NP /\ i' = i + 1 /\ i \in Nat
      /\ UNCHANGED <<free, tableFrames, areas, leaked, start, exhausted, buffer, base, gaveUp, PI>>
      /\ touched \subseteq touched' /\ touched' \subseteq touched \cup (PI \cap {i})
  BY Numbers DEF SkipPort, FindInv, FindTypeOK, machine, paging, IsImplemented
<1>2. AhciTypeOK' /\ UNCHANGED <<pc, call>>
  BY DEF SkipPort, FindInv, FindTypeOK, ahciVars, locals, AhciTypeOK
<1>3. FindTypeOK'
  BY <1>1, <1>2, Numbers DEF FindInv, FindTypeOK
<1>4. Calls'
  BY <1>1, <1>2 DEF FindInv, Calls, Holding
<1>5. Given' = Given /\ InHand' = InHand /\ Places' = Places
  BY <1>1 DEF Given, InHand, Places
<1>6. \A p \in Ports : i' < p \/ i' = p => i < p
  BY <1>1, Numbers
<1>7. Shares' /\ Disjoint'
  BY <1>1, <1>5, <1>6 DEF FindInv, Shares, Disjoint
<1> QED
  BY <1>3, <1>4, <1>7 DEF FindInv

(* The area of a port is taken from the free frames, and so are the tables  *)
(* that mapping it needs.                                                   *)
LEMMA AllocateAreaKeeps == FindInv /\ AllocateArea => FindInv'
<1> SUFFICES ASSUME FindInv, AllocateArea PROVE FindInv'
  OBVIOUS
<1> DEFINE n == AreaFrames
           left == free \ Granted(free, n)
<1>1. /\ at = "next" /\ at' = "initialize" /\ i < NP /\ i \in Nat /\ i \in PI /\ i \in Ports
      /\ UNCHANGED <<i, leaked, start, buffer, gaveUp, PI>>
      /\ touched' = touched \cup {i}
      /\ base' = LowestRun(free, n) /\ Map(left, Run(base', n))
      /\ areas' = [areas EXCEPT ![i] = Run(base', n)]
      /\ exhausted' = (exhausted \/ Fitting(free, n) = {})
  BY Numbers DEF AllocateArea, FindInv, FindTypeOK, machine, IsImplemented
<1>2. AhciTypeOK' /\ UNCHANGED <<pc, call>>
  BY DEF AllocateArea, FindInv, FindTypeOK, ahciVars, locals, AhciTypeOK
<1>3. free \subseteq Nat /\ free \subseteq Frames /\ tableFrames \subseteq Frames
  BY Numbers DEF FindInv, FindTypeOK
<1>4. /\ Granted(free, n) \subseteq free
      /\ Fitting(free, n) = {} => base' = 0 /\ Granted(free, n) = {}
      /\ Fitting(free, n) # {} => base' \in free /\ Granted(free, n) = Run(base', n)
  BY <1>1, <1>3, Numbers, Grants
<1>5. base' \in Frames
  BY <1>3, <1>4, Numbers
<1> PICK taken \in SUBSET left : free' = left \ taken /\ tableFrames' = tableFrames \cup taken
  BY <1>1, TablesAreTaken
<1>6. FindTypeOK'
  BY <1>1, <1>2, <1>3, <1>5 DEF FindInv, FindTypeOK
<1>7. Calls'
  BY <1>1, <1>2 DEF FindInv, Calls, Holding
<1>8. /\ areas \in [Ports -> SUBSET Nat] /\ areas[i] = {} /\ Run(base', n) \in SUBSET Nat
      /\ InHand = {} /\ InHand' = {}
  BY <1>1, <1>5, Numbers DEF FindInv, Shares, InHand, Run
<1>9. /\ areas' \in [Ports -> SUBSET Nat] /\ areas'[i] = Run(base', n)
      /\ \A p \in Ports : p # i => areas'[p] = areas[p]
  BY <1>1, <1>8
<1>10. Given' = Given \cup Run(base', n)
  BY <1>1, <1>8, <1>9 DEF Given
<1>11. Shares'
  <2>1. \A p \in Ports : i < p => p # i
    BY <1>1, Numbers
  <2>2. Granted(free, n) \subseteq Run(base', n)
    BY <1>4
  <2>3. start' \subseteq Places'
    BY <1>1, <1>8, <1>10, <2>2 DEF FindInv, Shares, Places
  <2> QED
    BY <1>1, <1>8, <1>9, <2>1, <2>3 DEF FindInv, Shares
<1>12. Disjoint'
  <2> SUFFICES ASSUME ~exhausted' PROVE Disjoint'
    BY DEF Disjoint
  <2>1. ~exhausted /\ Run(base', n) = Granted(free, n) /\ left = free \ Run(base', n) /\ Run(base', n) \subseteq free
    BY <1>1, <1>4
  <2>2. /\ Places \subseteq start /\ 0 \notin start
        /\ free \cap leaked = {} /\ free \cap Given = {} /\ leaked \cap Given = {}
        /\ tableFrames \cap (free \cup leaked \cup Given) = {}
        /\ \A p, q \in Ports : p # q => areas[p] \cap areas[q] = {}
    BY <2>1 DEF FindInv, Disjoint
  <2>3. \A p \in Ports : areas[p] \cap free = {}
    BY <2>2 DEF Given
  <2>4. \A p, q \in Ports : p # q => areas'[p] \cap areas'[q] = {}
    BY <1>9, <2>1, <2>2, <2>3
  <2> HIDE DEF left
  <2>5. Places' \subseteq start
    BY <1>1, <1>8, <1>10, <2>1, <2>2 DEF Places
  <2>6. /\ free' \cap Given' = {} /\ free' \cap leaked' = {} /\ leaked' \cap Given' = {}
        /\ tableFrames' \cap (free' \cup leaked' \cup Given') = {}
    BY <1>1, <1>10, <2>1, <2>2
  <2> QED
    BY <1>1, <1>8, <2>2, <2>4, <2>5, <2>6 DEF Disjoint
<1> QED
  BY <1>6, <1>7, <1>11, <1>12 DEF FindInv

(* A call of the driver. *)
LEMMA CallsKeep == FindInv /\ (InitializePort \/ ReadDrive) => FindInv'
<1> SUFFICES ASSUME FindInv, InitializePort \/ ReadDrive PROVE FindInv'
  OBVIOUS
<1>1. AhciTypeOK /\ base \in Bases /\ i \in Ports
  BY Numbers DEF FindInv, FindTypeOK, Calls, InitializePort, ReadDrive, Holding
<1>2. /\ UNCHANGED <<PI, start, free, tableFrames, i, base, buffer, touched, areas, gaveUp, leaked, exhausted>>
      /\ \/ at = "initialize" /\ at' = "buffer"
         \/ at = "signature" /\ at' = "read"
  BY DEF InitializePort, ReadDrive, machine, books, paging
<1>3. AhciTypeOK' /\ call'.port = i /\ (pc' \in InitPoints => call'.base \in Bases)
  <2>1. CASE InitializePort
    <3>1. CallInitialize(i, base)
      BY <2>1 DEF InitializePort
    <3>2. call'.port = i /\ call'.base = base
      BY <3>1 DEF CallInitialize, NoCall
    <3> QED
      BY <1>1, <3>1, <3>2, CallInitializeTypes
  <2>2. CASE ReadDrive
    <3>1. CallRead(kind[i], i, 0, 1, buffer)
      BY <2>2 DEF ReadDrive
    <3>2. call'.port = i /\ pc' = "busy"
      BY <3>1 DEF CallRead, Goto
    <3>3. AhciTypeOK'
      BY <1>1, <3>1, CallReadTypes
    <3> QED
      BY <3>2, <3>3 DEF InitPoints
  <2> QED
    BY <2>1, <2>2
<1>4. FindTypeOK' /\ Calls'
  BY <1>1, <1>2, <1>3 DEF FindInv, FindTypeOK, Calls, Holding
<1>5. Shares' /\ Disjoint'
  BY <1>2, FramesStay DEF FindInv, Holding
<1> QED
  BY <1>4, <1>5 DEF FindInv

(* So is the page for the first sector, with its tables. *)
LEMMA AllocateBufferKeeps == FindInv /\ AllocateBuffer => FindInv'
<1> SUFFICES ASSUME FindInv, AllocateBuffer PROVE FindInv'
  OBVIOUS
<1> DEFINE left == free \ Granted(free, 1)
<1>1. /\ at = "buffer" /\ at' = "clear"
      /\ UNCHANGED <<i, base, touched, areas, leaked, start, gaveUp, PI>>
      /\ buffer' = LowestRun(free, 1) /\ Map(left, {buffer'})
      /\ exhausted' = (exhausted \/ free = {})
  BY DEF AllocateBuffer, machine
<1>2. AhciTypeOK' /\ UNCHANGED <<pc, call>>
  BY DEF AllocateBuffer, FindInv, FindTypeOK, ahciVars, locals, AhciTypeOK
<1>3. free \subseteq Nat /\ free \subseteq Frames /\ tableFrames \subseteq Frames
  BY Numbers DEF FindInv, FindTypeOK
<1>4. /\ free = {} => buffer' = 0 /\ Granted(free, 1) = {}
      /\ free # {} => buffer' \in free /\ Granted(free, 1) = {buffer'}
  <2>1. 1 \in Nat \ {0}
    OBVIOUS
  <2>2. /\ Fitting(free, 1) = {} => LowestRun(free, 1) = 0 /\ Granted(free, 1) = {}
        /\ Fitting(free, 1) # {} => LowestRun(free, 1) \in free
    BY <1>3, <2>1, Grants
  <2> QED
    BY <1>1, <1>3, <2>2, OneFrame
<1> PICK taken \in SUBSET left : free' = left \ taken /\ tableFrames' = tableFrames \cup taken
  BY <1>1, TablesAreTaken
<1>5. FindTypeOK'
  BY <1>1, <1>2, <1>3, <1>4, Numbers DEF FindInv, FindTypeOK
<1>6. Calls'
  BY <1>1, <1>2 DEF FindInv, Calls, Holding
<1>7. InHand = {} /\ InHand' = {buffer'} /\ Given' = Given
  BY <1>1 DEF InHand, Given
<1>8. Shares'
  <2>1. start' \subseteq Places' /\ free' \cup InHand' \subseteq start' \cup {0}
    BY <1>1, <1>4, <1>7 DEF FindInv, Shares, Places
  <2> QED
    BY <1>1, <2>1 DEF FindInv, Shares
<1>9. Disjoint'
  <2> SUFFICES ASSUME ~exhausted' PROVE Disjoint'
    BY DEF Disjoint
  <2>1. ~exhausted /\ left = free \ {buffer'} /\ buffer' \in free
    BY <1>1, <1>4
  <2>2. /\ Places \subseteq start /\ 0 \notin start
        /\ free \cap leaked = {} /\ free \cap Given = {} /\ leaked \cap Given = {}
        /\ tableFrames \cap (free \cup leaked \cup Given) = {}
        /\ \A p, q \in Ports : p # q => areas[p] \cap areas[q] = {}
    BY <2>1 DEF FindInv, Disjoint
  <2> HIDE DEF left
  <2>3. Places' \subseteq start
    BY <1>1, <1>7, <2>1, <2>2 DEF Places
  <2>4. /\ free' \cap Given' = {} /\ free' \cap leaked' = {} /\ leaked' \cap Given' = {}
        /\ InHand' \cap (free' \cup leaked' \cup Given') = {}
        /\ tableFrames' \cap (free' \cup leaked' \cup Given' \cup InHand') = {}
    BY <1>1, <1>7, <2>1, <2>2 DEF Places
  <2> QED
    BY <1>1, <2>2, <2>3, <2>4 DEF Disjoint
<1> QED
  BY <1>5, <1>6, <1>8, <1>9 DEF FindInv

(* The steps that move no frame and end no turn of the loop. *)
LEMMA QuietKeeps ==
  FindInv /\ (AreaFaults \/ ZeroBuffer \/ BufferFaults \/ NameDevice \/ ReadReturned
               \/ PrintSector \/ ScanEnds) => FindInv'
<1> SUFFICES ASSUME FindInv, \/ AreaFaults \/ ZeroBuffer \/ BufferFaults
                             \/ NameDevice \/ ReadReturned \/ PrintSector \/ ScanEnds
             PROVE  FindInv'
  OBVIOUS
<1>1. /\ UNCHANGED <<PI, start, free, tableFrames, i, base, buffer, touched, areas, leaked, exhausted>>
      /\ \/ {at, at'} \subseteq {"buffer", "area_unmapped"}
         \/ {at, at'} \subseteq Holding \cup {"buffer_unmapped"}
         \/ {at, at'} \subseteq {"next", "done"}
      /\ at' \in Holding => at \in Holding
      /\ at' \notin {"initialize", "buffer"}
      /\ UNCHANGED <<port, exec, pc, call, slot, timeout, result>>
  BY DEF AreaFaults, ZeroBuffer, BufferFaults, NameDevice, ReadReturned, PrintSector, ScanEnds,
         machine, paging, books, Holding, ahciVars, locals
<1>2. gaveUp' \subseteq touched
  <2>1. CASE ReadReturned
    <3>1. gaveUp' \subseteq gaveUp \cup {i} /\ at = "read"
      BY <2>1 DEF ReadReturned
    <3> QED
      BY <3>1 DEF FindInv, FindTypeOK, Calls, Holding
  <2>2. CASE UNCHANGED gaveUp
    BY <2>2 DEF FindInv, FindTypeOK
  <2> QED
    BY <2>1, <2>2 DEF AreaFaults, ZeroBuffer, BufferFaults, NameDevice, PrintSector, ScanEnds, books
<1>3. FindTypeOK'
  BY <1>1, <1>2 DEF FindInv, FindTypeOK, AhciTypeOK, Holding, Ends
<1>4. Calls'
  BY <1>1 DEF FindInv, Calls, Holding
<1>5. Shares' /\ Disjoint'
  BY <1>1, FramesStay DEF FindInv
<1> QED
  BY <1>3, <1>4, <1>5 DEF FindInv

(* The steps that end a turn and let go of the page for the first sector. *)
LEMMA TurnEndsKeeps == FindInv /\ (UnknownDevice \/ FreeBuffer) => FindInv'
<1> SUFFICES ASSUME FindInv, UnknownDevice \/ FreeBuffer PROVE FindInv'
  OBVIOUS
<1>1. /\ UNCHANGED <<PI, start, tableFrames, base, buffer, touched, areas, exhausted, gaveUp>>
      /\ at \in Holding /\ at' = "next" /\ i' = i + 1
      /\ \/ leaked' = leaked \cup {buffer} /\ free' = free
         \/ leaked' = leaked /\ free' = free \cup {buffer}
      /\ UNCHANGED <<port, exec, pc, call, slot, timeout, result>>
  BY DEF UnknownDevice, FreeBuffer, machine, paging, books, Holding, ahciVars, locals
<1>2. i < NP /\ i \in Nat
  BY <1>1, Numbers DEF FindInv, FindTypeOK, Calls
<1>3. FindTypeOK'
  <2>1. i' \in 0 .. NP
    BY <1>1, <1>2, Numbers
  <2>2. AhciTypeOK'
    BY <1>1 DEF FindInv, FindTypeOK, AhciTypeOK
  <2>3. free' \subseteq Frames
    BY <1>1 DEF FindInv, FindTypeOK
  <2> QED
    BY <1>1, <2>1, <2>2, <2>3 DEF FindInv, FindTypeOK
<1>4. Calls'
  BY <1>1 DEF FindInv, Calls, Holding
<1>5. InHand = {buffer} /\ InHand' = {} /\ Given' = Given
  BY <1>1 DEF InHand, Given, Holding
<1>6. Places' = Places
  BY <1>1, <1>5 DEF Places
<1>7. \A p \in Ports : i' < p \/ i' = p => i < p
  BY <1>1, <1>2, Numbers
<1>8. free' \cup InHand' \subseteq free \cup InHand
  BY <1>1, <1>5
<1>9. Shares'
  BY <1>1, <1>6, <1>7, <1>8 DEF FindInv, Shares
<1>10. Disjoint'
  BY <1>1, <1>5, <1>6 DEF FindInv, Disjoint
<1> QED
  BY <1>3, <1>4, <1>9, <1>10 DEF FindInv

(* The driver and the adapter know nothing of the scan. *)
LEMMA HardwareKeeps == FindInv /\ (Driver \/ Adapter) => FindInv'
<1> SUFFICES ASSUME FindInv, Driver \/ Adapter PROVE FindInv'
  OBVIOUS
<1>1. UNCHANGED <<PI, start, free, tableFrames, i, base, buffer, touched, areas, gaveUp, leaked, exhausted, at>>
  BY DEF Driver, Adapter, machine, scanVars, books, paging
<1>2. /\ AhciTypeOK' /\ (pc' \in InitPoints => call'.base \in Bases)
      /\ (pc' # "idle" => call'.port \in Ports)
  <2>1. AhciTypeOK /\ Calls
    BY DEF FindInv, FindTypeOK
  <2>2. CASE Initialize
    <3>1. call' = call /\ pc \in InitPoints /\ pc # "idle"
      BY <2>2, StepsWithinCall DEF InitPoints
    <3> QED
      BY <2>1, <2>2, <3>1, InitializeTypes DEF Calls
  <2>3. CASE Read
    <3>1. call' = call /\ pc # "idle" /\ pc' \notin InitPoints
      BY <2>3, StepsWithinCall DEF ReadPoints, InitPoints
    <3> QED
      BY <2>1, <2>3, <3>1, ReadTypes DEF Calls
  <2>4. ASSUME NEW p \in Ports, Hba(p) PROVE AhciTypeOK' /\ UNCHANGED <<pc, call>>
    BY <2>1, <2>4, HbaTypes, StepsWithinCall
  <2> QED
    BY <2>1, <2>2, <2>3, <2>4 DEF Driver, Adapter, Calls
<1>3. FindTypeOK' /\ Calls'
  BY <1>1, <1>2 DEF FindInv, FindTypeOK, Calls
<1>4. Shares' /\ Disjoint'
  BY <1>1, FramesStay DEF FindInv
<1> QED
  BY <1>3, <1>4 DEF FindInv

(* Every step keeps the invariant. *)
LEMMA NextFindInv == FindInv /\ [Next]_findVars => FindInv'
<1> SUFFICES ASSUME FindInv, [Next]_findVars PROVE FindInv'
  OBVIOUS
<1>1. CASE UNCHANGED findVars
  <2>1. UNCHANGED <<PI, start, free, tableFrames, i, base, buffer, touched, areas, gaveUp, leaked, exhausted, at,
                    port, exec, pc, call, slot, timeout, result>>
    BY <1>1 DEF findVars, machine, scanVars, books, paging, ahciVars, locals
  <2>2. FindTypeOK' /\ Calls'
    BY <2>1 DEF FindInv, FindTypeOK, Calls, AhciTypeOK
  <2>3. Shares' /\ Disjoint'
    BY <2>1, FramesStay DEF FindInv
  <2> QED
    BY <2>2, <2>3 DEF FindInv
<1> QED
  BY <1>1, SkipPortKeeps, AllocateAreaKeeps, CallsKeep, AllocateBufferKeeps, QuietKeeps,
     TurnEndsKeeps, HardwareKeeps DEF Next, Scan

(* The inductive invariant of the scan: every frame it was given is free, in *)
(* an area, in hand, leaked or a page table (paging.cpp:157-161), whatever   *)
(* the drives and the adapter do in the meantime (kernel.cpp:394-458).       *)
THEOREM ScanInvariance == Spec => []FindInv
<1> QED
  BY InitFindInv, NextFindInv, PTL DEF Spec

(* While memory lasts, command areas, the buffer, page tables and free       *)
(* frames are disjoint (kernel.cpp:412-423, paging.cpp:157-161).             *)
THEOREM AreasStayApart == Spec => []AreasApart
<1>1. FindInv => AreasApart
  <2> SUFFICES ASSUME FindInv, ~exhausted PROVE AreasApart
    BY DEF FindInv, AreasApart
  <2>1. Given \subseteq start /\ 0 \notin start
    BY DEF FindInv, Disjoint, Places
  <2> QED
    BY <2>1 DEF FindInv, Disjoint, AreasApart
<1> QED
  BY <1>1, ScanInvariance, PTL

(* What was free when the scan began is accounted for at every point of it:  *)
(* a frame is free, in a command area, in hand, leaked by the default case   *)
(* or a page table of what was mapped (kernel.cpp:412-458).                  *)
THEOREM NothingIsLost == Spec => []NothingLost
<1>1. FindInv => NothingLost
  <2> SUFFICES ASSUME FindInv PROVE NothingLost
    OBVIOUS
  <2> DEFINE used == leaked \cup Given \cup InHand \cup tableFrames
  <2>1. start \subseteq free \cup used /\ free \subseteq start \cup {0}
    BY DEF FindInv, Shares, Places
  <2>2. ~exhausted => free \subseteq start /\ free \cap used = {}
    BY DEF FindInv, Disjoint, Places
  <2> QED
    BY <2>1, <2>2 DEF NothingLost
<1> QED
  BY <1>1, ScanInvariance, PTL
-----------------------------------------------------------------------------
(* Where a read of port i can be under way, and where its command may still  *)
(* be in the adapter's hands.                                                *)
Reading == {"read", "print", "free"}
BeforeIssue == {"busy", "slot", "header", "table", "is", "ci"}

HistoryShape ==
  /\ DOMAIN issued = Ports /\ \A p \in Ports : DOMAIN issued[p] = Slots
  /\ DOMAIN data = Buffers

(* The driver runs inside one call of find_ahci's, with its port and buffer. *)
InCall ==
  /\ pc \in InitPoints => at \in {"buffer", "area_unmapped"}
  /\ pc \in ReadPoints => at = "read"
  /\ at = "read" => call.port = i /\ call.buffer = buffer

(* The adapter has at most the one command of each port that the scan has    *)
(* come to, and keeps it only if the read was given up.                      *)
Commands ==
  /\ \A p \in Ports : exec[p].state = "run" => exec[p].slot \in port[p].CI
  /\ \A p \in Ports : p # i /\ port[p].CI # {} => p < i /\ p \in gaveUp
  /\ \A s \in port[i].CI : at \in Reading /\ issued[i][s].buffer = buffer
  /\ pc \in BeforeIssue => port[i].CI = {}
  /\ pc \in {"poll_ci", "poll_is"} => port[i].CI \subseteq {slot}
  /\ at = "read" /\ pc = "idle" /\ result => port[i].CI = {}
  /\ at \in {"print", "free"} /\ port[i].CI # {} => i \in gaveUp

(* The buffer is nobody else's, and what is in it is from the port the scan  *)
(* is at, or from one whose read was given up.                               *)
Sector ==
  /\ at \in Holding => buffer \notin free
  /\ at \in Holding \ {"clear"} /\ data[buffer] # Zeros => data[buffer].port \in gaveUp \cup {i}
  /\ \A r \in printed : r.data # Zeros /\ r.data.port # r.port => r.data.port \in gaveUp

StrayInv == HistoryShape /\ InCall /\ Commands /\ Sector

(* Before the scan the adapter has no command and the driver is not called. *)
LEMMA InitStray == Init => StrayInv
<1> SUFFICES ASSUME Init PROVE StrayInv
  OBVIOUS
<1>1. /\ \A p \in Ports : port[p].CI = {} /\ exec[p].state = "idle"
      /\ pc = "idle" /\ at = "next" /\ printed = {}
  BY DEF Init, AhciInit
<1>2. HistoryShape
  BY DEF Init, AhciInit, HistoryShape
<1>3. i \in Ports
  BY Numbers DEF Init
<1> QED
  BY <1>1, <1>2, <1>3 DEF StrayInv, InCall, Commands, Sector, Reading, BeforeIssue, Holding,
                          InitPoints, ReadPoints

(* The port the scan is at is a port. *)
LEMMA AtPort == FindInv => i \in Ports /\ i \in Nat /\ buffer \in Buffers
BY Numbers DEF FindInv, FindTypeOK, Frames

(* A port without a drive is passed by. *)
LEMMA SkipPortStray == FindInv /\ StrayInv /\ SkipPort => StrayInv'
<1> SUFFICES ASSUME FindInv, StrayInv, SkipPort PROVE StrayInv'
  OBVIOUS
<1>1. /\ at = "next" /\ at' = "next" /\ i' = i + 1 /\ pc = "idle" /\ pc' = "idle"
      /\ UNCHANGED <<port, exec, data, issued, gaveUp, printed>>
  BY DEF SkipPort, ahciVars, memory, locals
<1>2. i \in Ports /\ i \in Nat /\ Ports \subseteq Nat
  BY AtPort, Numbers
<1>3. port[i].CI = {}
  BY <1>1 DEF StrayInv, Commands, Reading
<1>4. \A p \in Ports : port[p].CI # {} => p < i /\ p \in gaveUp
  BY <1>3 DEF StrayInv, Commands
<1>5. i' \in Ports
  BY <1>2, Numbers DEF SkipPort
<1>6. \A p \in Ports : p < i => p < i'
  BY <1>1, <1>2
<1>7. port'[i'].CI = {}
  BY <1>1, <1>2, <1>4, <1>5
<1>8. Commands'
  BY <1>1, <1>4, <1>6, <1>7 DEF StrayInv, Commands, Reading, BeforeIssue
<1> QED
  BY <1>1, <1>8 DEF StrayInv, HistoryShape, InCall, Sector, Holding, InitPoints, ReadPoints

(* The area of the next drive. *)
LEMMA AllocateAreaStray == FindInv /\ StrayInv /\ AllocateArea => StrayInv'
<1> SUFFICES ASSUME FindInv, StrayInv, AllocateArea PROVE StrayInv'
  OBVIOUS
<1>1. /\ at = "next" /\ at' = "initialize" /\ pc = "idle" /\ pc' = "idle"
      /\ UNCHANGED <<port, exec, data, issued, gaveUp, printed, i>>
  BY DEF AllocateArea, ahciVars, memory, locals
<1>2. Commands'
  BY <1>1 DEF StrayInv, Commands, Reading, BeforeIssue
<1> QED
  BY <1>1, <1>2 DEF StrayInv, HistoryShape, InCall, Sector, Holding, InitPoints, ReadPoints

(* The port is stopped: it had no command of the driver's. *)
LEMMA InitializePortStray == FindInv /\ StrayInv /\ InitializePort => StrayInv'
<1> SUFFICES ASSUME FindInv, StrayInv, InitializePort PROVE StrayInv'
  OBVIOUS
<1>1. /\ at = "initialize" /\ at' = "buffer" /\ pc' \in {"idle", "stop_cr"}
      /\ UNCHANGED <<exec, data, issued, gaveUp, printed, i>>
      /\ port' = port \/ ClearStart(i)
  BY DEF InitializePort, CallInitialize, books, memory, Goto, Return
<1>2. i \in Ports /\ port \in [Ports -> PortT]
  BY AtPort DEF FindInv, FindTypeOK, AhciTypeOK
<1>3. port[i].CI = {} /\ exec[i].state # "run"
  BY <1>1, <1>2 DEF StrayInv, Commands, Reading
<1>4. \A p \in Ports : port'[p].CI = port[p].CI
  BY <1>1, <1>2, <1>3 DEF ClearStart, PortT
<1>5. Commands'
  BY <1>1, <1>2, <1>3, <1>4 DEF StrayInv, Commands, Reading, BeforeIssue
<1> QED
  BY <1>1, <1>5 DEF StrayInv, HistoryShape, InCall, Sector, Holding, InitPoints, ReadPoints

(* The buffer is granted. *)
LEMMA AllocateBufferStray == FindInv /\ StrayInv /\ AllocateBuffer => StrayInv'
<1> SUFFICES ASSUME FindInv, StrayInv, AllocateBuffer PROVE StrayInv'
  OBVIOUS
<1>1. /\ at = "buffer" /\ at' = "clear" /\ pc = "idle" /\ pc' = "idle"
      /\ UNCHANGED <<port, exec, data, issued, gaveUp, printed, i>>
      /\ buffer' = LowestRun(free, 1) /\ Map(free \ Granted(free, 1), {buffer'})
  BY DEF AllocateBuffer, ahciVars, memory, locals
<1>2. buffer' \notin free'
  <2>1. free \subseteq Nat
    BY Numbers DEF FindInv, FindTypeOK
  <2>2. free' \subseteq free \ Granted(free, 1)
    BY <1>1, TablesAreTaken
  <2> QED
    BY <1>1, <2>1, <2>2, OneFrame
<1>3. Commands'
  BY <1>1 DEF StrayInv, Commands, Reading, BeforeIssue
<1> QED
  BY <1>1, <1>2, <1>3 DEF StrayInv, HistoryShape, InCall, Sector, InitPoints, ReadPoints

(* The buffer is cleared. *)
LEMMA ZeroBufferStray == FindInv /\ StrayInv /\ ZeroBuffer => StrayInv'
<1> SUFFICES ASSUME FindInv, StrayInv, ZeroBuffer PROVE StrayInv'
  OBVIOUS
<1>1. /\ at = "clear" /\ at' = "signature" /\ pc' = pc
      /\ UNCHANGED <<port, exec, issued, gaveUp, printed, i, buffer, free, slot, result>>
      /\ data' = [data EXCEPT ![buffer] = Zeros]
  BY DEF ZeroBuffer, locals, books
<1>2. data'[buffer] = Zeros /\ DOMAIN data' = Buffers
  BY <1>1, AtPort DEF StrayInv, HistoryShape
<1>3. pc \notin InitPoints /\ pc \notin ReadPoints
  BY <1>1 DEF StrayInv, InCall
<1>4. Commands'
  BY <1>1, <1>3 DEF StrayInv, Commands, Reading, BeforeIssue, ReadPoints
<1> QED
  BY <1>1, <1>2, <1>3, <1>4 DEF StrayInv, HistoryShape, InCall, Sector, Holding

(* A fault on the command area is where Initialize ends. *)
LEMMA AreaFaultsStray == FindInv /\ StrayInv /\ AreaFaults => StrayInv'
<1> SUFFICES ASSUME FindInv, StrayInv, AreaFaults PROVE StrayInv'
  OBVIOUS
<1>1. /\ at = "buffer" /\ at' = "area_unmapped" /\ pc' = pc
      /\ UNCHANGED <<port, exec, data, issued, gaveUp, printed, i>>
  BY DEF AreaFaults, ahciVars, memory, locals, books
<1>2. pc \notin ReadPoints
  BY <1>1 DEF StrayInv, InCall
<1>3. Commands'
  BY <1>1, <1>2 DEF StrayInv, Commands, Reading, BeforeIssue, ReadPoints
<1> QED
  BY <1>1, <1>2, <1>3 DEF StrayInv, HistoryShape, InCall, Sector, Holding

(* The read of the port is called with its buffer. *)
LEMMA ReadDriveStray == FindInv /\ StrayInv /\ ReadDrive => StrayInv'
<1> SUFFICES ASSUME FindInv, StrayInv, ReadDrive PROVE StrayInv'
  OBVIOUS
<1>1. /\ at = "signature" /\ at' = "read" /\ pc' = "busy"
      /\ UNCHANGED <<port, exec, data, issued, gaveUp, printed, i, buffer, free>>
      /\ call'.port = i /\ call'.buffer = buffer
  BY DEF ReadDrive, CallRead, books, memory, Goto
<1>2. port[i].CI = {}
  BY <1>1 DEF StrayInv, Commands, Reading
<1>3. Commands'
  BY <1>1, <1>2 DEF StrayInv, Commands, Reading, BeforeIssue
<1> QED
  BY <1>1, <1>3 DEF StrayInv, HistoryShape, InCall, Sector, Holding, InitPoints, ReadPoints

(* The steps between two calls of the driver at one port. *)
LEMMA BetweenCallsStray ==
  FindInv /\ StrayInv /\ (BufferFaults \/ NameDevice \/ ReadReturned \/ PrintSector \/ ScanEnds)
  => StrayInv'
<1> SUFFICES ASSUME FindInv, StrayInv, BufferFaults \/ NameDevice \/ ReadReturned \/ PrintSector \/ ScanEnds
             PROVE  StrayInv'
  OBVIOUS
<1>1. /\ UNCHANGED <<port, exec, data, issued, i, buffer, free, pc, slot>>
      /\ at' \in {"print", "free", "done", "buffer_unmapped"} /\ gaveUp \subseteq gaveUp'
      /\ at' = "print" \/ UNCHANGED gaveUp
  BY DEF BufferFaults, NameDevice, ReadReturned, PrintSector, ScanEnds, books, ahciVars, memory, locals
<1>2. at' \in {"done", "buffer_unmapped"} => port[i].CI = {}
  BY DEF BufferFaults, NameDevice, ReadReturned, PrintSector, ScanEnds, StrayInv, Commands, Reading
<1>3. at' \in Reading \/ at' \in {"done", "buffer_unmapped"}
  BY <1>1 DEF Reading
<1>4. at \in Reading \/ port[i].CI = {}
  BY DEF StrayInv, Commands
<1>5. at' \in {"print", "free"} /\ port[i].CI # {} => i \in gaveUp'
  BY <1>4 DEF BufferFaults, NameDevice, ReadReturned, PrintSector, ScanEnds, StrayInv, Commands, Reading
<1>6. pc \notin InitPoints /\ pc \notin ReadPoints
  BY DEF BufferFaults, NameDevice, ReadReturned, PrintSector, ScanEnds, StrayInv, InCall, InitPoints, ReadPoints
<1>7. Commands'
  BY <1>1, <1>2, <1>3, <1>5, <1>6 DEF StrayInv, Commands, BeforeIssue, ReadPoints
<1>8. at' \in Holding => at \in Holding \ {"clear"}
  BY DEF BufferFaults, NameDevice, ReadReturned, PrintSector, ScanEnds, Holding
<1>9. printed' = printed \/ (at \in Holding \ {"clear"} /\ printed' = printed \cup {[port |-> i, data |-> data[buffer]]})
  BY DEF BufferFaults, NameDevice, ReadReturned, PrintSector, ScanEnds, books, Holding
<1>10. Sector'
  BY <1>1, <1>8, <1>9 DEF StrayInv, Sector
<1> QED
  BY <1>1, <1>6, <1>7, <1>10 DEF StrayInv, HistoryShape, InCall

(* The scan leaves a port: a command it still has belongs to a read that was *)
(* given up.                                                                 *)
LEMMA TurnEndsStray == FindInv /\ StrayInv /\ (UnknownDevice \/ FreeBuffer) => StrayInv'
<1> SUFFICES ASSUME FindInv, StrayInv, UnknownDevice \/ FreeBuffer PROVE StrayInv'
  OBVIOUS
<1>1. /\ at \in {"signature", "free"} /\ at' = "next" /\ i' = i + 1
      /\ UNCHANGED <<port, exec, data, issued, gaveUp, printed, pc>>
  BY DEF UnknownDevice, FreeBuffer, books, ahciVars, memory, locals
<1>2. i \in Ports /\ i \in Nat /\ Ports \subseteq Nat /\ i' \in Ports
  <2>1. FindInv'
    BY TurnEndsKeeps
  <2> QED
    BY <2>1, AtPort, Numbers DEF FindInv, FindTypeOK
<1>3. port[i].CI # {} => i \in gaveUp
  BY <1>1 DEF StrayInv, Commands, Reading
<1>4. \A p \in Ports : port[p].CI # {} => p <= i /\ p \in gaveUp
  BY <1>2, <1>3 DEF StrayInv, Commands
<1>5. \A p \in Ports : p <= i => p < i'
  BY <1>1, <1>2
<1>6. port'[i'].CI = {}
  BY <1>1, <1>2, <1>4
<1>7. pc \notin InitPoints /\ pc \notin ReadPoints
  BY <1>1 DEF StrayInv, InCall, InitPoints, ReadPoints
<1>8. Commands'
  BY <1>1, <1>4, <1>5, <1>6, <1>7 DEF StrayInv, Commands, Reading, BeforeIssue, ReadPoints
<1> QED
  BY <1>1, <1>7, <1>8 DEF StrayInv, HistoryShape, InCall, Sector, Holding
-----------------------------------------------------------------------------
(* A port keeps its commands when another of its registers is written. *)
LEMMA DriverCommandsStay ==
  ASSUME port \in [Ports -> PortT], NEW p \in Ports, NEW v,
         \/ port' = [port EXCEPT ![p].ST = v] \/ port' = [port EXCEPT ![p].CR = v]
         \/ port' = [port EXCEPT ![p].FRE = v] \/ port' = [port EXCEPT ![p].FR = v]
         \/ port' = [port EXCEPT ![p].CLB = v] \/ port' = [port EXCEPT ![p].FB = v]
         \/ port' = [port EXCEPT ![p].BSY = v] \/ port' = [port EXCEPT ![p].TFES = v]
  PROVE  \A q \in Ports : port'[q].CI = port[q].CI
BY DEF PortT

(* Initialize hands the adapter nothing. *)
LEMMA InitializeStray ==
  FindInv /\ StrayInv /\ Initialize /\ UNCHANGED <<machine, scanVars>> => StrayInv'
<1> SUFFICES ASSUME FindInv, StrayInv, Initialize, UNCHANGED <<machine, scanVars>> PROVE StrayInv'
  OBVIOUS
<1>1. UNCHANGED <<at, i, buffer, free, gaveUp, printed>>
  BY DEF scanVars, books
<1>2. pc \in InitPoints /\ pc' \in InitPoints \cup {"idle"} /\ at \in {"buffer", "area_unmapped"}
  BY StepsWithinCall DEF StrayInv, InCall
<1>3. UNCHANGED <<exec, data, issued>>
  BY DEF Initialize, StopWaitCR, StopWaitFR, SetCommandListBase, SetFISBase, EnableFIS, FillHeaders,
       StartCommand, InitStep, locals, memory
<1>4. \A p \in Ports : port'[p].CI = port[p].CI
  <2>1. port \in [Ports -> PortT] /\ call.port \in Ports
    BY <1>2 DEF FindInv, FindTypeOK, AhciTypeOK, Calls, InitPoints
  <2>2. CASE StopWaitCR \/ EnableFIS
    BY <2>1, <2>2, DriverCommandsStay DEF StopWaitCR, EnableFIS, Set
  <2>3. CASE SetCommandListBase
    BY <2>1, <2>3, DriverCommandsStay DEF SetCommandListBase, Set
  <2>4. CASE SetFISBase
    BY <2>1, <2>4, DriverCommandsStay DEF SetFISBase, Set
  <2>5. CASE StartCommand
    BY <2>1, <2>5, DriverCommandsStay DEF StartCommand, Set
  <2>6. CASE StopWaitFR \/ FillHeaders
    BY <2>6 DEF StopWaitFR, FillHeaders
  <2> QED
    BY <2>2, <2>3, <2>4, <2>5, <2>6 DEF Initialize
<1>5. Commands'
  BY <1>1, <1>2, <1>3, <1>4, AtPort DEF StrayInv, Commands, Reading, BeforeIssue, InitPoints
<1> QED
  BY <1>1, <1>2, <1>3, <1>5 DEF StrayInv, HistoryShape, InCall, Sector, InitPoints, ReadPoints

(* A read gives the adapter one command, for the buffer of the scan, and is *)
(* over without it only if it returns false.                                *)
LEMMA ReadStray == FindInv /\ StrayInv /\ Read /\ UNCHANGED <<machine, scanVars>> => StrayInv'
<1> SUFFICES ASSUME FindInv, StrayInv, Read, UNCHANGED <<machine, scanVars>> PROVE StrayInv'
  OBVIOUS
<1>1. UNCHANGED <<at, i, buffer, free, gaveUp, printed>>
  BY DEF scanVars, books
<1>2. call' = call /\ pc \in ReadPoints /\ at = "read" /\ call.port = i /\ call.buffer = buffer
  BY StepsWithinCall DEF StrayInv, InCall
<1>3. UNCHANGED <<exec, data>>
  BY DEF Read, PollBusy, BusyTimeout, DeviceReady, FindSlot, NoSlot, WriteHeader, WriteTable,
       ClearInterruptStatus, IssueCommand, Completed, StillIssued, Failed, KeepPolling, Fail,
       locals, memory
<1>4. i \in Ports /\ port \in [Ports -> PortT]
  BY AtPort DEF FindInv, FindTypeOK, AhciTypeOK
<1>5. CASE IssueCommand
  <2>1. /\ pc = "ci" /\ pc' = "poll_ci" /\ slot' = slot /\ slot \in Slots
        /\ port' = [port EXCEPT ![i].CI = port[i].CI \cup {slot}]
        /\ issued' = [issued EXCEPT ![i][slot] = call]
    BY <1>2, <1>5 DEF IssueCommand, Set, Goto, FindInv, FindTypeOK, AhciTypeOK
  <2>2. port[i].CI = {}
    BY <2>1 DEF StrayInv, Commands, BeforeIssue
  <2>3. port'[i].CI = {slot} /\ \A p \in Ports : p # i => port'[p] = port[p]
    BY <1>4, <2>1, <2>2 DEF PortT
  <2>4. HistoryShape' /\ issued'[i][slot] = call
    BY <1>3, <1>4, <2>1 DEF StrayInv, HistoryShape
  <2>5. Commands'
    BY <1>1, <1>2, <1>3, <2>1, <2>2, <2>3, <2>4 DEF StrayInv, Commands, Reading, BeforeIssue
  <2> QED
    BY <1>1, <1>2, <1>3, <2>1, <2>4, <2>5 DEF StrayInv, InCall, Sector, InitPoints, ReadPoints
<1>6. CASE ~IssueCommand
  <2>1. \A p \in Ports : port'[p].CI = port[p].CI
    <3>1. CASE ClearInterruptStatus
      BY <1>2, <1>4, <3>1, DriverCommandsStay DEF ClearInterruptStatus, Set
    <3>2. CASE ~ClearInterruptStatus
      BY <1>6, <3>2 DEF Read, PollBusy, BusyTimeout, DeviceReady, FindSlot, NoSlot, WriteHeader,
           WriteTable, Completed, StillIssued, Failed, KeepPolling, Fail
    <3> QED
      BY <3>1, <3>2
  <2>2. issued' = issued
    BY <1>6 DEF Read, PollBusy, BusyTimeout, DeviceReady, FindSlot, NoSlot, WriteHeader,
         WriteTable, ClearInterruptStatus, Completed, StillIssued, Failed, KeepPolling, Fail, locals
  <2>3. /\ pc' \in BeforeIssue => pc \in BeforeIssue
        /\ pc' \in {"poll_ci", "poll_is"} => pc \in {"poll_ci", "poll_is"} /\ slot' = slot
        /\ pc' = "idle" => ~result' \/ (pc = "poll_ci" /\ slot \notin port[i].CI)
        /\ pc' \in ReadPoints \cup {"idle"}
    BY <1>2, <1>6 DEF Read, PollBusy, BusyTimeout, DeviceReady, FindSlot, NoSlot, WriteHeader,
         WriteTable, ClearInterruptStatus, Completed, StillIssued, Failed, KeepPolling, Fail, Return,
         Goto, locals, BeforeIssue, ReadPoints
  <2>4. pc' = "idle" /\ result' => port[i].CI = {}
    BY <2>3 DEF StrayInv, Commands
  <2>5. Commands'
    BY <1>1, <1>2, <1>3, <1>4, <2>1, <2>2, <2>3, <2>4 DEF StrayInv, Commands, Reading
  <2> QED
    BY <1>1, <1>2, <1>3, <2>2, <2>3, <2>5
       DEF StrayInv, HistoryShape, InCall, Sector, InitPoints, ReadPoints
<1> QED
  BY <1>5, <1>6

(* The adapter carries out commands it was given, and what it writes into a *)
(* buffer is from a port that has one.                                      *)
LEMMA AdapterStray == FindInv /\ StrayInv /\ Adapter => StrayInv'
<1> SUFFICES ASSUME FindInv, StrayInv, NEW p \in Ports, Hba(p), UNCHANGED <<machine, scanVars>>
             PROVE  StrayInv'
  BY DEF Adapter
<1>1. UNCHANGED <<at, i, buffer, free, gaveUp, printed, pc, slot, call, result, issued>>
  BY DEF scanVars, books, Hba, HbaStop, HbaStart, HbaReceive, HbaReady, HbaFetch, HbaTransfer,
       HbaComplete, HbaError, HbaStep, locals
<1>2. port \in [Ports -> PortT] /\ exec \in [Ports -> ExecT] /\ i \in Ports
  BY AtPort DEF FindInv, FindTypeOK, AhciTypeOK
<1>3. /\ \A q \in Ports : port'[q].CI \subseteq port[q].CI
      /\ \A q \in Ports : exec'[q].state = "run" => exec'[q].slot \in port'[q].CI
  <2>1. \A q \in Ports : exec[q].state = "run" => exec[q].slot \in port[q].CI
    BY DEF StrayInv, Commands
  <2>2. CASE HbaStart(p) \/ HbaReceive(p) \/ HbaReady(p)
    <3>1. CASE HbaStart(p)
      BY <1>2, <2>1, <3>1, DriverCommandsStay DEF HbaStart, Set
    <3>2. CASE HbaReceive(p)
      BY <1>2, <2>1, <3>2, DriverCommandsStay DEF HbaReceive, Set
    <3>3. CASE HbaReady(p)
      BY <1>2, <2>1, <3>3, DriverCommandsStay DEF HbaReady, Set
    <3> QED
      BY <2>2, <3>1, <3>2, <3>3
  <2>6. CASE HbaStop(p)
    <3>1. \A q \in Ports : port'[q].CI = port[q].CI
      BY <1>2, <2>6, DriverCommandsStay DEF HbaStop, Set
    <3> QED
      BY <1>2, <2>1, <2>6, <3>1 DEF HbaStop, ExecT
  <2>7. CASE HbaError(p)
    BY <1>2, <2>1, <2>7 DEF HbaError, PortT, ExecT
  <2>3. CASE HbaFetch(p)
    BY <1>2, <2>1, <2>3 DEF HbaFetch, Set, PortT, ExecT
  <2>4. CASE HbaTransfer(p)
    BY <1>2, <2>1, <2>4 DEF HbaTransfer, ExecT
  <2>5. CASE HbaComplete(p)
    BY <1>2, <2>1, <2>5 DEF HbaComplete, PortT, ExecT
  <2> QED
    BY <2>2, <2>3, <2>4, <2>5, <2>6, <2>7 DEF Hba
<1>4. HistoryShape' /\ \A b \in Buffers : data'[b] = data[b] \/ (data'[b].port = p /\ port[p].CI # {})
  <2>1. CASE HbaTransfer(p)
    <3> DEFINE t == table[port[p].CLB][exec[p].slot]
    <3>1. data' = [data EXCEPT ![t.buffer] = DataOf(p, t)]
      BY <2>1 DEF HbaTransfer
    <3>2. DataOf(p, t).port = p
      BY DEF DataOf
    <3>3. port[p].CI # {}
      BY <2>1 DEF HbaTransfer, StrayInv, Commands
    <3> HIDE DEF t
    <3> QED
      BY <1>1, <3>1, <3>2, <3>3 DEF StrayInv, HistoryShape
  <2>2. CASE UNCHANGED data
    BY <1>1, <2>2 DEF StrayInv, HistoryShape
  <2> QED
    BY <2>1, <2>2 DEF Hba, HbaStop, HbaStart, HbaReceive, HbaReady, HbaFetch, HbaComplete, HbaError
<1>5. Commands'
  BY <1>1, <1>2, <1>3 DEF StrayInv, Commands, BeforeIssue
<1>6. Sector'
  BY <1>1, <1>4, AtPort DEF StrayInv, Sector, Commands
<1> QED
  BY <1>1, <1>4, <1>5, <1>6 DEF StrayInv, InCall

(* Every step keeps the commands where they belong. *)
LEMMA NextStray == FindInv /\ StrayInv /\ [Next]_findVars => StrayInv'
<1> SUFFICES ASSUME FindInv, StrayInv, UNCHANGED findVars PROVE StrayInv'
  BY SkipPortStray, AllocateAreaStray, InitializePortStray, AreaFaultsStray, AllocateBufferStray,
     ZeroBufferStray, ReadDriveStray, BetweenCallsStray, TurnEndsStray, InitializeStray, ReadStray, AdapterStray
     DEF Next, Scan, Driver
<1> QED
  BY DEF findVars, ahciVars, memory, locals, scanVars, books, StrayInv, HistoryShape, InCall,
       Commands, Sector

(* After a read that succeeded FreePage gives back a frame that no drive    *)
(* writes to; what can still be written to, and what is printed for another *)
(* port, belongs to a read that was given up (kernel.cpp:425-457).          *)
THEOREM StraysWereGivenUp == Spec => []StrayOnlyAfterGivingUp
<1>1. FindInv /\ StrayInv => StrayOnlyAfterGivingUp
  <2> SUFFICES ASSUME FindInv, StrayInv PROVE StrayOnlyAfterGivingUp
    OBVIOUS
  <2>1. ASSUME NEW p \in Ports PROVE OutstandingSlots(p) = port[p].CI
    BY DEF OutstandingSlots, StrayInv, Commands
  <2>2. ASSUME NEW p \in Ports, NEW c \in Outstanding(p)
        PROVE  p \in gaveUp \/ (p = i /\ c.buffer = buffer /\ buffer \notin free)
    <3>1. PICK s \in port[p].CI : c = issued[p][s]
      BY <2>1, <2>2 DEF Outstanding
    <3>2. p = i => at \in Reading /\ c.buffer = buffer
      BY <3>1 DEF StrayInv, Commands
    <3> QED
      BY <3>1, <3>2 DEF StrayInv, Commands, Sector, Reading, Holding
  <2> QED
    BY <2>2 DEF StrayOnlyAfterGivingUp, StrayInv, Sector
<1>2. FindInv /\ StrayInv /\ [Next]_findVars => (FindInv /\ StrayInv)'
  BY NextFindInv, NextStray
<1> QED
  BY <1>1, <1>2, InitFindInv, InitStray, PTL DEF Spec
=============================================================================

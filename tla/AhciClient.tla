----------------------------- MODULE AhciClient -----------------------------
(***************************************************************************)
(* The AHCI driver under any sequence of calls its header (ahci.h) allows:  *)
(* ports initialised and re-initialised, each in an area that no other port *)
(* has, reads into any buffer on a port that has been initialised, with     *)
(* commands of reads that were given up still in the adapter's hands.       *)
(***************************************************************************)
EXTENDS Ahci

CONSTANT PacketPorts   (* ports with a packet device, which take ReadATAPI *)
ASSUME PacketPortsAssumption == PacketPorts \subseteq Ports

Initialized(p) == port[p].ST /\ port[p].CLB # Firmware

(* The caller gives every port an area of its own (kernel.cpp:412-415).     *)
IsOwn(base, p) == \A q \in Ports \ {p} : port[q].CLB # base

Call ==
  \E p \in Ports :
    \/ \E base \in Bases : IsOwn(base, p) /\ CallInitialize(p, base)
    \/ /\ Initialized(p)
       /\ \E lba \in LBAs, n \in Sectors, buffer \in Buffers :
            CallRead(IF p \in PacketPorts THEN "atapi" ELSE "ata", p, lba, n, buffer)

(* The caller is done with the last answer and clears a buffer for the next. *)
ClearBuffer(buffer) ==
  /\ pc = "idle"
  /\ data' = [data EXCEPT ![buffer] = Zeros]
  /\ call' = NoCall
  /\ UNCHANGED <<port, exec, header, table, pc, slot, timeout, result, issued>>

ClientNext ==
  \/ Call \/ (\E buffer \in Buffers : ClearBuffer(buffer))
  \/ Initialize \/ Read \/ (\E p \in Ports : Hba(p))

ClientSpec == AhciInit /\ [][ClientNext]_ahciVars

(* The kernel's only thread keeps running; nothing is asked of the adapter. *)
DriverFair == WF_ahciVars(Initialize \/ Read)

(* The adapter's engines follow their enable bits. *)
HbaFair == \A p \in Ports : WF_ahciVars(HbaStop(p)) /\ WF_ahciVars(HbaReceive(p))

FairClientSpec == ClientSpec /\ DriverFair /\ HbaFair
-----------------------------------------------------------------------------
(* How far Initialize has come: what is switched off stays off and what has *)
(* been written stays, although the engines move at their own pace.         *)
InitProgress ==
  pc \in InitPoints =>
    LET p == port[call.port] IN
    /\ call.op = "init" /\ call.port \in Ports /\ call.base \in Bases
    /\ IsOwn(call.base, call.port)
    /\ ~p.ST
    /\ pc # "stop_cr" => ~p.CR
    /\ pc \in {"stop_fr", "clb", "fb", "fre"} => ~p.FRE
    /\ pc \in {"clb", "fb", "fre"} => ~p.FR
    /\ pc \in {"fb", "fre", "headers", "start"} => p.CLB = call.base
    /\ pc \in {"fre", "headers", "start"} => p.FB = call.base
    /\ pc \in {"headers", "start"} => p.FRE

(* A read works on a running port and on the list the adapter reads. *)
ReadCall ==
  pc \in ReadPoints =>
    /\ call.port \in Ports /\ call.op \in {"ata", "atapi"}
    /\ port[call.port].ST
    /\ call.base \in Bases /\ call.base = port[call.port].CLB

Arguments ==
  call.op \in {"ata", "atapi"} => call.sectors \in Sectors /\ call.buffer \in Buffers

(* A port that is not running has no command, one that is carries out only  *)
(* commands of its list.                                                    *)
Engines ==
  \A p \in Ports :
    /\ ~port[p].CR => exec[p].state = "idle"
    /\ ~port[p].ST \/ port[p].CLB = Firmware => port[p].CI = {}
    /\ port[p].ST /\ exec[p].state \in {"run", "done"} => exec[p].slot \in port[p].CI
    /\ port[p].CLB = Firmware => exec[p].state = "idle"

ListsApart ==
  \A p, q \in Ports : p # q /\ port[p].CLB = port[q].CLB => port[p].CLB = Firmware

MemoryShape ==
  /\ DOMAIN header = Bases /\ \A b \in Bases : DOMAIN header[b] = Slots
  /\ DOMAIN table = Bases /\ \A b \in Bases : DOMAIN table[b] = Slots
  /\ DOMAIN issued = Ports /\ \A p \in Ports : DOMAIN issued[p] = Slots
  /\ DOMAIN data = Buffers

EngineInv ==
  /\ AhciTypeOK
  /\ MemoryShape
  /\ InitProgress
  /\ ReadCall
  /\ Arguments
  /\ Engines
  /\ ListsApart
  /\ RunsWithFIS

(* How far a read has come: its slot is free until it is issued, and header *)
(* and table are written before.                                            *)
ReadProgress ==
  /\ pc \in {"header", "table", "is", "ci"} => slot \notin port[call.port].CI
  /\ pc \in {"table", "is", "ci"} => header[call.base][slot] = HeaderOf(call)
  /\ pc \in {"is", "ci"} => table[call.base][slot] = TableOf(call)

(* While a read is under way only its own command writes to its buffer, and *)
(* when the adapter is done with it the data is there.                      *)
ReadInHand ==
  pc \in ReadPoints /\ ~call.shared =>
    /\ \A p \in Ports : \A s \in OutstandingSlots(p) :
         issued[p][s].buffer = call.buffer =>
           pc \in {"poll_ci", "poll_is"} /\ p = call.port /\ s = slot
    /\ pc \in {"poll_ci", "poll_is"} =>
         LET e == exec[call.port] IN
         /\ issued[call.port][slot] = call
         /\ slot \notin port[call.port].CI \/ (e.state = "done" /\ e.slot = slot) =>
              data[call.buffer] = DataAsked(call)

(* What holds of the commands of reads of up to 128 sectors, whose PRD      *)
(* tables fit their command tables.                                         *)
CommandInv ==
  /\ ReadProgress
  /\ CommandsIntact
  /\ ReadInHand
  /\ TrueMeansOver
  /\ TrueMeansData

(* The inductive invariant behind the properties of Ahci: the driver's      *)
(* progress, the adapter's engines and the commands between them keep step  *)
(* (ahci.cpp:14-232).                                                       *)
AInv == EngineInv /\ CommandInv
=============================================================================

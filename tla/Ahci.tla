-------------------------------- MODULE Ahci --------------------------------
(***************************************************************************)
(* The AHCI driver of src/src/ahci.cpp and the host bus adapter it talks   *)
(* to.  The kernel has one thread and polls, so the driver runs one call   *)
(* at a time, one register access or one structure in memory per step; the *)
(* ports of the adapter run beside it (the Hba actions).  This module has  *)
(* no Next: AhciClient and FindAhci call the driver in their own ways.     *)
(***************************************************************************)
EXTENDS Integers, FiniteSetsExt

CONSTANTS
  Ports,       (* indices of the ports                                     *)
  NCS,         (* CAP.NCS: command slots per port, 0's based               *)
  Bases,       (* values of base_address                                   *)
  Misaligned,  (* those with base_address & 0x7F # 0                       *)
  Buffers,     (* addresses of buffers                                     *)
  LBAs,        (* logical block addresses that are read                    *)
  Sectors,     (* sector counts that are read                              *)
  PollLimit    (* iterations of a polling loop before it gives up: 1000000 *)

ASSUME AhciAssumption ==
  /\ Ports \subseteq Nat /\ Bases \subseteq Nat /\ Buffers \subseteq Nat
  /\ LBAs \subseteq Nat /\ Misaligned \subseteq Bases
  /\ NCS \in 0 .. 31 /\ PollLimit \in Nat
  /\ Sectors \subseteq 1 .. 2048

Slots == 0 .. NCS
Firmware == -1     (* a CommandListBase or FISBase the firmware left behind *)

VARIABLES
  port,     (* registers of each port: hba::PortT                          *)
  exec,     (* what the adapter is doing on each port                      *)
  header,   (* command list at each base: hba::CommandHeaderT per slot     *)
  table,    (* command tables at each base: hba::CommandTableT per slot    *)
  data,     (* what each buffer holds                                      *)
  pc,       (* where the driver is                                         *)
  call,     (* arguments of the call in progress, or of the last one       *)
  slot,     (* local of the read functions                                 *)
  timeout,  (* local of the polling loops                                  *)
  result,   (* what the last call returned                                 *)
  issued    (* history: the call behind each command the adapter was given *)

memory == <<header, table, data>>
locals == <<call, slot, timeout, result, issued>>
ahciVars == <<port, exec, memory, pc, locals>>

NoHeader == [atapi |-> FALSE, prdtl |-> 0]
FreshHeader == [atapi |-> FALSE, prdtl |-> 8]
NoTable == [buffer |-> 0, lba |-> 0, atapi |-> FALSE, room |-> 0, count |-> 0]
Zeros == [port |-> -1, lba |-> 0, sectors |-> 0]
NoCall == [op |-> "none", port |-> 0, base |-> 0,
           lba |-> 0, sectors |-> 0, buffer |-> 0, shared |-> FALSE]

(* The PRD table of ReadATA has an entry for every sixteen sectors.         *)
PRDTableLength(c) == IF c.op = "atapi" THEN 1 ELSE ((c.sectors - 1) \div 16) + 1

(* ReadATA counts sector_count down while it fills the entries and then     *)
(* asks the drive for what is left of it; a packet asks for all of them.    *)
CountAsked(c) ==
  IF c.op = "atapi" THEN c.sectors ELSE c.sectors - 16 * (PRDTableLength(c) - 1)

HeaderOf(c) == [atapi |-> c.op = "atapi", prdtl |-> PRDTableLength(c)]
TableOf(c) == [buffer |-> c.buffer, lba |-> c.lba, atapi |-> c.op = "atapi",
               room |-> c.sectors, count |-> CountAsked(c)]

(* What a command that runs to its end leaves in its buffer.                *)
DataOf(p, t) == [port |-> p, lba |-> t.lba, sectors |-> Min({t.room, t.count})]

(* Tables lie 256 bytes apart: 128 bytes and 16 for every PRD.  The ones a  *)
(* command with n PRDs in slot s reaches.                                   *)
TablesReached(s, n) == {t \in Slots : t >= s /\ 256 * (t - s) < 128 + 16 * n}
-----------------------------------------------------------------------------
(* The firmware has left the ports idle, their engines running or not; the  *)
(* devices may still be spinning up.                                        *)
AhciInit ==
  /\ \E running, receiving, busy \in BOOLEAN :
       /\ running => receiving
       /\ port = [p \in Ports |->
            [ST |-> running, CR |-> running, FRE |-> receiving, FR |-> receiving,
             BSY |-> busy, TFES |-> FALSE, CI |-> {},
             CLB |-> Firmware, FB |-> Firmware]]
  /\ exec = [p \in Ports |-> [state |-> "idle", slot |-> 0]]
  /\ header = [b \in Bases |-> [s \in Slots |-> NoHeader]]
  /\ table = [b \in Bases |-> [s \in Slots |-> NoTable]]
  /\ data = [b \in Buffers |-> Zeros]
  /\ pc = "idle"
  /\ call = NoCall
  /\ slot = 0
  /\ timeout = 0
  /\ result = TRUE
  /\ issued = [p \in Ports |-> [s \in Slots |-> NoCall]]

Goto(l) == pc' = l
Set(p, field, value) == port' = [port EXCEPT ![p][field] = value]

(* Clearing ST takes the commands back from the adapter (but for the one it *)
(* is busy with until its engine has stopped).                              *)
ClearStart(p) == port' = [port EXCEPT ![p].ST = FALSE, ![p].CI = {}]

Return(value) ==
  /\ Goto("idle")
  /\ result' = value
  /\ slot' = 0
  /\ timeout' = 0
-----------------------------------------------------------------------------
(* Initialize: StopCommand, the two base addresses, the command headers,    *)
(* StartCommand.                                                            *)
CallInitialize(p, base) ==
  /\ pc = "idle"
  /\ call' = [NoCall EXCEPT !.op = "init", !.port = p, !.base = base]
  /\ IF base \in Misaligned
       THEN Return(FALSE) /\ UNCHANGED port
       ELSE Goto("stop_cr") /\ ClearStart(p)
            /\ UNCHANGED <<slot, timeout, result>>
  /\ UNCHANGED <<exec, memory, issued>>

InitStep(from) ==
  /\ pc = from
  /\ UNCHANGED <<exec, data, locals>>

StopSkipsCR ==
  /\ InitStep("stop_cr")
  /\ Set(call.port, "FRE", FALSE)
  /\ Goto("stop_fr")
  /\ UNCHANGED <<header, table>>

StopWaitCR ==
  /\ InitStep("stop_cr")
  /\ ~port[call.port].CR
  /\ Set(call.port, "FRE", FALSE)
  /\ Goto("stop_fr")
  /\ UNCHANGED <<header, table>>

StopWaitFR ==
  /\ InitStep("stop_fr")
  /\ ~port[call.port].FR
  /\ Goto("clb")
  /\ UNCHANGED <<port, header, table>>

SetCommandListBase ==
  /\ InitStep("clb")
  /\ Set(call.port, "CLB", call.base)
  /\ header' = [header EXCEPT ![call.base] = [s \in Slots |-> NoHeader]]
  /\ Goto("fb")
  /\ UNCHANGED table

SetFISBase ==
  /\ InitStep("fb")
  /\ Set(call.port, "FB", call.base)
  /\ Goto("fre")
  /\ UNCHANGED <<header, table>>

EnableFISForgotten ==
  /\ InitStep("fre")
  /\ Goto("headers")
  /\ UNCHANGED <<port, header, table>>

EnableFIS ==
  /\ InitStep("fre")
  /\ Set(call.port, "FRE", TRUE)
  /\ Goto("headers")
  /\ UNCHANGED <<header, table>>

(* The loop runs over slots 0 .. NCS-1. *)
FillHeaders ==
  /\ InitStep("headers")
  /\ header' = [header EXCEPT ![call.base] =
       [s \in Slots |-> IF s < NCS THEN FreshHeader ELSE @[s]]]
  /\ table' = [table EXCEPT ![call.base] =
       [s \in Slots |-> IF s < NCS THEN NoTable ELSE @[s]]]
  /\ Goto("start")
  /\ UNCHANGED port

StartCommand ==
  /\ pc = "start"
  /\ ~port[call.port].CR
  /\ Set(call.port, "ST", TRUE)
  /\ Return(TRUE)
  /\ UNCHANGED <<exec, memory, call, issued>>

Initialize ==
  \/ StopWaitCR \/ StopWaitFR \/ SetCommandListBase \/ SetFISBase
  \/ EnableFIS \/ FillHeaders \/ StartCommand
-----------------------------------------------------------------------------
(* Commands the adapter has been given and may still carry out.  SATAActive *)
(* stays 0: no queued command is ever sent.                                 *)
OutstandingSlots(p) ==
  port[p].CI \cup (IF exec[p].state = "run" THEN {exec[p].slot} ELSE {})
Outstanding(p) == {issued[p][s] : s \in OutstandingSlots(p)}

(* ReadATA and ReadATAPI, which share everything but the contents of the    *)
(* command.                                                                 *)
CallRead(op, p, lba, sectors, buffer) ==
  /\ pc = "idle"
  /\ call' = [op |-> op, port |-> p, base |-> port[p].CLB, lba |-> lba,
              sectors |-> sectors, buffer |-> buffer,
              shared |-> \E q \in Ports : \E c \in Outstanding(q) : c.buffer = buffer]
  /\ timeout' = PollLimit
  /\ Goto("busy")
  /\ UNCHANGED <<port, exec, memory, slot, result, issued>>

Fail == Return(FALSE) /\ UNCHANGED <<port, exec, memory, call, issued>>
Tick == timeout' = timeout - 1

PollBusy ==
  /\ pc = "busy"
  /\ port[call.port].BSY
  /\ timeout # 0
  /\ Tick
  /\ UNCHANGED <<port, exec, memory, pc, call, slot, result, issued>>

BusyTimeout ==
  /\ pc = "busy"
  /\ port[call.port].BSY
  /\ timeout = 0
  /\ Fail

DeviceReady ==
  /\ pc = "busy"
  /\ ~port[call.port].BSY
  /\ Goto("slot")
  /\ UNCHANGED <<port, exec, memory, locals>>

FreeSlotsIgnoringCI(p) == {s \in Slots : s < NCS}
FreeSlots(p) == {s \in Slots : s < NCS /\ s \notin port[p].CI}

FindSlot ==
  /\ pc = "slot"
  /\ FreeSlots(call.port) # {}
  /\ slot' = Min(FreeSlots(call.port))
  /\ Goto("header")
  /\ UNCHANGED <<port, exec, memory, call, timeout, result, issued>>

NoSlot ==
  /\ pc = "slot"
  /\ FreeSlots(call.port) = {}
  /\ Fail

WriteHeader ==
  /\ pc = "header"
  /\ header' = [header EXCEPT ![call.base][slot] = HeaderOf(call)]
  /\ Goto("table")
  /\ UNCHANGED <<port, exec, table, data, locals>>

(* A PRD table of more than eight entries runs over the tables behind it.   *)
WriteTable ==
  /\ pc = "table"
  /\ table' = [table EXCEPT ![call.base] =
       [t \in Slots |->
          IF t = slot THEN TableOf(call)
          ELSE IF t \in TablesReached(slot, PRDTableLength(call)) THEN NoTable
          ELSE @[t]]]
  /\ Goto("is")
  /\ UNCHANGED <<port, exec, header, data, locals>>

ClearInterruptStatus ==
  /\ pc = "is"
  /\ Set(call.port, "TFES", FALSE)
  /\ Goto("ci")
  /\ UNCHANGED <<exec, memory, locals>>

IssueCommand ==
  /\ pc = "ci"
  /\ Set(call.port, "CI", port[call.port].CI \cup {slot})
  /\ issued' = [issued EXCEPT ![call.port][slot] = call]
  /\ timeout' = PollLimit
  /\ Goto("poll_ci")
  /\ UNCHANGED <<exec, memory, call, slot, result>>

CompletedWhenReady ==
  /\ pc = "poll_ci"
  /\ ~port[call.port].BSY
  /\ Return(TRUE)
  /\ UNCHANGED <<port, exec, memory, call, issued>>

Completed ==
  /\ pc = "poll_ci"
  /\ slot \notin port[call.port].CI
  /\ Return(TRUE)
  /\ UNCHANGED <<port, exec, memory, call, issued>>

StillIssued ==
  /\ pc = "poll_ci"
  /\ slot \in port[call.port].CI
  /\ Goto("poll_is")
  /\ UNCHANGED <<port, exec, memory, locals>>

FailedReturnsTrue ==
  /\ pc = "poll_is"
  /\ port[call.port].TFES \/ timeout = 0
  /\ Return(TRUE)
  /\ UNCHANGED <<port, exec, memory, call, issued>>

Failed ==
  /\ pc = "poll_is"
  /\ port[call.port].TFES \/ timeout = 0
  /\ Fail

KeepPollingPastZero ==
  /\ pc = "poll_is"
  /\ ~port[call.port].TFES
  /\ Tick
  /\ Goto("poll_ci")
  /\ UNCHANGED <<port, exec, memory, call, slot, result, issued>>

KeepPollingForever ==
  /\ pc = "poll_is"
  /\ ~port[call.port].TFES
  /\ Goto("poll_ci")
  /\ UNCHANGED <<port, exec, memory, locals>>

KeepPolling ==
  /\ pc = "poll_is"
  /\ ~port[call.port].TFES
  /\ timeout # 0
  /\ Tick
  /\ Goto("poll_ci")
  /\ UNCHANGED <<port, exec, memory, call, slot, result, issued>>

Read ==
  \/ PollBusy \/ BusyTimeout \/ DeviceReady \/ FindSlot \/ NoSlot
  \/ WriteHeader \/ WriteTable \/ ClearInterruptStatus \/ IssueCommand
  \/ Completed \/ StillIssued \/ Failed \/ KeepPolling
-----------------------------------------------------------------------------
(* The adapter, as the driver relies on it.  An engine follows its enable   *)
(* bit; it carries out the commands of CI one at a time.                    *)
HbaStep == UNCHANGED <<header, table, pc, locals>>

HbaStop(p) ==
  /\ ~port[p].ST /\ port[p].CR
  /\ Set(p, "CR", FALSE)
  /\ exec' = [exec EXCEPT ![p].state = "idle"]
  /\ UNCHANGED data /\ HbaStep

HbaStart(p) ==
  /\ port[p].ST /\ ~port[p].CR
  /\ Set(p, "CR", TRUE)
  /\ UNCHANGED <<exec, data>> /\ HbaStep

HbaReceive(p) ==
  /\ port[p].FR # port[p].FRE
  /\ Set(p, "FR", port[p].FRE)
  /\ UNCHANGED <<exec, data>> /\ HbaStep

(* The device has come up. *)
HbaReady(p) ==
  /\ port[p].BSY /\ exec[p].state = "idle"
  /\ Set(p, "BSY", FALSE)
  /\ UNCHANGED <<exec, data>> /\ HbaStep

HbaFetch(p) ==
  /\ port[p].ST /\ port[p].CR /\ ~port[p].BSY /\ exec[p].state = "idle"
  /\ \E s \in port[p].CI : exec' = [exec EXCEPT ![p] = [state |-> "run", slot |-> s]]
  /\ Set(p, "BSY", TRUE)
  /\ UNCHANGED data /\ HbaStep

HbaTransfer(p) ==
  /\ exec[p].state = "run"
  /\ LET t == table[port[p].CLB][exec[p].slot] IN
       data' = [data EXCEPT ![t.buffer] = DataOf(p, t)]
  /\ exec' = [exec EXCEPT ![p].state = "done"]
  /\ UNCHANGED port /\ HbaStep

HbaComplete(p) ==
  /\ exec[p].state = "done"
  /\ port' = [port EXCEPT ![p].CI = @ \ {exec[p].slot}, ![p].BSY = FALSE]
  /\ exec' = [exec EXCEPT ![p].state = "idle"]
  /\ UNCHANGED data /\ HbaStep

(* An error stops the command list until ST is cleared and set again. *)
HbaError(p) ==
  /\ exec[p].state = "run"
  /\ port' = [port EXCEPT ![p].TFES = TRUE, ![p].BSY = FALSE]
  /\ exec' = [exec EXCEPT ![p].state = "halted"]
  /\ UNCHANGED data /\ HbaStep

Hba(p) ==
  \/ HbaStop(p) \/ HbaStart(p) \/ HbaReceive(p) \/ HbaReady(p) \/ HbaFetch(p)
  \/ HbaTransfer(p) \/ HbaComplete(p) \/ HbaError(p)
-----------------------------------------------------------------------------
PortT == [ST : BOOLEAN, CR : BOOLEAN, FRE : BOOLEAN, FR : BOOLEAN,
          CLB : Bases \cup {Firmware}, FB : Bases \cup {Firmware},
          BSY : BOOLEAN, TFES : BOOLEAN, CI : SUBSET Slots]
ExecT == [state : {"idle", "run", "done", "halted"}, slot : Slots]

(* Type invariant of the registers, the adapter and the driver's locals. *)
AhciTypeOK ==
  /\ port \in [Ports -> PortT]
  /\ exec \in [Ports -> ExecT]
  /\ pc \in {"idle", "stop_cr", "stop_fr", "clb", "fb", "fre", "headers", "start",
             "busy", "slot", "header", "table", "is", "ci", "poll_ci", "poll_is"}
  /\ slot \in Slots
  /\ timeout \in 0 .. PollLimit
  /\ result \in BOOLEAN

(* The adapter may read the command list and write the FIS area at any time *)
(* while the engine that uses it runs: the bases move only when the engine  *)
(* has stopped and is not asked to start (ahci.cpp:37-47).                  *)
BasesMoveStopped ==
  [][\A p \in Ports :
       /\ port[p].CLB' # port[p].CLB => ~port[p].ST /\ ~port[p].CR
       /\ port[p].FB' # port[p].FB => ~port[p].FRE /\ ~port[p].FR]_ahciVars

(* A command list that runs for the driver has somewhere to put the FISes   *)
(* it receives: FIS reception is enabled at the driver's area, over any     *)
(* number of re-initialisations (ahci.cpp:46-62).                           *)
RunsWithFIS ==
  \A p \in Ports :
    port[p].ST /\ port[p].CLB # Firmware =>
      port[p].FRE /\ port[p].FB = port[p].CLB

(* The adapter finds, for every command it has been given and not finished, *)
(* the header and the table that the call wrote for it, although later      *)
(* calls write more commands into the same list (ahci.cpp:166-221).         *)
CommandsIntact ==
  \A p \in Ports : \A s \in OutstandingSlots(p) :
    /\ header[port[p].CLB][s] = HeaderOf(issued[p][s])
    /\ table[port[p].CLB][s] = TableOf(issued[p][s])

DataAsked(c) == [port |-> c.port, lba |-> c.lba, sectors |-> CountAsked(c)]

Answered == pc = "idle" /\ call.op \in {"ata", "atapi"} /\ ~call.shared

(* A read that returned true has in its buffer every sector the drive was   *)
(* asked for, from the right drive and place, unless a read that was given  *)
(* up earlier had the same buffer (ahci.cpp:223-231).  Up to sixteen        *)
(* sectors the drive is asked for all of them, beyond that only for the     *)
(* share of the last PRD (ahci.cpp:186-210).                                *)
TrueMeansData == Answered /\ result => data[call.buffer] = DataAsked(call)

(* A read that returned true is over: no port has a command left that could *)
(* still write to the buffer the caller now owns (ahci.cpp:223-231).        *)
TrueMeansOver ==
  Answered /\ result =>
    \A p \in Ports : \A c \in Outstanding(p) : c.buffer # call.buffer

ReadPoints == {"busy", "slot", "header", "table", "is", "ci", "poll_ci", "poll_is"}
InitPoints == {"stop_cr", "stop_fr", "clb", "fb", "fre", "headers", "start"}

(* Every call of the driver returns: a read whatever the device does, since *)
(* every loop in it counts down (ahci.cpp:92-100, 138-144, 156-164, 223-229), *)
(* Initialize if the adapter's engines follow their enable bits               *)
(* (ahci.cpp:19-24).                                                          *)
DriverReturns == pc # "idle" ~> pc = "idle"
=============================================================================

---------------------------- MODULE Kernel_proofs ----------------------------
(***************************************************************************)
(* Proofs about Kernel, for any machines, exceptions, sizes of the FIFO and *)
(* numbers of buses, devices and functions.                                 *)
(***************************************************************************)
EXTENDS Kernel, Numbers_proofs, SequenceTheorems, FiniteSetTheorems

(* Moving the head of one sequence to the end of the one before it.         *)
LEMMA Handover ==
  ASSUME NEW S, NEW s \in Seq(S), NEW t \in Seq(S), t # <<>>
  PROVE  Append(s, Head(t)) \o Tail(t) = s \o t
<1> DEFINE left == Append(s, Head(t)) \o Tail(t)
           right == s \o t
<1>1. Head(t) \in S /\ Tail(t) \in Seq(S) /\ Len(Tail(t)) = Len(t) - 1 /\ Len(t) > 0
  OBVIOUS
<1>2. left \in Seq(S) /\ right \in Seq(S) /\ Len(left) = Len(s) + Len(t) /\ Len(right) = Len(s) + Len(t)
  BY <1>1
<1>3. ASSUME NEW i \in 1 .. Len(s) + Len(t) PROVE left[i] = right[i]
  BY <1>1
<1> QED
  BY <1>2, <1>3, SeqEqual

(* What the port is told before kmain has its tables, and where that is.    *)
Early == {"serial", "serial_test", "tables"}

(* Before the tables are loaded nothing is printed; behind that nothing      *)
(* initialises the port again.                                              *)
Control ==
  /\ ~armed => pc \in Early \cup {"reset"} /\ queue = <<>> /\ ~half /\ out = <<>>
  /\ armed => pc \notin Early

(* An exception resets the machine or goes to Panic.                        *)
LEMMA Raised ==
  ASSUME NEW v, NEW info, Raise(v, info)
  PROVE  \/ pc' = "reset" /\ UNCHANGED <<index, queue, half, depth, report, cause>>
         \/ armed /\ pc' = "panic" /\ index' = 1 /\ half' = FALSE
<1> DEFINE event == Delivered(v, info)
<1>1. CASE ~armed \/ ~Passable(event.vector) \/ depth = StackFrames
  BY <1>1 DEF Raise
<1>2. CASE ~(~armed \/ ~Passable(event.vector) \/ depth = StackFrames)
  BY <1>2 DEF Raise
<1> QED
  BY <1>1, <1>2

(* The steps that do not touch the port and what was given to it.           *)
LEMMA OtherSteps ==
  ASSUME Control, [Next]_vars,
         ~SerialSetup, ~SerialTest, ~LoadTables, ~WriteSerial, ~UartShift
  PROVE  /\ UNCHANGED <<machine, uart, out, armed>>
         /\ armed => pc' \notin Early
         /\ ~armed => (pc' = "reset" \/ UNCHANGED <<pc, index>>) /\ UNCHANGED <<queue, half>>
<1>1. CASE Exception
  <2>1. PICK e \in machine.exceptions : Raise(e.vector, e.info)
    BY <1>1 DEF Exception
  <2> QED
    BY <1>1, <2>1, Raised DEF Exception, Control, pci, Early
<1>2. CASE UNCHANGED vars
  BY <1>2 DEF vars, console, trap, Control
<1>3. ASSUME PageFaults, armed PROVE UNCHANGED <<machine, uart, out, armed>> /\ pc' \notin Early
  BY <1>3, Raised DEF PageFaults, Early
<1>4. CASE WriteScreen \/ NoGlyph
  BY <1>3, <1>4 DEF WriteScreen, NoGlyph, trap, Control
<1>5. CASE CheckResponse \/ InitializeMemory \/ InitializeRenderer
  BY <1>5 DEF CheckResponse, InitializeMemory, InitializeRenderer, Error, Say, Goto, At, trap, console, Control, Early
<1>12. CASE GrowHeap \/ HeapFaults \/ RetryForEver \/ LoseHeap
  BY <1>3, <1>12 DEF GrowHeap, HeapFaults, RetryForEver, LoseHeap, HeapGrowing, Goto, At, trap, console, Control, Early
<1>13. CASE Disks
  BY <1>3, <1>13 DEF Disks, SkipPort, InitializePort, ReadPort, PortFaults, LeaveController, AtPort, Initializes,
    Say, Goto, At, trap, console, Control, Early
<1>6. CASE Information
  BY <1>3, <1>6 DEF Information, PrintBootloader, PrintRegion, NoTypeString, PrintTotal, PrintEfiTable,
    PrintEfiVendor, EfiVendorFaults, Say, Goto, At, trap, console, Control, Early
<1>7. CASE Tables
  BY <1>3, <1>7 DEF Tables, MapRsdp, MapRoot, UnsupportedRevision, FindTable, NoMcfg, AcpiFaults, UnchangedBut,
    Error, Say, Goto, At, trap, console, Control, Early
<1>8. CASE Walk \/ WalkPageFaults
  BY <1>3, <1>8 DEF Walk, WalkPageFaults, Walking, Step, WalkEntry, WalkBus, WalkDevice, WalkFunctions,
    WalkFunction, At, trap, console, Control, Early
<1>9. CASE PrintFunction \/ ScanFunction \/ ControllerFaults \/ WalkEnds
  BY <1>3, <1>9 DEF PrintFunction, ScanFunction, ControllerFaults, WalkEnds, Walking, Body, Say, Goto, At, trap,
    console, Control, Early
<1>10. CASE Flush \/ PanicHalts
  BY <1>10 DEF Flush, PanicHalts, Goto, At, trap, Control, Early
<1>11. CASE Int69
  BY <1>11, Raised DEF Int69, At, Control, Early
<1> QED
  BY <1>1, <1>2, <1>4, <1>5, <1>6, <1>7, <1>8, <1>9, <1>10, <1>11, <1>12, <1>13
     DEF Next, Kmain, Printing, Boot, Devices

-----------------------------------------------------------------------------
(* The initialisation of the port, write by write.                          *)

(* The registers of the port before write number i, and where the test byte *)
(* is behind the last one: the transmitter may hand it over at any time.    *)
SetupState(i) ==
  /\ uart.lcr = IF i < 3 THEN 0 ELSE IF i < 6 THEN 128 ELSE 3
  /\ uart.divisor = IF i < 4 THEN <<0, 0>> ELSE <<3, 0>>
  /\ uart.mcr = IF i < 8 THEN 0 ELSE IF i = 8 THEN 11 ELSE 30
  /\ IF i < 10 THEN uart.thr = <<>> /\ uart.rbr = <<>>
     ELSE \/ uart.thr = <<TestByte>> /\ uart.rbr = <<>>
          \/ uart.thr = <<>> /\ uart.rbr = <<TestByte>>
  /\ uart.line = <<>>

(* A port behind its test: what it was given is on the line or on its way,   *)
(* unless the test has left it in loop-back mode.                           *)
WorkingState ==
  /\ uart.lcr = 3 /\ uart.divisor = <<3, 0>>
  /\ uart.mcr \in {15, 30}
  /\ uart.mcr = 15 => out = uart.line \o uart.thr

(* A UART that somebody answers at, with bytes of S in it.                  *)
Uarts(S) == [present : {TRUE}, divisor : Nat \X Nat, lcr : Nat, mcr : Nat, ier : Nat,
             thr : Seq(S), rbr : Seq(S), line : Seq(S)]

PortInv ==
  machine.com1 =>
    /\ \E S : TestByte \in S /\ uart \in Uarts(S) /\ out \in Seq(S)
    /\ pc = "serial" => index \in 1 .. 10 /\ SetupState(index)
    /\ pc = "serial_test" => SetupState(10)
    /\ pc = "tables" \/ armed => WorkingState

(* What is in the UART v.                                                   *)
IsPort(v, S, divisor, lcr, mcr, thr, rbr, line) ==
  /\ v \in Uarts(S)
  /\ v.divisor = divisor /\ v.lcr = lcr /\ v.mcr = mcr
  /\ v.thr = thr /\ v.rbr = rbr /\ v.line = line

(* io::OutB, register by register.                                           *)
LEMMA WriteControl ==
  ASSUME NEW S, NEW u \in Uarts(S), NEW data \in Nat, NEW v, v = OutB(u, 4, data)
  PROVE  IsPort(v, S, u.divisor, u.lcr, data, u.thr, u.rbr, u.line)
<1>p. u.present
  BY DEF Uarts
<1>1. v = [u EXCEPT !.mcr = data]
  BY <1>p, SMT DEF OutB
<1> QED
  BY <1>1 DEF Uarts, IsPort

LEMMA WriteLine ==
  ASSUME NEW S, NEW u \in Uarts(S), NEW data \in Nat, NEW v, v = OutB(u, 3, data)
  PROVE  IsPort(v, S, u.divisor, data, u.mcr, u.thr, u.rbr, u.line)
<1>p. u.present
  BY DEF Uarts
<1>1. v = [u EXCEPT !.lcr = data]
  BY <1>p, SMT DEF OutB
<1> QED
  BY <1>1 DEF Uarts, IsPort

LEMMA WriteFifos ==
  ASSUME NEW S, NEW u \in Uarts(S), NEW data, NEW v, v = OutB(u, 2, data)
  PROVE  IsPort(v, S, u.divisor, u.lcr, u.mcr, <<>>, <<>>, u.line)
<1>p. u.present
  BY DEF Uarts
<1>1. v = [u EXCEPT !.thr = <<>>, !.rbr = <<>>]
  BY <1>p, SMT DEF OutB
<1>2. <<>> \in Seq(S)
  OBVIOUS
<1> QED
  BY <1>1, <1>2 DEF Uarts, IsPort

LEMMA WriteInterrupts ==
  ASSUME NEW S, NEW u \in Uarts(S), ~DLAB(u), NEW data \in Nat, NEW v, v = OutB(u, 1, data)
  PROVE  IsPort(v, S, u.divisor, u.lcr, u.mcr, u.thr, u.rbr, u.line)
<1>p. u.present
  BY DEF Uarts
<1>1. v = [u EXCEPT !.ier = data]
  BY <1>p, SMT DEF OutB
<1> QED
  BY <1>1 DEF Uarts, IsPort

LEMMA WriteDivisorLow ==
  ASSUME NEW S, NEW u \in Uarts(S), DLAB(u), NEW data \in Nat, NEW v, v = OutB(u, 0, data)
  PROVE  IsPort(v, S, [u.divisor EXCEPT ![1] = data], u.lcr, u.mcr, u.thr, u.rbr, u.line)
<1>p. u.present
  BY DEF Uarts
<1>1. v = [u EXCEPT !.divisor = [u.divisor EXCEPT ![1] = data]]
  BY <1>p, SMT DEF OutB
<1>2. [u.divisor EXCEPT ![1] = data] \in Nat \X Nat
  <2>1. u.divisor \in Nat \X Nat
    BY DEF Uarts
  <2>2. \A p \in Nat \X Nat : [p EXCEPT ![1] = data] \in Nat \X Nat
    OBVIOUS
  <2> QED
    BY <2>1, <2>2
<1> QED
  BY <1>1, <1>2 DEF Uarts, IsPort

LEMMA WriteDivisorHigh ==
  ASSUME NEW S, NEW u \in Uarts(S), DLAB(u), NEW data \in Nat, NEW v, v = OutB(u, 1, data)
  PROVE  IsPort(v, S, [u.divisor EXCEPT ![2] = data], u.lcr, u.mcr, u.thr, u.rbr, u.line)
<1>p. u.present
  BY DEF Uarts
<1>1. v = [u EXCEPT !.divisor = [u.divisor EXCEPT ![2] = data]]
  BY <1>p, SMT DEF OutB
<1>2. [u.divisor EXCEPT ![2] = data] \in Nat \X Nat
  <2>1. u.divisor \in Nat \X Nat
    BY DEF Uarts
  <2>2. \A p \in Nat \X Nat : [p EXCEPT ![2] = data] \in Nat \X Nat
    OBVIOUS
  <2> QED
    BY <2>1, <2>2
<1> QED
  BY <1>1, <1>2 DEF Uarts, IsPort

LEMMA WriteData ==
  ASSUME NEW S, NEW u \in Uarts(S), ~DLAB(u), u.thr = <<>>, NEW data \in S, NEW v, v = OutB(u, 0, data)
  PROVE  IsPort(v, S, u.divisor, u.lcr, u.mcr, <<data>>, u.rbr, u.line)
<1>p. u.present
  BY DEF Uarts
<1>1. v = IF Len(u.thr) < FifoSize THEN [u EXCEPT !.thr = Append(@, data)] ELSE u
  BY <1>p, SMT DEF OutB
<1>2. v = [u EXCEPT !.thr = <<data>>]
  BY <1>1, FifoAssumption
<1>3. <<data>> \in Seq(S)
  OBVIOUS
<1> QED
  BY <1>2, <1>3 DEF Uarts, IsPort

(* Each write of the initialisation does what the next state needs.         *)
LEMMA SetupStep ==
  ASSUME NEW S, TestByte \in S, uart \in Uarts(S), index \in 1 .. 9, SetupState(index),
         uart' = OutB(uart, SetupWrites[index][1], SetupWrites[index][2]),
         index' = index + 1
  PROVE  uart' \in Uarts(S) /\ SetupState(index)'
<1>1. CASE index = 1
  <2>1. uart' = OutB(uart, 1, 0)
    BY <1>1 DEF SetupWrites
  <2>2. ~DLAB(uart)
    BY <1>1 DEF SetupState, DLAB, HasBit
  <2> QED
    BY <1>1, <2>1, <2>2, WriteInterrupts DEF SetupState, IsPort
<1>2. CASE index = 2
  <2>1. uart' = OutB(uart, 3, 128)
    BY <1>2 DEF SetupWrites
  <2>2. 128 \in Nat
    OBVIOUS
  <2>3. IsPort(uart', S, uart.divisor, 128, uart.mcr, uart.thr, uart.rbr, uart.line)
    BY <2>1, <2>2, WriteLine
  <2> QED
    BY <1>2, <2>3 DEF SetupState, IsPort
<1>3. CASE index = 3
  <2>1. uart' = OutB(uart, 0, 3)
    BY <1>3 DEF SetupWrites
  <2>2. DLAB(uart)
    BY <1>3 DEF SetupState, DLAB, HasBit
  <2>n. 3 \in Nat
    OBVIOUS
  <2>3. IsPort(uart', S, [uart.divisor EXCEPT ![1] = 3], uart.lcr, uart.mcr, uart.thr, uart.rbr, uart.line)
    BY <2>1, <2>2, <2>n, WriteDivisorLow
  <2> QED
    BY <1>3, <2>3 DEF SetupState, IsPort
<1>4. CASE index = 4
  <2>1. uart' = OutB(uart, 1, 0)
    BY <1>4 DEF SetupWrites
  <2>2. DLAB(uart)
    BY <1>4 DEF SetupState, DLAB, HasBit
  <2>n. 0 \in Nat
    OBVIOUS
  <2>3. IsPort(uart', S, [uart.divisor EXCEPT ![2] = 0], uart.lcr, uart.mcr, uart.thr, uart.rbr, uart.line)
    BY <2>1, <2>2, <2>n, WriteDivisorHigh
  <2> QED
    BY <1>4, <2>3 DEF SetupState, IsPort
<1>5. CASE index = 5
  <2>1. uart' = OutB(uart, 3, 3)
    BY <1>5 DEF SetupWrites
  <2>3. IsPort(uart', S, uart.divisor, 3, uart.mcr, uart.thr, uart.rbr, uart.line)
    BY <2>1, WriteLine
  <2> QED
    BY <1>5, <2>3 DEF SetupState, IsPort
<1>6. CASE index = 6
  <2>1. uart' = OutB(uart, 2, 199)
    BY <1>6 DEF SetupWrites
  <2> QED
    BY <1>6, <2>1, WriteFifos DEF SetupState, IsPort
<1>7. CASE index = 7
  <2>1. uart' = OutB(uart, 4, 11)
    BY <1>7 DEF SetupWrites
  <2>2. 11 \in Nat
    OBVIOUS
  <2>3. IsPort(uart', S, uart.divisor, uart.lcr, 11, uart.thr, uart.rbr, uart.line)
    BY <2>1, <2>2, WriteControl
  <2> QED
    BY <1>7, <2>3 DEF SetupState, IsPort
<1>8. CASE index = 8
  <2>1. uart' = OutB(uart, 4, 30)
    BY <1>8 DEF SetupWrites
  <2>2. 30 \in Nat
    OBVIOUS
  <2>3. IsPort(uart', S, uart.divisor, uart.lcr, 30, uart.thr, uart.rbr, uart.line)
    BY <2>1, <2>2, WriteControl
  <2> QED
    BY <1>8, <2>3 DEF SetupState, IsPort
<1>9. CASE index = 9
  <2>1. uart' = OutB(uart, 0, TestByte)
    BY <1>9 DEF SetupWrites
  <2>2. ~DLAB(uart)
    BY <1>9 DEF SetupState, DLAB, HasBit
  <2> QED
    BY <1>9, <2>1, <2>2, WriteData DEF SetupState, IsPort
<1> QED
  BY <1>1, <1>2, <1>3, <1>4, <1>5, <1>6, <1>7, <1>8, <1>9

(* The test: it passes only when the byte has come back, and nothing is then *)
(* left in the port.                                                        *)
LEMMA TestStep ==
  ASSUME NEW S, TestByte \in S, uart \in Uarts(S), SetupState(10), out = <<>>,
         uart' = Tested(uart), out' = out
  PROVE  uart' \in Uarts(S) /\ WorkingState'
<1>1. uart.lcr = 3 /\ uart.divisor = <<3, 0>> /\ uart.mcr = 30 /\ uart.line = <<>>
  BY DEF SetupState
<1>2. CASE ~Passes(uart)
  <2>1. uart' = uart
    BY <1>2, Zenon DEF Tested
  <2>2. uart'.mcr = 30 /\ uart'.lcr = 3 /\ uart'.divisor = <<3, 0>>
    BY <1>1, <2>1
  <2> QED
    BY <2>1, <2>2 DEF WorkingState
<1>3. CASE Passes(uart)
  <2>1. uart.rbr # <<>>
    BY <1>3, SMT DEF Passes, InData, TestByte
  <2>2. uart.rbr = <<TestByte>> /\ uart.thr = <<>>
    BY <2>1 DEF SetupState
  <2> DEFINE taken == [uart EXCEPT !.rbr = Tail(@)]
  <2>3. taken = [uart EXCEPT !.rbr = <<>>]
    BY <2>2
  <2>4. <<>> \in Seq(S)
    OBVIOUS
  <2>n. 15 \in Nat
    OBVIOUS
  <2>5. /\ taken \in Uarts(S) /\ taken.thr = uart.thr /\ taken.lcr = uart.lcr
        /\ taken.divisor = uart.divisor /\ taken.line = uart.line
    BY <2>3, <2>4 DEF Uarts
  <2>6. uart' = OutB(taken, 4, 15)
    BY <1>3, Zenon DEF Tested
  <2> HIDE DEF taken
  <2>7. /\ uart' \in Uarts(S) /\ uart'.mcr = 15 /\ uart'.thr = taken.thr /\ uart'.lcr = taken.lcr
        /\ uart'.divisor = taken.divisor /\ uart'.line = taken.line
    <3>1. taken \in Uarts(S)
      BY <2>5
    <3>2. IsPort(uart', S, taken.divisor, taken.lcr, 15, taken.thr, taken.rbr, taken.line)
      BY <2>6, <2>n, <3>1, WriteControl
    <3> QED
      BY <3>2 DEF IsPort
  <2> QED
    BY <1>1, <2>2, <2>5, <2>7 DEF WorkingState
<1> QED
  BY <1>2, <1>3

(* A byte goes to an empty transmitter.                                     *)
LEMMA WriteStep ==
  ASSUME NEW S, TestByte \in S, uart \in Uarts(S), out \in Seq(S), WorkingState,
         NEW x \in S, IsTransmitEmpty(uart), uart' = Written(uart, x), out' = Append(out, x)
  PROVE  uart' \in Uarts(S) /\ out' \in Seq(S) /\ WorkingState'
<1>1. uart.thr = <<>> /\ uart.line \in Seq(S)
  BY DEF IsTransmitEmpty, LineStatusEmpty, Uarts
<1>2. ~DLAB(uart)
  BY DEF WorkingState, DLAB, HasBit
<1>3. uart' = OutB(uart, 0, x)
  BY DEF Written
<1>4. IsPort(uart', S, uart.divisor, uart.lcr, uart.mcr, <<x>>, uart.rbr, uart.line)
  BY <1>1, <1>2, <1>3, WriteData
<1>5. out = uart.line \o <<>> => out' = uart'.line \o uart'.thr
  BY <1>1, <1>4 DEF IsPort
<1> QED
  BY <1>1, <1>4, <1>5 DEF WorkingState, IsPort

(* The transmitter hands a byte to the line or back to the receiver.         *)
LEMMA ShiftStep ==
  ASSUME NEW S, TestByte \in S, uart \in Uarts(S), CanShift(uart), uart' = Shift(uart)
  PROVE  /\ uart' \in Uarts(S) /\ uart'.lcr = uart.lcr /\ uart'.mcr = uart.mcr /\ uart'.divisor = uart.divisor
         /\ Loop(uart) => /\ uart'.thr = Tail(uart.thr) /\ uart'.line = uart.line
                          /\ uart.rbr = <<>> => uart'.rbr = <<Head(uart.thr)>>
         /\ ~Loop(uart) => uart'.line \o uart'.thr = uart.line \o uart.thr
<1>1. uart.thr \in Seq(S) /\ uart.rbr \in Seq(S) /\ uart.line \in Seq(S) /\ uart.thr # <<>>
  BY DEF Uarts, CanShift
<1>2. Head(uart.thr) \in S /\ Tail(uart.thr) \in Seq(S)
  BY <1>1
<1>3. CASE Loop(uart)
  <2> DEFINE received == IF Len(uart.rbr) < FifoSize THEN Append(uart.rbr, Head(uart.thr)) ELSE uart.rbr
  <2>1. received \in Seq(S) /\ (uart.rbr = <<>> => received = <<Head(uart.thr)>>)
    <3>1. received \in Seq(S)
      BY <1>1, <1>2
    <3>2. ASSUME uart.rbr = <<>> PROVE received = <<Head(uart.thr)>>
      <4>1. Len(uart.rbr) < FifoSize /\ Append(uart.rbr, Head(uart.thr)) = <<Head(uart.thr)>>
        BY <3>2, FifoAssumption
      <4> QED
        BY <4>1
    <3> QED
      BY <3>1, <3>2
  <2>2. uart' = [uart EXCEPT !.thr = Tail(uart.thr), !.rbr = received]
    BY <1>3, Zenon DEF Shift
  <2> HIDE DEF received
  <2> QED
    BY <1>2, <1>3, <2>1, <2>2 DEF Uarts
<1>4. CASE ~Loop(uart)
  <2>1. Append(uart.line, Head(uart.thr)) \in Seq(S)
    BY <1>1, <1>2
  <2>2. uart' = [uart EXCEPT !.thr = Tail(uart.thr), !.line = Append(uart.line, Head(uart.thr))]
    BY <1>4, Zenon DEF Shift
  <2>3. /\ uart' \in Uarts(S) /\ uart'.lcr = uart.lcr /\ uart'.mcr = uart.mcr /\ uart'.divisor = uart.divisor
        /\ uart'.thr = Tail(uart.thr) /\ uart'.line = Append(uart.line, Head(uart.thr))
    BY <1>2, <2>1, <2>2 DEF Uarts
  <2>4. Append(uart.line, Head(uart.thr)) \o Tail(uart.thr) = uart.line \o uart.thr
    BY <1>1, Handover
  <2> QED
    BY <1>4, <2>3, <2>4
<1> QED
  BY <1>3, <1>4

-----------------------------------------------------------------------------
(* Control holds of every step.                                             *)
LEMMA ControlHolds ==
  ASSUME Control, [Next]_vars
  PROVE  Control'
<1>1. CASE SerialSetup
  BY <1>1 DEF SerialSetup, At, Goto, Quiet, trap, Control, Early
<1>2. CASE SerialTest
  BY <1>2 DEF SerialTest, At, Goto, Quiet, trap, Control, Early
<1>3. CASE LoadTables
  BY <1>3 DEF LoadTables, At, Goto, Control, Early
<1>4. CASE WriteSerial
  BY <1>4 DEF WriteSerial, trap, Control, Early
<1>5. CASE UartShift
  BY <1>5 DEF UartShift, trap, Control
<1>6. CASE ~SerialSetup /\ ~SerialTest /\ ~LoadTables /\ ~WriteSerial /\ ~UartShift
  <2>1. /\ UNCHANGED <<out, armed>>
        /\ armed => pc' \notin Early
        /\ ~armed => (pc' = "reset" \/ UNCHANGED pc) /\ UNCHANGED <<queue, half>>
    BY <1>6, OtherSteps
  <2>2. CASE armed
    BY <2>1, <2>2 DEF Control
  <2>3. CASE ~armed
    BY <2>1, <2>3 DEF Control
  <2> QED
    BY <2>2, <2>3
<1> QED
  BY <1>1, <1>2, <1>3, <1>4, <1>5, <1>6

LEMMA PortInvHolds ==
  ASSUME Control, PortInv, [Next]_vars
  PROVE  PortInv'
<1> SUFFICES ASSUME machine.com1
             PROVE  /\ \E S : TestByte \in S /\ uart' \in Uarts(S) /\ out' \in Seq(S)
                    /\ pc' = "serial" => index' \in 1 .. 10 /\ SetupState(index)'
                    /\ pc' = "serial_test" => SetupState(10)'
                    /\ pc' = "tables" \/ armed' => WorkingState'
  <2>1. UNCHANGED machine
    <3>1. CASE SerialSetup \/ SerialTest
      BY <3>1 DEF SerialSetup, SerialTest
    <3>2. CASE LoadTables \/ WriteSerial \/ UartShift
      BY <3>2 DEF LoadTables, WriteSerial, UartShift
    <3> QED
      BY <3>1, <3>2, OtherSteps
  <2> QED
    BY <2>1 DEF PortInv
<1>p. /\ pc = "serial" => index \in 1 .. 10 /\ SetupState(index)
      /\ pc = "serial_test" => SetupState(10)
      /\ pc = "tables" \/ armed => WorkingState
  BY DEF PortInv
<1>s. PICK S : TestByte \in S /\ uart \in Uarts(S) /\ out \in Seq(S)
  BY DEF PortInv
<1>c. /\ ~armed => pc \in Early \cup {"reset"} /\ queue = <<>> /\ ~half /\ out = <<>>
      /\ armed => pc \notin Early
  BY DEF Control
<1>1. CASE SerialSetup
  <2>1. /\ pc = "serial" /\ ~armed /\ UNCHANGED <<armed, out>>
        /\ IF index > 9
           THEN pc' = "serial_test" /\ UNCHANGED uart
           ELSE /\ uart' = OutB(uart, SetupWrites[index][1], SetupWrites[index][2])
                /\ index' = index + 1 /\ UNCHANGED pc
    BY <1>1, <1>c DEF SerialSetup, At, Goto, Quiet, trap, SetupWrites, Early
  <2>2. CASE index > 9
    <3>1. index = 10 /\ SetupState(index)
      BY <1>p, <2>1, <2>2
    <3> QED
      BY <1>s, <2>1, <2>2, <3>1 DEF SetupState
  <2>3. CASE ~(index > 9)
    <3>1. index \in 1 .. 9 /\ SetupState(index)
      BY <1>p, <2>1, <2>3
    <3>2. uart' \in Uarts(S) /\ SetupState(index)'
      BY <1>s, <2>1, <2>3, <3>1, SetupStep
    <3> QED
      BY <1>s, <2>1, <2>3, <3>1, <3>2
  <2> QED
    BY <2>2, <2>3
<1>2. CASE SerialTest
  <2>1. pc = "serial_test" /\ ~armed /\ UNCHANGED <<armed, out>> /\ uart' = Tested(uart) /\ pc' = "tables"
    BY <1>2, <1>c DEF SerialTest, At, Goto, Quiet, trap, Early
  <2>2. SetupState(10) /\ out = <<>>
    BY <1>p, <1>c, <2>1
  <2>3. uart' \in Uarts(S) /\ WorkingState'
    BY <1>s, <2>1, <2>2, TestStep
  <2> QED
    BY <1>s, <2>1, <2>3
<1>3. CASE LoadTables
  <2>1. pc = "tables" /\ pc' = "responses" /\ UNCHANGED <<uart, out>>
    BY <1>3 DEF LoadTables, At, Goto, console
  <2> QED
    BY <1>p, <1>s, <2>1 DEF WorkingState
<1>4. CASE WriteSerial
  <2>1. /\ queue # <<>> /\ IsTransmitEmpty(uart) /\ uart' = Written(uart, Head(queue))
        /\ out' = Append(out, Head(queue)) /\ UNCHANGED <<pc, armed>>
    BY <1>4 DEF WriteSerial, trap
  <2>2. armed /\ WorkingState
    BY <1>c, <1>p, <2>1
  <2> DEFINE T == S \cup {Head(queue)}
  <2>3. TestByte \in T /\ uart \in Uarts(T) /\ out \in Seq(T) /\ Head(queue) \in T
    <3>1. \A s \in Seq(S) : s \in Seq(T)
      OBVIOUS
    <3> HIDE DEF T
    <3>2. uart \in Uarts(T)
      BY <1>s, <3>1 DEF Uarts
    <3> QED
      BY <1>s, <3>1, <3>2 DEF T
  <2> HIDE DEF T
  <2>4. uart' \in Uarts(T) /\ out' \in Seq(T) /\ WorkingState'
    BY <2>1, <2>2, <2>3, WriteStep
  <2> QED
    BY <1>c, <2>1, <2>2, <2>3, <2>4 DEF Early
<1>5. CASE UartShift
  <2>1. CanShift(uart) /\ uart' = Shift(uart) /\ UNCHANGED <<pc, index, armed, out>>
    BY <1>5 DEF UartShift, trap
  <2>2. /\ uart' \in Uarts(S) /\ uart'.lcr = uart.lcr /\ uart'.mcr = uart.mcr /\ uart'.divisor = uart.divisor
        /\ Loop(uart) => /\ uart'.thr = Tail(uart.thr) /\ uart'.line = uart.line
                         /\ uart.rbr = <<>> => uart'.rbr = <<Head(uart.thr)>>
        /\ ~Loop(uart) => uart'.line \o uart'.thr = uart.line \o uart.thr
    BY <1>s, <2>1, ShiftStep
  <2>3. ASSUME NEW i \in 1 .. 10, SetupState(i)
        PROVE  SetupState(i)'
    <3>1. i = 10 /\ uart.thr = <<TestByte>> /\ uart.rbr = <<>>
      BY <2>1, <2>3 DEF SetupState, CanShift
    <3>2. Loop(uart)
      BY <2>3, <3>1 DEF SetupState, Loop, HasBit
    <3>3. Tail(uart.thr) = <<>> /\ Head(uart.thr) = TestByte
      BY <3>1
    <3>n. uart'.thr = Tail(uart.thr) /\ uart'.rbr = <<Head(uart.thr)>> /\ uart'.line = uart.line
      BY <2>2, <3>1, <3>2, Zenon
    <3>4. uart'.thr = <<>> /\ uart'.rbr = <<TestByte>> /\ uart'.line = uart.line
      BY <3>3, <3>n
    <3>5. /\ uart.lcr = 3 /\ uart.divisor = <<3, 0>> /\ uart.mcr = 30 /\ uart.line = <<>>
      BY <2>3, <3>1 DEF SetupState
    <3> QED
      BY <2>1, <2>2, <3>1, <3>4, <3>5 DEF SetupState
  <2>4. ASSUME WorkingState
        PROVE  WorkingState'
    <3>1. uart.mcr = 15 => ~Loop(uart)
      BY DEF Loop, HasBit
    <3> QED
      BY <2>1, <2>2, <2>4, <3>1 DEF WorkingState
  <2> QED
    BY <1>p, <1>s, <2>1, <2>2, <2>3, <2>4
<1>6. CASE ~SerialSetup /\ ~SerialTest /\ ~LoadTables /\ ~WriteSerial /\ ~UartShift
  <2>1. /\ UNCHANGED <<uart, out, armed>>
        /\ armed => pc' \notin Early
        /\ ~armed => pc' = "reset" \/ UNCHANGED <<pc, index>>
    BY <1>6, OtherSteps
  <2>2. \A i : SetupState(i) /\ UNCHANGED <<uart, out>> => SetupState(i)'
    BY DEF SetupState
  <2>3. WorkingState => WorkingState'
    BY <2>1 DEF WorkingState
  <2> QED
    BY <1>p, <1>s, <1>c, <2>1, <2>2, <2>3 DEF Early
<1> QED
  BY <1>1, <1>2, <1>3, <1>4, <1>5, <1>6

LEMMA PortHolds == Spec => [](Control /\ PortInv)
<1>1. Init => Control /\ PortInv
  <2>1. ASSUME Init PROVE Control
    BY <2>1 DEF Init, Control, Early
  <2>2. ASSUME Init, machine.com1
        PROVE  /\ \E S : TestByte \in S /\ uart \in Uarts(S) /\ out \in Seq(S)
               /\ pc = "serial" /\ index = 1 /\ ~armed /\ SetupState(1)
    <3>1. /\ uart = [present |-> TRUE, divisor |-> <<0, 0>>, lcr |-> 0, mcr |-> 0, ier |-> 0,
                    thr |-> <<>>, rbr |-> <<>>, line |-> <<>>]
          /\ out = <<>> /\ pc = "serial" /\ index = 1 /\ ~armed
      BY <2>2 DEF Init, FreshUart, NoUart
    <3>2. uart \in Uarts({TestByte})
      BY <3>1 DEF Uarts
    <3> QED
      BY <3>1, <3>2 DEF SetupState
  <2> QED
    BY <2>1, <2>2 DEF PortInv
<1>2. Control /\ PortInv /\ [Next]_vars => (Control /\ PortInv)'
  BY ControlHolds, PortInvHolds
<1> QED
  BY <1>1, <1>2, PTL DEF Spec

(* A port that has left loop-back mode loses nothing and keeps the order,    *)
(* whatever the kernel prints, wherever an exception interrupts it and       *)
(* however slow the line is (serial.cpp:22-39, 46-54).                       *)
THEOREM SerialLosesNothing == Spec => []NothingLost
<1>1. Control /\ PortInv => NothingLost
  <2>1. uart.mcr = 30 => Loop(uart)
    BY DEF Loop, HasBit
  <2> QED
    BY <2>1 DEF PortInv, WorkingState, NothingLost
<1> QED
  BY <1>1, PortHolds, PTL

-----------------------------------------------------------------------------
(* Exceptions: every vector the machine has goes through its own gate, and   *)
(* its handler reports what the processor has encoded.                      *)

(* What may be raised: by the kernel, or by the processor itself.           *)
IsEvent(v, info) ==
  \/ v = KernelException /\ info = 0
  \/ v \in Vectors /\ info \in Infos(v)

LEMMA GatesPass ==
  ASSUME NEW v \in Vectors \cup {KernelException}
  PROVE  Passable(v)
<1>1. v \in DOMAIN IdtEntries
  BY DEF IdtEntries, Vectors, KernelException
<1>2. 8 \in DOMAIN GdtEntries /\ GdtEntries[8] = Segment(154, 10)
  BY DEF GdtEntries, GDT_PRESENT, GDT_CODE_DATA, GDT_READABLE_WRITEABLE, GDT_EXECUTABLE,
         GDT_PAGE_GRANULARITY, GDT_LONG_MODE
<1>3. /\ Segment(154, 10).access = 154 /\ Segment(154, 10).flags = 10
      /\ Bit(154, 128) = 1 /\ Bit(154, 16) = 1 /\ Bit(154, 8) = 1 /\ Bit(10, 2) = 1
  BY DEF Segment, Bit
<1> QED
  BY <1>1, <1>2, <1>3 DEF Passable, GateSelector

(* The error code of a page fault, taken apart bit by bit.                  *)
LEMMA FlagsComeBack ==
  ASSUME NEW flags \in SUBSET DOMAIN PageFaultFlags
  PROVE  FlagsOf(PageFaultCode(flags)) = flags
<1> DEFINE value(flag) == IF flag \in flags THEN PageFaultFlags[flag] ELSE 0
           code == PageFaultCode(flags)
<1>1. DOMAIN PageFaultFlags = {"present", "write", "user", "reserved", "fetch", "key", "shadow", "sgx"}
  BY DEF PageFaultFlags
<1>2. PICK a \in 0 .. 1, b \in 0 .. 1, c \in 0 .. 1, d \in 0 .. 1, e \in 0 .. 1, f \in 0 .. 1,
           g \in 0 .. 1, h \in 0 .. 1 :
        /\ (a = 1) <=> "present" \in flags
        /\ (b = 1) <=> "write" \in flags
        /\ (c = 1) <=> "user" \in flags
        /\ (d = 1) <=> "reserved" \in flags
        /\ (e = 1) <=> "fetch" \in flags
        /\ (f = 1) <=> "key" \in flags
        /\ (g = 1) <=> "shadow" \in flags
        /\ (h = 1) <=> "sgx" \in flags
  <2>1. \A flag : \E bit \in 0 .. 1 : (bit = 1) <=> flag \in flags
    OBVIOUS
  <2> QED
    BY <2>1
<1>3. code = a + 2 * b + 4 * c + 8 * d + 16 * e + 32 * f + 64 * g + 32768 * h
  BY <1>2 DEF PageFaultCode, PageFaultFlags
<1>4. /\ Bit(code, 1) = a /\ Bit(code, 2) = b /\ Bit(code, 4) = c /\ Bit(code, 8) = d
      /\ Bit(code, 16) = e /\ Bit(code, 32) = f /\ Bit(code, 64) = g /\ Bit(code, 32768) = h
  BY <1>2, <1>3 DEF Bit
<1> HIDE DEF code
<1>5. ASSUME NEW flag \in DOMAIN PageFaultFlags
      PROVE  Bit(code, PageFaultFlags[flag]) = 1 <=> flag \in flags
  BY <1>1, <1>2, <1>4 DEF PageFaultFlags
<1>6. FlagsOf(code) = {flag \in DOMAIN PageFaultFlags : Bit(code, PageFaultFlags[flag]) = 1}
  BY DEF FlagsOf
<1> QED
  BY <1>5, <1>6 DEF code

LEMMA SmallRemainder ==
  ASSUME NEW j \in 0 .. 8191
  PROVE  j % 8192 = j
OBVIOUS

EventBits == 0 .. 1
TableBits == 0 .. 2
SelectorIndex == 0 .. 8191

(* What a code made of an event bit, a table and an index is taken apart to. *)
Fields(y, h, j) ==
  /\ Bit(y + 2 * h + 8 * j, 1) = y
  /\ Bits(y + 2 * h + 8 * j, 2, 4) = h
  /\ Bits(y + 2 * h + 8 * j, 8, 8192) = j

LEMMA SelectorFields ==
  ASSUME NEW y \in EventBits, NEW h \in TableBits, NEW j \in SelectorIndex
  PROVE  Fields(y, h, j)
<1> USE DEF EventBits, TableBits, SelectorIndex
<1> DEFINE n == y + 2 * h + 8 * j
<1>1. n \in Nat /\ n \div 1 = n /\ n % 2 = y
  OBVIOUS
<1>2. n \div 2 = h + 4 * j /\ (h + 4 * j) % 4 = h
  OBVIOUS
<1>3. n \div 8 = j /\ j % 8192 = j
  <2>1. n \div 8 = j
    OBVIOUS
  <2> QED
    BY <2>1, SmallRemainder
<1> HIDE DEF n
<1>4. Bit(n, 1) = y /\ Bits(n, 2, 4) = h /\ Bits(n, 8, 8192) = j
  BY <1>1, <1>2, <1>3 DEF Bit, Bits
<1> QED
  BY <1>4 DEF n, Fields

(* The error code of an exception about a selector.                         *)
LEMMA SelectorComesBack ==
  ASSUME NEW v \in SelectorVectors,
         NEW info \in Infos(v)
  PROVE  Selector(Encoded(v, info)) = info
<1> DEFINE e == info.external
           i == info.index
           x == IF e THEN 1 ELSE 0
           t == CASE info.table = "GDT" -> 0 [] info.table = "IDT" -> 2 [] info.table = "LDT" -> 4
           code == x + t + 8 * i
<1>1. Encoded(v, info) = code
  <2>1. Encoded(v, info) = SelectorCode(info)
    BY DEF Encoded, SelectorVectors, PageFault
  <2> QED
    BY <2>1 DEF SelectorCode
<1>2. e \in BOOLEAN /\ info.table \in {"GDT", "IDT", "LDT"} /\ i \in 0 .. 8191
      /\ info = [external |-> e, table |-> info.table, index |-> i]
  <2>1. v # PageFault /\ v \notin {17, 21}
    BY DEF SelectorVectors, PageFault
  <2>2. info \in [external : BOOLEAN, table : {"GDT", "IDT", "LDT"}, index : 0 .. 8191]
    BY <2>1 DEF Infos
  <2> QED
    BY <2>2
<1>3. x \in 0 .. 1 /\ ((x = 1) <=> e)
  BY <1>2
<1>4. /\ info.table = "GDT" => t = 0
      /\ info.table = "IDT" => t = 2
      /\ info.table = "LDT" => t = 4
  OBVIOUS
<1> HIDE DEF x, t, e, i
<1>6. PICK h \in 0 .. 2 : t = 2 * h /\ TableString[h] = info.table
  <2>1. CASE info.table = "GDT"
    BY <1>4, <2>1 DEF TableString
  <2>2. CASE info.table = "IDT"
    BY <1>4, <2>2 DEF TableString
  <2>3. CASE info.table = "LDT"
    BY <1>4, <2>3 DEF TableString
  <2> QED
    BY <1>2, <2>1, <2>2, <2>3
<1>7. Bit(code, 1) = x /\ Bits(code, 2, 4) = h /\ Bits(code, 8, 8192) = i
  <2>1. code = x + 2 * h + 8 * i
    BY <1>6
  <2> HIDE DEF code
  <2>2. x \in 0 .. 1 /\ h \in 0 .. 2 /\ i \in 0 .. 8191
    BY <1>2, <1>3
  <2>3. x \in EventBits /\ h \in TableBits /\ i \in SelectorIndex
    BY <2>2 DEF EventBits, TableBits, SelectorIndex
  <2>4. Fields(x, h, i)
    BY <2>3, SelectorFields, Zenon
  <2> QED
    BY <2>1, <2>4 DEF Fields
<1> HIDE DEF code
<1>8. Selector(code) = [external |-> x = 1, table |-> info.table, index |-> i]
  BY <1>6, <1>7 DEF Selector
<1>9. (x = 1) = e
  BY <1>2, <1>3
<1> QED
  BY <1>1, <1>2, <1>8, <1>9

(* The names of the vectors, and the handlers behind the names.              *)
LEMMA Names ==
  /\ IdtEntries[0] = "DE" /\ Mnemonic[0] = "DE"
  /\ IdtEntries[1] = "DB" /\ Mnemonic[1] = "DB"
  /\ IdtEntries[2] = "NI" /\ Mnemonic[2] = "NI"
  /\ IdtEntries[3] = "BP" /\ Mnemonic[3] = "BP"
  /\ IdtEntries[4] = "OF" /\ Mnemonic[4] = "OF"
  /\ IdtEntries[5] = "BR" /\ Mnemonic[5] = "BR"
  /\ IdtEntries[6] = "UD" /\ Mnemonic[6] = "UD"
  /\ IdtEntries[7] = "NM" /\ Mnemonic[7] = "NM"
  /\ IdtEntries[8] = "DF" /\ Mnemonic[8] = "DF"
  /\ IdtEntries[10] = "TS" /\ Mnemonic[10] = "TS"
  /\ IdtEntries[11] = "NP" /\ Mnemonic[11] = "NP"
  /\ IdtEntries[12] = "SS" /\ Mnemonic[12] = "SS"
  /\ IdtEntries[13] = "GP" /\ Mnemonic[13] = "GP"
  /\ IdtEntries[14] = "PF" /\ Mnemonic[14] = "PF"
  /\ IdtEntries[16] = "MF" /\ Mnemonic[16] = "MF"
  /\ IdtEntries[17] = "AC" /\ Mnemonic[17] = "AC"
  /\ IdtEntries[18] = "MC" /\ Mnemonic[18] = "MC"
  /\ IdtEntries[19] = "XM" /\ Mnemonic[19] = "XM"
  /\ IdtEntries[20] = "VE" /\ Mnemonic[20] = "VE"
  /\ IdtEntries[21] = "CP" /\ Mnemonic[21] = "CP"
  /\ IdtEntries[105] = "KE" /\ Mnemonic[105] = "KE"
<1>1. /\ Mnemonics[1] = "DE" /\ Mnemonics[2] = "DB" /\ Mnemonics[3] = "NI" /\ Mnemonics[4] = "BP"
      /\ Mnemonics[5] = "OF" /\ Mnemonics[6] = "BR" /\ Mnemonics[7] = "UD" /\ Mnemonics[8] = "NM"
      /\ Mnemonics[9] = "DF" /\ Mnemonics[11] = "TS" /\ Mnemonics[12] = "NP"
      /\ Mnemonics[13] = "SS" /\ Mnemonics[14] = "GP" /\ Mnemonics[15] = "PF"
      /\ Mnemonics[17] = "MF" /\ Mnemonics[18] = "AC" /\ Mnemonics[19] = "MC"
      /\ Mnemonics[20] = "XM" /\ Mnemonics[21] = "VE" /\ Mnemonics[22] = "CP"
  BY DEF Mnemonics
<1>2. /\ Mnemonic[0] = Mnemonics[1] /\ Mnemonic[1] = Mnemonics[2] /\ Mnemonic[2] = Mnemonics[3]
      /\ Mnemonic[3] = Mnemonics[4] /\ Mnemonic[4] = Mnemonics[5] /\ Mnemonic[5] = Mnemonics[6]
      /\ Mnemonic[6] = Mnemonics[7] /\ Mnemonic[7] = Mnemonics[8] /\ Mnemonic[8] = Mnemonics[9]
      /\ Mnemonic[10] = Mnemonics[11] /\ Mnemonic[11] = Mnemonics[12]
      /\ Mnemonic[12] = Mnemonics[13] /\ Mnemonic[13] = Mnemonics[14]
      /\ Mnemonic[14] = Mnemonics[15] /\ Mnemonic[16] = Mnemonics[17]
      /\ Mnemonic[17] = Mnemonics[18] /\ Mnemonic[18] = Mnemonics[19]
      /\ Mnemonic[19] = Mnemonics[20] /\ Mnemonic[20] = Mnemonics[21]
      /\ Mnemonic[21] = Mnemonics[22]
  BY DEF Mnemonic, Vectors, KernelException
<1>3. Mnemonic[105] = "KE"
  BY DEF Mnemonic, KernelException
<1>4. /\ IdtEntries[0] = "DE" /\ IdtEntries[1] = "DB" /\ IdtEntries[2] = "NI"
      /\ IdtEntries[3] = "BP" /\ IdtEntries[4] = "OF" /\ IdtEntries[5] = "BR"
      /\ IdtEntries[6] = "UD" /\ IdtEntries[7] = "NM" /\ IdtEntries[8] = "DF"
      /\ IdtEntries[10] = "TS" /\ IdtEntries[11] = "NP" /\ IdtEntries[12] = "SS"
      /\ IdtEntries[13] = "GP" /\ IdtEntries[14] = "PF" /\ IdtEntries[16] = "MF"
      /\ IdtEntries[17] = "AC" /\ IdtEntries[18] = "MC" /\ IdtEntries[19] = "XM"
      /\ IdtEntries[20] = "VE" /\ IdtEntries[21] = "CP" /\ IdtEntries[105] = "KE"
  BY DEF IdtEntries
<1> QED
  BY <1>1, <1>2, <1>3, <1>4

(* The gate of every vector leads to the handler of that name.               *)
Same(v) == IdtEntries[v] = Mnemonic[v] /\ Mnemonic[v] # ""

LEMMA SameNames ==
  ASSUME NEW v \in Vectors \cup {105}
  PROVE  Same(v)
<1>1. Same(0) /\ Same(1) /\ Same(2) /\ Same(3) /\ Same(4) /\ Same(5) /\ Same(6)
  BY Names DEF Same
<1>2. Same(7) /\ Same(8) /\ Same(10) /\ Same(11) /\ Same(12) /\ Same(13) /\ Same(14)
  BY Names DEF Same
<1>3. Same(16) /\ Same(17) /\ Same(18) /\ Same(19) /\ Same(20) /\ Same(21) /\ Same(105)
  BY Names DEF Same
<1>4. v \in {0, 1, 2, 3, 4, 5, 6, 7, 8, 10, 11, 12, 13, 14, 16, 17, 18, 19, 20, 21, 105}
  BY DEF Vectors
<1> QED
  BY <1>1, <1>2, <1>3, <1>4

LEMMA HandledBy ==
  ASSUME NEW words
  PROVE  /\ \A n \in {"DE", "DB", "NI", "BP", "OF", "BR", "UD", "NM",
                    "MF", "MC", "XM", "VE", "KE"} :
                Handled(n, words) = Panic(FALSE, n, 0, Without(words))
         /\ \A n \in {"TS", "NP", "SS", "GP"} :
                Handled(n, words) = Panic(FALSE, n, Selector(ErrorCode(words)), WithCode(words))
         /\ \A n \in {"AC", "CP"} : Handled(n, words) = Panic(FALSE, n, ErrorCode(words), WithCode(words))
         /\ Handled("DF", words) = Panic(TRUE, "DF", 0, WithCode(words))
         /\ Handled("PF", words) = Panic(FALSE, "PF", FlagsOf(ErrorCode(words)), WithCode(words))
<1>1. ASSUME NEW n \in {"DE", "DB", "NI", "BP", "OF", "BR", "UD", "NM",
                    "MF", "MC", "XM", "VE", "KE"}
      PROVE  Handled(n, words) = Panic(FALSE, n, 0, Without(words))
  <2>1. CASE n = "DE"
    BY <2>1 DEF Handled, DE_Handler
  <2>2. CASE n = "DB"
    BY <2>2 DEF Handled, DB_Handler
  <2>3. CASE n = "NI"
    BY <2>3 DEF Handled, NI_Handler
  <2>4. CASE n = "BP"
    BY <2>4 DEF Handled, BP_Handler
  <2>5. CASE n = "OF"
    BY <2>5 DEF Handled, OF_Handler
  <2>6. CASE n = "BR"
    BY <2>6 DEF Handled, BR_Handler
  <2>7. CASE n = "UD"
    BY <2>7 DEF Handled, UD_Handler
  <2>8. CASE n = "NM"
    BY <2>8 DEF Handled, NM_Handler
  <2>9. CASE n = "MF"
    BY <2>9 DEF Handled, MF_Handler
  <2>10. CASE n = "MC"
    BY <2>10 DEF Handled, MC_Handler
  <2>11. CASE n = "XM"
    BY <2>11 DEF Handled, XM_Handler
  <2>12. CASE n = "VE"
    BY <2>12 DEF Handled, VE_Handler
  <2>13. CASE n = "KE"
    BY <2>13 DEF Handled, KE_Handler
  <2> QED
    BY <2>1, <2>2, <2>3, <2>4, <2>5, <2>6, <2>7, <2>8, <2>9, <2>10, <2>11, <2>12, <2>13
<1>2. ASSUME NEW n \in {"TS", "NP", "SS", "GP"}
      PROVE  Handled(n, words) = Panic(FALSE, n, Selector(ErrorCode(words)), WithCode(words))
  <2>1. CASE n = "TS"
    BY <2>1 DEF Handled, TS_Handler
  <2>2. CASE n = "NP"
    BY <2>2 DEF Handled, NP_Handler
  <2>3. CASE n = "SS"
    BY <2>3 DEF Handled, SS_Handler
  <2>4. CASE n = "GP"
    BY <2>4 DEF Handled, GP_Handler
  <2> QED
    BY <2>1, <2>2, <2>3, <2>4
<1>3. ASSUME NEW n \in {"AC", "CP"}
      PROVE  Handled(n, words) = Panic(FALSE, n, ErrorCode(words), WithCode(words))
  BY DEF Handled, AC_Handler, CP_Handler
<1>4. Handled("DF", words) = Panic(TRUE, "DF", 0, WithCode(words))
  BY DEF Handled, DF_Handler
<1>5. Handled("PF", words) = Panic(FALSE, "PF", FlagsOf(ErrorCode(words)), WithCode(words))
  BY DEF Handled, PF_Handler
<1> QED
  BY <1>1, <1>2, <1>3, <1>4, <1>5

(* The report r says of an exception what the processor has to say of it.    *)
Fits(r, v, info, frame) ==
  /\ r.name = Mnemonic[v] /\ r.name # ""
  /\ v # DoubleFault => r.details = info
  /\ r.CS = frame.CS /\ r.SS = frame.SS /\ r.SP = frame.SP

LEMMA ReportsAreRight ==
  ASSUME NEW v, NEW info, IsEvent(v, info), NEW frame
  PROVE  Fits(Report(v, info, frame), v, info, frame)
<1> DEFINE code == Encoded(v, info)
           words == Pushed(v, code, frame)
           shown == [IP |-> frame.IP, CS |-> frame.CS, Flags |-> frame.Flags, SP |-> frame.SP, SS |-> frame.SS]
           name == IdtEntries[v]
           r == Report(v, info, frame)
           Plain == {0, 1, 2, 3, 4, 5, 6, 7, 16, 18, 19, 20, 105}
           Selecting == {10, 11, 12, 13}
<1>1. v \in Plain \cup Selecting \cup {8, 14, 17, 21}
  BY DEF IsEvent, Vectors, KernelException
<1>2. v \in Plain => Without(words) = shown
  BY DEF Pushed, Without, StackFrame, ErrorCodeVectors, SelectorVectors
<1>3. v \notin Plain => WithCode(words) = shown /\ ErrorCode(words) = code
  BY <1>1 DEF Pushed, WithCode, StackFrame, ErrorCode, ErrorCodeVectors, SelectorVectors
<1>4. r = Handled(name, words)
  BY DEF Report
<1> HIDE DEF words, code, name, r
<1>5. name = Mnemonic[v] /\ name # ""
  <2>1. v \in Vectors \cup {105}
    BY <1>1 DEF Vectors
  <2> QED
    BY <2>1, SameNames DEF name, Same
<1>6. ASSUME NEW serious, NEW details, v # DoubleFault => details = info,
             r = Panic(serious, name, details, shown)
      PROVE  Fits(r, v, info, frame)
  BY <1>5, <1>6 DEF Panic, Fits
<1>7. CASE v \in Plain
  <2>1. name \in {"DE", "DB", "NI", "BP", "OF", "BR", "UD", "NM", "MF", "MC", "XM", "VE", "KE"}
    BY <1>7, Names DEF name
  <2>2. r = Panic(FALSE, name, 0, Without(words))
    BY <1>4, <2>1, HandledBy
  <2>3. info = 0
    BY <1>7 DEF IsEvent, Infos, SelectorVectors, PageFault, KernelException
  <2> QED
    BY <1>2, <1>6, <1>7, <2>2, <2>3 DEF r
<1>8. CASE v = 8
  <2>s. WithCode(words) = shown /\ ErrorCode(words) = code
    BY <1>3, <1>8
  <2>1. name = "DF"
    BY <1>8, Names DEF name
  <2>2. r = Panic(TRUE, name, 0, WithCode(words))
    BY <1>4, <2>1, HandledBy
  <2> QED
    BY <2>s, <1>6, <1>8, <2>2 DEF DoubleFault, r
<1>9. CASE v \in {17, 21}
  <2>s. WithCode(words) = shown /\ ErrorCode(words) = code
    BY <1>3, <1>9
  <2>1. name \in {"AC", "CP"}
    BY <1>9, Names DEF name
  <2>2. r = Panic(FALSE, name, ErrorCode(words), WithCode(words))
    BY <1>4, <2>1, HandledBy
  <2>3. code = info
    BY <1>9 DEF code, Encoded, SelectorVectors, PageFault
  <2> QED
    BY <2>s, <1>6, <1>9, <2>2, <2>3 DEF r
<1>10. CASE v \in Selecting
  <2>s. WithCode(words) = shown /\ ErrorCode(words) = code
    BY <1>3, <1>10
  <2>1. name \in {"TS", "NP", "SS", "GP"}
    BY <1>10, Names DEF name
  <2>2. r = Panic(FALSE, name, Selector(ErrorCode(words)), WithCode(words))
    BY <1>4, <2>1, HandledBy
  <2>3. v \in SelectorVectors /\ info \in Infos(v)
    BY <1>10 DEF IsEvent, SelectorVectors, KernelException
  <2>4. Selector(code) = info
    BY <2>3, SelectorComesBack DEF code
  <2> QED
    BY <2>s, <1>6, <1>10, <2>2, <2>4 DEF r
<1>11. CASE v = 14
  <2>s. WithCode(words) = shown /\ ErrorCode(words) = code
    BY <1>3, <1>11
  <2>1. name = "PF"
    BY <1>11, Names DEF name
  <2>2. r = Panic(FALSE, name, FlagsOf(ErrorCode(words)), WithCode(words))
    BY <1>4, <2>1, HandledBy
  <2>3. info \in SUBSET DOMAIN PageFaultFlags /\ code = PageFaultCode(info)
    BY <1>11 DEF code, Encoded, IsEvent, Infos, SelectorVectors, PageFault, KernelException
  <2>4. FlagsOf(code) = info
    BY <2>3, FlagsComeBack
  <2> QED
    BY <2>s, <1>6, <1>11, <2>2, <2>4 DEF r
<1> QED
  BY <1>1, <1>7, <1>8, <1>9, <1>10, <1>11

-----------------------------------------------------------------------------
(* The steps, as far as what is printed and what is reported tell them apart. *)

MemorySetup == {"memory", "heap", "retrying", "astray"}
Before == {"serial", "serial_test", "tables", "responses"} \cup MemorySetup
Behind == {"information", "memmap", "efi", "efi_vendor", "rsdp", "revision", "find",
           "print_mcfg", "find_ahci", "port", "buffer", "flush"}
Ends == {"panic", "halted", "reset"}

text == <<queue, half, out, screen, front>>
fate == <<depth, report, cause, raised>>

IsSeq(s) == \E S : s \in Seq(S)

Stays == UNCHANGED <<machine, pc, index, armed, renderer, text, fate>>

(* Another turn of a loop or the next call, before and behind the renderer.   *)
Prepares ==
  /\ pc \in Before /\ pc' \in Before
  /\ queue = <<>>
  /\ pc' = "responses" =>
        \/ pc = "tables" /\ index' = 1
        \/ /\ pc = "responses" /\ index <= Len(Responses)
           /\ Responses[index] \notin machine.missing /\ index' = index + 1
  /\ pc' = "memory" => pc = "responses" /\ index > Len(Responses)
  /\ pc' \in {"heap", "retrying", "astray"} => pc \in {"memory", "heap"}
  /\ UNCHANGED <<machine, renderer, text, fate>>

Proceeds ==
  /\ pc \in Behind /\ pc' \in Behind
  /\ UNCHANGED <<machine, renderer, text, fate>>

Speaks ==
  /\ pc \in Behind /\ pc' \in Behind
  /\ queue = <<>> /\ IsSeq(queue')
  /\ UNCHANGED <<machine, renderer, half, out, screen, front, fate>>

Complains ==
  /\ pc \in Behind \cup {"responses"} /\ pc' = "int69"
  /\ queue = <<>>
  /\ \E complaint :
        /\ queue' = <<<<complaint>>, Newline>>
        /\ pc = "responses" => /\ index \in DOMAIN Responses /\ complaint = Responses[index]
                               /\ complaint \in machine.missing
  /\ UNCHANGED <<machine, renderer, half, out, screen, front, fate>>

Faults == (pc \in Behind \cup {"heap"} \/ (half /\ ~Drawable(Head(queue)))) /\ PageFaults

LEMMA Kinds ==
  ASSUME Control, machine \in Machines, index \in Nat \ {0}, [Next]_vars
  PROVE  \/ Stays \/ Prepares \/ InitializeRenderer \/ Proceeds \/ Speaks \/ Complains \/ Faults
         \/ Int69 \/ Exception \/ WriteSerial \/ WriteScreen \/ PanicHalts \/ Flush
<1>s. \A a, b, c : IsSeq(<<a>>) /\ IsSeq(<<a, b>>) /\ IsSeq(<<a, b, c>>)
  <2>1. \A a, b, c : <<a>> \in Seq({a, b, c}) /\ <<a, b>> \in Seq({a, b, c}) /\ <<a, b, c>> \in Seq({a, b, c})
    OBVIOUS
  <2> QED
    BY <2>1, Zenon DEF IsSeq
<1>m. machine.cpus \in Nat /\ IsSeq(machine.modes)
  <2>1. /\ machine.cpus \in Nat
        /\ machine.modes \in Seq({machine.modes[i] : i \in DOMAIN machine.modes})
    BY MachineAssumption DEF IsSequence
  <2> QED
    BY <2>1, Zenon DEF IsSeq
<1>1. CASE UNCHANGED vars
  BY <1>1 DEF vars, console, trap, Stays, text, fate
<1>2. CASE UartShift
  BY <1>2 DEF UartShift, trap, Stays, text, fate
<1>3. CASE Exception \/ WriteSerial \/ WriteScreen \/ PanicHalts \/ Flush \/ Int69 \/ InitializeRenderer
  BY <1>3
<1>4. CASE NoGlyph
  BY <1>4 DEF NoGlyph, Faults
<1>5. CASE SerialSetup \/ SerialTest
  BY <1>5 DEF SerialSetup, SerialTest, At, Goto, Quiet, trap, Prepares, Before, MemorySetup, text, fate
<1>6. CASE LoadTables \/ InitializeMemory
  BY <1>6 DEF LoadTables, InitializeMemory, At, Goto, trap, console, Prepares, Before, MemorySetup, text, fate
<1>7. CASE CheckResponse
  <2>1. pc = "responses" /\ queue = <<>>
    BY <1>7 DEF CheckResponse, At
  <2>0. Len(Responses) = 8 /\ DOMAIN Responses = 1 .. 8
    BY DEF Responses
  <2>2. CASE index > Len(Responses)
    BY <1>7, <2>1, <2>2 DEF CheckResponse, Goto, trap, console, Prepares, Before, MemorySetup, text, fate
  <2>3. CASE index <= Len(Responses) /\ Responses[index] \in machine.missing
    <3>1. Error(Responses[index])
      BY <1>7, <2>0, <2>3 DEF CheckResponse
    <3>2. index \in DOMAIN Responses
      BY <2>0, <2>3
    <3> QED
      BY <2>1, <2>3, <3>1, <3>2 DEF Error, Say, Goto, trap, Complains, fate
  <2>4. CASE index <= Len(Responses) /\ Responses[index] \notin machine.missing
    <3>1. index' = index + 1 /\ UNCHANGED <<machine, pc, renderer, console, trap, pci>>
      BY <1>7, <2>0, <2>4 DEF CheckResponse
    <3> QED
      BY <2>1, <2>4, <3>1 DEF trap, console, Prepares, Before, MemorySetup, text, fate
  <2> QED
    BY <2>0, <2>2, <2>3, <2>4
<1>8. CASE PrintBootloader
  <2>1. /\ pc = "information" /\ queue = <<>> /\ pc' = "memmap"
        /\ UNCHANGED <<machine, renderer, half, out, screen, front, fate>>
    BY <1>8 DEF PrintBootloader, At, Goto, Say, trap, fate
  <2>2. IsSeq(queue')
    <3>1. PICK M : machine.modes \in Seq(M)
      BY <1>m DEF IsSeq
    <3> DEFINE a == <<"bootloader">>
               b == <<"string", machine.name>>
               c == <<"string", machine.version>>
               d == <<"firmware type", FirmwareTypeString>>
               shown == [i \in DOMAIN machine.modes |-> <<"mode", ModeActive(machine.modes[i])>>]
               M2 == {<<"mode", ModeActive(machine.modes[i])>> : i \in DOMAIN machine.modes}
               T == {a, b, c, Newline, d} \cup M2
    <3>2. queue' = <<a, b, c, Newline, d>> \o shown
      BY <1>8 DEF PrintBootloader, Say
    <3>3. shown \in Seq(M2)
      <4>1. DOMAIN machine.modes = 1 .. Len(machine.modes) /\ Len(machine.modes) \in Nat
        BY <3>1
      <4>2. shown \in [1 .. Len(machine.modes) -> M2]
        BY <4>1
      <4> QED
        BY <4>1, <4>2
    <3> HIDE DEF a, b, c, d, shown, M2
    <3>4. <<a, b, c, Newline, d>> \in Seq(T) /\ shown \in Seq(T)
      BY <3>3
    <3>5. queue' \in Seq(T)
      BY <3>2, <3>4
    <3> QED
      BY <3>5, Zenon DEF IsSeq
  <2> QED
    BY <2>1, <2>2 DEF Speaks, Behind, MemorySetup
<1>9. CASE PrintRegion
  <2>1. PICK string \in StringsShown(index) : Say(<<<<"region", string>>>>)
    BY <1>9 DEF PrintRegion
  <2>2. IsSeq(queue')
    BY <1>s, <2>1 DEF Say
  <2> QED
    BY <1>9, <2>1, <2>2 DEF PrintRegion, At, Say, trap, fate, Speaks, Behind, MemorySetup
<1>10. CASE PrintTotal
  <2>1. /\ pc = "memmap" /\ queue = <<>> /\ pc' \in {"efi", "rsdp"}
        /\ UNCHANGED <<machine, renderer, half, out, screen, front, fate>>
    BY <1>10 DEF PrintTotal, At, Goto, Say, trap, fate
  <2>2. IsSeq(queue')
    <3> DEFINE a == <<"total", EndAddress>>
               shown == [i \in 1 .. machine.cpus |-> <<"cpu", i>>]
               M2 == {<<"cpu", i>> : i \in 1 .. machine.cpus}
               T == {a} \cup M2
    <3>2. queue' = <<a>> \o shown
      BY <1>10 DEF PrintTotal, Say
    <3>3. shown \in Seq(M2)
      <4>2. shown \in [1 .. machine.cpus -> M2]
        OBVIOUS
      <4> QED
        BY <1>m, <4>2
    <3> HIDE DEF a, shown, M2
    <3>4. <<a>> \in Seq(T) /\ shown \in Seq(T)
      BY <3>3
    <3>5. queue' \in Seq(T)
      BY <3>2, <3>4
    <3> QED
      BY <3>5, Zenon DEF IsSeq
  <2> QED
    BY <2>1, <2>2 DEF Speaks, Behind, MemorySetup
<1>11. CASE PrintEfiTable \/ PrintEfiVendor
  <2>1. /\ pc \in {"efi", "efi_vendor"} /\ queue = <<>> /\ pc' \in {"efi_vendor", "rsdp"}
        /\ UNCHANGED <<machine, renderer, half, out, screen, front, fate>>
    BY <1>11 DEF PrintEfiTable, PrintEfiVendor, At, Goto, Say, trap, fate
  <2>2. IsSeq(queue')
    BY <1>s, <1>11 DEF PrintEfiTable, PrintEfiVendor, Say
  <2> QED
    BY <2>1, <2>2 DEF Speaks, Behind, MemorySetup
<1>12. CASE NoTypeString \/ EfiVendorFaults \/ HeapFaults
  BY <1>12 DEF NoTypeString, EfiVendorFaults, HeapFaults, HeapGrowing, At, Faults, Behind, MemorySetup
<1>13. CASE AcpiFaults \/ WalkPageFaults \/ ControllerFaults \/ PortFaults
  BY <1>13 DEF AcpiFaults, WalkPageFaults, ControllerFaults, PortFaults, AtPort, Initializes, Walking, At, Faults,
    Behind, MemorySetup
<1>19. CASE GrowHeap \/ RetryForEver \/ LoseHeap
  BY <1>19 DEF GrowHeap, RetryForEver, LoseHeap, HeapGrowing, At, Goto, trap, console, Prepares, Before, MemorySetup, text, fate
<1>20. CASE SkipPort \/ InitializePort \/ LeaveController
  BY <1>20 DEF SkipPort, InitializePort, LeaveController, AtPort, Initializes, At, Goto, trap, console, Proceeds,
    Behind, MemorySetup, text, fate
<1>21. CASE ReadPort
  <2>1. pc = "buffer" /\ queue = <<>> /\ pc' = "port" /\ UNCHANGED <<machine, renderer, fate>>
    BY <1>21 DEF ReadPort, At, trap, fate
  <2>2. CASE UNCHANGED console
    BY <2>1, <2>2 DEF console, Proceeds, Behind, MemorySetup, text
  <2>3. CASE \E kind : \E read \in BOOLEAN : Say(SectorPieces(kind, read))
    <3>1. PICK kind, read : Say(SectorPieces(kind, read))
      BY <2>3, Zenon
    <3>2. IsSeq(SectorPieces(kind, read))
      <4> DEFINE a == <<"located", kind, Port>>
                 b == <<"failed to read", Port>>
                 c == <<"sector", Port>>
                 T == {a, b, c, Newline}
      <4>1. SectorPieces(kind, read) \in {<<a>> \o <<b>> \o <<c, Newline>>, <<a>> \o <<>> \o <<c, Newline>>}
        BY Zenon DEF SectorPieces
      <4> HIDE DEF a, b, c
      <4>2. <<a>> \in Seq(T) /\ <<b>> \in Seq(T) /\ <<>> \in Seq(T) /\ <<c, Newline>> \in Seq(T)
        OBVIOUS
      <4> HIDE DEF T
      <4>3. <<a>> \o <<b>> \o <<c, Newline>> \in Seq(T) /\ <<a>> \o <<>> \o <<c, Newline>> \in Seq(T)
        BY <4>2
      <4> QED
        BY <4>1, <4>3 DEF IsSeq
    <3> QED
      BY <2>1, <3>1, <3>2 DEF Say, Speaks, Behind, MemorySetup
  <2> QED
    BY <1>21, <2>2, <2>3, Zenon DEF ReadPort
<1>14. CASE MapRsdp \/ MapRoot \/ FindTable
  BY <1>14 DEF MapRsdp, MapRoot, FindTable, UnchangedBut, At, Goto, trap, console, Proceeds, Behind, MemorySetup, text, fate
<1>15. CASE UnsupportedRevision \/ NoMcfg
  <2>1. \E complaint : Error(complaint)
    BY <1>15 DEF UnsupportedRevision, NoMcfg
  <2>2. pc \in {"revision", "find"} /\ queue = <<>>
    BY <1>15 DEF UnsupportedRevision, NoMcfg, At
  <2> QED
    BY <2>1, <2>2 DEF Error, Say, Goto, trap, fate, Complains, Behind, MemorySetup
<1>16. CASE Walk
  BY <1>16 DEF Walk, Walking, Step, WalkEntry, WalkBus, WalkDevice, WalkFunctions, WalkFunction, At, trap,
    console, Proceeds, Behind, MemorySetup, text, fate
<1>17. CASE PrintFunction
  <2>1. /\ pc = "print_mcfg" /\ queue = <<>> /\ UNCHANGED <<machine, pc, renderer, fate>>
    BY <1>17 DEF PrintFunction, At, Body, trap, fate
  <2>2. CASE UNCHANGED console
    BY <2>1, <2>2 DEF console, Proceeds, Behind, MemorySetup, text
  <2>3. CASE \E header : Say(Row(header))
    <3>1. PICK header : Say(Row(header))
      BY <2>3
    <3>2. IsSeq(Row(header))
      BY <1>s DEF Row
    <3> QED
      BY <2>1, <3>1, <3>2 DEF Say, Speaks, Behind, MemorySetup
  <2> QED
    BY <1>17, <2>2, <2>3 DEF PrintFunction
<1>18. CASE ScanFunction \/ WalkEnds
  BY <1>18 DEF ScanFunction, WalkEnds, Walking, Body, At, Goto, trap, console, Proceeds, Behind, MemorySetup, text, fate
<1> QED
  BY <1>1, <1>2, <1>3, <1>4, <1>5, <1>6, <1>7, <1>8, <1>9, <1>10, <1>11, <1>12, <1>13, <1>14, <1>15,
     <1>16, <1>17, <1>18, <1>19, <1>20, <1>21 DEF Next, Kmain, Printing, Boot, Information, Tables, Devices, Disks

(* The machine stays what it is, and loops count from 1.                     *)
LEMMA LoopVariable ==
  ASSUME [Next]_vars
  PROVE  machine' = machine /\ (index' = index \/ index' = 1 \/ index' = index + 1)
<1>r. ASSUME NEW v, NEW info, Raise(v, info)
      PROVE  index' = index \/ index' = 1
  BY <1>r, Raised
<1>p. PageFaults => machine' = machine /\ (index' = index \/ index' = 1)
  BY <1>r DEF PageFaults
<1>1. CASE UNCHANGED vars \/ UartShift \/ Exception \/ Int69
  BY <1>1, <1>r DEF vars, UartShift, Exception, Int69
<1>2. CASE Printing \/ PanicHalts \/ Flush
  BY <1>2, <1>p DEF Printing, WriteSerial, WriteScreen, NoGlyph, PanicHalts, Flush, Goto
<1>3. CASE Boot
  BY <1>3, <1>p DEF Boot, SerialSetup, SerialTest, LoadTables, CheckResponse, InitializeMemory, GrowHeap, HeapFaults,
    RetryForEver, LoseHeap, InitializeRenderer, Goto, Error
<1>4. CASE Information
  BY <1>4, <1>p DEF Information, PrintBootloader, PrintRegion, NoTypeString, PrintTotal, PrintEfiTable,
    PrintEfiVendor, EfiVendorFaults, Goto
<1>5. CASE Tables
  BY <1>5, <1>p DEF Tables, MapRsdp, MapRoot, UnsupportedRevision, FindTable, NoMcfg, AcpiFaults, UnchangedBut,
    Error, Goto
<1>6. CASE Devices
  BY <1>6, <1>p DEF Devices, Walk, WalkPageFaults, PrintFunction, ScanFunction, ControllerFaults, WalkEnds,
    Step, WalkEntry, WalkBus, WalkDevice, WalkFunctions, WalkFunction, Body, Goto
<1>7. CASE Disks
  BY <1>7, <1>p DEF Disks, SkipPort, InitializePort, ReadPort, PortFaults, LeaveController, Goto
<1> QED
  BY <1>1, <1>2, <1>3, <1>4, <1>5, <1>6, <1>7 DEF Next, Kmain

(* An exception whose gate passes, with room on the stack, ends in its report. *)
ReportRight ==
  report.name # "" =>
    /\ report.name = Mnemonic[cause.vector]
    /\ cause.vector # DoubleFault => report.details = cause.info
    /\ report.CS = CodeSegment /\ report.SS = DataSegment /\ report.SP = cause.SP

LEMMA RaisedReports ==
  ASSUME NEW v, NEW info, IsEvent(v, info), Raise(v, info)
  PROVE  \/ pc' = "reset" /\ (~armed \/ depth = StackFrames)
            /\ UNCHANGED <<queue, half, depth, report, cause>>
         \/ /\ armed /\ pc' = "panic" /\ half' = FALSE /\ depth' = depth + 1
            /\ queue' = ReportPieces(report') /\ cause'.vector = v
            /\ report'.name # "" /\ ReportRight'
<1>1. Passable(v)
  BY GatesPass DEF IsEvent
<1>2. Delivered(v, info) = [vector |-> v, info |-> info]
  BY <1>1, Zenon DEF Delivered
<1>3. Delivered(v, info).vector = v /\ Delivered(v, info).info = info
  BY <1>2
<1>4. CASE ~armed \/ depth = StackFrames
  BY <1>3, <1>4 DEF Raise
<1>5. CASE armed /\ depth # StackFrames
  <2>1. /\ armed /\ pc' = "panic" /\ half' = FALSE /\ depth' = depth + 1
        /\ queue' = ReportPieces(report')
        /\ report' = Report(v, info, FrameNow)
        /\ cause' = [vector |-> v, info |-> info, SP |-> FrameNow.SP]
    BY <1>1, <1>3, <1>5 DEF Raise
  <2>2. cause'.vector = v /\ cause'.info = info /\ cause'.SP = FrameNow.SP
    BY <2>1
  <2>3. FrameNow.CS = CodeSegment /\ FrameNow.SS = DataSegment
    BY DEF FrameNow
  <2>4. Fits(Report(v, info, FrameNow), v, info, FrameNow)
    BY ReportsAreRight
  <2> QED
    BY <2>1, <2>2, <2>3, <2>4 DEF ReportRight, Fits
<1> QED
  BY <1>4, <1>5

(* What can still be to print of a report.                                  *)
Remainders(r) ==
  {<<<<"report", r.name>>, <<"frame", r.SP>>, Newline>>, <<<<"frame", r.SP>>, Newline>>, <<Newline>>, <<>>}

LEMMA RemaindersShrink ==
  ASSUME NEW r, NEW q \in Remainders(r), q # <<>>
  PROVE  Tail(q) \in Remainders(r) /\ Drawable(Head(q))
<1> DEFINE a == <<"report", r.name>>
           b == <<"frame", r.SP>>
<1>1. a[1] = "report" /\ b[1] = "frame" /\ Newline[1] = "newline"
  BY DEF Newline
<1>2. Drawable(a) /\ Drawable(b) /\ Drawable(Newline)
  BY <1>1 DEF Drawable
<1> HIDE DEF a, b
<1>3. q \in {<<a, b, Newline>>, <<b, Newline>>, <<Newline>>}
  BY DEF Remainders, a, b
<1>4. Head(q) \in {a, b, Newline} /\ Tail(q) \in {<<b, Newline>>, <<Newline>>, <<>>}
  <2>1. CASE q = <<a, b, Newline>>
    BY <2>1
  <2>2. CASE q = <<b, Newline>>
    BY <2>2
  <2>3. CASE q = <<Newline>>
    BY <2>3
  <2> QED
    BY <1>3, <2>1, <2>2, <2>3
<1> QED
  BY <1>2, <1>4, Zenon DEF Remainders, a, b

-----------------------------------------------------------------------------
(* Sequences of any pieces.                                                 *)
LEMMA SeqParts ==
  ASSUME NEW s, IsSeq(s), NEW x
  PROVE  /\ IsSeq(Append(s, x)) /\ Append(s, x) # <<>>
         /\ s = <<>> => Append(s, x)[1] = x
         /\ s # <<>> => IsSeq(Tail(s)) /\ Append(s, x)[1] = s[1]
         /\ s \o <<>> = s
<1>1. PICK S : s \in Seq(S)
  BY DEF IsSeq
<1> DEFINE T == S \cup {x}
<1>2. s \in Seq(T) /\ x \in T
  BY <1>1
<1> HIDE DEF T
<1>3. Append(s, x) \in Seq(T) /\ Append(s, x) # <<>>
  <2>1. Append(s, x) \in Seq(T) /\ Len(Append(s, x)) = Len(s) + 1 /\ Len(s) \in Nat
    BY <1>2
  <2>2. Len(<<>>) = 0
    OBVIOUS
  <2> QED
    BY <2>1, <2>2
<1>4. s = <<>> => Append(s, x)[1] = x
  BY <1>2
<1>5. s # <<>> => Tail(s) \in Seq(T) /\ Append(s, x)[1] = s[1]
  BY <1>2
<1>6. s \o <<>> = s
  BY <1>2
<1> QED
  BY <1>3, <1>4, <1>5, <1>6, Zenon DEF IsSeq

LEMMA SeqMove ==
  ASSUME NEW s, IsSeq(s), NEW t, IsSeq(t), t # <<>>
  PROVE  Append(s, Head(t)) \o Tail(t) = s \o t
<1>1. PICK S : s \in Seq(S)
  BY DEF IsSeq
<1>2. PICK T : t \in Seq(T)
  BY DEF IsSeq
<1> DEFINE U == S \cup T
<1>3. s \in Seq(U) /\ t \in Seq(U)
  BY <1>1, <1>2
<1> HIDE DEF U
<1> QED
  BY <1>3, Handover

EndsIn(s, t) == \E o : IsSeq(o) /\ s = o \o t

LEMMA SeqEnds ==
  ASSUME NEW s, NEW t, IsSeq(t), EndsIn(s, t)
  PROVE  EndsWith(s, t)
<1>0. PICK o : IsSeq(o) /\ s = o \o t
  BY DEF EndsIn
<1>1. PICK S : o \in Seq(S)
  BY <1>0 DEF IsSeq
<1>2. PICK T : t \in Seq(T)
  BY DEF IsSeq
<1> DEFINE U == S \cup T
<1>3. o \in Seq(U) /\ t \in Seq(U)
  BY <1>1, <1>2
<1> HIDE DEF U
<1>4. s \in Seq(U) /\ Len(s) = Len(o) + Len(t) /\ Len(t) \in Nat /\ Len(o) \in Nat
  BY <1>0, <1>3
<1> DEFINE part == SubSeq(s, Len(s) - Len(t) + 1, Len(s))
<1>5. part \in Seq(U) /\ Len(part) = Len(t)
  <2>1. Len(s) - Len(t) + 1 = Len(o) + 1
    BY <1>4
  <2>2. part = SubSeq(s, Len(o) + 1, Len(o) + Len(t))
    BY <1>4, <2>1
  <2> QED
    BY <1>4, <2>2
<1>6. ASSUME NEW i \in 1 .. Len(t) PROVE part[i] = t[i]
  <2>1. part[i] = s[Len(s) - Len(t) + 1 + i - 1]
    BY <1>4
  <2>2. Len(s) - Len(t) + 1 + i - 1 = Len(o) + i
    BY <1>4
  <2> QED
    BY <1>0, <1>3, <1>4, <2>1, <2>2
<1>7. part = t
  BY <1>3, <1>5, <1>6, SeqEqual
<1> QED
  BY <1>4, <1>7 DEF EndsWith

-----------------------------------------------------------------------------
(* Control, exceptions and what is printed together.                        *)



Base ==
  /\ Control /\ machine \in Machines /\ index \in Nat \ {0}
  /\ pc \in Places
  /\ half \in BOOLEAN /\ raised \in BOOLEAN
  /\ half => queue # <<>>
  /\ IsSeq(queue) /\ IsSeq(out) /\ IsSeq(screen) /\ IsSeq(front)

(* kmain causes one exception, the processor one by itself: the stack has    *)
(* room for both, and Panic itself causes none.                             *)
Trap ==
  /\ depth \in Nat /\ depth <= (IF raised THEN 2 ELSE 1)
  /\ pc \notin Ends => depth = 0 /\ report.name = ""
  /\ pc = "reset" => ~armed
  /\ pc = "panic" => report.name # "" /\ queue \in Remainders(report)
  /\ pc = "halted" => queue = <<>>
  /\ ReportRight

(* What still goes to the serial port.                                      *)
Pending == IF half THEN Tail(queue) ELSE queue
Blank == queue = <<>> /\ out = <<>> /\ screen = <<>> /\ front = <<>>
OnScreen == renderer /\ ~report.serious

Shown ==
  /\ pc \in Before => ~renderer /\ Blank
  /\ pc \in Behind => renderer /\ screen \o queue = out \o Pending
  /\ pc = "panic" => /\ EndsIn(out \o Pending, ReportPieces(report))
                     /\ OnScreen => EndsIn(screen \o queue, ReportPieces(report))
  /\ pc = "halted" => IF report.name = "" THEN front = screen /\ screen = out
                      ELSE /\ EndsIn(out, ReportPieces(report))
                           /\ OnScreen => EndsIn(front, ReportPieces(report))

(* A missing response: its name is what is printed first.                   *)
Named(piece) == \E i \in DOMAIN Responses : Responses[i] \in machine.missing /\ piece = <<Responses[i]>>

Lacking ==
  machine.missing # {} =>
    /\ pc \notin Behind \cup MemorySetup
    /\ pc = "responses" => \A j \in 1 .. index - 1 : Responses[j] \notin machine.missing
    /\ ~renderer /\ ~half
    /\ ~raised => report.name \in {"", "KE"}
    /\ ~raised /\ pc = "int69" =>
          IF out = <<>> THEN queue # <<>> /\ Named(Head(queue)) ELSE Named(out[1])
    /\ ~raised /\ pc \in {"panic", "halted"} => out # <<>> /\ Named(out[1])

(* What an exception does: without tables the machine resets, with them it   *)
(* comes to Panic with its report.                                          *)
Resets == pc' = "reset" /\ ~armed /\ UNCHANGED <<queue, half, depth, report, cause>>
Panics(v) ==
  /\ armed /\ pc' = "panic" /\ half' = FALSE /\ depth' = depth + 1
  /\ queue' = ReportPieces(report') /\ cause'.vector = v
  /\ report'.name # "" /\ ReportRight'

(* Where exceptions come from: kmain on its way, or the processor, once.     *)
Source(v) ==
  /\ UNCHANGED <<machine, armed, renderer, out, screen, front>>
  /\ \/ v \in {PageFault, KernelException} /\ pc \notin Ends /\ raised' = raised
     \/ ~raised /\ raised' = TRUE /\ pc # "reset"

LEMMA Raising ==
  ASSUME Base, Trap, NEW v, NEW info, IsEvent(v, info), Raise(v, info), Source(v)
  PROVE  Resets \/ Panics(v)
<1>1. depth # StackFrames
  <2>1. depth \in Nat /\ depth <= 1
    <3>1. pc \notin Ends \/ ~raised
      BY DEF Source
    <3>2. pc \notin Ends => depth = 0
      BY DEF Trap
    <3>3. ~raised => depth \in Nat /\ depth <= 1
      BY DEF Trap
    <3> QED
      BY <3>1, <3>2, <3>3
  <2> QED
    BY <2>1, StackAssumption
<1> QED
  BY <1>1, RaisedReports DEF Resets, Panics

(* A fault of kmain, an error and the processor's own all are such steps.    *)
LEMMA Exceptions ==
  ASSUME Base, Trap, Faults \/ Int69 \/ Exception
  PROVE  \E v : /\ Source(v) /\ (Resets \/ Panics(v))
                /\ Int69 => v = KernelException
                /\ Faults => pc \in Behind \cup {"heap"} \/ half
                /\ raised' = raised => pc \notin Ends
<1>1. CASE Faults
  <2>1. PageFaults /\ (pc \in Behind \cup {"heap"} \/ (half /\ ~Drawable(Head(queue))))
    BY <1>1 DEF Faults
  <2>2. pc \notin Ends
    <3>1. CASE pc \in Behind \cup {"heap"}
      BY <3>1 DEF Behind, MemorySetup, Ends
    <3>2. CASE half /\ ~Drawable(Head(queue))
      <4>1. queue # <<>> /\ armed
        BY <3>2 DEF Base, Control
      <4>2. pc \notin {"reset", "halted"}
        BY <4>1 DEF Trap
      <4>3. pc # "panic"
        BY <3>2, <4>1, RemaindersShrink DEF Trap
      <4> QED
        BY <4>2, <4>3 DEF Ends
    <3> QED
      BY <2>1, <3>1, <3>2
  <2>3. IsEvent(PageFault, {})
    BY DEF IsEvent, Vectors, PageFault, Infos, SelectorVectors
  <2>4. Raise(PageFault, {}) /\ Source(PageFault)
    BY <2>1, <2>2 DEF PageFaults, Source
  <2>5. Resets \/ Panics(PageFault)
    BY <2>3, <2>4, Raising
  <2>6. ~Int69
    <3>1. CASE half
      BY <3>1 DEF Base, Int69, At
    <3>2. CASE pc \in Behind \cup {"heap"}
      BY <3>2 DEF Behind, MemorySetup, Int69, At
    <3> QED
      BY <2>1, <3>1, <3>2
  <2> QED
    BY <2>1, <2>2, <2>4, <2>5, <2>6
<1>2. CASE Int69
  <2>1. IsEvent(KernelException, 0)
    BY DEF IsEvent
  <2>2. Raise(KernelException, 0) /\ pc = "int69" /\ Source(KernelException)
    BY <1>2 DEF Int69, At, Source, Ends
  <2>3. Resets \/ Panics(KernelException)
    BY <2>1, <2>2, Raising
  <2> QED
    BY <1>1, <2>2, <2>3 DEF Ends
<1>3. CASE Exception
  <2>1. PICK e \in machine.exceptions : Raise(e.vector, e.info)
    BY <1>3 DEF Exception
  <2>2. IsEvent(e.vector, e.info)
    BY <2>1, MachineAssumption DEF IsEvent, Base
  <2>3. Source(e.vector) /\ raised' # raised
    BY <1>3 DEF Exception, Source
  <2>4. Resets \/ Panics(e.vector)
    BY <2>1, <2>2, <2>3, Raising
  <2>5. ~Int69 /\ ~Faults
    BY <2>3, <1>3 DEF Int69, Faults, PageFaults, Exception
  <2> QED
    BY <2>3, <2>4, <2>5
<1> QED
  BY <1>1, <1>2, <1>3

(* The kinds of steps keep the four parts of the invariant.                  *)
LEMMA BaseHolds ==
  ASSUME Base, Trap, Shown, [Next]_vars
  PROVE  Base'
<1>c. Control' /\ machine' = machine /\ machine' \in Machines /\ index' \in Nat \ {0}
  <2>1. Control'
    BY ControlHolds DEF Base
  <2>2. machine' = machine /\ (index' = index \/ index' = 1 \/ index' = index + 1)
    BY LoopVariable
  <2> QED
    BY <2>1, <2>2 DEF Base
<1>b. /\ pc \in Places /\ half \in BOOLEAN /\ raised \in BOOLEAN /\ (half => queue # <<>>)
      /\ IsSeq(queue) /\ IsSeq(out) /\ IsSeq(screen) /\ IsSeq(front)
  BY DEF Base
<1>s. \A a, b, c : IsSeq(<<a, b>>) /\ IsSeq(<<a, b, c>>)
  <2>1. \A a, b, c : <<a, b>> \in Seq({a, b, c}) /\ <<a, b, c>> \in Seq({a, b, c})
    OBVIOUS
  <2> QED
    BY <2>1, Zenon DEF IsSeq
<1> SUFFICES /\ pc' \in Places /\ half' \in BOOLEAN /\ raised' \in BOOLEAN /\ (half' => queue' # <<>>)
             /\ IsSeq(queue') /\ IsSeq(out') /\ IsSeq(screen') /\ IsSeq(front')
  BY <1>c DEF Base
<1>1. CASE Stays
  BY <1>1, <1>b DEF Stays, text, fate
<1>2. CASE Prepares \/ Proceeds
  BY <1>2, <1>b DEF Prepares, Proceeds, text, fate, Before, MemorySetup, Behind, Places
<1>3. CASE InitializeRenderer
  BY <1>3, <1>b DEF InitializeRenderer, Goto, console, trap, Places
<1>4. CASE Speaks \/ Complains
  <2>1. half' = FALSE /\ IsSeq(queue')
    BY <1>4, <1>b, <1>s DEF Speaks, Complains
  <2> QED
    BY <1>4, <1>b, <2>1 DEF Speaks, Complains, fate, Behind, MemorySetup, Places
<1>5. CASE Faults \/ Int69 \/ Exception
  <2>1. PICK v : Source(v) /\ (Resets \/ Panics(v))
    <3>1. Base /\ Trap /\ (Faults \/ Int69 \/ Exception)
      BY <1>5
    <3> QED
      BY <3>1, Exceptions
  <2>2. pc' \in {"reset", "panic"} /\ raised' \in BOOLEAN /\ UNCHANGED <<out, screen, front>>
    BY <2>1, <1>b DEF Source, Resets, Panics
  <2>3. CASE Resets
    BY <2>2, <2>3, <1>b DEF Resets, Places
  <2>4. CASE Panics(v)
    BY <2>2, <2>4, <1>b, <1>s DEF Panics, ReportPieces, Places
  <2> QED
    BY <2>1, <2>3, <2>4
<1>6. CASE WriteSerial
  <2>1. /\ queue # <<>> /\ out' = Append(out, Head(queue)) /\ UNCHANGED <<pc, screen, front, raised>>
        /\ half' = (renderer /\ ~Serious) /\ queue' = IF half' THEN queue ELSE Tail(queue)
    BY <1>6 DEF WriteSerial, trap
  <2>2. half' \in BOOLEAN
    BY <2>1
  <2>3. IsSeq(out') /\ IsSeq(Tail(queue))
    BY <2>1, <1>b, SeqParts
  <2> QED
    BY <2>1, <2>2, <2>3, <1>b
<1>7. CASE WriteScreen
  <2>1. /\ half /\ half' = FALSE /\ queue' = Tail(queue) /\ screen' = Append(screen, Head(queue))
        /\ UNCHANGED <<pc, out, front, raised>>
    BY <1>7 DEF WriteScreen, trap
  <2>2. IsSeq(screen') /\ IsSeq(queue')
    BY <2>1, <1>b, SeqParts
  <2> QED
    BY <2>1, <2>2, <1>b
<1>8. CASE PanicHalts \/ Flush
  BY <1>8, <1>b DEF PanicHalts, Flush, Goto, trap, Places
<1> QED
  BY <1>1, <1>2, <1>3, <1>4, <1>5, <1>6, <1>7, <1>8, Kinds DEF Base

LEMMA TrapHolds ==
  ASSUME Base, Trap, Shown, [Next]_vars
  PROVE  Trap'
<1>1. CASE Stays
  BY <1>1 DEF Stays, text, fate, Trap, ReportRight
<1>2. CASE Prepares \/ Proceeds \/ Speaks \/ Complains
  <2>1. pc \notin Ends /\ pc' \notin Ends /\ UNCHANGED fate
    BY <1>2 DEF Prepares, Proceeds, Speaks, Complains, Before, MemorySetup, Behind, Ends
  <2> QED
    BY <2>1 DEF fate, Trap, ReportRight, Ends
<1>3. CASE InitializeRenderer
  BY <1>3 DEF InitializeRenderer, At, Goto, console, trap, Trap, ReportRight, Ends
<1>5. CASE Faults \/ Int69 \/ Exception
  <2>1. PICK v : Source(v) /\ (Resets \/ Panics(v)) /\ (raised' = raised => pc \notin Ends)
    <3>1. Base /\ Trap /\ (Faults \/ Int69 \/ Exception)
      BY <1>5
    <3> QED
      BY <3>1, Exceptions
  <2>2. CASE Resets
    <3>1. armed' = armed /\ (raised' = raised \/ (~raised /\ raised'))
      BY <2>1 DEF Source
    <3>2. depth' = depth /\ depth <= (IF raised' THEN 2 ELSE 1)
      <4>1. depth \in Nat /\ depth <= 2 /\ (~raised => depth <= 1)
        <5>1. depth \in Nat
          BY DEF Trap
        <5>2. ~raised => depth <= 1
          BY DEF Trap
        <5>3. raised => depth <= 2
          BY DEF Trap
        <5> QED
          BY <5>1, <5>2, <5>3
      <4>2. ~raised' => ~raised
        BY <3>1
      <4>3. depth' = depth
        BY <2>2 DEF Resets
      <4> QED
        BY <4>1, <4>2, <4>3
    <3> QED
      BY <2>2, <3>1, <3>2 DEF Resets, Trap, ReportRight, Ends
  <2>3. CASE Panics(v)
    <3>1. depth' \in Nat /\ depth' <= (IF raised' THEN 2 ELSE 1)
      <4>1. raised' = raised => depth = 0
        BY <2>1 DEF Trap
      <4>2. raised' # raised => raised' /\ ~raised
        BY <2>1 DEF Source
      <4>3. depth' = depth + 1
        BY <2>3 DEF Panics
      <4>4. ~raised => depth \in Nat /\ depth <= 1
        BY DEF Trap
      <4> QED
        BY <4>1, <4>2, <4>3, <4>4
    <3>2. queue' \in Remainders(report')
      BY <2>3 DEF Panics, ReportPieces, Remainders
    <3> QED
      BY <2>3, <3>1, <3>2 DEF Panics, Trap, Ends
  <2> QED
    BY <2>1, <2>2, <2>3
<1>6. CASE WriteSerial \/ WriteScreen
  <2>1. /\ queue # <<>> /\ queue' \in {queue, Tail(queue)}
        /\ UNCHANGED <<pc, armed, depth, report, cause, raised>>
    BY <1>6 DEF WriteSerial, WriteScreen, trap, Base
  <2>2. pc = "panic" => queue' \in Remainders(report)
    BY <2>1, RemaindersShrink DEF Trap
  <2>3. pc # "halted"
    BY <2>1 DEF Trap
  <2> QED
    BY <2>1, <2>2, <2>3 DEF Trap, ReportRight
<1>8. CASE PanicHalts \/ Flush
  <2>1. /\ pc' = "halted" /\ queue = <<>> /\ UNCHANGED <<armed, depth, report, cause, raised, queue>>
    BY <1>8 DEF PanicHalts, Flush, At, Goto, trap
  <2> QED
    BY <2>1 DEF Trap, ReportRight, Ends
<1> QED
  BY <1>1, <1>2, <1>3, <1>5, <1>6, <1>8, Kinds DEF Base

(* What has been printed is on its way to both places, to the end.           *)
LEMMA Writes ==
  ASSUME Base, WriteSerial
  PROVE  /\ out' \o Pending' = out \o Pending
         /\ screen' = screen /\ IsSeq(out')
         /\ renderer /\ ~Serious => queue' = queue
<1>1. /\ queue # <<>> /\ ~half /\ out' = Append(out, Head(queue)) /\ screen' = screen
      /\ half' = (renderer /\ ~Serious) /\ queue' = IF half' THEN queue ELSE Tail(queue)
  BY DEF WriteSerial
<1>2. Pending = queue /\ Pending' = Tail(queue)
  BY <1>1 DEF Pending
<1>3. Append(out, Head(queue)) \o Tail(queue) = out \o queue /\ IsSeq(Append(out, Head(queue)))
  BY <1>1, SeqMove, SeqParts DEF Base
<1> QED
  BY <1>1, <1>2, <1>3

LEMMA Draws ==
  ASSUME Base, WriteScreen
  PROVE  /\ screen' \o queue' = screen \o queue
         /\ out' \o Pending' = out \o Pending
<1>1. /\ queue # <<>> /\ half /\ screen' = Append(screen, Head(queue)) /\ out' = out
      /\ half' = FALSE /\ queue' = Tail(queue)
  BY DEF WriteScreen, Base
<1>2. Pending = Tail(queue) /\ Pending' = Tail(queue)
  BY <1>1 DEF Pending
<1>3. Append(screen, Head(queue)) \o Tail(queue) = screen \o queue
  BY <1>1, SeqMove DEF Base
<1> QED
  BY <1>1, <1>2, <1>3

LEMMA ShownHolds ==
  ASSUME Base, Trap, Shown, [Next]_vars
  PROVE  Shown'
<1>b. /\ pc \in Places /\ half \in BOOLEAN /\ (half => queue # <<>>)
      /\ IsSeq(queue) /\ IsSeq(out) /\ IsSeq(screen) /\ IsSeq(front)
  BY DEF Base
<1>e. /\ out \o <<>> = out /\ screen \o <<>> = screen
      /\ queue = <<>> => Pending = <<>>
  BY <1>b, SeqParts DEF Pending
<1>1. CASE Stays
  BY <1>1 DEF Stays, text, fate, Shown, Blank, Pending, OnScreen
<1>2. CASE Prepares
  BY <1>2 DEF Prepares, text, fate, Before, MemorySetup, Behind, Shown, Blank
<1>3. CASE Proceeds
  BY <1>3 DEF Proceeds, text, fate, Before, MemorySetup, Behind, Shown, Pending
<1>4. CASE InitializeRenderer
  <2>1. /\ pc = "heap" /\ pc' = "information" /\ renderer' /\ UNCHANGED text
    BY <1>4 DEF InitializeRenderer, At, Goto, console, text
  <2>2. Blank /\ Blank' /\ Pending' = <<>>
    BY <2>1, <1>e DEF Shown, Before, MemorySetup, Blank, text, Pending
  <2> QED
    BY <2>1, <2>2, <1>e DEF Shown, Before, MemorySetup, Behind, Blank
<1>5. CASE Speaks
  <2>1. /\ pc \in Behind /\ pc' \in Behind /\ queue = <<>> /\ ~half
        /\ UNCHANGED <<renderer, half, out, screen>>
    BY <1>5, <1>b DEF Speaks
  <2>2. screen = out /\ renderer
    BY <2>1, <1>e DEF Shown
  <2>3. Pending' = queue'
    BY <2>1 DEF Pending
  <2> QED
    BY <2>1, <2>2, <2>3 DEF Shown, Before, MemorySetup, Behind
<1>6. CASE Complains
  <2>1. pc' = "int69"
    BY <1>6 DEF Complains
  <2> QED
    BY <2>1 DEF Shown, Before, MemorySetup, Behind
<1>7. CASE Faults \/ Int69 \/ Exception
  <2>1. PICK v : Source(v) /\ (Resets \/ Panics(v))
    <3>1. Base /\ Trap /\ (Faults \/ Int69 \/ Exception)
      BY <1>7
    <3> QED
      BY <3>1, Exceptions
  <2>2. CASE Resets
    BY <2>2 DEF Resets, Shown, Before, MemorySetup, Behind
  <2>3. CASE Panics(v)
    <3>1. /\ pc' = "panic" /\ queue' = ReportPieces(report') /\ ~half'
          /\ out' = out /\ screen' = screen
      BY <2>1, <2>3 DEF Panics, Source
    <3>2. Pending' = ReportPieces(report')
      BY <3>1 DEF Pending
    <3>3. EndsIn(out \o Pending', Pending') /\ EndsIn(screen \o queue', queue')
      BY <1>b, Zenon DEF EndsIn
    <3> QED
      BY <3>1, <3>2, <3>3 DEF Shown, Before, MemorySetup, Behind
  <2> QED
    BY <2>1, <2>2, <2>3
<1>8. CASE WriteSerial
  <2>1. /\ out' \o Pending' = out \o Pending
        /\ screen' = screen
        /\ renderer /\ ~Serious => queue' = queue
    BY <1>8, Writes
  <2>2. queue # <<>> /\ UNCHANGED <<pc, renderer, report>>
    BY <1>8 DEF WriteSerial, trap
  <2>3. pc \notin Before \cup {"halted"}
    BY <2>2 DEF Shown, Blank, Trap
  <2>4. CASE pc = "panic"
    <3>1. OnScreen => queue' = queue
      BY <2>1 DEF OnScreen, Serious
    <3>2. OnScreen' = OnScreen
      BY <2>2 DEF OnScreen
    <3> QED
      BY <2>1, <2>2, <2>4, <3>1, <3>2 DEF Shown, Before, MemorySetup, Behind
  <2>5. CASE pc \in Behind
    <3>1. ~Serious
      BY <2>5 DEF Serious, Behind, MemorySetup
    <3> QED
      BY <2>1, <2>2, <2>5, <3>1 DEF Shown, Before, MemorySetup, Behind
  <2> QED
    BY <2>2, <2>3, <2>4, <2>5 DEF Shown
<1>9. CASE WriteScreen
  <2>1. screen' \o queue' = screen \o queue /\ out' \o Pending' = out \o Pending
    BY <1>9, Draws
  <2>2. queue # <<>> /\ UNCHANGED <<pc, renderer, report>>
    BY <1>9, <1>b DEF WriteScreen, trap
  <2>3. pc \notin Before \cup {"halted"}
    BY <2>2 DEF Shown, Blank, Trap
  <2>4. OnScreen' = OnScreen
    BY <2>2 DEF OnScreen
  <2> QED
    BY <2>1, <2>2, <2>3, <2>4 DEF Shown
<1>10. CASE PanicHalts
  <2>1. /\ pc = "panic" /\ queue = <<>> /\ pc' = "halted"
        /\ front' = IF OnScreen THEN screen ELSE front
        /\ UNCHANGED <<renderer, report, out, screen>>
    BY <1>10 DEF PanicHalts, At, trap, OnScreen
  <2>2. /\ EndsIn(out, ReportPieces(report))
        /\ OnScreen => EndsIn(screen, ReportPieces(report))
    BY <2>1, <1>e DEF Shown
  <2>3. report.name # ""
    BY <2>1 DEF Trap
  <2>4. OnScreen' = OnScreen
    BY <2>1 DEF OnScreen
  <2> QED
    BY <2>1, <2>2, <2>3, <2>4 DEF Shown, Before, MemorySetup, Behind
<1>11. CASE Flush
  <2>1. /\ pc = "flush" /\ queue = <<>> /\ pc' = "halted"
        /\ front' = IF renderer THEN screen ELSE front
        /\ UNCHANGED <<renderer, report, out, screen>>
    BY <1>11 DEF Flush, At, Goto, trap
  <2>2. renderer /\ screen = out
    BY <2>1, <1>e DEF Shown, Behind, MemorySetup
  <2>3. report.name = ""
    BY <2>1 DEF Trap, Ends
  <2> QED
    BY <2>1, <2>2, <2>3 DEF Shown, Before, MemorySetup, Behind
<1> QED
  BY <1>1, <1>2, <1>3, <1>4, <1>5, <1>6, <1>7, <1>8, <1>9, <1>10, <1>11, Kinds DEF Base

(* A machine that lacks something never gets behind the responses.           *)
LEMMA LackingHolds ==
  ASSUME Base, Trap, Shown, Lacking, [Next]_vars
  PROVE  Lacking'
<1>m. machine' = machine
  BY LoopVariable
<1> SUFFICES ASSUME machine.missing # {}
             PROVE  /\ pc' \notin Behind \cup MemorySetup
                    /\ pc' = "responses" => \A j \in 1 .. index' - 1 : Responses[j] \notin machine.missing
                    /\ ~renderer' /\ ~half'
                    /\ ~raised' => report'.name \in {"", "KE"}
                    /\ ~raised' /\ pc' = "int69" =>
                          IF out' = <<>> THEN queue' # <<>> /\ Named(Head(queue')) ELSE Named(out'[1])
                    /\ ~raised' /\ pc' \in {"panic", "halted"} => out' # <<>> /\ Named(out'[1])
  BY <1>m DEF Lacking, Named
<1>l. /\ pc \notin Behind \cup MemorySetup
      /\ pc = "responses" => \A j \in 1 .. index - 1 : Responses[j] \notin machine.missing
      /\ ~renderer /\ ~half
      /\ ~raised => report.name \in {"", "KE"}
      /\ ~raised /\ pc = "int69" =>
            IF out = <<>> THEN queue # <<>> /\ Named(Head(queue)) ELSE Named(out[1])
      /\ ~raised /\ pc \in {"panic", "halted"} => out # <<>> /\ Named(out[1])
  BY DEF Lacking
<1>1. CASE Stays
  BY <1>1, <1>l DEF Stays, text, fate
<1>2. CASE Prepares
  <2>1. /\ pc' \in Before /\ UNCHANGED <<renderer, half, report, raised>>
        /\ pc' = "responses" =>
              \/ pc = "tables" /\ index' = 1
              \/ /\ pc = "responses" /\ Responses[index] \notin machine.missing /\ index' = index + 1
    BY <1>2 DEF Prepares, text, fate
  <2>2. pc' # "memory"
    <3> SUFFICES ASSUME pc' = "memory" PROVE FALSE
      OBVIOUS
    <3>1. pc = "responses" /\ index > Len(Responses)
      BY <1>2 DEF Prepares
    <3>2. \A j \in 1 .. 8 : Responses[j] \notin machine.missing
      <4>1. Len(Responses) = 8 /\ index \in Nat
        BY DEF Responses, Base
      <4>2. 1 .. 8 \subseteq 1 .. index - 1
        BY <3>1, <4>1
      <4> QED
        BY <1>l, <3>1, <4>2
    <3>3. machine.missing \subseteq Requests
      BY MachineAssumption DEF Base
    <3>4. \A r \in Requests : \E j \in 1 .. 8 : r = Responses[j]
      <4>1. /\ Responses[1] = "base revision" /\ Responses[2] = "bootloader info"
            /\ Responses[3] = "firmware type" /\ Responses[4] = "hhdm"
            /\ Responses[5] = "framebuffer" /\ Responses[6] = "memmap"
            /\ Responses[7] = "mp" /\ Responses[8] = "rsdp"
        BY DEF Responses
      <4>2. \A j \in {1, 2, 3, 4, 5, 6, 7, 8} : j \in 1 .. 8
        OBVIOUS
      <4>3. \A r \in Requests : \E j \in {1, 2, 3, 4, 5, 6, 7, 8} : r = Responses[j]
        BY <4>1, Zenon DEF Requests
      <4> QED
        BY <4>2, <4>3, Zenon
    <3> QED
      BY <3>2, <3>3, <3>4
  <2>3. pc' \notin {"heap", "retrying", "astray"}
    BY <1>2, <1>l DEF Prepares, MemorySetup
  <2>4. pc' = "responses" => \A j \in 1 .. index' - 1 : Responses[j] \notin machine.missing
    <3> SUFFICES ASSUME pc' = "responses", NEW j \in 1 .. index' - 1
                 PROVE  Responses[j] \notin machine.missing
      OBVIOUS
    <3>1. CASE index' = 1
      BY <3>1
    <3>2. CASE pc = "responses" /\ Responses[index] \notin machine.missing /\ index' = index + 1
      <4>1. j = index \/ j \in 1 .. index - 1
        BY <3>2 DEF Base
      <4> QED
        BY <3>2, <4>1, <1>l
    <3> QED
      BY <2>1, <3>1, <3>2
  <2> QED
    BY <2>1, <2>2, <2>3, <2>4, <1>l DEF Before, MemorySetup, Behind
<1>3. CASE InitializeRenderer \/ Proceeds \/ Speaks
  BY <1>3, <1>l DEF InitializeRenderer, At, Proceeds, Speaks, MemorySetup
<1>4. CASE Complains
  <2>1. pc = "responses" /\ pc' = "int69" /\ UNCHANGED <<renderer, half, out, report, raised>>
    BY <1>4, <1>l DEF Complains, fate
  <2>2. PICK i \in DOMAIN Responses : Responses[i] \in machine.missing /\ queue' = <<<<Responses[i]>>, Newline>>
    BY <1>4, <2>1 DEF Complains
  <2>3. queue' # <<>> /\ Head(queue') = <<Responses[i]>>
    BY <2>2
  <2>4. out = <<>>
    BY <2>1 DEF Shown, Blank, Before, MemorySetup
  <2> QED
    BY <2>1, <2>2, <2>3, <2>4, <1>l DEF Named, Behind, MemorySetup
<1>5. CASE Faults \/ Int69 \/ Exception
  <2>1. PICK v : /\ Source(v) /\ (Resets \/ Panics(v))
                 /\ Int69 => v = KernelException
                 /\ Faults => pc \in Behind \cup {"heap"} \/ half
                 /\ raised' = raised => pc \notin Ends
    <3>1. Base /\ Trap /\ (Faults \/ Int69 \/ Exception)
      BY <1>5
    <3> QED
      BY <3>1, Exceptions
  <2>2. ~Faults
    BY <2>1, <1>l DEF MemorySetup
  <2>3. CASE Exception
    <3>1. raised'
      BY <2>3 DEF Exception
    <3>2. pc' \in {"reset", "panic"} /\ renderer' = renderer /\ ~half'
      <4>1. renderer' = renderer
        BY <2>1 DEF Source
      <4>2. CASE Resets
        BY <4>1, <4>2, <1>l DEF Resets
      <4>3. CASE Panics(v)
        BY <4>1, <4>3 DEF Panics
      <4> QED
        BY <2>1, <4>2, <4>3
    <3> QED
      BY <3>1, <3>2, <1>l DEF Behind, MemorySetup
  <2>4. CASE Int69
    <3>1. pc = "int69" /\ queue = <<>> /\ UNCHANGED <<renderer, out, raised>>
      BY <2>4 DEF Int69, At
    <3>2. ~Resets
      BY <3>1 DEF Resets, Base, Control, Early
    <3>3. pc' = "panic" /\ ~half' /\ report'.name = Mnemonic[KernelException]
      BY <2>1, <2>4, <3>2 DEF Panics, ReportRight
    <3>4. Mnemonic[KernelException] = "KE"
      BY Names DEF KernelException
    <3> QED
      BY <3>1, <3>3, <3>4, <1>l DEF Behind, MemorySetup
  <2> QED
    BY <1>5, <2>2, <2>3, <2>4
<1>6. CASE WriteSerial
  <2>1. /\ queue # <<>> /\ out' = Append(out, Head(queue)) /\ half' = (renderer /\ ~Serious)
        /\ UNCHANGED <<pc, index, renderer, report, raised>>
    BY <1>6 DEF WriteSerial, trap
  <2>2. ~half'
    BY <2>1, <1>l
  <2>3. /\ out' # <<>>
        /\ out = <<>> => out'[1] = Head(queue)
        /\ out # <<>> => out'[1] = out[1]
    BY <2>1, SeqParts DEF Base
  <2> QED
    BY <2>1, <2>2, <2>3, <1>l
<1>7. CASE WriteScreen
  BY <1>7, <1>l DEF WriteScreen
<1>8. CASE PanicHalts \/ Flush
  <2>1. /\ pc \in {"panic", "flush"} /\ pc' = "halted"
        /\ UNCHANGED <<renderer, half, out, report, raised>>
    BY <1>8 DEF PanicHalts, Flush, At, Goto, trap
  <2> QED
    BY <2>1, <1>l DEF Behind, MemorySetup
<1> QED
  BY <1>1, <1>2, <1>3, <1>4, <1>5, <1>6, <1>7, <1>8, Kinds DEF Base

-----------------------------------------------------------------------------
LEMMA Start ==
  ASSUME Init
  PROVE  Base /\ Trap /\ Shown /\ Lacking
<1>1. /\ machine \in Machines /\ pc = "serial" /\ index = 1 /\ armed = FALSE /\ renderer = FALSE
      /\ queue = <<>> /\ half = FALSE /\ out = <<>> /\ screen = <<>> /\ front = <<>>
      /\ depth = 0 /\ report.name = "" /\ raised = FALSE
  BY DEF Init, NoReport
<1>2. IsSeq(<<>>)
  <2>1. <<>> \in Seq({})
    OBVIOUS
  <2> QED
    BY <2>1 DEF IsSeq
<1>3. Base
  <2>1. Control /\ index \in Nat \ {0} /\ pc \in Places
    <3>1. Control
      BY <1>1 DEF Control, Early
    <3>2. index \in Nat \ {0}
      <4>1. index = 1
        BY <1>1
      <4> QED
        BY <4>1
    <3>3. pc \in Places
      BY <1>1 DEF Places
    <3> QED
      BY <3>1, <3>2, <3>3
  <2>2. half \in BOOLEAN /\ raised \in BOOLEAN /\ ~half
    BY <1>1
  <2> QED
    BY <1>1, <1>2, <2>1, <2>2 DEF Base
<1>4. Trap
  <2>1. depth \in Nat /\ depth <= (IF raised THEN 2 ELSE 1)
    <3>1. depth = 0 /\ ~raised
      BY <1>1
    <3> QED
      BY <3>1
  <2> QED
    BY <1>1, <2>1 DEF Trap, ReportRight
<1>5. Shown
  BY <1>1 DEF Shown, Blank, Behind, MemorySetup
<1>6. Lacking
  BY <1>1 DEF Lacking, Behind, MemorySetup
<1> QED
  BY <1>3, <1>4, <1>5, <1>6

LEMMA Invariant == Spec => [](Base /\ Trap /\ Shown /\ Lacking)
<1>1. Init => Base /\ Trap /\ Shown /\ Lacking
  BY Start
<1>2. Base /\ Trap /\ Shown /\ Lacking /\ [Next]_vars => (Base /\ Trap /\ Shown /\ Lacking)'
  BY BaseHolds, TrapHolds, ShownHolds, LackingHolds
<1> QED
  BY <1>1, <1>2, PTL DEF Spec

(* Every exception, of any vector and with any error code, at any point of    *)
(* the boot and within Panic too, is reported as what it is, with the frame  *)
(* it interrupted; only before the tables are loaded the machine resets      *)
(* (idt.cpp, gdt.cpp, interrupt/).                                           *)
THEOREM EveryExceptionIsReported == Spec => []ReportsCause
<1>1. Base /\ Trap => ReportsCause
  BY DEF Trap, ReportRight, ReportsCause
<1> QED
  BY <1>1, Invariant, PTL

(* A boot that ends well shows on the screen what went to the serial port; a  *)
(* Panic shows its whole message in both places, whatever it interrupted     *)
(* (panic.cpp:14-24, kernel.cpp:571).                                        *)
THEOREM MessagesAreShown == Spec => []ShownWhenHalted
<1>1. Shown => ShownWhenHalted
  <2>1. IsSeq(ReportPieces(report))
    <3>1. \A a, b, c : <<a, b, c>> \in Seq({a, b, c})
      OBVIOUS
    <3> QED
      BY <3>1, Zenon DEF ReportPieces, IsSeq
  <2>2. \A s : EndsIn(s, ReportPieces(report)) => EndsWith(s, ReportPieces(report))
    BY <2>1, SeqEnds
  <2> QED
    BY <2>2 DEF Shown, OnScreen, ShownWhenHalted
<1> QED
  BY <1>1, Invariant, PTL

(* Whichever responses are missing, the boot ends at the checks, and the     *)
(* first that is missing is named first (kernel.cpp:473-511).                *)
THEOREM MissingIsNamed == Spec => []MissingIsReported
<1>1. Base /\ Lacking => MissingIsReported
  <2> SUFFICES ASSUME Base, Lacking, machine.missing # {}
               PROVE  /\ pc \in {"serial", "serial_test", "tables", "responses", "int69", "panic", "halted", "reset"}
                      /\ ~raised => report.name \in {"", "KE"}
                      /\ pc = "halted" /\ ~raised =>
                            \E i \in DOMAIN Responses : /\ Responses[i] \in machine.missing
                                                        /\ out[1] = <<Responses[i]>>
    BY DEF MissingIsReported
  <2>1. pc \in {"serial", "serial_test", "tables", "responses", "int69", "panic", "halted", "reset"}
    BY DEF Base, Places, Lacking, Behind, MemorySetup
  <2> QED
    BY <2>1 DEF Lacking, Named
<1> QED
  BY <1>1, Invariant, PTL

-----------------------------------------------------------------------------
(* The walks over the buses: how far a bus is from the first of its entry.   *)

-----------------------------------------------------------------------------
(* The walk.  Places in the order in which the four loops come to them: by  *)
(* entry, by how far the bus is from the first bus of the entry, modulo the *)
(* size of a bus number, by device and by function.                        *)

Offset(entry, bus) == (bus - machine.mcfg[entry].start) % BusNumbers

(* A remainder of a negative number.                                         *)
LEMMA NegativeRemainder ==
  ASSUME NEW d \in Nat \ {0}, NEW x \in 1 .. d - 1
  PROVE  (-x) % d = d - x
<1>1. (-x) % d \in 0 .. d - 1 /\ -x = d * ((-x) \div d) + ((-x) % d)
  OBVIOUS
<1>2. PICK q \in Int, r \in 0 .. d - 1 : r = (-x) % d /\ -x = d * q + r
  BY <1>1
<1>3. q < 0
  <2>1. q >= 0 => d * q \in Nat
    OBVIOUS
  <2> QED
    BY <1>2, <2>1
<1>4. q = -1
  <2>1. q < -1 => d * q <= d * (-2)
    OBVIOUS
  <2> QED
    BY <1>2, <1>3, <2>1
<1> QED
  BY <1>2, <1>4

(* How far one bus number is behind another.                                *)
LEMMA Distance ==
  ASSUME NEW b \in 0 .. BusNumbers - 1, NEW s \in 0 .. BusNumbers - 1
  PROVE  (b - s) % BusNumbers = IF b >= s THEN b - s ELSE b - s + BusNumbers
<1>1. BusNumbers \in Nat \ {0}
  BY WalkAssumption
<1>2. CASE b >= s
  BY <1>1, <1>2
<1>3. CASE b < s
  <2>1. PICK x \in 1 .. BusNumbers - 1 : x = s - b
    BY <1>1, <1>3
  <2>2. (-x) % BusNumbers = BusNumbers - x
    BY <1>1, NegativeRemainder
  <2>3. b - s = -x
    BY <1>1, <2>1
  <2>4. (b - s) % BusNumbers = BusNumbers - x
    BY <2>2, <2>3
  <2> QED
    BY <1>1, <1>3, <2>1, <2>4
<1> QED
  BY <1>1, <1>2, <1>3

LEMMA NextDistance ==
  ASSUME NEW b \in 0 .. BusNumbers - 1, NEW s \in 0 .. BusNumbers - 1,
         NEW e \in 0 .. BusNumbers - 1, (b - s) % BusNumbers < (e - s) % BusNumbers
  PROVE  /\ NextBus(b) \in 0 .. BusNumbers - 1
         /\ (NextBus(b) - s) % BusNumbers = ((b - s) % BusNumbers) + 1
<1>1. BusNumbers \in Nat \ {0}
  BY WalkAssumption
<1>2. NextBus(b) = IF b + 1 = BusNumbers THEN 0 ELSE b + 1
  <2>1. CASE b + 1 = BusNumbers
    BY <1>1, <2>1 DEF NextBus
  <2>2. CASE b + 1 < BusNumbers
    BY <1>1, <2>2 DEF NextBus
  <2> QED
    BY <1>1, <2>1, <2>2
<1>3. NextBus(b) \in 0 .. BusNumbers - 1
  BY <1>1, <1>2
<1>4. PICK n \in 0 .. BusNumbers - 1 : n = NextBus(b)
  BY <1>3
<1>5. /\ (b - s) % BusNumbers = IF b >= s THEN b - s ELSE b - s + BusNumbers
      /\ (e - s) % BusNumbers = IF e >= s THEN e - s ELSE e - s + BusNumbers
      /\ (n - s) % BusNumbers = IF n >= s THEN n - s ELSE n - s + BusNumbers
  BY Distance
<1> QED
  BY <1>1, <1>2, <1>4, <1>5

LEMMA OneDistance ==
  ASSUME NEW b \in 0 .. BusNumbers - 1, NEW c \in 0 .. BusNumbers - 1, NEW s \in 0 .. BusNumbers - 1
  PROVE  /\ (b - s) % BusNumbers \in 0 .. BusNumbers - 1
         /\ (s - s) % BusNumbers = 0
         /\ (b - s) % BusNumbers = (c - s) % BusNumbers => b = c
<1>1. BusNumbers \in Nat \ {0}
  BY WalkAssumption
<1>2. /\ (b - s) % BusNumbers = IF b >= s THEN b - s ELSE b - s + BusNumbers
      /\ (c - s) % BusNumbers = IF c >= s THEN c - s ELSE c - s + BusNumbers
      /\ (s - s) % BusNumbers = IF s >= s THEN s - s ELSE s - s + BusNumbers
  BY Distance
<1> QED
  BY <1>1, <1>2

(* What has been looked at when the walk is where it is.                    *)
Passed(p) ==
  \/ p[1] < walk.entry
  \/ /\ p[1] = walk.entry /\ walk.at \notin {"entry", "done"}
     /\ \/ Offset(walk.entry, p[2]) < Offset(walk.entry, walk.bus)
        \/ /\ p[2] = walk.bus /\ walk.at # "bus"
           /\ \/ p[3] < walk.device
              \/ p[3] = walk.device /\ walk.at \in {"function", "body"} /\ p[4] < walk.function

(* The loop variables: buses run from the first up to the last one of the   *)
(* entry, and to nothing else, although they wrap.                          *)
InBus == {"device", "functions", "function", "body"}

WalkTypes ==
  walk \in [at : InBus \cup {"entry", "bus", "done"}, entry : 1 .. Len(machine.mcfg) + 1,
            bus : 0 .. BusNumbers - 1, device : 0 .. DevicesPerBus,
            function : 0 .. FunctionsPerDevice, functions : 0 .. FunctionsPerDevice]

WalkAt ==
  /\ WalkTypes
  /\ walk.at \notin {"entry", "done"} => walk.entry <= Len(machine.mcfg)
  /\ walk.at = "done" => walk.entry = Len(machine.mcfg) + 1
  /\ walk.at = "bus" => Offset(walk.entry, walk.bus) <= Offset(walk.entry, machine.mcfg[walk.entry].end)
  /\ walk.at \in InBus => walk.bus \in Buses(machine.mcfg[walk.entry])
  /\ walk.at \in InBus \ {"device"} => walk.device < DevicesPerBus
  /\ walk.at \in {"function", "body"} =>
        walk.functions = FunctionsOf(Header(DeviceHere)) /\ walk.function <= walk.functions
  /\ walk.at = "body" => walk.function < walk.functions

(* The entries of a machine.                                                *)
LEMMA Entries ==
  ASSUME machine \in Machines
  PROVE  /\ machine.mcfg \in Seq([base : Nat, start : 0 .. BusNumbers - 1, end : 0 .. BusNumbers - 1])
         /\ Len(machine.mcfg) \in Nat /\ DOMAIN machine.mcfg = 1 .. Len(machine.mcfg)
         /\ McfgCount(machine.mcfgLength) = Len(machine.mcfg)
         /\ \A e \in 1 .. Len(machine.mcfg) :
               /\ machine.mcfg[e].base \in Nat
               /\ machine.mcfg[e].start \in 0 .. BusNumbers - 1
               /\ machine.mcfg[e].end \in 0 .. BusNumbers - 1
<1>1. /\ machine.mcfg \in Seq([base : Nat, start : 0 .. BusNumbers - 1, end : 0 .. BusNumbers - 1])
      /\ machine.mcfgLength = McfgLength(Len(machine.mcfg))
  BY MachineAssumption
<1>2. Len(machine.mcfg) \in Nat /\ DOMAIN machine.mcfg = 1 .. Len(machine.mcfg)
  BY <1>1
<1>3. PICK n \in Nat : n = Len(machine.mcfg)
  BY <1>2
<1>4. McfgCount(McfgLength(n)) = n
  <2>1. McfgLength(n) - HeaderSize = 16 * n + 8
    BY DEF McfgLength, HeaderSize, McfgEntrySize
  <2>2. (16 * n + 8) \div 16 = n
    OBVIOUS
  <2> QED
    BY <2>1, <2>2 DEF McfgCount, McfgEntrySize
<1> DEFINE Entry == [base : Nat, start : 0 .. BusNumbers - 1, end : 0 .. BusNumbers - 1]
<1> HIDE DEF Entry
<1>5. \A e \in 1 .. Len(machine.mcfg) : machine.mcfg[e] \in Entry
  <2>1. machine.mcfg \in Seq(Entry)
    BY <1>1 DEF Entry
  <2> QED
    BY <2>1, ElementOfSeq
<1> QED
  BY <1>1, <1>2, <1>3, <1>4, <1>5 DEF Entry

LEMMA Places4 ==
  ASSUME NEW p \in Expected
  PROVE  /\ p[1] \in DOMAIN machine.mcfg /\ p[2] \in Buses(machine.mcfg[p[1]])
         /\ p[3] \in 0 .. DevicesPerBus - 1 /\ p[4] \in 0 .. FunctionsPerDevice - 1
         /\ p = <<p[1], p[2], p[3], p[4]>>
         /\ p[4] = 0 \/ Header(DevicePage(p[1], p[2], p[3])).multi
BY DEF Expected, Seen, FirstOf

LEMMA Expects ==
  ASSUME NEW e \in DOMAIN machine.mcfg, NEW b \in Buses(machine.mcfg[e]), NEW d \in 0 .. DevicesPerBus - 1,
         NEW f \in 0 .. FunctionsPerDevice - 1, f = 0 \/ Header(DevicePage(e, b, d)).multi
  PROVE  <<e, b, d, f>> \in Expected
<1>1. <<e, b, d, f>> \in Seen(e)
  BY DEF Seen
<1> QED
  BY <1>1 DEF Expected, FirstOf

LEMMA SameMachine ==
  ASSUME machine' = machine
  PROVE  /\ Expected' = Expected
         /\ \A e, b : Offset(e, b)' = Offset(e, b)
         /\ \A page : Header(page)' = Header(page)
         /\ \A e, b, d : DevicePage(e, b, d)' = DevicePage(e, b, d)
         /\ \A e, b, d, f : FunctionPage(e, b, d, f)' = FunctionPage(e, b, d, f)
BY DEF Expected, Seen, FirstOf, Offset, Header, DevicePage, BusPage, FunctionPage

(* How far the buses of an entry are from its first.                        *)
LEMMA Offsets ==
  ASSUME machine \in Machines, NEW e \in 1 .. Len(machine.mcfg), NEW b \in 0 .. BusNumbers - 1
  PROVE  /\ machine.mcfg[e].start \in 0 .. BusNumbers - 1 /\ machine.mcfg[e].end \in 0 .. BusNumbers - 1
         /\ Offset(e, b) \in Nat /\ Offset(e, machine.mcfg[e].start) = 0
         /\ \A c \in 0 .. BusNumbers - 1 : Offset(e, c) \in Nat /\ (Offset(e, b) = Offset(e, c) => b = c)
         /\ b \in Buses(machine.mcfg[e]) <=> Offset(e, b) < Offset(e, machine.mcfg[e].end)
         /\ b \in Buses(machine.mcfg[e]) => /\ NextBus(b) \in 0 .. BusNumbers - 1
                                            /\ Offset(e, NextBus(b)) = Offset(e, b) + 1
<1>1. PICK s \in 0 .. BusNumbers - 1, t \in 0 .. BusNumbers - 1 : machine.mcfg[e].start = s /\ machine.mcfg[e].end = t
  BY Entries
<1>2. \A c \in 0 .. BusNumbers - 1 : /\ (c - s) % BusNumbers \in 0 .. BusNumbers - 1
                                      /\ (s - s) % BusNumbers = 0
                                      /\ (b - s) % BusNumbers = (c - s) % BusNumbers => b = c
  BY OneDistance
<1>3. (b - s) % BusNumbers < (t - s) % BusNumbers =>
         /\ NextBus(b) \in 0 .. BusNumbers - 1 /\ (NextBus(b) - s) % BusNumbers = ((b - s) % BusNumbers) + 1
  BY NextDistance
<1>4. \A c : Offset(e, c) = (c - s) % BusNumbers
  BY <1>1 DEF Offset
<1>5. \A c \in 0 .. BusNumbers - 1 : (c - s) % BusNumbers \in Nat
  BY <1>2, WalkAssumption
<1>6. b \in Buses(machine.mcfg[e]) <=> Offset(e, b) < Offset(e, t)
  BY <1>1 DEF Buses, Offset
<1>7. /\ Offset(e, b) \in Nat /\ Offset(e, s) = 0
      /\ \A c \in 0 .. BusNumbers - 1 : Offset(e, c) \in Nat /\ (Offset(e, b) = Offset(e, c) => b = c)
  <2>1. Offset(e, b) \in Nat
    BY <1>4, <1>5
  <2>2. Offset(e, s) = 0
    <3>1. (s - s) % BusNumbers = 0
      BY OneDistance
    <3> QED
      BY <1>1, <3>1 DEF Offset
  <2>3. ASSUME NEW c \in 0 .. BusNumbers - 1 PROVE Offset(e, c) \in Nat
    BY <1>4, <1>5
  <2>4. ASSUME NEW c \in 0 .. BusNumbers - 1, Offset(e, b) = Offset(e, c) PROVE b = c
    <3>1. Offset(e, b) = (b - s) % BusNumbers /\ Offset(e, c) = (c - s) % BusNumbers
      BY <1>4
    <3>2. (b - s) % BusNumbers = (c - s) % BusNumbers
      BY <2>4, <3>1
    <3> QED
      BY <3>2, OneDistance
  <2> QED
    BY <2>1, <2>2, <2>3, <2>4
<1>8. Offset(e, b) < Offset(e, t) => /\ NextBus(b) \in 0 .. BusNumbers - 1
                                    /\ Offset(e, NextBus(b)) = Offset(e, b) + 1
  BY <1>3, <1>4
<1> QED
  BY <1>1, <1>6, <1>7, <1>8, Zenon

(* What the walk has in hand at an entry.                                   *)
LEMMA EntryHere ==
  ASSUME machine \in Machines, WalkAt
  PROVE  /\ Len(machine.mcfg) \in Nat /\ walk.entry \in 1 .. Len(machine.mcfg) + 1
         /\ walk.bus \in 0 .. BusNumbers - 1
         /\ walk.at \notin {"entry", "done"} => walk.entry \in 1 .. Len(machine.mcfg)
         /\ \A p \in Expected : /\ p[1] \in 1 .. Len(machine.mcfg) /\ p[2] \in 0 .. BusNumbers - 1
                                 /\ p[2] \in Buses(machine.mcfg[p[1]])
                                 /\ p[3] \in 0 .. DevicesPerBus - 1 /\ p[4] \in 0 .. FunctionsPerDevice - 1
<1>1. Len(machine.mcfg) \in Nat /\ walk.entry \in 1 .. Len(machine.mcfg) + 1 /\ walk.bus \in 0 .. BusNumbers - 1
  BY Entries DEF WalkAt, WalkTypes
<1>2. walk.at \notin {"entry", "done"} => walk.entry \in 1 .. Len(machine.mcfg)
  BY <1>1 DEF WalkAt
<1>3. ASSUME NEW p \in Expected
      PROVE  /\ p[1] \in 1 .. Len(machine.mcfg) /\ p[2] \in 0 .. BusNumbers - 1
             /\ p[2] \in Buses(machine.mcfg[p[1]])
             /\ p[3] \in 0 .. DevicesPerBus - 1 /\ p[4] \in 0 .. FunctionsPerDevice - 1
  BY Places4, Entries DEF Buses
<1> QED
  BY <1>1, <1>2, <1>3

(* The loop over the entries begins or ends.                                *)
LEMMA EntryPasses ==
  ASSUME machine \in Machines, WalkAt, WalkEntry
  PROVE  WalkAt' /\ \A p \in Expected : Passed(p)' <=> Passed(p)
<1>1. /\ walk.at = "entry" /\ machine' = machine
      /\ walk' = IF walk.entry > Len(machine.mcfg) THEN [walk EXCEPT !.at = "done"]
                 ELSE [walk EXCEPT !.at = "bus", !.bus = machine.mcfg[walk.entry].start]
  BY Entries DEF WalkEntry
<1>2. walk.entry \in 1 .. Len(machine.mcfg) + 1 /\ Len(machine.mcfg) \in Nat
  BY EntryHere
<1>3. CASE walk.entry > Len(machine.mcfg)
  <2>1. walk' = [walk EXCEPT !.at = "done"]
    BY <1>1, <1>3
  <2>2. WalkAt'
    BY <1>1, <1>2, <1>3, <2>1 DEF WalkAt, WalkTypes, InBus
  <2>3. \A p : Passed(p)' <=> Passed(p)
    BY <1>1, <2>1 DEF WalkAt, WalkTypes, Passed
  <2> QED
    BY <2>2, <2>3
<1>4. CASE walk.entry <= Len(machine.mcfg)
  <2>1. walk' = [walk EXCEPT !.at = "bus", !.bus = machine.mcfg[walk.entry].start]
    BY <1>1, <1>2, <1>4
  <2>2. PICK s \in 0 .. BusNumbers - 1 : s = machine.mcfg[walk.entry].start
    <3>1. walk.entry \in 1 .. Len(machine.mcfg)
      BY <1>2, <1>4
    <3> QED
      BY <3>1, Entries
  <2>3. Offset(walk.entry, s) = 0 /\ Offset(walk.entry, machine.mcfg[walk.entry].end) \in Nat
    <3>1. walk.entry \in 1 .. Len(machine.mcfg) /\ machine \in Machines
      BY <1>2, <1>4
    <3> DEFINE e == walk.entry
    <3>2. e \in 1 .. Len(machine.mcfg) /\ s = machine.mcfg[e].start
      BY <2>2, <3>1
    <3> HIDE DEF e
    <3>3. /\ Offset(e, machine.mcfg[e].start) = 0 /\ machine.mcfg[e].end \in 0 .. BusNumbers - 1
          /\ \A c \in 0 .. BusNumbers - 1 : Offset(e, c) \in Nat
      BY <3>1, <3>2, Offsets
    <3>4. Offset(e, s) = 0 /\ Offset(e, machine.mcfg[e].end) \in Nat
      BY <3>2, <3>3
    <3> QED
      BY <3>4 DEF e
  <2>4. WalkTypes'
    BY <1>1, <1>2, <2>1, <2>2 DEF WalkAt, WalkTypes
  <2>5. walk'.at = "bus" /\ walk'.entry = walk.entry /\ walk'.bus = s
    BY <2>1, <2>2 DEF WalkAt, WalkTypes
  <2>6. WalkAt'
    BY <1>1, <1>2, <1>4, <2>3, <2>4, <2>5, SameMachine DEF WalkAt, InBus
  <2>7. \A p \in Expected : p[1] = walk.entry => ~(Offset(walk.entry, p[2]) < Offset(walk.entry, s))
    <3> SUFFICES ASSUME NEW p \in Expected, p[1] = walk.entry
                 PROVE  ~(Offset(walk.entry, p[2]) < 0)
      BY <2>3
    <3>1. Offset(walk.entry, p[2]) \in Nat
      BY <1>2, <1>4, EntryHere, Offsets
    <3> QED
      BY <3>1
  <2>8. \A p \in Expected : Passed(p)' <=> Passed(p)
    BY <1>1, <2>5, <2>7, SameMachine DEF Passed
  <2> QED
    BY <2>6, <2>8
<1> QED
  BY <1>2, <1>3, <1>4

(* A bus of the entry, or behind the last one.                              *)
LEMMA BusPasses ==
  ASSUME machine \in Machines, WalkAt, WalkBus
  PROVE  WalkAt' /\ \A p \in Expected : Passed(p)' <=> Passed(p)
<1> DEFINE last == machine.mcfg[walk.entry].end
<1>1. walk.at = "bus" /\ machine' = machine
  BY DEF WalkBus
<1>2. /\ walk.entry \in 1 .. Len(machine.mcfg) /\ Len(machine.mcfg) \in Nat
      /\ walk.bus \in 0 .. BusNumbers - 1
  BY <1>1, EntryHere
<1>3. /\ last \in 0 .. BusNumbers - 1
      /\ Offset(walk.entry, walk.bus) <= Offset(walk.entry, last)
      /\ Offset(walk.entry, walk.bus) \in Nat /\ Offset(walk.entry, last) \in Nat
      /\ Offset(walk.entry, walk.bus) = Offset(walk.entry, last) => walk.bus = last
  <2>1. last \in 0 .. BusNumbers - 1
    BY <1>2, Offsets
  <2>2. Offset(walk.entry, walk.bus) <= Offset(walk.entry, last)
    BY <1>1 DEF WalkAt
  <2> QED
    BY <1>2, <2>1, <2>2, Offsets
<1> HIDE DEF last
<1>4. CASE walk.bus = last
  <2>1. walk' = [walk EXCEPT !.at = "entry", !.entry = walk.entry + 1]
    BY <1>4 DEF WalkBus, AtEndBus, last
  <2>2. walk'.at = "entry" /\ walk'.entry = walk.entry + 1
    BY <2>1 DEF WalkAt, WalkTypes
  <2>3. WalkTypes'
    <3>1. WalkTypes /\ walk.entry + 1 \in 1 .. Len(machine.mcfg) + 1
      BY <1>2 DEF WalkAt
    <3>2. walk' \in [at : InBus \cup {"entry", "bus", "done"}, entry : 1 .. Len(machine.mcfg) + 1,
                     bus : 0 .. BusNumbers - 1, device : 0 .. DevicesPerBus,
                     function : 0 .. FunctionsPerDevice, functions : 0 .. FunctionsPerDevice]
      BY <2>1, <3>1 DEF WalkTypes
    <3> QED
      BY <1>1, <3>2 DEF WalkTypes
  <2>4. WalkAt'
    BY <2>2, <2>3 DEF WalkAt, InBus
  <2>5. \A p \in Expected : p[1] = walk.entry => Offset(walk.entry, p[2]) < Offset(walk.entry, walk.bus)
    BY <1>2, <1>4, EntryHere, Offsets DEF last
  <2>6. \A p \in Expected : p[1] \in Nat
    BY EntryHere
  <2>7. \A p \in Expected : Passed(p)' <=> Passed(p)
    BY <1>1, <1>2, <2>2, <2>5, <2>6 DEF Passed
  <2> QED
    BY <2>4, <2>7
<1>5. CASE walk.bus # last
  <2>1. walk' = [walk EXCEPT !.at = "device", !.device = 0]
    BY <1>5 DEF WalkBus, AtEndBus, last
  <2>2. walk'.at = "device" /\ walk'.entry = walk.entry /\ walk'.bus = walk.bus /\ walk'.device = 0
    BY <2>1 DEF WalkAt, WalkTypes
  <2>3. walk.bus \in Buses(machine.mcfg[walk.entry])
    <3>1. Offset(walk.entry, walk.bus) < Offset(walk.entry, last)
      BY <1>3, <1>5
    <3> QED
      BY <1>2, <3>1, Offsets DEF last
  <2>4. WalkTypes'
    <3>1. WalkTypes /\ 0 \in 0 .. DevicesPerBus
      BY WalkAssumption DEF WalkAt
    <3>2. walk' \in [at : InBus \cup {"entry", "bus", "done"}, entry : 1 .. Len(machine.mcfg) + 1,
                     bus : 0 .. BusNumbers - 1, device : 0 .. DevicesPerBus,
                     function : 0 .. FunctionsPerDevice, functions : 0 .. FunctionsPerDevice]
      BY <2>1, <3>1 DEF WalkTypes, InBus
    <3> QED
      BY <1>1, <3>2 DEF WalkTypes
  <2>5. Buses(machine.mcfg[walk.entry])' = Buses(machine.mcfg[walk.entry])
    BY <1>1, <2>2 DEF Buses
  <2>6. WalkAt'
    BY <1>1, <1>2, <2>2, <2>3, <2>4, <2>5 DEF WalkAt, InBus
  <2>7. \A p \in Expected : ~(p[3] < 0)
    BY EntryHere, WalkAssumption
  <2>8. \A p \in Expected : Passed(p)' <=> Passed(p)
    BY <1>1, <2>2, <2>7, SameMachine DEF Passed
  <2> QED
    BY <2>6, <2>8
<1> QED
  BY <1>4, <1>5

(* The fields of the loop variables as a step changes them.                 *)
LEMMA Fields4 ==
  ASSUME WalkTypes
  PROVE  /\ walk.at \in InBus \cup {"entry", "bus", "done"}
         /\ walk.bus \in 0 .. BusNumbers - 1 /\ walk.device \in 0 .. DevicesPerBus
         /\ walk.function \in 0 .. FunctionsPerDevice /\ walk.functions \in 0 .. FunctionsPerDevice
         /\ DOMAIN walk = {"at", "entry", "bus", "device", "function", "functions"}
BY DEF WalkTypes

(* A device of the bus, or the next bus.                                    *)
LEMMA DevicePasses ==
  ASSUME machine \in Machines, WalkAt, WalkDevice
  PROVE  WalkAt' /\ \A p \in Expected : Passed(p)' <=> Passed(p)
<1>1. walk.at = "device" /\ machine' = machine /\ WalkTypes
  BY DEF WalkDevice, WalkAt
<1>2. /\ walk.entry \in 1 .. Len(machine.mcfg) /\ Len(machine.mcfg) \in Nat
      /\ walk.bus \in 0 .. BusNumbers - 1 /\ walk.bus \in Buses(machine.mcfg[walk.entry])
  <2>1. walk.bus \in Buses(machine.mcfg[walk.entry])
    BY <1>1 DEF WalkAt, InBus
  <2> QED
    BY <1>1, <2>1, EntryHere
<1>3. DevicesPerBus \in Nat \ {0}
  BY WalkAssumption
<1>4. CASE walk.device = DevicesPerBus
  <2>1. walk' = [walk EXCEPT !.at = "bus", !.bus = NextBus(walk.bus)]
    BY <1>4 DEF WalkDevice
  <2>2. /\ NextBus(walk.bus) \in 0 .. BusNumbers - 1
        /\ Offset(walk.entry, NextBus(walk.bus)) = Offset(walk.entry, walk.bus) + 1
        /\ Offset(walk.entry, walk.bus) \in Nat
        /\ Offset(walk.entry, walk.bus) < Offset(walk.entry, machine.mcfg[walk.entry].end)
        /\ Offset(walk.entry, machine.mcfg[walk.entry].end) \in Nat
    BY <1>2, Offsets
  <2>3. walk'.at = "bus" /\ walk'.entry = walk.entry /\ walk'.bus = NextBus(walk.bus)
    BY <1>1, <2>1 DEF WalkTypes
  <2>4. WalkTypes'
    <3>1. walk' \in [at : InBus \cup {"entry", "bus", "done"}, entry : 1 .. Len(machine.mcfg) + 1,
                     bus : 0 .. BusNumbers - 1, device : 0 .. DevicesPerBus,
                     function : 0 .. FunctionsPerDevice, functions : 0 .. FunctionsPerDevice]
      BY <1>1, <2>1, <2>2 DEF WalkTypes
    <3> QED
      BY <1>1, <3>1 DEF WalkTypes
  <2>5. WalkAt'
    <3>1. Offset(walk.entry, NextBus(walk.bus)) <= Offset(walk.entry, machine.mcfg[walk.entry].end)
      BY <2>2
    <3> QED
      BY <1>1, <1>2, <2>3, <2>4, <3>1, SameMachine DEF WalkAt, InBus
  <2>6. \A p \in Expected : p[1] = walk.entry =>
           (Offset(walk.entry, p[2]) < Offset(walk.entry, NextBus(walk.bus))
              <=> Offset(walk.entry, p[2]) < Offset(walk.entry, walk.bus) \/ p[2] = walk.bus)
    <3> SUFFICES ASSUME NEW p \in Expected
                 PROVE  Offset(walk.entry, p[2]) < Offset(walk.entry, NextBus(walk.bus))
                          <=> Offset(walk.entry, p[2]) < Offset(walk.entry, walk.bus) \/ p[2] = walk.bus
      OBVIOUS
    <3>1. p[2] \in 0 .. BusNumbers - 1
      BY EntryHere
    <3>2. Offset(walk.entry, p[2]) \in Nat /\ (Offset(walk.entry, walk.bus) = Offset(walk.entry, p[2]) => walk.bus = p[2])
      BY <1>2, <3>1, Offsets
    <3> QED
      BY <2>2, <3>2
  <2>7. \A p \in Expected : p[3] < DevicesPerBus
    BY <1>3, EntryHere
  <2>8. \A p \in Expected : Passed(p)' <=> Passed(p)
    BY <1>1, <1>4, <2>3, <2>6, <2>7, SameMachine DEF Passed
  <2> QED
    BY <2>5, <2>8
<1>5. CASE walk.device # DevicesPerBus
  <2>1. walk' = [walk EXCEPT !.at = "functions"]
    BY <1>5 DEF WalkDevice
  <2>2. /\ walk'.at = "functions" /\ walk'.entry = walk.entry /\ walk'.bus = walk.bus
        /\ walk'.device = walk.device
    BY <1>1, <2>1 DEF WalkTypes
  <2>3. WalkTypes'
    <3>1. walk' \in [at : InBus \cup {"entry", "bus", "done"}, entry : 1 .. Len(machine.mcfg) + 1,
                     bus : 0 .. BusNumbers - 1, device : 0 .. DevicesPerBus,
                     function : 0 .. FunctionsPerDevice, functions : 0 .. FunctionsPerDevice]
      BY <1>1, <2>1 DEF WalkTypes, InBus
    <3> QED
      BY <1>1, <3>1 DEF WalkTypes
  <2>4. walk.device < DevicesPerBus
    BY <1>1, <1>3, <1>5, Fields4
  <2>5. WalkAt'
    BY <1>1, <1>2, <2>2, <2>3, <2>4 DEF WalkAt, InBus, Buses
  <2>6. \A p \in Expected : Passed(p)' <=> Passed(p)
    BY <1>1, <2>2, SameMachine DEF Passed
  <2> QED
    BY <2>5, <2>6
<1> QED
  BY <1>4, <1>5

(* The functions of a device begin.                                         *)
LEMMA FunctionsPass ==
  ASSUME machine \in Machines, WalkAt, WalkFunctions
  PROVE  WalkAt' /\ \A p \in Expected : Passed(p)' <=> Passed(p)
<1> DEFINE here == Header(DeviceHere)
<1>1. walk.at = "functions" /\ machine' = machine /\ WalkTypes
  BY DEF WalkFunctions, WalkAt
<1>2. /\ walk.entry \in 1 .. Len(machine.mcfg) /\ Len(machine.mcfg) \in Nat
      /\ walk.bus \in Buses(machine.mcfg[walk.entry]) /\ walk.device < DevicesPerBus
  <2>1. walk.bus \in Buses(machine.mcfg[walk.entry]) /\ walk.device < DevicesPerBus
    BY <1>1 DEF WalkAt, InBus
  <2> QED
    BY <1>1, <2>1, EntryHere
<1>3. PICK n \in 1 .. FunctionsPerDevice : n = FunctionsOf(here)
  BY WalkAssumption DEF FunctionsOf
<1>4. walk' = [walk EXCEPT !.at = "function", !.function = 0, !.functions = n]
  BY <1>3 DEF WalkFunctions
<1>5. /\ walk'.at = "function" /\ walk'.entry = walk.entry /\ walk'.bus = walk.bus
      /\ walk'.device = walk.device /\ walk'.function = 0 /\ walk'.functions = n
  BY <1>1, <1>4 DEF WalkTypes
<1>6. WalkTypes'
  <2>1. walk' \in [at : InBus \cup {"entry", "bus", "done"}, entry : 1 .. Len(machine.mcfg) + 1,
                   bus : 0 .. BusNumbers - 1, device : 0 .. DevicesPerBus,
                   function : 0 .. FunctionsPerDevice, functions : 0 .. FunctionsPerDevice]
    <3>1. 0 \in 0 .. FunctionsPerDevice /\ n \in 0 .. FunctionsPerDevice
      BY <1>3, WalkAssumption
    <3> QED
      BY <1>1, <1>4, <3>1 DEF WalkTypes, InBus
  <2> QED
    BY <1>1, <2>1 DEF WalkTypes
<1>7. Header(DeviceHere)' = here
  BY <1>1, <1>5 DEF DeviceHere, Header, DevicePage, BusPage
<1>8. WalkAt'
  <2>1. n = FunctionsOf(Header(DeviceHere))' /\ 0 <= n
    BY <1>3, <1>7, WalkAssumption DEF FunctionsOf
  <2> QED
    BY <1>1, <1>2, <1>5, <1>6, <2>1 DEF WalkAt, InBus, Buses, FunctionsOf
<1>9. \A p \in Expected : ~(p[4] < 0)
  BY EntryHere, WalkAssumption
<1>10. \A p \in Expected : Passed(p)' <=> Passed(p)
  BY <1>1, <1>5, <1>9, SameMachine DEF Passed
<1> QED
  BY <1>8, <1>10

(* A function of the device, or the next device.                            *)
LEMMA FunctionPasses ==
  ASSUME machine \in Machines, WalkAt, WalkFunction
  PROVE  WalkAt' /\ \A p \in Expected : Passed(p)' <=> Passed(p)
<1>1. walk.at = "function" /\ machine' = machine /\ WalkTypes
  BY DEF WalkFunction, WalkAt
<1>2. /\ walk.entry \in 1 .. Len(machine.mcfg) /\ Len(machine.mcfg) \in Nat
      /\ walk.bus \in Buses(machine.mcfg[walk.entry]) /\ walk.device < DevicesPerBus
      /\ walk.functions = FunctionsOf(Header(DeviceHere)) /\ walk.function <= walk.functions
  <2>1. /\ walk.bus \in Buses(machine.mcfg[walk.entry]) /\ walk.device < DevicesPerBus
        /\ walk.functions = FunctionsOf(Header(DeviceHere)) /\ walk.function <= walk.functions
    BY <1>1 DEF WalkAt, InBus
  <2> QED
    BY <1>1, <2>1, EntryHere
<1>3. /\ DevicesPerBus \in Nat \ {0} /\ FunctionsPerDevice \in Nat \ {0}
      /\ walk.device \in Nat /\ walk.function \in Nat /\ walk.functions \in Nat
  BY <1>1, Fields4, WalkAssumption
<1>4. CASE walk.function = walk.functions
  <2>1. walk' = [walk EXCEPT !.at = "device", !.device = walk.device + 1]
    BY <1>4 DEF WalkFunction
  <2>2. /\ walk'.at = "device" /\ walk'.entry = walk.entry /\ walk'.bus = walk.bus
        /\ walk'.device = walk.device + 1
    BY <1>1, <2>1 DEF WalkTypes
  <2>3. WalkTypes'
    <3>1. walk.device + 1 \in 0 .. DevicesPerBus
      BY <1>2, <1>3
    <3>2. walk' \in [at : InBus \cup {"entry", "bus", "done"}, entry : 1 .. Len(machine.mcfg) + 1,
                     bus : 0 .. BusNumbers - 1, device : 0 .. DevicesPerBus,
                     function : 0 .. FunctionsPerDevice, functions : 0 .. FunctionsPerDevice]
      BY <1>1, <2>1, <3>1 DEF WalkTypes, InBus
    <3> QED
      BY <1>1, <3>2 DEF WalkTypes
  <2>4. WalkAt'
    BY <1>1, <1>2, <2>2, <2>3 DEF WalkAt, InBus, Buses
  <2>5. ASSUME NEW p \in Expected, p[1] = walk.entry, p[2] = walk.bus
        PROVE  p[3] < walk.device + 1 <=>
                  p[3] < walk.device \/ (p[3] = walk.device /\ p[4] < walk.function)
    <3>1. p[3] \in Nat /\ p[4] \in 0 .. FunctionsPerDevice - 1
      BY EntryHere
    <3>2. ASSUME p[3] = walk.device PROVE p[4] < walk.function
      <4>1. p[4] = 0 \/ Header(DeviceHere).multi
        BY <2>5, <3>2, Places4 DEF DeviceHere
      <4> QED
        BY <1>2, <1>3, <1>4, <3>1, <4>1 DEF FunctionsOf
    <3> QED
      BY <1>3, <3>1, <3>2
  <2>6. \A p \in Expected : Passed(p)' <=> Passed(p)
    BY <1>1, <2>2, <2>5, SameMachine DEF Passed
  <2> QED
    BY <2>4, <2>6
<1>5. CASE walk.function # walk.functions
  <2>1. walk' = [walk EXCEPT !.at = "body"]
    BY <1>5 DEF WalkFunction
  <2>2. /\ walk'.at = "body" /\ walk'.entry = walk.entry /\ walk'.bus = walk.bus
        /\ walk'.device = walk.device /\ walk'.function = walk.function /\ walk'.functions = walk.functions
    BY <1>1, <2>1 DEF WalkTypes
  <2>3. WalkTypes'
    <3>1. walk' \in [at : InBus \cup {"entry", "bus", "done"}, entry : 1 .. Len(machine.mcfg) + 1,
                     bus : 0 .. BusNumbers - 1, device : 0 .. DevicesPerBus,
                     function : 0 .. FunctionsPerDevice, functions : 0 .. FunctionsPerDevice]
      BY <1>1, <2>1 DEF WalkTypes, InBus
    <3> QED
      BY <1>1, <3>1 DEF WalkTypes
  <2>4. Header(DeviceHere)' = Header(DeviceHere)
    BY <1>1, <2>2 DEF DeviceHere, Header, DevicePage, BusPage
  <2>5. walk.function < walk.functions
    BY <1>2, <1>3, <1>5
  <2>6. FunctionsOf(Header(DeviceHere))' = FunctionsOf(Header(DeviceHere))
    BY <2>4 DEF FunctionsOf
  <2>7. WalkAt'
    BY <1>1, <1>2, <2>2, <2>3, <2>5, <2>6 DEF WalkAt, InBus, Buses
  <2>8. \A p \in Expected : Passed(p)' <=> Passed(p)
    BY <1>1, <2>2, SameMachine DEF Passed
  <2> QED
    BY <2>7, <2>8
<1> QED
  BY <1>4, <1>5

(* The loop body looks at a place that is to be looked at and has not been.  *)
LEMMA BodyPasses ==
  ASSUME machine \in Machines, WalkAt, Body
  PROVE  /\ WalkAt'
         /\ Place \in Expected /\ ~Passed(Place)
         /\ \A p \in Expected : Passed(p)' <=> Passed(p) \/ p = Place
<1>1. walk.at = "body" /\ machine' = machine /\ WalkTypes
  BY DEF Body, WalkAt
<1>2. /\ walk.entry \in 1 .. Len(machine.mcfg) /\ Len(machine.mcfg) \in Nat
      /\ walk.bus \in 0 .. BusNumbers - 1
      /\ walk.bus \in Buses(machine.mcfg[walk.entry]) /\ walk.device < DevicesPerBus
      /\ walk.functions = FunctionsOf(Header(DeviceHere)) /\ walk.function < walk.functions
  <2>1. /\ walk.bus \in Buses(machine.mcfg[walk.entry]) /\ walk.device < DevicesPerBus
        /\ walk.functions = FunctionsOf(Header(DeviceHere)) /\ walk.function < walk.functions
    BY <1>1 DEF WalkAt, InBus
  <2> QED
    BY <1>1, <2>1, EntryHere
<1>3. /\ DevicesPerBus \in Nat \ {0} /\ FunctionsPerDevice \in Nat \ {0}
      /\ walk.device \in Nat /\ walk.function \in Nat /\ walk.functions \in 0 .. FunctionsPerDevice
  BY <1>1, Fields4, WalkAssumption
<1>4. /\ walk' = [walk EXCEPT !.at = "function", !.function = walk.function + 1]
  BY DEF Body
<1>5. /\ walk'.at = "function" /\ walk'.entry = walk.entry /\ walk'.bus = walk.bus
      /\ walk'.device = walk.device /\ walk'.function = walk.function + 1 /\ walk'.functions = walk.functions
  BY <1>1, <1>4 DEF WalkTypes
<1>6. WalkAt'
  <2>1. walk.function + 1 \in 0 .. FunctionsPerDevice /\ walk.function + 1 <= walk.functions
    BY <1>2, <1>3
  <2>2. walk' \in [at : InBus \cup {"entry", "bus", "done"}, entry : 1 .. Len(machine.mcfg) + 1,
                   bus : 0 .. BusNumbers - 1, device : 0 .. DevicesPerBus,
                   function : 0 .. FunctionsPerDevice, functions : 0 .. FunctionsPerDevice]
    BY <1>1, <1>4, <2>1 DEF WalkTypes, InBus
  <2>3. WalkTypes'
    BY <1>1, <2>2 DEF WalkTypes
  <2>4. Header(DeviceHere)' = Header(DeviceHere)
    BY <1>1, <1>5 DEF DeviceHere, Header, DevicePage, BusPage
  <2>5. FunctionsOf(Header(DeviceHere))' = FunctionsOf(Header(DeviceHere))
    BY <2>4 DEF FunctionsOf
  <2> QED
    BY <1>1, <1>2, <1>5, <2>1, <2>3, <2>5 DEF WalkAt, InBus, Buses
<1>7. Place \in Expected
  <2>1. walk.device \in 0 .. DevicesPerBus - 1 /\ walk.function \in 0 .. FunctionsPerDevice - 1
    BY <1>2, <1>3
  <2>2. walk.function = 0 \/ Header(DevicePage(walk.entry, walk.bus, walk.device)).multi
    BY <1>2, <1>3 DEF FunctionsOf, DeviceHere
  <2>3. walk.entry \in DOMAIN machine.mcfg
    BY <1>2, Entries
  <2> QED
    BY <1>2, <2>1, <2>2, <2>3, Expects DEF Place
<1>8. /\ Place[1] = walk.entry /\ Place[2] = walk.bus /\ Place[3] = walk.device /\ Place[4] = walk.function
  BY DEF Place
<1>9. ~Passed(Place)
  <2>1. Offset(walk.entry, walk.bus) \in Nat
    BY <1>2, Offsets
  <2> QED
    BY <1>2, <1>3, <1>8, <2>1 DEF Passed
<1>10. ASSUME NEW p \in Expected PROVE Passed(p)' <=> Passed(p) \/ p = Place
  <2>1. p[3] \in Nat /\ p[4] \in Nat /\ p = <<p[1], p[2], p[3], p[4]>>
    BY EntryHere, Places4
  <2>2. p = Place <=> p[1] = walk.entry /\ p[2] = walk.bus /\ p[3] = walk.device /\ p[4] = walk.function
    BY <1>8, <2>1 DEF Place
  <2>3. p[4] < walk.function + 1 <=> p[4] < walk.function \/ p[4] = walk.function
    BY <1>3, <2>1
  <2>4. Passed(p)' <=> \/ p[1] < walk.entry
                      \/ /\ p[1] = walk.entry
                         /\ \/ Offset(walk.entry, p[2]) < Offset(walk.entry, walk.bus)
                            \/ /\ p[2] = walk.bus
                               /\ \/ p[3] < walk.device
                                  \/ p[3] = walk.device /\ (p[4] < walk.function \/ p[4] = walk.function)
    BY <1>1, <1>5, <2>3, SameMachine DEF Passed
  <2>5. Passed(p) <=> \/ p[1] < walk.entry
                     \/ /\ p[1] = walk.entry
                        /\ \/ Offset(walk.entry, p[2]) < Offset(walk.entry, walk.bus)
                           \/ /\ p[2] = walk.bus
                              /\ p[3] < walk.device \/ (p[3] = walk.device /\ p[4] < walk.function)
    BY <1>1 DEF Passed
  <2> QED
    BY <2>2, <2>4, <2>5
<1> QED
  BY <1>6, <1>7, <1>9, <1>10

(* Before the walks kmain has not looked at any function.                   *)
Setting == Before \cup {"information", "memmap", "efi", "efi_vendor", "rsdp", "revision", "find"}

(* find_ahci with the loop over the ports of a controller.                  *)
Scanning == {"find_ahci", "port", "buffer"}

(* The steps, as far as the walks tell them apart.                          *)
Aside == /\ UNCHANGED <<walk, visited, listed, found>>
         /\ \/ pc' = pc
            \/ pc' \in Ends \cup {"int69"}
            \/ pc \in Setting /\ pc' \in Setting \cup {"print_mcfg"}
            \/ pc \in Scanning /\ pc' \in Scanning

LEMMA WalkKinds ==
  ASSUME Base, [Next]_vars
  PROVE  Aside \/ Walk \/ PrintFunction \/ ScanFunction \/ WalkEnds
<1>r. ASSUME NEW v, NEW info, Raise(v, info)
      PROVE  pc' \in Ends
  BY <1>r, Raised DEF Ends
<1>p. PageFaults => Aside
  BY <1>r DEF PageFaults, Aside, pci
<1>1. CASE UNCHANGED vars \/ UartShift
  BY <1>1 DEF vars, UartShift, Aside, pci
<1>2. CASE Exception \/ Int69
  BY <1>2, <1>r DEF Exception, Int69, Aside, pci
<1>3. CASE Printing \/ PanicHalts \/ Flush
  BY <1>3, <1>p DEF Printing, WriteSerial, WriteScreen, NoGlyph, PanicHalts, Flush, Goto, Aside, pci, Ends
<1>4. CASE Boot
  BY <1>4, <1>p DEF Boot, SerialSetup, SerialTest, LoadTables, CheckResponse, InitializeMemory, GrowHeap, HeapFaults,
    RetryForEver, LoseHeap, HeapGrowing, InitializeRenderer, Goto, At, Error, Aside, pci, Setting, Before, MemorySetup,
    Ends
<1>8. CASE Disks
  BY <1>8, <1>p DEF Disks, SkipPort, InitializePort, ReadPort, PortFaults, LeaveController, AtPort, Initializes,
    Goto, At, Aside, pci, Scanning
<1>5. CASE Information
  BY <1>5, <1>p DEF Information, PrintBootloader, PrintRegion, NoTypeString, PrintTotal, PrintEfiTable,
    PrintEfiVendor, EfiVendorFaults, Goto, At, Aside, pci, Setting
<1>6. CASE Tables
  BY <1>6, <1>p DEF Tables, MapRsdp, MapRoot, UnsupportedRevision, FindTable, NoMcfg, AcpiFaults, UnchangedBut,
    Error, Goto, At, Aside, pci, Setting
<1>7. CASE WalkPageFaults \/ ControllerFaults
  BY <1>7, <1>p DEF WalkPageFaults, ControllerFaults
<1> QED
  BY <1>1, <1>2, <1>3, <1>4, <1>5, <1>6, <1>7, <1>8 DEF Next, Kmain, Devices

(* What both walks have looked at is what they have passed, each place once. *)
Visited ==
  /\ visited \in Seq(Expected)
  /\ \A p \in Expected : p \in Range(visited) <=> Passed(p)
  /\ \A i, j \in 1 .. Len(visited) : visited[i] = visited[j] => i = j

(* At the beginning nothing is passed, at the end everything.               *)
LEMMA WalkBegins ==
  ASSUME machine \in Machines, walk = WalkStart
  PROVE  WalkAt /\ \A p \in Expected : ~Passed(p)
<1>1. walk = [at |-> "entry", entry |-> 1, bus |-> 0, device |-> 0, function |-> 0, functions |-> 0]
  BY DEF WalkStart
<1>2. Len(machine.mcfg) \in Nat
  BY Entries
<1>3. WalkTypes
  <2>1. 0 \in 0 .. BusNumbers - 1 /\ 0 \in 0 .. DevicesPerBus /\ 0 \in 0 .. FunctionsPerDevice
    BY WalkAssumption
  <2>2. 1 \in 1 .. Len(machine.mcfg) + 1
    BY <1>2
  <2> QED
    BY <1>1, <2>1, <2>2 DEF WalkTypes
<1>4. WalkAt
  BY <1>1, <1>3 DEF WalkAt, InBus
<1>5. ASSUME NEW p \in Expected PROVE ~Passed(p)
  <2>1. p[1] \in Nat \ {0}
    <3>1. p[1] \in 1 .. Len(machine.mcfg)
      BY Places4, Entries
    <3> QED
      BY <1>2, <3>1
  <2> QED
    BY <1>1, <2>1 DEF Passed
<1> QED
  BY <1>4, <1>5

LEMMA WalkDone ==
  ASSUME machine \in Machines, WalkAt, walk.at = "done"
  PROVE  \A p \in Expected : Passed(p)
<1>1. walk.entry = Len(machine.mcfg) + 1
  BY DEF WalkAt
<1> QED
  BY <1>1, EntryHere DEF Passed

LEMMA WalkMoves ==
  ASSUME machine \in Machines, WalkAt, Walk
  PROVE  WalkAt' /\ \A p \in Expected : Passed(p)' <=> Passed(p)
BY EntryPasses, BusPasses, DevicePasses, FunctionsPass, FunctionPasses DEF Walk, Step

(* Nothing of what a walk has done depends on more than its variables.      *)
LEMMA SameWalk ==
  ASSUME machine' = machine, walk' = walk
  PROVE  /\ WalkAt => WalkAt'
         /\ \A p : Passed(p)' <=> Passed(p)
<1>1. \A p : Passed(p)' <=> Passed(p)
  BY SameMachine DEF Passed
<1>2. WalkTypes => WalkTypes'
  BY DEF WalkTypes
<1>3. WalkAt => WalkAt'
  BY <1>2, SameMachine DEF WalkAt, DeviceHere, FunctionsOf, Buses
<1> QED
  BY <1>1, <1>3

(* What is in a sequence behind an Append.                                  *)
IsOneMore(S, s, x, t) ==
  /\ t \in Seq(S) /\ Len(t) = Len(s) + 1 /\ t[Len(s) + 1] = x
  /\ \A i \in 1 .. Len(s) : t[i] = s[i]
  /\ \A y : y \in Range(t) <=> y \in Range(s) \/ y = x

LEMMA OneMore ==
  ASSUME NEW S, NEW s \in Seq(S), NEW x \in S
  PROVE  IsOneMore(S, s, x, Append(s, x))
<1> DEFINE t == Append(s, x)
<1>1. /\ t \in Seq(S) /\ Len(t) = Len(s) + 1 /\ t[Len(s) + 1] = x
      /\ \A i \in 1 .. Len(s) : t[i] = s[i]
  OBVIOUS
<1> HIDE DEF t
<1>2. /\ DOMAIN s = 1 .. Len(s) /\ DOMAIN t = 1 .. Len(t) /\ Len(s) \in Nat
  BY <1>1
<1>3. \A i \in 1 .. Len(t) : i \in 1 .. Len(s) \/ i = Len(s) + 1
  BY <1>1, <1>2
<1>4. \A i \in 1 .. Len(s) : i \in 1 .. Len(t)
  BY <1>1, <1>2
<1>5. Len(s) + 1 \in 1 .. Len(t)
  BY <1>1, <1>2
<1>6. ASSUME NEW y PROVE y \in Range(t) <=> y \in Range(s) \/ y = x
  BY <1>1, <1>2, <1>3, <1>4, <1>5 DEF Range
<1> QED
  BY <1>1, <1>6 DEF IsOneMore, t

LEMMA VisitedHolds ==
  ASSUME Base, WalkAt, Visited, [Next]_vars
  PROVE  WalkAt' /\ Visited'
<1>m. machine' = machine /\ machine \in Machines
  BY LoopVariable DEF Base
<1>e. Expected' = Expected
  BY <1>m, SameMachine
<1>1. CASE Aside
  BY <1>1, <1>m, <1>e, SameWalk DEF Aside, Visited
<1>2. CASE Walk
  <2>1. WalkAt' /\ \A p \in Expected : Passed(p)' <=> Passed(p)
    BY <1>m, <1>2, WalkMoves
  <2>2. visited' = visited
    BY <1>2 DEF Walk, Step, WalkEntry, WalkBus, WalkDevice, WalkFunctions, WalkFunction
  <2> QED
    BY <1>e, <2>1, <2>2 DEF Visited
<1>3. CASE PrintFunction \/ ScanFunction
  <2>1. Body /\ visited' = Append(visited, Place)
    BY <1>3 DEF PrintFunction, ScanFunction, Body, Place
  <2>2. /\ WalkAt' /\ Place \in Expected /\ ~Passed(Place)
        /\ \A p \in Expected : Passed(p)' <=> Passed(p) \/ p = Place
    BY <1>m, <2>1, BodyPasses
  <2>3. /\ visited' \in Seq(Expected) /\ Len(visited') = Len(visited) + 1
        /\ visited'[Len(visited) + 1] = Place
        /\ \A i \in 1 .. Len(visited) : visited'[i] = visited[i]
        /\ \A y : y \in Range(visited') <=> y \in Range(visited) \/ y = Place
    <3>1. visited \in Seq(Expected) /\ Place \in Expected /\ visited' = Append(visited, Place)
      BY <2>1, <2>2 DEF Visited
    <3>2. IsOneMore(Expected, visited, Place, visited')
      BY <3>1, OneMore
    <3> QED
      BY <3>2 DEF IsOneMore
  <2>4. \A i \in 1 .. Len(visited) : visited[i] # Place
    <3>1. Place \notin Range(visited)
      BY <2>2 DEF Visited
    <3>2. DOMAIN visited = 1 .. Len(visited)
      BY DEF Visited
    <3> QED
      BY <3>1, <3>2 DEF Range
  <2>5. \A i \in 1 .. Len(visited') : i \in 1 .. Len(visited) \/ i = Len(visited) + 1
    BY <2>3 DEF Visited
  <2>6. ASSUME NEW i \in 1 .. Len(visited'), NEW j \in 1 .. Len(visited'), visited'[i] = visited'[j]
        PROVE  i = j
    BY <2>3, <2>4, <2>5, <2>6 DEF Visited
  <2> QED
    BY <1>e, <2>2, <2>3, <2>6 DEF Visited
<1>4. CASE WalkEnds
  <2>1. CASE pc = "print_mcfg"
    <3>1. walk' = WalkStart /\ visited' = <<>>
      BY <1>4, <2>1 DEF WalkEnds
    <3>2. WalkAt' /\ \A p \in Expected : ~Passed(p)'
      <4>1. (machine \in Machines /\ walk = WalkStart => WalkAt /\ \A p \in Expected : ~Passed(p))'
        BY WalkBegins, PTL
      <4> QED
        BY <1>m, <1>e, <3>1, <4>1 DEF WalkStart
    <3>3. /\ visited' \in Seq(Expected) /\ Len(visited') = 0 /\ \A y : y \notin Range(visited')
      <4>1. <<>> \in Seq(Expected) /\ Len(<<>>) = 0 /\ DOMAIN <<>> = {}
        OBVIOUS
      <4> QED
        BY <3>1, <4>1 DEF Range
    <3> QED
      BY <1>e, <3>2, <3>3 DEF Visited
  <2>2. CASE pc # "print_mcfg"
    <3>1. UNCHANGED <<walk, visited>>
      BY <1>4, <2>2 DEF WalkEnds
    <3> QED
      BY <1>m, <1>e, <3>1, SameWalk DEF Visited
  <2> QED
    BY <2>1, <2>2
<1> QED
  BY <1>1, <1>2, <1>3, <1>4, WalkKinds

(* Different places make as many as there are.                              *)
LEMMA Different ==
  ASSUME NEW S, NEW s \in Seq(S), \A i, j \in 1 .. Len(s) : s[i] = s[j] => i = j
  PROVE  Cardinality(Range(s)) = Len(s)
<1>1. Len(s) \in Nat /\ DOMAIN s = 1 .. Len(s) /\ s \in [1 .. Len(s) -> S]
  OBVIOUS
<1>2. s \in [1 .. Len(s) -> Range(s)] /\ \A y \in Range(s) : \E i \in 1 .. Len(s) : s[i] = y
  BY <1>1 DEF Range
<1>3. ExistsBijection(1 .. Len(s), Range(s))
  <2>1. s \in Surjection(1 .. Len(s), Range(s))
    BY <1>2 DEF Surjection
  <2>2. s \in Injection(1 .. Len(s), Range(s))
    BY <1>1, <1>2 DEF Injection, IsInjective
  <2> QED
    BY <2>1, <2>2 DEF ExistsBijection, Bijection
<1>4. IsFiniteSet(1 .. Len(s)) /\ Cardinality(1 .. Len(s)) = Len(s)
  BY <1>1, FS_Interval
<1> QED
  BY <1>3, <1>4, FS_Bijection

(* The controllers among the listed functions, one function at a time.      *)
Among(i, before) == IF IsAhci(HeaderAt(listed[i])) THEN Append(before, listed[i]) ELSE before
IsAmong(f, n) == f = [i \in 0 .. n |-> IF i = 0 THEN <<>> ELSE Among(i, f[i - 1])]

(* The recursion has a solution, for any number of functions.               *)
LEMMA AmongExists ==
  ASSUME NEW n \in Nat
  PROVE  \E f : IsAmong(f, n)
<1> DEFINE S == {m \in Nat : \E f : IsAmong(f, m)}
<1>1. 0 \in S
  <2> DEFINE f == [i \in 0 .. 0 |-> <<>>]
  <2>1. f = [i \in 0 .. 0 |-> IF i = 0 THEN <<>> ELSE Among(i, f[i - 1])]
    OBVIOUS
  <2> HIDE DEF f
  <2> QED
    BY <2>1 DEF IsAmong
<1>2. ASSUME NEW m \in Nat, m \in S PROVE m + 1 \in S
  <2>1. PICK f : f = [i \in 0 .. m |-> IF i = 0 THEN <<>> ELSE Among(i, f[i - 1])]
    BY <1>2 DEF IsAmong
  <2> DEFINE g == [i \in 0 .. m + 1 |-> IF i = m + 1 THEN Among(m + 1, f[m]) ELSE f[i]]
             h == [i \in 0 .. m + 1 |-> IF i = 0 THEN <<>> ELSE Among(i, g[i - 1])]
  <2>2. ASSUME NEW i \in 0 .. m + 1 PROVE g[i] = h[i]
    <3>1. CASE i = 0
      <4>1. g[i] = f[0] /\ h[i] = <<>>
        BY <3>1
      <4> QED
        BY <2>1, <4>1
    <3>2. CASE i \in 1 .. m
      <4>1. g[i] = f[i] /\ g[i - 1] = f[i - 1] /\ h[i] = Among(i, g[i - 1])
        BY <3>2
      <4>2. f[i] = Among(i, f[i - 1])
        BY <2>1, <3>2
      <4> QED
        BY <4>1, <4>2
    <3>3. CASE i = m + 1
      <4>1. g[i] = Among(m + 1, f[m]) /\ g[i - 1] = f[m] /\ h[i] = Among(i, g[i - 1])
        BY <3>3
      <4> QED
        BY <3>3, <4>1
    <3> QED
      BY <3>1, <3>2, <3>3
  <2>3. g = h
    <3>1. DOMAIN g = 0 .. m + 1 /\ DOMAIN h = 0 .. m + 1
      OBVIOUS
    <3>2. g = [i \in 0 .. m + 1 |-> g[i]] /\ h = [i \in 0 .. m + 1 |-> h[i]]
      OBVIOUS
    <3> HIDE DEF g, h
    <3> QED
      BY <2>2, <3>2
  <2>4. g = [i \in 0 .. m + 1 |-> IF i = 0 THEN <<>> ELSE Among(i, g[i - 1])]
    BY <2>3
  <2> HIDE DEF g
  <2> QED
    BY <2>4 DEF IsAmong
<1> HIDE DEF S
<1>3. Nat \subseteq S
  BY <1>1, <1>2, Induction
<1> QED
  BY <1>3 DEF S

LEMMA AmongListed ==
  ASSUME NEW S, listed \in Seq(S)
  PROVE  /\ AhciUpTo[0] = <<>>
         /\ \A i \in 1 .. Len(listed) : AhciUpTo[i] = Among(i, AhciUpTo[i - 1])
<1>1. Len(listed) \in Nat
  OBVIOUS
<1>2. AhciUpTo = CHOOSE f : IsAmong(f, Len(listed))
  BY DEF AhciUpTo, IsAmong, Among
<1>3. IsAmong(AhciUpTo, Len(listed))
  BY <1>1, <1>2, AmongExists
<1>4. AhciUpTo = [i \in 0 .. Len(listed) |-> IF i = 0 THEN <<>> ELSE Among(i, AhciUpTo[i - 1])]
  BY <1>3 DEF IsAmong
<1>5. 0 \in 0 .. Len(listed) /\ \A i \in 1 .. Len(listed) : i \in 0 .. Len(listed) /\ i # 0
  BY <1>1
<1> QED
  BY <1>4, <1>5

Recursion ==
  \A S : listed \in Seq(S) => /\ AhciUpTo[0] = <<>>
                               /\ \A n \in 1 .. Len(listed) : AhciUpTo[n] = Among(n, AhciUpTo[n - 1])

LEMMA RecursionHolds == Recursion
BY AmongListed DEF Recursion

LEMMA AmongSequences ==
  ASSUME NEW S, listed \in Seq(S), NEW i \in 0 .. Len(listed)
  PROVE  AhciUpTo[i] \in Seq(S)
<1> DEFINE T == {n \in Nat : n <= Len(listed) => AhciUpTo[n] \in Seq(S)}
<1>1. 0 \in T
  <2>1. <<>> \in Seq(S)
    OBVIOUS
  <2> QED
    BY <2>1, AmongListed
<1>2. ASSUME NEW n \in Nat, n \in T PROVE n + 1 \in T
  <2> SUFFICES ASSUME n + 1 <= Len(listed) PROVE AhciUpTo[n + 1] \in Seq(S)
    OBVIOUS
  <2>1. n + 1 \in 1 .. Len(listed) /\ AhciUpTo[n] \in Seq(S) /\ (n + 1) - 1 = n
    BY <1>2
  <2>2. AhciUpTo[n + 1] = Among(n + 1, AhciUpTo[n])
    BY <2>1, AmongListed
  <2>3. listed[n + 1] \in S
    BY <2>1
  <2> QED
    BY <2>1, <2>2, <2>3 DEF Among
<1> HIDE DEF T
<1>3. Nat \subseteq T
  BY <1>1, <1>2, Induction
<1>4. i \in T
  BY <1>3
<1> QED
  BY <1>4 DEF T

(* One sequence begins with another.                                        *)
Begins(s, t) == Len(s) <= Len(t) /\ \A i \in 1 .. Len(s) : s[i] = t[i]

LEMMA AmongBegin ==
  ASSUME NEW S, listed \in Seq(S), NEW j \in 0 .. Len(listed), NEW k \in 0 .. j
  PROVE  Begins(AhciUpTo[k], AhciUpTo[j])
<1> DEFINE T == {d \in Nat : k + d <= Len(listed) => Begins(AhciUpTo[k], AhciUpTo[k + d])}
<1>0. ASSUME NEW n \in 0 .. Len(listed) PROVE AhciUpTo[n] \in Seq(S) /\ Len(AhciUpTo[n]) \in Nat
  <2>1. AhciUpTo[n] \in Seq(S)
    BY AmongSequences
  <2> QED
    BY <2>1
<1>1. 0 \in T
  BY <1>0 DEF Begins
<1>2. ASSUME NEW d \in Nat, d \in T PROVE d + 1 \in T
  <2> SUFFICES ASSUME k + (d + 1) <= Len(listed) PROVE Begins(AhciUpTo[k], AhciUpTo[k + (d + 1)])
    OBVIOUS
  <2> DEFINE m == k + d
  <2>1. m \in 0 .. Len(listed) /\ m + 1 \in 1 .. Len(listed) /\ k + (d + 1) = m + 1 /\ (m + 1) - 1 = m
    OBVIOUS
  <2>2. Begins(AhciUpTo[k], AhciUpTo[m])
    BY <1>2, <2>1
  <2> HIDE DEF m
  <2>3. AhciUpTo[m + 1] = Among(m + 1, AhciUpTo[m])
    BY <2>1, AmongListed
  <2>4. AhciUpTo[m] \in Seq(S) /\ AhciUpTo[k] \in Seq(S) /\ Len(AhciUpTo[k]) \in Nat
    BY <1>0, <2>1
  <2>5. listed[m + 1] \in S
    BY <2>1
  <2> DEFINE a == AhciUpTo[m]
             b == AhciUpTo[m + 1]
             c == AhciUpTo[k]
  <2>6. b = a \/ b = Append(a, listed[m + 1])
    BY <2>3 DEF Among
  <2>7. a \in Seq(S) /\ Begins(c, a) /\ Len(c) \in Nat
    BY <2>2, <2>4
  <2> HIDE DEF a, b, c
  <2>8. Begins(c, b)
    <3>1. CASE b = a
      BY <2>7, <3>1
    <3>2. CASE b = Append(a, listed[m + 1])
      <4>1. Len(b) = Len(a) + 1 /\ \A i \in 1 .. Len(a) : b[i] = a[i]
        BY <2>5, <2>7, <3>2
      <4>2. Len(a) \in Nat
        BY <2>7
      <4> QED
        BY <2>7, <4>1, <4>2 DEF Begins
    <3> QED
      BY <2>6, <3>1, <3>2
  <2> QED
    BY <2>1, <2>8 DEF b, c
<1> HIDE DEF T
<1>3. Nat \subseteq T
  BY <1>1, <1>2, Induction
<1>4. j - k \in T /\ k + (j - k) = j
  BY <1>3
<1> QED
  BY <1>4 DEF T

(* Nothing of it depends on more than what is listed.                       *)
LEMMA SameListed ==
  ASSUME NEW S, listed \in Seq(S), listed' = listed, machine' = machine, NEW i \in 0 .. Len(listed)
  PROVE  AhciUpTo'[i] = AhciUpTo[i]
<1> DEFINE T == {n \in Nat : n <= Len(listed) => AhciUpTo'[n] = AhciUpTo[n]}
<1>a. /\ AhciUpTo[0] = <<>> /\ \A n \in 1 .. Len(listed) : AhciUpTo[n] = Among(n, AhciUpTo[n - 1])
  BY AmongListed
<1>b. /\ AhciUpTo'[0] = <<>> /\ \A n \in 1 .. Len(listed) : AhciUpTo'[n] = Among(n, AhciUpTo[n - 1])'
  <2>1. Recursion'
    BY RecursionHolds, PTL
  <2> QED
    BY <2>1 DEF Recursion
<1>c. ASSUME NEW n \in 1 .. Len(listed)
      PROVE  Among(n, AhciUpTo[n - 1])' = Among(n, AhciUpTo'[n - 1])
  BY DEF Among, HeaderAt, Header, FunctionPage, DevicePage, BusPage, IsAhci
<1>1. 0 \in T
  BY <1>a, <1>b
<1>2. ASSUME NEW n \in Nat, n \in T PROVE n + 1 \in T
  <2> SUFFICES ASSUME n + 1 <= Len(listed) PROVE AhciUpTo'[n + 1] = AhciUpTo[n + 1]
    OBVIOUS
  <2>1. n + 1 \in 1 .. Len(listed) /\ AhciUpTo'[n] = AhciUpTo[n] /\ (n + 1) - 1 = n
    BY <1>2
  <2> QED
    BY <1>a, <1>b, <1>c, <2>1
<1> HIDE DEF T
<1>3. Nat \subseteq T
  BY <1>1, <1>2, Induction
<1>4. i \in T
  BY <1>3
<1> QED
  BY <1>4 DEF T

(* The order of the walk.                                                   *)
Earlier(p, q) ==
  \/ p[1] < q[1]
  \/ /\ p[1] = q[1]
     /\ \/ Offset(q[1], p[2]) < Offset(q[1], q[2])
        \/ /\ p[2] = q[2]
           /\ p[3] < q[3] \/ (p[3] = q[3] /\ p[4] < q[4])

Sorted(s) == \A i, j \in 1 .. Len(s) : i < j => Earlier(s[i], s[j])

LEMMA NotEarlier ==
  ASSUME machine \in Machines, NEW p \in Expected
  PROVE  ~Earlier(p, p)
<1>1. /\ p[1] \in 1 .. Len(machine.mcfg) /\ p[2] \in 0 .. BusNumbers - 1
      /\ p[3] \in Nat /\ p[4] \in Nat
  <2>1. p[1] \in DOMAIN machine.mcfg /\ p[2] \in Buses(machine.mcfg[p[1]])
    BY Places4
  <2>2. p[1] \in 1 .. Len(machine.mcfg)
    BY <2>1, Entries
  <2>3. p[2] \in 0 .. BusNumbers - 1
    BY <2>1 DEF Buses
  <2>4. p[3] \in 0 .. DevicesPerBus - 1 /\ p[4] \in 0 .. FunctionsPerDevice - 1
    BY Places4
  <2>5. p[3] \in Nat /\ p[4] \in Nat
    BY <2>4, WalkAssumption
  <2> QED
    BY <2>2, <2>3, <2>5
<1>2. Offset(p[1], p[2]) \in Nat
  BY <1>1, Offsets
<1>3. p[1] \in Nat
  BY <1>1, Entries
<1> QED
  BY <1>1, <1>2, <1>3 DEF Earlier

(* At a place the walk has passed what is earlier.                          *)
LEMMA PassedHere ==
  ASSUME machine \in Machines, WalkAt, walk.at = "body", NEW p \in Expected
  PROVE  Passed(p) <=> Earlier(p, Place)
<1>1. /\ Place[1] = walk.entry /\ Place[2] = walk.bus /\ Place[3] = walk.device /\ Place[4] = walk.function
  BY DEF Place
<1> QED
  BY <1>1 DEF Passed, Earlier

(* The functions that print_mcfg lists and the controllers find_ahci scans,  *)
(* in the order of the walk.                                                *)
Ranked(k) == \A i \in 1 .. Len(listed) : Passed(listed[i]) <=> i <= k

Lists ==
  /\ listed \in Seq(Expected)
  /\ pc \in Setting => walk = WalkStart /\ visited = <<>> /\ listed = <<>> /\ found = <<>>
  /\ pc = "print_mcfg" =>
        /\ found = <<>> /\ Sorted(listed)
        /\ \A p \in Expected : p \in Range(listed) <=> Passed(p) /\ Answers(HeaderAt(p))
  /\ pc \in Scanning =>
        /\ Sorted(listed)
        /\ \A p \in Expected : p \in Range(listed) <=> Answers(HeaderAt(p))
  /\ \E k \in 0 .. Len(listed) : /\ found = AhciUpTo[k]
                                 /\ pc \in Scanning => Ranked(k)
                                 /\ pc = "flush" => k = Len(listed)

(* The header of a place, and that of the function in the loop body.        *)
LEMMA HeaderHere == Header(FunctionHere) = HeaderAt(Place)
BY DEF HeaderAt, Place, FunctionHere

LEMMA ControllersAnswer ==
  ASSUME machine \in Machines, NEW page, IsAhci(Header(page))
  PROVE  page \in DOMAIN machine.config /\ Answers(Header(page))
<1>1. page \in DOMAIN machine.config
  BY DEF Header, Absent, IsAhci
<1> QED
  BY <1>1, MachineAssumption DEF Header

(* What the lists say stays when nothing of them changes.                   *)
LEMMA ListsStay ==
  ASSUME machine \in Machines, Lists, machine' = machine, listed' = listed,
         \A p \in Expected : Passed(p)' <=> Passed(p)
  PROVE  /\ listed' \in Seq(Expected)'
         /\ Expected' = Expected /\ Len(listed') = Len(listed) /\ Len(listed) \in Nat
         /\ Sorted(listed) => Sorted(listed)'
         /\ \A p : HeaderAt(p)' = HeaderAt(p)
         /\ \A k \in 0 .. Len(listed) : /\ AhciUpTo'[k] = AhciUpTo[k]
                                        /\ Ranked(k) => Ranked(k)'
<1>1. Expected' = Expected /\ listed \in Seq(Expected) /\ Len(listed) \in Nat
  BY SameMachine DEF Lists
<1>2. Sorted(listed) => Sorted(listed)'
  BY SameMachine DEF Sorted, Earlier
<1>3. ASSUME NEW k \in 0 .. Len(listed) PROVE AhciUpTo'[k] = AhciUpTo[k]
  BY <1>1, SameListed
<1>4. ASSUME NEW k \in 0 .. Len(listed), Ranked(k) PROVE Ranked(k)'
  <2>1. \A i \in 1 .. Len(listed) : listed[i] \in Expected
    BY <1>1
  <2> QED
    BY <1>4, <2>1 DEF Ranked
<1>5. \A p : HeaderAt(p)' = HeaderAt(p)
  BY SameMachine DEF HeaderAt
<1> QED
  BY <1>1, <1>2, <1>3, <1>4, <1>5

(* print_mcfg lists what answers.                                           *)
LEMMA ListsPrinted ==
  ASSUME machine \in Machines, WalkAt, Lists, PrintFunction
  PROVE  Lists'
<1>1. /\ pc = "print_mcfg" /\ pc' = pc /\ Body /\ machine' = machine /\ found' = found
      /\ IF Answers(HeaderAt(Place)) THEN listed' = Append(listed, Place) ELSE listed' = listed
  BY HeaderHere DEF PrintFunction, At, Body
<1>2. /\ Place \in Expected /\ ~Passed(Place) /\ walk.at = "body"
      /\ \A p \in Expected : Passed(p)' <=> Passed(p) \/ p = Place
  BY <1>1, BodyPasses DEF Body
<1>3. /\ listed \in Seq(Expected) /\ found = <<>> /\ Sorted(listed)
      /\ \A p \in Expected : p \in Range(listed) <=> Passed(p) /\ Answers(HeaderAt(p))
  BY <1>1 DEF Lists
<1>e. Expected' = Expected /\ \A p : HeaderAt(p)' = HeaderAt(p)
  BY <1>1, SameMachine DEF HeaderAt
<1>4. /\ listed' \in Seq(Expected)
      /\ \A p \in Expected : p \in Range(listed') <=> Passed(p)' /\ Answers(HeaderAt(p))
  <2>1. CASE Answers(HeaderAt(Place))
    <3>1. IsOneMore(Expected, listed, Place, listed')
      BY <1>1, <1>2, <1>3, <2>1, OneMore
    <3> QED
      BY <1>2, <1>3, <2>1, <3>1 DEF IsOneMore
  <2>2. CASE ~Answers(HeaderAt(Place))
    BY <1>1, <1>2, <1>3, <2>2
  <2> QED
    BY <2>1, <2>2
<1>5. Sorted(listed')
  <2>1. CASE Answers(HeaderAt(Place))
    <3>1. IsOneMore(Expected, listed, Place, listed')
      BY <1>1, <1>2, <1>3, <2>1, OneMore
    <3>2. ASSUME NEW i \in 1 .. Len(listed) PROVE Earlier(listed[i], Place)
      <4>1. listed[i] \in Expected /\ listed[i] \in Range(listed)
        BY <1>3 DEF Range
      <4> QED
        BY <1>2, <1>3, <4>1, PassedHere
    <3>3. Len(listed') = Len(listed) + 1 /\ Len(listed) \in Nat /\ listed'[Len(listed) + 1] = Place
      BY <1>3, <3>1 DEF IsOneMore
    <3>4. ASSUME NEW i \in 1 .. Len(listed'), NEW j \in 1 .. Len(listed'), i < j
          PROVE  Earlier(listed'[i], listed'[j])
      <4>1. i \in 1 .. Len(listed) /\ listed'[i] = listed[i]
        BY <3>1, <3>3, <3>4 DEF IsOneMore
      <4>2. CASE j = Len(listed) + 1
        BY <3>2, <3>3, <4>1, <4>2
      <4>3. CASE j # Len(listed) + 1
        <5>1. j \in 1 .. Len(listed) /\ listed'[j] = listed[j]
          BY <3>1, <3>3, <4>3 DEF IsOneMore
        <5> QED
          BY <1>3, <3>4, <4>1, <5>1 DEF Sorted
      <4> QED
        BY <4>2, <4>3
    <3> QED
      BY <3>4 DEF Sorted
  <2>2. CASE ~Answers(HeaderAt(Place))
    BY <1>1, <1>3, <2>2
  <2> QED
    BY <2>1, <2>2
<1>6. Sorted(listed)'
  <2>1. \A p, q : Earlier(p, q)' <=> Earlier(p, q)
    BY <1>1, SameMachine DEF Earlier
  <2> QED
    BY <1>5, <2>1 DEF Sorted
<1>7. 0 \in 0 .. Len(listed') /\ found' = AhciUpTo'[0]
  <2>1. Recursion'
    BY RecursionHolds, PTL
  <2> QED
    BY <1>1, <1>3, <1>4, <2>1 DEF Recursion
<1> QED
  BY <1>1, <1>3, <1>4, <1>6, <1>7, <1>e DEF Lists, Setting, Before, MemorySetup, Scanning

(* find_ahci comes to the listed functions one after the other.             *)
LEMMA ListsScanned ==
  ASSUME machine \in Machines, WalkAt, Lists, ScanFunction
  PROVE  Lists'
<1>1. /\ pc = "find_ahci" /\ pc' \in Scanning /\ Body /\ machine' = machine /\ listed' = listed
      /\ found' = IF IsAhci(HeaderAt(Place)) THEN Append(found, Place) ELSE found
  BY HeaderHere DEF ScanFunction, At, Goto, Body, Scanning
<1>2. /\ Place \in Expected /\ ~Passed(Place) /\ walk.at = "body"
      /\ \A p \in Expected : Passed(p)' <=> Passed(p) \/ p = Place
  BY <1>1, BodyPasses DEF Body
<1>3. /\ listed \in Seq(Expected) /\ Sorted(listed) /\ Len(listed) \in Nat
      /\ \A p \in Expected : p \in Range(listed) <=> Answers(HeaderAt(p))
  BY <1>1 DEF Lists, Scanning
<1>4. PICK k \in 0 .. Len(listed) : found = AhciUpTo[k] /\ Ranked(k)
  BY <1>1 DEF Lists, Scanning
<1>e. /\ Expected' = Expected /\ \A p : HeaderAt(p)' = HeaderAt(p)
      /\ \A p, q : Earlier(p, q)' <=> Earlier(p, q)
      /\ \A n \in 0 .. Len(listed) : AhciUpTo'[n] = AhciUpTo[n]
  <2>1. \A n \in 0 .. Len(listed) : AhciUpTo'[n] = AhciUpTo[n]
    BY <1>1, <1>3, SameListed
  <2> QED
    BY <1>1, <2>1, SameMachine DEF HeaderAt, Earlier
<1>5. \E n \in 0 .. Len(listed) : /\ found' = AhciUpTo[n]
                                  /\ \A i \in 1 .. Len(listed) : Passed(listed[i])' <=> i <= n
  <2>i. \A i \in 1 .. Len(listed) : /\ listed[i] \in Expected /\ (Passed(listed[i]) <=> i <= k)
                                    /\ Passed(listed[i])' <=> Passed(listed[i]) \/ listed[i] = Place
    BY <1>1, <1>2, <1>3, <1>4 DEF Ranked
  <2>1. CASE Answers(HeaderAt(Place))
    <3>1. PICK j \in 1 .. Len(listed) : listed[j] = Place
      <4>1. Place \in Range(listed) /\ DOMAIN listed = 1 .. Len(listed)
        BY <1>2, <1>3, <2>1
      <4> QED
        BY <4>1 DEF Range
    <3>2. j > k
      BY <1>2, <2>i, <3>1
    <3>3. j = k + 1
      <4> SUFFICES ASSUME k + 1 < j PROVE FALSE
        BY <3>2
      <4>1. k + 1 \in 1 .. Len(listed) /\ ~(k + 1 <= k)
        OBVIOUS
      <4>2. Earlier(listed[k + 1], Place)
        BY <1>3, <3>1, <4>1 DEF Sorted
      <4>3. Passed(listed[k + 1])
        BY <1>2, <2>i, <4>1, <4>2, PassedHere
      <4> QED
        BY <2>i, <4>1, <4>3
    <3>4. k + 1 \in 0 .. Len(listed) /\ k + 1 \in 1 .. Len(listed) /\ (k + 1) - 1 = k
      BY <3>1, <3>3
    <3>5. found' = AhciUpTo[k + 1]
      <4>1. AhciUpTo[k + 1] = Among(k + 1, AhciUpTo[k])
        BY <1>3, <3>4, AmongListed
      <4> QED
        BY <1>1, <1>4, <3>1, <3>3, <4>1 DEF Among
    <3>6. ASSUME NEW i \in 1 .. Len(listed) PROVE Passed(listed[i])' <=> i <= k + 1
      <4>1. listed[i] = Place => i = k + 1
        <5> SUFFICES ASSUME listed[i] = Place, i # k + 1 PROVE FALSE
          OBVIOUS
        <5>1. i < k + 1 \/ k + 1 < i
          BY <3>4
        <5>2. Earlier(Place, Place)
          BY <1>3, <3>1, <3>3, <5>1 DEF Sorted
        <5> QED
          BY <1>2, <5>2, NotEarlier
      <4>2. i <= k + 1 <=> i <= k \/ i = k + 1
        OBVIOUS
      <4> QED
        BY <2>i, <3>1, <3>3, <4>1, <4>2
    <3> QED
      BY <3>4, <3>5, <3>6
  <2>2. CASE ~Answers(HeaderAt(Place))
    <3>1. ~IsAhci(HeaderAt(Place))
      BY <2>2, ControllersAnswer DEF HeaderAt
    <3>2. Place \notin Range(listed)
      BY <1>2, <1>3, <2>2
    <3>3. \A i \in 1 .. Len(listed) : listed[i] # Place
      BY <1>3, <3>2 DEF Range
    <3> QED
      BY <1>1, <1>4, <2>i, <3>1, <3>3
  <2> QED
    BY <2>1, <2>2
<1>6. Sorted(listed)'
  BY <1>1, <1>3, <1>e DEF Sorted
<1>7. \E n \in 0 .. Len(listed)' : found' = AhciUpTo'[n] /\ Ranked(n)'
  BY <1>1, <1>5, <1>e DEF Ranked
<1> QED
  BY <1>1, <1>3, <1>6, <1>7, <1>e DEF Lists, Setting, Before, MemorySetup, Scanning

(* The first walk has listed all that answers, the second has scanned all    *)
(* that is listed.                                                          *)
LEMMA ListsEnd ==
  ASSUME Base, WalkAt, Lists, WalkEnds
  PROVE  Lists'
<1>1. /\ pc \in {"print_mcfg", "find_ahci"} /\ walk.at = "done" /\ machine' = machine /\ machine \in Machines
      /\ UNCHANGED <<listed, found>>
      /\ IF pc = "print_mcfg" THEN walk' = WalkStart /\ pc' = "find_ahci" ELSE walk' = walk /\ pc' = "flush"
  BY LoopVariable DEF WalkEnds, Walking, At, Goto, Base
<1>2. listed \in Seq(Expected) /\ Len(listed) \in Nat /\ \A i \in 1 .. Len(listed) : listed[i] \in Expected
  BY DEF Lists
<1>3. \A p \in Expected : Passed(p)
  BY <1>1, WalkDone
<1>e. /\ Expected' = Expected /\ \A p : HeaderAt(p)' = HeaderAt(p)
      /\ \A p, q : Earlier(p, q)' <=> Earlier(p, q)
      /\ \A n \in 0 .. Len(listed) : AhciUpTo'[n] = AhciUpTo[n]
  <2>1. \A n \in 0 .. Len(listed) : AhciUpTo'[n] = AhciUpTo[n]
    BY <1>1, <1>2, SameListed
  <2> QED
    BY <1>1, <2>1, SameMachine DEF HeaderAt, Earlier
<1>4. CASE pc = "print_mcfg"
  <2>1. \A p \in Expected : ~Passed(p)'
    <3>1. (machine \in Machines /\ walk = WalkStart => WalkAt /\ \A p \in Expected : ~Passed(p))'
      BY WalkBegins, PTL
    <3> QED
      BY <1>1, <1>4, <1>e, <3>1 DEF WalkStart
  <2>2. 0 \in 0 .. Len(listed) /\ found = AhciUpTo[0] /\ Ranked(0)'
    <3>1. Ranked(0)'
      BY <1>1, <1>2, <2>1 DEF Ranked
    <3> QED
      BY <1>2, <1>4, <3>1, AmongListed DEF Lists
  <2>3. Sorted(listed)' /\ \A p \in Expected : p \in Range(listed) <=> Answers(HeaderAt(p))
    BY <1>1, <1>3, <1>4, <1>e DEF Lists, Sorted
  <2>4. \E k \in 0 .. Len(listed)' : found' = AhciUpTo'[k] /\ Ranked(k)'
    BY <1>1, <1>e, <2>2
  <2>5. pc' = "find_ahci"
    BY <1>1, <1>4
  <2> QED
    BY <1>1, <1>2, <1>e, <2>3, <2>4, <2>5 DEF Lists, Setting, Before, MemorySetup, Scanning
<1>5. CASE pc = "find_ahci"
  <2>1. PICK k \in 0 .. Len(listed) : found = AhciUpTo[k] /\ Ranked(k)
    BY <1>5 DEF Lists, Scanning
  <2>2. k = Len(listed)
    <3> SUFFICES ASSUME k < Len(listed) PROVE FALSE
      BY <1>2
    <3>1. Len(listed) \in 1 .. Len(listed)
      BY <1>2
    <3> QED
      BY <1>2, <1>3, <2>1, <3>1 DEF Ranked
  <2>3. \E n \in 0 .. Len(listed)' : found' = AhciUpTo'[n] /\ n = Len(listed)'
    BY <1>1, <1>2, <1>e, <2>1, <2>2
  <2>4. pc' = "flush"
    BY <1>1, <1>5
  <2> QED
    BY <1>1, <1>2, <1>e, <2>3, <2>4 DEF Lists, Setting, Before, MemorySetup, Scanning
<1> QED
  BY <1>1, <1>4, <1>5

LEMMA ListsHolds ==
  ASSUME Base, WalkAt, Lists, [Next]_vars
  PROVE  Lists'
<1>m. machine' = machine /\ machine \in Machines
  BY LoopVariable DEF Base
<1>2. listed \in Seq(Expected) /\ Len(listed) \in Nat
  BY DEF Lists
<1>3. PICK k \in 0 .. Len(listed) : /\ found = AhciUpTo[k]
                                    /\ pc \in Scanning => Ranked(k)
                                    /\ pc = "flush" => k = Len(listed)
  BY DEF Lists
<1>4. CASE Walk
  <2>1. /\ pc \in {"print_mcfg", "find_ahci"} /\ pc' = pc /\ UNCHANGED <<listed, found>>
    BY <1>4 DEF Walk, Walking, At
  <2>2. \A p \in Expected : Passed(p)' <=> Passed(p)
    BY <1>m, <1>4, WalkMoves
  <2>3. /\ listed' \in Seq(Expected)' /\ Expected' = Expected
        /\ Sorted(listed) => Sorted(listed)'
        /\ \A p : HeaderAt(p)' = HeaderAt(p)
        /\ AhciUpTo'[k] = AhciUpTo[k] /\ (Ranked(k) => Ranked(k)')
    BY <1>m, <2>1, <2>2, ListsStay
  <2>4. /\ pc' \notin Setting /\ pc' # "flush"
    BY <2>1 DEF Setting, Before, MemorySetup
  <2>5. pc' = "print_mcfg" => /\ found' = <<>> /\ Sorted(listed)'
                              /\ \A p \in Expected : p \in Range(listed) <=> Passed(p)' /\ Answers(HeaderAt(p))
    BY <2>1, <2>2, <2>3 DEF Lists
  <2>6. pc' \in Scanning => Sorted(listed)' /\ \A p \in Expected : p \in Range(listed) <=> Answers(HeaderAt(p))
    BY <2>1, <2>3 DEF Lists
  <2>7. \E n \in 0 .. Len(listed)' : /\ found' = AhciUpTo'[n] /\ (pc' \in Scanning => Ranked(n)')
    BY <1>3, <2>1, <2>3
  <2> QED
    BY <2>1, <2>3, <2>4, <2>5, <2>6, <2>7 DEF Lists
<1>5. CASE Aside
  <2>1. UNCHANGED <<walk, visited, listed, found>>
    BY <1>5 DEF Aside
  <2>2. \A p \in Expected : Passed(p)' <=> Passed(p)
    BY <1>m, <2>1, SameWalk
  <2>3. /\ listed' \in Seq(Expected)' /\ Expected' = Expected
        /\ Sorted(listed) => Sorted(listed)'
        /\ \A p : HeaderAt(p)' = HeaderAt(p)
        /\ AhciUpTo'[k] = AhciUpTo[k] /\ (Ranked(k) => Ranked(k)')
    BY <1>m, <2>1, <2>2, ListsStay
  <2>4. CASE pc' = pc
    <3>1. pc' \in Setting => walk' = WalkStart /\ visited' = <<>> /\ listed' = <<>> /\ found' = <<>>
      BY <2>1, <2>4 DEF Lists
    <3>2. pc' = "print_mcfg" => /\ found' = <<>> /\ Sorted(listed)'
                                /\ \A p \in Expected : p \in Range(listed) <=> Passed(p)' /\ Answers(HeaderAt(p))
      BY <2>1, <2>2, <2>3, <2>4 DEF Lists
    <3>3. pc' \in Scanning => Sorted(listed)' /\ \A p \in Expected : p \in Range(listed) <=> Answers(HeaderAt(p))
      BY <2>1, <2>3, <2>4 DEF Lists
    <3>4. \E n \in 0 .. Len(listed)' : /\ found' = AhciUpTo'[n] /\ (pc' \in Scanning => Ranked(n)')
                                       /\ (pc' = "flush" => n = Len(listed)')
      BY <1>3, <2>1, <2>3, <2>4
    <3> QED
      BY <2>1, <2>3, <3>1, <3>2, <3>3, <3>4 DEF Lists, WalkStart
  <2>5. CASE pc' \in Ends \cup {"int69"}
    <3>1. pc' \notin Setting \cup Scanning \cup {"print_mcfg", "flush"}
      BY <2>5 DEF Ends, Setting, Before, MemorySetup, Scanning
    <3>2. \E n \in 0 .. Len(listed)' : found' = AhciUpTo'[n]
      BY <1>3, <2>1, <2>3
    <3> QED
      BY <2>3, <3>1, <3>2 DEF Lists
  <2>6. CASE pc \in Setting /\ pc' \in Setting \cup {"print_mcfg"}
    <3>1. walk = WalkStart /\ visited = <<>> /\ listed = <<>> /\ found = <<>>
      BY <2>6 DEF Lists
    <3>2. \A p \in Expected : ~Passed(p)
      BY <1>m, <3>1, WalkBegins
    <3>3. Sorted(listed)' /\ \A p : p \notin Range(listed)
      <4>1. Len(<<>>) = 0 /\ DOMAIN <<>> = {}
        OBVIOUS
      <4> QED
        BY <2>1, <3>1, <4>1 DEF Sorted, Range
    <3>4. pc' \notin Scanning \cup {"flush"}
      BY <2>6 DEF Setting, Before, MemorySetup, Scanning
    <3>5. \E n \in 0 .. Len(listed)' : found' = AhciUpTo'[n]
      BY <1>3, <2>1, <2>3
    <3>6. WalkStart' = WalkStart
      BY DEF WalkStart
    <3> QED
      BY <2>1, <2>2, <2>3, <3>1, <3>2, <3>3, <3>4, <3>5, <3>6 DEF Lists
  <2>7. CASE pc \in Scanning /\ pc' \in Scanning
    <3>1. pc' \notin Setting /\ pc' \notin {"print_mcfg", "flush"}
      BY <2>7 DEF Setting, Before, MemorySetup, Scanning
    <3>2. Sorted(listed)' /\ \A p \in Expected : p \in Range(listed) <=> Answers(HeaderAt(p))
      BY <2>3, <2>7 DEF Lists
    <3>3. \E n \in 0 .. Len(listed)' : found' = AhciUpTo'[n] /\ Ranked(n)'
      BY <1>3, <2>1, <2>3, <2>7
    <3> QED
      BY <2>1, <2>3, <3>1, <3>2, <3>3 DEF Lists
  <2> QED
    BY <1>5, <2>4, <2>5, <2>6, <2>7 DEF Aside
<1> QED
  BY <1>m, <1>4, <1>5, ListsPrinted, ListsScanned, ListsEnd, WalkKinds

(* The pool.  Nothing comes into it that was not in it at the beginning, but *)
(* for frame 0, when a buffer that could not be allocated is freed.         *)
Frames == memory.free \subseteq machine.free \cup {0}

(* What is allocated and mapped leaves the pool.                            *)
LEMMA PoolShrinks ==
  ASSUME NEW m
  PROVE  /\ \A run : MapPages(m, run).free \subseteq m.free
         /\ \A page : MapPage(m, page).free \subseteq m.free
         /\ \A n : AllocateMapped(m, n).free \subseteq m.free
<1>1. ASSUME NEW k, NEW run PROVE MapPages(k, run).free \subseteq k.free
  BY DEF MapPages
<1>2. ASSUME NEW n PROVE AllocateMapped(m, n).free \subseteq m.free
  <2> DEFINE k == [m EXCEPT !.free = @ \ Granted(@, n)]
  <2>1. k.free \subseteq m.free
    <3>1. k.free = m.free \ Granted(m.free, n) \/ k.free = m.free
      OBVIOUS
    <3> QED
      BY <3>1
  <2>2. AllocateMapped(m, n) = MapPages(k, NewRun(m, n))
    BY DEF AllocateMapped
  <2> HIDE DEF k
  <2> QED
    BY <1>1, <2>1, <2>2
<1> QED
  BY <1>1, <1>2 DEF MapPage

(* The pages that the allocator can give are free, or it gives null.        *)
LEMMA NewFrame ==
  ASSUME memory.free \subseteq Nat
  PROVE  NewBuffer \in memory.free \cup {0}
<1>1. ASSUME Fitting(memory.free, 1) # {} PROVE Min(Fitting(memory.free, 1)) \in memory.free
  <2>1. Fitting(memory.free, 1) \subseteq memory.free
    BY DEF Fitting
  <2> QED
    BY <1>1, <2>1, LeastElement
<1> QED
  BY <1>1 DEF NewBuffer, LowestRun

LEMMA PoolMoves ==
  ASSUME [Next]_vars
  PROVE  memory'.free \subseteq memory.free \cup {NewBuffer}
<1>p. PageFaults => memory' = memory
  BY DEF PageFaults, pci
<1>s. memory' = memory \/ (\E page : memory' = MapPage(memory, page)) \/ (\E n : memory' = AllocateMapped(memory, n))
        => memory'.free \subseteq memory.free
  BY PoolShrinks
<1>1. CASE UNCHANGED vars \/ UartShift \/ Exception \/ Int69
  BY <1>1, <1>s DEF vars, UartShift, Exception, Int69, pci
<1>2. CASE Printing \/ PanicHalts \/ Flush
  BY <1>2, <1>p, <1>s DEF Printing, WriteSerial, WriteScreen, NoGlyph, PanicHalts, Flush, pci
<1>3. CASE Boot
  BY <1>3, <1>p, <1>s DEF Boot, SerialSetup, SerialTest, LoadTables, CheckResponse, InitializeMemory, GrowHeap,
    GrownHeap, HeapFaults, RetryForEver, LoseHeap, InitializeRenderer, Error, pci
<1>4. CASE Information
  BY <1>4, <1>p, <1>s DEF Information, PrintBootloader, PrintRegion, NoTypeString, PrintTotal, PrintEfiTable,
    PrintEfiVendor, EfiVendorFaults, pci
<1>5. CASE Tables
  BY <1>5, <1>p, <1>s DEF Tables, MapRsdp, MapRoot, UnsupportedRevision, FindTable, NoMcfg, AcpiFaults,
    UnchangedBut, Error, Maps, pci
<1>6. CASE WalkPageFaults \/ ControllerFaults \/ PrintFunction \/ WalkEnds
  BY <1>6, <1>p, <1>s DEF WalkPageFaults, ControllerFaults, PrintFunction, WalkEnds
<1>7. CASE ScanFunction
  <2>1. CASE IsAhci(Header(FunctionHere))
    BY <1>7, <2>1, <1>s DEF ScanFunction
  <2>2. CASE ~IsAhci(Header(FunctionHere))
    BY <1>7, <2>2, <1>s DEF ScanFunction
  <2> QED
    BY <2>1, <2>2
<1>8. CASE Walk
  BY <1>8, <1>s DEF Walk, Step, WalkEntry, WalkBus, WalkDevice, WalkFunctions, WalkFunction
<1>9. CASE SkipPort \/ InitializePort \/ PortFaults \/ LeaveController
  BY <1>9, <1>p, <1>s DEF SkipPort, InitializePort, NewArea, PortFaults, LeaveController, pci
<1>10. CASE ReadPort
  <2>1. WithBuffer.free \subseteq memory.free
    BY PoolShrinks DEF WithBuffer
  <2>2. \/ memory' = WithBuffer
        \/ memory' = [WithBuffer EXCEPT !.free = @ \union {NewBuffer}]
    BY <1>10, Zenon DEF ReadPort
  <2>3. CASE memory' = [WithBuffer EXCEPT !.free = @ \union {NewBuffer}]
    <3>1. memory'.free = WithBuffer.free \union {NewBuffer} \/ memory' = WithBuffer
      BY <2>3
    <3> QED
      BY <2>1, <3>1
  <2> QED
    BY <2>1, <2>2, <2>3
<1> QED
  BY <1>1, <1>2, <1>3, <1>4, <1>5, <1>6, <1>7, <1>8, <1>9, <1>10 DEF Next, Kmain, Devices, Disks

LEMMA FramesHold ==
  ASSUME Base, Frames, [Next]_vars
  PROVE  Frames'
<1>1. machine' = machine /\ machine.free \subseteq Nat
  BY LoopVariable, MachineAssumption DEF Base
<1>2. NewBuffer \in memory.free \cup {0}
  <2>1. memory.free \subseteq Nat
    BY <1>1 DEF Frames
  <2> QED
    BY <2>1, NewFrame
<1> QED
  BY <1>1, <1>2, PoolMoves DEF Frames

(* What the FIFOs of the port hold, and a port that is not there.           *)
Fifos ==
  /\ armed \in BOOLEAN /\ renderer \in BOOLEAN
  /\ Len(uart.thr) <= FifoSize /\ Len(uart.rbr) <= FifoSize
  /\ ~machine.com1 => uart = NoUart

(* Nothing goes into a port that is not there and nothing comes from it.     *)
LEMMA NoPort ==
  ASSUME uart = NoUart
  PROVE  /\ \A register, data : OutB(uart, register, data) = uart
         /\ Tested(uart) = uart /\ ~CanShift(uart)
<1>1. ~uart.present /\ uart.thr = <<>>
  BY DEF NoUart
<1>2. ~Passes(uart)
  BY <1>1 DEF Passes, InData, TestByte
<1>3. \A register, data : OutB(uart, register, data) = uart
  BY <1>1 DEF OutB
<1> QED
  BY <1>1, <1>2, <1>3 DEF Tested, CanShift

LEMMA FifosHold ==
  ASSUME Control, PortInv, PortInv', Fifos, [Next]_vars
  PROVE  Fifos'
<1>m. machine' = machine
  BY LoopVariable
<1>b. armed' \in BOOLEAN /\ renderer' \in BOOLEAN
  <2>1. armed' = armed \/ armed' = TRUE
    <3>1. CASE SerialSetup \/ SerialTest \/ LoadTables \/ WriteSerial \/ UartShift
      BY <3>1 DEF SerialSetup, SerialTest, LoadTables, WriteSerial, UartShift, trap
    <3> QED
      BY <3>1, OtherSteps
  <2>2. renderer' = renderer \/ renderer' = TRUE
    <3>p. PageFaults => renderer' = renderer
      BY DEF PageFaults
    <3>1. CASE UNCHANGED vars \/ UartShift \/ Exception \/ Int69
      BY <3>1 DEF vars, UartShift, Exception, Int69
    <3>2. CASE Printing \/ PanicHalts \/ Flush
      BY <3>2, <3>p DEF Printing, WriteSerial, WriteScreen, NoGlyph, PanicHalts, Flush
    <3>3. CASE Boot
      BY <3>3, <3>p DEF Boot, SerialSetup, SerialTest, LoadTables, CheckResponse, InitializeMemory, GrowHeap,
        HeapFaults, RetryForEver, LoseHeap, InitializeRenderer, Error
    <3>4. CASE Information
      BY <3>4, <3>p DEF Information, PrintBootloader, PrintRegion, NoTypeString, PrintTotal, PrintEfiTable,
        PrintEfiVendor, EfiVendorFaults
    <3>5. CASE Tables
      BY <3>5, <3>p DEF Tables, MapRsdp, MapRoot, UnsupportedRevision, FindTable, NoMcfg, AcpiFaults, UnchangedBut,
        Error
    <3>6. CASE Devices
      BY <3>6, <3>p DEF Devices, Walk, WalkPageFaults, PrintFunction, ScanFunction, ControllerFaults, WalkEnds
    <3>7. CASE Disks
      BY <3>7, <3>p DEF Disks, SkipPort, InitializePort, ReadPort, PortFaults, LeaveController
    <3> QED
      BY <3>1, <3>2, <3>3, <3>4, <3>5, <3>6, <3>7 DEF Next, Kmain
  <2> QED
    BY <2>1, <2>2 DEF Fifos
<1>1. CASE ~machine.com1
  <2>1. uart = NoUart
    BY <1>1 DEF Fifos
  <2>2. uart' = uart
    <3>1. CASE SerialSetup \/ SerialTest \/ LoadTables \/ WriteSerial \/ UartShift
      BY <2>1, <3>1, NoPort DEF SerialSetup, SerialTest, LoadTables, WriteSerial, UartShift, console, Written
    <3> QED
      BY <3>1, OtherSteps
  <2> QED
    BY <1>m, <1>b, <2>1, <2>2 DEF Fifos
<1>2. CASE machine.com1
  <2>p. /\ pc = "serial" => index \in 1 .. 10 /\ SetupState(index)
        /\ pc = "serial_test" => SetupState(10)
    BY <1>2 DEF PortInv
  <2>s. PICK S : TestByte \in S /\ uart \in Uarts(S)
    BY <1>2 DEF PortInv
  <2>l. Len(<<>>) <= FifoSize /\ \A x : Len(<<x>>) <= FifoSize
    BY FifoAssumption
  <2>u. uart.thr \in Seq(S) /\ uart.rbr \in Seq(S)
    BY <2>s DEF Uarts
  <2>1. CASE SerialSetup
    <3>1. SetupState(index)' \/ SetupState(10)'
      <4>1. pc' \in {"serial", "serial_test"}
        BY <2>1 DEF SerialSetup, At, Goto
      <4> QED
        BY <1>2, <1>m, <4>1 DEF PortInv
    <3>2. uart'.thr \in {<<>>, <<TestByte>>} /\ uart'.rbr \in {<<>>, <<TestByte>>}
      BY <3>1 DEF SetupState
    <3> QED
      BY <1>2, <1>m, <1>b, <2>l, <3>2 DEF Fifos
  <2>2. CASE SerialTest
    <3>1. uart' = Tested(uart) /\ SetupState(10)
      BY <2>2, <2>p DEF SerialTest, At
    <3>2. CASE ~Passes(uart)
      <4>1. uart' = uart
        BY <3>1, <3>2, Zenon DEF Tested
      <4> QED
        BY <1>2, <1>m, <1>b, <4>1 DEF Fifos
    <3>3. CASE Passes(uart)
      <4> DEFINE taken == [uart EXCEPT !.rbr = Tail(@)]
      <4>1. uart.rbr # <<>>
        BY <3>3, SMT DEF Passes, InData, TestByte
      <4>2. uart.rbr = <<TestByte>>
        BY <3>1, <4>1 DEF SetupState
      <4>3. taken = [uart EXCEPT !.rbr = <<>>]
        BY <4>2
      <4>4. taken \in Uarts(S) /\ taken.thr = uart.thr /\ taken.rbr = <<>>
        <5>1. <<>> \in Seq(S)
          OBVIOUS
        <5> QED
          BY <2>s, <4>3, <5>1 DEF Uarts
      <4>5. uart' = OutB(taken, 4, 15)
        BY <3>1, <3>3, Zenon DEF Tested
      <4> HIDE DEF taken
      <4>6. IsPort(uart', S, taken.divisor, taken.lcr, 15, taken.thr, taken.rbr, taken.line)
        <5>1. 15 \in Nat
          OBVIOUS
        <5> QED
          BY <4>4, <4>5, <5>1, WriteControl
      <4> QED
        BY <1>2, <1>m, <1>b, <2>l, <4>4, <4>6 DEF IsPort, Fifos
    <3> QED
      BY <3>2, <3>3
  <2>3. CASE LoadTables
    BY <1>2, <1>m, <1>b, <2>3 DEF LoadTables, console, Fifos
  <2>4. CASE WriteSerial
    <3>1. IsTransmitEmpty(uart) /\ uart' = OutB(uart, 0, Head(queue)) /\ armed
      BY <2>4 DEF WriteSerial, Written, Control
    <3>2. uart.thr = <<>> /\ ~DLAB(uart)
      <4>1. uart.present
        BY <2>s DEF Uarts
      <4>2. WorkingState
        BY <1>2, <3>1 DEF PortInv
      <4>3. ~DLAB(uart)
        BY <4>2 DEF WorkingState, DLAB, HasBit
      <4> QED
        BY <3>1, <4>1, <4>3 DEF IsTransmitEmpty, LineStatusEmpty
    <3> DEFINE T == S \cup {Head(queue)}
    <3>3. uart \in Uarts(T) /\ Head(queue) \in T
      <4>1. S \subseteq T /\ Head(queue) \in T
        OBVIOUS
      <4> HIDE DEF T
      <4>2. Seq(S) \subseteq Seq(T)
        BY <4>1, SeqMonotonic
      <4> QED
        BY <2>s, <4>1, <4>2 DEF Uarts
    <3> HIDE DEF T
    <3>4. IsPort(uart', T, uart.divisor, uart.lcr, uart.mcr, <<Head(queue)>>, uart.rbr, uart.line)
      BY <3>1, <3>2, <3>3, WriteData
    <3> QED
      BY <1>2, <1>m, <1>b, <2>l, <3>4 DEF IsPort, Fifos
  <2>5. CASE UartShift
    <3>1. CanShift(uart) /\ uart' = Shift(uart)
      BY <2>5 DEF UartShift
    <3>2. uart.thr # <<>> /\ Len(Tail(uart.thr)) <= FifoSize /\ Head(uart.thr) \in S
      BY <2>u, <3>1, FifoAssumption DEF CanShift, Fifos
    <3> DEFINE received == IF Len(uart.rbr) < FifoSize THEN Append(uart.rbr, Head(uart.thr)) ELSE uart.rbr
    <3>3. Len(received) <= FifoSize
      BY <2>u, <3>2, FifoAssumption DEF Fifos
    <3> HIDE DEF received
    <3>4. CASE Loop(uart)
      <4>1. uart' = [uart EXCEPT !.thr = Tail(uart.thr), !.rbr = received]
        BY <3>1, <3>4, Zenon DEF Shift, received
      <4> QED
        BY <1>2, <1>m, <1>b, <2>s, <3>2, <3>3, <4>1 DEF Uarts, Fifos
    <3>5. CASE ~Loop(uart)
      <4>1. uart' = [uart EXCEPT !.thr = Tail(uart.thr), !.line = Append(uart.line, Head(uart.thr))]
        BY <3>1, <3>5, Zenon DEF Shift
      <4> QED
        BY <1>2, <1>m, <1>b, <2>s, <3>2, <4>1 DEF Uarts, Fifos
    <3> QED
      BY <3>4, <3>5
  <2>6. CASE ~SerialSetup /\ ~SerialTest /\ ~LoadTables /\ ~WriteSerial /\ ~UartShift
    BY <1>2, <1>m, <1>b, <2>6, OtherSteps DEF Fifos
  <2> QED
    BY <2>1, <2>2, <2>3, <2>4, <2>5, <2>6
<1> QED
  BY <1>1, <1>2

(* Before the first step.                                                   *)
LEMMA WalksStart ==
  ASSUME Init
  PROVE  WalkAt /\ Visited /\ Lists /\ Frames /\ Fifos
<1>1. /\ machine \in Machines /\ walk = WalkStart /\ visited = <<>> /\ listed = <<>> /\ found = <<>>
      /\ pc = "serial" /\ armed = FALSE /\ renderer = FALSE
      /\ memory.free = machine.free
  BY DEF Init
<1>2. WalkAt /\ \A p \in Expected : ~Passed(p)
  BY <1>1, WalkBegins
<1>3. <<>> \in Seq(Expected) /\ Len(<<>>) = 0 /\ DOMAIN <<>> = {}
  OBVIOUS
<1>4. Visited
  BY <1>1, <1>2, <1>3 DEF Visited, Range
<1>5. Lists
  <2>1. 0 \in 0 .. Len(listed) /\ found = AhciUpTo[0]
    BY <1>1, <1>3, AmongListed
  <2> QED
    BY <1>1, <1>3, <2>1 DEF Lists, Scanning
<1>6. Frames
  BY <1>1 DEF Frames
<1>7. Fifos
  <2>1. uart = IF machine.com1 THEN FreshUart ELSE NoUart
    BY DEF Init
  <2>2. uart.thr = <<>> /\ uart.rbr = <<>>
    <3>1. CASE machine.com1
      BY <2>1, <3>1 DEF FreshUart, NoUart
    <3>2. CASE ~machine.com1
      BY <2>1, <3>2 DEF NoUart
    <3> QED
      BY <3>1, <3>2
  <2> QED
    <3>1. armed \in BOOLEAN /\ renderer \in BOOLEAN
      BY <1>1
    <3>2. Len(uart.thr) <= FifoSize /\ Len(uart.rbr) <= FifoSize
      BY <1>3, <2>2, FifoAssumption
    <3>3. ~machine.com1 => uart = NoUart
      BY <2>1
    <3> QED
      BY <3>1, <3>2, <3>3 DEF Fifos
<1> QED
  BY <1>2, <1>4, <1>5, <1>6, <1>7

LEMMA WalksHold == Spec => [](WalkAt /\ Visited /\ Lists /\ Frames /\ Fifos)
<1>1. Init => WalkAt /\ Visited /\ Lists /\ Frames /\ Fifos
  BY WalksStart
<1>2. Base /\ Control /\ PortInv /\ PortInv' /\ WalkAt /\ Visited /\ Lists /\ Frames /\ Fifos /\ [Next]_vars
        => (WalkAt /\ Visited /\ Lists /\ Frames /\ Fifos)'
  BY VisitedHolds, ListsHolds, FramesHold, FifosHold
<1> QED
  BY <1>1, <1>2, PortHolds, Invariant, PTL DEF Spec

(* On any machine both walks look exactly once at each function of the buses *)
(* of every entry, wrapped bus numbers and an end bus below the start bus    *)
(* included, and find_ahci scans the AHCI controllers print_mcfg has listed, *)
(* in the same order (pci.cpp:47-153, kernel.cpp:320, 383).                  *)
THEOREM EveryFunctionIsVisited == Spec => []VisitsExactly
<1>1. Base /\ Trap /\ WalkAt /\ Frames /\ Fifos => KernelTypeOK
  <2> SUFFICES ASSUME Base, Trap, WalkAt, Frames, Fifos PROVE KernelTypeOK
    OBVIOUS
  <2>1. memory.free \subseteq machine.free \cup {0}
    BY DEF Frames
  <2>2. depth \in 0 .. StackFrames
    <3>1. depth \in Nat /\ depth <= (IF raised THEN 2 ELSE 1)
      BY DEF Trap
    <3>2. depth <= 2
      <4>1. CASE raised
        BY <3>1, <4>1
      <4>2. CASE ~raised
        BY <3>1, <4>2
      <4> QED
        BY <4>1, <4>2
    <3> QED
      BY <3>1, <3>2, StackAssumption
  <2>3. /\ walk.bus \in 0 .. BusNumbers - 1 /\ walk.device \in 0 .. DevicesPerBus
        /\ walk.function \in 0 .. FunctionsPerDevice
    BY Fields4 DEF WalkAt
  <2> QED
    BY <2>1, <2>2, <2>3 DEF Base, Fifos, KernelTypeOK
<1>2. Base /\ WalkAt /\ Visited /\ Lists =>
        /\ Cardinality(Range(visited)) = Len(visited)
        /\ Range(visited) \subseteq Expected
        /\ Walking /\ walk.at = "done" => Range(visited) = Expected
        /\ IsPrefix(found, AhciListed)
        /\ pc = "flush" => found = AhciListed
  <2> SUFFICES ASSUME Base, WalkAt, Visited, Lists
               PROVE  /\ Cardinality(Range(visited)) = Len(visited)
                      /\ Range(visited) \subseteq Expected
                      /\ Walking /\ walk.at = "done" => Range(visited) = Expected
                      /\ IsPrefix(found, AhciListed)
                      /\ pc = "flush" => found = AhciListed
    OBVIOUS
  <2>1. Cardinality(Range(visited)) = Len(visited)
    BY Different DEF Visited
  <2>2. Range(visited) \subseteq Expected
    <3>1. visited \in Seq(Expected) /\ DOMAIN visited = 1 .. Len(visited)
      BY DEF Visited
    <3> QED
      BY <3>1 DEF Range
  <2>3. ASSUME walk.at = "done" PROVE Range(visited) = Expected
    BY <2>2, <2>3, WalkDone DEF Visited, Base
  <2>4. PICK k \in 0 .. Len(listed) : found = AhciUpTo[k] /\ (pc = "flush" => k = Len(listed))
    BY DEF Lists
  <2>5. listed \in Seq(Expected) /\ Len(listed) \in 0 .. Len(listed)
    BY DEF Lists
  <2> DEFINE s == AhciUpTo[k]
             t == AhciListed
  <2>6. s \in Seq(Expected) /\ t \in Seq(Expected) /\ Begins(s, t)
    BY <2>4, <2>5, AmongSequences, AmongBegin DEF AhciListed
  <2> HIDE DEF s, t
  <2>7. IsPrefix(s, t)
    <3>1. /\ Len(s) \in Nat /\ Len(t) \in Nat /\ Len(s) <= Len(t)
          /\ \A i \in 1 .. Len(s) : s[i] = t[i] /\ s[i] \in Expected /\ t[i] \in Expected
      BY <2>6 DEF Begins
    <3>2. /\ SubSeq(s, 1, Len(s)) \in Seq(Expected) /\ Len(SubSeq(s, 1, Len(s))) = Len(s)
          /\ \A i \in 1 .. Len(s) : SubSeq(s, 1, Len(s))[i] = s[i]
      BY <2>6, <3>1
    <3>3. /\ SubSeq(t, 1, Len(s)) \in Seq(Expected) /\ Len(SubSeq(t, 1, Len(s))) = Len(s)
          /\ \A i \in 1 .. Len(s) : SubSeq(t, 1, Len(s))[i] = t[i]
      BY <2>6, <3>1
    <3>4. SubSeq(s, 1, Len(s)) = SubSeq(t, 1, Len(s))
      BY <3>1, <3>2, <3>3, SeqEqual
    <3> QED
      BY <3>1, <3>4 DEF IsPrefix
  <2>8. pc = "flush" => found = AhciListed
    BY <2>4 DEF AhciListed
  <2> QED
    BY <2>1, <2>2, <2>3, <2>4, <2>7, <2>8 DEF s, t
<1>3. Base /\ Trap /\ WalkAt /\ Visited /\ Lists /\ Frames /\ Fifos => VisitsExactly
  BY <1>1, <1>2 DEF VisitsExactly
<1> QED
  BY <1>3, Invariant, WalksHold, PTL

-----------------------------------------------------------------------------
(* A sound machine.  What is touched on it are finitely many pages, so that  *)
(* the frames for their tables can be counted.                              *)
LEMMA FiniteImage ==
  ASSUME NEW S, IsFiniteSet(S), NEW f, f = [x \in S |-> f[x]]
  PROVE  IsFiniteSet({f[x] : x \in S})
<1> DEFINE T == {f[x] : x \in S}
<1>1. f \in Surjection(S, T)
  <2>1. f \in [S -> T]
    OBVIOUS
  <2>2. \A t \in T : \E s \in S : f[s] = t
    OBVIOUS
  <2> QED
    BY <2>1, <2>2 DEF Surjection
<1> HIDE DEF T
<1>2. IsFiniteSet(T)
  BY <1>1, FS_Surjection
<1> QED
  BY <1>2 DEF T

LEMMA FinitePlaces ==
  ASSUME machine \in Machines
  PROVE  IsFiniteSet(Expected)
<1> DEFINE E == 1 .. Len(machine.mcfg)
           B == 0 .. BusNumbers - 1
           D == 0 .. DevicesPerBus - 1
           F == 0 .. FunctionsPerDevice - 1
           S == ((E \X B) \X D) \X F
           f == [x \in S |-> <<x[1][1][1], x[1][1][2], x[1][2], x[2]>>]
           T == {f[x] : x \in S}
<1>1. IsFiniteSet(E) /\ IsFiniteSet(B) /\ IsFiniteSet(D) /\ IsFiniteSet(F)
  <2>1. Len(machine.mcfg) \in Nat
    BY Entries
  <2> QED
    BY <2>1, FS_Interval, WalkAssumption
<1>2. ASSUME NEW p \in Expected PROVE p \in T
  <2>1. p[1] \in E /\ p[2] \in B /\ p[3] \in D /\ p[4] \in F /\ p = <<p[1], p[2], p[3], p[4]>>
    <3>1. p[1] \in DOMAIN machine.mcfg /\ p[2] \in Buses(machine.mcfg[p[1]])
      BY Places4
    <3>2. p[1] \in E
      BY <3>1, Entries
    <3>3. p[2] \in B
      BY <3>1 DEF Buses
    <3>4. p[3] \in D /\ p[4] \in F /\ p = <<p[1], p[2], p[3], p[4]>>
      BY Places4
    <3> QED
      BY <3>2, <3>3, <3>4
  <2> HIDE DEF E, B, D, F
  <2>2. <<<<<<p[1], p[2]>>, p[3]>>, p[4]>> \in S
    BY <2>1
  <2>3. f[<<<<<<p[1], p[2]>>, p[3]>>, p[4]>>] = <<p[1], p[2], p[3], p[4]>>
    BY <2>2
  <2> HIDE DEF S, f
  <2> QED
    BY <2>1, <2>2, <2>3
<1> HIDE DEF E, B, D, F
<1>3. IsFiniteSet(S)
  <2>1. IsFiniteSet(E \X B)
    BY <1>1, FS_Product
  <2>2. IsFiniteSet((E \X B) \X D)
    BY <1>1, <2>1, FS_Product
  <2> QED
    BY <1>1, <2>2, FS_Product
<1>4. f = [x \in S |-> f[x]]
  OBVIOUS
<1> HIDE DEF S, f
<1>5. IsFiniteSet(T)
  BY <1>3, <1>4, FiniteImage
<1> HIDE DEF T
<1>6. Expected \in SUBSET T
  BY <1>2
<1> QED
  BY <1>5, <1>6, FS_Subset

LEMMA FinitelyTouched ==
  ASSUME machine \in Machines
  PROVE  IsFiniteSet(Touched)
<1> DEFINE A == {EfiTablePage, EfiVendorPage, machine.rsdp \div PAGE_SIZE, machine.root \div PAGE_SIZE}
           B == {t.address \div PAGE_SIZE : t \in Range(machine.tables)}
           C == {DevicePage(p[1], p[2], p[3]) + p[4] : p \in Expected}
           D == {machine.config[p].abar : p \in DOMAIN machine.config}
           F == machine.free
<1>1. IsFiniteSet(A)
  <2> DEFINE a == machine.rsdp \div PAGE_SIZE
             b == machine.root \div PAGE_SIZE
  <2>1. A = (({EfiTablePage} \cup {EfiVendorPage}) \cup {a}) \cup {b}
    OBVIOUS
  <2> HIDE DEF a, b, A
  <2>2. IsFiniteSet({EfiTablePage})
    BY FS_Singleton
  <2>3. IsFiniteSet({EfiTablePage} \cup {EfiVendorPage})
    BY <2>2, FS_AddElement
  <2>4. IsFiniteSet(({EfiTablePage} \cup {EfiVendorPage}) \cup {a})
    BY <2>3, FS_AddElement
  <2>5. IsFiniteSet((({EfiTablePage} \cup {EfiVendorPage}) \cup {a}) \cup {b})
    BY <2>4, FS_AddElement
  <2> QED
    BY <2>1, <2>5
<1>2. IsFiniteSet(B)
  <2> DEFINE S == 1 .. Len(machine.tables)
             f == [i \in S |-> machine.tables[i].address \div PAGE_SIZE]
  <2>1. machine.tables \in Seq([signature : STRING, address : Nat])
    BY MachineAssumption
  <2>2. DOMAIN machine.tables = S /\ Len(machine.tables) \in Nat
    BY <2>1
  <2>3. IsFiniteSet(S)
    BY <2>2, FS_Interval
  <2>4. B = {f[i] : i \in S}
    BY <2>2 DEF Range
  <2>5. f = [i \in S |-> f[i]]
    OBVIOUS
  <2> HIDE DEF S, f, B
  <2> QED
    BY <2>3, <2>4, <2>5, FiniteImage
<1>3. IsFiniteSet(C)
  <2> DEFINE f == [p \in Expected |-> DevicePage(p[1], p[2], p[3]) + p[4]]
  <2>1. C = {f[p] : p \in Expected} /\ f = [p \in Expected |-> f[p]]
    OBVIOUS
  <2> HIDE DEF f, C
  <2> QED
    BY <2>1, FinitePlaces, FiniteImage
<1>4. IsFiniteSet(D)
  <2> DEFINE f == [p \in DOMAIN machine.config |-> machine.config[p].abar]
  <2>1. D = {f[p] : p \in DOMAIN machine.config} /\ f = [p \in DOMAIN machine.config |-> f[p]]
    OBVIOUS
  <2>2. IsFiniteSet(DOMAIN machine.config)
    BY MachineAssumption
  <2> HIDE DEF f, D
  <2> QED
    BY <2>1, <2>2, FiniteImage
<1>5. Touched = (((A \cup B) \cup C) \cup D) \cup F
  BY DEF Touched
<1>8. IsFiniteSet(F)
  BY MachineAssumption
<1> HIDE DEF A, B, C, D, F
<1>6. IsFiniteSet(A \cup B)
  BY <1>1, <1>2, FS_Union
<1>7. IsFiniteSet((A \cup B) \cup C)
  BY <1>3, <1>6, FS_Union
<1>9. IsFiniteSet(((A \cup B) \cup C) \cup D)
  BY <1>4, <1>7, FS_Union
<1> QED
  BY <1>5, <1>8, <1>9, FS_Union

(* What is read of a structure is on its page.                              *)
LEMMA PartOfPage ==
  ASSUME NEW address \in Nat, NEW size \in Nat \ {0}, OnePage(address, size),
         NEW offset \in Nat, NEW n \in Nat \ {0}, offset + n <= size
  PROVE  PagesOf(address + offset, n) \subseteq {address \div PAGE_SIZE}
<1> DEFINE low == address \div PAGE_SIZE
           high == (address + size - 1) \div PAGE_SIZE
           from == (address + offset) \div PAGE_SIZE
           to == (address + offset + n - 1) \div PAGE_SIZE
<1>1. PAGE_SIZE \in Nat \ {0}
  BY DEF PAGE_SIZE
<1>2. ASSUME NEW x \in Nat, NEW y \in Nat, x <= y
      PROVE  x \div PAGE_SIZE \in Nat /\ x \div PAGE_SIZE <= y \div PAGE_SIZE
  <2> DEFINE d == PAGE_SIZE
             q == x \div d
  <2>1. q \in Nat /\ x % d \in 0 .. d - 1 /\ x = (d * q) + (x % d)
    BY <1>1, Quotient
  <2> HIDE DEF q, d
  <2>2. d \in Nat \ {0}
    BY <1>1 DEF d
  <2>3. d * q \in Nat
    BY <2>1, <2>2
  <2>4. d * q <= y
    BY <1>2, <2>1, <2>2, <2>3
  <2>5. q <= y \div d
    BY <2>1, <2>2, <2>4, QuotientAbove
  <2> QED
    BY <2>1, <2>5 DEF q, d
<1>3. /\ address + offset \in Nat /\ address + offset + n - 1 \in Nat /\ address + size - 1 \in Nat
      /\ address <= address + offset /\ address + offset + n - 1 <= address + size - 1
      /\ address <= address + size - 1
  OBVIOUS
<1>4. low \in Nat /\ high \in Nat /\ from \in Nat /\ to \in Nat /\ low <= from /\ to <= high /\ low <= high
  BY <1>2, <1>3
<1>5. Cardinality(low .. high) = 1
  BY DEF OnePage, PagesOf
<1>6. PagesOf(address + offset, n) = from .. to
  BY DEF PagesOf
<1> HIDE DEF low, high, from, to
<1>7. low = high
  BY <1>4, <1>5, FS_Interval
<1>8. from .. to \subseteq {low}
  BY <1>4, <1>7
<1> QED
  BY <1>6, <1>8 DEF low

LEMMA PageNumbers ==
  ASSUME machine \in Machines, NEW e \in 1 .. Len(machine.mcfg), NEW b \in 0 .. BusNumbers - 1,
         NEW d \in 0 .. DevicesPerBus - 1
  PROVE  /\ DevicePage(e, b, d) \in Nat /\ DevicePage(e, b, d) + 0 = DevicePage(e, b, d)
         /\ BusPage(e, b) = DevicePage(e, b, 0)
<1>1. machine.mcfg[e].base \in Nat
  BY Entries
<1>2. DevicesPerBus \in Nat /\ FunctionsPerDevice \in Nat /\ b \in Nat /\ d \in Nat
  BY WalkAssumption
<1>3. b * DevicesPerBus * FunctionsPerDevice \in Nat /\ d * FunctionsPerDevice \in Nat
      /\ 0 * FunctionsPerDevice = 0
  <2>1. b * DevicesPerBus \in Nat
    BY <1>2
  <2>2. \A x, y \in Nat : x * y \in Nat
    OBVIOUS
  <2> QED
    BY <1>2, <2>1, <2>2
<1>4. /\ BusPage(e, b) = machine.mcfg[e].base + b * DevicesPerBus * FunctionsPerDevice
      /\ DevicePage(e, b, d) = BusPage(e, b) + d * FunctionsPerDevice
      /\ DevicePage(e, b, 0) = BusPage(e, b) + 0 * FunctionsPerDevice
  BY DEF BusPage, DevicePage
<1> QED
  BY <1>1, <1>3, <1>4

LEMMA PlacesTouched ==
  ASSUME machine \in Machines, NEW e \in 1 .. Len(machine.mcfg), NEW b \in Buses(machine.mcfg[e]),
         NEW d \in 0 .. DevicesPerBus - 1
  PROVE  /\ BusPage(e, b) \in Touched /\ DevicePage(e, b, d) \in Touched
         /\ \A f \in 0 .. FunctionsPerDevice - 1 :
               f = 0 \/ Header(DevicePage(e, b, d)).multi => FunctionPage(e, b, d, f) \in Touched
<1>0. /\ 0 \in 0 .. DevicesPerBus - 1 /\ 0 \in 0 .. FunctionsPerDevice - 1
      /\ e \in DOMAIN machine.mcfg /\ b \in 0 .. BusNumbers - 1
  BY WalkAssumption, Entries DEF Buses
<1>1. ASSUME NEW c \in 0 .. DevicesPerBus - 1, NEW f \in 0 .. FunctionsPerDevice - 1,
             f = 0 \/ Header(DevicePage(e, b, c)).multi
      PROVE  DevicePage(e, b, c) + f \in Touched
  <2>1. <<e, b, c, f>> \in Expected
    BY <1>0, <1>1, Expects
  <2>2. \E p \in Expected : DevicePage(e, b, c) + f = DevicePage(p[1], p[2], p[3]) + p[4]
    BY <2>1
  <2> QED
    BY <2>2 DEF Touched
<1>2. DevicePage(e, b, d) \in Touched /\ DevicePage(e, b, 0) \in Touched
  BY <1>0, <1>1, PageNumbers
<1>3. BusPage(e, b) \in Touched
  BY <1>0, <1>2, PageNumbers
<1> QED
  BY <1>1, <1>2, <1>3 DEF FunctionPage

(* The reads of the ACPI tables.                                            *)
LEMMA RsdpReads ==
  ASSUME machine \in Machines, Sound
  PROVE  RevisionBytes \cup RootAddressBytes \subseteq {machine.rsdp \div PAGE_SIZE}
<1>1. machine.rsdp \in Nat /\ OnePage(machine.rsdp, 36)
  BY MachineAssumption DEF Sound
<1>2. /\ PagesOf(machine.rsdp + 15, 1) \subseteq {machine.rsdp \div PAGE_SIZE}
      /\ PagesOf(machine.rsdp + 16, 4) \subseteq {machine.rsdp \div PAGE_SIZE}
      /\ PagesOf(machine.rsdp + 24, 8) \subseteq {machine.rsdp \div PAGE_SIZE}
  BY <1>1, PartOfPage
<1> QED
  BY <1>2 DEF RevisionBytes, RootAddressBytes, RevisionAt, RsdtAddressAt, XsdtAddressAt

LEMMA RootReads ==
  ASSUME machine \in Machines, Sound, index \in Nat \ {0}
  PROVE  FindBytes \subseteq {machine.root \div PAGE_SIZE} /\ RootCount = Len(machine.tables)
<1>1. /\ machine.root \in Nat /\ OnePage(machine.root, machine.rootLength) /\ machine.revision \in {0, 1, 2}
      /\ machine.rootLength >= 36
  BY MachineAssumption DEF Sound, HeaderSize
<1>2. RootCount = Len(machine.tables) /\ Len(machine.tables) \in Nat
  <2>1. RootCount = Len(machine.tables)
    BY <1>1, MachineAssumption DEF RootCount
  <2>2. machine.tables \in Seq([signature : STRING, address : Nat])
    BY MachineAssumption
  <2> QED
    BY <2>1, <2>2
<1>n. machine.rootLength \in Nat
  BY <1>1, MachineAssumption
<1>3. LengthBytes(machine.root) \subseteq {machine.root \div PAGE_SIZE}
  <2>1. 4 \in Nat \ {0} /\ 4 \in Nat /\ 4 + 4 <= machine.rootLength /\ machine.rootLength \in Nat \ {0}
    BY <1>1, <1>n
  <2> QED
    BY <1>1, <2>1, PartOfPage DEF LengthBytes, LengthAt
<1>4. ASSUME index <= RootCount PROVE EntryBytes(index - 1) \subseteq {machine.root \div PAGE_SIZE}
  <2> DEFINE size == AddressSize(machine.revision)
  <2>1. size \in {4, 8}
    BY DEF AddressSize
  <2>2. PICK room \in Nat : room = machine.rootLength - 36
    BY <1>1, <1>n
  <2>3. RootCount = room \div size
    BY <2>2 DEF RootCount, AddressCount, HeaderSize
  <2> HIDE DEF size
  <2>4. size * index <= room
    <3>1. CASE size = 4
      BY <1>2, <1>4, <2>3, <3>1
    <3>2. CASE size = 8
      BY <1>2, <1>4, <2>3, <3>2
    <3> QED
      BY <2>1, <3>1, <3>2
  <2>5. PICK offset \in Nat : offset = 36 + size * (index - 1)
    BY <2>1
  <2>6. offset + size <= machine.rootLength
    <3>1. CASE size = 4
      BY <1>n, <2>2, <2>4, <2>5, <3>1
    <3>2. CASE size = 8
      BY <1>n, <2>2, <2>4, <2>5, <3>2
    <3> QED
      BY <2>1, <3>1, <3>2
  <2>7. size \in Nat \ {0} /\ machine.rootLength \in Nat \ {0}
    BY <1>1, <1>n, <2>1
  <2>8. PagesOf(machine.root + offset, size) \subseteq {machine.root \div PAGE_SIZE}
    BY <1>1, <2>6, <2>7, PartOfPage
  <2> QED
    BY <2>5, <2>8 DEF EntryBytes, AddressAt, HeaderSize, size
<1> QED
  BY <1>2, <1>3, <1>4 DEF FindBytes

LEMMA TableReads ==
  ASSUME machine \in Machines, Sound, NEW i \in 1 .. Len(machine.tables)
  PROVE  /\ machine.tables[i].address \div PAGE_SIZE \in Touched
         /\ PagesOf(machine.tables[i].address + SignatureAt, 4) \subseteq {machine.tables[i].address \div PAGE_SIZE}
<1>1. machine.tables \in Seq([signature : STRING, address : Nat])
  BY MachineAssumption
<1>2. machine.tables[i] \in Range(machine.tables)
  <2>1. DOMAIN machine.tables = 1 .. Len(machine.tables)
    BY <1>1
  <2> QED
    BY <2>1 DEF Range
<1>3. machine.tables[i].address \in Nat
  <2> DEFINE S == [signature : STRING, address : Nat]
  <2>1. machine.tables[i] \in S
    <3>1. machine.tables \in Seq(S)
      BY <1>1
    <3> HIDE DEF S
    <3> QED
      BY <3>1, ElementOfSeq
  <2> QED
    BY <2>1
<1>4. machine.tables[i].address \div PAGE_SIZE \in Touched
  BY <1>2 DEF Touched
<1>5. OnePage(machine.tables[i].address, 36)
  BY <1>2 DEF Sound
<1>6. PagesOf(machine.tables[i].address + 0, 4) \subseteq {machine.tables[i].address \div PAGE_SIZE}
  <2>1. 0 \in Nat /\ 4 \in Nat \ {0} /\ 36 \in Nat \ {0} /\ 0 + 4 <= 36
    OBVIOUS
  <2> DEFINE a == machine.tables[i].address
  <2>2. a \in Nat /\ OnePage(a, 36)
    BY <1>3, <1>5
  <2> HIDE DEF a
  <2>3. PagesOf(a + 0, 4) \subseteq {a \div PAGE_SIZE}
    BY <2>1, <2>2, PartOfPage
  <2> QED
    BY <2>3 DEF a
<1> QED
  BY <1>4, <1>6 DEF SignatureAt

LEMMA McfgReads ==
  ASSUME machine \in Machines, Sound, WalkAt
  PROVE  McfgBytes \subseteq {machine.mcfgAt \div PAGE_SIZE}
<1>1. machine.mcfgAt \in Nat /\ OnePage(machine.mcfgAt, machine.mcfgLength)
  BY MachineAssumption DEF Sound
<1>2. PICK n \in Nat : n = Len(machine.mcfg) /\ McfgCount(machine.mcfgLength) = n
  BY Entries
<1>3. machine.mcfgLength = 44 + 16 * n
  BY <1>2, MachineAssumption DEF McfgLength, HeaderSize, McfgEntrySize
<1>4. LengthBytes(machine.mcfgAt) \subseteq {machine.mcfgAt \div PAGE_SIZE}
  <2>1. 4 \in Nat /\ 4 \in Nat \ {0} /\ 4 + 4 <= machine.mcfgLength /\ machine.mcfgLength \in Nat \ {0}
    BY <1>3
  <2> QED
    BY <1>1, <2>1, PartOfPage DEF LengthBytes, LengthAt
<1>5. ASSUME walk.entry <= McfgCount(machine.mcfgLength)
      PROVE  PagesOf(machine.mcfgAt + McfgEntryAt(walk.entry - 1), McfgEntrySize)
                \subseteq {machine.mcfgAt \div PAGE_SIZE}
  <2>1. walk.entry \in 1 .. n
    BY <1>2, <1>5, EntryHere
  <2>2. PICK offset \in Nat : offset = 44 + 16 * (walk.entry - 1)
    BY <2>1
  <2>3. offset + 16 <= machine.mcfgLength /\ machine.mcfgLength \in Nat \ {0} /\ 16 \in Nat \ {0}
    BY <1>3, <2>1, <2>2
  <2>4. PagesOf(machine.mcfgAt + offset, 16) \subseteq {machine.mcfgAt \div PAGE_SIZE}
    BY <1>1, <2>3, PartOfPage
  <2>5. McfgEntryAt(walk.entry - 1) = offset
    BY <2>2 DEF McfgEntryAt, HeaderSize, McfgEntrySize
  <2> QED
    BY <2>4, <2>5 DEF McfgEntrySize
<1> QED
  BY <1>4, <1>5 DEF McfgBytes

(* All of them are numbers of pages.                                        *)
LEMMA PagesAreNumbers ==
  ASSUME machine \in Machines
  PROVE  Touched \subseteq Nat
<1>1. {EfiTablePage, EfiVendorPage, machine.rsdp \div PAGE_SIZE, machine.root \div PAGE_SIZE} \subseteq Nat
  <2>1. machine.rsdp \in Nat /\ machine.root \in Nat /\ PAGE_SIZE \in Nat \ {0}
    BY MachineAssumption DEF PAGE_SIZE
  <2>2. machine.rsdp \div PAGE_SIZE \in Nat /\ machine.root \div PAGE_SIZE \in Nat
    BY <2>1, Quotient
  <2>3. EfiTablePage \in Nat /\ EfiVendorPage \in Nat
    BY DEF EfiTablePage, EfiVendorPage
  <2> QED
    BY <2>2, <2>3
<1>2. ASSUME NEW t \in Range(machine.tables) PROVE t.address \div PAGE_SIZE \in Nat
  <2>1. machine.tables \in Seq([signature : STRING, address : Nat])
    BY MachineAssumption
  <2>2. PICK i \in DOMAIN machine.tables : t = machine.tables[i]
    BY DEF Range
  <2> DEFINE S == [signature : STRING, address : Nat]
  <2>3. t \in S
    <3>1. machine.tables \in Seq(S) /\ DOMAIN machine.tables = 1 .. Len(machine.tables)
      BY <2>1
    <3> HIDE DEF S
    <3> QED
      BY <2>2, <3>1, ElementOfSeq
  <2>4. t.address \in Nat
    BY <2>3
  <2> QED
    BY <2>4, Quotient DEF PAGE_SIZE
<1>3. ASSUME NEW p \in Expected PROVE DevicePage(p[1], p[2], p[3]) + p[4] \in Nat
  <2>1. p[1] \in DOMAIN machine.mcfg /\ p[2] \in Buses(machine.mcfg[p[1]])
    BY Places4
  <2>2. p[1] \in 1 .. Len(machine.mcfg) /\ p[2] \in 0 .. BusNumbers - 1
    BY <2>1, Entries DEF Buses
  <2>3. p[3] \in 0 .. DevicesPerBus - 1 /\ p[4] \in 0 .. FunctionsPerDevice - 1
    BY Places4
  <2>4. DevicePage(p[1], p[2], p[3]) \in Nat /\ p[4] \in Nat
    BY <2>2, <2>3, PageNumbers, WalkAssumption
  <2> QED
    BY <2>4
<1>4. ASSUME NEW p \in DOMAIN machine.config PROVE machine.config[p].abar \in Nat
  BY MachineAssumption
<1>5. machine.free \subseteq Nat
  BY MachineAssumption
<1> QED
  BY <1>1, <1>2, <1>3, <1>4, <1>5 DEF Touched

-----------------------------------------------------------------------------
(* Frames for tables.  The free frames have room for n more and the tables   *)
(* of all the pages of T when so many of them are in one run.               *)
Room(free, tables, T, n) ==
  \E lo, hi \in Nat : lo .. hi \subseteq free /\ n + Cardinality(Needed(tables, T)) <= hi - lo + 1

(* There are finitely many tables for finitely many pages.                   *)
LEMMA FiniteTables ==
  ASSUME NEW T, IsFiniteSet(T), NEW tables
  PROVE  IsFiniteSet(Needed(tables, T))
<1> DEFINE f == [p \in T |-> TablesFor(p)]
           S == {f[p] : p \in T}
<1>1. IsFiniteSet(S)
  <2>1. f = [p \in T |-> f[p]]
    OBVIOUS
  <2> HIDE DEF f
  <2> QED
    BY <2>1, FiniteImage
<1>2. ASSUME NEW p PROVE IsFiniteSet(TablesFor(p))
  <2> DEFINE g == [l \in Levels |-> <<l, p \div (PagesPerTable ^ l)>>]
  <2>1. TablesFor(p) = {g[l] : l \in Levels} /\ g = [l \in Levels |-> g[l]]
    BY DEF TablesFor
  <2>2. IsFiniteSet(Levels)
    <3>1. 1 \in Int /\ 3 \in Int
      OBVIOUS
    <3> QED
      BY <3>1, FS_Interval DEF Levels
  <2> HIDE DEF g
  <2> QED
    BY <2>1, <2>2, FiniteImage
<1>3. \A s \in S : IsFiniteSet(s)
  BY <1>2
<1>4. UNION {TablesFor(p) : p \in T} = UNION S
  OBVIOUS
<1> HIDE DEF S
<1>5. IsFiniteSet(UNION S)
  BY <1>1, <1>3, FS_UNION
<1>6. PICK U : U = UNION S
  OBVIOUS
<1>7. Needed(tables, T) = U \ tables /\ IsFiniteSet(U)
  BY <1>4, <1>5, <1>6 DEF Needed
<1>8. IsFiniteSet(U \ tables)
  BY <1>7, FS_Difference
<1> QED
  BY <1>7, <1>8

(* No table is made sooner than itself.                                     *)
LEMMA NotSooner ==
  ASSUME NEW run, run \subseteq Nat, NEW tables, NEW t \in Needed(tables, run)
  PROVE  ~Sooner(t, t, run)
<1> DEFINE P == {p \in run : t \in TablesFor(p)}
<1>1. PICK p \in run : t \in TablesFor(p)
  BY DEF Needed
<1>2. P \subseteq Nat /\ P # {}
  BY <1>1
<1>3. FirstPage(t, run) = Min(P)
  BY DEF FirstPage
<1> HIDE DEF P
<1>4. FirstPage(t, run) \in Nat
  BY <1>2, <1>3, LeastElement
<1>5. t[1] \in Nat
  BY <1>1 DEF TablesFor, Levels
<1> QED
  BY <1>4, <1>5 DEF Sooner

(* Where there is room for the tables of T, those of a run in T are made,    *)
(* and there is as much room left beside the others.                        *)
LEMMA TablesFit ==
  ASSUME NEW T, IsFiniteSet(T), T \subseteq Nat, NEW free, IsFiniteSet(free), free \subseteq Nat, 0 \notin free,
         NEW tables, NEW run, run \subseteq T, NEW n \in Nat, Room(free, tables, T, n)
  PROVE  /\ TablesMade(free, tables, run) = Needed(tables, run)
         /\ Room(free \ FramesTaken(free, tables, run), tables \cup TablesMade(free, tables, run), T, n)
<1> DEFINE N == Needed(tables, run)
           A == Needed(tables, T)
           k == Cardinality(N)
<1>1. N \subseteq A
  BY DEF Needed
<1>2. IsFiniteSet(A) /\ Cardinality(A) \in Nat
  BY FiniteTables, FS_CardinalityType
<1>3. IsFiniteSet(N) /\ k \in Nat /\ k <= Cardinality(A)
  <2>1. N \in SUBSET A
    BY <1>1
  <2> HIDE DEF N, A
  <2> QED
    BY <1>2, <2>1, FS_Subset, FS_CardinalityType DEF k
<1>4. PICK lo \in Nat, hi \in Nat : lo .. hi \subseteq free /\ n + Cardinality(A) <= hi - lo + 1
  BY DEF Room
<1>5. Cardinality(free) \in Nat /\ k <= Cardinality(free)
  <2>1. Cardinality(free) \in Nat
    BY FS_CardinalityType
  <2>2. lo .. hi \in SUBSET free
    BY <1>4
  <2>3. Cardinality(lo .. hi) <= Cardinality(free)
    BY <2>2, FS_Subset
  <2>4. Cardinality(lo .. hi) = IF lo > hi THEN 0 ELSE hi - lo + 1
    BY FS_Interval
  <2> HIDE DEF k, A
  <2>5. k <= hi - lo + 1
    BY <1>2, <1>3, <1>4
  <2> QED
    BY <1>3, <2>1, <2>3, <2>4, <2>5
<1> HIDE DEF k
<1>6. ASSUME NEW t \in N
      PROVE  Cardinality({u \in N : Sooner(u, t, run)}) < Cardinality(free)
  <2> DEFINE S == {u \in N : Sooner(u, t, run)}
  <2>1. ~Sooner(t, t, run)
    BY NotSooner
  <2> HIDE DEF N
  <2>2. S \in SUBSET (N \ {t})
    BY <2>1
  <2> HIDE DEF S
  <2>3. IsFiniteSet(N \ {t}) /\ Cardinality(N \ {t}) = k - 1
    BY <1>3, <1>6, FS_RemoveElement DEF k
  <2>4. IsFiniteSet(S) /\ Cardinality(S) <= k - 1
    BY <2>2, <2>3, FS_Subset
  <2>5. Cardinality(S) \in Nat
    BY <2>4, FS_CardinalityType
  <2>6. Cardinality(S) < Cardinality(free)
    BY <1>3, <1>5, <2>4, <2>5
  <2> QED
    BY <2>6 DEF S
<1>7. TablesMade(free, tables, run) = N
  BY <1>6 DEF TablesMade
<1>8. FramesTaken(free, tables, run) = {f \in free : Cardinality({g \in free : g < f}) < k}
  BY DEF FramesTaken, k
<1> DEFINE rest == free \ FramesTaken(free, tables, run)
<1>9. ASSUME NEW f \in lo + k .. hi PROVE f \in rest
  <2> DEFINE S == {g \in free : g < f}
             L == lo .. lo + k - 1
  <2>1. f \in free /\ f \in Nat
    BY <1>3, <1>4
  <2>2. L \in SUBSET S
    BY <1>3, <1>4
  <2>3. S \in SUBSET free
    OBVIOUS
  <2>4. Cardinality(L) = k
    <3>1. Cardinality(L) = IF lo > lo + k - 1 THEN 0 ELSE (lo + k - 1) - lo + 1
      BY <1>3, FS_Interval
    <3> QED
      BY <1>3, <3>1
  <2> HIDE DEF S, L
  <2>5. IsFiniteSet(S)
    BY <2>3, FS_Subset
  <2>6. Cardinality(L) <= Cardinality(S) /\ Cardinality(S) \in Nat
    BY <2>2, <2>5, FS_Subset, FS_CardinalityType
  <2>7. ~(Cardinality(S) < k)
    BY <1>3, <2>4, <2>6
  <2> QED
    BY <1>8, <2>1, <2>7 DEF S
<1>10. Needed(tables \cup N, T) = A \ N
  <2>1. PICK U : U = UNION {TablesFor(p) : p \in T}
    OBVIOUS
  <2>2. A = U \ tables /\ Needed(tables \cup N, T) = U \ (tables \cup N)
    BY <2>1 DEF Needed
  <2>3. PICK B : B = N
    OBVIOUS
  <2>4. U \ (tables \cup B) = (U \ tables) \ B
    OBVIOUS
  <2> HIDE DEF A, N
  <2> QED
    BY <2>2, <2>3, <2>4
<1>11. Cardinality(A \ N) = Cardinality(A) - k
  <2> HIDE DEF A, N
  <2>1. A \cap N = N
    BY <1>1
  <2> QED
    BY <1>2, <2>1, FS_Difference DEF k
<1>12. Room(rest, tables \cup N, T, n)
  <2> HIDE DEF A, N, rest
  <2>1. lo + k \in Nat
    BY <1>3
  <2>2. n + Cardinality(Needed(tables \cup N, T)) <= hi - (lo + k) + 1
    <3>1. PICK K \in Nat : K = Cardinality(A)
      BY <1>2
    <3>2. Cardinality(Needed(tables \cup N, T)) = K - k /\ n + K <= hi - lo + 1
      BY <1>4, <1>10, <1>11, <3>1
    <3> QED
      BY <1>3, <3>2
  <2>3. lo + k .. hi \subseteq rest
    BY <1>9
  <2> QED
    BY <2>1, <2>2, <2>3 DEF Room
<1> QED
  BY <1>7, <1>12

(* Where there is room for c frames and more, the allocator has a run of c,  *)
(* and the room for more is left behind it.                                 *)
LEMMA RunFits ==
  ASSUME NEW free, IsFiniteSet(free), free \subseteq Nat, NEW tables, NEW T, IsFiniteSet(T),
         NEW c \in Nat \ {0}, NEW n \in Nat, Room(free, tables, T, c + n)
  PROVE  /\ Fitting(free, c) # {} /\ Granted(free, c) = Run(LowestRun(free, c), c)
         /\ LowestRun(free, c) \in Nat /\ Run(LowestRun(free, c), c) \subseteq free
         /\ Room(free \ Granted(free, c), tables, T, n)
<1> DEFINE K == Cardinality(Needed(tables, T))
<1>1. K \in Nat
  BY FiniteTables, FS_CardinalityType
<1>2. PICK lo \in Nat, hi \in Nat : lo .. hi \subseteq free /\ (c + n) + K <= hi - lo + 1
  BY DEF Room
<1>3. lo \in Fitting(free, c)
  <2>1. lo \in lo .. hi /\ lo .. lo + c - 1 \subseteq lo .. hi
    BY <1>1, <1>2
  <2> QED
    BY <1>2, <2>1 DEF Fitting, Run
<1>4. Fitting(free, c) \subseteq free /\ \A f \in Fitting(free, c) : Run(f, c) \subseteq free
  BY DEF Fitting
<1>5. PICK f \in Fitting(free, c) : f = LowestRun(free, c) /\ f <= lo
  <2>1. LowestRun(free, c) = Min(Fitting(free, c))
    BY <1>3 DEF LowestRun
  <2>2. Fitting(free, c) \subseteq Nat /\ Fitting(free, c) # {}
    BY <1>3, <1>4
  <2> QED
    BY <1>3, <2>1, <2>2, LeastElement
<1>6. Granted(free, c) = Run(f, c) /\ f \in Nat
  BY <1>3, <1>4, <1>5 DEF Granted
<1>7. lo + c .. hi \subseteq free \ Run(f, c)
  BY <1>2, <1>5, <1>6 DEF Run
<1>8. lo + c \in Nat /\ n + K <= hi - (lo + c) + 1
  BY <1>1, <1>2
<1> HIDE DEF K
<1>9. Room(free \ Run(f, c), tables, T, n)
  BY <1>7, <1>8 DEF Room, K
<1> QED
  BY <1>3, <1>4, <1>5, <1>6, <1>9

(* The memory of a machine, with n frames of its own left beside those for   *)
(* the tables of everything that kmain touches.                             *)
IsPool(m) == m = [free |-> m.free, tables |-> m.tables, mapped |-> m.mapped]
Supply(m, n) == IsPool(m) /\ m.free \subseteq machine.free /\ Room(m.free, m.tables, Touched, n)

(* A part of the free frames: none of them is frame 0.                      *)
LEMMA FinitePool ==
  ASSUME machine \in Machines, NEW m, m.free \subseteq machine.free
  PROVE  IsFiniteSet(m.free) /\ m.free \subseteq Nat /\ 0 \notin m.free
<1>1. IsFiniteSet(machine.free) /\ machine.free \subseteq Nat \ LowMemory
  BY MachineAssumption
<1>2. 0 \in LowMemory
  BY AreaAssumption DEF LowMemory, Run
<1>3. m.free \in SUBSET machine.free
  OBVIOUS
<1> QED
  BY <1>1, <1>2, <1>3, FS_Subset

(* What kmain touches can be mapped, and what it maps stays mapped.         *)
LEMMA MapSupply ==
  ASSUME machine \in Machines, NEW m, NEW n \in Nat, Supply(m, n), NEW run, run \subseteq Touched
  PROVE  /\ Supply(MapPages(m, run), n)
         /\ run \subseteq MapPages(m, run).mapped /\ m.mapped \subseteq MapPages(m, run).mapped
<1>1. IsFiniteSet(Touched) /\ Touched \subseteq Nat
  BY FinitelyTouched, PagesAreNumbers
<1>2. IsFiniteSet(m.free) /\ m.free \subseteq Nat /\ 0 \notin m.free
  BY FinitePool DEF Supply
<1> DEFINE made == TablesMade(m.free, m.tables, run)
           left == m.free \ FramesTaken(m.free, m.tables, run)
           k == MapPages(m, run)
<1>3. made = Needed(m.tables, run) /\ Room(left, m.tables \cup made, Touched, n)
  BY <1>1, <1>2, TablesFit DEF Supply
<1>4. k = [free |-> left, tables |-> m.tables \cup made,
           mapped |-> m.mapped \cup PagesMapped(m.tables \cup made, run)]
  BY DEF MapPages
<1>5. run \subseteq PagesMapped(m.tables \cup made, run)
  <2>1. \A q \in run : TablesFor(q) \subseteq m.tables \cup Needed(m.tables, run)
    BY DEF Needed
  <2> HIDE DEF made
  <2>2. \A q \in run : TablesFor(q) \subseteq m.tables \cup made
    BY <1>3, <2>1
  <2>3. PICK tables : tables = m.tables \cup made
    OBVIOUS
  <2>4. run \subseteq PagesMapped(tables, run)
    BY <2>2, <2>3 DEF PagesMapped
  <2> QED
    BY <2>3, <2>4
<1>6. left \subseteq machine.free
  BY DEF Supply
<1> HIDE DEF made, left, k
<1>7. k.free = left /\ k.tables = m.tables \cup made /\ k.mapped = m.mapped \cup PagesMapped(m.tables \cup made, run)
  BY <1>4
<1>8. IsPool(k)
  BY <1>4, <1>7 DEF IsPool
<1> QED
  BY <1>3, <1>5, <1>6, <1>7, <1>8 DEF Supply, k

(* The same for one page.                                                   *)
LEMMA PageSupply ==
  ASSUME machine \in Machines, NEW m, NEW n \in Nat, Supply(m, n), NEW page \in Touched
  PROVE  /\ Supply(MapPage(m, page), n)
         /\ page \in MapPage(m, page).mapped /\ m.mapped \subseteq MapPage(m, page).mapped
<1>1. {page} \subseteq Touched
  OBVIOUS
<1> QED
  BY <1>1, MapSupply DEF MapPage

(* A run can be had and mapped.                                             *)
LEMMA RunSupply ==
  ASSUME machine \in Machines, NEW m, NEW c \in Nat \ {0}, NEW n \in Nat, Supply(m, c + n)
  PROVE  /\ Granted(m.free, c) # {}
         /\ LowestRun(m.free, c) \in machine.free
         /\ Run(LowestRun(m.free, c), c) \subseteq AllocateMapped(m, c).mapped
         /\ m.mapped \subseteq AllocateMapped(m, c).mapped
         /\ Supply(AllocateMapped(m, c), n)
<1>1. IsFiniteSet(Touched)
  BY FinitelyTouched
<1>2. IsFiniteSet(m.free) /\ m.free \subseteq Nat
  BY FinitePool DEF Supply
<1> DEFINE first == LowestRun(m.free, c)
           rest == m.free \ Granted(m.free, c)
           k == [m EXCEPT !.free = @ \ Granted(@, c)]
<1>3. /\ Granted(m.free, c) = Run(first, c) /\ first \in Nat /\ Run(first, c) \subseteq m.free
      /\ Room(rest, m.tables, Touched, n)
  BY <1>1, <1>2, RunFits DEF Supply
<1>4. first \in Run(first, c)
  BY <1>3 DEF Run
<1>5. k = [free |-> rest, tables |-> m.tables, mapped |-> m.mapped]
  <2>1. m = [free |-> m.free, tables |-> m.tables, mapped |-> m.mapped]
    BY DEF Supply, IsPool
  <2> QED
    BY <2>1
<1>6. rest \subseteq machine.free /\ machine.free \subseteq Touched /\ m.free \subseteq machine.free
  BY DEF Supply, Touched
<1>7. AllocateMapped(m, c) = MapPages(k, Run(first, c))
  BY DEF AllocateMapped, NewRun
<1> HIDE DEF k, rest, first
<1>8. k.free = rest /\ k.tables = m.tables /\ k.mapped = m.mapped /\ IsPool(k)
  <2>1. k.free = rest /\ k.tables = m.tables /\ k.mapped = m.mapped
    BY <1>5
  <2> QED
    BY <1>5, <2>1 DEF IsPool
<1>9. Supply(k, n)
  BY <1>3, <1>6, <1>8 DEF Supply
<1>10. Run(first, c) \subseteq Touched
  BY <1>3, <1>6
<1>11. /\ Supply(MapPages(k, Run(first, c)), n) /\ Run(first, c) \subseteq MapPages(k, Run(first, c)).mapped
       /\ m.mapped \subseteq MapPages(k, Run(first, c)).mapped
  BY <1>8, <1>9, <1>10, MapSupply
<1>12. first \in machine.free /\ Granted(m.free, c) # {}
  BY <1>3, <1>4, <1>6
<1> QED
  BY <1>7, <1>11, <1>12 DEF first

(* Who has room for more has room for less.                                 *)
LEMMA LessSupply ==
  ASSUME machine \in Machines, NEW m, NEW n \in Nat, NEW c \in Nat, c <= n, Supply(m, n)
  PROVE  Supply(m, c)
<1>1. Cardinality(Needed(m.tables, Touched)) \in Nat
  BY FinitelyTouched, FiniteTables, FS_CardinalityType
<1>2. PICK lo \in Nat, hi \in Nat :
        lo .. hi \subseteq m.free /\ n + Cardinality(Needed(m.tables, Touched)) <= hi - lo + 1
  BY DEF Supply, Room
<1>3. c + Cardinality(Needed(m.tables, Touched)) <= hi - lo + 1
  BY <1>1, <1>2
<1> QED
  BY <1>2, <1>3 DEF Supply, Room

(* A frame that is given back takes no room.                                *)
LEMMA FreedSupply ==
  ASSUME NEW m, NEW n, Supply(m, n), NEW f \in machine.free, NEW k,
         k = [m EXCEPT !.free = @ \cup {f}]
  PROVE  Supply(k, n) /\ k.mapped = m.mapped
<1>1. m = [free |-> m.free, tables |-> m.tables, mapped |-> m.mapped]
  BY DEF Supply, IsPool
<1>2. k = [free |-> m.free \cup {f}, tables |-> m.tables, mapped |-> m.mapped]
  BY <1>1
<1>3. k.free = m.free \cup {f} /\ k.tables = m.tables /\ k.mapped = m.mapped
  BY <1>2
<1>4. IsPool(k)
  BY <1>2, <1>3 DEF IsPool
<1>5. Room(k.free, k.tables, Touched, n)
  BY <1>3 DEF Supply, Room
<1>6. k.free \subseteq machine.free
  BY <1>3 DEF Supply
<1> QED
  BY <1>3, <1>4, <1>5, <1>6 DEF Supply

(* The registers of a controller's ports.                                   *)
LEMMA ControllerReads ==
  ASSUME machine \in Machines, Sound, NEW page, IsAhci(Header(page))
  PROVE  /\ Header(page).abar \in Touched
         /\ Header(page).slots \in 0 .. 31
         /\ \A i \in Header(page).implemented :
               i < Header(page).NP => PortPage(Header(page).abar, i) = Header(page).abar
<1>1. page \in DOMAIN machine.config /\ Header(page) = machine.config[page]
  BY ControllersAnswer DEF Header
<1>2. Header(page).abar \in Touched
  BY <1>1 DEF Touched
<1>3. Header(page).abar \in Nat /\ Header(page).implemented \subseteq Nat /\ Header(page).slots \in 0 .. 31
  <2>1. /\ machine.config[page].abar \in Nat /\ machine.config[page].slots \in 0 .. 31
        /\ machine.config[page].implemented \subseteq 0 .. 31
    BY <1>1, MachineAssumption
  <2> QED
    BY <1>1, <2>1
<1>4. ASSUME NEW i \in Header(page).implemented, i < Header(page).NP
      PROVE  PortPage(Header(page).abar, i) = Header(page).abar
  <2>1. i \in 0 .. 29
    <3>1. i < 30
      BY <1>1, <1>4 DEF Sound
    <3> QED
      BY <1>3, <3>1
  <2>2. (256 + 128 * i) \div 4096 = 0
    BY <2>1
  <2> QED
    BY <1>3, <2>2 DEF PortPage, PAGE_SIZE
<1> QED
  BY <1>2, <1>3, <1>4

(* What is written of a command area is in it.                              *)
LEMMA AreaInside ==
  ASSUME NEW base \in Nat, NEW slots \in 0 .. 31
  PROVE  AreaPages(base, slots) \subseteq Run(base, AreaFrames)
<1>1. /\ AreaFrames \in Nat \ {0, 1} /\ FISPage \in 0 .. AreaFrames - 1 /\ TablesPage \in 0 .. AreaFrames - 2
  BY AreaAssumption
<1>2. ASSUME NEW s \in 0 .. slots - 1 PROVE base + TablesPage + s \div 16 \in Run(base, AreaFrames)
  <2>1. s \div 16 \in {0, 1}
    OBVIOUS
  <2> QED
    BY <1>1, <2>1 DEF Run
<1>3. base \in Run(base, AreaFrames) /\ base + FISPage \in Run(base, AreaFrames)
  BY <1>1 DEF Run
<1> QED
  BY <1>2, <1>3 DEF AreaPages, TablePages

(* How many frames kmain is still to take for itself where it is: for the    *)
(* regions of the heap from a given one on, and for the drives that          *)
(* find_ahci has not come to.                                               *)
HeapLeft(i) == {x \in HeapNeeds : x[1] >= i}
Current == found[Len(found)]
DrivesLeft ==
  {d \in Drives : \/ ~Passed(d[1])
                  \/ pc = "port" /\ d[1] = Current /\ d[2] >= index - 1
                  \/ pc = "buffer" /\ d[1] = Current /\ d[2] >= index}
PerDrive == AreaFrames + 1

Fresh == {"serial", "serial_test", "tables", "responses", "memory"}
Middle == {"information", "memmap", "efi", "efi_vendor", "rsdp", "revision", "find", "print_mcfg"}

Outstanding ==
  CASE pc \in Fresh -> (1 + Cardinality(HeapNeeds)) + Cardinality(Drives) * PerDrive
    [] pc = "heap" -> Cardinality(HeapLeft(index)) + Cardinality(Drives) * PerDrive
    [] pc \in Middle -> Cardinality(Drives) * PerDrive
    [] pc \in {"find_ahci", "port"} -> Cardinality(DrivesLeft) * PerDrive
    [] pc = "buffer" -> 1 + Cardinality(DrivesLeft) * PerDrive
    [] OTHER -> 0

(* What holds on a sound machine until the processor raises something by     *)
(* itself: there are frames for what is still to come, and what is to be     *)
(* read next is mapped.                                                     *)
Safe ==
  /\ pc \notin {"int69", "panic", "reset", "retrying", "astray"}
  /\ Supply(memory, Outstanding)
  /\ pc = "efi_vendor" => EfiTablePage \in memory.mapped
  /\ pc = "revision" => machine.rsdp \div PAGE_SIZE \in memory.mapped
  /\ pc = "find" => /\ machine.root \div PAGE_SIZE \in memory.mapped
                    /\ \A j \in 1 .. index - 1 : machine.tables[j].signature # "MCFG"
  /\ pc \in Scanning \cup {"print_mcfg"} => machine.mcfgAt \div PAGE_SIZE \in memory.mapped
  /\ pc \in {"print_mcfg", "find_ahci"} /\ walk.at = "body" => FunctionHere \in memory.mapped
  /\ pc \in {"port", "buffer"} =>
        /\ walk.at # "body"
        /\ Current \in Expected /\ Passed(Current) /\ IsAhci(Controller)
        /\ Controller.abar \in memory.mapped
  /\ pc = "buffer" => IsDrive(Controller, Port)

SoundRuns == Sound /\ ~raised => Safe

(* What a sound machine is does not change while it boots.                  *)
LEMMA SoundStays ==
  ASSUME machine' = machine
  PROVE  /\ Touched' = Touched /\ Drives' = Drives /\ HeapNeeds' = HeapNeeds /\ (Sound' <=> Sound)
         /\ \A m, n : Supply(m, n)' <=> Supply(m, n)
<1>1. Touched' = Touched
  BY SameMachine DEF Touched
<1>2. Drives' = Drives /\ HeapNeeds' = HeapNeeds
  BY SameMachine DEF Drives, HeapNeeds, HeaderAt
<1>3. Sound' <=> Sound
  BY <1>1, <1>2 DEF Sound, EnoughMemory, HasRun
<1>4. \A m, n : Supply(m, n)' <=> Supply(m, n)
  BY <1>1 DEF Supply
<1> QED
  BY <1>1, <1>2, <1>3, <1>4

(* The frames still to be taken can be counted.                             *)
LEMMA FiniteNeeds ==
  ASSUME machine \in Machines
  PROVE  /\ IsFiniteSet(HeapNeeds) /\ IsFiniteSet(Drives)
         /\ machine.heap \in Seq(Nat \ {0, 1}) /\ Len(machine.heap) \in Nat
         /\ DOMAIN machine.heap = 1 .. Len(machine.heap)
         /\ \A k \in 1 .. Len(machine.heap) : machine.heap[k] \in Nat \ {0, 1}
<1>1. machine.heap \in Seq(Nat \ {0, 1})
  BY MachineAssumption
<1>2. /\ Len(machine.heap) \in Nat /\ DOMAIN machine.heap = 1 .. Len(machine.heap)
      /\ \A k \in 1 .. Len(machine.heap) : machine.heap[k] \in Nat \ {0, 1}
  BY <1>1
<1>3. IsFiniteSet(HeapNeeds)
  <2> DEFINE D == 1 .. Len(machine.heap)
             f == [k \in D |-> {<<k, x>> : x \in 1 .. machine.heap[k]}]
             S == {f[k] : k \in D}
  <2>1. IsFiniteSet(D)
    BY <1>2, FS_Interval
  <2>2. f = [k \in D |-> f[k]]
    OBVIOUS
  <2>3. IsFiniteSet(S)
    <3> HIDE DEF f, D
    <3> QED
      BY <2>1, <2>2, FiniteImage
  <2>4. ASSUME NEW k \in D PROVE IsFiniteSet(f[k])
    <3> DEFINE R == 1 .. machine.heap[k]
               g == [x \in R |-> <<k, x>>]
    <3>1. IsFiniteSet(R)
      <4>1. 1 \in Int /\ machine.heap[k] \in Int
        BY <1>2
      <4> QED
        BY <4>1, FS_Interval
    <3>2. f[k] = {g[x] : x \in R} /\ g = [x \in R |-> g[x]]
      OBVIOUS
    <3> HIDE DEF f, g, R
    <3> QED
      BY <3>1, <3>2, FiniteImage
  <2>5. \A s \in S : IsFiniteSet(s)
    BY <2>4
  <2>6. HeapNeeds = UNION S
    <3>1. S = {{<<k, x>> : x \in 1 .. machine.heap[k]} : k \in D}
      OBVIOUS
    <3>2. HeapNeeds = UNION {{<<k, x>> : x \in 1 .. machine.heap[k]} : k \in D}
      BY <1>2 DEF HeapNeeds
    <3> HIDE DEF S
    <3> QED
      BY <3>1, <3>2
  <2> HIDE DEF S
  <2> QED
    BY <2>3, <2>5, <2>6, FS_UNION
<1>4. IsFiniteSet(Drives)
  <2>1. IsFiniteSet(Expected) /\ IsFiniteSet(0 .. 31)
    <3>1. 0 \in Int /\ 31 \in Int
      OBVIOUS
    <3> QED
      BY <3>1, FinitePlaces, FS_Interval
  <2>2. IsFiniteSet(Expected \X (0 .. 31))
    BY <2>1, FS_Product
  <2>3. Drives \in SUBSET (Expected \X (0 .. 31))
    BY DEF Drives
  <2> QED
    BY <2>2, <2>3, FS_Subset
<1> QED
  BY <1>1, <1>2, <1>3, <1>4

(* Drives, and the parts of the heap, can be counted.                        *)
LEMMA Countable ==
  ASSUME machine \in Machines
  PROVE  /\ PerDrive \in Nat
         /\ \A S \in SUBSET Drives :
               /\ Cardinality(S) \in Nat /\ Cardinality(S) <= Cardinality(Drives)
               /\ Cardinality(S) * PerDrive \in Nat
               /\ Cardinality(S) * PerDrive <= Cardinality(Drives) * PerDrive
         /\ \A i : Cardinality(HeapLeft(i)) \in Nat /\ Cardinality(HeapLeft(i)) <= Cardinality(HeapNeeds)
         /\ Cardinality(HeapNeeds) \in Nat
<1>1. PICK d \in Nat : d = PerDrive
  BY AreaAssumption DEF PerDrive
<1>2. IsFiniteSet(HeapNeeds) /\ IsFiniteSet(Drives)
  BY FiniteNeeds
<1>3. ASSUME NEW S \in SUBSET Drives
      PROVE  /\ Cardinality(S) \in Nat /\ Cardinality(S) <= Cardinality(Drives)
             /\ Cardinality(S) * PerDrive \in Nat
             /\ Cardinality(S) * PerDrive <= Cardinality(Drives) * PerDrive
  <2>1. IsFiniteSet(S) /\ Cardinality(S) <= Cardinality(Drives)
    BY <1>2, FS_Subset
  <2>2. PICK s \in Nat, t \in Nat : s = Cardinality(S) /\ t = Cardinality(Drives)
    BY <1>2, <2>1, FS_CardinalityType
  <2>3. s * d \in Nat /\ (s <= t => s * d <= t * d)
    OBVIOUS
  <2> QED
    BY <1>1, <2>1, <2>2, <2>3
<1>4. ASSUME NEW i
      PROVE  Cardinality(HeapLeft(i)) \in Nat /\ Cardinality(HeapLeft(i)) <= Cardinality(HeapNeeds)
  <2>1. HeapLeft(i) \in SUBSET HeapNeeds
    BY DEF HeapLeft
  <2>2. IsFiniteSet(HeapLeft(i)) /\ Cardinality(HeapLeft(i)) <= Cardinality(HeapNeeds)
    BY <1>2, <2>1, FS_Subset
  <2> QED
    BY <2>2, FS_CardinalityType
<1> QED
  BY <1>1, <1>2, <1>3, <1>4, FS_CardinalityType

OutstandingCases ==
  /\ Outstanding \in Nat
  /\ pc \in Fresh => Outstanding = (1 + Cardinality(HeapNeeds)) + Cardinality(Drives) * PerDrive
  /\ pc = "heap" => Outstanding = Cardinality(HeapLeft(index)) + Cardinality(Drives) * PerDrive
  /\ pc \in Middle => Outstanding = Cardinality(Drives) * PerDrive
  /\ pc \in {"find_ahci", "port"} => Outstanding = Cardinality(DrivesLeft) * PerDrive
  /\ pc = "buffer" => Outstanding = 1 + Cardinality(DrivesLeft) * PerDrive
  /\ pc \in {"flush", "halted"} => Outstanding = 0

(* How many frames are outstanding, by where kmain is,                      *)
LEMMA OutstandingIs == machine \in Machines => OutstandingCases
<1> SUFFICES ASSUME machine \in Machines PROVE OutstandingCases
  OBVIOUS
<1>1. PICK a \in Nat, b \in Nat, c \in Nat, d \in Nat :
        /\ a = Cardinality(HeapNeeds) /\ b = Cardinality(HeapLeft(index))
        /\ c = Cardinality(Drives) * PerDrive /\ d = Cardinality(DrivesLeft) * PerDrive
  <2>1. DrivesLeft \in SUBSET Drives /\ Drives \in SUBSET Drives
    BY DEF DrivesLeft
  <2> QED
    BY <2>1, Countable
<1>2. Outstanding = CASE pc \in Fresh -> (1 + a) + c
                      [] pc = "heap" -> b + c
                      [] pc \in Middle -> c
                      [] pc \in {"find_ahci", "port"} -> d
                      [] pc = "buffer" -> 1 + d
                      [] OTHER -> 0
  BY <1>1 DEF Outstanding
<1>3. /\ pc \in Fresh => Outstanding = (1 + a) + c
      /\ pc = "heap" => Outstanding = b + c
      /\ pc \in Middle => Outstanding = c
      /\ pc \in {"find_ahci", "port"} => Outstanding = d
      /\ pc = "buffer" => Outstanding = 1 + d
      /\ pc \in {"flush", "halted"} => Outstanding = 0
      /\ pc \notin Fresh \cup Middle \cup {"heap", "find_ahci", "port", "buffer"} => Outstanding = 0
  BY <1>2 DEF Fresh, Middle
<1>4. Outstanding \in Nat
  BY <1>3
<1> QED
  BY <1>1, <1>3, <1>4 DEF OutstandingCases

(* and after a step.                                                        *)
LEMMA OutstandingThen == (machine \in Machines => OutstandingCases)'
<1>1. machine \in Machines => OutstandingCases
  BY OutstandingIs
<1> QED
  BY <1>1, PTL

(* Another mapping step leaves room for what is outstanding, and nothing      *)
(* that was mapped gets lost.                                               *)
Grows == memory.mapped \subseteq memory'.mapped /\ Supply(memory', Outstanding)

(* A page that kmain touches can be mapped,                                 *)
LEMMA MapsTouched ==
  ASSUME Base, Safe, NEW page \in Touched
  PROVE  /\ memory' = MapPage(memory, page) => Grows
         /\ page \in MapPage(memory, page).mapped
         /\ memory.mapped \subseteq MapPage(memory, page).mapped
<1>1. machine \in Machines /\ Outstanding \in Nat /\ Supply(memory, Outstanding)
  BY OutstandingIs DEF Base, Safe, OutstandingCases
<1> QED
  BY <1>1, PageSupply DEF Grows

(* nothing happens to what is mapped when nothing is,                       *)
LEMMA NoMapGrows ==
  ASSUME Safe, memory' = memory
  PROVE  Grows
BY DEF Safe, Grows

(* and what has been left is enough when no more than that is outstanding.  *)
LEMMA StillSupplied ==
  ASSUME Base, machine' = machine, NEW n \in Nat, Supply(memory', n), Outstanding' <= n
  PROVE  Supply(memory, Outstanding)'
<1>1. machine \in Machines /\ Outstanding' \in Nat
  BY OutstandingThen DEF Base, OutstandingCases
<1>2. Supply(memory', Outstanding')
  BY <1>1, LessSupply
<1> QED
  BY <1>2, SoundStays DEF Supply

(* What is outstanding where nothing is allocated.                          *)
LEMMA OutstandingLess ==
  ASSUME Base, machine' = machine
  PROVE  /\ pc \in Fresh /\ pc' \in Fresh => Outstanding' <= Outstanding
         /\ pc \in Middle /\ pc' \in Middle => Outstanding' <= Outstanding
         /\ pc = "heap" /\ pc' = "information" => Outstanding' <= Outstanding
         /\ pc' \in {"flush", "halted"} => Outstanding' <= Outstanding
         /\ pc = "print_mcfg" /\ pc' = "find_ahci" => Outstanding' <= Outstanding
         /\ /\ pc \in {"find_ahci", "port"} /\ pc' \in {"find_ahci", "port"}
            /\ DrivesLeft' \subseteq DrivesLeft
            => Outstanding' <= Outstanding
         /\ pc' = pc /\ index' = index /\ DrivesLeft' = DrivesLeft => Outstanding' = Outstanding
<1>m. machine \in Machines /\ machine' \in Machines
  BY DEF Base
<1>s. HeapNeeds' = HeapNeeds /\ Drives' = Drives
  BY SoundStays
<1>l. DrivesLeft \in SUBSET Drives /\ DrivesLeft' \in SUBSET Drives
  BY <1>s DEF DrivesLeft
<1>f. IsFiniteSet(Drives)
  BY <1>m, FiniteNeeds
<1>1. PICK a \in Nat, b \in Nat, d \in Nat, e \in Nat, g \in Nat, p \in Nat :
        /\ a = Cardinality(HeapNeeds) /\ b = Cardinality(HeapLeft(index)) /\ d = Cardinality(Drives)
        /\ e = Cardinality(DrivesLeft) /\ g = Cardinality(DrivesLeft') /\ p = PerDrive
  BY <1>m, <1>s, <1>l, <1>f, Countable, FS_CardinalityType
<1>2. /\ Outstanding \in Nat
      /\ pc \in Fresh => Outstanding = (1 + a) + d * p
      /\ pc = "heap" => Outstanding = b + d * p
      /\ pc \in Middle => Outstanding = d * p
      /\ pc \in {"find_ahci", "port"} => Outstanding = e * p
  BY <1>m, <1>1, OutstandingIs DEF OutstandingCases
<1>3. /\ Outstanding' \in Nat
      /\ pc' \in Fresh => Outstanding' = (1 + a) + d * p
      /\ pc' \in Middle => Outstanding' = d * p
      /\ pc' \in {"find_ahci", "port"} => Outstanding' = g * p
      /\ pc' \in {"flush", "halted"} => Outstanding' = 0
  BY <1>m, <1>s, <1>1, OutstandingThen DEF OutstandingCases, PerDrive
<1>4. d * p \in Nat /\ g * p \in Nat /\ (g <= e => g * p <= e * p) /\ g * p <= d * p
  <2>1. g <= d
    BY <1>f, <1>l, <1>1, FS_Subset
  <2>2. \A x, y \in Nat : x <= y => x * p <= y * p
    OBVIOUS
  <2> QED
    BY <2>1, <2>2
<1>5. DrivesLeft' \subseteq DrivesLeft => g <= e
  <2> SUFFICES ASSUME DrivesLeft' \subseteq DrivesLeft PROVE g <= e
    OBVIOUS
  <2>1. IsFiniteSet(DrivesLeft) /\ DrivesLeft' \in SUBSET DrivesLeft
    BY <1>f, <1>l, FS_Subset
  <2> QED
    BY <1>1, <2>1, FS_Subset
<1>6. pc' = pc /\ index' = index /\ DrivesLeft' = DrivesLeft => Outstanding' = Outstanding
  BY <1>s DEF Outstanding, HeapLeft, PerDrive
<1>7. "information" \in Middle /\ "print_mcfg" \in Middle
  BY DEF Middle
<1> QED
  BY <1>2, <1>3, <1>4, <1>5, <1>6, <1>7

(* Where the kernel maps and reads on the walk.                             *)
LEMMA WalkTouched ==
  ASSUME Base, WalkAt, walk.at \in InBus, walk.at # "device" \/ walk.device # DevicesPerBus
  PROVE  /\ DeviceHere \in Touched
         /\ walk.at \in {"function", "body"} /\ walk.function # walk.functions => FunctionHere \in Touched
<1>m. machine \in Machines
  BY DEF Base
<1>1. /\ walk.entry \in 1 .. Len(machine.mcfg) /\ walk.bus \in Buses(machine.mcfg[walk.entry])
  BY <1>m, EntryHere DEF WalkAt, InBus
<1>2. walk.device \in 0 .. DevicesPerBus - 1
  <2>1. walk.device \in 0 .. DevicesPerBus /\ DevicesPerBus \in Nat
    BY WalkAssumption, Fields4 DEF WalkAt
  <2>2. walk.device # DevicesPerBus
    BY <2>1 DEF WalkAt
  <2> QED
    BY <2>1, <2>2
<1>3. DeviceHere \in Touched
  BY <1>m, <1>1, <1>2, PlacesTouched DEF DeviceHere
<1>4. ASSUME walk.at \in {"function", "body"}, walk.function # walk.functions
      PROVE  FunctionHere \in Touched
  <2>1. /\ walk.functions = FunctionsOf(Header(DeviceHere)) /\ walk.function <= walk.functions
        /\ walk.function \in Nat /\ walk.functions \in Nat /\ FunctionsPerDevice \in Nat \ {0}
    BY <1>4, WalkAssumption, Fields4 DEF WalkAt
  <2>2. walk.function < walk.functions
    BY <1>4, <2>1
  <2>3. walk.function \in 0 .. FunctionsPerDevice - 1
    BY <2>1, <2>2 DEF FunctionsOf
  <2>4. walk.function = 0 \/ Header(DeviceHere).multi
    BY <2>1, <2>2 DEF FunctionsOf
  <2> QED
    BY <1>m, <1>1, <1>2, <2>3, <2>4, PlacesTouched DEF DeviceHere, FunctionHere
<1> QED
  BY <1>3, <1>4

(* A region of the heap.                                                    *)
LEMMA RegionLeft ==
  ASSUME machine \in Machines, NEW i \in 1 .. Len(machine.heap)
  PROVE  machine.heap[i] + Cardinality(HeapLeft(i + 1)) <= Cardinality(HeapLeft(i))
<1> DEFINE R == 1 .. machine.heap[i]
           f == [x \in R |-> <<i, x>>]
           B == {<<i, x>> : x \in R}
           C == HeapLeft(i + 1)
<1>0. /\ Len(machine.heap) \in Nat /\ DOMAIN machine.heap = 1 .. Len(machine.heap)
      /\ machine.heap[i] \in Nat \ {0, 1} /\ IsFiniteSet(HeapNeeds)
  BY FiniteNeeds
<1>1. IsFiniteSet(R) /\ Cardinality(R) = machine.heap[i]
  <2>1. 1 \in Int /\ machine.heap[i] \in Int /\ ~(1 > machine.heap[i])
    BY <1>0
  <2>2. IsFiniteSet(R) /\ Cardinality(R) = machine.heap[i] - 1 + 1
    BY <2>1, FS_Interval
  <2> QED
    BY <1>0, <2>2
<1>2. IsFiniteSet(B) /\ Cardinality(B) = Cardinality(R)
  <2>1. f \in Surjection(R, B)
    <3>1. f \in [R -> B]
      OBVIOUS
    <3>2. \A b \in B : \E x \in R : f[x] = b
      OBVIOUS
    <3> QED
      BY <3>1, <3>2 DEF Surjection
  <2>2. f \in Injection(R, B)
    <3>1. f \in [R -> B]
      OBVIOUS
    <3>2. \A x, y \in R : f[x] = f[y] => x = y
      OBVIOUS
    <3> QED
      BY <3>1, <3>2 DEF Injection, IsInjective
  <2> HIDE DEF f, R, B
  <2>3. IsFiniteSet(B) /\ (Cardinality(B) = Cardinality(R) <=> f \in Injection(R, B))
    BY <1>1, <2>1, FS_Surjection
  <2> QED
    BY <2>2, <2>3
<1>3. IsFiniteSet(HeapLeft(i)) /\ IsFiniteSet(C)
  <2>1. HeapLeft(i) \in SUBSET HeapNeeds /\ C \in SUBSET HeapNeeds
    BY DEF HeapLeft
  <2> QED
    BY <1>0, <2>1, FS_Subset
<1>4. B \cap C = {}
  <2> SUFFICES ASSUME NEW x \in B, x \in C PROVE FALSE
    OBVIOUS
  <2>1. x[1] = i /\ x[1] >= i + 1
    BY DEF HeapLeft
  <2> QED
    BY <1>0, <2>1
<1>5. B \cup C \subseteq HeapLeft(i)
  <2>1. ASSUME NEW x \in B PROVE x \in HeapLeft(i)
    <3>1. x \in HeapNeeds /\ x[1] = i
      BY <1>0 DEF HeapNeeds
    <3> QED
      BY <1>0, <3>1 DEF HeapLeft
  <2>2. ASSUME NEW x \in C PROVE x \in HeapLeft(i)
    <3>1. x \in HeapNeeds /\ x[1] >= i + 1
      BY <2>2 DEF HeapLeft
    <3>2. x[1] \in Nat
      BY <1>0, <3>1 DEF HeapNeeds
    <3> QED
      BY <1>0, <3>1, <3>2 DEF HeapLeft
  <2> QED
    BY <2>1, <2>2
<1> HIDE DEF R, f, B, C
<1>6. IsFiniteSet(B \cup C) /\ Cardinality(B \cup C) = Cardinality(B) + Cardinality(C) - Cardinality(B \cap C)
  BY <1>2, <1>3, FS_Union
<1>7. Cardinality(B \cap C) = 0
  BY <1>4, FS_EmptySet
<1>8. Cardinality(B \cup C) <= Cardinality(HeapLeft(i))
  BY <1>3, <1>5, FS_Subset
<1>9. Cardinality(C) \in Nat /\ Cardinality(HeapLeft(i)) \in Nat
  BY <1>3, FS_CardinalityType
<1> QED
  BY <1>0, <1>1, <1>2, <1>6, <1>7, <1>8, <1>9 DEF C

(* The next region of the heap is granted and mapped to its end.            *)
LEMMA HeapReady ==
  ASSUME Base, Safe, HeapGrowing
  PROVE  /\ HeapIsGranted /\ Readable(GrownHeap, Run(HeapStart, HeapFrames))
         /\ Readable(GrownHeap, {HeapStart})
         /\ Supply(GrownHeap, Cardinality(HeapLeft(index + 1)) + Cardinality(Drives) * PerDrive)
<1>1. machine \in Machines /\ index \in 1 .. Len(machine.heap) /\ pc = "heap"
  BY FiniteNeeds DEF Base, HeapGrowing, At
<1>2. PICK c \in Nat \ {0}, a \in Nat, b \in Nat, d \in Nat :
        /\ c = HeapFrames /\ a = Cardinality(HeapLeft(index)) /\ b = Cardinality(HeapLeft(index + 1))
        /\ d = Cardinality(Drives) * PerDrive
  <2>1. HeapFrames \in Nat \ {0}
    BY <1>1, FiniteNeeds DEF HeapFrames
  <2> QED
    BY <1>1, <2>1, Countable
<1>3. c + b <= a
  BY <1>1, <1>2, RegionLeft DEF HeapFrames
<1>4. Supply(memory, a + d)
  BY <1>1, <1>2, OutstandingIs DEF OutstandingCases, Safe
<1>5. Supply(memory, c + (b + d))
  <2>1. c + (b + d) \in Nat /\ a + d \in Nat /\ c + (b + d) <= a + d
    BY <1>3
  <2> QED
    BY <1>1, <1>4, <2>1, LessSupply
<1>6. /\ Granted(memory.free, c) # {} /\ LowestRun(memory.free, c) \in machine.free
      /\ Run(LowestRun(memory.free, c), c) \subseteq AllocateMapped(memory, c).mapped
      /\ Supply(AllocateMapped(memory, c), b + d)
  BY <1>1, <1>5, RunSupply
<1>7. LowestRun(memory.free, c) \in Run(LowestRun(memory.free, c), c)
  <2>1. LowestRun(memory.free, c) \in Nat
    BY <1>1, <1>6, MachineAssumption
  <2> QED
    BY <2>1 DEF Run
<1> QED
  BY <1>2, <1>6, <1>7 DEF HeapIsGranted, GrownHeap, HeapStart, Readable

(* The drive at a port that is about to be initialised.                     *)
LEMMA DriveReady ==
  ASSUME Base, Sound, Safe, Initializes
  PROVE  /\ Readable(NewArea, AreaWritten) /\ memory.mapped \subseteq NewArea.mapped
         /\ <<Current, Port>> \in DrivesLeft
         /\ Cardinality(DrivesLeft) \in Nat \ {0}
         /\ Supply(NewArea, 1 + (Cardinality(DrivesLeft) - 1) * PerDrive)
<1>m. machine \in Machines /\ index \in Nat \ {0}
  BY DEF Base
<1>1. /\ pc = "port" /\ Port < Controller.NP /\ IsDrive(Controller, Port) /\ Port \in Nat
      /\ Port = index - 1
  BY <1>m DEF Initializes, AtPort, At, Port
<1>2. /\ Current \in Expected /\ Passed(Current) /\ IsAhci(Controller) /\ Controller = HeaderAt(Current)
  BY <1>1 DEF Safe, Controller, Current
<1>3. Controller.NP \in 0 .. 31 /\ Controller.slots \in 0 .. 31
  <2>1. PICK page : Controller = Header(page)
    BY <1>2 DEF HeaderAt
  <2>2. page \in DOMAIN machine.config /\ Header(page) = machine.config[page]
    BY <1>m, <1>2, <2>1, ControllersAnswer DEF Header
  <2>3. machine.config[page].NP \in 0 .. 31 /\ machine.config[page].slots \in 0 .. 31
    BY <1>m, <2>2, MachineAssumption
  <2> QED
    BY <2>1, <2>2, <2>3
<1>4. Port \in 0 .. 31
  <2>1. PICK n \in 0 .. 31 : n = Controller.NP
    BY <1>3
  <2>2. PICK i \in Nat : i = Port
    BY <1>1
  <2>3. i < n
    BY <1>1, <2>1, <2>2
  <2>4. i \in 0 .. 31
    BY <2>3
  <2> QED
    BY <2>2, <2>4
<1>5. <<Current, Port>> \in DrivesLeft
  <2>1. <<Current, Port>> \in Drives
    BY <1>1, <1>2, <1>4 DEF Drives
  <2> QED
    BY <1>1, <2>1 DEF DrivesLeft
<1>6. IsFiniteSet(DrivesLeft)
  <2>1. DrivesLeft \in SUBSET Drives
    BY DEF DrivesLeft
  <2> QED
    BY <1>m, <2>1, FiniteNeeds, FS_Subset
<1>7. Cardinality(DrivesLeft) \in Nat \ {0}
  BY <1>5, <1>6, FS_EmptySet, FS_CardinalityType
<1>8. PICK e \in Nat, a \in Nat \ {0} : e = Cardinality(DrivesLeft) - 1 /\ a = AreaFrames
  BY <1>7, AreaAssumption
<1>9. Supply(memory, a + (1 + e * PerDrive)) /\ 1 + e * PerDrive \in Nat
  <2>1. Supply(memory, Cardinality(DrivesLeft) * PerDrive)
    BY <1>m, <1>1, OutstandingIs DEF OutstandingCases, Safe
  <2>2. Cardinality(DrivesLeft) = e + 1 /\ PerDrive = a + 1
    BY <1>7, <1>8 DEF PerDrive
  <2>3. (e + 1) * (a + 1) = a + (1 + e * (a + 1)) /\ 1 + e * (a + 1) \in Nat
    BY <1>8
  <2> QED
    BY <2>1, <2>2, <2>3
<1>10. /\ LowestRun(memory.free, a) \in machine.free
       /\ Run(LowestRun(memory.free, a), a) \subseteq AllocateMapped(memory, a).mapped
       /\ memory.mapped \subseteq AllocateMapped(memory, a).mapped
       /\ Supply(AllocateMapped(memory, a), 1 + e * PerDrive)
  BY <1>m, <1>9, RunSupply
<1>11. AreaWritten \subseteq Run(LowestRun(memory.free, a), a)
  <2>1. LowestRun(memory.free, a) \in Nat
    BY <1>m, <1>10, MachineAssumption
  <2> QED
    BY <1>3, <1>8, <2>1, AreaInside DEF AreaWritten
<1> QED
  BY <1>5, <1>7, <1>8, <1>10, <1>11 DEF NewArea, Readable

(* The buffer for the first sector of a drive.                              *)
LEMMA BufferReady ==
  ASSUME Base, Safe, At("buffer")
  PROVE  /\ Readable(WithBuffer, {NewBuffer}) /\ memory.mapped \subseteq WithBuffer.mapped
         /\ NewBuffer \in machine.free
         /\ Cardinality(DrivesLeft) * PerDrive \in Nat
         /\ Supply(WithBuffer, Cardinality(DrivesLeft) * PerDrive)
<1>m. machine \in Machines /\ pc = "buffer"
  BY DEF Base, At
<1>1. PICK n \in Nat : n = Cardinality(DrivesLeft) * PerDrive
  <2>1. DrivesLeft \in SUBSET Drives
    BY DEF DrivesLeft
  <2> QED
    BY <1>m, <2>1, Countable
<1>2. Supply(memory, 1 + n)
  BY <1>m, <1>1, OutstandingIs DEF OutstandingCases, Safe
<1>3. 1 \in Nat \ {0}
  OBVIOUS
<1>4. /\ LowestRun(memory.free, 1) \in machine.free
      /\ Run(LowestRun(memory.free, 1), 1) \subseteq AllocateMapped(memory, 1).mapped
      /\ memory.mapped \subseteq AllocateMapped(memory, 1).mapped
      /\ Supply(AllocateMapped(memory, 1), n)
  BY <1>m, <1>2, <1>3, RunSupply
<1>5. LowestRun(memory.free, 1) \in Run(LowestRun(memory.free, 1), 1)
  <2>1. LowestRun(memory.free, 1) \in Nat
    BY <1>m, <1>4, MachineAssumption
  <2> QED
    BY <2>1 DEF Run
<1> QED
  BY <1>1, <1>4, <1>5 DEF WithBuffer, NewBuffer, Readable

(* No read faults and nothing is missing.                                   *)
LEMMA NothingFaults ==
  ASSUME Base, WalkAt, Sound, Safe
  PROVE  /\ ~NoGlyph /\ ~NoTypeString /\ ~EfiVendorFaults /\ ~AcpiFaults /\ ~WalkPageFaults
         /\ ~ControllerFaults /\ ~UnsupportedRevision /\ ~NoMcfg /\ ~Int69
         /\ ~HeapFaults /\ ~RetryForEver /\ ~LoseHeap /\ ~PortFaults
<1>m. machine \in Machines /\ index \in Nat \ {0}
  BY DEF Base
<1>1. ~NoGlyph
  BY DEF NoGlyph, Drawable, Sound
<1>2. ~NoTypeString
  <2> SUFFICES ASSUME NoTypeString PROVE FALSE
    OBVIOUS
  <2>1. index <= Len(machine.memmap) /\ machine.memmap[index].type \notin TypeStrings
    BY DEF NoTypeString
  <2>2. DOMAIN machine.memmap = 1 .. Len(machine.memmap) /\ Len(machine.memmap) \in Nat
    <3>1. machine.memmap \in Seq({machine.memmap[i] : i \in DOMAIN machine.memmap})
      BY <1>m, MachineAssumption DEF IsSequence
    <3> QED
      BY <3>1
  <2>3. machine.memmap[index] \in Range(machine.memmap)
    BY <1>m, <2>1, <2>2 DEF Range
  <2> QED
    BY <2>1, <2>3 DEF Sound
<1>3. ~EfiVendorFaults
  <2>1. EfiVendorPage \in Touched
    BY DEF Touched
  <2>2. /\ EfiVendorPage \in MapPage(memory, EfiVendorPage).mapped
        /\ memory.mapped \subseteq MapPage(memory, EfiVendorPage).mapped
    BY <2>1, MapsTouched
  <2> QED
    BY <2>2 DEF EfiVendorFaults, At, Readable, Safe
<1>4. ~UnsupportedRevision
  BY DEF UnsupportedRevision, Sound
<1>5. ~NoMcfg
  <2> SUFFICES ASSUME NoMcfg PROVE FALSE
    OBVIOUS
  <2>1. /\ index > Len(machine.tables) /\ pc = "find"
        /\ \A j \in 1 .. index - 1 : machine.tables[j].signature # "MCFG"
    BY <1>m, RootReads DEF NoMcfg, At, Safe
  <2>2. PICK t \in Range(machine.tables) : t.signature = "MCFG"
    BY DEF Sound
  <2>3. DOMAIN machine.tables = 1 .. Len(machine.tables) /\ Len(machine.tables) \in Nat
    <3>1. machine.tables \in Seq([signature : STRING, address : Nat])
      BY <1>m, MachineAssumption
    <3> QED
      BY <3>1
  <2>4. PICK j \in 1 .. Len(machine.tables) : machine.tables[j] = t
    BY <2>2, <2>3 DEF Range
  <2>5. j \in 1 .. index - 1
    BY <1>m, <2>1, <2>3
  <2> QED
    BY <2>1, <2>2, <2>4, <2>5
<1>6. ~AcpiFaults
  <2>1. pc = "revision" => Readable(memory, RevisionBytes) /\ Readable(memory, RootAddressBytes)
    BY <1>m, RsdpReads DEF Readable, Safe
  <2>2. pc = "find" => Readable(memory, FindBytes)
    BY <1>m, RootReads DEF Readable, Safe
  <2>3. ASSUME pc = "find", index <= RootCount
        PROVE  Readable(Maps(machine.tables[index].address), PagesOf(machine.tables[index].address + SignatureAt, 4))
    <3>1. index \in 1 .. Len(machine.tables)
      BY <1>m, <2>3, RootReads
    <3>2. /\ machine.tables[index].address \div PAGE_SIZE \in Touched
          /\ PagesOf(machine.tables[index].address + SignatureAt, 4)
                \subseteq {machine.tables[index].address \div PAGE_SIZE}
      BY <1>m, <3>1, TableReads
    <3> QED
      BY <3>2, MapsTouched DEF Readable, Maps
  <2> QED
    BY <2>1, <2>2, <2>3 DEF AcpiFaults, At
<1>7. ~WalkPageFaults
  <2> SUFFICES ASSUME WalkPageFaults PROVE FALSE
    OBVIOUS
  <2>1. pc \in {"print_mcfg", "find_ahci"}
    BY DEF WalkPageFaults, Walking, At
  <2>2. Readable(memory, McfgBytes)
    BY <1>m, <2>1, McfgReads DEF Readable, Safe, Scanning
  <2>3. CASE walk.at = "functions"
    <3>1. DeviceHere \in Touched
      BY <2>3, WalkTouched DEF InBus
    <3>2. DeviceHere \in MapPage(memory, DeviceHere).mapped
      BY <3>1, MapsTouched
    <3> QED
      BY <2>3, <3>2 DEF WalkPageFaults, WalkFaults
  <2>4. CASE walk.at # "functions"
    BY <2>1, <2>2, <2>4 DEF WalkPageFaults, WalkFaults, Safe
  <2> QED
    BY <2>3, <2>4
<1>8. ~ControllerFaults
  <2> SUFFICES ASSUME ControllerFaults PROVE FALSE
    OBVIOUS
  <2> DEFINE h == Header(FunctionHere)
  <2>1. IsAhci(h) /\ ~Readable(MapPage(memory, h.abar), {h.abar})
    BY DEF ControllerFaults
  <2>2. h.abar \in Touched
    BY <1>m, <2>1, ControllerReads
  <2> HIDE DEF h
  <2> QED
    BY <2>1, <2>2, MapsTouched DEF Readable
<1>9. ~Int69
  BY DEF Int69, At, Safe
<1>10. ~HeapFaults /\ ~RetryForEver /\ ~LoseHeap
  BY HeapReady DEF HeapFaults, RetryForEver, LoseHeap
<1>11. ~PortFaults
  <2>1. AtPort => PortReadable
    <3> SUFFICES ASSUME AtPort, Port \in Controller.implemented
                 PROVE  Readable(memory, {PortPage(Controller.abar, Port)})
      BY DEF PortReadable
    <3>1. /\ IsAhci(Controller) /\ Controller.abar \in memory.mapped /\ Port < Controller.NP
      BY DEF AtPort, At, Safe
    <3>2. PICK page : Controller = Header(page)
      BY DEF Controller, HeaderAt
    <3>3. PortPage(Controller.abar, Port) = Controller.abar
      BY <1>m, <3>1, <3>2, ControllerReads
    <3> QED
      BY <3>1, <3>3 DEF Readable
  <2> QED
    BY <2>1, DriveReady, BufferReady DEF PortFaults
<1> QED
  BY <1>1, <1>2, <1>3, <1>4, <1>5, <1>6, <1>7, <1>8, <1>9, <1>10, <1>11

(* Only the processor by itself raises what kmain has not caused.           *)
LEMMA RaisedByItself ==
  ASSUME Base, [Next]_vars, ~Exception
  PROVE  raised' = raised
BY Kinds DEF Base, Stays, Prepares, InitializeRenderer, Proceeds, Speaks, Complains, Faults, PageFaults,
   Int69, WriteSerial, WriteScreen, PanicHalts, Flush, trap, fate

(* What is outstanding can still be had when it has not become more.         *)
LEMMA GrowsOn ==
  ASSUME Base, machine' = machine, Grows, Outstanding' <= Outstanding
  PROVE  Supply(memory, Outstanding)'
<1>1. Outstanding \in Nat
  BY OutstandingIs DEF Base, OutstandingCases
<1> QED
  BY <1>1, StillSupplied DEF Grows

(* The drives that are left while find_ahci walks.                          *)
LEMMA PassedNoMore ==
  ASSUME machine' = machine, pc' = "find_ahci",
         \A p \in Expected : Passed(p) => Passed(p)', pc \in {"find_ahci", "port"}
  PROVE  DrivesLeft' \subseteq DrivesLeft
<1>1. Drives' = Drives
  BY SoundStays
<1>2. \A d \in Drives : d[1] \in Expected
  BY DEF Drives
<1>3. ASSUME NEW d \in DrivesLeft' PROVE d \in DrivesLeft
  <2>1. d \in Drives /\ ~Passed(d[1])'
    BY <1>1 DEF DrivesLeft
  <2>2. ~Passed(d[1])
    BY <1>2, <2>1
  <2> QED
    BY <2>1, <2>2 DEF DrivesLeft
<1> QED
  BY <1>3

(* The steps of a sound machine, as far as what is mapped tells them apart.  *)
Calm == {"information", "memmap", "efi", "rsdp"}
Rests ==
  /\ UNCHANGED <<memory, walk, found>>
  /\ \/ pc' = pc /\ index' = index
     \/ pc \in Fresh /\ pc' \in Fresh
     \/ pc \in Middle /\ pc' \in Calm
     \/ pc = "heap" /\ pc' = "information"
     \/ pc' \in {"flush", "halted"}

(* Of a sound machine no step is left but these.                            *)
LEMMA SoundKinds ==
  ASSUME Base, WalkAt, Sound, Safe, ~raised', [Next]_vars
  PROVE  \/ Rests \/ InitializeMemory \/ GrowHeap
         \/ PrintEfiTable \/ PrintEfiVendor \/ MapRsdp \/ MapRoot \/ FindTable
         \/ Walk \/ PrintFunction \/ ScanFunction \/ WalkEnds
         \/ SkipPort \/ InitializePort \/ ReadPort \/ LeaveController
<1>n. /\ ~NoGlyph /\ ~NoTypeString /\ ~EfiVendorFaults /\ ~AcpiFaults /\ ~WalkPageFaults
      /\ ~ControllerFaults /\ ~UnsupportedRevision /\ ~NoMcfg /\ ~Int69
      /\ ~HeapFaults /\ ~RetryForEver /\ ~LoseHeap /\ ~PortFaults
  BY NothingFaults
<1>1. CASE UNCHANGED vars \/ UartShift
  BY <1>1 DEF vars, UartShift, Rests, pci
<1>2. CASE Exception
  BY <1>2 DEF Exception
<1>3. CASE WriteSerial \/ WriteScreen
  BY <1>3 DEF WriteSerial, WriteScreen, Rests, pci
<1>4. CASE PanicHalts \/ Flush
  BY <1>4 DEF PanicHalts, Flush, Goto, Rests, pci
<1>5. CASE CheckResponse
  <2>1. machine.missing = {} /\ pc = "responses"
    BY <1>5 DEF Sound, CheckResponse, At
  <2>2. CASE index > Len(Responses)
    BY <1>5, <2>1, <2>2 DEF CheckResponse, Goto, Rests, Fresh, pci
  <2>3. CASE ~(index > Len(Responses))
    <3>1. Responses[index] \notin machine.missing
      BY <2>1
    <3> QED
      BY <1>5, <2>1, <2>3, <3>1 DEF CheckResponse, Rests, Fresh, pci
  <2> QED
    BY <2>2, <2>3
<1>6. CASE SerialSetup \/ SerialTest \/ LoadTables \/ InitializeRenderer
  BY <1>6 DEF SerialSetup, SerialTest, LoadTables, InitializeRenderer, Goto, At, Rests, Fresh, pci
<1>7. CASE PrintBootloader \/ PrintRegion \/ PrintTotal
  BY <1>7 DEF PrintBootloader, PrintRegion, PrintTotal, Goto, At, Rests, Calm, Middle, pci
<1> QED
  BY <1>n, <1>1, <1>2, <1>3, <1>4, <1>5, <1>6, <1>7
     DEF Next, Kmain, Printing, Boot, Information, Tables, Devices, Disks

(* One turn of Find.                                                        *)
LEMMA FindStaysSafe ==
  ASSUME Base, Lists, Sound, Safe, FindTable
  PROVE  Safe'
<1>m. machine' = machine /\ machine \in Machines /\ index \in Nat \ {0}
  BY DEF FindTable, Base
<1>1. /\ pc = "find" /\ index <= RootCount /\ walk' = walk
      /\ memory' = Maps(machine.tables[index].address)
      /\ IF machine.tables[index].signature = "MCFG"
         THEN pc' = "print_mcfg" ELSE pc' = pc /\ index' = index + 1
  BY DEF FindTable, At, Goto
<1>2. index \in 1 .. Len(machine.tables) /\ Len(machine.tables) \in Nat
  <2>1. RootCount = Len(machine.tables)
    BY <1>m, RootReads
  <2>2. Len(machine.tables) \in Nat
    <3>1. machine.tables \in Seq([signature : STRING, address : Nat])
      BY <1>m, MachineAssumption
    <3> QED
      BY <3>1
  <2> QED
    BY <1>m, <1>1, <2>1, <2>2
<1>3. Grows /\ machine.tables[index].address \div PAGE_SIZE \in memory'.mapped
  BY <1>m, <1>1, <1>2, TableReads, MapsTouched DEF Maps
<1>o. Supply(memory, Outstanding)'
  <2>1. pc \in Middle /\ pc' \in Middle
    BY <1>1 DEF Middle
  <2> QED
    BY <1>m, <1>3, <2>1, GrowsOn, OutstandingLess
<1>4. /\ machine.root \div PAGE_SIZE \in memory.mapped
      /\ \A j \in 1 .. index - 1 : machine.tables[j].signature # "MCFG"
  BY <1>1 DEF Safe
<1>5. CASE machine.tables[index].signature = "MCFG"
  <2>1. machine.tables[index].address = machine.mcfgAt
    <3>1. FirstMcfg(machine.tables, index)
      BY <1>4, <1>5 DEF FirstMcfg
    <3>2. index \in DOMAIN machine.tables
      <4>1. machine.tables \in Seq([signature : STRING, address : Nat])
        BY <1>m, MachineAssumption
      <4> QED
        BY <1>2, <4>1
    <3> QED
      BY <1>m, <3>1, <3>2, MachineAssumption
  <2>2. walk'.at = "entry"
    <3>1. walk = WalkStart
      BY <1>1 DEF Lists, Setting
    <3> QED
      BY <1>1, <3>1 DEF WalkStart
  <2>3. machine'.mcfgAt \div PAGE_SIZE \in memory'.mapped
    BY <1>m, <1>3, <2>1
  <2>4. pc' = "print_mcfg"
    BY <1>1, <1>5
  <2> QED
    BY <1>o, <2>2, <2>3, <2>4 DEF Safe, Scanning
<1>6. CASE machine.tables[index].signature # "MCFG"
  <2>1. pc' = "find" /\ index' = index + 1
    BY <1>1, <1>6
  <2>2. \A j \in 1 .. index' - 1 : machine.tables[j].signature # "MCFG"
    <3>1. \A j \in 1 .. index' - 1 : j \in 1 .. index - 1 \/ j = index
      BY <1>m, <2>1
    <3> QED
      BY <1>4, <1>6, <3>1
  <2>3. machine'.root \div PAGE_SIZE \in memory'.mapped
    BY <1>m, <1>3, <1>4 DEF Grows
  <2> QED
    BY <1>o, <1>m, <2>1, <2>2, <2>3 DEF Safe, Scanning
<1> QED
  BY <1>5, <1>6

(* What the walk maps of the table and of the functions stays mapped.        *)
LEMMA WalkingStaysSafe ==
  ASSUME Base, Safe, Walking, pc' \in {"print_mcfg", "find_ahci"}, machine' = machine, Grows,
         Outstanding' <= Outstanding, walk'.at = "body" => FunctionHere' \in memory'.mapped
  PROVE  Safe'
<1>1. pc \in {"print_mcfg", "find_ahci"}
  BY DEF Walking, At
<1>2. machine.mcfgAt \div PAGE_SIZE \in memory.mapped
  BY <1>1 DEF Safe, Scanning
<1>3. machine'.mcfgAt \div PAGE_SIZE \in memory'.mapped
  BY <1>2 DEF Grows
<1>4. Supply(memory, Outstanding)'
  BY GrowsOn
<1> QED
  BY <1>3, <1>4 DEF Safe

(* The steps of the four loops.                                             *)
LEMMA WalkStaysSafe ==
  ASSUME Base, WalkAt, Sound, Safe, Walk
  PROVE  Safe'
<1>m. machine \in Machines
  BY DEF Base
<1>1. Walking /\ pc' = pc /\ pc \in {"print_mcfg", "find_ahci"} /\ Step
  BY DEF Walk, Walking, At
<1>2. machine' = machine /\ WalkAt'
  BY <1>m, <1>1, WalkMoves DEF Step, WalkEntry, WalkBus, WalkDevice, WalkFunctions, WalkFunction
<1>o. Outstanding' <= Outstanding
  <2>1. CASE pc = "print_mcfg"
    <3>1. pc \in Middle /\ pc' \in Middle
      BY <1>1, <2>1 DEF Middle
    <3> QED
      BY <1>2, <3>1, OutstandingLess
  <2>2. CASE pc = "find_ahci"
    <3>1. \A p \in Expected : Passed(p)' <=> Passed(p)
      BY <1>m, WalkMoves
    <3>2. DrivesLeft' \subseteq DrivesLeft
      BY <1>1, <1>2, <2>2, <3>1, PassedNoMore
    <3> QED
      BY <1>1, <1>2, <2>2, <3>2, OutstandingLess
  <2> QED
    BY <1>1, <2>1, <2>2
<1>s. ASSUME memory' = memory PROVE Grows
  BY <1>s, NoMapGrows
<1>3. CASE WalkEntry
  <2>1. memory' = memory /\ walk'.at # "body"
    BY <1>2, <1>3 DEF WalkEntry, WalkAt, WalkTypes
  <2> QED
    BY <1>1, <1>2, <1>o, <1>s, <2>1, WalkingStaysSafe
<1>4. CASE WalkBus
  <2>1. CASE AtEndBus
    <3>1. memory' = memory /\ walk'.at # "body"
      BY <1>4, <2>1 DEF WalkBus, WalkAt, WalkTypes
    <3> QED
      BY <1>1, <1>2, <1>o, <1>s, <3>1, WalkingStaysSafe
  <2>2. CASE ~AtEndBus
    <3>1. /\ memory' = MapPage(memory, BusPage(walk.entry, walk.bus))
          /\ walk'.at = "device" /\ walk'.entry = walk.entry /\ walk'.bus = walk.bus
      BY <1>4, <2>2 DEF WalkBus, WalkAt, WalkTypes
    <3>2. walk.entry \in 1 .. Len(machine.mcfg) /\ walk.bus \in Buses(machine.mcfg[walk.entry])
      <4>1. walk.at = "bus" /\ walk.entry <= Len(machine.mcfg) /\ walk.entry \in 1 .. Len(machine.mcfg) + 1
        BY <1>4 DEF WalkBus, WalkAt, WalkTypes
      <4>2. walk'.at \in InBus
        BY <3>1 DEF InBus
      <4>3. (walk.at \in InBus => walk.bus \in Buses(machine.mcfg[walk.entry]))'
        BY <1>2 DEF WalkAt
      <4>4. (walk.bus \in Buses(machine.mcfg[walk.entry]))'
        BY <4>2, <4>3
      <4>5. Len(machine.mcfg) \in Nat
        BY <1>m, Entries
      <4>6. walk.bus \in Buses(machine.mcfg[walk.entry])
        BY <1>2, <3>1, <4>4 DEF Buses
      <4> QED
        BY <4>1, <4>5, <4>6
    <3>3. 0 \in 0 .. DevicesPerBus - 1
      BY WalkAssumption
    <3>4. BusPage(walk.entry, walk.bus) \in Touched
      BY <1>m, <3>2, <3>3, PlacesTouched
    <3>5. Grows
      BY <3>1, <3>4, MapsTouched
    <3> QED
      BY <1>1, <1>2, <1>o, <3>1, <3>5, WalkingStaysSafe
  <2> QED
    BY <2>1, <2>2
<1>5. CASE WalkDevice
  <2>1. CASE walk.device = DevicesPerBus
    <3>1. memory' = memory /\ walk'.at # "body"
      BY <1>5, <2>1 DEF WalkDevice, WalkAt, WalkTypes
    <3> QED
      BY <1>1, <1>2, <1>o, <1>s, <3>1, WalkingStaysSafe
  <2>2. CASE walk.device # DevicesPerBus
    <3>1. walk.at = "device" /\ memory' = MapPage(memory, DeviceHere) /\ walk'.at # "body"
      BY <1>5, <2>2 DEF WalkDevice, WalkAt, WalkTypes, DeviceHere
    <3>2. DeviceHere \in Touched
      BY <2>2, <3>1, WalkTouched DEF InBus
    <3>3. Grows
      BY <3>1, <3>2, MapsTouched
    <3> QED
      BY <1>1, <1>2, <1>o, <3>1, <3>3, WalkingStaysSafe
  <2> QED
    BY <2>1, <2>2
<1>6. CASE WalkFunctions
  <2>1. walk.at = "functions" /\ memory' = MapPage(memory, DeviceHere) /\ walk'.at # "body"
    BY <1>6 DEF WalkFunctions, WalkAt, WalkTypes
  <2>2. DeviceHere \in Touched
    BY <2>1, WalkTouched DEF InBus
  <2>3. Grows
    BY <2>1, <2>2, MapsTouched
  <2> QED
    BY <1>1, <1>2, <1>o, <2>1, <2>3, WalkingStaysSafe
<1>7. CASE WalkFunction
  <2>1. CASE walk.function = walk.functions
    <3>1. memory' = memory /\ walk'.at # "body"
      BY <1>7, <2>1 DEF WalkFunction, WalkAt, WalkTypes
    <3> QED
      BY <1>1, <1>2, <1>o, <1>s, <3>1, WalkingStaysSafe
  <2>2. CASE walk.function # walk.functions
    <3>1. walk.at = "function" /\ memory' = MapPage(memory, FunctionHere) /\ walk' = [walk EXCEPT !.at = "body"]
      BY <1>7, <2>2 DEF WalkFunction
    <3>2. FunctionHere \in Touched
      BY <2>2, <3>1, WalkTouched DEF InBus
    <3>3. Grows /\ FunctionHere \in memory'.mapped
      BY <3>1, <3>2, MapsTouched
    <3>4. FunctionHere' = FunctionHere
      <4>1. /\ walk'.entry = walk.entry /\ walk'.bus = walk.bus /\ walk'.device = walk.device
            /\ walk'.function = walk.function
        BY <3>1 DEF WalkAt, WalkTypes
      <4> QED
        BY <1>2, <4>1, SameMachine DEF FunctionHere, FunctionPage, DevicePage, BusPage
    <3> QED
      BY <1>1, <1>2, <1>o, <3>3, <3>4, WalkingStaysSafe
  <2> QED
    BY <2>1, <2>2
<1> QED
  BY <1>1, <1>3, <1>4, <1>5, <1>6, <1>7 DEF Step

(* The two loop bodies and the ends of the walks.                           *)
LEMMA BodiesStaySafe ==
  ASSUME Base, WalkAt, Lists, Sound, Safe, PrintFunction \/ WalkEnds
  PROVE  Safe'
<1>m. machine \in Machines
  BY DEF Base
<1>1. CASE PrintFunction
  <2>1. /\ Walking /\ pc = "print_mcfg" /\ pc' = "print_mcfg" /\ machine' = machine /\ memory' = memory
        /\ walk' = [walk EXCEPT !.at = "function", !.function = @ + 1]
    BY <1>1 DEF PrintFunction, Body, Walking, At
  <2>2. walk'.at = "function"
    BY <2>1 DEF WalkAt, WalkTypes
  <2>3. Outstanding' <= Outstanding
    BY <2>1, OutstandingLess DEF Middle
  <2> QED
    BY <2>1, <2>2, <2>3, NoMapGrows, WalkingStaysSafe
<1>2. CASE WalkEnds
  <2>1. Walking /\ machine' = machine /\ memory' = memory
    BY <1>2 DEF WalkEnds
  <2>2. CASE pc = "print_mcfg"
    <3>1. walk' = WalkStart /\ pc' = "find_ahci"
      BY <1>2, <2>2 DEF WalkEnds, Goto
    <3>2. walk'.at = "entry"
      BY <3>1 DEF WalkStart
    <3>3. Outstanding' <= Outstanding
      BY <2>1, <2>2, <3>1, OutstandingLess
    <3> QED
      BY <2>1, <3>1, <3>2, <3>3, NoMapGrows, WalkingStaysSafe
  <2>3. CASE pc # "print_mcfg"
    <3>1. pc' = "flush"
      BY <1>2, <2>3 DEF WalkEnds, Goto
    <3>2. Supply(memory, Outstanding)'
      BY <2>1, <3>1, NoMapGrows, OutstandingLess, GrowsOn
    <3> QED
      BY <3>1, <3>2 DEF Safe, Scanning
  <2> QED
    BY <2>2, <2>3
<1> QED
  BY <1>1, <1>2

(* find_ahci at a function: a controller's drives are all still to come.     *)
LEMMA ScanStaysSafe ==
  ASSUME Base, WalkAt, Lists, Sound, Safe, ScanFunction
  PROVE  Safe'
<1>m. machine \in Machines
  BY DEF Base
<1>1. /\ Walking /\ pc = "find_ahci" /\ machine' = machine /\ Body
      /\ walk' = [walk EXCEPT !.at = "function", !.function = @ + 1]
  BY DEF ScanFunction, Body, Walking, At
<1>2. walk'.at = "function"
  BY <1>1 DEF WalkAt, WalkTypes
<1>3. /\ Place \in Expected /\ ~Passed(Place)
      /\ \A p \in Expected : Passed(p)' <=> Passed(p) \/ p = Place
  BY <1>m, <1>1, BodyPasses DEF Body
<1>4. Drives' = Drives /\ \A d \in Drives : d[1] \in Expected /\ d[2] \in 0 .. 31
  BY <1>1, SoundStays DEF Drives
<1>5. CASE ~IsAhci(Header(FunctionHere))
  <2>1. memory' = memory /\ pc' = "find_ahci"
    BY <1>1, <1>5 DEF ScanFunction
  <2>2. \A p \in Expected : Passed(p) => Passed(p)'
    BY <1>3
  <2>3. DrivesLeft' \subseteq DrivesLeft
    BY <1>1, <2>1, <2>2, PassedNoMore
  <2>4. Outstanding' <= Outstanding
    BY <1>1, <2>1, <2>3, OutstandingLess
  <2> QED
    BY <1>1, <1>2, <2>1, <2>4, NoMapGrows, WalkingStaysSafe
<1>6. CASE IsAhci(Header(FunctionHere))
  <2>1. /\ memory' = MapPage(memory, Header(FunctionHere).abar) /\ pc' = "port" /\ index' = 1
        /\ found' = Append(found, Place)
    BY <1>6 DEF ScanFunction, Goto
  <2>2. Header(FunctionHere).abar \in Touched
    BY <1>m, <1>6, ControllerReads
  <2>3. Grows /\ Header(FunctionHere).abar \in memory'.mapped
    BY <2>1, <2>2, MapsTouched
  <2>4. Current' = Place
    <3>1. found \in Seq(Expected)
      <4>1. PICK k \in 0 .. Len(listed) : found = AhciUpTo[k]
        BY DEF Lists
      <4> QED
        BY <4>1, AmongSequences DEF Lists
    <3>2. PICK s \in Seq(Expected) : s = found
      BY <3>1
    <3>3. Append(s, Place)[Len(Append(s, Place))] = Place
      BY <1>3
    <3> QED
      BY <2>1, <3>2, <3>3 DEF Current
  <2>5. Header(FunctionHere) = HeaderAt(Place)
    BY HeaderHere
  <2>6. Controller' = Header(FunctionHere)
    <3>1. Controller' = HeaderAt(Place)
      BY <1>1, <2>4, SameMachine DEF Controller, Current, HeaderAt
    <3> QED
      BY <2>5, <3>1
  <2>7. Current' \in Expected' /\ Passed(Current)'
    <3>1. PICK q \in Expected : q = Place
      BY <1>3
    <3>2. Passed(q)' /\ Current' = q
      BY <1>3, <2>4, <3>1
    <3>3. Passed(Current)'
      BY <3>2 DEF Passed
    <3>4. Expected' = Expected
      BY <1>1, SameMachine
    <3> QED
      BY <3>1, <3>2, <3>3, <3>4
  <2>8. DrivesLeft' \subseteq DrivesLeft
    <3>1. ASSUME NEW d \in DrivesLeft' PROVE d \in DrivesLeft
      <4>1. d \in Drives /\ (~Passed(d[1])' \/ d[1] = Place)
        BY <1>4, <2>1, <2>4 DEF DrivesLeft
      <4>2. ~Passed(d[1])
        BY <1>3, <1>4, <4>1
      <4> QED
        BY <4>1, <4>2 DEF DrivesLeft
    <3> QED
      BY <3>1
  <2>9. Supply(memory, Outstanding)'
    BY <1>1, <2>1, <2>3, <2>8, OutstandingLess, GrowsOn
  <2>10. machine'.mcfgAt \div PAGE_SIZE \in memory'.mapped
    <3>1. machine.mcfgAt \div PAGE_SIZE \in memory.mapped
      BY <1>1 DEF Safe, Scanning
    <3> QED
      BY <1>1, <2>3, <3>1 DEF Grows
  <2>11. (IsAhci(Controller))' /\ Controller'.abar \in memory'.mapped
    BY <1>6, <2>3, <2>6 DEF IsAhci
  <2> QED
    BY <1>2, <2>1, <2>7, <2>9, <2>10, <2>11 DEF Safe
<1> QED
  BY <1>5, <1>6

(* The tables of the firmware before the walks.                             *)
LEMMA TablesStaySafe ==
  ASSUME Base, Sound, Safe, PrintEfiTable \/ PrintEfiVendor \/ MapRsdp \/ MapRoot
  PROVE  Safe'
<1>1. machine' = machine
  BY DEF PrintEfiTable, PrintEfiVendor, MapRsdp, MapRoot, UnchangedBut
<1>2. ASSUME Grows PROVE Supply(memory, Outstanding)'
  <2>1. pc \in Middle /\ pc' \in Middle
    BY DEF PrintEfiTable, PrintEfiVendor, MapRsdp, MapRoot, UnchangedBut, Goto, At, Middle
  <2> QED
    BY <1>1, <1>2, <2>1, GrowsOn, OutstandingLess
<1>t. {EfiTablePage, EfiVendorPage, machine.rsdp \div PAGE_SIZE, machine.root \div PAGE_SIZE} \subseteq Touched
  BY DEF Touched
<1>3. CASE PrintEfiTable
  <2>1. memory' = MapPage(memory, EfiTablePage) /\ pc' = "efi_vendor"
    BY <1>3 DEF PrintEfiTable, Goto
  <2>2. Grows /\ EfiTablePage \in memory'.mapped
    BY <1>t, <2>1, MapsTouched
  <2> QED
    BY <1>2, <2>1, <2>2 DEF Safe, Scanning
<1>4. CASE PrintEfiVendor
  <2>1. memory' = MapPage(memory, EfiVendorPage) /\ pc' = "rsdp"
    BY <1>4 DEF PrintEfiVendor, Goto
  <2>2. Grows
    BY <1>t, <2>1, MapsTouched
  <2> QED
    BY <1>2, <2>1, <2>2 DEF Safe, Scanning
<1>5. CASE MapRsdp
  <2>1. memory' = MapPage(memory, machine.rsdp \div PAGE_SIZE) /\ pc' = "revision"
    BY <1>5 DEF MapRsdp, UnchangedBut, Goto, Maps
  <2>2. Grows /\ machine.rsdp \div PAGE_SIZE \in memory'.mapped
    BY <1>t, <2>1, MapsTouched
  <2> QED
    BY <1>1, <1>2, <2>1, <2>2 DEF Safe, Scanning
<1>6. CASE MapRoot
  <2>1. memory' = MapPage(memory, machine.root \div PAGE_SIZE) /\ pc' = "find" /\ index' = 1
    BY <1>6 DEF MapRoot, UnchangedBut, Goto, Maps
  <2>2. Grows /\ machine.root \div PAGE_SIZE \in memory'.mapped
    BY <1>t, <2>1, MapsTouched
  <2>3. \A j \in 1 .. index' - 1 : machine'.tables[j].signature # "MCFG"
    BY <2>1
  <2> QED
    BY <1>1, <1>2, <2>1, <2>2, <2>3 DEF Safe, Scanning
<1> QED
  BY <1>3, <1>4, <1>5, <1>6

(* The stack page and the regions of the heap.                              *)
LEMMA MemoryStaysSafe ==
  ASSUME Base, Sound, Safe, InitializeMemory \/ GrowHeap
  PROVE  Safe'
<1>m. machine \in Machines /\ machine' = machine
  BY DEF Base, InitializeMemory, GrowHeap
<1>s. HeapNeeds' = HeapNeeds /\ Drives' = Drives
  BY <1>m, SoundStays
<1>d. PICK d \in Nat : d = Cardinality(Drives) * PerDrive
  <2>1. Drives \in SUBSET Drives
    OBVIOUS
  <2> QED
    BY <1>m, <2>1, Countable
<1>1. CASE InitializeMemory
  <2>1. pc = "memory" /\ memory' = AllocateMapped(memory, 1) /\ pc' = "heap" /\ index' = 1
    BY <1>1 DEF InitializeMemory, At, Goto
  <2>2. PICK a \in Nat, b \in Nat : a = Cardinality(HeapNeeds) /\ b = Cardinality(HeapLeft(1)) /\ b <= a
    BY <1>m, Countable
  <2>3. Supply(memory, 1 + (a + d))
    <3>1. Supply(memory, (1 + a) + d)
      BY <1>m, <1>d, <2>1, <2>2, OutstandingIs DEF OutstandingCases, Fresh, Safe
    <3>2. (1 + a) + d = 1 + (a + d)
      OBVIOUS
    <3> QED
      BY <3>1, <3>2
  <2>4. 1 \in Nat \ {0} /\ a + d \in Nat
    OBVIOUS
  <2>5. Supply(memory', a + d)
    BY <1>m, <2>1, <2>3, <2>4, RunSupply
  <2>6. Outstanding' = b + d
    <3>1. Outstanding' = Cardinality(HeapLeft(index))' + (Cardinality(Drives) * PerDrive)'
      BY <1>m, <2>1, OutstandingThen DEF OutstandingCases
    <3>2. Cardinality(HeapLeft(index))' = b
      BY <1>s, <2>1, <2>2 DEF HeapLeft
    <3>3. (Cardinality(Drives) * PerDrive)' = d
      BY <1>s, <1>d DEF PerDrive
    <3> QED
      BY <3>1, <3>2, <3>3
  <2>7. Supply(memory, Outstanding)'
    BY <1>m, <2>2, <2>4, <2>5, <2>6, StillSupplied
  <2> QED
    BY <2>1, <2>7 DEF Safe, Scanning
<1>2. CASE GrowHeap
  <2>1. HeapGrowing /\ memory' = GrownHeap /\ pc' = pc /\ index' = index + 1 /\ pc = "heap"
    BY <1>2 DEF GrowHeap, HeapGrowing, At
  <2>2. PICK b \in Nat : b = Cardinality(HeapLeft(index + 1))
    BY <1>m, Countable
  <2>3. Supply(memory', b + d) /\ b + d \in Nat
    BY <1>d, <2>1, <2>2, HeapReady
  <2>4. Outstanding' = b + d
    <3>1. Outstanding' = Cardinality(HeapLeft(index))' + (Cardinality(Drives) * PerDrive)'
      BY <1>m, <2>1, OutstandingThen DEF OutstandingCases
    <3>2. Cardinality(HeapLeft(index))' = b
      BY <1>s, <2>1, <2>2 DEF HeapLeft
    <3>3. (Cardinality(Drives) * PerDrive)' = d
      BY <1>s, <1>d DEF PerDrive
    <3> QED
      BY <3>1, <3>2, <3>3
  <2>5. Supply(memory, Outstanding)'
    BY <1>m, <2>3, <2>4, StillSupplied
  <2> QED
    BY <2>1, <2>5 DEF Safe, Scanning
<1> QED
  BY <1>1, <1>2

(* The ports of a controller.                                               *)
LEMMA PortStaysSafe ==
  ASSUME Base, Safe, machine' = machine, walk' = walk, found' = found,
         pc \in {"port", "buffer"}, pc' \in {"port", "buffer"},
         memory.mapped \subseteq memory'.mapped, Supply(memory, Outstanding)',
         pc' = "buffer" => IsDrive(Controller, Port)'
  PROVE  Safe'
<1>1. /\ walk.at # "body" /\ Current \in Expected /\ Passed(Current) /\ IsAhci(Controller)
      /\ Controller.abar \in memory.mapped /\ machine.mcfgAt \div PAGE_SIZE \in memory.mapped
  BY DEF Safe, Scanning
<1>2. Controller' = Controller /\ Current' = Current /\ Expected' = Expected
  BY SameMachine DEF Controller, Current, HeaderAt
<1>3. Passed(Current)'
  <2>1. PICK p : p = Current
    OBVIOUS
  <2>2. Passed(p)'
    BY <1>1, <2>1, SameWalk
  <2> QED
    BY <1>2, <2>1, <2>2 DEF Passed
<1>4. IsAhci(Controller)' /\ Controller'.abar \in memory'.mapped
  BY <1>1, <1>2 DEF IsAhci
<1> QED
  BY <1>1, <1>2, <1>3, <1>4 DEF Safe

(* The ports of a controller: each drive gets its area and its buffer.      *)
LEMMA PortsStaySafe ==
  ASSUME Base, Sound, Safe, SkipPort \/ InitializePort \/ ReadPort \/ LeaveController
  PROVE  Safe'
<1>m. machine \in Machines /\ machine' = machine /\ walk' = walk /\ found' = found /\ index \in Nat \ {0}
  BY DEF Base, SkipPort, InitializePort, ReadPort, LeaveController, pci
<1>s. Drives' = Drives /\ Current' = Current
  BY <1>m, SoundStays DEF Current
<1>p. \A d \in Drives : d[2] \in Nat /\ (Passed(d[1])' <=> Passed(d[1]))
  BY <1>m, SameWalk DEF Drives
<1>1. CASE SkipPort
  <2>1. pc = "port" /\ pc' = "port" /\ index' = index + 1 /\ memory' = memory
    BY <1>1 DEF SkipPort, AtPort, At, pci
  <2>2. DrivesLeft' \subseteq DrivesLeft
    <3>1. ASSUME NEW d \in DrivesLeft' PROVE d \in DrivesLeft
      BY <1>m, <1>s, <1>p, <2>1 DEF DrivesLeft
    <3> QED
      BY <3>1
  <2>3. Supply(memory, Outstanding)'
    BY <1>m, <2>1, <2>2, NoMapGrows, OutstandingLess, GrowsOn
  <2> QED
    BY <1>m, <2>1, <2>3, PortStaysSafe
<1>2. CASE LeaveController
  <2>1. pc = "port" /\ pc' = "find_ahci" /\ memory' = memory
    BY <1>2 DEF LeaveController, At, Goto, pci
  <2>2. \A p \in Expected : Passed(p) => Passed(p)'
    BY <1>m, SameWalk
  <2>3. DrivesLeft' \subseteq DrivesLeft
    BY <1>m, <2>1, <2>2, PassedNoMore
  <2>4. Supply(memory, Outstanding)'
    BY <1>m, <2>1, <2>3, NoMapGrows, OutstandingLess, GrowsOn
  <2>5. machine'.mcfgAt \div PAGE_SIZE \in memory'.mapped /\ walk'.at # "body"
    BY <1>m, <2>1 DEF Safe, Scanning
  <2> QED
    BY <2>1, <2>4, <2>5 DEF Safe
<1>3. CASE InitializePort
  <2>1. pc = "port" /\ pc' = "buffer" /\ index' = index /\ memory' = NewArea /\ Initializes
    BY <1>3 DEF InitializePort, Initializes, AtPort, At
  <2>2. PICK e \in Nat, p \in Nat : e = Cardinality(DrivesLeft) - 1 /\ p = PerDrive
    BY <1>m, <2>1, DriveReady, Countable
  <2>3. Supply(memory', 1 + e * p) /\ e * p \in Nat
    BY <2>1, <2>2, DriveReady
  <2>4. DrivesLeft' \in SUBSET (DrivesLeft \ {<<Current, Port>>})
    <3>1. ASSUME NEW d \in DrivesLeft' PROVE d \in DrivesLeft /\ d # <<Current, Port>>
      <4>1. d \in Drives /\ (~Passed(d[1]) \/ (d[1] = Current /\ d[2] >= index))
        BY <1>m, <1>s, <1>p, <2>1 DEF DrivesLeft
      <4>2. d \in DrivesLeft
        BY <1>m, <1>p, <2>1, <4>1 DEF DrivesLeft
      <4>3. Passed(Current)
        BY <2>1 DEF Safe
      <4>4. d # <<Current, Port>>
        BY <1>m, <1>p, <4>1, <4>3 DEF Port
      <4> QED
        BY <4>2, <4>4
    <3> QED
      BY <3>1
  <2>5. Cardinality(DrivesLeft') <= e /\ Cardinality(DrivesLeft') \in Nat
    <3>1. IsFiniteSet(DrivesLeft)
      <4>1. DrivesLeft \in SUBSET Drives
        BY DEF DrivesLeft
      <4> QED
        BY <1>m, <4>1, FiniteNeeds, FS_Subset
    <3>2. /\ IsFiniteSet(DrivesLeft \ {<<Current, Port>>})
          /\ Cardinality(DrivesLeft \ {<<Current, Port>>}) = e
      BY <2>1, <2>2, <3>1, DriveReady, FS_RemoveElement
    <3> QED
      BY <2>4, <3>2, FS_Subset, FS_CardinalityType
  <2>6. Outstanding' = 1 + Cardinality(DrivesLeft') * p
    BY <1>m, <2>1, <2>2, OutstandingThen DEF OutstandingCases, PerDrive
  <2>7. Outstanding' <= 1 + e * p
    <3>1. PICK g \in Nat : g = Cardinality(DrivesLeft') /\ g <= e
      BY <2>5
    <3>2. g * p <= e * p /\ g * p \in Nat
      BY <3>1
    <3> QED
      BY <2>3, <2>6, <3>1, <3>2
  <2>8. Supply(memory, Outstanding)'
    <3>1. 1 + e * p \in Nat
      BY <2>3
    <3> QED
      BY <1>m, <2>3, <2>7, <3>1, StillSupplied
  <2>9. IsDrive(Controller, Port)'
    <3>1. IsDrive(Controller, Port)
      BY <2>1 DEF Initializes
    <3>2. Controller' = Controller /\ Port' = Port
      BY <1>m, <1>s, <2>1, SameMachine DEF Controller, HeaderAt, Port
    <3> QED
      BY <3>1, <3>2 DEF IsDrive
  <2> QED
    BY <1>m, <2>1, <2>8, <2>9, DriveReady, PortStaysSafe
<1>4. CASE ReadPort
  <2>1. /\ At("buffer") /\ pc' = "port" /\ index' = index + 1
        /\ memory' = WithBuffer \/ memory' = [WithBuffer EXCEPT !.free = @ \union {NewBuffer}]
    BY <1>4, Zenon DEF ReadPort
  <2>2. PICK n \in Nat : n = Cardinality(DrivesLeft) * PerDrive
    BY <2>1, BufferReady
  <2>3. /\ Supply(WithBuffer, n) /\ NewBuffer \in machine.free
        /\ memory.mapped \subseteq WithBuffer.mapped
    BY <2>1, <2>2, BufferReady
  <2>4. Supply(memory', n) /\ memory'.mapped = WithBuffer.mapped
    BY <2>1, <2>3, FreedSupply
  <2>5. DrivesLeft' = DrivesLeft
    BY <1>m, <1>s, <1>p, <2>1 DEF DrivesLeft, At
  <2>6. Outstanding' = n
    BY <1>m, <2>1, <2>2, <2>5, OutstandingThen DEF OutstandingCases, PerDrive
  <2>7. Supply(memory, Outstanding)'
    BY <1>m, <2>4, <2>6, StillSupplied
  <2> QED
    BY <1>m, <2>1, <2>3, <2>4, <2>7, PortStaysSafe DEF At
<1> QED
  BY <1>1, <1>2, <1>3, <1>4

(* Every step of a sound machine.                                           *)
LEMMA RestsStaySafe ==
  ASSUME Base, Safe, machine' = machine, Rests
  PROVE  Safe'
<1>1. Grows /\ memory' = memory /\ walk' = walk /\ found' = found
  BY NoMapGrows DEF Rests
<1>2. CASE pc' = pc /\ index' = index
  <2>1. /\ FunctionHere' = FunctionHere /\ Current' = Current /\ Controller' = Controller
        /\ Expected' = Expected /\ Port' = Port
    BY <1>1, <1>2, SameMachine DEF FunctionHere, Current, Controller, HeaderAt, Port
  <2>2. \A p : Passed(p)' <=> Passed(p)
    BY <1>1, SameWalk
  <2>3. Passed(Current) => Passed(Current)'
    <3>1. PICK p : p = Current
      OBVIOUS
    <3> QED
      BY <2>1, <2>2, <3>1 DEF Passed
  <2>4. DrivesLeft' = DrivesLeft
    BY <1>2, <2>1, <2>2, SoundStays DEF DrivesLeft
  <2>5. Supply(memory, Outstanding)'
    <3>1. Outstanding' = Outstanding
      BY <1>2, <2>4, OutstandingLess
    <3> QED
      BY <1>1, <3>1, SoundStays DEF Safe, Supply
  <2>6. pc \in {"port", "buffer"} => IsAhci(Controller)'
    BY <2>1 DEF Safe, IsAhci
  <2>7. pc = "buffer" => IsDrive(Controller, Port)'
    BY <2>1 DEF Safe, IsDrive
  <2> QED
    BY <1>1, <1>2, <2>1, <2>3, <2>5, <2>6, <2>7 DEF Safe
<1>3. CASE pc' # pc \/ index' # index
  <2>1. \/ pc \in Fresh /\ pc' \in Fresh
        \/ pc \in Middle /\ pc' \in Calm
        \/ pc = "heap" /\ pc' = "information"
        \/ pc' \in {"flush", "halted"}
    BY <1>3 DEF Rests
  <2>2. Outstanding' <= Outstanding
    BY <2>1, OutstandingLess DEF Calm, Middle
  <2>3. Supply(memory, Outstanding)'
    BY <1>1, <2>2, GrowsOn
  <2> QED
    BY <2>1, <2>3 DEF Safe, Fresh, Calm, Scanning
<1> QED
  BY <1>2, <1>3

(* Every step keeps a sound machine safe,                                   *)
LEMMA SoundHolds ==
  ASSUME Base, WalkAt, Lists, SoundRuns, [Next]_vars
  PROVE  SoundRuns'
<1> SUFFICES ASSUME Sound', ~raised' PROVE Safe'
  BY DEF SoundRuns
<1>m. machine' = machine
  BY LoopVariable
<1>1. Sound
  BY <1>m, SoundStays
<1>2. ~raised
  <2>1. ~Exception
    BY DEF Exception
  <2> QED
    BY <2>1, RaisedByItself
<1>3. Safe
  BY <1>1, <1>2 DEF SoundRuns
<1> QED
  BY <1>m, <1>1, <1>3, SoundKinds, RestsStaySafe, FindStaysSafe, WalkStaysSafe, BodiesStaySafe, ScanStaysSafe,
     TablesStaySafe, MemoryStaysSafe, PortsStaySafe

(* and it begins with enough of everything.                                 *)
LEMMA SoundStart ==
  ASSUME Init
  PROVE  SoundRuns
<1> SUFFICES ASSUME Sound PROVE Safe
  BY DEF SoundRuns
<1>1. /\ pc = "serial" /\ machine \in Machines
      /\ memory = [free |-> machine.free, tables |-> {}, mapped |-> {}]
  BY DEF Init
<1>2. Outstanding = (1 + Cardinality(HeapNeeds)) + Cardinality(Drives) * PerDrive /\ Outstanding \in Nat
  BY <1>1, OutstandingIs DEF OutstandingCases, Fresh
<1>3. Outstanding = 1 + Cardinality(HeapNeeds) + Cardinality(Drives) * (AreaFrames + 1)
  BY <1>2 DEF PerDrive
<1>4. PICK lo \in machine.free, hi \in machine.free :
        /\ lo .. hi \subseteq machine.free
        /\ Outstanding + Cardinality(Needed({}, Touched)) <= hi - lo + 1
  BY <1>3 DEF Sound, EnoughMemory, HasRun
<1>5. lo \in Nat /\ hi \in Nat
  BY <1>1, MachineAssumption
<1>6. memory.free = machine.free /\ memory.tables = {} /\ IsPool(memory)
  BY <1>1 DEF IsPool
<1>7. Supply(memory, Outstanding)
  BY <1>4, <1>5, <1>6 DEF Supply, Room
<1> QED
  BY <1>1, <1>7 DEF Safe, Scanning

(* On any sound machine, as long as the processor raises nothing by itself,  *)
(* kmain neither faults nor reports an error, and its heap gets its regions: *)
(* whatever it reads of the firmware's tables, of the configuration space    *)
(* and of a controller, and whatever it writes of its heap, of a command     *)
(* area and of a buffer is mapped before, and there are frames for all of    *)
(* that and for its page tables, which all come from one pool                *)
(* (kernel.cpp:296-551, heap.cpp:62-99, paging.cpp:44-161, pci.cpp:24-124).  *)
THEOREM SoundMachinesBoot == Spec => []SoundMachineBoots
<1>1. Init => SoundRuns
  BY SoundStart
<1>2. Base /\ WalkAt /\ Lists /\ SoundRuns /\ [Next]_vars => SoundRuns'
  BY SoundHolds
<1>3. SoundRuns => SoundMachineBoots
  BY DEF SoundRuns, Safe, SoundMachineBoots
<1> QED
  BY <1>1, <1>2, <1>3, Invariant, WalksHold, PTL DEF Spec

=============================================================================

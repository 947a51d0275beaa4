------------------------------- MODULE Serial -------------------------------
(***************************************************************************)
(* serial.cpp beside the UART it talks to.  A UART is a record; io::OutB   *)
(* and io::InB are its two operations, Shift is what it does by itself: a  *)
(* byte leaves the transmitter for the line, or comes back to the receiver *)
(* while the loop-back bit of the modem control register is set.           *)
(***************************************************************************)
EXTENDS Integers, Sequences

CONSTANT FifoSize       \* bytes the transmitter holds; what is written beyond is lost

ASSUME FifoAssumption == FifoSize \in Nat \ {0}

(* A port nobody answers at, and one as the firmware leaves it. *)
NoUart == [present |-> FALSE, divisor |-> <<0, 0>>, lcr |-> 0, mcr |-> 0, ier |-> 0,
           thr |-> <<>>, rbr |-> <<>>, line |-> <<>>]
FreshUart == [NoUart EXCEPT !.present = TRUE]

HasBit(value, bit) == (value \div bit) % 2 = 1

Loop(uart) == HasBit(uart.mcr, 16)
DLAB(uart) == HasBit(uart.lcr, 128)

(* The loop-back test sends the number 0xAE; everything else that is sent  *)
(* is a character, which the model does not take apart.                    *)
TestByte == <<"0xAE">>

-----------------------------------------------------------------------------
(* io.cpp on the registers of one UART. *)

OutB(uart, register, data) ==
    IF ~uart.present THEN uart
    ELSE CASE register = 0 /\ DLAB(uart) -> [uart EXCEPT !.divisor[1] = data]
           [] register = 0 /\ ~DLAB(uart) ->
                IF Len(uart.thr) < FifoSize THEN [uart EXCEPT !.thr = Append(@, data)] ELSE uart
           [] register = 1 /\ DLAB(uart) -> [uart EXCEPT !.divisor[2] = data]
           [] register = 1 /\ ~DLAB(uart) -> [uart EXCEPT !.ier = data]
           [] register = 2 -> [uart EXCEPT !.thr = <<>>, !.rbr = <<>>]
           [] register = 3 -> [uart EXCEPT !.lcr = data]
           [] register = 4 -> [uart EXCEPT !.mcr = data]

(* The receiver; an empty one reads as something that was never sent. *)
InData(uart) == IF uart.present /\ ~DLAB(uart) /\ uart.rbr # <<>>
                THEN Head(uart.rbr) ELSE <<"nothing">>

(* Bit 5 of the line status register; a port nobody answers at reads as 0xFF. *)
LineStatusEmpty(uart) == uart.present => uart.thr = <<>>

CanShift(uart) == uart.thr # <<>>
Shift(uart) ==
    IF Loop(uart)
    THEN [uart EXCEPT !.thr = Tail(@),
                      !.rbr = IF Len(@) < FifoSize THEN Append(@, Head(uart.thr)) ELSE @]
    ELSE [uart EXCEPT !.thr = Tail(@), !.line = Append(@, Head(uart.thr))]

-----------------------------------------------------------------------------
(* serial.cpp. *)

(* Initialize up to the test, as registers and values: no interrupts,      *)
(* divisor 3, 8 bits, FIFOs cleared, loop-back mode, and the byte that is   *)
(* to come back.                                                            *)
SetupWrites == <<<<1, 0>>, <<3, 128>>, <<0, 3>>, <<1, 0>>, <<3, 3>>, <<2, 199>>,
                 <<4, 11>>, <<4, 30>>, <<0, TestByte>>>>

(* Initialize from the test on: whether the port works, and the port.  The  *)
(* byte is taken from the receiver; a port that fails stays in loop-back   *)
(* mode.                                                                   *)
Passes(uart) == InData(uart) = TestByte
Tested(uart) == IF Passes(uart) THEN OutB([uart EXCEPT !.rbr = Tail(@)], 4, 15) ELSE uart

(* Write: the loop waits until the transmitter is empty. *)
DataReady(uart) == uart.present => uart.rbr # <<>>
IsTransmitEmpty(uart) == LineStatusEmpty(uart)
Written(uart, data) == OutB(uart, 0, data)
=============================================================================

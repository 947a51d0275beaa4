----------------------------- MODULE Interrupts -----------------------------
(***************************************************************************)
(* The descriptor tables (gdt.cpp, idt.cpp), the handlers of interrupt/    *)
(* and what the processor does between them: which gate an exception goes  *)
(* through, what it finds on the stack, and what is reported of it.  The   *)
(* wording of the messages is left out; a report names the exception by    *)
(* the mnemonic its handler has.                                           *)
(***************************************************************************)
EXTENDS Integers, Sequences

(* A bit, by its weight, and count values of a field that begins with it:   *)
(* a shift to the right by n is a division by 2^n, a mask of m ones a        *)
(* remainder modulo 2^m.                                                    *)
Bit(value, weight) == (value \div weight) % 2
Bits(value, weight, count) == (value \div weight) % count

-----------------------------------------------------------------------------
(* gdt::Initialize: access byte and flags of the descriptor at each offset; *)
(* the last one, the task state segment's, is never loaded.                 *)
GDT_EXECUTABLE == 8
GDT_CODE_DATA == 16
GDT_LEVEL_3 == 96
GDT_PRESENT == 128
GDT_READABLE_WRITEABLE == 2
GDT_ACCESSED == 1
GDT_LONG_MODE == 2
GDT_32_BIT_SEGMENT == 4
GDT_PAGE_GRANULARITY == 8

Segment(access, flags) == [access |-> access, flags |-> flags]

GdtEntries ==
    LET data == GDT_PRESENT + GDT_CODE_DATA + GDT_READABLE_WRITEABLE
        code == data + GDT_EXECUTABLE
    IN  [offset \in {0, 8, 16, 24, 32, 40} |->
            CASE offset = 0  -> Segment(0, 0)
              [] offset = 8  -> Segment(code, GDT_PAGE_GRANULARITY + GDT_LONG_MODE)
              [] offset = 16 -> Segment(data, GDT_PAGE_GRANULARITY + GDT_32_BIT_SEGMENT)
              [] offset = 24 -> Segment(code + GDT_LEVEL_3, GDT_PAGE_GRANULARITY + GDT_LONG_MODE)
              [] offset = 32 -> Segment(data + GDT_LEVEL_3, GDT_PAGE_GRANULARITY + GDT_32_BIT_SEGMENT)
              [] offset = 40 -> Segment(GDT_PRESENT + GDT_EXECUTABLE + GDT_ACCESSED, 0)]

(* The segments __load_gdt leaves in CS and SS. *)
CodeSegment == 8
DataSegment == 16

(* idt::Initialize: the handler behind each vector; all gates name the      *)
(* code segment, no interrupt stack and level 0, the others are not present. *)
IdtEntries ==
    [v \in {0, 1, 2, 3, 4, 5, 6, 7, 8, 10, 11, 12, 13, 14, 16, 17, 18, 19, 20, 21, 105} |->
        CASE v = 0 -> "DE"  [] v = 1 -> "DB"  [] v = 2 -> "NI"  [] v = 3 -> "BP"
          [] v = 4 -> "OF"  [] v = 5 -> "BR"  [] v = 6 -> "UD"  [] v = 7 -> "NM"
          [] v = 8 -> "DF"  [] v = 10 -> "TS" [] v = 11 -> "NP" [] v = 12 -> "SS"
          [] v = 13 -> "GP" [] v = 14 -> "PF" [] v = 16 -> "MF" [] v = 17 -> "AC"
          [] v = 18 -> "MC" [] v = 19 -> "XM" [] v = 20 -> "VE" [] v = 21 -> "CP"
          [] v = 105 -> "KE"]

GateSelector == 8

-----------------------------------------------------------------------------
(* The processor (external). *)

PageFault == 14
GeneralProtection == 13
DoubleFault == 8
KernelException == 105

Vectors == (0 .. 21) \ {9, 15}

Mnemonics == <<"DE", "DB", "NI", "BP", "OF", "BR", "UD", "NM", "DF", "", "TS", "NP", "SS",
               "GP", "PF", "", "MF", "AC", "MC", "XM", "VE", "CP">>
Mnemonic == [v \in Vectors \union {KernelException} |->
                IF v = KernelException THEN "KE" ELSE Mnemonics[v + 1]]

(* Exceptions about a selector say whether the event was external, in which *)
(* table the selector is, and its index; page faults have flags; the others *)
(* that push an error code push a number.                                   *)
SelectorVectors == {10, 11, 12, 13}
ErrorCodeVectors == SelectorVectors \union {8, 14, 17, 21}

PageFaultFlags == [present |-> 1, write |-> 2, user |-> 4, reserved |-> 8, fetch |-> 16,
                   key |-> 32, shadow |-> 64, sgx |-> 32768]

(* What there is to say of an exception with that vector. *)
Infos(vector) ==
    CASE vector \in SelectorVectors ->
            [external : BOOLEAN, table : {"GDT", "IDT", "LDT"}, index : 0 .. 8191]
      [] vector = PageFault -> SUBSET DOMAIN PageFaultFlags
      [] vector \in {17, 21} -> Nat
      [] OTHER -> {0}

PageFaultCode(flags) ==
    LET value(flag) == IF flag \in flags THEN PageFaultFlags[flag] ELSE 0
    IN  value("present") + value("write") + value("user") + value("reserved")
        + value("fetch") + value("key") + value("shadow") + value("sgx")

SelectorCode(info) ==
    (IF info.external THEN 1 ELSE 0)
    + (CASE info.table = "GDT" -> 0 [] info.table = "IDT" -> 2 [] info.table = "LDT" -> 4)
    + 8 * info.index

Encoded(vector, info) ==
    CASE vector \in SelectorVectors -> SelectorCode(info)
      [] vector = PageFault -> PageFaultCode(info)
      [] OTHER -> info

(* A gate is passed when it is present and names a 64-bit code segment;     *)
(* otherwise the exception becomes a general protection fault, and, if that *)
(* has no gate either, a double fault.                                      *)
Passable(vector) ==
    /\ vector \in DOMAIN IdtEntries
    /\ GateSelector \in DOMAIN GdtEntries
    /\ LET segment == GdtEntries[GateSelector]
       IN  /\ Bit(segment.access, 128) = 1       \* present
           /\ Bit(segment.access, 16) = 1        \* code or data
           /\ Bit(segment.access, 8) = 1         \* executable
           /\ Bit(segment.flags, 2) = 1          \* long mode

(* What is pushed, the last word first. *)
Pushed(vector, code, frame) ==
    IF vector \in ErrorCodeVectors
    THEN <<code, frame.IP, frame.CS, frame.Flags, frame.SP, frame.SS>>
    ELSE <<frame.IP, frame.CS, frame.Flags, frame.SP, frame.SS>>

-----------------------------------------------------------------------------
(* The handlers.  One that declares an error code finds it on top of the    *)
(* stack and its StackFrame below.                                          *)

StackFrame(words) ==
    [IP |-> words[1], CS |-> words[2], Flags |-> words[3], SP |-> words[4], SS |-> words[5]]

Without(words) == StackFrame(words)
ErrorCode(words) == Head(words)
WithCode(words) == StackFrame(Tail(words))

(* Panic's arguments: whether only the serial port is used, and the report. *)
Panic(serious, name, details, frame) ==
    [serious |-> serious, name |-> name, details |-> details,
     CS |-> frame.CS, IP |-> frame.IP, SS |-> frame.SS, SP |-> frame.SP]

DE_Handler(words) == Panic(FALSE, "DE", 0, Without(words))
DB_Handler(words) == Panic(FALSE, "DB", 0, Without(words))
NI_Handler(words) == Panic(FALSE, "NI", 0, Without(words))
BP_Handler(words) == Panic(FALSE, "BP", 0, Without(words))
OF_Handler(words) == Panic(FALSE, "OF", 0, Without(words))
BR_Handler(words) == Panic(FALSE, "BR", 0, Without(words))
UD_Handler(words) == Panic(FALSE, "UD", 0, Without(words))
NM_Handler(words) == Panic(FALSE, "NM", 0, Without(words))
MF_Handler(words) == Panic(FALSE, "MF", 0, Without(words))
MC_Handler(words) == Panic(FALSE, "MC", 0, Without(words))
XM_Handler(words) == Panic(FALSE, "XM", 0, Without(words))
VE_Handler(words) == Panic(FALSE, "VE", 0, Without(words))
KE_Handler(words) == Panic(FALSE, "KE", 0, Without(words))

(* The double fault's error code, which is 0, is not shown. *)
DF_Handler(words) == Panic(TRUE, "DF", 0, WithCode(words))
AC_Handler_NoCode(words) == Panic(FALSE, "AC", words[1], Without(words))
AC_Handler(words) == Panic(FALSE, "AC", ErrorCode(words), WithCode(words))
CP_Handler(words) == Panic(FALSE, "CP", ErrorCode(words), WithCode(words))

(* external, table and index of TS, NP, SS and GP. *)
TableString == [table \in 0 .. 3 |-> <<"GDT", "IDT", "LDT", "IDT">>[table + 1]]

Selector(code) == [external |-> Bit(code, 1) = 1,
                   table |-> TableString[Bits(code, 2, 4)],
                   index |-> Bits(code, 8, 8192)]

TS_Handler(words) == Panic(FALSE, "TS", Selector(ErrorCode(words)), WithCode(words))
NP_Handler(words) == Panic(FALSE, "NP", Selector(ErrorCode(words)), WithCode(words))
SS_Handler(words) == Panic(FALSE, "SS", Selector(ErrorCode(words)), WithCode(words))
GP_Handler(words) == Panic(FALSE, "GP", Selector(ErrorCode(words)), WithCode(words))

(* Bits 0 to 6 and 15 of the page fault's code. *)
FlagsOf(code) == {flag \in DOMAIN PageFaultFlags : Bit(code, PageFaultFlags[flag]) = 1}

PF_Handler(words) == Panic(FALSE, "PF", FlagsOf(ErrorCode(words)), WithCode(words))

Handled(handler, words) ==
    CASE handler = "DE" -> DE_Handler(words) [] handler = "DB" -> DB_Handler(words)
      [] handler = "NI" -> NI_Handler(words) [] handler = "BP" -> BP_Handler(words)
      [] handler = "OF" -> OF_Handler(words) [] handler = "BR" -> BR_Handler(words)
      [] handler = "UD" -> UD_Handler(words) [] handler = "NM" -> NM_Handler(words)
      [] handler = "MF" -> MF_Handler(words) [] handler = "MC" -> MC_Handler(words)
      [] handler = "XM" -> XM_Handler(words) [] handler = "VE" -> VE_Handler(words)
      [] handler = "KE" -> KE_Handler(words) [] handler = "DF" -> DF_Handler(words)
      [] handler = "AC" -> AC_Handler(words) [] handler = "CP" -> CP_Handler(words)
      [] handler = "TS" -> TS_Handler(words) [] handler = "NP" -> NP_Handler(words)
      [] handler = "SS" -> SS_Handler(words) [] handler = "GP" -> GP_Handler(words)
      [] handler = "PF" -> PF_Handler(words)

(* The report of an exception whose gate can be passed. *)
Report(vector, info, frame) ==
    Handled(IdtEntries[vector], Pushed(vector, Encoded(vector, info), frame))
=============================================================================

------------------------------- MODULE Format -------------------------------
(***************************************************************************)
(* vfkprintf (format.cpp) over the characters of a format: one iteration   *)
(* of its loop is one action, named after the case of the switch that it   *)
(* runs.  Arguments are the values va_arg returns; the floating-point ones *)
(* come from registers of their own and are never looked at, so they are   *)
(* left out.                                                               *)
(***************************************************************************)
EXTENDS Integers, Sequences, FiniteSets, SequencesExt

CONSTANTS
    WordBits,       \* bits of a u64 (64)
    BufferSize,     \* size of print_int's buffer (128)
    Formats         \* the calls: the format's items with their arguments (see Printf)

(* Every numeral, a sign or a prefix of two characters fits. *)
ASSUME SizesAssumption == /\ WordBits \in Nat \ {0}
                          /\ BufferSize \in Nat
                          /\ BufferSize >= WordBits + 2

VARIABLES
    items,          \* what the caller means by the call,
    format, args,   \* and what it passes: the characters and the arguments
    ptr,            \* place in the format
    state,          \* state_print, ..., state_specifier
    flags,          \* the last flag, flags_none if there is none
    width, precision,
    count,          \* characters counted so far, the value returned
    ap,             \* the next argument
    out,            \* characters given to the stream
    stored,         \* what %n has written
    broken          \* print_int has written behind its buffer

call == <<items, format, args>>

formatVars == <<call, ptr, state, flags, width, precision, count, ap, out, stored, broken>>

Null == <<"null">>

(* The three locals are declared without a value. *)
Unset == -1             \* no u32 is negative
FlagsUnset == "unset"

-----------------------------------------------------------------------------
(* The call: the text of the format and its arguments, in order.           *)

Numerals == [n \in 0 .. 99 |->
    LET digit == <<"0", "1", "2", "3", "4", "5", "6", "7", "8", "9">>
    IN  IF n < 10 THEN <<digit[n + 1]>> ELSE <<digit[n \div 10 + 1], digit[(n % 10) + 1]>>]

NumberText(number) ==
    CASE number.by = "none" -> <<>>
      [] number.by = "star" -> <<"*">>
      [] number.by = "digits" -> Numerals[number.n]

ItemText(item) ==
    IF item.spec = "text" THEN <<item.value>>
    ELSE <<"%">> \o (IF item.flag = "none" THEN <<>> ELSE <<item.flag>>)
                 \o NumberText(item.width)
                 \o (IF item.precision.by = "none" THEN <<>> ELSE <<".">>)
                 \o NumberText(item.precision)
                 \o (IF item.spec = "none" THEN <<>> ELSE <<item.spec>>)

TakesArgument == {"d", "D", "i", "I", "u", "U", "o", "O", "x", "X", "p", "P",
                  "c", "C", "s", "S", "h", "H", "w", "W", "n", "N"}

ItemArguments(item) ==
    IF item.spec = "text" THEN <<>>
    ELSE (IF item.width.by = "star" THEN <<item.width.n>> ELSE <<>>)
         \o (IF item.precision.by = "star" THEN <<item.precision.n>> ELSE <<>>)
         \o (IF item.spec \in TakesArgument THEN <<item.value>> ELSE <<>>)

(* The texts, and the arguments, of the first i items. *)
TextUpTo(list) == LET text[i \in 0 .. Len(list)] ==
                        IF i = 0 THEN <<>> ELSE text[i - 1] \o ItemText(list[i])
                  IN  text
ArgumentsUpTo(list) == LET list_args[i \in 0 .. Len(list)] ==
                            IF i = 0 THEN <<>> ELSE list_args[i - 1] \o ItemArguments(list[i])
                       IN  list_args

Argument == args[ap]

More == ptr <= Len(format)          \* *ptr is not the terminator
Char == format[ptr]

-----------------------------------------------------------------------------
(* print_int.                                                              *)

Powers ==
    LET power[n \in 0 .. WordBits] == IF n = 0 THEN 1 ELSE 2 * power[n - 1]
    IN  power
Modulus == Powers[WordBits]

DigitChar(rem, uppercase) ==
    IF rem < 10 THEN Numerals[rem][1]
    ELSE (IF uppercase THEN <<"A", "B", "C", "D", "E", "F">>
                       ELSE <<"a", "b", "c", "d", "e", "f">>)[rem - 9]

HasSign(value, is_signed) == is_signed /\ value >= Modulus \div 2

(* Negating the least i64 overflows; the processor leaves it as it is. *)
Negated(value) == (Modulus - value) % Modulus

(* The do loop: digits from the lowest up. *)
DigitsLowFirst(value, base, uppercase) ==
    LET digits[v \in 0 .. Modulus - 1] ==
            <<DigitChar(v % base, uppercase)>>
            \o IF v \div base = 0 THEN <<>> ELSE digits[v \div base]
    IN  digits[value]

SignChars(has_sign, base, uppercase) ==
    CASE has_sign -> <<"-">>
      [] ~has_sign /\ flags = "flags_force_sign" -> <<"+">>
      [] ~has_sign /\ flags = "flags_sign_space" -> <<" ">>
      [] ~has_sign /\ flags = "flags_prefix" /\ base = 8 -> <<"0">>
      [] ~has_sign /\ flags = "flags_prefix" /\ base = 16 ->
            <<IF uppercase THEN "X" ELSE "x", "0">>
      [] OTHER -> <<>>

(* The buffer before it is printed backwards. *)
NumberBuffer(value, base, uppercase, is_signed) ==
    LET has_sign == HasSign(value, is_signed)
    IN  DigitsLowFirst(IF has_sign THEN Negated(value) ELSE value, base, uppercase)
        \o SignChars(has_sign, base, uppercase)

Padding(n, char) == [i \in 1 .. n |-> char]

Missing(n) == IF n < width THEN width - n ELSE 0

(* What print_int gives to the stream, and what it returns: for a left-     *)
(* justified number the loop that pads counts once more when it ends.       *)
PrintIntOut(buffer) ==
    IF flags = "flags_left_justify"
    THEN Reverse(buffer) \o Padding(Missing(Len(buffer)), " ")
    ELSE Reverse(buffer \o Padding(Missing(Len(buffer)),
                                   IF flags = "flags_pad_zero" THEN "0" ELSE " "))

(* Variant: the loop behind a left-justified number has a counter of its own. *)
PrintIntCountUnpadded(buffer) ==
    Len(buffer) + (IF flags = "flags_left_justify" THEN 0 ELSE Missing(Len(buffer)))

PrintIntCount(buffer) ==
    Len(buffer) + Missing(Len(buffer)) + (IF flags = "flags_left_justify" THEN 1 ELSE 0)

(* Variant: every padding goes to the buffer. *)
BufferUsedAlways(buffer) == Len(buffer) + Missing(Len(buffer))

(* Padding goes to the buffer unless the number is left-justified. *)
BufferUsed(buffer) ==
    IF flags = "flags_left_justify" THEN Len(buffer) ELSE Len(buffer) + Missing(Len(buffer))

(* print_flt prints nothing and returns 0. *)
PrintFloatOut == <<>>
PrintFloatCount == 0

-----------------------------------------------------------------------------
(* The call. *)
FormatInit ==
    /\ items \in Formats
    /\ format = TextUpTo(items)[Len(items)]
    /\ args = ArgumentsUpTo(items)[Len(items)]
    /\ ptr = 1
    /\ state = "state_print"
    /\ flags = FlagsUnset /\ width = Unset /\ precision = Unset
    /\ count = 0
    /\ ap = 1
    /\ out = <<>>
    /\ stored = <<>>
    /\ broken = FALSE

Running(s) == ~broken /\ More /\ state = s

(* state_print: a character is copied, a '%' starts a directive. *)
StatePrint ==
    /\ Running("state_print")
    /\ ptr' = ptr + 1
    /\ IF Char = "%"
       THEN /\ state' = "state_flags"
            /\ flags' = "flags_none"
            /\ UNCHANGED <<out, count>>
       ELSE /\ out' = Append(out, Char)
            /\ count' = count + 1
            /\ UNCHANGED <<state, flags>>
    /\ UNCHANGED <<call, width, precision, ap, stored, broken>>

FlagOf == [c \in {"-", "+", " ", "#", "0"} |->
    CASE c = "-" -> "flags_left_justify"
      [] c = "+" -> "flags_force_sign"
      [] c = " " -> "flags_sign_space"
      [] c = "#" -> "flags_prefix"
      [] c = "0" -> "flags_pad_zero"]

(* state_flags: one flag at most, then the width. *)
StateFlags ==
    /\ Running("state_flags")
    /\ IF Char \in DOMAIN FlagOf
       THEN ptr' = ptr + 1 /\ flags' = FlagOf[Char]
       ELSE UNCHANGED <<ptr, flags>>
    /\ state' = "state_width"
    /\ width' = 0
    /\ UNCHANGED <<call, precision, count, ap, out, stored, broken>>

DigitValue == [c \in {Numerals[n][1] : n \in 0 .. 9} |-> CHOOSE n \in 0 .. 9 : Numerals[n][1] = c]

(* state_width: digits and '*' as long as there are any, then '.' or not. *)
StateWidth ==
    /\ Running("state_width")
    /\ \/ /\ Char \in DOMAIN DigitValue
          /\ width' = width * 10 + DigitValue[Char]
          /\ ptr' = ptr + 1
          /\ UNCHANGED <<state, precision, ap>>
       \/ /\ Char = "*"
          /\ width' = Argument
          /\ ap' = ap + 1
          /\ ptr' = ptr + 1
          /\ UNCHANGED <<state, precision>>
       \/ /\ Char \notin DOMAIN DigitValue \union {"*"}
          /\ precision' = 0
          /\ IF Char = "."
             THEN ptr' = ptr + 1 /\ state' = "state_precision"
             ELSE ptr' = ptr /\ state' = "state_specifier"
          /\ UNCHANGED <<width, ap>>
    /\ UNCHANGED <<call, flags, count, out, stored, broken>>

(* Variant: what is neither a digit nor a '*' is left where it is. *)
StatePrecisionStays ==
    /\ Running("state_precision")
    /\ \/ /\ Char \in DOMAIN DigitValue
          /\ precision' = precision * 10 + DigitValue[Char]
          /\ ptr' = ptr + 1
          /\ UNCHANGED <<state, ap>>
       \/ /\ Char = "*"
          /\ precision' = Argument
          /\ ap' = ap + 1
          /\ ptr' = ptr + 1
          /\ UNCHANGED state
       \/ /\ Char \notin DOMAIN DigitValue \union {"*"}
          /\ UNCHANGED <<state, precision, ptr, ap>>
    /\ UNCHANGED <<call, flags, width, count, out, stored, broken>>

StatePrecision ==
    /\ Running("state_precision")
    /\ \/ /\ Char \in DOMAIN DigitValue
          /\ precision' = precision * 10 + DigitValue[Char]
          /\ ptr' = ptr + 1
          /\ UNCHANGED <<state, ap>>
       \/ /\ Char = "*"
          /\ precision' = Argument
          /\ ap' = ap + 1
          /\ ptr' = ptr + 1
          /\ UNCHANGED state
       \/ /\ Char \notin DOMAIN DigitValue \union {"*"}
          /\ state' = "state_specifier"
          /\ UNCHANGED <<precision, ptr, ap>>
    /\ UNCHANGED <<call, flags, width, count, out, stored, broken>>

-----------------------------------------------------------------------------
(* state_specifier: one action for each group of cases.  Every one of them  *)
(* goes on behind the specifier in state_print; the locals keep their       *)
(* values until the next directive sets them.                               *)

AtSpecifier(specs) == Running("state_specifier") /\ Char \in specs

SpecifierDone ==
    /\ ptr' = ptr + 1
    /\ state' = "state_print"
    /\ UNCHANGED <<call, flags, width, precision>>

(* d D i I u U o O x X p P: base, uppercase and is_signed of the call. *)
NumberCalls == [c \in {"d", "D", "i", "I", "u", "U", "o", "O", "x", "X", "p", "P"} |->
    CASE c \in {"d", "D", "i", "I"} -> [base |-> 10, uppercase |-> FALSE, is_signed |-> TRUE]
      [] c \in {"u", "U"}           -> [base |-> 10, uppercase |-> FALSE, is_signed |-> FALSE]
      [] c \in {"o", "O"}           -> [base |-> 8,  uppercase |-> FALSE, is_signed |-> FALSE]
      [] c \in {"x", "p", "P"}      -> [base |-> 16, uppercase |-> FALSE, is_signed |-> FALSE]
      [] c = "X"                    -> [base |-> 16, uppercase |-> TRUE,  is_signed |-> FALSE]]

SpecNumber ==
    /\ AtSpecifier(DOMAIN NumberCalls)
    /\ LET how == NumberCalls[Char]
           buffer == NumberBuffer(Argument, how.base, how.uppercase, how.is_signed)
       IN  IF BufferUsed(buffer) > BufferSize
           THEN broken' = TRUE /\ UNCHANGED <<out, count>>
           ELSE /\ out' = out \o PrintIntOut(buffer)
                /\ count' = count + PrintIntCount(buffer)
                /\ UNCHANGED broken
    /\ ap' = ap + 1
    /\ UNCHANGED stored
    /\ SpecifierDone

(* f F e E a A *)
SpecFloat ==
    /\ AtSpecifier({"f", "F", "e", "E", "a", "A"})
    /\ out' = out \o PrintFloatOut
    /\ count' = count + PrintFloatCount
    /\ UNCHANGED <<ap, stored, broken>>
    /\ SpecifierDone

SpecChar ==
    /\ AtSpecifier({"c", "C"})
    /\ out' = Append(out, Argument)
    /\ count' = count + 1
    /\ ap' = ap + 1
    /\ UNCHANGED <<stored, broken>>
    /\ SpecifierDone

(* Variant: a precision of 0 is a bound. *)
ShownBounded(value) == SubSeq(value, 1, IF precision < Len(value) THEN precision ELSE Len(value))

(* The loop over a string: *value && (!precision || n < precision). *)
Shown(value) ==
    IF precision = 0 \/ precision >= Len(value) THEN value ELSE SubSeq(value, 1, precision)

(* s S, h H and w W: characters of 1, 2 and 4 bytes; each reaches the stream. *)
SpecString ==
    /\ AtSpecifier({"s", "S", "h", "H", "w", "W"})
    /\ LET text == IF Argument = Null THEN <<"(", "n", "u", "l", "l", ")">>
                                      ELSE Shown(Argument)
       IN  /\ out' = out \o text
           /\ count' = count + Len(text)
    /\ ap' = ap + 1
    /\ UNCHANGED <<stored, broken>>
    /\ SpecifierDone

(* n N: the count so far, if the pointer is not null. *)
SpecStore ==
    /\ AtSpecifier({"n", "N"})
    /\ stored' = IF Argument THEN Append(stored, count) ELSE stored
    /\ ap' = ap + 1
    /\ UNCHANGED <<out, count, broken>>
    /\ SpecifierDone

SpecPercent ==
    /\ AtSpecifier({"%"})
    /\ out' = Append(out, "%")
    /\ count' = count + 1
    /\ UNCHANGED <<ap, stored, broken>>
    /\ SpecifierDone

(* Any other character is skipped, and no argument with it. *)
KnownSpecifiers == TakesArgument \union {"f", "F", "e", "E", "a", "A", "%"}

SpecUnknown ==
    /\ Running("state_specifier")
    /\ Char \notin KnownSpecifiers
    /\ UNCHANGED <<out, count, ap, stored, broken>>
    /\ SpecifierDone

FormatNext ==
    \/ StatePrint \/ StateFlags \/ StateWidth \/ StatePrecision
    \/ SpecNumber \/ SpecFloat \/ SpecChar \/ SpecString
    \/ SpecStore \/ SpecPercent \/ SpecUnknown

(* The caller runs; each iteration of the loop comes to its end. *)
FormatSpec == FormatInit /\ [][FormatNext]_formatVars /\ WF_formatVars(FormatNext)

-----------------------------------------------------------------------------
(* The calls: characters that are copied, and directives whose specifier is  *)
(* not taken for a flag, a number or a point; only the last may break off.   *)
StringSpecs == {"s", "S", "h", "H", "w", "W"}
IsSequence(value) == value \in Seq({value[i] : i \in DOMAIN value})

(* A width that is written in the format has no leading zero: that is a flag. *)
IsNumber(number, least) ==
    \/ number.by = "none" /\ number.n = 0
    \/ number.by = "digits" /\ number.n \in least .. 99
    \/ number.by = "star" /\ number.n \in Nat

IsDirective(item) ==
    /\ item.flag \in DOMAIN FlagOf \union {"none"}
    /\ IsNumber(item.width, 1) /\ IsNumber(item.precision, 0)
    /\ item.spec \notin DOMAIN FlagOf \union DOMAIN DigitValue \union {"*", "."}
    /\ item.spec \in DOMAIN NumberCalls => item.value \in 0 .. Modulus - 1
    /\ item.spec \in StringSpecs => item.value = Null \/ IsSequence(item.value)
    /\ item.spec \in {"n", "N"} => item.value \in BOOLEAN

IsItem(item) == IF item.spec = "text" THEN item.value # "%" ELSE IsDirective(item)

ASSUME FormatsAssumption ==
    \A list \in Formats :
        /\ IsSequence(list)
        /\ \A i \in DOMAIN list : IsItem(list[i]) /\ (list[i].spec = "none" => i = Len(list))

-----------------------------------------------------------------------------
(* Type invariant of vfkprintf's locals; a local that is declared without a *)
(* value is not read before it has one: flags once a directive has begun,   *)
(* the width behind the flags, the precision at the specifier.              *)
FormatTypeOK ==
    /\ ptr \in 1 .. Len(format) + 1
    /\ state \in {"state_print", "state_flags", "state_width",
                  "state_precision", "state_specifier"}
    /\ state # "state_print" => flags # FlagsUnset
    /\ state \in {"state_width", "state_precision", "state_specifier"} => width \in Nat
    /\ state \in {"state_precision", "state_specifier"} => precision \in Nat
    /\ count \in Nat
    /\ broken \in BOOLEAN

(* How many items the loop has left behind. *)
Done == LET text == TextUpTo(items) IN Cardinality({i \in DOMAIN items : Len(text[i]) < ptr})

(* The count returned (and stored by %n) never misses a character that      *)
(* reached the stream; and as long as no number has been left-justified it   *)
(* is their number, whatever else was shown, padded, cut off, unknown or     *)
(* null (format.cpp:28-124, 148-416).  Of what a left-justified number adds  *)
(* beyond its characters nothing is promised here.                           *)
CountTrue ==
    /\ count >= Len(out)
    /\ (\A i \in 1 .. Done : items[i].spec \in DOMAIN NumberCalls => items[i].flag # "-")
          => count = Len(out)

(* The buffer of print_int is left only by a right-justified number with a   *)
(* width beyond it: digits, sign and prefix alone always fit (format.cpp:86). *)
OnlyWidthOverruns ==
    FormatTypeOK /\ (broken => \E i \in DOMAIN items : /\ items[i].spec \in DOMAIN NumberCalls
                                      /\ items[i].flag # "-"
                                      /\ items[i].width.n > BufferSize)

(* The parser shows what the items mean, item by item and in their order,   *)
(* digit by digit and with their arguments (also in a format that breaks     *)
(* off inside a directive), and writes behind its buffer exactly when a      *)
(* width says so (format.cpp:128-416).                                       *)
PrintfDone == IF broken THEN Done - 1 ELSE Done
P == INSTANCE Printf WITH done <- PrintfDone
PrintfSteps == P!Init /\ [][P!Next]_(P!vars)

(* It comes to the end of every format (format.cpp:148-416).                *)
ShownToTheEnd == <>(broken \/ PrintfDone = Len(items))
=============================================================================

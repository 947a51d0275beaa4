------------------------------- MODULE Printf -------------------------------
(***************************************************************************)
(* What a call of kprintf promises, whatever the parser of format.cpp does *)
(* to keep it.  A format is a list of items: a character that is copied,   *)
(* or a directive with at most one flag, a width and a precision (written  *)
(* in the format or taken from the arguments), a specifier and the         *)
(* argument it shows.  The items are shown one after the other.            *)
(*                                                                         *)
(* A directive is a record with the fields                                 *)
(*   flag       one of "none", "-", "+", " ", "#", "0"                     *)
(*   width      [by |-> "none", "digits" or "star", n |-> the number]      *)
(*   precision  the same                                                   *)
(*   spec       the specifier; "none" when the format ends before it       *)
(*   value      the argument: a number for the numeric specifiers, a       *)
(*              sequence of characters or Null for strings, a character,   *)
(*              TRUE or FALSE for the pointer of %n (valid or null)        *)
(* A copied character is a record with spec |-> "text" and value.          *)
(***************************************************************************)
EXTENDS Integers, Sequences, FiniteSets, SequencesExt

CONSTANTS
    WordBits,       \* bits of a u64
    BufferSize      \* characters that a number field has room for

VARIABLES
    items,          \* the format with its arguments
    done,           \* how many of the items have been shown
    out,            \* the characters shown
    stored,         \* what the %n directives have stored, in order
    broken          \* a field did not fit into the buffer: anything may follow

vars == <<items, done, out, stored, broken>>

Null == <<"null">>

SignedSpecs == {"d", "D", "i", "I"}
HexSpecs == {"x", "X", "p", "P"}
NumberSpecs == SignedSpecs \union HexSpecs \union {"u", "U", "o", "O"}
StringSpecs == {"s", "S", "h", "H", "w", "W"}

Base(spec) == CASE spec \in HexSpecs -> 16
                [] spec \in {"o", "O"} -> 8
                [] OTHER -> 10

-----------------------------------------------------------------------------
(* Numbers. *)

Power(base) == LET power[n \in 0 .. WordBits] == IF n = 0 THEN 1 ELSE base * power[n - 1]
               IN  power

Negative(item) == item.spec \in SignedSpecs /\ item.value >= Power(2)[WordBits - 1]

Magnitude(item) == IF Negative(item) THEN Power(2)[WordBits] - item.value ELSE item.value

(* The digits of a magnitude, the most significant first and without leading zeros. *)
Numeral(m, base) ==
    LET size == CHOOSE n \in 1 .. WordBits :
                    m < Power(base)[n] /\ (n = 1 \/ m >= Power(base)[n - 1])
    IN  [i \in 1 .. size |-> (m \div Power(base)[size - i]) % base]

Digit(d, spec) ==
    (IF spec = "X" THEN <<"0", "1", "2", "3", "4", "5", "6", "7", "8", "9", "A", "B", "C", "D", "E", "F">>
                   ELSE <<"0", "1", "2", "3", "4", "5", "6", "7", "8", "9", "a", "b", "c", "d", "e", "f">>)[d + 1]

Sign(item) ==
    CASE Negative(item) -> <<"-">>
      [] ~Negative(item) /\ item.flag = "+" -> <<"+">>
      [] ~Negative(item) /\ item.flag = " " -> <<" ">>
      [] item.flag = "#" /\ Base(item.spec) = 8 -> <<"0">>
      [] item.flag = "#" /\ item.spec = "X" -> <<"0", "X">>
      [] item.flag = "#" /\ item.spec \in HexSpecs \ {"X"} -> <<"0", "x">>
      [] OTHER -> <<>>

(* Padding never truncates; zeros are put before the sign, not after it. *)
Field(item) ==
    LET number == Numeral(Magnitude(item), Base(item.spec))
        body == Sign(item) \o [i \in DOMAIN number |-> Digit(number[i], item.spec)]
        missing == IF Len(body) < item.width.n THEN item.width.n - Len(body) ELSE 0
        padding == [i \in 1 .. missing |-> IF item.flag = "0" THEN "0" ELSE " "]
    IN  IF item.flag = "-" THEN body \o padding ELSE padding \o body

-----------------------------------------------------------------------------
(* A precision of 0 is no bound, and a string's width is not looked at. *)
Text(item) ==
    CASE item.value = Null -> <<"(", "n", "u", "l", "l", ")">>
      [] item.value # Null /\ item.precision.n \in 1 .. Len(item.value) ->
            SubSeq(item.value, 1, item.precision.n)
      [] OTHER -> item.value

(* What an item adds to the output; unknown specifiers, floating-point     *)
(* numbers, %n and a directive that is cut off add nothing.                *)
Shown(item) ==
    CASE item.spec \in NumberSpecs -> Field(item)
      [] item.spec \in StringSpecs -> Text(item)
      [] item.spec \in {"text", "c", "C"} -> <<item.value>>
      [] item.spec = "%" -> <<"%">>
      [] OTHER -> <<>>

(* The count that is returned and stored: the characters shown, and one more *)
(* for every left-justified number.                                          *)
Count == Len(out) + Cardinality({i \in 1 .. done :
                        items[i].spec \in NumberSpecs /\ items[i].flag = "-"})

-----------------------------------------------------------------------------
Init == /\ done = 0
        /\ out = <<>>
        /\ stored = <<>>
        /\ broken = FALSE

(* A number whose width is beyond the buffer, unless it is left-justified. *)
Overruns(item) == /\ item.spec \in NumberSpecs
                  /\ item.flag # "-"
                  /\ item.width.n > BufferSize

ShowItem ==
    /\ ~broken
    /\ done < Len(items)
    /\ LET item == items[done + 1]
       IN  /\ ~Overruns(item)
           /\ out' = out \o Shown(item)
           /\ stored' = IF item.spec \in {"n", "N"} /\ item.value
                        THEN Append(stored, Count) ELSE stored
    /\ done' = done + 1
    /\ UNCHANGED <<items, broken>>

Break ==
    /\ ~broken
    /\ done < Len(items)
    /\ Overruns(items[done + 1])
    /\ broken' = TRUE
    /\ UNCHANGED <<items, done, out, stored>>

Next == ShowItem \/ Break

Spec == Init /\ [][Next]_vars /\ WF_vars(Next)
=============================================================================

------------------------------ MODULE MCFormat ------------------------------
(* Values for Format: words of 8 bits and a buffer of 10 characters.  Every  *)
(* directive stands alone, and behind and before directives that take two,   *)
(* one or no argument.                                                       *)
EXTENDS Format

MCWordBits == 8
MCBufferSize == 10

None == [by |-> "none", n |-> 0]
Digits(n) == [by |-> "digits", n |-> n]
Star(n) == [by |-> "star", n |-> n]

Directive(flag, w, p, spec, value) ==
    [flag |-> flag, width |-> w, precision |-> p, spec |-> spec, value |-> value]
Literal(c) == Directive("none", None, None, "text", c)

AnyFlag == {"none", "-", "+", " ", "#", "0"}
AnyWidth == {None, Digits(3), Digits(10), Star(5), Star(11)}

(* 0, one digit, the largest i8, the least one, and -1. *)
Values == {0, 7, 127, 128, 255}

NumberItems == {Directive(f, w, None, s, v) :
    f \in AnyFlag, w \in AnyWidth, s \in {"d", "u", "o", "x", "X", "p"}, v \in Values}

StringItems == {Directive(f, w, p, s, v) :
    f \in {"none", "-"}, w \in {None, Digits(4)}, p \in {None, Digits(0), Digits(1), Star(2), Digits(12)},
    s \in {"s", "h", "w"}, v \in {Null, <<>>, <<"a", "b", "c">>}}

OtherItems ==
    {Directive("none", None, None, "c", "z"), Directive("none", None, None, "%", "none"),
     Directive("+", Digits(2), Digits(2), "f", "none"), Directive("none", None, Star(1), "a", "none"),
     Directive("none", Star(9), None, "q", "none"), Directive("none", None, None, "n", TRUE),
     Directive("none", None, None, "n", FALSE), Literal("a"), Literal("0")}

(* A directive that the format breaks off. *)
CutItems == {Directive(f, w, p, "none", "none") :
    f \in {"none", "0"}, w \in {None, Digits(12), Star(4)}, p \in {None, Star(1)}}

FewItems == OtherItems \union CutItems \union
    {Directive("-", None, None, "d", 128), Directive("0", Star(5), None, "x", 255),
     Directive("none", Digits(11), None, "u", 1), Directive("none", None, Star(2), "s", <<"a", "b", "c">>)}

Complete(item) == item.spec # "none"

MCFormats ==
    {<<>>} \union {<<a>> : a \in NumberItems \union StringItems \union FewItems}
    \union {<<a, b, c>> : a \in {i \in FewItems : Complete(i)}, b \in OtherItems, c \in FewItems}
=============================================================================

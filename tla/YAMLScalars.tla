------------------------------ MODULE YAMLScalars ------------------------------
(***************************************************************************)
(* What one scalar of a YAML document becomes: null, a boolean, an         *)
(* integer, a floating-point value that keeps its spelling, or a string.   *)
(*                                                                         *)
(* A spelling is a sequence of characters.  A word that means null, true   *)
(* or false counts as one, whatever its case; characters that no form      *)
(* mentions stand for each other.                                          *)
(***************************************************************************)
EXTENDS Integers, Sequences

CONSTANT IntegerWidth           \* of std::int64_t
ASSUME WidthAssumption == IntegerWidth \in Nat \ {0}

MaxInteger == 2 ^ (IntegerWidth - 1) - 1
MaxUnsigned == 2 ^ IntegerWidth - 1

NullWords == {"~", "null"}
TrueWords == {"y", "yes", "true", "on"}
FalseWords == {"n", "no", "false", "off"}
IsWord(text, words) == Len(text) = 1 /\ text[1] \in words

Absent == [type |-> "none"]
Boolean(b) == [type |-> "boolean", boolean |-> b]
Integer(i) == [type |-> "integer", integer |-> i]
Double(text) == [type |-> "double", spelling |-> text]
String(text) == [type |-> "string", text |-> text]

-----------------------------------------------------------------------------
(* Scanning *)

DigitValue ==
    [c \in {"0", "1", "2", "3", "4", "5", "6", "7", "8", "9", "a", "b", "c", "d", "e", "f"} |->
        CASE c = "0" -> 0 [] c = "1" -> 1 [] c = "2" -> 2 [] c = "3" -> 3 [] c = "4" -> 4 [] c = "5" -> 5
          [] c = "6" -> 6 [] c = "7" -> 7 [] c = "8" -> 8 [] c = "9" -> 9 [] c = "a" -> 10 [] c = "b" -> 11
          [] c = "c" -> 12 [] c = "d" -> 13 [] c = "e" -> 14 [] c = "f" -> 15]
Digits(base) == {c \in DOMAIN DigitValue : DigitValue[c] < base}
At(text, i, chars) == i \in DOMAIN text /\ text[i] \in chars
\* The position after the characters of chars that begin at i.
After(text, i, chars) ==
    CHOOSE j \in i..(Len(text) + 1) : (\A k \in i..(j - 1) : text[k] \in chars) /\ ~At(text, j, chars)
AfterSign(text, i) == IF At(text, i, {"+", "-"}) THEN i + 1 ELSE i
Magnitude(digits, base) ==
    LET upTo[n \in 0..Len(digits)] == IF n = 0 THEN 0 ELSE upTo[n - 1] * base + DigitValue[digits[n]]
    IN upTo[Len(digits)]

\* A zero that something follows begins a numeral of another base.
BaseAt(text, i) ==
    CASE ~(At(text, i, {"0"}) /\ i < Len(text)) -> 10
      [] At(text, i, {"0"}) /\ At(text, i + 1, {"x"}) -> 16
      [] At(text, i, {"0"}) /\ At(text, i + 1, {"b"}) -> 2
      [] OTHER -> 8
MarkerSize(base) == CASE base = 10 -> 0 [] base = 8 -> 1 [] OTHER -> 2

\* parseYAMLInteger: from_chars reports a number that is too large before the code looks
\* at what follows it.
ParseInteger(text) ==
    LET start == AfterSign(text, 1)
        negative == At(text, 1, {"-"})
        base == BaseAt(text, start)
        first == start + MarkerSize(base)
        end == After(text, first, Digits(base))
        magnitude == Magnitude(SubSeq(text, first, end - 1), base)
        digits == end > first
        complete == end > Len(text)
        tooLarge == magnitude > MaxUnsigned
                    \/ (complete /\ magnitude > (IF negative THEN MaxInteger + 1 ELSE MaxInteger))
    IN [status |-> CASE digits /\ tooLarge -> "outOfRange"
                     [] digits /\ ~tooLarge /\ complete -> "read"
                     [] OTHER -> "none",
        value |-> IF negative THEN -magnitude ELSE magnitude]

\* Extraction of a double from a stream that must end there, for numbers in its range.
ParseSimpleDouble(text) ==
    LET start == AfterSign(text, After(text, 1, {" "}))
        whole == After(text, start, Digits(10))
        point == At(text, whole, {"."})
        fraction == IF point THEN After(text, whole + 1, Digits(10)) ELSE whole
        exponent == AfterSign(text, fraction + 1)
        end == IF At(text, fraction, {"e"}) THEN After(text, exponent, Digits(10)) ELSE fraction
    IN /\ fraction - start > (IF point THEN 1 ELSE 0)
       /\ At(text, fraction, {"e"}) => end > exponent
       /\ After(text, end, {" "}) > Len(text)

\* parseYAMLFloat: the point is required, and so is a sign in an exponent.
ParseFloat(text) ==
    LET start == AfterSign(text, 1)
        whole == After(text, start, Digits(10))
        fraction == After(text, whole + 1, Digits(10))
        scientific == At(text, fraction, {"e"})
        end == IF scientific THEN After(text, fraction + 2, Digits(10)) ELSE fraction
    IN /\ At(text, whole, {"."}) /\ fraction - start > 1
       /\ scientific => At(text, fraction + 1, {"+", "-"}) /\ end > fraction + 2
       /\ end > Len(text)
       /\ ParseSimpleDouble(text)

-----------------------------------------------------------------------------
(* Resolution *)

ResolveBoolean(text) == IF IsWord(text, TrueWords) THEN Boolean(TRUE) ELSE Boolean(FALSE)
IsBoolean(text) == IsWord(text, TrueWords \cup FalseWords)
IsInteger(text) == ParseInteger(text).status = "read"
\* An integer that is too large is a double, if a double can be read from it.
Overflows(text) == ParseInteger(text).status = "outOfRange" /\ ParseSimpleDouble(text)

\* An explicit tag is honored if the text has such a value; else it is a string.
ResolveTagged(tag, text) ==
    CASE tag = "null" -> Absent
      [] tag = "bool" /\ IsBoolean(text) -> ResolveBoolean(text)
      [] tag = "int" /\ IsInteger(text) -> Integer(ParseInteger(text).value)
      [] tag = "int" /\ Overflows(text) -> Double(text)
      [] tag = "float" /\ (ParseFloat(text) \/ ParseSimpleDouble(text)) -> Double(text)
      [] OTHER -> String(text)

\* Fault: an integer that is too large for its type is read as a string.
ResolvePlainNoOverflow(text) ==
    CASE text = <<>> \/ IsWord(text, NullWords) -> Absent
      [] IsBoolean(text) -> ResolveBoolean(text)
      [] IsInteger(text) -> Integer(ParseInteger(text).value)
      [] ParseFloat(text) -> Double(text)
      [] OTHER -> String(text)
ResolvePlain(text) ==
    CASE text = <<>> \/ IsWord(text, NullWords) -> Absent
      [] IsBoolean(text) -> ResolveBoolean(text)
      [] IsInteger(text) -> Integer(ParseInteger(text).value)
      [] ParseFloat(text) \/ Overflows(text) -> Double(text)
      [] OTHER -> String(text)

\* libyaml gives a scalar without a tag the tag "str", as if it had been written.
Resolve(scalar) ==
    CASE scalar.tag \in {"bool", "int", "float", "null"} -> ResolveTagged(scalar.tag, scalar.text)
      [] scalar.tag = "str" /\ scalar.plain -> ResolvePlain(scalar.text)
      [] OTHER -> String(scalar.text)

=============================================================================

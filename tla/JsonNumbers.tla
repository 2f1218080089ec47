---------------------------- MODULE JsonNumbers ----------------------------
(***************************************************************************)
(* How a number is read (parse_number of src/src/parse.cpp), stored in one *)
(* of three kinds (Slab::make_number), given to the client (as_int64(),    *)
(* as_uint64() and as_number() of src/src/value.cpp) and written           *)
(* (write_number of src/src/serialize.cpp).  The other modules take from   *)
(* here that a number lexeme stands for a number or for an error.          *)
(*                                                                         *)
(* The conversions between digits and numbers belong to the standard       *)
(* library.  They are modelled by what the code relies on: integers of a   *)
(* given width, and doubles as decimal numbers m * 10^e of a limited       *)
(* order of magnitude, with a sign that zero has too.                      *)
(***************************************************************************)
EXTENDS Integers, Sequences

CONSTANTS
    Int64Max,       \* 2^63 - 1; the smallest int64_t is -Int64Max - 1
    Uint64Max,      \* 2^64 - 1
    MaxOrder,       \* 308: the largest power of ten a double reaches
    MaxFixedOrder,  \* 5: the largest one that is written without exponent
    Characters,     \* what numbers are written with
    MaxCharacters,  \* bound: the length of a text
    SomeDoubles     \* doubles that the client stores

ASSUME WidthsAssumption ==
    /\ Int64Max \in Nat /\ Uint64Max \in Nat
    /\ MaxOrder \in Nat /\ MaxFixedOrder \in 0 .. MaxOrder
    /\ Uint64Max = 2 * Int64Max + 1
    /\ 10 ^ (MaxFixedOrder + 1) <= Int64Max + 1
    /\ MaxCharacters \in Nat

Digits == <<"0", "1", "2", "3", "4", "5", "6", "7", "8", "9">>
Digit == {Digits[k] : k \in 1 .. 10}
Int64 == -Int64Max - 1 .. Int64Max
Uint64 == 0 .. Uint64Max

(* A double is normalised when m has no factor of ten.                     *)
Double(negative, m, e) ==
    LET reduced[n \in Nat, order \in Int] ==
            IF n = 0 THEN [negative |-> negative, m |-> 0, e |-> 0]
            ELSE IF n % 10 # 0
            THEN [negative |-> negative, m |-> n, e |-> order]
            ELSE reduced[n \div 10, order + 1]
    IN reduced[m, e]

Signed(n) == [kind |-> "SignedInteger", value |-> n]
Unsigned(n) == [kind |-> "UnsignedInteger", value |-> n]
Floating(double) == [kind |-> "FloatingPoint", value |-> double]
NoNumber == [kind |-> "None", value |-> 0]

-----------------------------------------------------------------------------
(* The standard library: from_chars and to_chars.                          *)

ValueOf(digits) ==
    LET value[k \in 0 .. Len(digits)] ==
            IF k = 0 THEN 0
            ELSE 10 * value[k - 1]
                 + CHOOSE v \in 0 .. 9 : Digits[v + 1] = digits[k]
    IN value[Len(digits)]

DigitsOf(n) ==
    LET digits[m \in Nat] ==
            IF m < 10 THEN <<Digits[m + 1]>>
            ELSE Append(digits[m \div 10], Digits[(m % 10) + 1])
    IN digits[n]

(* The characters of a text that are digits, in order.                     *)
OnlyDigits(text) == SelectSeq(text, LAMBDA c : c \in Digit)

Index(text, marks) ==
    IF \E k \in DOMAIN text : text[k] \in marks
    THEN CHOOSE k \in DOMAIN text :
            text[k] \in marks /\ \A j \in 1 .. k - 1 : text[j] \notin marks
    ELSE Len(text) + 1

IntegerFromChars(text) ==
    IF text[1] = "-" THEN -ValueOf(Tail(text)) ELSE ValueOf(text)

DoubleFromChars(text) ==
    LET e == Index(text, {"e", "E"})
        mantissa == SubSeq(text, 1, e - 1)
        exponent == SubSeq(text, e + 1, Len(text))
        point == Index(mantissa, {"."})
        fraction == SubSeq(mantissa, point + 1, Len(mantissa))
        power == IF exponent # <<>> /\ exponent[1] = "-"
                 THEN -ValueOf(OnlyDigits(exponent))
                 ELSE ValueOf(OnlyDigits(exponent))
    IN Double(text[1] = "-", ValueOf(OnlyDigits(mantissa)),
              power - Len(fraction))

Order(double) == double.e + Len(DigitsOf(double.m)) - 1

InRange(double) ==
    double.m = 0 \/ Order(double) \in -MaxOrder .. MaxOrder

Sign(negative) == IF negative THEN <<"-">> ELSE <<>>

IntegerToChars(n) == Sign(n < 0) \o DigitsOf(IF n < 0 THEN -n ELSE n)

(* The shortest digits, as %g lays them out.                               *)
Zeros(n) == [k \in 1 .. n |-> "0"]

FixedToChars(double) ==
    LET digits == DigitsOf(double.m)
        padded == Zeros(-Order(double)) \o digits
    IN IF double.e >= 0
       THEN digits \o Zeros(double.e)
       ELSE SubSeq(padded, 1, Len(padded) + double.e) \o <<".">>
                \o SubSeq(padded, Len(padded) + double.e + 1, Len(padded))

ScientificToChars(double) ==
    LET digits == DigitsOf(double.m)
        order == Order(double)
        power == DigitsOf(IF order < 0 THEN -order ELSE order)
    IN <<digits[1]>>
           \o (IF Len(digits) = 1 THEN <<>> ELSE <<".">> \o Tail(digits))
           \o <<"e", IF order < 0 THEN "-" ELSE "+">>
           \o Zeros(2 - Len(power)) \o power

DoubleToChars(double) ==
    Sign(double.negative)
        \o IF Order(double) \in -4 .. MaxFixedOrder
           THEN FixedToChars(double) ELSE ScientificToChars(double)

-----------------------------------------------------------------------------
(* parse_number(), at a text that begins with "-" or a digit.  A reading   *)
(* is where the cursor is, whether there has been a point or an exponent,  *)
(* and the error, "" as long as there is none.                             *)

IsAt(text, k, marks) == k <= Len(text) /\ text[k] \in marks

SkipDigits(text, k) ==
    CHOOSE j \in k .. Len(text) + 1 :
        /\ ~IsAt(text, j, Digit)
        /\ \A i \in k .. j - 1 : text[i] \in Digit

Invalid(reading) == [reading EXCEPT !.code = "ParseInvalidNumber"]

(* Digits are due at k, and the cursor moves past them.                    *)
DueDigits(text, reading, k) ==
    IF IsAt(text, k, Digit)
    THEN [reading EXCEPT !.cursor = SkipDigits(text, k), !.floating = TRUE]
    ELSE Invalid(reading)

(* Mutated form of ReadWhole: digits may follow a leading zero.            *)
ReadWholeZeros(text) ==
    LET first == IF text[1] = "-" THEN 2 ELSE 1
        reading == [cursor |-> first, floating |-> FALSE, code |-> ""]
    IN IF ~IsAt(text, first, Digit) THEN Invalid(reading)
       ELSE [reading EXCEPT !.cursor = SkipDigits(text, first)]

ReadWhole(text) ==
    LET first == IF text[1] = "-" THEN 2 ELSE 1
        reading == [cursor |-> first, floating |-> FALSE, code |-> ""]
    IN IF ~IsAt(text, first, Digit)
       THEN Invalid(reading)
       ELSE IF text[first] # "0"
       THEN [reading EXCEPT !.cursor = SkipDigits(text, first)]
       ELSE IF IsAt(text, first + 1, Digit)
       THEN Invalid(reading)
       ELSE [reading EXCEPT !.cursor = first + 1]

ReadFraction(text, reading) ==
    IF reading.code = "" /\ IsAt(text, reading.cursor, {"."})
    THEN DueDigits(text, reading, reading.cursor + 1)
    ELSE reading

ReadExponent(text, reading) ==
    LET next == reading.cursor + 1
    IN IF reading.code = "" /\ IsAt(text, reading.cursor, {"e", "E"})
       THEN DueDigits(text, reading,
                      IF IsAt(text, next, {"+", "-"}) THEN next + 1 ELSE next)
       ELSE reading

(* The number that the characters read are stored as: an int64_t if it can *)
(* be, and only what is not negative is tried as an uint64_t.              *)
Convert(text, floating) ==
    LET integer == IntegerFromChars(text)
        double == DoubleFromChars(text)
    IN IF floating
       THEN IF InRange(double) THEN Floating(double) ELSE NoNumber
       ELSE IF integer \in Int64
       THEN Signed(integer)
       ELSE IF text[1] # "-" /\ integer \in Uint64
       THEN Unsigned(integer)
       ELSE NoNumber

ParseNumber(text) ==
    LET reading == ReadExponent(text, ReadFraction(text, ReadWhole(text)))
        number == Convert(SubSeq(text, 1, reading.cursor - 1),
                          reading.floating)
    IN IF reading.code # ""
       THEN [code |-> reading.code, cursor |-> reading.cursor,
             number |-> NoNumber]
       ELSE IF number = NoNumber
       THEN [code |-> "ParseInvalidNumber", cursor |-> 1, number |-> NoNumber]
       ELSE [code |-> "Ok", cursor |-> reading.cursor, number |-> number]

-----------------------------------------------------------------------------
(* What the client is given for a stored number.                           *)

None == [given |-> FALSE, value |-> 0]
Given(n) == [given |-> TRUE, value |-> n]

AsInt64(number) ==
    IF \/ number.kind = "SignedInteger"
       \/ (number.kind = "UnsignedInteger" /\ number.value <= Int64Max)
    THEN Given(number.value)
    ELSE None

AsUint64(number) ==
    IF \/ (number.kind = "SignedInteger" /\ number.value >= 0)
       \/ number.kind = "UnsignedInteger"
    THEN Given(number.value)
    ELSE None

(* static_cast<double>, at widths at which it does not round.              *)
AsNumber(number) ==
    IF number.kind = "FloatingPoint" THEN number.value
    ELSE Double(number.value < 0,
                IF number.value < 0 THEN -number.value ELSE number.value, 0)

(* write_number().  Mutated form: the zero with a sign is no special case. *)
WriteNumberPlain(number) ==
    IF number.kind # "FloatingPoint"
    THEN IntegerToChars(number.value)
    ELSE DoubleToChars(number.value)

WriteNumber(number) ==
    IF number.kind # "FloatingPoint"
    THEN IntegerToChars(number.value)
    ELSE IF number.value.m = 0 /\ number.value.negative
    THEN <<"-", "0", ".", "0">>
    ELSE DoubleToChars(number.value)

-----------------------------------------------------------------------------
(* A client writes a text, or stores a number.                             *)

VARIABLES
    text,           \* what there is to read
    number          \* what has been read or stored

numberVars == <<text, number>>

Stored == {Signed(n) : n \in Int64} \cup {Unsigned(n) : n \in Uint64}
          \cup {Floating(double) : double \in SomeDoubles}

NumbersInit == text = <<>> /\ number = NoNumber

(* parse_value() calls parse_number() at a "-" and at a digit.             *)
Type(c) ==
    /\ Len(text) < MaxCharacters
    /\ text = <<>> => number = NoNumber /\ c \in Digit \cup {"-"}
    /\ text' = Append(text, c)
    /\ number' = ParseNumber(text').number

Store(stored) ==
    /\ text = <<>>
    /\ number' = stored
    /\ UNCHANGED text

NumbersNext ==
    \/ \E c \in Characters : Type(c)
    \/ \E stored \in Stored : Store(stored)

NumbersSpec == NumbersInit /\ [][NumbersNext]_numberVars

-----------------------------------------------------------------------------
(* What JSON says (RFC 8259, section 6), by which the above is judged.     *)

AreDigits(s) == s # <<>> /\ \A k \in DOMAIN s : s[k] \in Digit

IsWhole(s) == AreDigits(s) /\ (s[1] = "0" => Len(s) = 1)

IsFraction(s) == s = <<>> \/ (s[1] = "." /\ AreDigits(Tail(s)))

IsExponent(s) ==
    \/ s = <<>>
    \/ /\ s[1] \in {"e", "E"}
       /\ \/ AreDigits(Tail(s))
          \/ Len(s) > 1 /\ s[2] \in {"+", "-"} /\ AreDigits(Tail(Tail(s)))

IsNumber(s) ==
    LET unsigned == IF s[1] = "-" THEN Tail(s) ELSE s
    IN \E i \in 0 .. Len(unsigned) : \E j \in i .. Len(unsigned) :
          /\ IsWhole(SubSeq(unsigned, 1, i))
          /\ IsFraction(SubSeq(unsigned, i + 1, j))
          /\ IsExponent(SubSeq(unsigned, j + 1, Len(unsigned)))

IsInteger(s) == \A k \in DOMAIN s : s[k] \notin {".", "e", "E"}

Representable(s) ==
    IF IsInteger(s)
    THEN IntegerFromChars(s) \in Int64 \cup Uint64
    ELSE InRange(DoubleFromChars(s))

-----------------------------------------------------------------------------
(* Properties.                                                             *)

(* parse_number() accepts the numbers of JSON whose value can be stored    *)
(* and nothing else, reads as far as the number goes, and the client is    *)
(* given exactly that value, never one that has wrapped round.             *)
NumberExact ==
    text # <<>> =>
        LET parsed == ParseNumber(text)
            read == SubSeq(text, 1, parsed.cursor - 1)
            integer == IntegerFromChars(read)
        IN /\ (parsed.code = "Ok" /\ parsed.cursor = Len(text) + 1)
                  <=> (IsNumber(text) /\ Representable(text))
           /\ parsed.code = "Ok" =>
                 /\ IsNumber(read)
                 /\ \A n \in Len(read) + 1 .. Len(text) :
                       ~IsNumber(SubSeq(text, 1, n))
                 /\ IF IsInteger(read)
                    THEN /\ AsInt64(parsed.number) =
                               IF integer \in Int64
                               THEN Given(integer) ELSE None
                         /\ AsUint64(parsed.number) =
                               IF integer \in Uint64
                               THEN Given(integer) ELSE None
                    ELSE AsNumber(parsed.number) = DoubleFromChars(read)

(* README.md:40 promises "Exact `int64_t`, `uint64_t`, and `double` number *)
(* storage": a number that is written and read again is given to the       *)
(* client as it was before, although its kind may be another one - an      *)
(* integer as an integer, a double with the sign of its zero.              *)
NumberSurvives ==
    number # NoNumber =>
        LET written == WriteNumber(number)
            again == ParseNumber(written).number
        IN /\ ParseNumber(written).code = "Ok"
           /\ ParseNumber(written).cursor = Len(written) + 1
           /\ AsNumber(again) = AsNumber(number)
           /\ number.kind # "FloatingPoint" =>
                 /\ AsInt64(again) = AsInt64(number)
                 /\ AsUint64(again) = AsUint64(number)
=============================================================================

----------------------------- MODULE StringCodec -----------------------------
(***************************************************************************)
(* How bytes become text and text becomes bytes: the check for UTF-8       *)
(* (src/include/slabjson/detail/utf8.hpp), reading a JSON string in two    *)
(* passes, one that checks and measures and one that writes without bounds *)
(* (scan_string and decode_string of src/src/parse.cpp), and writing one   *)
(* (write_string of src/src/serialize.cpp).  The other modules take from   *)
(* here that a string lexeme stands for a text or for an error.            *)
(*                                                                         *)
(* Bytes are the numbers from 0 to 255, and a text is a sequence of them.  *)
(* A loop of the code is a function of its local variables, whose value is *)
(* the state in which the loop is left, or what it writes.                 *)
(***************************************************************************)
EXTENDS Integers, Sequences

CONSTANT MaxLength      \* 65535: the longest string the slab can store

ASSUME MaxLengthAssumption == MaxLength \in Nat

Byte == 0 .. 255
Quote == 34
Backslash == 92
Slash == 47
FirstPrintable == 32        \* 0x20; what is below is a control character
FirstNonAscii == 128        \* 0x80

-----------------------------------------------------------------------------
(* UTF-8.                                                                  *)

(* The length that a first byte announces, 0 for none.                     *)
Announced(first) ==
    IF first < FirstNonAscii THEN 1
    ELSE IF first >= 194 /\ first <= 223 THEN 2     \* 0xc2 .. 0xdf
    ELSE IF first >= 224 /\ first <= 239 THEN 3     \* 0xe0 .. 0xef
    ELSE IF first >= 240 /\ first <= 244 THEN 4     \* 0xf0 .. 0xf4
    ELSE 0

(* Mutated form of SecondOK: surrogates are let through.                   *)
SecondOKSurrogates(first, second) ==
    /\ first = 224 => second >= 160
    /\ first = 240 => second >= 144
    /\ first = 244 => second <= 143

(* No longer than necessary, no surrogate, and not above 0x10ffff.         *)
SecondOK(first, second) ==
    /\ first = 224 => second >= 160     \* 0xe0: from 0xa0
    /\ first = 237 => second <= 159     \* 0xed: to 0x9f
    /\ first = 240 => second >= 144     \* 0xf0: from 0x90
    /\ first = 244 => second <= 143     \* 0xf4: to 0x8f

(* A byte after the first: 0x80 .. 0xbf.                                   *)
Continues(byte) == byte >= 128 /\ byte <= 191

(* utf8_sequence_length(): of the sequence that starts at k, 0 if there is *)
(* none.                                                                   *)
SequenceLength(text, k) ==
    LET length == Announced(text[k])
    IN IF /\ length # 0
          /\ length <= Len(text) - k + 1
          /\ \A j \in 1 .. length - 1 : Continues(text[k + j])
          /\ length > 1 => SecondOK(text[k], text[k + 1])
       THEN length
       ELSE 0

(* invalid_utf8_offset() finds nothing.                                    *)
ValidUtf8(text) ==
    LET valid[k \in Nat] ==
            \/ k > Len(text)
            \/ /\ SequenceLength(text, k) # 0
               /\ valid[k + SequenceLength(text, k)]
    IN valid[1]

(* Mutated form of Utf8Length: the boundary of two bytes is off by one.    *)
Utf8LengthOff(codePoint) ==
    IF codePoint <= 127 THEN 1
    ELSE IF codePoint <= 2048 THEN 2
    ELSE IF codePoint <= 65535 THEN 3
    ELSE 4

Utf8Length(codePoint) ==
    IF codePoint <= 127 THEN 1
    ELSE IF codePoint <= 2047 THEN 2
    ELSE IF codePoint <= 65535 THEN 3
    ELSE 4

(* unchecked_utf8_length(), of text that has been checked.                 *)
UncheckedLength(first) ==
    IF first <= 127 THEN 1
    ELSE IF first <= 223 THEN 2
    ELSE IF first <= 239 THEN 3
    ELSE 4

(* Six bits, the last of which has this weight, as a continuation byte.    *)
Continuation(codePoint, weight) == 128 + ((codePoint \div weight) % 64)

EncodeUtf8(codePoint) ==
    IF codePoint <= 127
    THEN <<codePoint>>
    ELSE IF codePoint <= 2047
    THEN <<192 + codePoint \div 64, Continuation(codePoint, 1)>>
    ELSE IF codePoint <= 65535
    THEN <<224 + codePoint \div 4096, Continuation(codePoint, 64),
           Continuation(codePoint, 1)>>
    ELSE <<240 + codePoint \div 262144, Continuation(codePoint, 4096),
           Continuation(codePoint, 64), Continuation(codePoint, 1)>>

-----------------------------------------------------------------------------
(* Escapes.                                                                *)

HexValue(byte) ==
    CASE byte \in 48 .. 57 -> byte - 48         \* 0 .. 9
      [] byte \in 97 .. 102 -> byte - 87        \* a .. f
      [] byte \in 65 .. 70 -> byte - 55         \* A .. F
      [] OTHER -> -1

Hex4(input, k) ==
    4096 * HexValue(input[k]) + 256 * HexValue(input[k + 1])
        + 16 * HexValue(input[k + 2]) + HexValue(input[k + 3])

(* parse_hex4(): the value of the digits from k on, -1 if they are none.   *)
ParseHex4(input, k) ==
    IF k + 3 <= Len(input) /\ \A j \in k .. k + 3 : HexValue(input[j]) >= 0
    THEN Hex4(input, k)
    ELSE -1

High(unit) == unit >= 55296 /\ unit <= 56319    \* 0xd800 .. 0xdbff
Low(unit) == unit >= 56320 /\ unit <= 57343     \* 0xdc00 .. 0xdfff

Combine(high, low) == 65536 + (high - 55296) * 1024 + (low - 56320)

(* The bytes that stand for themselves or for a control character after a  *)
(* backslash, and what they stand for.                                     *)
Simple == [byte \in {34, 92, 47, 98, 102, 110, 114, 116} |->
              CASE byte = 98 -> 8               \* b
                [] byte = 102 -> 12             \* f
                [] byte = 110 -> 10             \* n
                [] byte = 114 -> 13             \* r
                [] byte = 116 -> 9              \* t
                [] OTHER -> byte]

(* What a stored byte needs an escape for when it is written.              *)
MustEscape(byte) == byte \in {Quote, Backslash} \/ byte < FirstPrintable

(* Slab::string_flags().                                                   *)
StringFlags(text) == \E k \in DOMAIN text : MustEscape(text[k])

-----------------------------------------------------------------------------
(* scan_string(): input[1] is the opening quote.  The scan holds its       *)
(* cursor, what it has measured, and its code: it runs, or how it ended.   *)

Running == ""
Ok == "Ok"
ParseUnexpectedEnd == "ParseUnexpectedEnd"
ParseInvalidString == "ParseInvalidString"
ParseInvalidEscape == "ParseInvalidEscape"
ParseInvalidUnicodeEscape == "ParseInvalidUnicodeEscape"
StringCapacityExceeded == "StringCapacityExceeded"

Errors == {ParseUnexpectedEnd, ParseInvalidString, ParseInvalidEscape,
           ParseInvalidUnicodeEscape, StringCapacityExceeded}

ScanCodes == {Running, Ok} \cup Errors

Scans == [cursor : Nat, length : Nat, hasEscape : BOOLEAN, flags : BOOLEAN,
          code : ScanCodes]

Failed(scan, code) == [scan EXCEPT !.code = code]

(* The cursor goes on by so many bytes, which stand for length bytes.      *)
Measured(scan, bytes, length, flags) ==
    [scan EXCEPT !.cursor = scan.cursor + bytes,
                 !.length = scan.length + length,
                 !.flags = scan.flags \/ flags,
                 !.code = IF scan.length + length > MaxLength
                          THEN StringCapacityExceeded ELSE Running]

(* A backslash and "u" at the cursor.                                      *)
ScanUnicode(input, scan) ==
    LET unit == ParseHex4(input, scan.cursor + 2)
        next == scan.cursor + 6
        pair == /\ next + 5 <= Len(input)
                /\ input[next] = Backslash
                /\ input[next + 1] = 117        \* u
        low == ParseHex4(input, next + 2)
    IN IF unit = -1 \/ Low(unit)
       THEN Failed(scan, ParseInvalidUnicodeEscape)
       ELSE IF ~High(unit)
       THEN Measured(scan, 6, Utf8Length(unit), MustEscape(unit))
       ELSE IF ~pair
       THEN Failed(scan, ParseInvalidUnicodeEscape)
       ELSE IF ~Low(low)
       THEN Failed(scan, ParseInvalidUnicodeEscape)
       ELSE Measured(scan, 12, Utf8Length(Combine(unit, low)), FALSE)

ScanEscape(input, scan) ==
    IF scan.cursor = Len(input)
    THEN Failed(scan, ParseUnexpectedEnd)
    ELSE LET byte == input[scan.cursor + 1]
         IN IF byte = 117
            THEN ScanUnicode(input, scan)
            ELSE IF byte \in DOMAIN Simple
            THEN Measured(scan, 2, 1, byte # Slash)
            ELSE Failed(scan, ParseInvalidEscape)

(* One turn of the loop.                                                   *)
ScanTurn(input, scan) ==
    LET byte == input[scan.cursor]
    IN IF scan.cursor > Len(input)
       THEN Failed(scan, ParseUnexpectedEnd)
       ELSE IF byte = Quote
       THEN [scan EXCEPT !.cursor = scan.cursor + 1, !.code = Ok]
       ELSE IF byte < FirstPrintable
       THEN Failed(scan, ParseInvalidString)
       ELSE IF byte = Backslash
       THEN ScanEscape(input, [scan EXCEPT !.hasEscape = TRUE])
       ELSE IF byte < FirstNonAscii
       THEN Measured(scan, 1, 1, FALSE)
       ELSE IF SequenceLength(input, scan.cursor) = 0
       THEN Failed(scan, ParseInvalidString)
       ELSE Measured(scan, SequenceLength(input, scan.cursor),
                     SequenceLength(input, scan.cursor), FALSE)

ScanString(input) ==
    LET scan[s \in Scans] ==
            IF s.code # Running THEN s ELSE scan[ScanTurn(input, s)]
    IN scan[[cursor |-> 2, length |-> 0, hasEscape |-> FALSE,
             flags |-> FALSE, code |-> Running]]

-----------------------------------------------------------------------------
(* decode_string(), of input that has been scanned: end is the cursor of   *)
(* the scan.  Nothing is checked.  A turn of the loop takes some bytes at  *)
(* k and writes a text.                                                    *)

(* Mutated form of DecodeUnicode: the second half of a pair is read as the *)
(* next escape.                                                            *)
DecodeUnicodeAlone(input, k) ==
    [taken |-> 6, text |-> EncodeUtf8(Hex4(input, k + 2))]

DecodeUnicode(input, k) ==
    LET unit == Hex4(input, k + 2)
        low == Hex4(input, k + 8)
    IN IF High(unit)
       THEN [taken |-> 12, text |-> EncodeUtf8(Combine(unit, low))]
       ELSE [taken |-> 6, text |-> EncodeUtf8(unit)]

DecodeTurn(input, k) ==
    LET length == UncheckedLength(input[k])
    IN IF input[k] # Backslash
       THEN [taken |-> length, text |-> SubSeq(input, k, k + length - 1)]
       ELSE IF input[k + 1] = 117       \* u
       THEN DecodeUnicode(input, k)
       ELSE [taken |-> 2, text |-> <<Simple[input[k + 1]]>>]

(* What the loop writes from k on.                                         *)
DecodeString(input, end) ==
    LET decoded[k \in Nat \ {0}] ==
            IF k >= end - 1 THEN <<>>
            ELSE LET turn == DecodeTurn(input, k)
                 IN turn.text \o decoded[k + turn.taken]
    IN decoded[2]

(* parse_string(), without the allocation: what is stored after it.        *)
ParseString(input) ==
    LET scan == ScanString(input)
    IN IF scan.hasEscape
       THEN DecodeString(input, scan.cursor)
       ELSE SubSeq(input, 2, scan.cursor - 2)

-----------------------------------------------------------------------------
(* write_string().                                                         *)

HexDigit(value) == IF value < 10 THEN 48 + value ELSE 87 + value

(* Mutated form of EscapeByte: no escape for a control character that has  *)
(* no letter of its own.                                                   *)
EscapeByteLettered(byte) ==
    IF \E letter \in DOMAIN Simple \ {Slash} : Simple[letter] = byte
    THEN <<Backslash,
           CHOOSE letter \in DOMAIN Simple \ {Slash} : Simple[letter] = byte>>
    ELSE <<byte>>

EscapeByte(byte) ==
    IF \E letter \in DOMAIN Simple \ {Slash} : Simple[letter] = byte
    THEN <<Backslash,
           CHOOSE letter \in DOMAIN Simple \ {Slash} : Simple[letter] = byte>>
    ELSE IF byte < FirstPrintable
    THEN <<Backslash, 117, 48, 48, HexDigit(byte \div 16), HexDigit(byte % 16)>>
    ELSE <<byte>>

WriteString(text, flags) ==
    LET written[k \in 0 .. Len(text)] ==
            IF k = 0 THEN <<>> ELSE written[k - 1] \o EscapeByte(text[k])
    IN <<Quote>> \o (IF flags THEN written[Len(text)] ELSE text) \o <<Quote>>

-----------------------------------------------------------------------------
(* What UTF-8 and JSON say, by which the above is judged.                  *)

Scalar(codePoint) ==
    /\ codePoint >= 0 /\ codePoint <= 1114111
    /\ ~High(codePoint) /\ ~Low(codePoint)

(* The bytes are the encoding of a scalar value: read back by place value, *)
(* they are it, and no shorter encoding exists.                            *)
Lead == <<0, 192, 224, 240>>
Least == <<0, 128, 2048, 65536>>

Denoted(bytes) ==
    LET value[k \in 1 .. Len(bytes)] ==
            IF k = 1 THEN bytes[1] - Lead[Len(bytes)]
            ELSE value[k - 1] * 64 + bytes[k] - 128
    IN value[Len(bytes)]

IsEncoding(bytes) ==
    /\ \A k \in 2 .. Len(bytes) : Continues(bytes[k])
    /\ Denoted(bytes) >= Least[Len(bytes)]
    /\ Denoted(bytes) < <<128, 2048, 65536, 2097152>>[Len(bytes)]
    /\ Scalar(Denoted(bytes))

IsUtf8(text) ==
    LET encoded[k \in 1 .. Len(text) + 1] ==
            \/ k = Len(text) + 1
            \/ \E n \in 1 .. 4 :
                  /\ k + n <= Len(text) + 1
                  /\ IsEncoding(SubSeq(text, k, k + n - 1))
                  /\ encoded[k + n]
    IN encoded[1]

(* A unit is a piece of the inside of a JSON string: written as bytes, it  *)
(* stands for a UTF-16 code unit or a code point, or for nothing (-1).     *)
(* Meaning is the text of a sequence of units, <<-1>> if it has none.      *)
Meaning(units) ==
    LET value(k) == units[k].value
        text[k \in 1 .. Len(units) + 2] ==
            IF k > Len(units) THEN <<>>
            ELSE IF High(value(k)) /\ k < Len(units) /\ Low(value(k + 1))
            THEN EncodeUtf8(Combine(value(k), value(k + 1))) \o text[k + 2]
            ELSE IF Scalar(value(k))
            THEN EncodeUtf8(value(k)) \o text[k + 1]
            ELSE <<-1>>
        all == text[1]
    IN IF \E k \in DOMAIN all : all[k] = -1 THEN <<-1>> ELSE all

-----------------------------------------------------------------------------
(* The inputs: sequences of units, and arbitrary bytes.                    *)

CONSTANTS
    Units,          \* the units a string is written with
    SomeBytes,      \* the bytes that arbitrary text is made of
    MaxUnits,       \* bound: the length of a string in units
    MaxBytes        \* bound: the length of arbitrary text in bytes

ASSUME UnitsAssumption ==
    /\ Units \subseteq [bytes : Seq(Byte), value : Int]
    /\ SomeBytes \subseteq Byte
    /\ MaxUnits \in Nat
    /\ MaxBytes \in Nat

VARIABLES
    units,          \* a string as units
    bytes           \* some bytes

codecVars == <<units, bytes>>

CodecInit == units = <<>> /\ bytes = <<>>

AppendUnit(unit) ==
    /\ bytes = <<>>
    /\ Len(units) < MaxUnits
    /\ units' = Append(units, unit)
    /\ UNCHANGED bytes

AppendByte(byte) ==
    /\ units = <<>>
    /\ Len(bytes) < MaxBytes
    /\ bytes' = Append(bytes, byte)
    /\ UNCHANGED units

CodecNext ==
    \/ \E unit \in Units : AppendUnit(unit)
    \/ \E byte \in SomeBytes : AppendByte(byte)

CodecSpec == CodecInit /\ [][CodecNext]_codecVars

Written ==
    LET written[k \in 0 .. Len(units)] ==
            IF k = 0 THEN <<Quote>> ELSE written[k - 1] \o units[k].bytes
    IN written[Len(units)]

Input == Append(Written, Quote)

Quoted(text) == Append(<<Quote>> \o text, Quote)

-----------------------------------------------------------------------------
(* Properties.                                                             *)

(* The check for UTF-8 accepts the encodings of sequences of scalar values *)
(* and nothing else, alone and inside a string.                            *)
Utf8Exact ==
    /\ ValidUtf8(bytes) <=> IsUtf8(bytes)
    /\ (\A k \in DOMAIN bytes : ~MustEscape(bytes[k])) =>
          /\ ScanString(Quoted(bytes)).code = Ok <=>
                 IsUtf8(bytes) /\ Len(bytes) <= MaxLength
          /\ ScanString(Quoted(bytes)).code = Ok =>
                 ParseString(Quoted(bytes)) = bytes

(* A string is accepted exactly if it means something that fits, and then  *)
(* it is read to its end, and what is stored is what it means; cut short   *)
(* anywhere, it is refused without a look beyond its end.                  *)
StringMeans ==
    LET means == Meaning(units) # <<-1>> /\ Len(Meaning(units)) <= MaxLength
    IN /\ ScanString(Input).code = Ok <=> means
       /\ means => /\ ScanString(Input).cursor = Len(Input) + 1
                   /\ ParseString(Input) = Meaning(units)
       /\ \A n \in 1 .. Len(Written) :
             ScanString(SubSeq(Input, 1, n)).code # Ok

(* The first pass measures what the second writes without bounds, to the   *)
(* byte, and its flag is the one that the stored text would be given; what *)
(* is stored is UTF-8.                                                     *)
ScanForetells ==
    \A input \in {Input, Quoted(bytes)} :
       LET scan == ScanString(input)
       IN scan.code = Ok =>
             /\ scan.cursor <= Len(input) + 1
             /\ Len(ParseString(input)) = scan.length
             /\ scan.length <= MaxLength
             /\ scan.flags = StringFlags(ParseString(input))
             /\ ValidUtf8(ParseString(input))

(* What is written for a text reads as that text, control characters, both *)
(* kinds of escapes and texts without a flag included.                     *)
WrittenReads ==
    LET text == Meaning(units)
        written == WriteString(text, StringFlags(text))
    IN text # <<-1>> /\ Len(text) <= MaxLength =>
          /\ ScanString(written).code = Ok
          /\ ScanString(written).cursor = Len(written) + 1
          /\ ParseString(written) = text
=============================================================================

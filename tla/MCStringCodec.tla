--------------------------- MODULE MCStringCodec ---------------------------
(***************************************************************************)
(* Instances of StringCodec for TLC: the units are the characters and the  *)
(* escapes at the boundaries of every case of the code, the bytes those at *)
(* the boundaries of the ranges of UTF-8.                                  *)
(***************************************************************************)
EXTENDS StringCodec

Raw(value) == [bytes |-> EncodeUtf8(value), value |-> value]

Lettered(letter) ==
    [bytes |-> <<Backslash, letter>>, value |-> Simple[letter]]

(* The four digits in upper case.                                          *)
Upper(digit) == IF digit < 10 THEN 48 + digit ELSE 55 + digit
Unicode(value, Digit(_)) ==
    [bytes |-> <<Backslash, 117, Digit(value \div 4096),
                 Digit((value \div 256) % 16), Digit((value \div 16) % 16),
                 Digit(value % 16)>>,
     value |-> value]

MCUnits ==
    {Raw(value) : value \in {47, 97, 127, 233, 8364, 65536}}
    \cup {Lettered(letter) : letter \in {34, 47, 92, 98, 110}}
    \cup {Unicode(value, HexDigit) :
             value \in {0, 31, 32, 34, 92, 127, 128, 2047, 2048, 55295,
                        55296, 57343, 57344}}
    \cup {Unicode(value, Upper) : value \in {56319, 56320, 65535}}
    \cup {[bytes |-> <<31>>, value |-> -1],
          [bytes |-> <<Backslash, 120>>, value |-> -1],
          [bytes |-> <<Backslash, 117, 48, 48, 103, 48>>, value |-> -1],
          [bytes |-> <<237, 160, 128>>, value |-> -1]}

MCSomeBytes == {34, 92, 97, 127, 128, 143, 144, 159, 160, 191, 193, 194, 223,
                224, 237, 239, 240, 244, 245}
=============================================================================

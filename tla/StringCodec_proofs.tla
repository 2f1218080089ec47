------------------------- MODULE StringCodec_proofs -------------------------
(***************************************************************************)
(* What the check for UTF-8 accepts, what the two passes of parse_string() *)
(* agree on, and that write_string() is read back, for every input.        *)
(*                                                                         *)
(* Each loop of the model is a recursive function.  It is first shown to   *)
(* exist and then used through its equation, by induction on the distance  *)
(* to the end of the text: XFun(...) is the function behind X, and XStep   *)
(* one application of its equation.                                        *)
(***************************************************************************)
EXTENDS StringCodec, TLAPS, SequenceTheorems, WellFoundedInduction

LEMMA LeastNat ==
    ASSUME NEW T \in SUBSET Nat, T # {}
    PROVE  \E x \in T : \A y \in T : x <= y
<1> DEFINE R == OpToRel(<, Nat)
<1>1. IsWellFoundedOn(R, Nat)
  BY NatLessThanWellFounded
<1>2. \A x, y \in Nat : y < x => <<y, x>> \in R
  BY DEF OpToRel
<1> HIDE DEF R
<1>3. PICK x \in T : \A y \in T : ~(<<y, x>> \in R)
  BY <1>1, WFMin
<1>4. ASSUME NEW y \in T PROVE x <= y
  <2>1. x \in Nat /\ y \in Nat /\ ~(y < x)
    BY <1>2, <1>3
  <2>2. QED
    BY <2>1
<1>5. QED
  BY <1>4

(* A set that holds 0 and with every number the next holds them all.       *)
LEMMA SetInduction ==
    ASSUME NEW S, 0 \in S, \A n \in Nat : n \in S => n + 1 \in S
    PROVE  Nat \subseteq S
<1> DEFINE T == Nat \ S
<1> SUFFICES ASSUME T # {} PROVE FALSE
  OBVIOUS
<1>1. PICK x \in T : \A y \in T : x <= y
  BY LeastNat
<1>2. x # 0 /\ x \in Nat /\ x \notin S
  BY <1>1
<1>3. x - 1 \in Nat /\ x - 1 \in S
  BY <1>1, <1>2
<1>4. QED
  BY <1>2, <1>3

(* What holds of a number up to m when it holds of all between it and m    *)
(* holds of all up to m.                                                   *)
LEMMA BackwardInduction ==
    ASSUME NEW m \in Nat, NEW S,
           \A k \in 1 .. m : (\A j \in k + 1 .. m : j \in S) => k \in S
    PROVE  1 .. m \subseteq S
<1> DEFINE T == {m - k : k \in (1 .. m) \ S}
<1> SUFFICES ASSUME (1 .. m) \ S # {} PROVE FALSE
  OBVIOUS
<1>1. PICK x \in T : \A y \in T : x <= y
  <2>1. T \in SUBSET Nat /\ T # {}
    OBVIOUS
  <2> HIDE DEF T
  <2>2. QED
    BY <2>1, LeastNat
<1>2. PICK k \in (1 .. m) \ S : x = m - k
  OBVIOUS
<1>3. ASSUME NEW j \in k + 1 .. m PROVE j \in S
  <2> SUFFICES ASSUME j \notin S PROVE FALSE
    OBVIOUS
  <2>1. m - j \in T /\ j \in Nat /\ k \in Nat /\ k + 1 <= j
    OBVIOUS
  <2> HIDE DEF T
  <2>2. m - k <= m - j
    BY <1>1, <1>2, <2>1
  <2>3. QED
    BY <2>1, <2>2
<1>4. QED
  BY <1>2, <1>3


-----------------------------------------------------------------------------
(* Bytes and texts.                                                        *)

LEMMA ByteIs == \A b : b \in Byte <=> b \in Int /\ b >= 0 /\ b <= 255
BY DEF Byte

(* Bytes are numbers.                                                      *)
LEMMA BytesAre ==
    ASSUME NEW text \in Seq(Byte)
    PROVE  /\ Len(text) \in Nat /\ DOMAIN text = 1 .. Len(text)
           /\ \A k \in 1 .. Len(text) : /\ text[k] \in Byte /\ text[k] \in Nat
                                        /\ text[k] <= 255
<1>1. Len(text) \in Nat /\ DOMAIN text = 1 .. Len(text)
  BY LenProperties
<1>2. \A k \in 1 .. Len(text) : text[k] \in Byte
  BY ElementOfSeq
<1>3. QED
  BY <1>1, <1>2, ByteIs

(* Two texts are the same if their bytes are.                              *)
LEMMA SameBytes ==
    ASSUME NEW C, NEW a \in Seq(C), NEW b \in Seq(C), Len(a) = Len(b),
           \A k \in 1 .. Len(a) : a[k] = b[k]
    PROVE  a = b
BY SeqEqual

(* One text after the other.                                               *)
LEMMA Concat ==
    ASSUME NEW C, NEW a \in Seq(C), NEW b \in Seq(C)
    PROVE  /\ a \o b \in Seq(C) /\ Len(a \o b) = Len(a) + Len(b)
           /\ Len(a) \in Nat /\ Len(b) \in Nat /\ Len(a \o b) \in Nat
           /\ \A k \in 1 .. Len(a) : (a \o b)[k] = a[k]
           /\ \A k \in 1 .. Len(b) : (a \o b)[Len(a) + k] = b[k]
<1>1. /\ a \o b \in Seq(C) /\ Len(a \o b) = Len(a) + Len(b)
      /\ \A k \in 1 .. Len(a) + Len(b) :
            (a \o b)[k] = IF k <= Len(a) THEN a[k] ELSE b[k - Len(a)]
  BY ConcatProperties
<1>2. Len(a) \in Nat /\ Len(b) \in Nat
  BY LenProperties
<1>3. ASSUME NEW k \in 1 .. Len(a) PROVE (a \o b)[k] = a[k]
  <2>1. k \in 1 .. Len(a) + Len(b) /\ k <= Len(a)
    BY <1>2
  <2>2. QED
    BY <1>1, <2>1
<1>4. ASSUME NEW k \in 1 .. Len(b) PROVE (a \o b)[Len(a) + k] = b[k]
  <2>1. Len(a) + k \in 1 .. Len(a) + Len(b) /\ ~(Len(a) + k <= Len(a))
        /\ Len(a) + k - Len(a) = k
    BY <1>2
  <2>2. QED
    BY <1>1, <2>1
<1>5. QED
  BY <1>1, <1>2, <1>3, <1>4

(* Some bytes of a text.                                                   *)
LEMMA PieceIs ==
    ASSUME NEW text \in Seq(Byte), NEW k \in Nat, k >= 1, NEW n \in Nat,
           k + n <= Len(text) + 1
    PROVE  LET x == SubSeq(text, k, k + n - 1)
           IN /\ x \in Seq(Byte) /\ Len(x) = n
              /\ \A j \in 1 .. n : x[j] = text[k + j - 1]
<1>1. Len(text) \in Nat /\ \A j \in 1 .. Len(text) : text[j] \in Byte
  BY BytesAre
<1>2. \A j \in k .. k + n - 1 : text[j] \in Byte
  BY <1>1
<1>3. k \in Int /\ k + n - 1 \in Int /\ (k + n - 1) - k + 1 = n
  OBVIOUS
<1> DEFINE last == k + n - 1
<1>4. last \in Int /\ last - k + 1 = n /\ (n = 0 <=> ~(k <= last))
  OBVIOUS
<1>5. \A j \in k .. last : text[j] \in Byte
  BY <1>2
<1> HIDE DEF last
<1>6. /\ SubSeq(text, k, last) \in Seq(Byte)
      /\ Len(SubSeq(text, k, last)) = IF k <= last THEN last - k + 1 ELSE 0
      /\ \A j \in 1 .. last - k + 1 : SubSeq(text, k, last)[j] = text[k + j - 1]
  BY <1>3, <1>4, <1>5, SubSeqProperties
<1>7. QED
  BY <1>4, <1>6 DEF last

-----------------------------------------------------------------------------
(* One sequence of UTF-8.                                                  *)

(* A sequence has up to four bytes.                                        *)
LEMMA SequenceLengthTyped ==
    ASSUME NEW text, NEW k
    PROVE  SequenceLength(text, k) \in 0 .. 4
<1>1. Announced(text[k]) \in 0 .. 4
  BY DEF Announced
<1>2. QED
  BY <1>1 DEF SequenceLength

(* A sequence of n bytes.                                                  *)
LEMMA SequenceIs ==
    ASSUME NEW text, NEW k, NEW n \in 1 .. 4
    PROVE  SequenceLength(text, k) = n <=>
              /\ Announced(text[k]) = n
              /\ n <= Len(text) - k + 1
              /\ \A j \in 1 .. n - 1 : Continues(text[k + j])
              /\ n > 1 => SecondOK(text[k], text[k + 1])
BY DEF SequenceLength

(* What is found at k is what the bytes from there on say.                 *)
LEMMA SequenceFromHere ==
    ASSUME NEW a \in Seq(Byte), NEW b \in Seq(Byte),
           NEW i \in 1 .. Len(a), NEW j \in 1 .. Len(b),
           Len(a) - i = Len(b) - j,
           \A m \in 0 .. Len(a) - i : a[i + m] = b[j + m]
    PROVE  SequenceLength(a, i) = SequenceLength(b, j)
<1>1. Len(a) \in Nat /\ Len(b) \in Nat /\ a[i] \in Nat
  BY BytesAre
<1>2. a[i] = b[j]
  <2>1. 0 \in 0 .. Len(a) - i /\ i + 0 = i /\ j + 0 = j
    BY <1>1
  <2>2. QED
    BY <2>1
<1> DEFINE length == Announced(a[i])
<1>3. length = Announced(b[j]) /\ length \in 0 .. 4
  BY <1>2 DEF Announced
<1> HIDE DEF length
<1>4. CASE length <= Len(a) - i + 1
  <2>1. \A m \in 1 .. length - 1 : a[i + m] = b[j + m]
    BY <1>1, <1>3, <1>4
  <2>2. length > 1 => a[i + 1] = b[j + 1]
    BY <1>1, <1>3, <2>1
  <2>3. Len(a) - i + 1 = Len(b) - j + 1
    BY <1>1
  <2>4. QED
    BY <1>2, <1>3, <2>1, <2>2, <2>3 DEF SequenceLength, length
<1>5. CASE ~(length <= Len(a) - i + 1)
  <2>1. ~(length <= Len(b) - j + 1)
    BY <1>1, <1>5
  <2>2. QED
    BY <1>3, <1>5, <2>1 DEF SequenceLength, length
<1>6. QED
  BY <1>4, <1>5

(* A sequence is one wherever its bytes are.                               *)
LEMMA SequenceElsewhere ==
    ASSUME NEW a \in Seq(Byte), NEW b \in Seq(Byte),
           NEW i \in 1 .. Len(a), NEW j \in 1 .. Len(b),
           NEW n \in 1 .. 4, n = SequenceLength(a, i), n <= Len(b) - j + 1,
           \A m \in 0 .. n - 1 : a[i + m] = b[j + m]
    PROVE  SequenceLength(b, j) = n
<1>1. Len(a) \in Nat /\ Len(b) \in Nat
  BY BytesAre
<1>2. a[i] = b[j]
  <2>1. 0 \in 0 .. n - 1 /\ i + 0 = i /\ j + 0 = j
    BY <1>1
  <2>2. QED
    BY <2>1
<1>3. /\ Announced(a[i]) = n
      /\ \A m \in 1 .. n - 1 : Continues(a[i + m])
      /\ n > 1 => SecondOK(a[i], a[i + 1])
  BY <1>1, SequenceIs
<1>4. \A m \in 1 .. n - 1 : m \in 0 .. n - 1
  BY <1>1
<1>5. n > 1 => 1 \in 0 .. n - 1
  BY <1>1
<1>6. /\ Announced(b[j]) = n
      /\ \A m \in 1 .. n - 1 : Continues(b[j + m])
      /\ n > 1 => SecondOK(b[j], b[j + 1])
  BY <1>2, <1>3, <1>4, <1>5
<1>7. QED
  BY <1>1, <1>6, SequenceIs

(* Also at the front of another text.                                      *)
LEMMA SequenceAtFront ==
    ASSUME NEW a \in Seq(Byte), NEW b \in Seq(Byte), NEW i \in 1 .. Len(a),
           NEW n \in 1 .. 4, n = SequenceLength(a, i), n <= Len(b),
           \A m \in 0 .. n - 1 : a[i + m] = b[1 + m]
    PROVE  SequenceLength(b, 1) = n
<1>1. Len(b) \in Nat
  BY BytesAre
<1>2. PICK j \in 1 .. Len(b) : j = 1
  BY <1>1
<1>3. n <= Len(b) - j + 1 /\ \A m \in 0 .. n - 1 : a[i + m] = b[j + m]
  BY <1>1, <1>2
<1>4. SequenceLength(b, j) = n
  BY <1>3, SequenceElsewhere
<1>5. QED
  BY <1>2, <1>4

(* The bytes of a sequence of more than one are no ASCII.                  *)
LEMMA SequenceBytes ==
    ASSUME NEW text \in Seq(Byte), NEW k \in 1 .. Len(text), NEW n,
           n = SequenceLength(text, k), n # 0
    PROVE  /\ n \in 1 .. 4 /\ k + n <= Len(text) + 1
           /\ n = 1 <=> text[k] < 128
           /\ text[k] >= 128 => \A j \in 0 .. n - 1 : text[k + j] >= 128
<1>1. Len(text) \in Nat /\ n \in 1 .. 4 /\ text[k] \in Nat
  BY BytesAre, SequenceLengthTyped
<1>2. /\ Announced(text[k]) = n /\ n <= Len(text) - k + 1
      /\ \A j \in 1 .. n - 1 : Continues(text[k + j])
  BY <1>1, SequenceIs
<1>3. n = 1 <=> text[k] < 128
  BY <1>1, <1>2 DEF Announced, FirstNonAscii
<1>4. ASSUME text[k] >= 128, NEW j \in 0 .. n - 1 PROVE text[k + j] >= 128
  <2>1. CASE j = 0
    BY <2>1, <1>4, <1>1
  <2>2. CASE j # 0
    <3>1. j \in 1 .. n - 1
      BY <2>2, <1>1
    <3>2. QED
      BY <3>1, <1>2 DEF Continues
  <2>3. QED
    BY <2>1, <2>2
<1>5. QED
  BY <1>1, <1>2, <1>3, <1>4

(* A text that is one sequence.                                            *)
OneSequence(x) ==
    x \in Seq(Byte) /\ Len(x) \in 1 .. 4 /\ SequenceLength(x, 1) = Len(x)

(* A byte by itself.                                                       *)
LEMMA OneByte ==
    ASSUME NEW b \in Int, b >= 0, b < 128
    PROVE  /\ OneSequence(<<b>>) /\ Len(<<b>>) = 1
           /\ StringFlags(<<b>>) = MustEscape(b)
<1>1. <<b>> \in Seq(Byte) /\ Len(<<b>>) = 1 /\ <<b>>[1] = b
      /\ DOMAIN <<b>> = 1 .. 1
  BY ByteIs
<1> DEFINE x == <<b>>
<1>2. StringFlags(x) = MustEscape(b)
  <2> HIDE DEF x
  <2>1. DOMAIN x = {1} /\ x[1] = b
    BY <1>1 DEF x
  <2>2. QED
    BY <2>1 DEF StringFlags, MustEscape
<1>3. SequenceLength(x, 1) = 1
  <2> HIDE DEF x
  <2>1. Announced(x[1]) = 1 /\ 1 <= Len(x) - 1 + 1
    BY <1>1 DEF Announced, FirstNonAscii, x
  <2>2. QED
    BY <2>1, SequenceIs
<1>4. QED
  BY <1>1, <1>2, <1>3 DEF OneSequence

(* Bytes that are no ASCII need no escape.                                 *)
LEMMA NoAscii ==
    ASSUME NEW x \in Seq(Byte), \A k \in 1 .. Len(x) : x[k] >= 128
    PROVE  StringFlags(x) = FALSE
<1>1. \A b \in Byte : b >= 128 => ~MustEscape(b)
  BY ByteIs DEF MustEscape, Quote, Backslash, FirstPrintable
<1>2. QED
  BY <1>1, BytesAre DEF StringFlags

(* Two bytes.                                                              *)
LEMMA TwoBytes ==
    ASSUME NEW a \in Int, NEW b \in Int, a >= 194, a <= 223, Continues(b)
    PROVE  OneSequence(<<a, b>>) /\ Len(<<a, b>>) = 2
           /\ StringFlags(<<a, b>>) = FALSE
<1> DEFINE x == <<a, b>>
<1>1. x \in Seq(Byte) /\ Len(x) = 2 /\ x[1] = a /\ x[2] = b
  BY ByteIs DEF Continues
<1> HIDE DEF x
<1>2. SequenceLength(x, 1) = 2
  <2>1. Announced(x[1]) = 2 /\ SecondOK(x[1], x[1 + 1])
    BY <1>1 DEF Announced, FirstNonAscii, SecondOK
  <2>2. \A j \in 1 .. 2 - 1 : Continues(x[1 + j])
    BY <1>1
  <2>3. QED
    BY <1>1, <2>1, <2>2, SequenceIs
<1>3. StringFlags(x) = FALSE
  <2>1. \A k \in 1 .. Len(x) : x[k] >= 128
    BY <1>1 DEF Continues
  <2>2. QED
    BY <1>1, <2>1, NoAscii
<1>4. QED
  BY <1>1, <1>2, <1>3 DEF OneSequence, x

(* Three bytes.                                                            *)
LEMMA ThreeBytes ==
    ASSUME NEW a \in Int, NEW b \in Int, NEW c \in Int, a >= 224, a <= 239,
           Continues(b), Continues(c), SecondOK(a, b)
    PROVE  OneSequence(<<a, b, c>>) /\ Len(<<a, b, c>>) = 3
           /\ StringFlags(<<a, b, c>>) = FALSE
<1> DEFINE x == <<a, b, c>>
<1>1. x \in Seq(Byte) /\ Len(x) = 3 /\ x[1] = a /\ x[2] = b /\ x[3] = c
  BY ByteIs DEF Continues
<1> HIDE DEF x
<1>2. SequenceLength(x, 1) = 3
  <2>1. Announced(x[1]) = 3 /\ SecondOK(x[1], x[1 + 1])
    BY <1>1 DEF Announced, FirstNonAscii
  <2>2. \A j \in 1 .. 3 - 1 : Continues(x[1 + j])
    BY <1>1
  <2>3. QED
    BY <1>1, <2>1, <2>2, SequenceIs
<1>3. StringFlags(x) = FALSE
  <2>1. \A k \in 1 .. Len(x) : x[k] >= 128
    BY <1>1 DEF Continues
  <2>2. QED
    BY <1>1, <2>1, NoAscii
<1>4. QED
  BY <1>1, <1>2, <1>3 DEF OneSequence, x

(* Four bytes.                                                             *)
LEMMA FourBytes ==
    ASSUME NEW a \in Int, NEW b \in Int, NEW c \in Int, NEW d \in Int,
           a >= 240, a <= 244, Continues(b), Continues(c), Continues(d),
           SecondOK(a, b)
    PROVE  OneSequence(<<a, b, c, d>>) /\ Len(<<a, b, c, d>>) = 4
           /\ StringFlags(<<a, b, c, d>>) = FALSE
<1> DEFINE x == <<a, b, c, d>>
<1>1. x \in Seq(Byte) /\ Len(x) = 4
      /\ x[1] = a /\ x[2] = b /\ x[3] = c /\ x[4] = d
  BY ByteIs DEF Continues
<1> HIDE DEF x
<1>2. SequenceLength(x, 1) = 4
  <2>1. Announced(x[1]) = 4 /\ SecondOK(x[1], x[1 + 1])
    BY <1>1 DEF Announced, FirstNonAscii
  <2>2. \A j \in 1 .. 4 - 1 : Continues(x[1 + j])
    BY <1>1
  <2>3. QED
    BY <1>1, <2>1, <2>2, SequenceIs
<1>3. StringFlags(x) = FALSE
  <2>1. \A k \in 1 .. Len(x) : x[k] >= 128
    BY <1>1 DEF Continues
  <2>2. QED
    BY <1>1, <2>1, NoAscii
<1>4. QED
  BY <1>1, <1>2, <1>3 DEF OneSequence, x

(* Two halves of a pair are a code point.                                  *)
LEMMA CombineIs ==
    ASSUME NEW a \in Int, NEW b \in Int, High(a), Low(b)
    PROVE  /\ Combine(a, b) \in Int /\ Scalar(Combine(a, b))
           /\ MustEscape(Combine(a, b)) = FALSE
<1> DEFINE c == Combine(a, b)
<1>1. a >= 55296 /\ a <= 56319 /\ b >= 56320 /\ b <= 57343
  BY DEF High, Low
<1>2. c = 65536 + (a - 55296) * 1024 + (b - 56320)
  BY DEF Combine
<1> HIDE DEF c
<1>3. c \in Int /\ c >= 65536 /\ c <= 1114111
  BY <1>1, <1>2
<1>4. Scalar(c) /\ MustEscape(c) = FALSE
  BY <1>3 DEF Scalar, High, Low, MustEscape, Quote, Backslash, FirstPrintable
<1>5. QED
  BY <1>3, <1>4 DEF c

(* The encoding of a code point is one sequence.                           *)
LEMMA EncodingIsSequence ==
    ASSUME NEW c \in Int, Scalar(c)
    PROVE  /\ OneSequence(EncodeUtf8(c)) /\ Len(EncodeUtf8(c)) = Utf8Length(c)
           /\ StringFlags(EncodeUtf8(c)) = MustEscape(c)
<1>1. c >= 0 /\ c <= 1114111 /\ ~(c >= 55296 /\ c <= 57343)
  BY DEF Scalar, High, Low
<1>2. c >= 128 => MustEscape(c) = FALSE
  BY DEF MustEscape, Quote, Backslash, FirstPrintable
<1>3. \A w \in {1, 64, 4096} :
         Continuation(c, w) \in Int /\ Continues(Continuation(c, w))
  BY <1>1 DEF Continuation, Continues
<1>4. CASE c <= 127
  <2>1. EncodeUtf8(c) = <<c>> /\ Utf8Length(c) = 1
    BY <1>4 DEF EncodeUtf8, Utf8Length
  <2>2. QED
    BY <1>1, <1>4, <2>1, OneByte
<1>5. CASE c >= 128 /\ c <= 2047
  <2> DEFINE first == 192 + c \div 64
             second == Continuation(c, 1)
  <2>1. EncodeUtf8(c) = <<first, second>> /\ Utf8Length(c) = 2
    BY <1>5 DEF EncodeUtf8, Utf8Length
  <2>2. first \in Int /\ first >= 194 /\ first <= 223
    BY <1>5
  <2>3. second \in Int /\ Continues(second)
    BY <1>3
  <2> HIDE DEF first, second
  <2>4. OneSequence(<<first, second>>) /\ Len(<<first, second>>) = 2
        /\ StringFlags(<<first, second>>) = FALSE
    BY <2>2, <2>3, TwoBytes
  <2>5. QED
    <3> DEFINE text == <<first, second>>
    <3>1. OneSequence(text) /\ Len(text) = 2 /\ StringFlags(text) = FALSE
      BY <2>4
    <3>2. EncodeUtf8(c) = text
      BY <2>1
    <3> HIDE DEF text
    <3>3. Utf8Length(c) = 2 /\ MustEscape(c) = FALSE
      BY <1>2, <1>5, <2>1
    <3>4. QED
      BY <3>1, <3>2, <3>3
<1>6. CASE c >= 2048 /\ c <= 65535
  <2> DEFINE first == 224 + c \div 4096
             second == Continuation(c, 64)
             third == Continuation(c, 1)
  <2>1. EncodeUtf8(c) = <<first, second, third>> /\ Utf8Length(c) = 3
    BY <1>6 DEF EncodeUtf8, Utf8Length
  <2>2. first \in Int /\ first >= 224 /\ first <= 239
    BY <1>6
  <2>3. SecondOK(first, Continuation(c, 64))
    BY <1>1, <1>6 DEF SecondOK, Continuation
  <2>4. second \in Int /\ Continues(second) /\ third \in Int /\ Continues(third)
    BY <1>3
  <2>5. SecondOK(first, second)
    BY <2>3
  <2> HIDE DEF first, second, third
  <2>6. /\ OneSequence(<<first, second, third>>)
        /\ Len(<<first, second, third>>) = 3
        /\ StringFlags(<<first, second, third>>) = FALSE
    BY <2>2, <2>4, <2>5, ThreeBytes
  <2>7. QED
    <3> DEFINE text == <<first, second, third>>
    <3>1. OneSequence(text) /\ Len(text) = 3 /\ StringFlags(text) = FALSE
      BY <2>6
    <3>2. EncodeUtf8(c) = text
      BY <2>1
    <3> HIDE DEF text
    <3>3. Utf8Length(c) = 3 /\ MustEscape(c) = FALSE
      BY <1>2, <1>6, <2>1
    <3>4. QED
      BY <3>1, <3>2, <3>3
<1>7. CASE c > 65535
  <2> DEFINE first == 240 + c \div 262144
             second == Continuation(c, 4096)
             third == Continuation(c, 64)
             fourth == Continuation(c, 1)
  <2>1. EncodeUtf8(c) = <<first, second, third, fourth>> /\ Utf8Length(c) = 4
    BY <1>7 DEF EncodeUtf8, Utf8Length
  <2>2. first \in Int /\ first >= 240 /\ first <= 244
    BY <1>1, <1>7
  <2>3. SecondOK(first, Continuation(c, 4096))
    BY <1>1, <1>7 DEF SecondOK, Continuation
  <2>4. /\ second \in Int /\ Continues(second)
        /\ third \in Int /\ Continues(third)
        /\ fourth \in Int /\ Continues(fourth)
    BY <1>3
  <2>5. SecondOK(first, second)
    BY <2>3
  <2> HIDE DEF first, second, third, fourth
  <2>6. /\ OneSequence(<<first, second, third, fourth>>)
        /\ Len(<<first, second, third, fourth>>) = 4
        /\ StringFlags(<<first, second, third, fourth>>) = FALSE
    BY <2>2, <2>4, <2>5, FourBytes
  <2>7. QED
    <3> DEFINE text == <<first, second, third, fourth>>
    <3>1. OneSequence(text) /\ Len(text) = 4 /\ StringFlags(text) = FALSE
      BY <2>6
    <3>2. EncodeUtf8(c) = text
      BY <2>1
    <3> HIDE DEF text
    <3>3. Utf8Length(c) = 4 /\ MustEscape(c) = FALSE
      BY <1>2, <1>7, <2>1
    <3>4. QED
      BY <3>1, <3>2, <3>3
<1>8. QED
  BY <1>1, <1>4, <1>5, <1>6, <1>7

-----------------------------------------------------------------------------
(* The check for UTF-8.                                                    *)

ValidStep(text, v, k) ==
    \/ k > Len(text)
    \/ /\ SequenceLength(text, k) # 0
       /\ v[k + SequenceLength(text, k)]

Validity(text, v) ==
    v = [k \in Nat |-> \/ k > Len(text)
                       \/ /\ SequenceLength(text, k) # 0
                          /\ v[k + SequenceLength(text, k)]]

ValidFun(text) == CHOOSE v : Validity(text, v)

LEMMA ValidExists ==
    ASSUME NEW text, Len(text) \in Nat
    PROVE  Validity(text, ValidFun(text))
<1> DEFINE S == {n \in Nat :
                    \E f : /\ f = [k \in Nat |-> f[k]]
                           /\ \A k \in Nat : k + n > Len(text)
                                 => f[k] = ValidStep(text, f, k)}
<1>1. \A k : SequenceLength(text, k) \in 0 .. 4
  BY SequenceLengthTyped
<1>2. 0 \in S
  <2> DEFINE f == [k \in Nat |-> TRUE]
  <2>1. f = [k \in Nat |-> f[k]]
    OBVIOUS
  <2>2. ASSUME NEW k \in Nat, k + 0 > Len(text)
        PROVE  f[k] = ValidStep(text, f, k)
    BY <2>2 DEF ValidStep
  <2> HIDE DEF f
  <2>3. QED
    BY <2>1, <2>2
<1>3. ASSUME NEW n \in Nat, n \in S PROVE n + 1 \in S
  <2>1. PICK f : /\ f = [k \in Nat |-> f[k]]
                 /\ \A k \in Nat : k + n > Len(text)
                       => f[k] = ValidStep(text, f, k)
    BY <1>3
  <2> DEFINE g == [k \in Nat |-> ValidStep(text, f, k)]
  <2>2. \A k \in Nat : g[k] = ValidStep(text, f, k)
    OBVIOUS
  <2>3. g = [k \in Nat |-> g[k]]
    OBVIOUS
  <2> HIDE DEF g
  <2>4. ASSUME NEW k \in Nat, k + (n + 1) > Len(text)
        PROVE  g[k] = ValidStep(text, g, k)
    <3> DEFINE m == SequenceLength(text, k)
    <3>1. m \in 0 .. 4
      BY <1>1
    <3> HIDE DEF m
    <3>2. CASE m = 0
      BY <2>2, <3>2 DEF ValidStep, m
    <3>3. CASE m # 0
      <4>1. k + m \in Nat /\ (k + m) + n > Len(text)
        BY <2>4, <3>1, <3>3
      <4>2. g[k + m] = f[k + m]
        BY <2>1, <2>2, <4>1
      <4>3. QED
        BY <2>2, <4>2 DEF ValidStep, m
    <3>4. QED
      BY <3>2, <3>3
  <2>5. QED
    BY <2>3, <2>4
<1>4. Nat \subseteq S
  <2> HIDE DEF S
  <2>1. QED
    BY <1>2, <1>3, SetInduction
<1>5. Len(text) + 1 \in S
  <2>1. Len(text) + 1 \in Nat
    OBVIOUS
  <2> HIDE DEF S
  <2>2. QED
    BY <1>4, <2>1
<1>6. PICK f : /\ f = [k \in Nat |-> f[k]]
               /\ \A k \in Nat : k + (Len(text) + 1) > Len(text)
                     => f[k] = ValidStep(text, f, k)
  BY <1>5
<1>7. \A k \in Nat : k + (Len(text) + 1) > Len(text)
  OBVIOUS
<1>8. f = [k \in Nat |-> ValidStep(text, f, k)]
  BY <1>6, <1>7
<1>9. Validity(text, f)
  BY <1>8 DEF Validity, ValidStep
<1>10. QED
  BY <1>9 DEF ValidFun

(* Valid from k on.                                                        *)
ValidFrom(text, k) == ValidFun(text)[k]

LEMMA ValidIs ==
    ASSUME NEW text, Len(text) \in Nat
    PROVE  /\ ValidUtf8(text) = ValidFrom(text, 1)
           /\ \A k \in Nat : ValidFrom(text, k) =
                 (\/ k > Len(text)
                  \/ /\ SequenceLength(text, k) # 0
                     /\ ValidFrom(text, k + SequenceLength(text, k)))
<1>1. ValidUtf8(text) = ValidFun(text)[1]
  BY DEF ValidUtf8, ValidFun, Validity
<1>2. Validity(text, ValidFun(text))
  BY ValidExists
<1>3. ASSUME NEW k \in Nat
      PROVE  ValidFun(text)[k] = ValidStep(text, ValidFun(text), k)
  BY <1>2 DEF Validity, ValidStep
<1>4. QED
  BY <1>1, <1>3 DEF ValidFrom, ValidStep

(* At the end of a text nothing is wrong any more.                         *)
LEMMA ValidAtEnd ==
    ASSUME NEW text, Len(text) \in Nat
    PROVE  ValidFrom(text, Len(text) + 1) = TRUE
<1>1. Len(text) + 1 \in Nat /\ Len(text) + 1 > Len(text)
  OBVIOUS
<1>2. QED
  BY <1>1, ValidIs

(* Before it, there is one sequence more.                                  *)
LEMMA ValidBefore ==
    ASSUME NEW text, Len(text) \in Nat, NEW k \in 1 .. Len(text)
    PROVE  ValidFrom(text, k) =
              (/\ SequenceLength(text, k) # 0
               /\ ValidFrom(text, k + SequenceLength(text, k)))
<1>1. k \in Nat /\ ~(k > Len(text))
  OBVIOUS
<1>2. QED
  BY <1>1, ValidIs

(* Texts that end alike are valid alike.                                   *)
LEMMA ValidFromHere ==
    ASSUME NEW a \in Seq(Byte), NEW b \in Seq(Byte), NEW d \in Nat,
           Len(a) = d + Len(b), \A k \in 1 .. Len(b) : a[d + k] = b[k]
    PROVE  \A k \in 1 .. Len(b) + 1 : ValidFrom(a, d + k) = ValidFrom(b, k)
<1> DEFINE S == {k \in 1 .. Len(b) + 1 :
                    ValidFrom(a, d + k) = ValidFrom(b, k)}
<1>1. Len(a) \in Nat /\ Len(b) \in Nat
  BY BytesAre
<1>2. ASSUME NEW k \in 1 .. Len(b) + 1,
             \A j \in k + 1 .. Len(b) + 1 : j \in S
      PROVE  k \in S
  <2>1. CASE k = Len(b) + 1
    <3>1. d + k = Len(a) + 1
      BY <1>1, <2>1
    <3>2. QED
      BY <1>1, <2>1, <3>1, ValidAtEnd
  <2>2. CASE k # Len(b) + 1
    <3>1. k \in 1 .. Len(b) /\ d + k \in 1 .. Len(a)
      BY <1>1, <2>2
    <3> DEFINE n == SequenceLength(b, k)
    <3>2. SequenceLength(a, d + k) = n
      <4>1. Len(a) - (d + k) = Len(b) - k
        BY <1>1
      <4>2. ASSUME NEW m \in 0 .. Len(a) - (d + k)
            PROVE  a[(d + k) + m] = b[k + m]
        <5>1. k + m \in 1 .. Len(b) /\ d + (k + m) = (d + k) + m
          BY <1>1, <3>1, <4>1
        <5>2. QED
          BY <5>1
      <4>3. QED
        BY <3>1, <4>1, <4>2, SequenceFromHere
    <3>3. /\ ValidFrom(a, d + k) = (n # 0 /\ ValidFrom(a, (d + k) + n))
          /\ ValidFrom(b, k) = (n # 0 /\ ValidFrom(b, k + n))
      <4> DEFINE i == d + k
      <4> HIDE DEF n, i
      <4>1. i \in 1 .. Len(a) /\ k \in 1 .. Len(b)
            /\ SequenceLength(a, i) = n /\ SequenceLength(b, k) = n
        BY <3>1, <3>2 DEF n, i
      <4>2. ValidFrom(a, i) = (n # 0 /\ ValidFrom(a, i + n))
        BY <1>1, <4>1, ValidBefore
      <4>3. ValidFrom(b, k) = (n # 0 /\ ValidFrom(b, k + n))
        BY <1>1, <4>1, ValidBefore
      <4>4. QED
        BY <4>2, <4>3 DEF i
    <3>4. n # 0 => ValidFrom(a, (d + k) + n) = ValidFrom(b, k + n)
      <4> SUFFICES ASSUME n # 0
                   PROVE  ValidFrom(a, (d + k) + n) = ValidFrom(b, k + n)
        OBVIOUS
      <4>1. n \in 1 .. 4 /\ k + n <= Len(b) + 1
        BY <3>1, SequenceBytes
      <4> HIDE DEF n
      <4>2. k + n \in k + 1 .. Len(b) + 1 /\ d + (k + n) = (d + k) + n
        BY <1>1, <4>1
      <4>3. QED
        BY <1>2, <4>2
    <3> HIDE DEF n
    <3>5. QED
      BY <3>3, <3>4
  <2>3. QED
    BY <2>1, <2>2
<1>3. 1 .. Len(b) + 1 \subseteq S
  <2>1. Len(b) + 1 \in Nat
    BY <1>1
  <2> HIDE DEF S
  <2>2. QED
    BY <1>2, <2>1, BackwardInduction
<1>4. QED
  BY <1>3

(* One sequence before a text.                                             *)
LEMMA ValidFront ==
    ASSUME NEW x, OneSequence(x), NEW t \in Seq(Byte)
    PROVE  ValidUtf8(x \o t) = ValidUtf8(t)
<1> DEFINE a == x \o t
           n == Len(x)
<1>1. x \in Seq(Byte) /\ n \in 1 .. 4 /\ SequenceLength(x, 1) = n
  BY DEF OneSequence
<1>2. /\ a \in Seq(Byte) /\ Len(a) = n + Len(t) /\ Len(a) \in Nat
      /\ Len(t) \in Nat
      /\ \A k \in 1 .. n : a[k] = x[k]
      /\ \A k \in 1 .. Len(t) : a[n + k] = t[k]
  BY <1>1, Concat
<1>3. SequenceLength(a, 1) = n
  <2>1. \A m \in 0 .. n - 1 : x[1 + m] = a[1 + m]
    BY <1>1, <1>2
  <2>2. 1 \in 1 .. Len(x) /\ 1 \in 1 .. Len(a) /\ n <= Len(a) - 1 + 1 /\ n # 0
    BY <1>1, <1>2
  <2>3. PICK i \in 1 .. Len(x) : i = 1
    BY <2>2
  <2>4. n = SequenceLength(x, i) /\ n <= Len(a)
        /\ \A m \in 0 .. n - 1 : x[i + m] = a[1 + m]
    BY <1>1, <1>2, <2>1, <2>3
  <2> HIDE DEF a, n
  <2>5. QED
    BY <1>1, <1>2, <2>4, SequenceAtFront
<1> HIDE DEF a, n
<1>4. ValidFrom(a, 1) = ValidFrom(a, 1 + n)
  <2>1. 1 \in 1 .. Len(a) /\ n # 0
    BY <1>1, <1>2
  <2>2. ValidFrom(a, 1 + n) \in BOOLEAN
    <3>1. 1 + n \in Nat
      BY <1>1
    <3>2. QED
      BY <1>2, <3>1, ValidIs
  <2>3. QED
    BY <1>2, <1>3, <2>1, <2>2, ValidBefore
<1>5. ValidFrom(a, n + 1) = ValidFrom(t, 1)
  <2>1. 1 \in 1 .. Len(t) + 1 /\ n \in Nat
    BY <1>1, <1>2
  <2>2. QED
    BY <1>2, <2>1, ValidFromHere
<1>6. 1 + n = n + 1
  BY <1>1
<1>7. QED
  <2>1. ValidUtf8(a) = ValidFrom(a, 1) /\ ValidUtf8(t) = ValidFrom(t, 1)
    BY <1>2, ValidIs
  <2>2. QED
    BY <1>4, <1>5, <1>6, <2>1 DEF a

LEMMA ValidEmpty == ValidUtf8(<<>>) = TRUE
<1> DEFINE text == <<>>
<1>1. Len(text) + 1 = 1 /\ Len(text) \in Nat
  OBVIOUS
<1> HIDE DEF text
<1>2. ValidFrom(text, Len(text) + 1) = TRUE
  BY <1>1, ValidAtEnd
<1>3. ValidUtf8(text) = ValidFrom(text, 1)
  BY <1>1, ValidIs
<1>4. QED
  BY <1>1, <1>2, <1>3 DEF text

-----------------------------------------------------------------------------
(* What UTF-8 is.                                                          *)

(* What the bytes of an encoding denote, byte by byte.                     *)
Denotes(bs, value) ==
    value = [k \in 1 .. Len(bs) |->
                IF k = 1 THEN bs[1] - Lead[Len(bs)]
                ELSE value[k - 1] * 64 + bs[k] - 128]

LEMMA UpToFour == \A n \in 1 .. 4 : n \in Nat /\ n >= 1 /\ n <= 4
OBVIOUS

LEMMA DenotedIs ==
    ASSUME NEW bs \in Seq(Byte), Len(bs) \in 1 .. 4
    PROVE  \E value : /\ Denotes(bs, value) /\ Denoted(bs) = value[Len(bs)]
<1> DEFINE n == Len(bs)
           v1 == bs[1] - Lead[n]
           v2 == v1 * 64 + bs[2] - 128
           v3 == v2 * 64 + bs[3] - 128
           v4 == v3 * 64 + bs[4] - 128
           f == [k \in 1 .. n |-> IF k = 1 THEN v1 ELSE IF k = 2 THEN v2
                                  ELSE IF k = 3 THEN v3 ELSE v4]
           g == CHOOSE g : Denotes(bs, g)
<1>a. n \in Nat /\ n >= 1 /\ n <= 4
  BY UpToFour
<1>1. ASSUME NEW k \in 1 .. n
      PROVE  f[k] = IF k = 1 THEN bs[1] - Lead[n]
                    ELSE f[k - 1] * 64 + bs[k] - 128
  <2>1. k = 1 \/ k = 2 \/ k = 3 \/ k = 4
    BY <1>a
  <2>2. \A j \in 1 .. n : f[j] = IF j = 1 THEN v1 ELSE IF j = 2 THEN v2
                                 ELSE IF j = 3 THEN v3 ELSE v4
    OBVIOUS
  <2>3. k # 1 => k - 1 \in 1 .. n
    OBVIOUS
  <2> HIDE DEF f
  <2>4. CASE k = 1
    BY <2>2, <2>4
  <2>5. CASE k = 2
    <3>1. f[2] = v2 /\ f[1] = v1
      BY <2>2, <2>3, <2>5
    <3>2. QED
      BY <2>5, <3>1
  <2>6. CASE k = 3
    <3>1. f[3] = v3 /\ f[2] = v2
      BY <2>2, <2>3, <2>6
    <3>2. QED
      BY <2>6, <3>1
  <2>7. CASE k = 4
    <3>1. f[4] = v4 /\ f[3] = v3
      BY <2>2, <2>3, <2>7
    <3>2. QED
      BY <2>7, <3>1
  <2>8. QED
    BY <2>1, <2>4, <2>5, <2>6, <2>7
<1>2. f = [k \in 1 .. n |-> f[k]]
  OBVIOUS
<1> HIDE DEF f
<1>3. f = [k \in 1 .. n |-> IF k = 1 THEN bs[1] - Lead[n]
                            ELSE f[k - 1] * 64 + bs[k] - 128]
  BY <1>1, <1>2, ZenonT(30)
<1>4. Denotes(bs, f)
  BY <1>3 DEF Denotes
<1>5. Denotes(bs, g)
  BY <1>4
<1>6. Denoted(bs) = g[Len(bs)]
  BY DEF Denoted, Denotes
<1> HIDE DEF g
<1>7. QED
  BY <1>5, <1>6

(* One value after the other.                                              *)
LEMMA DenotedNext ==
    ASSUME NEW bs, NEW value, Denotes(bs, value), NEW k \in 1 .. Len(bs)
    PROVE  value[k] = IF k = 1 THEN bs[1] - Lead[Len(bs)]
                      ELSE value[k - 1] * 64 + bs[k] - 128
BY DEF Denotes

LEMMA DenotedValue ==
    ASSUME NEW bs \in Seq(Byte), Len(bs) \in 1 .. 4
    PROVE  /\ Len(bs) = 1 => Denoted(bs) = bs[1]
           /\ Len(bs) = 2 => Denoted(bs) = (bs[1] - 192) * 64 + bs[2] - 128
           /\ Len(bs) = 3 => Denoted(bs) =
                 ((bs[1] - 224) * 64 + bs[2] - 128) * 64 + bs[3] - 128
           /\ Len(bs) = 4 => Denoted(bs) =
                 (((bs[1] - 240) * 64 + bs[2] - 128) * 64 + bs[3] - 128) * 64
                    + bs[4] - 128
<1>1. PICK value : Denotes(bs, value) /\ Denoted(bs) = value[Len(bs)]
  BY DenotedIs
<1>2. Len(bs) \in Nat /\ \A k \in 1 .. Len(bs) : bs[k] \in Nat
  BY BytesAre
<1>3. /\ value[1] = bs[1] - Lead[Len(bs)]
      /\ \A k \in 2 .. Len(bs) : value[k] = value[k - 1] * 64 + bs[k] - 128
  <2>1. 1 \in 1 .. Len(bs)
    <3>1. Len(bs) >= 1 /\ Len(bs) \in Nat
      BY UpToFour
    <3>2. QED
      BY <3>1
  <2>2. \A k \in 2 .. Len(bs) : k \in 1 .. Len(bs) /\ k # 1
    OBVIOUS
  <2>3. QED
    BY <1>1, <2>1, <2>2, DenotedNext
<1>4. Lead[1] = 0 /\ Lead[2] = 192 /\ Lead[3] = 224 /\ Lead[4] = 240
  BY DEF Lead
<1>5. CASE Len(bs) = 1
  BY <1>1, <1>2, <1>3, <1>4, <1>5
<1>6. CASE Len(bs) = 2
  <2>1. 2 \in 2 .. 2
    OBVIOUS
  <2>2. value[2] = value[1] * 64 + bs[2] - 128
    BY <1>3, <1>6, <2>1
  <2>3. value[1] = bs[1] - 192 /\ Denoted(bs) = value[2]
    BY <1>1, <1>3, <1>4, <1>6
  <2>4. Denoted(bs) = (bs[1] - 192) * 64 + bs[2] - 128
    BY <2>2, <2>3
  <2>5. QED
    BY <1>6, <2>4
<1>7. CASE Len(bs) = 3
  <2>1. 2 \in 2 .. 3 /\ 3 \in 2 .. 3
    OBVIOUS
  <2>2. value[2] = value[1] * 64 + bs[2] - 128
        /\ value[3] = value[2] * 64 + bs[3] - 128
    BY <1>3, <1>7, <2>1
  <2>3. QED
    BY <1>1, <1>3, <1>4, <1>7, <2>2
<1>8. CASE Len(bs) = 4
  <2>1. 2 \in 2 .. 4 /\ 3 \in 2 .. 4 /\ 4 \in 2 .. 4
    OBVIOUS
  <2>2. value[2] = value[1] * 64 + bs[2] - 128
        /\ value[3] = value[2] * 64 + bs[3] - 128
        /\ value[4] = value[3] * 64 + bs[4] - 128
    BY <1>3, <1>8, <2>1
  <2>3. QED
    BY <1>1, <1>3, <1>4, <1>8, <2>2
<1>9. QED
  BY <1>5, <1>6, <1>7, <1>8

(* The first and the second byte say whether the value is in its range.    *)
LEMMA TwoByteRange ==
    ASSUME NEW a \in Int, NEW b \in Int, Continues(b),
           NEW d, d = (a - 192) * 64 + b - 128
    PROVE  (d >= 128 /\ d < 2048 /\ Scalar(d)) <=> Announced(a) = 2
BY DEF Continues, Announced, FirstNonAscii, Scalar, High, Low

(* The encodings are the sequences.                                        *)
LEMMA EncodingIs ==
    ASSUME NEW text \in Seq(Byte), NEW k \in 1 .. Len(text), NEW n \in 1 .. 4,
           k + n <= Len(text) + 1
    PROVE  IsEncoding(SubSeq(text, k, k + n - 1))
              <=> SequenceLength(text, k) = n
<1> DEFINE bs == SubSeq(text, k, k + n - 1)
<1>1. Len(text) \in Nat /\ \A j \in 1 .. Len(text) : text[j] \in Byte
  BY BytesAre
<1>2. bs \in Seq(Byte) /\ Len(bs) = n /\ \A j \in 1 .. n : bs[j] = text[k + j - 1]
  <2>1. \A j \in k .. k + n - 1 : text[j] \in Byte
    BY <1>1
  <2>2. k \in Int /\ k + n - 1 \in Int /\ (k + n - 1) - k + 1 = n
        /\ k <= (k + n - 1) + 1
    OBVIOUS
  <2>3. QED
    BY <2>1, <2>2, SubSeqProperties
<1> HIDE DEF bs
<1>3. \A j \in 1 .. n : bs[j] \in Int
  BY <1>2, BytesAre
<1>4. bs[1] = text[k]
  <2>1. 1 \in 1 .. n /\ k + 1 - 1 = k
    OBVIOUS
  <2>2. QED
    BY <1>2, <2>1
<1>5. n > 1 => bs[2] = text[k + 1]
  <2>1. n > 1 => 2 \in 1 .. n /\ k + 2 - 1 = k + 1
    OBVIOUS
  <2>2. QED
    BY <1>2, <2>1
<1>6. (\A j \in 2 .. n : Continues(bs[j]))
         <=> (\A j \in 1 .. n - 1 : Continues(text[k + j]))
  <2>1. ASSUME NEW j \in 2 .. n
        PROVE  j - 1 \in 1 .. n - 1 /\ bs[j] = text[k + (j - 1)]
    BY <1>2
  <2>2. ASSUME NEW j \in 1 .. n - 1
        PROVE  j + 1 \in 2 .. n /\ bs[j + 1] = text[k + j]
    <3>1. j + 1 \in 1 .. n /\ k + (j + 1) - 1 = k + j /\ j + 1 \in 2 .. n
      OBVIOUS
    <3>2. QED
      BY <1>2, <3>1
  <2>3. QED
    BY <2>1, <2>2
<1>7. IsEncoding(bs) <=>
         /\ \A j \in 2 .. n : Continues(bs[j])
         /\ Denoted(bs) >= Least[n]
         /\ Denoted(bs) < <<128, 2048, 65536, 2097152>>[n]
         /\ Scalar(Denoted(bs))
  BY <1>2 DEF IsEncoding
<1>8. SequenceLength(text, k) = n <=>
         /\ Announced(bs[1]) = n
         /\ \A j \in 2 .. n : Continues(bs[j])
         /\ n > 1 => SecondOK(bs[1], bs[2])
  <2>1. n <= Len(text) - k + 1
    BY <1>1
  <2>2. SequenceLength(text, k) = n <=>
           /\ Announced(text[k]) = n
           /\ n <= Len(text) - k + 1
           /\ \A j \in 1 .. n - 1 : Continues(text[k + j])
           /\ n > 1 => SecondOK(text[k], text[k + 1])
    BY SequenceIs
  <2>3. QED
    BY <1>4, <1>5, <1>6, <2>1, <2>2
<1>9. CASE n = 1
  <2>1. Denoted(bs) = bs[1] /\ Least[n] = 0
        /\ <<128, 2048, 65536, 2097152>>[n] = 128
    BY <1>2, <1>9, DenotedValue DEF Least
  <2>2. bs[1] \in Int /\ bs[1] >= 0
    BY <1>2, BytesAre
  <2>3. (bs[1] >= 0 /\ bs[1] < 128 /\ Scalar(bs[1])) <=> Announced(bs[1]) = 1
    BY <2>2 DEF Announced, FirstNonAscii, Scalar, High, Low
  <2>4. QED
    BY <1>7, <1>8, <1>9, <2>1, <2>3 DEF bs
<1>10. CASE n = 2
  <2>1. Denoted(bs) = (bs[1] - 192) * 64 + bs[2] - 128 /\ Least[n] = 128
        /\ <<128, 2048, 65536, 2097152>>[n] = 2048
    BY <1>2, <1>10, DenotedValue DEF Least
  <2>2. bs[1] \in Int /\ bs[2] \in Int /\ 2 \in 2 .. n
    BY <1>3, <1>10
  <2>3. Announced(bs[1]) = 2 => SecondOK(bs[1], bs[2])
    BY <2>2 DEF Announced, FirstNonAscii, SecondOK
  <2>4. Continues(bs[2]) =>
           ((Denoted(bs) >= 128 /\ Denoted(bs) < 2048 /\ Scalar(Denoted(bs)))
               <=> Announced(bs[1]) = 2)
    <3> DEFINE a == bs[1]
               b == bs[2]
               d == Denoted(bs)
    <3>1. a \in Int /\ b \in Int /\ d = (a - 192) * 64 + b - 128
      BY <2>1, <2>2
    <3> HIDE DEF a, b, d
    <3>2. Continues(b) =>
             ((d >= 128 /\ d < 2048 /\ Scalar(d)) <=> Announced(a) = 2)
      BY <3>1, TwoByteRange, SMTT(30)
    <3>3. QED
      BY <3>2 DEF a, b, d
  <2>5. (\A j \in 2 .. n : Continues(bs[j])) => Continues(bs[2])
    BY <2>2
  <2>6. QED
    BY <1>7, <1>8, <1>10, <2>1, <2>3, <2>4, <2>5 DEF bs
<1>11. CASE n = 3
  <2>1. Denoted(bs) = ((bs[1] - 224) * 64 + bs[2] - 128) * 64 + bs[3] - 128
        /\ Least[n] = 2048
        /\ <<128, 2048, 65536, 2097152>>[n] = 65536
    BY <1>2, <1>11, DenotedValue DEF Least
  <2>2. bs[1] \in Int /\ bs[2] \in Int /\ bs[3] \in Int
        /\ 2 \in 2 .. n /\ 3 \in 2 .. n
    BY <1>3, <1>11
  <2>3. Continues(bs[2]) /\ Continues(bs[3]) =>
           ((Denoted(bs) >= 2048 /\ Denoted(bs) < 65536 /\ Scalar(Denoted(bs)))
               <=> Announced(bs[1]) = 3 /\ SecondOK(bs[1], bs[2]))
    <3> DEFINE a == bs[1]
               b == bs[2]
               c == bs[3]
               d == Denoted(bs)
    <3>1. /\ a \in Int /\ b \in Int /\ c \in Int
          /\ d = ((a - 224) * 64 + b - 128) * 64 + c - 128
      BY <2>1, <2>2
    <3> HIDE DEF a, b, c, d
    <3>2. ASSUME Continues(b), Continues(c)
          PROVE  (d >= 2048 /\ d < 65536 /\ Scalar(d))
                    <=> Announced(a) = 3 /\ SecondOK(a, b)
      BY <3>1, <3>2 DEF Continues, Announced, FirstNonAscii, Scalar, High, Low,
                           SecondOK
    <3>3. QED
      BY <3>2 DEF a, b, c, d
  <2>4. (\A j \in 2 .. n : Continues(bs[j]))
           => Continues(bs[2]) /\ Continues(bs[3])
    BY <2>2
  <2>5. QED
    BY <1>7, <1>8, <1>11, <2>1, <2>3, <2>4 DEF bs
<1>12. CASE n = 4
  <2>1. /\ Denoted(bs) =
              (((bs[1] - 240) * 64 + bs[2] - 128) * 64 + bs[3] - 128) * 64
                 + bs[4] - 128
        /\ Least[n] = 65536
        /\ <<128, 2048, 65536, 2097152>>[n] = 2097152
    BY <1>2, <1>12, DenotedValue DEF Least
  <2>2. bs[1] \in Int /\ bs[2] \in Int /\ bs[3] \in Int /\ bs[4] \in Int
        /\ 2 \in 2 .. n /\ 3 \in 2 .. n /\ 4 \in 2 .. n
    BY <1>3, <1>12
  <2>3. Continues(bs[2]) /\ Continues(bs[3]) /\ Continues(bs[4]) =>
           ((/\ Denoted(bs) >= 65536 /\ Denoted(bs) < 2097152
             /\ Scalar(Denoted(bs)))
               <=> Announced(bs[1]) = 4 /\ SecondOK(bs[1], bs[2]))
    <3> DEFINE a == bs[1]
               b == bs[2]
               c == bs[3]
               e == bs[4]
               d == Denoted(bs)
    <3>1. /\ a \in Int /\ b \in Int /\ c \in Int /\ e \in Int
          /\ d = (((a - 240) * 64 + b - 128) * 64 + c - 128) * 64 + e - 128
      BY <2>1, <2>2
    <3> HIDE DEF a, b, c, d, e
    <3>2. ASSUME Continues(b), Continues(c), Continues(e)
          PROVE  (d >= 65536 /\ d < 2097152 /\ Scalar(d))
                    <=> Announced(a) = 4 /\ SecondOK(a, b)
      BY <3>1, <3>2 DEF Continues, Announced, FirstNonAscii, Scalar, High, Low,
                           SecondOK
    <3>3. QED
      BY <3>2 DEF a, b, c, d, e
  <2>4. (\A j \in 2 .. n : Continues(bs[j]))
           => Continues(bs[2]) /\ Continues(bs[3]) /\ Continues(bs[4])
    BY <2>2
  <2>5. QED
    BY <1>7, <1>8, <1>12, <2>1, <2>3, <2>4 DEF bs
<1>13. QED
  BY <1>9, <1>10, <1>11, <1>12

EncodedStep(text, f, k) ==
    \/ k = Len(text) + 1
    \/ \E n \in 1 .. 4 :
          /\ k + n <= Len(text) + 1
          /\ IsEncoding(SubSeq(text, k, k + n - 1))
          /\ f[k + n]

Encoded(text, f) ==
    f = [k \in 1 .. Len(text) + 1 |->
            \/ k = Len(text) + 1
            \/ \E n \in 1 .. 4 :
                  /\ k + n <= Len(text) + 1
                  /\ IsEncoding(SubSeq(text, k, k + n - 1))
                  /\ f[k + n]]

(* At a place where the check goes on, exactly one encoding stands.        *)
LEMMA EncodedAsValid ==
    ASSUME NEW text \in Seq(Byte), NEW k \in 1 .. Len(text) + 1, NEW f,
           \A j \in k + 1 .. Len(text) + 1 : f[j] = ValidFrom(text, j)
    PROVE  EncodedStep(text, f, k) = ValidFrom(text, k)
<1>1. Len(text) \in Nat
  BY BytesAre
<1>2. CASE k = Len(text) + 1
  BY <1>1, <1>2, ValidAtEnd DEF EncodedStep
<1>3. CASE k # Len(text) + 1
  <2> DEFINE n == SequenceLength(text, k)
  <2>1. k \in 1 .. Len(text)
    BY <1>1, <1>3
  <2>2. ValidFrom(text, k) = (n # 0 /\ ValidFrom(text, k + n))
    BY <1>1, <2>1, ValidBefore
  <2>3. n # 0 => /\ n \in 1 .. 4 /\ k + n <= Len(text) + 1
                 /\ k + n \in k + 1 .. Len(text) + 1
    <3>1. n # 0 => n \in 1 .. 4 /\ k + n <= Len(text) + 1
      BY <2>1, SequenceBytes
    <3> HIDE DEF n
    <3>2. QED
      BY <1>1, <2>1, <3>1
  <2>4. \A m \in 1 .. 4 : k + m <= Len(text) + 1 =>
           (IsEncoding(SubSeq(text, k, k + m - 1)) <=> n = m)
    BY <2>1, EncodingIs
  <2> HIDE DEF n
  <2>5. CASE n = 0
    <3>1. ValidFrom(text, k) = FALSE
      BY <2>2, <2>5
    <3>2. EncodedStep(text, f, k) = FALSE
      BY <1>3, <2>4, <2>5 DEF EncodedStep
    <3>3. QED
      BY <3>1, <3>2
  <2>6. CASE n # 0
    <3>1. f[k + n] = ValidFrom(text, k + n)
      BY <2>3, <2>6
    <3>2. EncodedStep(text, f, k) <=> f[k + n]
      BY <1>3, <2>3, <2>4, <2>6 DEF EncodedStep
    <3>3. ValidFrom(text, k + n) \in BOOLEAN
      <4>1. k + n \in Nat
        BY <1>1, <2>3, <2>6
      <4>2. QED
        BY <1>1, <4>1, ValidIs
    <3>4. EncodedStep(text, f, k) \in BOOLEAN
      BY DEF EncodedStep
    <3>5. QED
      BY <2>2, <2>6, <3>1, <3>2, <3>3, <3>4
  <2>7. QED
    BY <2>5, <2>6
<1>4. QED
  BY <1>2, <1>3

(* The check accepts what is UTF-8.                                        *)
LEMMA Utf8IsValid ==
    ASSUME NEW text \in Seq(Byte)
    PROVE  IsUtf8(text) = ValidUtf8(text)
<1> DEFINE f == [k \in 1 .. Len(text) + 1 |-> ValidFrom(text, k)]
           g == CHOOSE g : Encoded(text, g)
           S == {k \in 1 .. Len(text) + 1 : g[k] = ValidFrom(text, k)}
<1>1. Len(text) \in Nat
  BY BytesAre
<1>2. Encoded(text, f)
  <2>1. \A k \in 1 .. Len(text) + 1 : f[k] = ValidFrom(text, k)
    OBVIOUS
  <2>2. f = [k \in 1 .. Len(text) + 1 |-> f[k]]
    OBVIOUS
  <2> HIDE DEF f
  <2>3. ASSUME NEW k \in 1 .. Len(text) + 1
        PROVE  f[k] = EncodedStep(text, f, k)
    <3>1. \A j \in k + 1 .. Len(text) + 1 : f[j] = ValidFrom(text, j)
      BY <1>1, <2>1
    <3>2. QED
      BY <2>1, <3>1, EncodedAsValid
  <2>4. f = [k \in 1 .. Len(text) + 1 |-> EncodedStep(text, f, k)]
    BY <2>2, <2>3
  <2>5. QED
    BY <2>4 DEF Encoded, EncodedStep
<1>3. Encoded(text, g)
  BY <1>2
<1>4. IsUtf8(text) = g[1]
  BY DEF IsUtf8, Encoded
<1> HIDE DEF f, g
<1>5. \A k \in 1 .. Len(text) + 1 : g[k] = EncodedStep(text, g, k)
  BY <1>3 DEF Encoded, EncodedStep
<1>6. ASSUME NEW k \in 1 .. Len(text) + 1,
             \A j \in k + 1 .. Len(text) + 1 : j \in S
      PROVE  k \in S
  <2>1. \A j \in k + 1 .. Len(text) + 1 : g[j] = ValidFrom(text, j)
    BY <1>6
  <2>2. QED
    BY <1>5, <2>1, EncodedAsValid
<1>7. 1 .. Len(text) + 1 \subseteq S
  <2>1. Len(text) + 1 \in Nat
    BY <1>1
  <2> HIDE DEF S
  <2>2. QED
    BY <1>6, <2>1, BackwardInduction
<1>8. 1 \in 1 .. Len(text) + 1
  BY <1>1
<1>9. QED
  BY <1>1, <1>4, <1>7, <1>8, ValidIs

-----------------------------------------------------------------------------
(* The first pass.                                                         *)

LEMMA CodesAre ==
    /\ Running \in ScanCodes /\ Ok \in ScanCodes /\ Running # Ok
    /\ ParseUnexpectedEnd \in Errors /\ ParseInvalidString \in Errors
    /\ ParseInvalidEscape \in Errors /\ ParseInvalidUnicodeEscape \in Errors
    /\ StringCapacityExceeded \in Errors
    /\ \A code \in Errors : code \in ScanCodes /\ code # Running /\ code # Ok
<1>1. /\ Running # Ok
      /\ \A code \in Errors : code # Running /\ code # Ok
  BY DEF Errors, Running, Ok, ParseUnexpectedEnd, ParseInvalidString,
         ParseInvalidEscape, ParseInvalidUnicodeEscape, StringCapacityExceeded
<1>2. QED
  BY <1>1 DEF ScanCodes, Errors

LEMMA MeasuredIs ==
    ASSUME NEW s \in Scans, NEW taken \in Nat, NEW length \in Nat,
           NEW flags \in BOOLEAN
    PROVE  LET t == Measured(s, taken, length, flags)
           IN /\ t \in Scans
              /\ t.cursor = s.cursor + taken /\ t.length = s.length + length
              /\ t.hasEscape = s.hasEscape /\ t.flags = (s.flags \/ flags)
              /\ t.code = IF s.length + length > MaxLength
                          THEN StringCapacityExceeded ELSE Running
<1> DEFINE on == s.cursor + taken
           sum == s.length + length
           either == s.flags \/ flags
           code == IF sum > MaxLength THEN StringCapacityExceeded ELSE Running
<1>1. s.cursor \in Nat /\ s.length \in Nat
  BY DEF Scans
<1>2. on \in Nat /\ sum \in Nat /\ either \in BOOLEAN /\ code \in ScanCodes
  BY <1>1, CodesAre
<1>3. Measured(s, taken, length, flags) =
         [s EXCEPT !.cursor = on, !.length = sum, !.flags = either, !.code = code]
  BY DEF Measured
<1> HIDE DEF on, sum, either, code
<1> DEFINE t == [s EXCEPT !.cursor = on, !.length = sum, !.flags = either,
                          !.code = code]
<1>4. t \in Scans
  BY <1>2 DEF Scans
<1>5. /\ t.cursor = on /\ t.length = sum /\ t.hasEscape = s.hasEscape
      /\ t.flags = either /\ t.code = code
  BY DEF Scans
<1> HIDE DEF t
<1>6. QED
  BY <1>3, <1>4, <1>5 DEF t, on, sum, either, code

LEMMA FailedIs ==
    ASSUME NEW s \in Scans, NEW code \in ScanCodes
    PROVE  Failed(s, code) \in Scans /\ Failed(s, code).code = code
BY DEF Failed, Scans

Escaped(s) == [s EXCEPT !.hasEscape = TRUE]

LEMMA EscapedIs ==
    ASSUME NEW s \in Scans
    PROVE  /\ Escaped(s) \in Scans
           /\ Escaped(s).cursor = s.cursor /\ Escaped(s).length = s.length
           /\ Escaped(s).hasEscape = TRUE /\ Escaped(s).flags = s.flags
           /\ Escaped(s).code = s.code
BY DEF Escaped, Scans

Ended(s) == [s EXCEPT !.cursor = s.cursor + 1, !.code = Ok]

LEMMA EndedIs ==
    ASSUME NEW s \in Scans
    PROVE  /\ Ended(s) \in Scans
           /\ Ended(s).cursor = s.cursor + 1 /\ Ended(s).length = s.length
           /\ Ended(s).hasEscape = s.hasEscape /\ Ended(s).flags = s.flags
           /\ Ended(s).code = Ok
<1> DEFINE on == s.cursor + 1
           code == Ok
           t == [s EXCEPT !.cursor = on, !.code = code]
<1>1. on \in Nat /\ code \in ScanCodes
  BY CodesAre DEF Scans
<1>2. Ended(s) = t
  BY DEF Ended
<1> HIDE DEF on, code
<1>3. t \in Scans
  BY <1>1 DEF Scans
<1>4. /\ t.cursor = on /\ t.length = s.length /\ t.hasEscape = s.hasEscape
      /\ t.flags = s.flags /\ t.code = code
  BY DEF Scans
<1> HIDE DEF t
<1>5. QED
  BY <1>2, <1>3, <1>4 DEF on, code

(* A turn goes on from the cursor, ends the scan, or fails.                *)
Turned(s, t) ==
    \/ \E u \in {s, Escaped(s)}, code \in Errors : t = Failed(u, code)
    \/ t = Ended(s)
    \/ \E u \in {s, Escaped(s)}, taken \in Nat \ {0}, length \in Nat,
          flags \in BOOLEAN : t = Measured(u, taken, length, flags)

LEMMA UnicodeTurns ==
    ASSUME NEW input, NEW s
    PROVE  LET u == Escaped(s)
               t == ScanUnicode(input, u)
           IN \/ \E code \in Errors : t = Failed(u, code)
              \/ \E taken \in Nat \ {0}, length \in Nat, flags \in BOOLEAN :
                    t = Measured(u, taken, length, flags)
<1> DEFINE u == Escaped(s)
           unit == ParseHex4(input, u.cursor + 2)
           low == ParseHex4(input, u.cursor + 6 + 2)
<1>1. /\ 6 \in Nat \ {0} /\ 12 \in Nat \ {0}
      /\ Utf8Length(unit) \in Nat /\ Utf8Length(Combine(unit, low)) \in Nat
      /\ MustEscape(unit) \in BOOLEAN /\ FALSE \in BOOLEAN
      /\ ParseInvalidUnicodeEscape \in Errors
  BY CodesAre DEF Utf8Length, MustEscape
<1>2. \/ ScanUnicode(input, u) = Failed(u, ParseInvalidUnicodeEscape)
      \/ ScanUnicode(input, u)
            = Measured(u, 6, Utf8Length(unit), MustEscape(unit))
      \/ ScanUnicode(input, u)
            = Measured(u, 12, Utf8Length(Combine(unit, low)), FALSE)
  <2> HIDE DEF u
  <2>1. QED
    BY DEF ScanUnicode
<1> HIDE DEF u, unit, low
<1>3. QED
  BY <1>1, <1>2 DEF u

LEMMA ScanTurns ==
    ASSUME NEW input, NEW s \in Scans
    PROVE  Turned(s, ScanTurn(input, s))
<1> DEFINE byte == input[s.cursor]
           u == Escaped(s)
           n == SequenceLength(input, s.cursor)
<1>1. /\ ParseUnexpectedEnd \in Errors /\ ParseInvalidString \in Errors
      /\ ParseInvalidEscape \in Errors
      /\ 1 \in Nat \ {0} /\ 2 \in Nat \ {0} /\ 1 \in Nat /\ FALSE \in BOOLEAN
      /\ n \in 0 .. 4
  BY SequenceLengthTyped, CodesAre
<1>2. \/ ScanTurn(input, s) = Failed(s, ParseUnexpectedEnd)
      \/ ScanTurn(input, s) = Failed(s, ParseInvalidString)
      \/ ScanTurn(input, s) = Ended(s)
      \/ ScanTurn(input, s) = ScanEscape(input, u)
      \/ ScanTurn(input, s) = Measured(s, 1, 1, FALSE)
      \/ n # 0 /\ ScanTurn(input, s) = Measured(s, n, n, FALSE)
  BY DEF ScanTurn, Ended, Escaped
<1>3. CASE ScanTurn(input, s) = ScanEscape(input, u)
  <2> DEFINE next == input[u.cursor + 1]
  <2> HIDE DEF u
  <2>1. \/ ScanEscape(input, u) = Failed(u, ParseUnexpectedEnd)
        \/ ScanEscape(input, u) = Failed(u, ParseInvalidEscape)
        \/ ScanEscape(input, u) = ScanUnicode(input, u)
        \/ ScanEscape(input, u) = Measured(u, 2, 1, next # Slash)
    BY DEF ScanEscape
  <2>2. (next # Slash) \in BOOLEAN
    OBVIOUS
  <2> HIDE DEF next
  <2>3. u \in {s, Escaped(s)}
    BY DEF u
  <2>4. CASE ScanEscape(input, u) = ScanUnicode(input, u)
    BY <1>3, <2>3, <2>4, UnicodeTurns DEF Turned, u
  <2>5. CASE ScanEscape(input, u) # ScanUnicode(input, u)
    BY <1>1, <1>3, <2>1, <2>2, <2>3, <2>5 DEF Turned
  <2>6. QED
    BY <2>4, <2>5
<1>4. CASE n # 0 /\ ScanTurn(input, s) = Measured(s, n, n, FALSE)
  <2>1. n \in Nat \ {0} /\ n \in Nat /\ s \in {s, Escaped(s)}
    BY <1>1, <1>4
  <2> HIDE DEF n
  <2>2. QED
    BY <1>1, <1>4, <2>1 DEF Turned
<1> HIDE DEF n, u
<1>5. QED
  BY <1>1, <1>2, <1>3, <1>4 DEF Turned

(* It is a scan again, and one that goes on has come on.                   *)
LEMMA TurnedTyped ==
    ASSUME NEW s \in Scans, s.code = Running, NEW t, Turned(s, t)
    PROVE  t \in Scans /\ (t.code = Running => t.cursor > s.cursor)
<1>1. \A u \in {s, Escaped(s)} : u \in Scans /\ u.cursor = s.cursor
  BY EscapedIs
<1>2. CASE \E u \in {s, Escaped(s)}, code \in Errors : t = Failed(u, code)
  <2>1. PICK u \in {s, Escaped(s)}, code \in Errors : t = Failed(u, code)
    BY <1>2
  <2>2. code \in ScanCodes /\ code # Running
    BY CodesAre
  <2>3. QED
    BY <1>1, <2>1, <2>2, FailedIs
<1>3. CASE t = Ended(s)
  BY <1>3, EndedIs, CodesAre
<1>4. CASE \E u \in {s, Escaped(s)}, taken \in Nat \ {0}, length \in Nat,
              flags \in BOOLEAN : t = Measured(u, taken, length, flags)
  <2>1. PICK u \in {s, Escaped(s)}, taken \in Nat \ {0}, length \in Nat,
             flags \in BOOLEAN : t = Measured(u, taken, length, flags)
    BY <1>4
  <2>a. u \in Scans /\ taken \in Nat /\ taken > 0
    BY <1>1
  <2>2. t \in Scans /\ t.cursor = u.cursor + taken
    BY <2>1, <2>a, MeasuredIs
  <2>3. u.cursor \in Nat
    BY <1>1 DEF Scans
  <2>4. u.cursor + taken > u.cursor
    BY <2>a, <2>3
  <2>5. QED
    BY <1>1, <2>2, <2>4
<1>5. QED
  BY <1>2, <1>3, <1>4 DEF Turned

(* Behind the text there is only an error.                                 *)
LEMMA TurnBehind ==
    ASSUME NEW input, NEW s \in Scans, s.cursor > Len(input)
    PROVE  ScanTurn(input, s) = Failed(s, ParseUnexpectedEnd)
BY DEF ScanTurn

ScanStep(input, f, s) == IF s.code # Running THEN s ELSE f[ScanTurn(input, s)]

Scanning(input, f) ==
    f = [s \in Scans |-> IF s.code # Running THEN s ELSE f[ScanTurn(input, s)]]

ScanFun(input) == CHOOSE f : Scanning(input, f)

LEMMA ScanExists ==
    ASSUME NEW input, Len(input) \in Nat
    PROVE  Scanning(input, ScanFun(input))
<1> DEFINE S == {n \in Nat :
                    \E f : /\ f = [s \in Scans |-> f[s]]
                           /\ \A s \in Scans :
                                 s.code # Running \/ s.cursor + n > Len(input)
                                    => f[s] = ScanStep(input, f, s)}
<1>1. \A s \in Scans : s.code = Running =>
         /\ ScanTurn(input, s) \in Scans
         /\ ScanTurn(input, s).code = Running => ScanTurn(input, s).cursor > s.cursor
  BY ScanTurns, TurnedTyped
<1>2. \A s \in Scans : s.cursor \in Nat
  BY DEF Scans
<1>3. 0 \in S
  <2> DEFINE f == [s \in Scans |-> IF s.code # Running THEN s ELSE ScanTurn(input, s)]
  <2>1. f = [s \in Scans |-> f[s]]
    OBVIOUS
  <2>2. \A s \in Scans : f[s] = IF s.code # Running THEN s ELSE ScanTurn(input, s)
    OBVIOUS
  <2> HIDE DEF f
  <2>3. ASSUME NEW s \in Scans, s.code # Running \/ s.cursor + 0 > Len(input)
        PROVE  f[s] = ScanStep(input, f, s)
    <3>1. CASE s.code # Running
      BY <2>2, <3>1 DEF ScanStep
    <3>2. CASE s.code = Running
      <4>1. s.cursor > Len(input)
        <5>1. s.cursor \in Nat /\ s.cursor + 0 > Len(input)
          BY <1>2, <2>3, <3>2
        <5>2. QED
          BY <5>1
      <4>2. ScanTurn(input, s) = Failed(s, ParseUnexpectedEnd)
        BY <4>1, TurnBehind
      <4>3. ScanTurn(input, s) \in Scans /\ ScanTurn(input, s).code # Running
        <5>1. ParseUnexpectedEnd \in ScanCodes
              /\ ParseUnexpectedEnd # Running
          BY CodesAre
        <5>2. QED
          BY <4>2, <5>1, FailedIs
      <4>4. f[ScanTurn(input, s)] = ScanTurn(input, s)
        BY <2>2, <4>3
      <4>5. QED
        BY <2>2, <3>2, <4>4 DEF ScanStep
    <3>3. QED
      BY <3>1, <3>2
  <2>4. QED
    BY <2>1, <2>3
<1>4. ASSUME NEW n \in Nat, n \in S PROVE n + 1 \in S
  <2>1. PICK f : /\ f = [s \in Scans |-> f[s]]
                 /\ \A s \in Scans : s.code # Running \/ s.cursor + n > Len(input)
                       => f[s] = ScanStep(input, f, s)
    BY <1>4
  <2> DEFINE g == [s \in Scans |-> ScanStep(input, f, s)]
  <2>2. \A s \in Scans : g[s] = ScanStep(input, f, s)
    OBVIOUS
  <2>3. g = [s \in Scans |-> g[s]]
    OBVIOUS
  <2> HIDE DEF g
  <2>4. ASSUME NEW s \in Scans, s.code # Running \/ s.cursor + (n + 1) > Len(input)
        PROVE  g[s] = ScanStep(input, g, s)
    <3> DEFINE t == ScanTurn(input, s)
    <3>1. CASE s.code # Running
      BY <2>2, <3>1 DEF ScanStep
    <3>2. CASE s.code = Running
      <4>1. t \in Scans /\ (t.code = Running => t.cursor > s.cursor)
        BY <1>1, <3>2
      <4> HIDE DEF t
      <4>2. t.code # Running \/ t.cursor + n > Len(input)
        <5> SUFFICES ASSUME t.code = Running PROVE t.cursor + n > Len(input)
          OBVIOUS
        <5>1. /\ s.cursor \in Nat /\ t.cursor \in Nat /\ t.cursor > s.cursor
              /\ s.cursor + (n + 1) > Len(input)
          BY <1>2, <2>4, <3>2, <4>1
        <5>2. QED
          BY <5>1
      <4>3. g[t] = f[t]
        BY <2>1, <2>2, <4>1, <4>2
      <4>4. QED
        BY <2>2, <3>2, <4>3 DEF ScanStep, t
    <3>3. QED
      BY <3>1, <3>2
  <2>5. QED
    BY <2>3, <2>4
<1>5. Nat \subseteq S
  <2> HIDE DEF S
  <2>1. QED
    BY <1>3, <1>4, SetInduction
<1>6. Len(input) + 1 \in S
  <2>1. Len(input) + 1 \in Nat
    OBVIOUS
  <2> HIDE DEF S
  <2>2. QED
    BY <1>5, <2>1
<1>7. PICK f : /\ f = [s \in Scans |-> f[s]]
               /\ \A s \in Scans :
                     s.code # Running \/ s.cursor + (Len(input) + 1) > Len(input)
                        => f[s] = ScanStep(input, f, s)
  BY <1>6
<1>8. \A s \in Scans : s.cursor + (Len(input) + 1) > Len(input)
  BY <1>2
<1>9. f = [s \in Scans |-> ScanStep(input, f, s)]
  BY <1>7, <1>8
<1>10. Scanning(input, f)
  BY <1>9 DEF Scanning, ScanStep
<1>11. QED
  BY <1>10 DEF ScanFun

(* How the scan ends that is now at s.                                     *)
ScanFrom(input, s) == ScanFun(input)[s]

Start == [cursor |-> 2, length |-> 0, hasEscape |-> FALSE, flags |-> FALSE,
          code |-> Running]

LEMMA ScanIs ==
    ASSUME NEW input, Len(input) \in Nat
    PROVE  /\ ScanString(input) = ScanFrom(input, Start)
           /\ Start \in Scans
           /\ \A s \in Scans :
                 /\ s.code # Running => ScanFrom(input, s) = s
                 /\ s.code = Running => ScanFrom(input, s)
                                      = ScanFrom(input, ScanTurn(input, s))
<1>1. ScanString(input) = ScanFun(input)[Start]
  BY DEF ScanString, ScanFun, Scanning, Start
<1>2. Start \in Scans
  BY CodesAre DEF Start, Scans
<1>3. Scanning(input, ScanFun(input))
  BY ScanExists
<1>4. \A s \in Scans : ScanFun(input)[s] = ScanStep(input, ScanFun(input), s)
  BY <1>3 DEF Scanning, ScanStep
<1>5. QED
  BY <1>1, <1>2, <1>4 DEF ScanFrom, ScanStep

-----------------------------------------------------------------------------
(* The second pass.                                                        *)

LEMMA DecodeTakes ==
    ASSUME NEW input, NEW k
    PROVE  DecodeTurn(input, k).taken \in {1, 2, 3, 4, 6, 12}
BY DEF DecodeTurn, DecodeUnicode, UncheckedLength

DecodeStep(input, end, f, k) ==
    IF k >= end - 1 THEN <<>>
    ELSE DecodeTurn(input, k).text \o f[k + DecodeTurn(input, k).taken]

Decoding(input, end, f) ==
    f = [k \in Nat \ {0} |->
            IF k >= end - 1 THEN <<>>
            ELSE LET turn == DecodeTurn(input, k)
                 IN turn.text \o f[k + turn.taken]]

DecodeFun(input, end) == CHOOSE f : Decoding(input, end, f)

LEMMA DecodeExists ==
    ASSUME NEW input, NEW end \in Nat
    PROVE  Decoding(input, end, DecodeFun(input, end))
<1> DEFINE D == Nat \ {0}
           S == {n \in Nat :
                    \E f : /\ f = [k \in D |-> f[k]]
                           /\ \A k \in D : k + n >= end - 1
                                 => f[k] = DecodeStep(input, end, f, k)}
<1>1. 0 \in S
  <2> DEFINE f == [k \in D |-> <<>>]
  <2>1. f = [k \in D |-> f[k]] /\ \A k \in D : f[k] = <<>>
    OBVIOUS
  <2> HIDE DEF f
  <2>2. ASSUME NEW k \in D, k + 0 >= end - 1
        PROVE  f[k] = DecodeStep(input, end, f, k)
    <3>1. k >= end - 1
      BY <2>2
    <3>2. QED
      BY <2>1, <3>1 DEF DecodeStep
  <2>3. QED
    BY <2>1, <2>2
<1>2. ASSUME NEW n \in Nat, n \in S PROVE n + 1 \in S
  <2>1. PICK f : /\ f = [k \in D |-> f[k]]
                 /\ \A k \in D : k + n >= end - 1
                       => f[k] = DecodeStep(input, end, f, k)
    BY <1>2
  <2> DEFINE g == [k \in D |-> DecodeStep(input, end, f, k)]
  <2>2. \A k \in D : g[k] = DecodeStep(input, end, f, k)
    OBVIOUS
  <2>3. g = [k \in D |-> g[k]]
    OBVIOUS
  <2> HIDE DEF g
  <2>4. ASSUME NEW k \in D, k + (n + 1) >= end - 1
        PROVE  g[k] = DecodeStep(input, end, g, k)
    <3> DEFINE m == DecodeTurn(input, k).taken
    <3>1. m \in Nat /\ m >= 1
      BY DecodeTakes
    <3> HIDE DEF m
    <3>2. k + m \in D /\ (k + m) + n >= end - 1
      BY <2>4, <3>1
    <3>3. g[k + m] = f[k + m]
      BY <2>1, <2>2, <3>2
    <3>4. QED
      BY <2>2, <3>3 DEF DecodeStep, m
  <2>5. QED
    BY <2>3, <2>4
<1>3. Nat \subseteq S
  <2> HIDE DEF S
  <2>1. QED
    BY <1>1, <1>2, SetInduction
<1>4. end \in S
  BY <1>3
<1>5. PICK f : /\ f = [k \in D |-> f[k]]
               /\ \A k \in D : k + end >= end - 1
                     => f[k] = DecodeStep(input, end, f, k)
  BY <1>4
<1>6. \A k \in D : k + end >= end - 1
  OBVIOUS
<1>7. f = [k \in D |-> DecodeStep(input, end, f, k)]
  BY <1>5, <1>6
<1>8. Decoding(input, end, f)
  BY <1>7 DEF Decoding, DecodeStep
<1>9. QED
  BY <1>8 DEF DecodeFun

(* What is written from k on.                                              *)
DecodeFrom(input, end, k) == DecodeFun(input, end)[k]

LEMMA DecodeIs ==
    ASSUME NEW input, NEW end \in Nat
    PROVE  /\ DecodeString(input, end) = DecodeFrom(input, end, 2)
           /\ \A k \in Nat \ {0} :
                 DecodeFrom(input, end, k) =
                    IF k >= end - 1 THEN <<>>
                    ELSE DecodeTurn(input, k).text
                            \o DecodeFrom(input, end,
                                          k + DecodeTurn(input, k).taken)
<1>1. DecodeString(input, end) = DecodeFun(input, end)[2]
  BY DEF DecodeString, DecodeFun, Decoding
<1>2. Decoding(input, end, DecodeFun(input, end))
  BY DecodeExists
<1>3. ASSUME NEW k \in Nat \ {0}
      PROVE  DecodeFun(input, end)[k]
                = DecodeStep(input, end, DecodeFun(input, end), k)
  BY <1>2 DEF Decoding, DecodeStep
<1>4. QED
  BY <1>1, <1>3 DEF DecodeFrom, DecodeStep

-----------------------------------------------------------------------------
(* The two passes, turn by turn.                                           *)

LEMMA HexValueTyped == \A b : HexValue(b) \in Int /\ (b \in Byte => HexValue(b) <= 15)
BY ByteIs DEF HexValue

(* Four digits are a number of 16 bits.                                    *)
LEMMA ParseHex4Is ==
    ASSUME NEW input \in Seq(Byte), NEW k \in Nat \ {0},
           ParseHex4(input, k) # -1
    PROVE  /\ k + 3 <= Len(input) /\ ParseHex4(input, k) = Hex4(input, k)
           /\ Hex4(input, k) \in Int
           /\ Hex4(input, k) >= 0 /\ Hex4(input, k) <= 65535
<1>1. /\ k + 3 <= Len(input)
      /\ \A j \in k .. k + 3 : HexValue(input[j]) >= 0
      /\ ParseHex4(input, k) = Hex4(input, k)
  BY DEF ParseHex4
<1>2. Len(input) \in Nat /\ \A j \in 1 .. Len(input) : input[j] \in Byte
  BY BytesAre
<1>3. \A j \in k .. k + 3 :
         /\ HexValue(input[j]) \in Int /\ HexValue(input[j]) >= 0
         /\ HexValue(input[j]) <= 15
  <2>1. \A j \in k .. k + 3 : j \in 1 .. Len(input)
    BY <1>1, <1>2
  <2>2. QED
    BY <1>1, <1>2, <2>1, HexValueTyped
<1>4. /\ k \in k .. k + 3 /\ k + 1 \in k .. k + 3 /\ k + 2 \in k .. k + 3
      /\ k + 3 \in k .. k + 3
  OBVIOUS
<1> DEFINE a == HexValue(input[k])
           b == HexValue(input[k + 1])
           c == HexValue(input[k + 2])
           d == HexValue(input[k + 3])
<1>5. /\ a \in Int /\ b \in Int /\ c \in Int /\ d \in Int
      /\ a >= 0 /\ b >= 0 /\ c >= 0 /\ d >= 0
      /\ a <= 15 /\ b <= 15 /\ c <= 15 /\ d <= 15
  BY <1>3, <1>4
<1>6. Hex4(input, k) = 4096 * a + 256 * b + 16 * c + d
  BY DEF Hex4
<1> HIDE DEF a, b, c, d
<1>7. QED
  BY <1>1, <1>5, <1>6

(* What a turn takes and writes when the scan, at s, measured it.          *)
Reads(input, s, t) ==
    LET turn == DecodeTurn(input, s.cursor)
        u == IF input[s.cursor] = Backslash THEN Escaped(s) ELSE s
    IN /\ OneSequence(turn.text)
       /\ t = Measured(u, turn.taken, Len(turn.text), StringFlags(turn.text))
       /\ s.cursor + turn.taken <= Len(input) + 1
       /\ input[s.cursor] # Backslash =>
             turn.text = SubSeq(input, s.cursor, s.cursor + turn.taken - 1)

(* A surrogate pair or one code unit.                                      *)
LEMMA UnicodeReads ==
    ASSUME NEW input \in Seq(Byte), NEW s \in Scans, s.cursor \in 1 .. Len(input),
           input[s.cursor] = Backslash, input[s.cursor + 1] = 117,
           NEW t, t = ScanUnicode(input, Escaped(s))
    PROVE  \/ \E code \in Errors : t = Failed(Escaped(s), code)
           \/ Reads(input, s, t)
<1> DEFINE u == Escaped(s)
           k == s.cursor
           unit == ParseHex4(input, k + 2)
           low == ParseHex4(input, k + 8)
           pair == /\ k + 6 + 5 <= Len(input)
                   /\ input[k + 6] = Backslash
                   /\ input[k + 6 + 1] = 117
           turn == DecodeTurn(input, k)
<1>1. u.cursor = k /\ k \in Nat \ {0} /\ k + 6 + 2 = k + 8 /\ Len(input) \in Nat
  <2>1. Len(input) \in Nat
    BY BytesAre
  <2>2. k \in Nat \ {0} /\ k + 6 + 2 = k + 8
    BY <2>1
  <2>3. QED
    BY <2>1, <2>2, EscapedIs
<1>2. t = IF unit = -1 \/ Low(unit)
          THEN Failed(u, ParseInvalidUnicodeEscape)
          ELSE IF ~High(unit)
          THEN Measured(u, 6, Utf8Length(unit), MustEscape(unit))
          ELSE IF ~pair
          THEN Failed(u, ParseInvalidUnicodeEscape)
          ELSE IF ~Low(low)
          THEN Failed(u, ParseInvalidUnicodeEscape)
          ELSE Measured(u, 12, Utf8Length(Combine(unit, low)), FALSE)
  <2> HIDE DEF u
  <2>1. u.cursor + 2 = k + 2 /\ u.cursor + 6 = k + 6
    BY <1>1
  <2>2. QED
    BY <1>1, <2>1, ZenonT(30) DEF ScanUnicode, u
<1>3. turn = IF High(Hex4(input, k + 2))
             THEN [taken |-> 12, text |-> EncodeUtf8(Combine(Hex4(input, k + 2),
                                                             Hex4(input, k + 8)))]
             ELSE [taken |-> 6, text |-> EncodeUtf8(Hex4(input, k + 2))]
  BY DEF DecodeTurn, DecodeUnicode
<1>4. ParseInvalidUnicodeEscape \in Errors
  BY CodesAre
<1>5. unit # -1 => /\ k + 5 <= Len(input) /\ unit = Hex4(input, k + 2)
                   /\ unit \in Int /\ unit >= 0 /\ unit <= 65535
  <2>1. k + 2 \in Nat \ {0} /\ k + 2 + 3 = k + 5
    BY <1>1
  <2>2. QED
    BY <2>1, ParseHex4Is
<1>6. Low(low) => /\ k + 11 <= Len(input) /\ low = Hex4(input, k + 8)
                  /\ low \in Int
  <2>1. k + 8 \in Nat \ {0} /\ k + 8 + 3 = k + 11
    BY <1>1
  <2>2. Low(low) => low # -1
    BY DEF Low
  <2>3. QED
    BY <2>1, <2>2, ParseHex4Is
<1> HIDE DEF u, unit, low, pair, turn
<1>7. CASE unit = -1 \/ Low(unit)
  BY <1>2, <1>4, <1>7 DEF u
<1>8. CASE unit # -1 /\ ~Low(unit) /\ ~High(unit)
  <2>1. t = Measured(u, 6, Utf8Length(unit), MustEscape(unit))
    BY <1>2, <1>8
  <2>2. turn.taken = 6 /\ turn.text = EncodeUtf8(unit)
    BY <1>3, <1>5, <1>8
  <2>3. Scalar(unit)
    BY <1>5, <1>8 DEF Scalar
  <2>4. /\ OneSequence(EncodeUtf8(unit))
        /\ Len(EncodeUtf8(unit)) = Utf8Length(unit)
        /\ StringFlags(EncodeUtf8(unit)) = MustEscape(unit)
    BY <1>5, <1>8, <2>3, EncodingIsSequence
  <2>5. k + 6 <= Len(input) + 1
    BY <1>1, <1>5, <1>8
  <2>6. QED
    BY <2>1, <2>2, <2>4, <2>5 DEF Reads, u, turn
<1>9. CASE unit # -1 /\ ~Low(unit) /\ High(unit)
  <2>1. CASE pair /\ Low(low)
    <3> DEFINE c == Combine(unit, low)
    <3>1. t = Measured(u, 12, Utf8Length(c), FALSE)
      BY <1>2, <1>9, <2>1
    <3>2. turn.taken = 12 /\ turn.text = EncodeUtf8(c)
      BY <1>3, <1>5, <1>6, <1>9, <2>1
    <3>3. unit \in Int /\ low \in Int /\ High(unit) /\ Low(low)
      BY <1>5, <1>6, <1>9, <2>1
    <3>4. c \in Int /\ Scalar(c) /\ MustEscape(c) = FALSE
      BY <3>3, CombineIs
    <3> HIDE DEF c
    <3>5. /\ OneSequence(EncodeUtf8(c)) /\ Len(EncodeUtf8(c)) = Utf8Length(c)
          /\ StringFlags(EncodeUtf8(c)) = FALSE
      BY <3>4, EncodingIsSequence
    <3>6. k + 12 <= Len(input) + 1
      BY <1>1, <1>6, <2>1
    <3>7. QED
      BY <3>1, <3>2, <3>5, <3>6 DEF Reads, u, turn
  <2>2. CASE ~(pair /\ Low(low))
    BY <1>2, <1>4, <1>9, <2>2 DEF u
  <2>3. QED
    BY <2>1, <2>2
<1>10. QED
  BY <1>7, <1>8, <1>9

(* A letter after a backslash.                                             *)
LEMMA SimpleIs ==
    ASSUME NEW b \in DOMAIN Simple
    PROVE  /\ b # 117 /\ Simple[b] \in Int /\ Simple[b] >= 0 /\ Simple[b] < 128
           /\ MustEscape(Simple[b]) = (b # Slash)
BY DEF Simple, MustEscape, Slash, Quote, Backslash, FirstPrintable

LEMMA EscapeReads ==
    ASSUME NEW input \in Seq(Byte), NEW s \in Scans, s.cursor \in 1 .. Len(input),
           input[s.cursor] = Backslash,
           NEW t, t = ScanEscape(input, Escaped(s))
    PROVE  \/ \E code \in Errors : t = Failed(Escaped(s), code)
           \/ Reads(input, s, t)
<1> DEFINE u == Escaped(s)
           k == s.cursor
           b == input[k + 1]
           turn == DecodeTurn(input, k)
<1>1. u.cursor = k /\ k \in Nat \ {0} /\ Len(input) \in Nat
  <2>1. Len(input) \in Nat
    BY BytesAre
  <2>2. k \in Nat \ {0}
    BY <2>1
  <2>3. QED
    BY <2>1, <2>2, EscapedIs
<1>2. ParseUnexpectedEnd \in Errors /\ ParseInvalidEscape \in Errors
  BY CodesAre
<1>3. t = IF k = Len(input)
          THEN Failed(u, ParseUnexpectedEnd)
          ELSE IF b = 117
          THEN ScanUnicode(input, u)
          ELSE IF b \in DOMAIN Simple
          THEN Measured(u, 2, 1, b # Slash)
          ELSE Failed(u, ParseInvalidEscape)
  <2> HIDE DEF u
  <2>1. QED
    BY <1>1 DEF ScanEscape, u
<1>4. b # 117 => turn = [taken |-> 2, text |-> <<Simple[b]>>]
  BY DEF DecodeTurn
<1> HIDE DEF u, b, turn
<1>5. CASE k = Len(input) \/ (b # 117 /\ b \notin DOMAIN Simple)
  BY <1>2, <1>3, <1>5 DEF u
<1>6. CASE k # Len(input) /\ b = 117
  <2>1. t = ScanUnicode(input, u)
    BY <1>3, <1>6
  <2>2. QED
    BY <1>6, <2>1, UnicodeReads DEF b, u
<1>7. CASE k # Len(input) /\ b \in DOMAIN Simple
  <2>1. b # 117 /\ Simple[b] \in Int /\ Simple[b] >= 0 /\ Simple[b] < 128
        /\ MustEscape(Simple[b]) = (b # Slash)
    BY <1>7, SimpleIs
  <2> DEFINE c == Simple[b]
             flags == b # Slash
  <2>2. t = Measured(u, 2, 1, flags) /\ turn.taken = 2 /\ turn.text = <<c>>
    BY <1>3, <1>4, <1>7, <2>1
  <2>3. OneSequence(<<c>>) /\ Len(<<c>>) = 1 /\ StringFlags(<<c>>) = flags
    BY <2>1, OneByte
  <2> HIDE DEF c, flags
  <2>4. k + 2 <= Len(input) + 1
    BY <1>1, <1>7
  <2>5. QED
    BY <2>2, <2>3, <2>4 DEF Reads, u, turn
<1>8. QED
  BY <1>5, <1>6, <1>7

(* Bytes that stand for themselves.                                        *)
LEMMA PlainReads ==
    ASSUME NEW input \in Seq(Byte), NEW s \in Scans, s.cursor \in 1 .. Len(input),
           NEW n \in 1 .. 4, n = SequenceLength(input, s.cursor),
           ~MustEscape(input[s.cursor]),
           NEW t, t = Measured(s, n, n, FALSE)
    PROVE  Reads(input, s, t) /\ DecodeTurn(input, s.cursor).taken = n
<1> DEFINE k == s.cursor
           b == input[k]
           x == SubSeq(input, k, k + n - 1)
           turn == DecodeTurn(input, k)
<1>1. /\ Len(input) \in Nat /\ \A j \in 1 .. Len(input) : input[j] \in Byte
      /\ b \in Nat /\ b <= 255
  BY BytesAre
<1>2. k + n <= Len(input) + 1 /\ (b >= 128 => \A j \in 0 .. n - 1 : input[k + j] >= 128)
      /\ (n = 1 <=> b < 128)
  <2>1. k \in 1 .. Len(input) /\ n = SequenceLength(input, k) /\ n # 0
    OBVIOUS
  <2> HIDE DEF k
  <2>2. /\ k + n <= Len(input) + 1 /\ (n = 1 <=> input[k] < 128)
        /\ (input[k] >= 128 => \A j \in 0 .. n - 1 : input[k + j] >= 128)
    BY <2>1, SequenceBytes
  <2>3. QED
    BY <2>2
<1>3. b # Backslash
  BY DEF MustEscape
<1>4. UncheckedLength(b) = n
  <2>1. Announced(b) = n
    BY SequenceIs
  <2> HIDE DEF b
  <2>2. QED
    BY <1>1, <2>1 DEF Announced, FirstNonAscii, UncheckedLength
<1>5. turn.taken = n /\ turn.text = x
  BY <1>3, <1>4 DEF DecodeTurn
<1>6. x \in Seq(Byte) /\ Len(x) = n /\ \A j \in 1 .. n : x[j] = input[k + j - 1]
  <2>1. k \in Nat /\ k >= 1 /\ n \in Nat
    BY <1>1
  <2>2. QED
    BY <1>2, <2>1, PieceIs
<1> HIDE DEF x, turn
<1>7. \A m \in 0 .. n - 1 : input[k + m] = x[1 + m]
  <2>1. ASSUME NEW m \in 0 .. n - 1
        PROVE  1 + m \in 1 .. n /\ k + (1 + m) - 1 = k + m
    BY <1>1
  <2>2. QED
    BY <1>6, <2>1
<1>8. OneSequence(x)
  <2>1. n <= Len(x)
    BY <1>6
  <2>2. SequenceLength(x, 1) = n
    BY <1>6, <1>7, <2>1, SequenceAtFront
  <2>3. QED
    BY <1>6, <2>2 DEF OneSequence
<1>9. StringFlags(x) = FALSE
  <2>1. CASE n = 1
    <3>1. DOMAIN x = {1} /\ x[1] = b
      <4>1. DOMAIN x = 1 .. 1 /\ 1 \in 1 .. n /\ k + 1 - 1 = k
        BY <1>6, <2>1, LenProperties
      <4>2. QED
        BY <1>6, <4>1
    <3>2. QED
      BY <3>1 DEF StringFlags
  <2>2. CASE n # 1
    <3>1. \A j \in 1 .. Len(x) : x[j] >= 128
      <4>1. ASSUME NEW j \in 1 .. n PROVE x[j] >= 128
        <5>1. j - 1 \in 0 .. n - 1 /\ k + (j - 1) = k + j - 1 /\ b >= 128
          BY <1>1, <1>2, <2>2
        <5>2. QED
          BY <1>2, <1>6, <5>1
      <4>2. QED
        BY <1>6, <4>1
    <3>2. QED
      BY <1>6, <3>1, NoAscii
  <2>3. QED
    BY <2>1, <2>2
<1>10. QED
  BY <1>2, <1>3, <1>5, <1>6, <1>8, <1>9 DEF Reads, turn, x

(* The first pass takes them as one.                                       *)
LEMMA PlainTurn ==
    ASSUME NEW input \in Seq(Byte), NEW s \in Scans, s.cursor \in 1 .. Len(input),
           ~MustEscape(input[s.cursor])
    PROVE  LET n == SequenceLength(input, s.cursor)
           IN ScanTurn(input, s) =
                 IF n = 0 THEN Failed(s, ParseInvalidString)
                 ELSE Measured(s, n, n, FALSE)
<1> DEFINE b == input[s.cursor]
           n == SequenceLength(input, s.cursor)
<1>1. Len(input) \in Nat /\ b \in Nat /\ ~(s.cursor > Len(input))
  BY BytesAre
<1>2. b # Quote /\ b # Backslash /\ ~(b < FirstPrintable)
  BY DEF MustEscape
<1>3. b < FirstNonAscii => n = 1
  <2>1. b < FirstNonAscii => Announced(b) = 1
    BY DEF Announced
  <2>2. 1 <= Len(input) - s.cursor + 1 /\ 1 .. 1 - 1 = {}
    BY <1>1
  <2>3. QED
    BY <2>1, <2>2, SequenceIs
<1>4. CASE b < FirstNonAscii
  <2>1. ScanTurn(input, s) = Measured(s, 1, 1, FALSE)
    BY <1>1, <1>2, <1>4 DEF ScanTurn
  <2>2. n = 1
    BY <1>3, <1>4
  <2> HIDE DEF n
  <2>3. QED
    BY <2>1, <2>2 DEF n
<1>5. CASE ~(b < FirstNonAscii)
  <2>1. ScanTurn(input, s) = IF n = 0 THEN Failed(s, ParseInvalidString)
                             ELSE Measured(s, n, n, FALSE)
    BY <1>1, <1>2, <1>5 DEF ScanTurn
  <2>2. QED
    BY <2>1
<1>6. QED
  BY <1>4, <1>5

(* A turn of the scan ends it, fails, or measures what the second pass     *)
(* will do.                                                                *)
LEMMA TurnReads ==
    ASSUME NEW input \in Seq(Byte), NEW s \in Scans, s.cursor \in 1 .. Len(input),
           NEW t, t = ScanTurn(input, s)
    PROVE  \/ \E u \in {s, Escaped(s)}, code \in Errors : t = Failed(u, code)
           \/ input[s.cursor] = Quote /\ t = Ended(s)
           \/ Reads(input, s, t)
<1> DEFINE b == input[s.cursor]
           n == SequenceLength(input, s.cursor)
<1>1. Len(input) \in Nat /\ b \in Nat /\ n \in 0 .. 4 /\ ~(s.cursor > Len(input))
  BY BytesAre, SequenceLengthTyped
<1>2. ParseInvalidString \in Errors
  BY CodesAre
<1>3. b = Quote => t = Ended(s)
  BY <1>1 DEF ScanTurn, Ended
<1>4. b # Quote /\ b < FirstPrintable => t = Failed(s, ParseInvalidString)
  BY <1>1 DEF ScanTurn
<1>5. CASE b = Quote
  BY <1>3, <1>5
<1>6. CASE b # Quote /\ b < FirstPrintable
  BY <1>2, <1>4, <1>6
<1>7. CASE b # Quote /\ ~(b < FirstPrintable) /\ b = Backslash
  <2>1. t = ScanEscape(input, Escaped(s))
    BY <1>1, <1>7 DEF ScanTurn, Escaped
  <2>2. QED
    BY <1>7, <2>1, EscapeReads
<1>8. CASE b # Quote /\ ~(b < FirstPrintable) /\ b # Backslash
  <2>1. ~MustEscape(b)
    BY <1>8 DEF MustEscape
  <2>2. t = IF n = 0 THEN Failed(s, ParseInvalidString)
            ELSE Measured(s, n, n, FALSE)
    BY <2>1, PlainTurn
  <2>3. CASE n = 0
    BY <1>2, <2>2, <2>3
  <2>4. CASE n # 0
    <3>1. t = Measured(s, n, n, FALSE) /\ n \in 1 .. 4
      BY <1>1, <2>2, <2>4
    <3>2. QED
      BY <2>1, <3>1, PlainReads
  <2>5. QED
    BY <2>3, <2>4
<1>9. QED
  BY <1>5, <1>6, <1>7, <1>8

-----------------------------------------------------------------------------
(* What the first pass says of the second.                                 *)

LEMMA FlagsConcat ==
    ASSUME NEW a \in Seq(Byte), NEW b \in Seq(Byte)
    PROVE  StringFlags(a \o b) = (StringFlags(a) \/ StringFlags(b))
<1> DEFINE c == a \o b
<1>1. /\ c \in Seq(Byte) /\ Len(c) = Len(a) + Len(b)
      /\ Len(a) \in Nat /\ Len(b) \in Nat
      /\ \A k \in 1 .. Len(a) : c[k] = a[k]
      /\ \A k \in 1 .. Len(b) : c[Len(a) + k] = b[k]
  BY Concat
<1>2. /\ DOMAIN a = 1 .. Len(a) /\ DOMAIN b = 1 .. Len(b)
      /\ DOMAIN c = 1 .. Len(c)
  BY <1>1, BytesAre
<1> HIDE DEF c
<1>3. ASSUME NEW k \in DOMAIN c, MustEscape(c[k])
      PROVE  \/ \E j \in DOMAIN a : MustEscape(a[j])
             \/ \E j \in DOMAIN b : MustEscape(b[j])
  <2>1. CASE k \in 1 .. Len(a)
    BY <1>1, <1>2, <1>3, <2>1
  <2>2. CASE k \notin 1 .. Len(a)
    <3>1. k - Len(a) \in 1 .. Len(b) /\ Len(a) + (k - Len(a)) = k
      BY <1>1, <1>2, <2>2
    <3>2. c[k] = b[k - Len(a)]
      BY <1>1, <3>1
    <3>3. QED
      BY <1>2, <1>3, <3>1, <3>2
  <2>3. QED
    BY <2>1, <2>2
<1>4. ASSUME NEW j \in DOMAIN a, MustEscape(a[j])
      PROVE  \E k \in DOMAIN c : MustEscape(c[k])
  <2>1. j \in DOMAIN c /\ c[j] = a[j]
    BY <1>1, <1>2
  <2>2. QED
    BY <1>4, <2>1
<1>5. ASSUME NEW j \in DOMAIN b, MustEscape(b[j])
      PROVE  \E k \in DOMAIN c : MustEscape(c[k])
  <2>1. Len(a) + j \in DOMAIN c /\ c[Len(a) + j] = b[j]
    BY <1>1, <1>2
  <2>2. QED
    BY <1>5, <2>1
<1>6. QED
  BY <1>3, <1>4, <1>5 DEF StringFlags, c

LEMMA FlagsEmpty == StringFlags(<<>>) = FALSE
<1>1. DOMAIN <<>> = {}
  OBVIOUS
<1>2. QED
  BY <1>1 DEF StringFlags

(* One turn of either pass.                                                *)
LEMMA ScanStops ==
    ASSUME NEW input \in Seq(Byte), NEW t \in Scans, t.code # Running
    PROVE  ScanFrom(input, t) = t
<1>1. Len(input) \in Nat
  BY BytesAre
<1>2. QED
  BY <1>1, ScanIs

LEMMA ScanGoesOn ==
    ASSUME NEW input \in Seq(Byte), NEW s \in Scans, s.code = Running
    PROVE  ScanFrom(input, s) = ScanFrom(input, ScanTurn(input, s))
<1>1. Len(input) \in Nat
  BY BytesAre
<1>2. QED
  BY <1>1, ScanIs

(* What a scan is that has taken a text.                                   *)
Advanced(u, s, taken, text) ==
    /\ u \in Scans /\ u.cursor = s.cursor + taken
    /\ u.length = s.length + Len(text) /\ u.hasEscape = s.hasEscape
    /\ u.flags = (s.flags \/ StringFlags(text))
    /\ u.code = IF s.length + Len(text) > MaxLength
               THEN StringCapacityExceeded ELSE Running

LEMMA MeasuredAdvances ==
    ASSUME NEW s \in Scans, NEW taken \in Nat, NEW text, Len(text) \in Nat
    PROVE  Advanced(Measured(s, taken, Len(text), StringFlags(text)),
                    s, taken, text)
<1> DEFINE on == s.cursor + taken
           sum == s.length + Len(text)
           either == s.flags \/ StringFlags(text)
           code == IF sum > MaxLength THEN StringCapacityExceeded ELSE Running
<1>1. s.cursor \in Nat /\ s.length \in Nat
  BY DEF Scans
<1>2. on \in Nat /\ sum \in Nat /\ either \in BOOLEAN /\ code \in ScanCodes
  BY <1>1, CodesAre DEF StringFlags
<1> DEFINE u == [s EXCEPT !.cursor = on, !.length = sum, !.flags = either,
                          !.code = code]
<1>3. Measured(s, taken, Len(text), StringFlags(text)) = u
  BY DEF Measured
<1> HIDE DEF on, sum, either, code
<1>4. u \in Scans
  BY <1>2 DEF Scans
<1>5. /\ u.cursor = on /\ u.length = sum /\ u.hasEscape = s.hasEscape
      /\ u.flags = either /\ u.code = code
  BY DEF Scans
<1> HIDE DEF u
<1>6. Advanced(u, s, taken, text)
  BY <1>4, <1>5 DEF Advanced, on, sum, either, code
<1>7. QED
  BY <1>3, <1>6

LEMMA DecodeGoesOn ==
    ASSUME NEW input, NEW end \in Nat, NEW k \in Nat \ {0}, ~(k >= end - 1)
    PROVE  DecodeFrom(input, end, k)
              = DecodeTurn(input, k).text
                   \o DecodeFrom(input, end, k + DecodeTurn(input, k).taken)
BY DecodeIs

(* r is how a scan ends that is at s, and d what is decoded from there.    *)
Foretold(input, s, r, d) ==
    /\ r.cursor > s.cursor /\ r.cursor <= Len(input) + 1
    /\ d \in Seq(Byte) /\ r.length = s.length + Len(d)
    /\ r.length <= MaxLength
    /\ r.flags = (s.flags \/ StringFlags(d))
    /\ ValidUtf8(d)
    /\ ~r.hasEscape =>
          ~s.hasEscape /\ d = SubSeq(input, s.cursor, r.cursor - 2)

(* At the closing quote.                                                   *)
LEMMA ForetoldAtEnd ==
    ASSUME NEW input \in Seq(Byte), NEW s \in Scans, s.cursor \in 1 .. Len(input),
           s.length <= MaxLength,
           NEW r, r = Ended(s), NEW d, d = DecodeFrom(input, r.cursor, s.cursor)
    PROVE  Foretold(input, s, r, d)
<1> DEFINE k == s.cursor
<1>1. /\ r \in Scans /\ r.cursor = k + 1 /\ r.length = s.length
      /\ r.hasEscape = s.hasEscape /\ r.flags = s.flags
  BY EndedIs
<1>2. Len(input) \in Nat /\ k \in Nat \ {0} /\ s.length \in Nat
      /\ s.flags \in BOOLEAN
  BY BytesAre DEF Scans
<1>3. d = <<>>
  <2>1. r.cursor \in Nat /\ k >= r.cursor - 1
    BY <1>1, <1>2
  <2> HIDE DEF k
  <2>2. QED
    BY <1>2, <2>1, DecodeIs DEF k
<1>4. d \in Seq(Byte) /\ Len(d) = 0
  BY <1>3
<1>5. StringFlags(d) = FALSE /\ ValidUtf8(d) = TRUE
  BY <1>3, FlagsEmpty, ValidEmpty
<1>6. d = SubSeq(input, k, r.cursor - 2)
  <2>1. k \in Int /\ r.cursor - 2 \in Int /\ r.cursor - 2 = k - 1
    BY <1>1, <1>2
  <2>2. SubSeq(input, k, k - 1) = <<>>
    BY <1>2
  <2>3. QED
    BY <1>3, <2>1, <2>2
<1>7. r.length = s.length + Len(d) /\ r.cursor > k /\ r.cursor <= Len(input) + 1
  BY <1>1, <1>2, <1>4
<1> HIDE DEF k
<1>8. QED
  BY <1>1, <1>2, <1>4, <1>5, <1>6, <1>7 DEF Foretold, k

(* Before it.                                                              *)
LEMMA ForetoldBefore ==
    ASSUME NEW input \in Seq(Byte), NEW s \in Scans, s.cursor \in 1 .. Len(input),
           NEW t, Reads(input, s, t), NEW r \in Scans, NEW e,
           e = DecodeFrom(input, r.cursor, t.cursor), Foretold(input, t, r, e),
           NEW d, d = DecodeFrom(input, r.cursor, s.cursor)
    PROVE  Foretold(input, s, r, d)
<1> DEFINE k == s.cursor
           turn == DecodeTurn(input, k)
           n == turn.taken
           x == turn.text
           escape == input[k] = Backslash
<1>1. /\ OneSequence(x) /\ k + n <= Len(input) + 1
      /\ ~escape => x = SubSeq(input, k, k + n - 1)
      /\ t = Measured(IF escape THEN Escaped(s) ELSE s, n, Len(x), StringFlags(x))
  BY DEF Reads
<1>2. n \in Nat /\ n >= 1
  BY DecodeTakes
<1>3. x \in Seq(Byte) /\ Len(x) \in Nat /\ StringFlags(x) \in BOOLEAN
  <2>1. x \in Seq(Byte) /\ Len(x) \in Nat
    BY <1>1 DEF OneSequence
  <2>2. StringFlags(x) \in BOOLEAN
    BY DEF StringFlags
  <2>3. QED
    BY <2>1, <2>2
<1> HIDE DEF turn, n, x, escape
<1>4. /\ t \in Scans /\ t.cursor = k + n /\ t.length = s.length + Len(x)
      /\ t.flags = (s.flags \/ StringFlags(x))
      /\ escape => t.hasEscape = TRUE
      /\ ~escape => t.hasEscape = s.hasEscape
  <2> DEFINE v == IF escape THEN Escaped(s) ELSE s
  <2>1. /\ v \in Scans /\ v.cursor = k /\ v.length = s.length
        /\ v.flags = s.flags
        /\ escape => v.hasEscape = TRUE
        /\ ~escape => v.hasEscape = s.hasEscape
    BY EscapedIs
  <2>2. t = Measured(v, n, Len(x), StringFlags(x))
    BY <1>1
  <2> HIDE DEF k, v
  <2>3. Advanced(t, v, n, x)
    BY <1>2, <1>3, <2>1, <2>2, MeasuredAdvances
  <2>4. QED
    BY <2>1, <2>3 DEF Advanced
<1>5. Len(input) \in Nat /\ k \in Nat \ {0} /\ s.length \in Nat /\ k + n \in Nat
      /\ s.flags \in BOOLEAN /\ s.hasEscape \in BOOLEAN
      /\ r.cursor \in Nat
  BY <1>2, BytesAre DEF Scans
<1>6. /\ r.cursor > k + n /\ r.cursor <= Len(input) + 1
      /\ e \in Seq(Byte) /\ r.length = t.length + Len(e) /\ Len(e) \in Nat
      /\ r.length <= MaxLength
      /\ r.flags = (t.flags \/ StringFlags(e))
      /\ ValidUtf8(e)
      /\ ~r.hasEscape => ~t.hasEscape /\ e = SubSeq(input, k + n, r.cursor - 2)
  BY <1>4, BytesAre DEF Foretold
<1>7. d = x \o e
  <2>1. ~(k >= r.cursor - 1)
    BY <1>2, <1>5, <1>6
  <2>2. k \in Nat \ {0}
    BY <1>5
  <2> DEFINE end == r.cursor
  <2>3. end \in Nat /\ ~(k >= end - 1) /\ turn = DecodeTurn(input, k)
    BY <1>5, <2>1 DEF turn
  <2>4. d = DecodeFrom(input, end, k) /\ e = DecodeFrom(input, end, k + n)
    BY <1>4
  <2> HIDE DEF k, end
  <2>5. DecodeFrom(input, end, k) = x \o DecodeFrom(input, end, k + n)
    <3>1. DecodeFrom(input, end, k)
             = DecodeTurn(input, k).text
                  \o DecodeFrom(input, end, k + DecodeTurn(input, k).taken)
      BY <2>2, <2>3, DecodeGoesOn
    <3>2. n = DecodeTurn(input, k).taken /\ x = DecodeTurn(input, k).text
      BY <2>3 DEF n, x
    <3>3. QED
      BY <3>1, <3>2, Zenon
  <2>6. QED
    BY <2>4, <2>5
<1>8. d \in Seq(Byte) /\ Len(d) = Len(x) + Len(e)
  BY <1>3, <1>6, <1>7, Concat
<1>9. StringFlags(d) = (StringFlags(x) \/ StringFlags(e))
  BY <1>3, <1>6, <1>7, FlagsConcat
<1>10. ValidUtf8(d)
  BY <1>1, <1>6, <1>7, ValidFront
<1>11. ASSUME ~r.hasEscape
       PROVE  ~s.hasEscape /\ d = SubSeq(input, k, r.cursor - 2)
  <2>1. ~t.hasEscape /\ e = SubSeq(input, k + n, r.cursor - 2)
    BY <1>6, <1>11
  <2>2. ~escape /\ ~s.hasEscape
    BY <1>4, <2>1
  <2>3. x = SubSeq(input, k, k + n - 1)
    BY <1>1, <2>2
  <2>4. /\ k \in 1 .. Len(input) + 1 /\ k + n - 1 \in k - 1 .. Len(input)
        /\ r.cursor - 2 \in k + n - 1 .. Len(input)
        /\ (k + n - 1) + 1 = k + n
    <3> DEFINE end == r.cursor
               m == Len(input)
    <3>1. /\ n \in Nat /\ n >= 1 /\ m \in Nat /\ k \in Nat \ {0} /\ end \in Nat
          /\ k + n <= m + 1 /\ end > k + n /\ end <= m + 1
      BY <1>1, <1>2, <1>5, <1>6
    <3> HIDE DEF end, m, k
    <3>2. k \in 1 .. m + 1 /\ k + n - 1 \in k - 1 .. m /\ (k + n - 1) + 1 = k + n
      BY <3>1
    <3>3. end - 2 \in k + n - 1 .. m
      BY <3>1
    <3>4. QED
      BY <3>2, <3>3 DEF end, m
  <2>5. SubSeq(input, k, k + n - 1) \o SubSeq(input, (k + n - 1) + 1, r.cursor - 2)
           = SubSeq(input, k, r.cursor - 2)
    BY <2>4, ConcatAdjacentSubSeq
  <2>6. QED
    BY <1>7, <2>1, <2>2, <2>3, <2>4, <2>5
<1>12. r.length = s.length + Len(d)
  BY <1>3, <1>4, <1>5, <1>6, <1>8
<1>13. r.flags = (s.flags \/ StringFlags(d))
  BY <1>4, <1>6, <1>9
<1>14. r.cursor > k
  BY <1>2, <1>5, <1>6
<1> HIDE DEF k
<1>15. QED
  BY <1>6, <1>8, <1>10, <1>11, <1>12, <1>13, <1>14 DEF Foretold, k

(* A scan that is at s and succeeds foretells the second pass.             *)
Telling(input, s) ==
    LET r == ScanFrom(input, s)
    IN /\ r \in Scans
       /\ r.code = Ok =>
             Foretold(input, s, r, DecodeFrom(input, r.cursor, s.cursor))

LEMMA ScanTells ==
    ASSUME NEW input \in Seq(Byte), NEW s \in Scans, s.cursor >= 1, s.code = Running,
           s.length <= MaxLength
    PROVE  Telling(input, s)
<1> DEFINE m == Len(input)
           Open == {u \in Scans : u.code = Running /\ u.length <= MaxLength}
           S == {k \in 1 .. m : \A u \in Open : u.cursor = k => Telling(input, u)}
<1>1. m \in Nat /\ \A u \in Scans : u.cursor \in Nat
  BY BytesAre DEF Scans
<1>2. ASSUME NEW u \in Scans, u.code = Running, ~(u.cursor <= m)
      PROVE  Telling(input, u)
  <2> DEFINE t == ScanTurn(input, u)
  <2>1. t = Failed(u, ParseUnexpectedEnd)
    BY <1>1, <1>2, TurnBehind
  <2>2. t \in Scans /\ t.code = ParseUnexpectedEnd
    BY <2>1, FailedIs, CodesAre
  <2> HIDE DEF t
  <2>3. ScanFrom(input, u) = t
    <3>1. ScanFrom(input, u) = ScanFrom(input, t)
      BY <1>2, ScanGoesOn DEF t
    <3>2. t.code # Running
      BY <2>2, CodesAre
    <3>3. QED
      BY <2>2, <3>1, <3>2, ScanStops
  <2>4. QED
    BY <2>2, <2>3, CodesAre DEF Telling
<1>3. ASSUME NEW k \in 1 .. m, \A j \in k + 1 .. m : j \in S
      PROVE  k \in S
  <2> SUFFICES ASSUME NEW u \in Scans, u.code = Running, u.length <= MaxLength,
                      u.cursor = k
               PROVE  Telling(input, u)
    OBVIOUS
  <2> DEFINE t == ScanTurn(input, u)
             r == ScanFrom(input, u)
  <2>1. u.cursor \in 1 .. m
    OBVIOUS
  <2>2. r = ScanFrom(input, t)
    BY <1>1, ScanIs
  <2>3. \/ \E v \in {u, Escaped(u)}, code \in Errors : t = Failed(v, code)
        \/ input[u.cursor] = Quote /\ t = Ended(u)
        \/ Reads(input, u, t)
    BY <2>1, TurnReads
  <2> HIDE DEF t, r, S, m
  <2>4. ASSUME NEW v \in {u, Escaped(u)}, NEW code \in Errors, t = Failed(v, code)
        PROVE  Telling(input, u)
    <3>1. v \in Scans /\ code \in ScanCodes /\ code # Running /\ code # Ok
      BY EscapedIs, CodesAre
    <3>2. t \in Scans /\ t.code = code
      BY <2>4, <3>1, FailedIs
    <3>3. r = t
      BY <1>1, <2>2, <3>1, <3>2, ScanIs DEF m
    <3>4. QED
      BY <3>1, <3>2, <3>3 DEF Telling, r
  <2>5. CASE t = Ended(u)
    <3>1. t \in Scans /\ t.code # Running
      BY <2>5, EndedIs, CodesAre
    <3>2. r = t
      BY <1>1, <2>2, <3>1, ScanIs DEF m
    <3>3. Foretold(input, u, r, DecodeFrom(input, r.cursor, u.cursor))
      BY <2>1, <2>5, <3>2, ForetoldAtEnd DEF m
    <3>4. QED
      BY <3>1, <3>2, <3>3 DEF Telling, r
  <2>6. CASE Reads(input, u, t)
    <3> DEFINE turn == DecodeTurn(input, u.cursor)
               v == IF input[u.cursor] = Backslash THEN Escaped(u) ELSE u
    <3>1. /\ t = Measured(v, turn.taken, Len(turn.text), StringFlags(turn.text))
          /\ OneSequence(turn.text)
      BY <2>6 DEF Reads
    <3>2. v \in Scans /\ v.cursor = k /\ v.length = u.length
      BY EscapedIs
    <3>3. turn.taken \in Nat /\ turn.taken >= 1 /\ Len(turn.text) \in Nat
          /\ StringFlags(turn.text) \in BOOLEAN
      BY <3>1, DecodeTakes DEF OneSequence, StringFlags
    <3>4. /\ t \in Scans /\ t.cursor = k + turn.taken
          /\ t.length = u.length + Len(turn.text)
          /\ t.code = IF t.length > MaxLength
                      THEN StringCapacityExceeded ELSE Running
      <4> DEFINE n == turn.taken
                 x == turn.text
      <4>1. t = Measured(v, n, Len(x), StringFlags(x)) /\ n \in Nat /\ Len(x) \in Nat
        BY <3>1, <3>3
      <4> HIDE DEF n, x, turn, v
      <4>2. Advanced(t, v, n, x)
        BY <3>2, <4>1, MeasuredAdvances
      <4>3. QED
        BY <3>2, <4>2 DEF Advanced, n, x
    <3> HIDE DEF turn, v
    <3>5. CASE t.length > MaxLength
      <4>1. t.code # Running /\ t.code # Ok
        BY <3>4, <3>5, CodesAre
      <4>2. r = t
        BY <1>1, <2>2, <3>4, <4>1, ScanIs DEF m
      <4>3. QED
        BY <3>4, <4>1, <4>2 DEF Telling, r
    <3>6. CASE ~(t.length > MaxLength)
      <4>1. t.code = Running /\ t.length <= MaxLength
        <5>1. t.length \in Nat
          BY <3>4 DEF Scans
        <5>2. QED
          BY <3>4, <3>6, <5>1, MaxLengthAssumption
      <4>2. Telling(input, t)
        <5>1. CASE t.cursor <= m
          <6>1. t.cursor \in k + 1 .. m
            BY <1>1, <3>3, <3>4, <5>1
          <6>2. t.cursor \in S
            BY <1>3, <6>1
          <6>3. QED
            BY <3>4, <4>1, <6>2 DEF S
        <5>2. CASE ~(t.cursor <= m)
          BY <1>2, <3>4, <4>1, <5>2
        <5>3. QED
          BY <5>1, <5>2
      <4>3. r \in Scans /\ (r.code = Ok => Foretold(input, t, r,
                               DecodeFrom(input, r.cursor, t.cursor)))
        BY <2>2, <4>2 DEF Telling
      <4>4. r.code = Ok => Foretold(input, u, r,
                                DecodeFrom(input, r.cursor, u.cursor))
        BY <2>1, <2>6, <4>3, ForetoldBefore DEF m
      <4>5. QED
        BY <4>3, <4>4 DEF Telling, r
    <3>7. QED
      BY <3>5, <3>6
  <2>7. QED
    BY <2>3, <2>4, <2>5, <2>6
<1>4. 1 .. m \subseteq S
  <2> HIDE DEF S, m
  <2>1. QED
    BY <1>1, <1>3, BackwardInduction
<1>5. CASE s.cursor <= m
  <2>1. s.cursor \in S /\ s \in Open
    BY <1>1, <1>4, <1>5
  <2>2. QED
    BY <2>1
<1>6. CASE ~(s.cursor <= m)
  BY <1>2, <1>6
<1>7. QED
  BY <1>5, <1>6

(* What is stored is what the second pass writes, whether it ran or not.   *)
LEMMA StringTells ==
    ASSUME NEW input \in Seq(Byte), ScanString(input).code = Ok
    PROVE  LET r == ScanString(input)
               d == ParseString(input)
           IN /\ d = DecodeString(input, r.cursor)
              /\ r \in Scans /\ r.cursor <= Len(input) + 1
              /\ d \in Seq(Byte) /\ Len(d) = r.length /\ r.length <= MaxLength
              /\ r.flags = StringFlags(d) /\ ValidUtf8(d)
<1> DEFINE r == ScanString(input)
           d == DecodeFrom(input, r.cursor, 2)
<1>1. Len(input) \in Nat
  BY BytesAre
<1>2. r = ScanFrom(input, Start) /\ Start \in Scans
  BY <1>1, ScanIs
<1>3. /\ Start.cursor = 2 /\ Start.code = Running /\ Start.length = 0
      /\ Start.flags = FALSE /\ Start.hasEscape = FALSE /\ MaxLength >= 0
  BY MaxLengthAssumption DEF Start
<1>4. Telling(input, Start)
  BY <1>2, <1>3, ScanTells
<1>5. r.code = Ok
  OBVIOUS
<1> HIDE DEF r
<1>6. r \in Scans /\ Foretold(input, Start, r, d)
  BY <1>2, <1>3, <1>4, <1>5 DEF Telling
<1>7. r.cursor \in Nat /\ r.length \in Nat /\ r.flags \in BOOLEAN
      /\ r.hasEscape \in BOOLEAN
  BY <1>6 DEF Scans
<1>8. d = DecodeString(input, r.cursor)
  BY <1>7, DecodeIs
<1> HIDE DEF d
<1>9. /\ r.cursor <= Len(input) + 1 /\ d \in Seq(Byte) /\ Len(d) \in Nat
      /\ r.length = 0 + Len(d) /\ r.length <= MaxLength
      /\ r.flags = (FALSE \/ StringFlags(d)) /\ ValidUtf8(d)
      /\ ~r.hasEscape => d = SubSeq(input, 2, r.cursor - 2)
  BY <1>3, <1>6, BytesAre DEF Foretold
<1>10. ParseString(input) = d
  BY <1>8, <1>9 DEF ParseString, r
<1>11. r.length = Len(d) /\ r.flags = StringFlags(d)
  <2>1. StringFlags(d) \in BOOLEAN
    BY DEF StringFlags
  <2>2. QED
    BY <1>7, <1>9, <2>1
<1>12. QED
  BY <1>6, <1>8, <1>9, <1>10, <1>11 DEF r

-----------------------------------------------------------------------------
(* A text between quotes.                                                  *)

LEMMA QuotedIs ==
    ASSUME NEW text \in Seq(Byte)
    PROVE  LET input == Quoted(text)
           IN /\ input \in Seq(Byte) /\ Len(input) = Len(text) + 2
              /\ Len(text) \in Nat /\ Len(input) \in Nat
              /\ input[1] = Quote /\ input[Len(text) + 2] = Quote
              /\ \A k \in 1 .. Len(text) : input[k + 1] = text[k]
              /\ input = <<Quote>> \o text \o <<Quote>>
<1> DEFINE q == <<Quote>>
           front == q \o text
           input == Append(front, Quote)
<1>1. q \in Seq(Byte) /\ Len(q) = 1 /\ q[1] = Quote /\ Quote \in Byte
  BY ByteIs DEF Quote
<1>2. /\ front \in Seq(Byte) /\ Len(front) = 1 + Len(text)
      /\ Len(front) \in Nat /\ Len(text) \in Nat
      /\ front[1] = Quote
      /\ \A k \in 1 .. Len(text) : front[1 + k] = text[k]
  <2> HIDE DEF q
  <2>0. q \in Seq(Byte)
    BY <1>1
  <2>1. /\ front \in Seq(Byte) /\ Len(front) = Len(q) + Len(text)
        /\ Len(front) \in Nat /\ Len(text) \in Nat
        /\ \A k \in 1 .. Len(q) : front[k] = q[k]
        /\ \A k \in 1 .. Len(text) : front[Len(q) + k] = text[k]
    BY <2>0, Concat
  <2> HIDE DEF front
  <2>2. front[1] = Quote
    BY <1>1, <2>1
  <2>3. QED
    BY <1>1, <2>1, <2>2
<1> HIDE DEF q, front
<1>3. /\ input \in Seq(Byte) /\ Len(input) = Len(front) + 1
      /\ input[Len(front) + 1] = Quote
      /\ \A k \in 1 .. Len(front) : input[k] = front[k]
  BY <1>1, <1>2, AppendProperties
<1>4. input = front \o q
  BY <1>1, <1>2, AppendIsConcat DEF q
<1> HIDE DEF input
<1>5. input[1] = Quote
  <2>1. 1 \in 1 .. Len(front)
    BY <1>2
  <2>2. QED
    BY <1>2, <1>3, <2>1
<1>6. ASSUME NEW k \in 1 .. Len(text) PROVE input[k + 1] = text[k]
  <2>1. k + 1 \in 1 .. Len(front) /\ k + 1 = 1 + k
    BY <1>2
  <2>2. QED
    BY <1>2, <1>3, <2>1
<1>7. Len(front) + 1 = Len(text) + 2
  BY <1>2
<1>8. Quoted(text) = input
  BY DEF Quoted, input, front, q
<1>9. input = <<Quote>> \o text \o <<Quote>>
  BY <1>4 DEF q, front
<1>10. QED
  BY <1>2, <1>3, <1>5, <1>6, <1>7, <1>8, <1>9

(* The closing quote is part of no sequence.                               *)
LEMMA QuotedSequence ==
    ASSUME NEW text \in Seq(Byte), NEW k \in 1 .. Len(text)
    PROVE  SequenceLength(Quoted(text), k + 1) = SequenceLength(text, k)
<1> DEFINE input == Quoted(text)
           n == SequenceLength(text, k)
           m == SequenceLength(input, k + 1)
<1>1. /\ input \in Seq(Byte) /\ Len(input) = Len(text) + 2
      /\ Len(text) \in Nat /\ Len(input) \in Nat
      /\ input[Len(text) + 2] = Quote
      /\ \A j \in 1 .. Len(text) : input[j + 1] = text[j]
  BY QuotedIs
<1>2. k + 1 \in 1 .. Len(input) /\ n \in 0 .. 4 /\ m \in 0 .. 4
  BY <1>1, SequenceLengthTyped
<1> HIDE DEF input
<1>3. CASE n # 0
  <2>1. n \in 1 .. 4 /\ k + n <= Len(text) + 1
    BY <1>3, SequenceBytes
  <2>2. ASSUME NEW j \in 0 .. n - 1 PROVE text[k + j] = input[(k + 1) + j]
    <3>1. k + j \in 1 .. Len(text) /\ (k + j) + 1 = (k + 1) + j
      BY <1>1, <2>1
    <3>2. QED
      BY <1>1, <3>1
  <2>3. n <= Len(input) - (k + 1) + 1
    BY <1>1, <2>1
  <2> DEFINE i == k + 1
  <2>4. i \in 1 .. Len(input) /\ n = SequenceLength(text, k)
        /\ m = SequenceLength(input, i)
    BY <1>2
  <2> HIDE DEF n, m, i
  <2>5. n <= Len(input) - i + 1 /\ \A j \in 0 .. n - 1 : text[k + j] = input[i + j]
    BY <2>2, <2>3 DEF i
  <2>6. SequenceLength(input, i) = n
    BY <1>1, <2>1, <2>4, <2>5, SequenceElsewhere
  <2>7. m = n
    BY <2>4, <2>6
  <2>8. QED
    BY <2>7 DEF n, m, input
<1>4. CASE m # 0
  <2>1. m \in 1 .. 4 /\ (k + 1) + m <= Len(input) + 1
        /\ \A j \in 1 .. m - 1 : Continues(input[(k + 1) + j])
    <3>1. m \in 1 .. 4
      BY <1>2, <1>4
    <3>2. (k + 1) + m <= Len(input) + 1
      BY <1>1, <1>2, <1>4, SequenceBytes
    <3>3. \A j \in 1 .. m - 1 : Continues(input[(k + 1) + j])
      <4> HIDE DEF m
      <4>1. QED
        BY <3>1, SequenceIs DEF m
    <3>4. QED
      BY <3>1, <3>2, <3>3
  <2>2. ~Continues(input[Len(text) + 2])
    BY <1>1 DEF Continues, Quote
  <2> HIDE DEF n, m
  <2>3. k + m <= Len(text) + 1
    <3> SUFFICES ASSUME ~(k + m <= Len(text) + 1) PROVE FALSE
      OBVIOUS
    <3> DEFINE j == Len(text) + 1 - k
    <3>1. j \in 1 .. m - 1 /\ (k + 1) + j = Len(text) + 2
      BY <1>1, <2>1
    <3>2. QED
      BY <2>1, <2>2, <3>1
  <2>4. ASSUME NEW j \in 0 .. m - 1 PROVE input[(k + 1) + j] = text[k + j]
    <3>1. k + j \in 1 .. Len(text) /\ (k + j) + 1 = (k + 1) + j
      BY <1>1, <2>1, <2>3
    <3>2. QED
      BY <1>1, <3>1
  <2>5. m <= Len(text) - k + 1
    BY <1>1, <2>1, <2>3
  <2> DEFINE i == k + 1
  <2>6. i \in 1 .. Len(input) /\ n = SequenceLength(text, k)
        /\ m = SequenceLength(input, i)
    BY <1>2 DEF n, m
  <2> HIDE DEF i
  <2>7. \A j \in 0 .. m - 1 : input[i + j] = text[k + j]
    BY <2>4 DEF i
  <2>8. SequenceLength(text, k) = m
    BY <1>1, <2>1, <2>5, <2>6, <2>7, SequenceElsewhere
  <2>9. n = m
    BY <2>6, <2>8
  <2>10. QED
    BY <2>9 DEF n, m, input
<1>5. QED
  BY <1>2, <1>3, <1>4 DEF input

(* Nothing in the text is a quote, a backslash or a control character:     *)
(* the scan goes from sequence to sequence.                                *)
LEMMA QuotedTurn ==
    ASSUME NEW text \in Seq(Byte), NEW k \in 1 .. Len(text),
           ~MustEscape(text[k]), NEW s \in Scans, s.cursor = k + 1
    PROVE  LET n == SequenceLength(text, k)
           IN ScanTurn(Quoted(text), s) =
                 IF n = 0 THEN Failed(s, ParseInvalidString)
                 ELSE Measured(s, n, n, FALSE)
<1> DEFINE input == Quoted(text)
<1>1. /\ input \in Seq(Byte) /\ input[k + 1] = text[k] /\ Len(text) \in Nat
      /\ Len(input) = Len(text) + 2
  BY QuotedIs
<1>2. SequenceLength(input, k + 1) = SequenceLength(text, k)
  BY QuotedSequence
<1>3. s.cursor \in 1 .. Len(input) /\ ~MustEscape(input[s.cursor])
  BY <1>1
<1> HIDE DEF input
<1>4. QED
  BY <1>1, <1>2, <1>3, PlainTurn DEF input

LEMMA MeasuredPlain ==
    ASSUME NEW s \in Scans, NEW n \in Nat
    PROVE  LET t == Measured(s, n, n, FALSE)
           IN /\ t \in Scans
              /\ t.cursor = s.cursor + n /\ t.length = s.length + n
              /\ t.hasEscape = s.hasEscape /\ t.flags = s.flags
              /\ t.code = IF s.length + n > MaxLength
                          THEN StringCapacityExceeded ELSE Running
<1> DEFINE on == s.cursor + n
           sum == s.length + n
           either == s.flags \/ FALSE
           code == IF sum > MaxLength THEN StringCapacityExceeded ELSE Running
<1>1. s.cursor \in Nat /\ s.length \in Nat /\ s.flags \in BOOLEAN
  BY DEF Scans
<1>2. on \in Nat /\ sum \in Nat /\ either \in BOOLEAN /\ code \in ScanCodes
      /\ either = s.flags
  BY <1>1, CodesAre
<1> DEFINE u == [s EXCEPT !.cursor = on, !.length = sum, !.flags = either,
                          !.code = code]
<1>3. Measured(s, n, n, FALSE) = u
  BY DEF Measured
<1> HIDE DEF on, sum, either, code
<1>4. u \in Scans
  BY <1>2 DEF Scans
<1>5. /\ u.cursor = on /\ u.length = sum /\ u.hasEscape = s.hasEscape
      /\ u.flags = either /\ u.code = code
  BY DEF Scans
<1> HIDE DEF u
<1>6. QED
  BY <1>2, <1>3, <1>4, <1>5 DEF on, sum, code

LEMMA QuotedScans ==
    ASSUME NEW text \in Seq(Byte), \A k \in 1 .. Len(text) : ~MustEscape(text[k])
    PROVE  \A k \in 1 .. Len(text) + 1, s \in Scans :
              s.cursor = k + 1 /\ s.code = Running /\ s.length <= MaxLength =>
                 LET r == ScanFrom(Quoted(text), s)
                 IN /\ r.code = Ok <=>
                          /\ ValidFrom(text, k)
                          /\ s.length + (Len(text) - k + 1) <= MaxLength
                    /\ r.code = Ok => /\ r.hasEscape = s.hasEscape
                                        /\ r.cursor = Len(text) + 3
<1> DEFINE input == Quoted(text)
           Good(s, r, k) ==
               /\ r.code = Ok <=>
                     /\ ValidFrom(text, k)
                     /\ s.length + (Len(text) - k + 1) <= MaxLength
               /\ r.code = Ok => /\ r.hasEscape = s.hasEscape
                                   /\ r.cursor = Len(text) + 3
           m == Len(text) + 1
           S == {k \in 1 .. m : \A s \in Scans :
                    s.cursor = k + 1 /\ s.code = Running /\ s.length <= MaxLength
                       => Good(s, ScanFrom(input, s), k)}
<1>1. /\ input \in Seq(Byte) /\ Len(input) = Len(text) + 2
      /\ Len(text) \in Nat /\ Len(input) \in Nat /\ m \in Nat
      /\ input[Len(text) + 2] = Quote
  BY QuotedIs
<1>2. ASSUME NEW k \in 1 .. m, \A j \in k + 1 .. m : j \in S PROVE k \in S
  <2> SUFFICES ASSUME NEW s \in Scans, s.cursor = k + 1, s.code = Running,
                      s.length <= MaxLength
               PROVE  Good(s, ScanFrom(input, s), k)
    OBVIOUS
  <2> DEFINE t == ScanTurn(input, s)
             r == ScanFrom(input, s)
             n == SequenceLength(text, k)
  <2>1. r = ScanFrom(input, t) /\ (t \in Scans /\ t.code # Running => r = t)
    BY <1>1, ScanIs
  <2>2. s.length \in Nat /\ s.hasEscape \in BOOLEAN
    BY DEF Scans
  <2> HIDE DEF r, S
  <2>3. CASE k = m
    <3>1. t = Ended(s)
      BY <1>1, <2>3 DEF ScanTurn, Ended
    <3> HIDE DEF t
    <3>2. t \in Scans /\ t.code = Ok /\ t.hasEscape = s.hasEscape
          /\ t.cursor = Len(text) + 3
      BY <1>1, <2>3, <3>1, EndedIs
    <3>3. r = t
      BY <2>1, <3>2, CodesAre
    <3>4. ValidFrom(text, k) /\ s.length + (Len(text) - k + 1) <= MaxLength
      <4>1. ValidFrom(text, k) = TRUE
        BY <1>1, <2>3, ValidAtEnd
      <4>2. Len(text) - k + 1 = 0 /\ s.length + 0 = s.length
        BY <1>1, <2>2, <2>3
      <4>3. QED
        BY <4>1, <4>2
    <3>5. QED
      BY <3>2, <3>3, <3>4 DEF r
  <2>4. CASE k # m
    <3>1. k \in 1 .. Len(text)
      BY <1>1, <2>4
    <3>2. t = IF n = 0 THEN Failed(s, ParseInvalidString)
              ELSE Measured(s, n, n, FALSE)
      BY <3>1, QuotedTurn
    <3>3. ValidFrom(text, k) = (n # 0 /\ ValidFrom(text, k + n))
      BY <1>1, <3>1, ValidBefore
    <3>4. n # 0 => n \in 1 .. 4 /\ k + n <= m
      BY <3>1, SequenceBytes
    <3> HIDE DEF t, n
    <3>5. CASE n = 0
      <4>1. t \in Scans /\ t.code = ParseInvalidString
        BY <3>2, <3>5, FailedIs, CodesAre
      <4>2. r.code = ParseInvalidString
        BY <2>1, <4>1, CodesAre
      <4>3. QED
        BY <3>3, <3>5, <4>2, CodesAre DEF r
    <3>6. CASE n # 0
      <4>1. /\ t \in Scans /\ t.cursor = (k + n) + 1
            /\ t.length = s.length + n /\ t.hasEscape = s.hasEscape
            /\ t.code = IF s.length + n > MaxLength
                        THEN StringCapacityExceeded ELSE Running
        <5>1. t = Measured(s, n, n, FALSE) /\ n \in Nat
          BY <3>2, <3>4, <3>6
        <5>2. (k + 1) + n = (k + n) + 1
          BY <3>4, <3>6
        <5>3. QED
          BY <5>1, <5>2, MeasuredPlain, ZenonT(30)
      <4>2. CASE s.length + n > MaxLength
        <5>1. r = t /\ t.code = StringCapacityExceeded
          BY <2>1, <4>1, <4>2, CodesAre
        <5>2. ~(s.length + (Len(text) - k + 1) <= MaxLength)
          <6> DEFINE was == s.length
                     all == Len(text)
          <6>1. /\ was \in Nat /\ all \in Nat /\ n \in Nat /\ was + n > MaxLength
                /\ k + n <= all + 1
            BY <1>1, <2>2, <3>4, <3>6, <4>2
          <6> HIDE DEF was, all
          <6>2. ~(was + (all - k + 1) <= MaxLength)
            BY <6>1, MaxLengthAssumption
          <6>3. QED
            BY <6>2 DEF was, all
        <5>3. QED
          BY <5>1, <5>2, CodesAre DEF r
      <4>3. CASE ~(s.length + n > MaxLength)
        <5>1. t.code = Running /\ t.length <= MaxLength
          BY <2>2, <3>4, <3>6, <4>1, <4>3, MaxLengthAssumption
        <5>2. k + n \in k + 1 .. m /\ k + n \in S
          BY <1>1, <1>2, <3>4, <3>6
        <5>3. Good(t, ScanFrom(input, t), k + n)
          BY <4>1, <5>1, <5>2 DEF S
        <5>4. t.length + (Len(text) - (k + n) + 1) = s.length + (Len(text) - k + 1)
          <6> DEFINE was == s.length
                     all == Len(text)
          <6>1. was \in Nat /\ all \in Nat /\ n \in Nat /\ t.length = was + n
            BY <1>1, <2>2, <3>4, <3>6, <4>1
          <6> HIDE DEF was, all
          <6>2. (was + n) + (all - (k + n) + 1) = was + (all - k + 1)
            BY <6>1
          <6>3. QED
            BY <6>1, <6>2 DEF was, all
        <5>5. ValidFrom(text, k) = ValidFrom(text, k + n)
          <6>1. k + n \in Nat
            BY <5>2
          <6>2. ValidFrom(text, k + n) \in BOOLEAN
            BY <1>1, <6>1, ValidIs
          <6>3. QED
            BY <3>3, <3>6, <6>2
        <5>6. QED
          BY <2>1, <4>1, <5>3, <5>4, <5>5 DEF r
      <4>4. QED
        BY <4>2, <4>3
    <3>7. QED
      BY <3>5, <3>6
  <2>5. QED
    BY <2>3, <2>4
<1>3. 1 .. m \subseteq S
  <2> HIDE DEF S, m
  <2>1. QED
    BY <1>1, <1>2, BackwardInduction
<1>4. ASSUME NEW k \in 1 .. m, NEW s \in Scans, s.cursor = k + 1, s.code = Running,
             s.length <= MaxLength
      PROVE  Good(s, ScanFrom(input, s), k)
  BY <1>3, <1>4
<1>5. QED
  BY <1>4

(* Such a text is accepted if it is UTF-8 and fits, and it is stored as it *)
(* stands.                                                                 *)
LEMMA PlainText ==
    ASSUME NEW text \in Seq(Byte), ~StringFlags(text)
    PROVE  LET r == ScanString(Quoted(text))
           IN /\ r.code = Ok <=> ValidUtf8(text) /\ Len(text) <= MaxLength
              /\ r.code = Ok => /\ r.cursor = Len(text) + 3
                                  /\ ParseString(Quoted(text)) = text
<1> DEFINE input == Quoted(text)
           r == ScanString(input)
<1>1. /\ input \in Seq(Byte) /\ Len(input) = Len(text) + 2
      /\ Len(text) \in Nat /\ Len(input) \in Nat
      /\ \A k \in 1 .. Len(text) : input[k + 1] = text[k]
  BY QuotedIs
<1>2. \A k \in 1 .. Len(text) : ~MustEscape(text[k])
  BY BytesAre DEF StringFlags
<1>3. r = ScanFrom(input, Start) /\ Start \in Scans
  BY <1>1, ScanIs
<1>4. /\ Start.cursor = 1 + 1 /\ Start.code = Running /\ Start.length = 0
      /\ Start.hasEscape = FALSE /\ Start.length <= MaxLength
      /\ 1 \in 1 .. Len(text) + 1
  BY <1>1, MaxLengthAssumption DEF Start
<1> HIDE DEF r, input
<1>5. /\ r.code = Ok <=>
            /\ ValidFrom(text, 1)
            /\ 0 + (Len(text) - 1 + 1) <= MaxLength
      /\ r.code = Ok => r.hasEscape = FALSE /\ r.cursor = Len(text) + 3
  BY <1>2, <1>3, <1>4, QuotedScans DEF input
<1>6. r.code = Ok <=> ValidUtf8(text) /\ Len(text) <= MaxLength
  <2>1. 0 + (Len(text) - 1 + 1) = Len(text)
    BY <1>1
  <2>2. ValidUtf8(text) = ValidFrom(text, 1)
    BY <1>1, ValidIs
  <2>3. QED
    BY <1>5, <2>1, <2>2
<1>7. ASSUME r.code = Ok PROVE ParseString(input) = text
  <2> DEFINE x == SubSeq(input, 2, Len(text) + 1)
  <2>1. (Len(text) + 3) - 2 = Len(text) + 1
    BY <1>1
  <2>2. ParseString(input) = x
    BY <1>5, <1>7, <2>1 DEF ParseString, r
  <2>3. x \in Seq(Byte) /\ Len(x) = Len(text)
        /\ \A j \in 1 .. Len(text) : x[j] = input[2 + j - 1]
    <3>1. 2 + Len(text) <= Len(input) + 1 /\ 2 + Len(text) - 1 = Len(text) + 1
      BY <1>1
    <3>2. QED
      BY <1>1, <3>1, PieceIs
  <2>4. \A j \in 1 .. Len(text) : 2 + j - 1 = j + 1
    OBVIOUS
  <2> HIDE DEF x
  <2>5. \A j \in 1 .. Len(x) : x[j] = text[j]
    BY <1>1, <2>3, <2>4
  <2>6. x = text
    BY <2>3, <2>5, SameBytes
  <2>7. QED
    BY <2>2, <2>6
<1>8. QED
  BY <1>5, <1>6, <1>7 DEF r, input

-----------------------------------------------------------------------------
(* Texts that are put together from parts.                                 *)

Joined(n, first, part, f) ==
    f = [k \in 0 .. n |-> IF k = 0 THEN first ELSE f[k - 1] \o part[k]]

LEMMA JoinedExists ==
    ASSUME NEW n \in Nat, NEW first \in Seq(Byte), NEW part,
           \A k \in 1 .. n : part[k] \in Seq(Byte)
    PROVE  \E f \in [0 .. n -> Seq(Byte)] : Joined(n, first, part, f)
<1> DEFINE Step(f, k) == IF k = 0 THEN first ELSE f[k - 1] \o part[k]
           S == {m \in Nat : \E f \in [0 .. n -> Seq(Byte)] :
                    \A k \in 0 .. n : k < m => f[k] = Step(f, k)}
<1>1. 0 \in S
  <2>1. [k \in 0 .. n |-> first] \in [0 .. n -> Seq(Byte)]
    OBVIOUS
  <2>2. \A k \in 0 .. n : ~(k < 0)
    OBVIOUS
  <2>3. QED
    BY <2>1, <2>2
<1>2. ASSUME NEW m \in Nat, m \in S PROVE m + 1 \in S
  <2>1. PICK f \in [0 .. n -> Seq(Byte)] :
           \A k \in 0 .. n : k < m => f[k] = Step(f, k)
    BY <1>2
  <2> DEFINE g == [k \in 0 .. n |-> Step(f, k)]
  <2>2. \A k \in 0 .. n : g[k] = Step(f, k)
    OBVIOUS
  <2>3. g \in [0 .. n -> Seq(Byte)]
    <3>1. ASSUME NEW k \in 0 .. n PROVE Step(f, k) \in Seq(Byte)
      <4>1. k # 0 => k - 1 \in 0 .. n /\ k \in 1 .. n
        OBVIOUS
      <4>2. k # 0 => f[k - 1] \in Seq(Byte) /\ part[k] \in Seq(Byte)
        BY <4>1
      <4>3. QED
        BY <4>2, ConcatProperties
    <3> HIDE DEF Step
    <3>2. QED
      BY <3>1
  <2> HIDE DEF g
  <2>4. ASSUME NEW k \in 0 .. n, k < m + 1 PROVE g[k] = Step(g, k)
    <3>1. CASE k = 0
      BY <2>2, <3>1
    <3>2. CASE k # 0
      <4>1. k - 1 \in 0 .. n /\ k - 1 < m
        BY <2>4, <3>2
      <4>2. g[k - 1] = f[k - 1]
        BY <2>1, <2>2, <4>1
      <4>3. QED
        BY <2>2, <4>2
    <3>3. QED
      BY <3>1, <3>2
  <2> HIDE DEF Step
  <2>5. \E h \in [0 .. n -> Seq(Byte)] :
           \A k \in 0 .. n : k < m + 1 => h[k] = Step(h, k)
    BY <2>3, <2>4, Zenon
  <2>6. m + 1 \in Nat
    OBVIOUS
  <2>7. QED
    BY <2>5, <2>6, Zenon
<1>3. n + 1 \in S
  <2> HIDE DEF S
  <2>1. Nat \subseteq S
    BY <1>1, <1>2, SetInduction
  <2>2. QED
    BY <2>1
<1>4. PICK f \in [0 .. n -> Seq(Byte)] :
         \A k \in 0 .. n : k < n + 1 => f[k] = Step(f, k)
  BY <1>3
<1>5. \A k \in 0 .. n : k < n + 1
  OBVIOUS
<1>6. f = [k \in 0 .. n |-> f[k]] /\ \A k \in 0 .. n : f[k] = Step(f, k)
  BY <1>4, <1>5
<1>7. f = [k \in 0 .. n |-> Step(f, k)]
  <2> HIDE DEF Step
  <2>1. QED
    BY <1>6
<1>8. QED
  BY <1>7 DEF Joined

(* What is joined is typed, and what follows leaves it in place.           *)
LEMMA JoinedTyped ==
    ASSUME NEW n \in Nat, NEW first \in Seq(Byte), NEW part,
           \A k \in 1 .. n : part[k] \in Seq(Byte),
           NEW f, Joined(n, first, part, f)
    PROVE  /\ f[0] = first
           /\ \A k \in 1 .. n : f[k] = f[k - 1] \o part[k]
           /\ \A k \in 0 .. n : f[k] \in Seq(Byte)
<1>1. f[0] = first /\ \A k \in 1 .. n : f[k] = f[k - 1] \o part[k]
  <2>1. \A k \in 0 .. n : f[k] = IF k = 0 THEN first ELSE f[k - 1] \o part[k]
    BY DEF Joined
  <2>2. 0 \in 0 .. n /\ \A k \in 1 .. n : k \in 0 .. n /\ k # 0
    OBVIOUS
  <2>3. QED
    BY <2>1, <2>2
<1> DEFINE S == {k \in Nat : k <= n => f[k] \in Seq(Byte)}
<1>2. 0 \in S
  BY <1>1
<1>3. ASSUME NEW k \in Nat, k \in S PROVE k + 1 \in S
  <2> SUFFICES ASSUME k + 1 <= n PROVE f[k + 1] \in Seq(Byte)
    OBVIOUS
  <2>1. k <= n /\ k + 1 \in 1 .. n /\ (k + 1) - 1 = k
    OBVIOUS
  <2>2. f[k] \in Seq(Byte) /\ part[k + 1] \in Seq(Byte)
        /\ f[k + 1] = f[k] \o part[k + 1]
    BY <1>1, <1>3, <2>1
  <2>3. QED
    BY <2>2, ConcatProperties
<1>4. Nat \subseteq S
  <2> HIDE DEF S
  <2>1. QED
    BY <1>2, <1>3, SetInduction
<1>5. ASSUME NEW k \in 0 .. n PROVE f[k] \in Seq(Byte)
  <2>1. k \in Nat /\ k <= n
    OBVIOUS
  <2>2. k \in S
    <3> HIDE DEF S
    <3>1. QED
      BY <1>4, <2>1
  <2>3. QED
    BY <2>1, <2>2
<1>6. QED
  BY <1>1, <1>5

Grows(n, part, f) ==
    /\ \A k \in 0 .. n : f[k] \in Seq(Byte)
    /\ \A k \in 1 .. n : part[k] \in Seq(Byte) /\ f[k] = f[k - 1] \o part[k]

Stays(n, f) ==
    \A i \in 0 .. n :
       /\ Len(f[i]) \in Nat /\ Len(f[i]) <= Len(f[n])
       /\ \A j \in 1 .. Len(f[i]) : f[n][j] = f[i][j]

LEMMA JoinedStays ==
    ASSUME NEW n \in Nat, NEW part, NEW f, Grows(n, part, f)
    PROVE  Stays(n, f)
<1> SUFFICES ASSUME NEW i \in 0 .. n
             PROVE  /\ Len(f[i]) \in Nat /\ Len(f[i]) <= Len(f[n])
                    /\ \A j \in 1 .. Len(f[i]) : f[n][j] = f[i][j]
  BY DEF Stays
<1>g. /\ \A k \in 0 .. n : f[k] \in Seq(Byte)
      /\ \A k \in 1 .. n : part[k] \in Seq(Byte) /\ f[k] = f[k - 1] \o part[k]
  BY DEF Grows
<1> DEFINE S == {d \in Nat : i + d <= n =>
                    /\ Len(f[i]) <= Len(f[i + d])
                    /\ \A j \in 1 .. Len(f[i]) : f[i + d][j] = f[i][j]}
<1>1. \A k \in 0 .. n : Len(f[k]) \in Nat
  BY <1>g, LenProperties
<1>2. 0 \in S
  <2>1. i + 0 = i
    OBVIOUS
  <2>2. QED
    BY <1>1, <2>1
<1>3. ASSUME NEW d \in Nat, d \in S PROVE d + 1 \in S
  <2> SUFFICES ASSUME i + (d + 1) <= n
               PROVE  /\ Len(f[i]) <= Len(f[i + (d + 1)])
                      /\ \A j \in 1 .. Len(f[i]) : f[i + (d + 1)][j] = f[i][j]
    OBVIOUS
  <2> DEFINE k == i + (d + 1)
  <2>1. k \in 1 .. n /\ k - 1 = i + d /\ k - 1 \in 0 .. n /\ i + d <= n
    OBVIOUS
  <2> HIDE DEF k
  <2>2. /\ Len(f[i]) <= Len(f[k - 1])
        /\ \A j \in 1 .. Len(f[i]) : f[k - 1][j] = f[i][j]
    BY <1>3, <2>1
  <2> DEFINE a == f[k - 1]
             b == part[k]
  <2>3. a \in Seq(Byte) /\ b \in Seq(Byte) /\ f[k] = a \o b
    BY <1>g, <2>1
  <2> HIDE DEF a, b
  <2>4. /\ Len(f[k]) = Len(a) + Len(b) /\ Len(a) \in Nat /\ Len(b) \in Nat
        /\ \A j \in 1 .. Len(a) : f[k][j] = a[j]
    BY <2>3, Concat
  <2>5. Len(f[i]) <= Len(f[k])
    BY <1>1, <2>2, <2>4 DEF a
  <2>6. \A j \in 1 .. Len(f[i]) : f[k][j] = f[i][j]
    <3>1. \A j \in 1 .. Len(f[i]) : j \in 1 .. Len(a)
      BY <1>1, <2>2, <2>4 DEF a
    <3>2. QED
      BY <2>2, <2>4, <3>1 DEF a
  <2>7. QED
    BY <2>5, <2>6 DEF k
<1>4. Nat \subseteq S
  <2> HIDE DEF S
  <2>1. QED
    BY <1>2, <1>3, SetInduction
<1>5. n - i \in S /\ i + (n - i) = n
  <2>1. n - i \in Nat /\ i + (n - i) = n
    OBVIOUS
  <2> HIDE DEF S
  <2>2. QED
    BY <1>4, <2>1
<1>6. QED
  BY <1>1, <1>5

-----------------------------------------------------------------------------
(* What is written for a byte.                                             *)

(* A byte that a letter stands for.                                        *)
Lettered(b, e) ==
    \E letter \in DOMAIN Simple : Simple[letter] = b /\ e = <<Backslash, letter>>

Numbered(b, e) ==
    /\ b < 32
    /\ e = <<Backslash, 117, 48, 48, HexDigit(b \div 16), HexDigit(b % 16)>>

LEMMA EscapeByteIs ==
    ASSUME NEW b \in Byte
    PROVE  /\ ~MustEscape(b) => EscapeByte(b) = <<b>>
           /\ MustEscape(b) => \/ Lettered(b, EscapeByte(b))
                               \/ Numbered(b, EscapeByte(b))
<1>1. b \in Nat
  BY ByteIs
<1> DEFINE Letters == {letter \in DOMAIN Simple \ {Slash} : Simple[letter] = b}
<1>2. CASE \E letter \in DOMAIN Simple \ {Slash} : Simple[letter] = b
  <2> DEFINE letter ==
               CHOOSE letter \in DOMAIN Simple \ {Slash} : Simple[letter] = b
  <2>1. letter \in DOMAIN Simple \ {Slash} /\ Simple[letter] = b
    BY <1>2
  <2>2. EscapeByte(b) = <<Backslash, letter>>
    BY <1>2 DEF EscapeByte
  <2> HIDE DEF letter
  <2>3. MustEscape(b)
    BY <2>1, SimpleIs
  <2>4. QED
    BY <2>1, <2>2, <2>3 DEF Lettered
<1>3. CASE ~\E letter \in DOMAIN Simple \ {Slash} : Simple[letter] = b
  <2>1. EscapeByte(b) =
           IF b < FirstPrintable
           THEN <<Backslash, 117, 48, 48, HexDigit(b \div 16), HexDigit(b % 16)>>
           ELSE <<b>>
    BY <1>3 DEF EscapeByte
  <2>2. b # 34 /\ b # 92
    <3>1. 34 \in DOMAIN Simple \ {Slash} /\ Simple[34] = 34
          /\ 92 \in DOMAIN Simple \ {Slash} /\ Simple[92] = 92
      BY DEF Simple, Slash
    <3>2. QED
      BY <1>3, <3>1
  <2>3. CASE b < 32
    <3>1. Numbered(b, EscapeByte(b)) /\ MustEscape(b)
      BY <2>1, <2>3 DEF Numbered, FirstPrintable, MustEscape
    <3>2. QED
      BY <3>1
  <2>4. CASE ~(b < 32)
    <3>1. EscapeByte(b) = <<b>>
      BY <2>1, <2>4 DEF FirstPrintable
    <3>2. ~MustEscape(b)
      BY <2>2, <2>4 DEF MustEscape, FirstPrintable, Quote, Backslash
    <3>3. QED
      BY <3>1, <3>2
  <2>5. QED
    BY <2>3, <2>4
<1>4. QED
  BY <1>2, <1>3

(* Two digits are the byte again.                                          *)
LEMMA HexDigitIs ==
    ASSUME NEW v \in Int, v >= 0, v <= 15
    PROVE  /\ HexDigit(v) \in Byte /\ HexValue(HexDigit(v)) = v
<1>1. HexDigit(v) = IF v < 10 THEN 48 + v ELSE 87 + v
  BY DEF HexDigit
<1>2. HexDigit(v) \in Byte
  BY <1>1, ByteIs
<1>3. CASE v < 10
  <2>1. 48 + v \in 48 .. 57
    BY <1>3
  <2>2. QED
    BY <1>1, <1>2, <1>3, <2>1 DEF HexValue
<1>4. CASE ~(v < 10)
  <2>1. 87 + v \in 97 .. 102 /\ 87 + v \notin 48 .. 57
    BY <1>4
  <2>2. QED
    BY <1>1, <1>2, <1>4, <2>1 DEF HexValue
<1>5. QED
  BY <1>2, <1>3, <1>4

LEMMA LetteredTyped ==
    ASSUME NEW b, NEW e, Lettered(b, e)
    PROVE  /\ e \in Seq(Byte) /\ Len(e) = 2 /\ e[1] = Backslash
           /\ e[2] \in DOMAIN Simple /\ Simple[e[2]] = b
<1>1. PICK letter \in DOMAIN Simple : Simple[letter] = b
                                     /\ e = <<Backslash, letter>>
  BY DEF Lettered
<1>2. letter \in Byte /\ Backslash \in Byte
  BY ByteIs DEF Simple, Backslash
<1>3. QED
  BY <1>1, <1>2

LEMMA NumberedTyped ==
    ASSUME NEW b \in Byte, NEW e, Numbered(b, e)
    PROVE  /\ e \in Seq(Byte) /\ Len(e) = 6 /\ e[1] = Backslash /\ e[2] = 117
           /\ HexValue(e[3]) = 0 /\ HexValue(e[4]) = 0
           /\ HexValue(e[5]) = b \div 16 /\ HexValue(e[6]) = b % 16
<1> DEFINE c == HexDigit(b \div 16)
           d == HexDigit(b % 16)
<1>1. b \in Int /\ b >= 0 /\ b < 32 /\ e = <<Backslash, 117, 48, 48, c, d>>
  BY ByteIs DEF Numbered
<1>2. /\ b \div 16 \in Int /\ b \div 16 >= 0 /\ b \div 16 <= 15
      /\ b % 16 \in Int /\ b % 16 >= 0 /\ b % 16 <= 15
  BY <1>1
<1>3. c \in Byte /\ HexValue(c) = b \div 16 /\ d \in Byte /\ HexValue(d) = b % 16
  BY <1>2, HexDigitIs
<1> HIDE DEF c, d
<1>4. Backslash \in Byte /\ 117 \in Byte /\ 48 \in Byte
  BY ByteIs DEF Backslash
<1>5. HexValue(48) = 0
  BY DEF HexValue
<1>6. e \in Seq(Byte) /\ Len(e) = 6 /\ e[1] = Backslash /\ e[2] = 117
      /\ e[3] = 48 /\ e[4] = 48 /\ e[5] = c /\ e[6] = d
  BY <1>1, <1>3, <1>4
<1>7. QED
  BY <1>3, <1>5, <1>6

LEMMA EscapeByteTyped ==
    ASSUME NEW b \in Byte
    PROVE  EscapeByte(b) \in Seq(Byte) /\ Len(EscapeByte(b)) >= 1
<1>1. CASE ~MustEscape(b)
  <2>1. EscapeByte(b) = <<b>>
    BY <1>1, EscapeByteIs
  <2>2. QED
    BY <2>1
<1>2. CASE MustEscape(b)
  <2>1. Lettered(b, EscapeByte(b)) \/ Numbered(b, EscapeByte(b))
    BY <1>2, EscapeByteIs
  <2>2. QED
    BY <2>1, LetteredTyped, NumberedTyped
<1>3. QED
  BY <1>1, <1>2

-----------------------------------------------------------------------------
(* What is written is read back.                                           *)

Escapes(text) == [k \in 1 .. Len(text) |-> EscapeByte(text[k])]

Writing(text, f) ==
    f = [k \in 0 .. Len(text) |->
            IF k = 0 THEN <<>> ELSE f[k - 1] \o EscapeByte(text[k])]

LEMMA WritingIs ==
    ASSUME NEW text \in Seq(Byte)
    PROVE  \E f : /\ Joined(Len(text), <<>>, Escapes(text), f)
                  /\ WriteString(text, TRUE) = <<Quote>> \o f[Len(text)] \o <<Quote>>
<1> DEFINE n == Len(text)
           f == CHOOSE f : Writing(text, f)
<1>1. n \in Nat /\ \A k \in 1 .. n : text[k] \in Byte
  BY BytesAre
<1>2. \A k \in 1 .. n : /\ Escapes(text)[k] = EscapeByte(text[k])
                        /\ Escapes(text)[k] \in Seq(Byte)
  BY <1>1, EscapeByteTyped DEF Escapes
<1>3. \A g : Writing(text, g) <=> Joined(n, <<>>, Escapes(text), g)
  <2> TAKE g
  <2>1. [k \in 0 .. n |-> IF k = 0 THEN <<>> ELSE g[k - 1] \o EscapeByte(text[k])]
      = [k \in 0 .. n |-> IF k = 0 THEN <<>> ELSE g[k - 1] \o Escapes(text)[k]]
    <3>1. ASSUME NEW k \in 0 .. n
          PROVE  (IF k = 0 THEN <<>> ELSE g[k - 1] \o EscapeByte(text[k]))
               = (IF k = 0 THEN <<>> ELSE g[k - 1] \o Escapes(text)[k])
      <4>1. k # 0 => k \in 1 .. n
        BY <1>1
      <4>2. QED
        BY <1>2, <4>1
    <3>2. QED
      BY <3>1
  <2>2. QED
    BY <2>1 DEF Writing, Joined
<1>4. \E g : Joined(n, <<>>, Escapes(text), g)
  <2>1. <<>> \in Seq(Byte)
    OBVIOUS
  <2> HIDE DEF n
  <2>2. QED
    BY <1>1, <1>2, <2>1, JoinedExists
<1>5. Writing(text, f)
  BY <1>3, <1>4
<1>6. WriteString(text, TRUE) = <<Quote>> \o f[n] \o <<Quote>>
  BY DEF WriteString, Writing
<1> HIDE DEF f
<1>7. QED
  BY <1>3, <1>5, <1>6

(* Where each byte of the text stands in what is written: P[k] bytes are   *)
(* written for the first k.                                                *)
Layout(text, w, P) ==
    /\ w \in Seq(Byte) /\ P \in [0 .. Len(text) -> Nat] /\ P[0] = 0
    /\ Len(w) = P[Len(text)] + 2 /\ w[P[Len(text)] + 2] = Quote
    /\ \A k \in 1 .. Len(text) :
          LET e == EscapeByte(text[k])
          IN /\ P[k] = P[k - 1] + Len(e) /\ P[k] <= P[Len(text)]
             /\ \A m \in 1 .. Len(e) : w[1 + P[k - 1] + m] = e[m]

LEMMA WriteLays ==
    ASSUME NEW text \in Seq(Byte)
    PROVE  \E P : Layout(text, WriteString(text, TRUE), P)
<1> DEFINE n == Len(text)
           w == WriteString(text, TRUE)
<1>1. n \in Nat /\ \A k \in 1 .. n : text[k] \in Byte
  BY BytesAre
<1>2. \A k \in 1 .. n : /\ Escapes(text)[k] = EscapeByte(text[k])
                        /\ Escapes(text)[k] \in Seq(Byte)
  BY <1>1, EscapeByteTyped DEF Escapes
<1>3. PICK f : /\ Joined(n, <<>>, Escapes(text), f)
               /\ w = <<Quote>> \o f[n] \o <<Quote>>
  BY WritingIs
<1> HIDE DEF n, w
<1>4. /\ f[0] = <<>>
      /\ \A k \in 1 .. n : f[k] = f[k - 1] \o Escapes(text)[k]
      /\ \A k \in 0 .. n : f[k] \in Seq(Byte)
  <2>1. <<>> \in Seq(Byte)
    OBVIOUS
  <2>2. QED
    BY <1>1, <1>2, <1>3, <2>1, JoinedTyped
<1>5. \A i \in 0 .. n : /\ Len(f[i]) \in Nat /\ Len(f[i]) <= Len(f[n])
                        /\ \A j \in 1 .. Len(f[i]) : f[n][j] = f[i][j]
  <2> DEFINE part == Escapes(text)
  <2>1. Grows(n, part, f)
    BY <1>2, <1>4 DEF Grows
  <2>2. n \in Nat
    BY <1>1
  <2> HIDE DEF part
  <2>3. Stays(n, f)
    BY <2>1, <2>2, JoinedStays
  <2>4. QED
    BY <2>3 DEF Stays
<1> DEFINE all == f[n]
           P == [k \in 0 .. n |-> Len(f[k])]
<1>6. P \in [0 .. n -> Nat] /\ \A k \in 0 .. n : P[k] = Len(f[k])
  BY <1>5
<1>7. 0 \in 0 .. n /\ n \in 0 .. n
  BY <1>1
<1>8. all \in Seq(Byte) /\ Len(all) = P[n] /\ P[n] \in Nat
  BY <1>4, <1>6, <1>7
<1> HIDE DEF P
<1>9. /\ w \in Seq(Byte) /\ Len(w) = P[n] + 2 /\ w[P[n] + 2] = Quote
      /\ \A j \in 1 .. P[n] : w[j + 1] = all[j]
  <2> HIDE DEF all
  <2>1. w = Quoted(all)
    BY <1>3, <1>8, QuotedIs DEF all
  <2>2. QED
    BY <1>8, <2>1, QuotedIs
<1>10. P[0] = 0
  <2>1. Len(<<>>) = 0
    OBVIOUS
  <2>2. QED
    BY <1>4, <1>6, <1>7, <2>1
<1>11. ASSUME NEW k \in 1 .. n
       PROVE  LET e == EscapeByte(text[k])
              IN /\ P[k] = P[k - 1] + Len(e) /\ P[k] <= P[n]
                 /\ \A m \in 1 .. Len(e) : w[1 + P[k - 1] + m] = e[m]
  <2> DEFINE e == EscapeByte(text[k])
             a == f[k - 1]
  <2>1. k \in 0 .. n /\ k - 1 \in 0 .. n
    BY <1>1
  <2>2. e \in Seq(Byte) /\ a \in Seq(Byte) /\ f[k] = a \o e
    BY <1>2, <1>4, <2>1
  <2> HIDE DEF e
  <2>3. P[k - 1] = Len(a) /\ P[k] = Len(f[k]) /\ P[n] = Len(f[n])
    BY <1>6, <1>7, <2>1
  <2> HIDE DEF a
  <2>4. /\ Len(f[k]) = Len(a) + Len(e) /\ Len(a) \in Nat /\ Len(e) \in Nat
        /\ \A m \in 1 .. Len(e) : f[k][Len(a) + m] = e[m]
    BY <2>2, Concat
  <2>5. Len(f[k]) <= Len(f[n]) /\ \A j \in 1 .. Len(f[k]) : f[n][j] = f[k][j]
    BY <1>5, <2>1
  <2>6. ASSUME NEW m \in 1 .. Len(e) PROVE w[1 + P[k - 1] + m] = e[m]
    <3> DEFINE j == Len(a) + m
    <3>1. j \in 1 .. Len(f[k]) /\ j \in 1 .. P[n] /\ 1 + P[k - 1] + m = j + 1
      BY <1>8, <2>3, <2>4, <2>5
    <3>2. w[j + 1] = all[j] /\ all[j] = f[k][j] /\ f[k][j] = e[m]
      BY <1>9, <2>4, <2>5, <3>1
    <3> HIDE DEF j
    <3>3. QED
      BY <3>1, <3>2
  <2>7. QED
    BY <2>3, <2>4, <2>5, <2>6 DEF e
<1>12. Layout(text, w, P)
  BY <1>6, <1>9, <1>10, <1>11 DEF Layout, n
<1>13. QED
  BY <1>12 DEF w

(* Bytes that need no escape stand in what is written as in the text.      *)
Plain(text, k, n) ==
    /\ n \in Nat \ {0} /\ k + n <= Len(text) + 1
    /\ \A j \in 0 .. n - 1 : ~MustEscape(text[k + j])

AsItStands(text, w, P, k, n) ==
    /\ P[k + n - 1] = P[k - 1] + n
    /\ \A j \in 0 .. n - 1 : w[2 + P[k - 1] + j] = text[k + j]

LEMMA PlainLaid ==
    ASSUME NEW text \in Seq(Byte), NEW w, NEW P, Layout(text, w, P),
           NEW k \in 1 .. Len(text), NEW n, Plain(text, k, n)
    PROVE  AsItStands(text, w, P, k, n)
<1>p. /\ n \in Nat \ {0} /\ k + n <= Len(text) + 1
      /\ \A j \in 0 .. n - 1 : ~MustEscape(text[k + j])
  BY DEF Plain
<1>1. Len(text) \in Nat /\ \A j \in 1 .. Len(text) : text[j] \in Byte
  BY BytesAre
<1>2. \A j \in 0 .. Len(text) : P[j] \in Nat
  BY DEF Layout
<1>3. ASSUME NEW j \in 0 .. n - 1
      PROVE  /\ P[k + j] = P[(k + j) - 1] + 1
             /\ w[1 + P[(k + j) - 1] + 1] = text[k + j]
             /\ P[k + j] \in Nat /\ P[(k + j) - 1] \in Nat
  <2>1. k + j \in 1 .. Len(text) /\ k + j \in 0 .. Len(text)
        /\ (k + j) - 1 \in 0 .. Len(text)
    BY <1>1, <1>p
  <2>2. EscapeByte(text[k + j]) = <<text[k + j]>>
    BY <1>1, <1>p, <2>1, EscapeByteIs
  <2>3. Len(<<text[k + j]>>) = 1 /\ <<text[k + j]>>[1] = text[k + j] /\ 1 \in 1 .. 1
    OBVIOUS
  <2>4. QED
    BY <1>2, <2>1, <2>2, <2>3 DEF Layout
<1> DEFINE S == {j \in Nat : j < n => P[(k + j) - 1] = P[k - 1] + j}
<1>4. 0 \in S
  <2>1. (k + 0) - 1 = k - 1 /\ k - 1 \in 0 .. Len(text)
    BY <1>1
  <2>2. QED
    BY <1>2, <2>1
<1>5. ASSUME NEW j \in Nat, j \in S PROVE j + 1 \in S
  <2> SUFFICES ASSUME j + 1 < n PROVE P[(k + (j + 1)) - 1] = P[k - 1] + (j + 1)
    OBVIOUS
  <2>1. j \in 0 .. n - 1 /\ j < n /\ (k + (j + 1)) - 1 = k + j
        /\ k - 1 \in 0 .. Len(text)
    BY <1>1, <1>p
  <2>2. P[(k + j) - 1] = P[k - 1] + j
    BY <1>5, <2>1
  <2>3. P[k + j] = P[(k + j) - 1] + 1
    BY <1>3, <2>1
  <2>4. P[k - 1] \in Nat
    BY <1>2, <2>1
  <2>5. P[(k + (j + 1)) - 1] = (P[k - 1] + j) + 1
    BY <2>1, <2>2, <2>3
  <2> HIDE DEF S
  <2>6. QED
    BY <2>4, <2>5
<1>6. Nat \subseteq S
  <2> HIDE DEF S
  <2>1. QED
    BY <1>4, <1>5, SetInduction
<1>7. ASSUME NEW j \in 0 .. n - 1
      PROVE  /\ P[(k + j) - 1] = P[k - 1] + j
             /\ w[2 + P[k - 1] + j] = text[k + j]
  <2>1. j \in Nat /\ j < n /\ k - 1 \in 0 .. Len(text)
    BY <1>1, <1>p
  <2>2. P[(k + j) - 1] = P[k - 1] + j
    BY <1>6, <2>1
  <2>3. 1 + P[(k + j) - 1] + 1 = 2 + P[k - 1] + j
    BY <1>2, <2>1, <2>2
  <2>4. w[1 + P[(k + j) - 1] + 1] = text[k + j]
    BY <1>3
  <2>5. QED
    BY <2>2, <2>3, <2>4
<1>8. P[k + n - 1] = P[k - 1] + n
  <2>1. n - 1 \in 0 .. n - 1 /\ k + (n - 1) = k + n - 1 /\ k - 1 \in 0 .. Len(text)
    BY <1>1, <1>p
  <2>2. P[k + (n - 1)] = P[(k + (n - 1)) - 1] + 1
        /\ P[(k + (n - 1)) - 1] = P[k - 1] + (n - 1)
    BY <1>3, <1>7, <2>1
  <2>3. QED
    BY <1>2, <1>p, <2>1, <2>2
<1>9. QED
  BY <1>7, <1>8 DEF AsItStands

(* What a turn of either pass does with what is written for a byte or for  *)
(* one sequence.                                                           *)
Echoes(text, w, s, k, n, taken) ==
    LET turn == DecodeTurn(w, s.cursor)
    IN /\ turn.taken = taken /\ turn.text = SubSeq(text, k, k + n - 1)
       /\ \E u \in {s, Escaped(s)}, flags \in BOOLEAN :
             ScanTurn(w, s) = Measured(u, taken, n, flags)

LEMMA ByteAlone ==
    ASSUME NEW text \in Seq(Byte), NEW k \in 1 .. Len(text)
    PROVE  SubSeq(text, k, k + 1 - 1) = <<text[k]>>
<1> DEFINE x == SubSeq(text, k, k + 1 - 1)
           y == <<text[k]>>
<1>1. Len(text) \in Nat /\ text[k] \in Byte
  BY BytesAre
<1>2. x \in Seq(Byte) /\ Len(x) = 1 /\ \A j \in 1 .. 1 : x[j] = text[k + j - 1]
  <2>1. k \in Nat /\ k >= 1 /\ k + 1 <= Len(text) + 1 /\ 1 \in Nat
    BY <1>1
  <2>2. QED
    BY <2>1, PieceIs
<1>3. x[1] = text[k]
  <2>1. 1 \in 1 .. 1 /\ k + 1 - 1 = k
    BY <1>1
  <2>2. QED
    BY <1>2, <2>1
<1>4. y \in Seq(Byte) /\ Len(y) = 1 /\ y[1] = text[k]
  BY <1>1
<1> HIDE DEF x, y
<1>5. \A j \in 1 .. Len(x) : x[j] = y[j]
  BY <1>2, <1>3, <1>4
<1>6. x = y
  BY <1>2, <1>4, <1>5, SameBytes
<1>7. QED
  BY <1>6 DEF x, y

(* A letter for a byte.                                                    *)
LEMMA LetteredEchoes ==
    ASSUME NEW text \in Seq(Byte), NEW w \in Seq(Byte),
           NEW k \in 1 .. Len(text), NEW s \in Scans, s.cursor \in Nat,
           s.cursor + 1 <= Len(w), w[s.cursor] = Backslash,
           w[s.cursor + 1] \in DOMAIN Simple,
           Simple[w[s.cursor + 1]] = text[k]
    PROVE  Echoes(text, w, s, k, 1, 2)
<1> DEFINE c == s.cursor
           letter == w[c + 1]
           u == Escaped(s)
           flags == letter # Slash
<1>1. letter # 117
  BY SimpleIs
<1>2. DecodeTurn(w, c) = [taken |-> 2, text |-> <<Simple[letter]>>]
  BY <1>1 DEF DecodeTurn
<1>3. <<Simple[letter]>> = SubSeq(text, k, k + 1 - 1)
  BY ByteAlone
<1>4. Len(w) \in Nat /\ ~(c > Len(w)) /\ c # Len(w)
  BY BytesAre
<1>5. ScanTurn(w, s) = ScanEscape(w, u)
  BY <1>4 DEF ScanTurn, Quote, Backslash, FirstPrintable, Escaped
<1>6. ScanEscape(w, u) = Measured(u, 2, 1, flags)
  <2>1. u.cursor = c
    BY EscapedIs
  <2> HIDE DEF u
  <2>2. QED
    BY <1>1, <1>4, <2>1 DEF ScanEscape
<1>7. u \in {s, Escaped(s)} /\ flags \in BOOLEAN
  OBVIOUS
<1> HIDE DEF letter, flags, u
<1>8. QED
  BY <1>2, <1>3, <1>5, <1>6, <1>7 DEF Echoes

(* A control character as a code point and in digits.                      *)
LEMMA ControlIs ==
    ASSUME NEW b \in Nat, b < 32
    PROVE  /\ ~High(b) /\ ~Low(b) /\ b # -1
           /\ Utf8Length(b) = 1 /\ EncodeUtf8(b) = <<b>>
<1>1. b <= 127
  OBVIOUS
<1>2. ~(b >= 55296) /\ ~(b >= 56320) /\ b # -1
  OBVIOUS
<1>3. Utf8Length(b) = 1
  BY <1>1 DEF Utf8Length
<1>4. EncodeUtf8(b) = <<b>>
  BY <1>1, SMT DEF EncodeUtf8
<1>5. ~High(b) /\ ~Low(b)
  BY <1>2, SMT DEF High, Low
<1>6. QED
  BY <1>2, <1>3, <1>4, <1>5

LEMMA DigitsAre ==
    ASSUME NEW b \in Nat
    PROVE  /\ b \div 16 \in Nat /\ b % 16 \in Nat
           /\ 16 * (b \div 16) + (b % 16) = b
<1>1. b \div 16 \in Nat /\ b % 16 \in Nat
  OBVIOUS
<1>2. 16 * (b \div 16) + (b % 16) = b
  OBVIOUS
<1>3. QED
  BY <1>1, <1>2

(* Four digits for a byte.                                                 *)
LEMMA NumberedEchoes ==
    ASSUME NEW text \in Seq(Byte), NEW w \in Seq(Byte),
           NEW k \in 1 .. Len(text), NEW s \in Scans, s.cursor \in Nat,
           s.cursor + 5 <= Len(w), text[k] < 32, w[s.cursor] = Backslash,
           w[s.cursor + 1] = 117, HexValue(w[s.cursor + 2]) = 0,
           HexValue(w[s.cursor + 3]) = 0,
           HexValue(w[s.cursor + 4]) = text[k] \div 16,
           HexValue(w[s.cursor + 5]) = text[k] % 16
    PROVE  Echoes(text, w, s, k, 1, 6)
<1> DEFINE c == s.cursor
           b == text[k]
           u == Escaped(s)
<1>1. b \in Nat /\ b < 32 /\ Len(w) \in Nat
  BY BytesAre
<1>a. /\ c \in Nat /\ c + 5 <= Len(w) /\ w[c] = Backslash /\ w[c + 1] = 117
      /\ HexValue(w[c + 2]) = 0 /\ HexValue(w[c + 3]) = 0
      /\ HexValue(w[c + 4]) = b \div 16 /\ HexValue(w[c + 5]) = b % 16
  OBVIOUS
<1> HIDE DEF b, c
<1> DEFINE high == b \div 16
           low == b % 16
<1>b. high \in Nat /\ low \in Nat /\ 16 * high + low = b
  BY <1>1, DigitsAre
<1> DEFINE p == c + 2
<1>c. /\ p + 3 <= Len(w) /\ p \in Nat /\ c + 2 = p
      /\ HexValue(w[p]) = 0 /\ HexValue(w[p + 1]) = 0
      /\ HexValue(w[p + 2]) = high /\ HexValue(w[p + 3]) = low
  <2>1. p + 1 = c + 3 /\ p + 2 = c + 4 /\ p + 3 = c + 5 /\ p \in Nat
    BY <1>a
  <2>2. QED
    BY <1>a, <2>1
<1> HIDE DEF p, high, low
<1>2. Hex4(w, p) = b
  BY <1>b, <1>c DEF Hex4
<1>3. ParseHex4(w, p) = b
  <2>1. \A j \in p .. p + 3 : HexValue(w[j]) >= 0
    <3>1. \A j \in p .. p + 3 : j = p \/ j = p + 1 \/ j = p + 2 \/ j = p + 3
      BY <1>c
    <3>2. /\ HexValue(w[p]) >= 0 /\ HexValue(w[p + 1]) >= 0
          /\ HexValue(w[p + 2]) >= 0 /\ HexValue(w[p + 3]) >= 0
      <4>1. high >= 0 /\ low >= 0 /\ 0 >= 0
        BY <1>b
      <4>2. QED
        BY <1>c, <4>1, Zenon
    <3>3. QED
      BY <3>1, <3>2, Zenon
  <2>2. QED
    BY <1>2, <1>c, <2>1 DEF ParseHex4
<1>4. ~High(b) /\ ~Low(b) /\ b # -1 /\ Utf8Length(b) = 1 /\ EncodeUtf8(b) = <<b>>
  BY <1>1, ControlIs
<1>5. DecodeTurn(w, c) = [taken |-> 6, text |-> <<b>>]
  BY <1>2, <1>4, <1>a, <1>c DEF DecodeTurn, DecodeUnicode
<1>6. <<b>> = SubSeq(text, k, k + 1 - 1)
  BY ByteAlone DEF b
<1>7. Len(w) \in Nat /\ ~(c > Len(w)) /\ c # Len(w)
  BY <1>1, <1>a
<1>8. ScanTurn(w, s) = ScanEscape(w, u)
  BY <1>7, <1>a DEF ScanTurn, Quote, Backslash, FirstPrintable, Escaped, c
<1>9. u.cursor = c
  BY EscapedIs DEF c
<1> HIDE DEF u
<1>10. ScanEscape(w, u) = ScanUnicode(w, u)
  BY <1>7, <1>9, <1>a DEF ScanEscape
<1>11. ScanUnicode(w, u) = Measured(u, 6, 1, MustEscape(b))
  BY <1>3, <1>4, <1>9, <1>c DEF ScanUnicode
<1>12. u \in {s, Escaped(s)} /\ MustEscape(b) \in BOOLEAN
  BY DEF u, MustEscape
<1>13. QED
  BY <1>5, <1>6, <1>8, <1>10, <1>11, <1>12 DEF Echoes, c

(* A sequence for itself.                                                  *)
LEMMA PlainEchoes ==
    ASSUME NEW text \in Seq(Byte), NEW w \in Seq(Byte),
           NEW k \in 1 .. Len(text), NEW n, n = SequenceLength(text, k), n # 0,
           ~MustEscape(text[k]), NEW s \in Scans, s.cursor \in 1 .. Len(w),
           s.cursor + n <= Len(w) + 1,
           \A j \in 0 .. n - 1 : w[s.cursor + j] = text[k + j]
    PROVE  Echoes(text, w, s, k, n, n)
<1> DEFINE c == s.cursor
           x == SubSeq(w, c, c + n - 1)
           y == SubSeq(text, k, k + n - 1)
           t == Measured(s, n, n, FALSE)
<1>1. /\ Len(w) \in Nat /\ Len(text) \in Nat /\ c \in Nat
      /\ \A j \in 1 .. Len(w) : w[j] \in Byte
      /\ \A j \in 1 .. Len(text) : text[j] \in Byte
  BY BytesAre
<1>2. n \in 1 .. 4 /\ k + n <= Len(text) + 1
  BY SequenceBytes
<1>3. SequenceLength(w, c) = n
  <2>1. n <= Len(w) - c + 1
    BY <1>1, <1>2
  <2>2. \A m \in 0 .. n - 1 : text[k + m] = w[c + m]
    OBVIOUS
  <2>3. n \in 1 .. 4 /\ c \in 1 .. Len(w)
    BY <1>2
  <2> HIDE DEF c
  <2>4. QED
    BY <2>1, <2>2, <2>3, SequenceElsewhere
<1>4. w[c] = text[k]
  <2>1. 0 \in 0 .. n - 1 /\ c + 0 = c /\ k + 0 = k
    BY <1>1, <1>2
  <2>2. QED
    BY <2>1
<1>5. ~MustEscape(w[c])
  BY <1>4
<1>6. Reads(w, s, t) /\ DecodeTurn(w, c).taken = n
  BY <1>2, <1>3, <1>5, PlainReads
<1>7. DecodeTurn(w, c).text = x
  BY <1>5, <1>6 DEF Reads, MustEscape
<1>8. x = y
  <2>1. x \in Seq(Byte) /\ Len(x) = n /\ \A j \in 1 .. n : x[j] = w[c + j - 1]
    <3>1. c \in Nat /\ c >= 1 /\ n \in Nat /\ c + n <= Len(w) + 1
      BY <1>1, <1>2
    <3>2. QED
      BY <3>1, PieceIs
  <2>2. y \in Seq(Byte) /\ Len(y) = n /\ \A j \in 1 .. n : y[j] = text[k + j - 1]
    <3>1. k \in Nat /\ k >= 1 /\ n \in Nat /\ k + n <= Len(text) + 1
      BY <1>1, <1>2
    <3>2. QED
      BY <3>1, PieceIs
  <2> HIDE DEF x, y
  <2>3. ASSUME NEW j \in 1 .. Len(x) PROVE x[j] = y[j]
    <3>1. j \in 1 .. n /\ j - 1 \in 0 .. n - 1 /\ c + (j - 1) = c + j - 1
          /\ k + (j - 1) = k + j - 1
      BY <1>1, <1>2, <2>1
    <3>2. w[c + (j - 1)] = text[k + (j - 1)]
      BY <3>1
    <3>3. QED
      BY <2>1, <2>2, <3>1, <3>2
  <2>4. QED
    BY <2>1, <2>2, <2>3, SameBytes
<1>9. ScanTurn(w, s) = t
  BY <1>1, <1>2, <1>3, <1>5, PlainTurn
<1>10. s \in {s, Escaped(s)} /\ FALSE \in BOOLEAN
  OBVIOUS
<1> HIDE DEF x, y
<1>11. QED
  BY <1>6, <1>7, <1>8, <1>9, <1>10 DEF Echoes, y

(* One sequence of the text, however it is written.                        *)
LEMMA SequenceEchoes ==
    ASSUME NEW text \in Seq(Byte), NEW w, NEW P, Layout(text, w, P),
           NEW k \in 1 .. Len(text), NEW n, n = SequenceLength(text, k), n # 0,
           NEW s \in Scans, s.cursor = 2 + P[k - 1]
    PROVE  /\ Echoes(text, w, s, k, n, P[k + n - 1] - P[k - 1])
           /\ s.cursor < Len(w) /\ P[k + n - 1] > P[k - 1]
<1>1. /\ Len(text) \in Nat /\ Len(w) \in Nat /\ text[k] \in Byte /\ w \in Seq(Byte)
      /\ \A j \in 1 .. Len(text) : text[j] \in Byte
  BY BytesAre DEF Layout
<1>2. n \in 1 .. 4 /\ k + n <= Len(text) + 1 /\ (n = 1 <=> text[k] < 128)
      /\ (text[k] >= 128 => \A j \in 0 .. n - 1 : text[k + j] >= 128)
  BY SequenceBytes
<1>3. \A j \in 0 .. Len(text) : P[j] \in Nat
  BY DEF Layout
<1>4. k \in 0 .. Len(text) /\ k - 1 \in 0 .. Len(text) /\ k + n - 1 \in 1 .. Len(text)
      /\ k + n - 1 \in 0 .. Len(text) /\ Len(text) \in 0 .. Len(text)
  <2> DEFINE all == Len(text)
  <2>1. all \in Nat /\ k \in 1 .. all /\ n \in 1 .. 4 /\ k + n <= all + 1
    BY <1>1, <1>2
  <2> HIDE DEF all
  <2>2. /\ k \in 0 .. all /\ k - 1 \in 0 .. all /\ k + n - 1 \in 1 .. all
        /\ k + n - 1 \in 0 .. all /\ all \in 0 .. all
    BY <2>1
  <2>3. QED
    BY <2>2 DEF all
<1> DEFINE e == EscapeByte(text[k])
<1>5. /\ P[k] = P[k - 1] + Len(e) /\ P[k] <= P[Len(text)]
      /\ Len(w) = P[Len(text)] + 2
      /\ \A m \in 1 .. Len(e) : w[1 + P[k - 1] + m] = e[m]
  BY DEF Layout
<1>6. e \in Seq(Byte) /\ Len(e) >= 1 /\ Len(e) \in Nat
  <2>1. text[k] \in Byte
    BY <1>1
  <2>2. e \in Seq(Byte) /\ Len(e) >= 1
    BY <2>1, EscapeByteTyped
  <2> HIDE DEF e
  <2>3. QED
    BY <2>2
<1> DEFINE from == P[k - 1]
           size == Len(e)
           all == P[Len(text)]
           c == s.cursor
<1>a. /\ from \in Nat /\ all \in Nat /\ size \in Nat /\ size >= 1 /\ c = 2 + from
      /\ Len(w) = all + 2 /\ P[k] = from + size /\ P[k] <= all
      /\ P[k + n - 1] \in Nat /\ P[k + n - 1] <= all
  <2>1. from \in Nat /\ all \in Nat /\ P[k + n - 1] \in Nat
    BY <1>3, <1>4
  <2>2. P[k + n - 1] <= all
    BY <1>4 DEF Layout
  <2>3. QED
    BY <1>5, <1>6, <2>1, <2>2
<1>7. CASE MustEscape(text[k])
  <2>1. n = 1 /\ P[k + n - 1] = P[k]
    <3>1. text[k] < 128
      BY <1>1, <1>7, ByteIs DEF MustEscape, Quote, Backslash, FirstPrintable
    <3>2. n = 1
      BY <1>2, <3>1
    <3>3. k + 1 - 1 = k
      OBVIOUS
    <3>4. QED
      BY <3>2, <3>3
  <2>2. \A m \in 1 .. Len(e) : w[s.cursor + (m - 1)] = e[m]
    <3>1. ASSUME NEW m \in 1 .. Len(e)
          PROVE  s.cursor + (m - 1) = 1 + P[k - 1] + m
      <4> HIDE DEF from, c, e
      <4>1. m \in Nat /\ c + (m - 1) = 1 + from + m
        BY <1>6, <1>a
      <4>2. QED
        BY <4>1 DEF from, c
    <3> HIDE DEF e
    <3>2. QED
      BY <1>5, <3>1
  <2>3. s.cursor \in Nat /\ s.cursor + Len(e) <= Len(w)
    <3> HIDE DEF from, all, size, c
    <3>1. c \in Nat /\ c + size <= Len(w)
      BY <1>a
    <3>2. QED
      BY <3>1 DEF c, size
  <2>4. Lettered(text[k], e) \/ Numbered(text[k], e)
    BY <1>1, <1>7, EscapeByteIs
  <2> HIDE DEF e
  <2>5. CASE Lettered(text[k], e)
    <3>1. Len(e) = 2 /\ e[1] = Backslash /\ e[2] \in DOMAIN Simple
          /\ Simple[e[2]] = text[k]
      BY <2>5, LetteredTyped
    <3>2. w[s.cursor] = e[1] /\ w[s.cursor + 1] = e[2]
      <4>1. 1 \in 1 .. Len(e) /\ 2 \in 1 .. Len(e)
            /\ s.cursor + (1 - 1) = s.cursor /\ s.cursor + (2 - 1) = s.cursor + 1
        BY <2>3, <3>1
      <4>2. QED
        BY <2>2, <4>1
    <3>3. s.cursor + 1 <= Len(w)
      BY <1>1, <2>3, <3>1
    <3>4. Echoes(text, w, s, k, 1, 2)
      BY <1>1, <2>3, <3>1, <3>2, <3>3, LetteredEchoes
    <3>5. P[k] - P[k - 1] = 2 /\ s.cursor < Len(w) /\ P[k] > P[k - 1]
      <4>1. size = 2
        BY <3>1
      <4> HIDE DEF from, all, size, c
      <4>2. P[k] - from = 2 /\ c < Len(w) /\ P[k] > from
        BY <1>a, <4>1
      <4>3. QED
        BY <4>2 DEF from, c
    <3>6. QED
      BY <2>1, <3>4, <3>5
  <2>6. CASE Numbered(text[k], e)
    <3>1. Len(e) = 6 /\ e[1] = Backslash /\ e[2] = 117
          /\ HexValue(e[3]) = 0 /\ HexValue(e[4]) = 0
          /\ HexValue(e[5]) = text[k] \div 16 /\ HexValue(e[6]) = text[k] % 16
      BY <1>1, <2>6, NumberedTyped
    <3>2. /\ w[s.cursor] = e[1] /\ w[s.cursor + 1] = e[2]
          /\ w[s.cursor + 2] = e[3] /\ w[s.cursor + 3] = e[4]
          /\ w[s.cursor + 4] = e[5] /\ w[s.cursor + 5] = e[6]
      <4>1. /\ 1 \in 1 .. Len(e) /\ 2 \in 1 .. Len(e) /\ 3 \in 1 .. Len(e)
            /\ 4 \in 1 .. Len(e) /\ 5 \in 1 .. Len(e) /\ 6 \in 1 .. Len(e)
        BY <3>1
      <4>2. /\ s.cursor + (1 - 1) = s.cursor /\ s.cursor + (2 - 1) = s.cursor + 1
            /\ s.cursor + (3 - 1) = s.cursor + 2 /\ s.cursor + (4 - 1) = s.cursor + 3
            /\ s.cursor + (5 - 1) = s.cursor + 4 /\ s.cursor + (6 - 1) = s.cursor + 5
        BY <2>3
      <4>3. QED
        BY <2>2, <4>1, <4>2
    <3>3. s.cursor + 5 <= Len(w) /\ text[k] < 32
      <4>1. size = 6 /\ text[k] < 32
        BY <2>6, <3>1 DEF Numbered
      <4> HIDE DEF from, all, size, c
      <4>2. c + 5 <= Len(w)
        BY <1>a, <4>1
      <4>3. QED
        BY <4>1, <4>2 DEF c
    <3>4. Echoes(text, w, s, k, 1, 6)
      BY <1>1, <2>3, <3>1, <3>2, <3>3, NumberedEchoes
    <3>5. P[k] - P[k - 1] = 6 /\ s.cursor < Len(w) /\ P[k] > P[k - 1]
      <4>1. size = 6
        BY <3>1
      <4> HIDE DEF from, all, size, c
      <4>2. P[k] - from = 6 /\ c < Len(w) /\ P[k] > from
        BY <1>a, <4>1
      <4>3. QED
        BY <4>2 DEF from, c
    <3>6. QED
      BY <2>1, <3>4, <3>5
  <2>7. QED
    BY <2>4, <2>5, <2>6
<1>8. CASE ~MustEscape(text[k])
  <2>1. ASSUME NEW j \in 0 .. n - 1 PROVE ~MustEscape(text[k + j])
    <3>1. CASE text[k] < 128
      <4>1. k + j = k
        BY <1>2, <3>1
      <4>2. QED
        BY <1>8, <4>1
    <3>2. CASE ~(text[k] < 128)
      <4>1. text[k + j] >= 128 /\ text[k + j] \in Int
        <5>1. k + j \in 1 .. Len(text) /\ text[k] >= 128
          <6>1. text[k] \in Nat /\ Len(text) \in Nat
            BY <1>1, ByteIs
          <6>2. text[k] >= 128
            BY <3>2, <6>1
          <6>3. k + j \in 1 .. Len(text)
            <7> DEFINE last == Len(text)
            <7>1. last \in Nat /\ n \in 1 .. 4 /\ k \in 1 .. last /\ k + n <= last + 1
              BY <1>2, <6>1
            <7> HIDE DEF last
            <7>2. k + j \in 1 .. last
              BY <7>1
            <7>3. QED
              BY <7>2 DEF last
          <6>4. QED
            BY <6>2, <6>3
        <5>2. QED
          BY <1>1, <1>2, <5>1, ByteIs
      <4>2. QED
        BY <4>1 DEF MustEscape, Quote, Backslash, FirstPrintable
    <3>3. QED
      BY <3>1, <3>2
  <2>2. /\ P[k + n - 1] = P[k - 1] + n
        /\ \A j \in 0 .. n - 1 : w[2 + P[k - 1] + j] = text[k + j]
    <3>1. n \in Nat \ {0} /\ k + n <= Len(text) + 1
      BY <1>2
    <3>3. Plain(text, k, n)
      BY <2>1, <3>1 DEF Plain
    <3>4. AsItStands(text, w, P, k, n)
      BY <3>3, PlainLaid
    <3>5. QED
      BY <3>4 DEF AsItStands
  <2>4. s.cursor \in 1 .. Len(w) /\ s.cursor + n <= Len(w) + 1
        /\ s.cursor < Len(w)
    <3>1. n \in 1 .. 4 /\ P[k + n - 1] = from + n
      BY <1>2, <2>2
    <3> HIDE DEF from, all, size, c
    <3>2. c \in 1 .. Len(w) /\ c + n <= Len(w) + 1 /\ c < Len(w)
      BY <1>a, <3>1
    <3>3. QED
      BY <3>2 DEF c
  <2>5. \A j \in 0 .. n - 1 : w[s.cursor + j] = text[k + j]
    BY <2>2
  <2>6. Echoes(text, w, s, k, n, n)
    BY <1>1, <1>8, <2>4, <2>5, PlainEchoes
  <2>7. P[k + n - 1] - P[k - 1] = n /\ P[k + n - 1] > P[k - 1]
    <3>1. n \in 1 .. 4 /\ P[k + n - 1] = from + n
      BY <1>2, <2>2
    <3> HIDE DEF from, all, size, c
    <3>2. P[k + n - 1] - from = n /\ P[k + n - 1] > from
      BY <1>a, <3>1
    <3>3. QED
      BY <3>2 DEF from
  <2>8. QED
    BY <2>4, <2>6, <2>7
<1>9. QED
  BY <1>7, <1>8

(* Both passes, from a sequence of the text on.                            *)
ReadsOn(text, w, s, k) ==
    LET r == ScanFrom(w, s)
    IN /\ r.code = Ok /\ r.cursor = Len(w) + 1
       /\ DecodeFrom(w, Len(w) + 1, s.cursor) = SubSeq(text, k, Len(text))

(* A scan that has come to what is written for the text from k on.         *)
Due(text, P, s, k) ==
    /\ s.cursor = 2 + P[k - 1] /\ s.length = k - 1 /\ s.code = Running
    /\ ValidFrom(text, k)

OnFrom(t, s, taken, n) ==
    /\ t \in Scans
    /\ t.cursor = s.cursor + taken /\ t.length = s.length + n
    /\ t.code = IF s.length + n > MaxLength
                THEN StringCapacityExceeded ELSE Running

LEMMA MeasuredOn ==
    ASSUME NEW s \in Scans, NEW taken \in Nat, NEW n \in Nat,
           NEW flags \in BOOLEAN
    PROVE  OnFrom(Measured(s, taken, n, flags), s, taken, n)
<1> DEFINE on == s.cursor + taken
           sum == s.length + n
           either == s.flags \/ flags
           code == IF sum > MaxLength THEN StringCapacityExceeded ELSE Running
<1>1. s.cursor \in Nat /\ s.length \in Nat
  BY DEF Scans
<1>2. on \in Nat /\ sum \in Nat /\ either \in BOOLEAN /\ code \in ScanCodes
  BY <1>1, CodesAre
<1> DEFINE u == [s EXCEPT !.cursor = on, !.length = sum, !.flags = either,
                          !.code = code]
<1>3. Measured(s, taken, n, flags) = u
  BY DEF Measured
<1> HIDE DEF on, sum, either, code
<1>4. u \in Scans
  BY <1>2 DEF Scans
<1>5. u.cursor = on /\ u.length = sum /\ u.code = code
  BY DEF Scans
<1> HIDE DEF u
<1>6. QED
  BY <1>3, <1>4, <1>5 DEF OnFrom, on, sum, code

LEMMA WrittenScans ==
    ASSUME NEW text \in Seq(Byte), Len(text) <= MaxLength,
           NEW w, NEW P, Layout(text, w, P)
    PROVE  \A k \in 1 .. Len(text) + 1, s \in Scans :
              Due(text, P, s, k) => ReadsOn(text, w, s, k)
<1> DEFINE m == Len(text) + 1
           S == {k \in 1 .. m : \A s \in Scans :
                    Due(text, P, s, k) => ReadsOn(text, w, s, k)}
<1>1. /\ Len(text) \in Nat /\ Len(w) \in Nat /\ w \in Seq(Byte) /\ m \in Nat
      /\ Len(w) + 1 \in Nat
      /\ Len(w) = P[Len(text)] + 2 /\ w[Len(w)] = Quote
      /\ \A j \in 0 .. Len(text) : P[j] \in Nat
  <2>1. /\ w \in Seq(Byte) /\ Len(w) = P[Len(text)] + 2
        /\ w[P[Len(text)] + 2] = Quote
        /\ \A j \in 0 .. Len(text) : P[j] \in Nat
    BY DEF Layout
  <2>2. Len(text) \in Nat /\ Len(w) \in Nat
    BY <2>1, BytesAre
  <2>3. m \in Nat /\ Len(w) + 1 \in Nat /\ w[Len(w)] = Quote
    BY <2>1, <2>2
  <2>4. QED
    BY <2>1, <2>2, <2>3
<1>2. ASSUME NEW k \in 1 .. m, \A j \in k + 1 .. m : j \in S PROVE k \in S
  <2> SUFFICES ASSUME NEW s \in Scans, Due(text, P, s, k)
               PROVE  ReadsOn(text, w, s, k)
    OBVIOUS
  <2>0. /\ s.cursor = 2 + P[k - 1] /\ s.length = k - 1 /\ s.code = Running
        /\ ValidFrom(text, k)
    BY DEF Due
  <2> DEFINE t == ScanTurn(w, s)
             r == ScanFrom(w, s)
             c == s.cursor
             d == DecodeFrom(w, Len(w) + 1, c)
  <2>1. r = ScanFrom(w, t) /\ (t \in Scans /\ t.code # Running => r = t)
    BY <1>1, <2>0, ScanIs
  <2>2. c = 2 + P[k - 1] /\ k - 1 \in 0 .. Len(text) /\ c \in Nat \ {0}
        /\ s.length = k - 1
    BY <1>1, <2>0
  <2>3. d = IF c >= (Len(w) + 1) - 1 THEN <<>>
            ELSE DecodeTurn(w, c).text
                    \o DecodeFrom(w, Len(w) + 1, c + DecodeTurn(w, c).taken)
    BY <1>1, <2>2, DecodeIs
  <2> HIDE DEF r, S, d
  <2>4. CASE k = m
    <3>1. k - 1 = Len(text) /\ c = Len(w)
      BY <1>1, <2>2, <2>4
    <3>2. t = Ended(s)
      <4>1. ~(c > Len(w)) /\ w[c] = Quote
        BY <1>1, <3>1
      <4> HIDE DEF t
      <4>2. QED
        BY <4>1 DEF ScanTurn, Ended, t
    <3>3. t \in Scans /\ t.code = Ok /\ t.cursor = Len(w) + 1
      BY <3>1, <3>2, EndedIs
    <3>4. r = t
      BY <2>1, <3>3, CodesAre
    <3>5. d = <<>>
      BY <1>1, <2>3, <3>1
    <3>6. SubSeq(text, k, Len(text)) = <<>>
      BY <1>1, <3>1
    <3>7. QED
      BY <3>3, <3>4, <3>5, <3>6 DEF ReadsOn, r, d
  <2>5. CASE k # m
    <3> DEFINE n == SequenceLength(text, k)
               taken == P[k + n - 1] - P[k - 1]
               x == SubSeq(text, k, k + n - 1)
    <3>1. k \in 1 .. Len(text)
      BY <1>1, <2>5
    <3>2. n # 0 /\ ValidFrom(text, k + n)
      BY <1>1, <2>0, <3>1, ValidBefore
    <3>3. n \in 1 .. 4 /\ k + n <= m
      BY <3>1, <3>2, SequenceBytes
    <3>4. /\ Echoes(text, w, s, k, n, taken) /\ c < Len(w)
          /\ P[k + n - 1] > P[k - 1]
      BY <2>0, <3>1, <3>2, SequenceEchoes
    <3>5. k + n - 1 \in 0 .. Len(text) /\ P[k + n - 1] \in Nat /\ P[k - 1] \in Nat
      <4> HIDE DEF n
      <4>1. k + n - 1 \in 0 .. Len(text)
        BY <1>1, <3>1, <3>3
      <4>2. QED
        BY <1>1, <2>2, <4>1
    <3>6. taken \in Nat /\ taken >= 1 /\ c + taken = 2 + P[(k + n) - 1]
      <4>1. (k + n) - 1 = k + n - 1
        BY <3>3
      <4> DEFINE from == P[k - 1]
                 to == P[k + n - 1]
      <4>2. from \in Nat /\ to \in Nat /\ to > from /\ c = 2 + from
            /\ taken = to - from /\ P[(k + n) - 1] = to
        BY <2>2, <3>4, <3>5, <4>1
      <4> HIDE DEF from, to, c, taken, n
      <4>3. taken \in Nat /\ taken >= 1 /\ c + taken = 2 + to
        BY <4>2
      <4>4. QED
        BY <4>2, <4>3
    <3>7. /\ DecodeTurn(w, c).taken = taken /\ DecodeTurn(w, c).text = x
          /\ \E u \in {s, Escaped(s)}, flags \in BOOLEAN :
                t = Measured(u, taken, n, flags)
      BY <3>4 DEF Echoes
    <3> HIDE DEF t, n, taken, x
    <3>8. PICK u \in {s, Escaped(s)}, flags \in BOOLEAN :
             t = Measured(u, taken, n, flags)
      BY <3>7
    <3>9. u \in Scans /\ u.cursor = c /\ u.length = s.length
      BY EscapedIs
    <3>10. /\ t \in Scans /\ t.cursor = c + taken /\ t.length = s.length + n
           /\ t.code = IF s.length + n > MaxLength
                       THEN StringCapacityExceeded ELSE Running
      <4>1. n \in Nat /\ taken \in Nat
        BY <3>3, <3>6
      <4>2. u \in Scans /\ flags \in BOOLEAN
        BY <3>9
      <4>3. OnFrom(t, u, taken, n)
        BY <3>8, <4>1, <4>2, MeasuredOn
      <4>4. QED
        BY <3>9, <4>3 DEF OnFrom
    <3>11. t.length = (k + n) - 1 /\ ~(s.length + n > MaxLength)
      BY <1>1, <2>2, <3>3, <3>10, MaxLengthAssumption
    <3>12. t.code = Running /\ k + n \in k + 1 .. m
      BY <1>1, <3>3, <3>10, <3>11
    <3>13. ReadsOn(text, w, t, k + n)
      <4>1. Due(text, P, t, k + n)
        BY <3>2, <3>6, <3>10, <3>11, <3>12 DEF Due
      <4>2. k + n \in S
        BY <1>2, <3>12
      <4>3. QED
        BY <3>10, <4>1, <4>2 DEF S
    <3>14. d = x \o SubSeq(text, k + n, Len(text))
      <4>1. ~(c >= (Len(w) + 1) - 1)
        <5> DEFINE last == Len(w)
        <5>1. last \in Nat /\ c \in Nat /\ c < last
          BY <1>1, <2>2, <3>4
        <5> HIDE DEF last, c
        <5>2. ~(c >= (last + 1) - 1)
          BY <5>1
        <5>3. QED
          BY <5>2 DEF last, c
      <4>2. d = x \o DecodeFrom(w, Len(w) + 1, c + taken)
        BY <2>3, <3>7, <4>1
      <4>3. QED
        BY <3>10, <3>13, <4>2 DEF ReadsOn
    <3>15. d = SubSeq(text, k, Len(text))
      <4>1. /\ k \in 1 .. Len(text) + 1 /\ k + n - 1 \in k - 1 .. Len(text)
            /\ Len(text) \in k + n - 1 .. Len(text) /\ (k + n - 1) + 1 = k + n
        BY <1>1, <3>1, <3>3
      <4>2. SubSeq(text, k, k + n - 1) \o SubSeq(text, (k + n - 1) + 1, Len(text))
               = SubSeq(text, k, Len(text))
        BY <4>1, ConcatAdjacentSubSeq
      <4>3. QED
        BY <3>14, <4>1, <4>2 DEF x
    <3>16. QED
      BY <2>1, <3>13, <3>15 DEF ReadsOn, r, d
  <2>6. QED
    BY <2>4, <2>5
<1>3. 1 .. m \subseteq S
  <2> HIDE DEF S, m
  <2>1. QED
    BY <1>1, <1>2, BackwardInduction
<1>4. ASSUME NEW k \in 1 .. m, NEW s \in Scans, Due(text, P, s, k)
      PROVE  ReadsOn(text, w, s, k)
  <2>1. k \in S
    BY <1>3
  <2>2. QED
    BY <1>4, <2>1
<1>5. QED
  BY <1>4

(* Any UTF-8 that fits, with or without escapes.                           *)
LEMMA WrittenText ==
    ASSUME NEW text \in Seq(Byte), ValidUtf8(text), Len(text) <= MaxLength
    PROVE  LET w == WriteString(text, StringFlags(text))
           IN /\ ScanString(w).code = Ok
              /\ ScanString(w).cursor = Len(w) + 1
              /\ ParseString(w) = text
<1>1. Len(text) \in Nat
  BY BytesAre
<1>2. CASE ~StringFlags(text)
  <2> DEFINE w == Quoted(text)
  <2>1. WriteString(text, StringFlags(text)) = w
    <3>1. WriteString(text, FALSE) = <<Quote>> \o text \o <<Quote>>
      BY DEF WriteString
    <3>2. StringFlags(text) = FALSE
      BY <1>2 DEF StringFlags
    <3>3. QED
      BY <3>1, <3>2, QuotedIs
  <2>2. Len(w) = Len(text) + 2 /\ Len(text) + 3 = Len(w) + 1
    BY <1>1, QuotedIs
  <2> HIDE DEF w
  <2>3. ScanString(w).code = Ok /\ ScanString(w).cursor = Len(text) + 3
        /\ ParseString(w) = text
    BY <1>2, PlainText DEF w
  <2>4. QED
    BY <2>1, <2>2, <2>3
<1>3. CASE StringFlags(text)
  <2> DEFINE w == WriteString(text, TRUE)
  <2>1. WriteString(text, StringFlags(text)) = w
    <3>1. StringFlags(text) = TRUE
      BY <1>3 DEF StringFlags
    <3>2. QED
      BY <3>1
  <2>2. PICK P : Layout(text, w, P)
    BY WriteLays
  <2> HIDE DEF w
  <2>3. w \in Seq(Byte) /\ P[0] = 0 /\ Len(w) \in Nat
    BY <2>2, BytesAre DEF Layout
  <2>4. ScanString(w) = ScanFrom(w, Start) /\ Start \in Scans
    BY <2>3, ScanIs
  <2>5. /\ 1 \in 1 .. Len(text) + 1 /\ Start.cursor = 2 + P[1 - 1]
        /\ Start.length = 1 - 1 /\ Start.code = Running /\ Start.cursor = 2
    BY <1>1, <2>3 DEF Start
  <2>6. ValidFrom(text, 1)
    BY <1>1, ValidIs
  <2>7. ReadsOn(text, w, Start, 1)
    <3>1. Due(text, P, Start, 1)
      BY <2>5, <2>6 DEF Due
    <3>2. QED
      BY <2>2, <2>4, <2>5, <3>1, WrittenScans
  <2>8. /\ ScanString(w).code = Ok /\ ScanString(w).cursor = Len(w) + 1
        /\ DecodeFrom(w, Len(w) + 1, 2) = SubSeq(text, 1, Len(text))
    BY <2>4, <2>5, <2>7 DEF ReadsOn
  <2>9. ParseString(w) = DecodeString(w, Len(w) + 1)
    BY <2>3, <2>8, StringTells
  <2>10. DecodeString(w, Len(w) + 1) = DecodeFrom(w, Len(w) + 1, 2)
    <3>1. Len(w) + 1 \in Nat
      BY <2>3
    <3>2. QED
      BY <3>1, DecodeIs, Zenon
  <2>11. SubSeq(text, 1, Len(text)) = text
    BY SubSeqFull
  <2>12. QED
    BY <2>1, <2>8, <2>9, <2>10, <2>11
<1>4. QED
  BY <1>2, <1>3

-----------------------------------------------------------------------------
(* What a string means is UTF-8.                                           *)

MeaningStep(us, f, k) ==
    IF k > Len(us) THEN <<>>
    ELSE IF High(us[k].value) /\ k < Len(us) /\ Low(us[k + 1].value)
    THEN EncodeUtf8(Combine(us[k].value, us[k + 1].value)) \o f[k + 2]
    ELSE IF Scalar(us[k].value)
    THEN EncodeUtf8(us[k].value) \o f[k + 1]
    ELSE <<-1>>

Meant(us, f) ==
    f = [k \in 1 .. Len(us) + 2 |->
            IF k > Len(us) THEN <<>>
            ELSE IF High(us[k].value) /\ k < Len(us) /\ Low(us[k + 1].value)
            THEN EncodeUtf8(Combine(us[k].value, us[k + 1].value)) \o f[k + 2]
            ELSE IF Scalar(us[k].value)
            THEN EncodeUtf8(us[k].value) \o f[k + 1]
            ELSE <<-1>>]

LEMMA MeantExists ==
    ASSUME NEW us, Len(us) \in Nat
    PROVE  \E f : Meant(us, f)
<1> DEFINE D == 1 .. Len(us) + 2
           S == {n \in Nat :
                    \E f : /\ f = [k \in D |-> f[k]]
                           /\ \A k \in D : k + n > Len(us)
                                 => f[k] = MeaningStep(us, f, k)}
<1>1. 0 \in S
  <2> DEFINE f == [k \in D |-> <<>>]
  <2>1. f = [k \in D |-> f[k]] /\ \A k \in D : f[k] = <<>>
    OBVIOUS
  <2> HIDE DEF f
  <2>2. ASSUME NEW k \in D, k + 0 > Len(us)
        PROVE  f[k] = MeaningStep(us, f, k)
    <3>1. k > Len(us)
      BY <2>2
    <3>2. QED
      BY <2>1, <3>1 DEF MeaningStep
  <2>3. QED
    BY <2>1, <2>2
<1>2. ASSUME NEW n \in Nat, n \in S PROVE n + 1 \in S
  <2>1. PICK f : /\ f = [k \in D |-> f[k]]
                 /\ \A k \in D : k + n > Len(us)
                       => f[k] = MeaningStep(us, f, k)
    BY <1>2
  <2> DEFINE g == [k \in D |-> MeaningStep(us, f, k)]
  <2>2. \A k \in D : g[k] = MeaningStep(us, f, k)
    OBVIOUS
  <2>3. g = [k \in D |-> g[k]]
    OBVIOUS
  <2> HIDE DEF g
  <2>4. ASSUME NEW k \in D, k + (n + 1) > Len(us)
        PROVE  g[k] = MeaningStep(us, g, k)
    <3>1. CASE k > Len(us)
      BY <2>2, <3>1 DEF MeaningStep
    <3>2. CASE ~(k > Len(us))
      <4>1. /\ k + 1 \in D /\ (k + 1) + n > Len(us)
            /\ k + 2 \in D /\ (k + 2) + n > Len(us)
        BY <2>4, <3>2
      <4>2. g[k + 1] = f[k + 1] /\ g[k + 2] = f[k + 2]
        BY <2>1, <2>2, <4>1
      <4>3. QED
        BY <2>2, <4>2 DEF MeaningStep
    <3>3. QED
      BY <3>1, <3>2
  <2>5. QED
    BY <2>3, <2>4
<1>3. Nat \subseteq S
  <2> HIDE DEF S
  <2>1. QED
    BY <1>1, <1>2, SetInduction
<1>4. Len(us) \in S
  BY <1>3
<1>5. PICK f : /\ f = [k \in D |-> f[k]]
               /\ \A k \in D : k + Len(us) > Len(us)
                     => f[k] = MeaningStep(us, f, k)
  BY <1>4
<1>6. \A k \in D : k + Len(us) > Len(us)
  OBVIOUS
<1>7. f = [k \in D |-> MeaningStep(us, f, k)]
  BY <1>5, <1>6
<1>8. Meant(us, f)
  BY <1>7 DEF Meant, MeaningStep
<1>9. QED
  BY <1>8

(* A text in which nothing is missing is UTF-8.                            *)
Whole(t) == \A j \in DOMAIN t : t[j] # -1

Sound(t) == t \in Seq(Int) /\ (Whole(t) => t \in Seq(Byte) /\ ValidUtf8(t))

LEMMA SoundFront ==
    ASSUME NEW x, OneSequence(x), NEW t, Sound(t)
    PROVE  Sound(x \o t)
<1> DEFINE a == x \o t
<1>1. x \in Seq(Byte) /\ x \in Seq(Int) /\ t \in Seq(Int)
  <2>1. x \in Seq(Byte) /\ t \in Seq(Int)
    BY DEF OneSequence, Sound
  <2>2. \A k \in 1 .. Len(x) : x[k] \in Int
    BY <2>1, BytesAre
  <2>3. x \in Seq(Int)
    BY <2>1, <2>2, SeqDef, LenProperties
  <2>4. QED
    BY <2>1, <2>3
<1>2. /\ a \in Seq(Int) /\ Len(a) = Len(x) + Len(t)
      /\ Len(x) \in Nat /\ Len(t) \in Nat
      /\ \A k \in 1 .. Len(t) : a[Len(x) + k] = t[k]
  BY <1>1, Concat
<1>3. DOMAIN a = 1 .. Len(a) /\ DOMAIN t = 1 .. Len(t)
  BY <1>1, <1>2, LenProperties
<1> HIDE DEF a
<1>4. ASSUME Whole(a) PROVE Whole(t)
  <2>1. ASSUME NEW j \in DOMAIN t PROVE t[j] # -1
    <3>1. Len(x) + j \in DOMAIN a /\ a[Len(x) + j] = t[j]
      BY <1>2, <1>3
    <3>2. QED
      BY <1>4, <3>1 DEF Whole
  <2>2. QED
    BY <2>1 DEF Whole
<1>5. ASSUME Whole(a) PROVE a \in Seq(Byte) /\ ValidUtf8(a)
  <2>1. t \in Seq(Byte) /\ ValidUtf8(t)
    BY <1>4, <1>5 DEF Sound
  <2>2. QED
    BY <1>1, <2>1, ConcatProperties, ValidFront DEF a
<1>6. QED
  BY <1>2, <1>5 DEF Sound, a

LEMMA MeantSound ==
    ASSUME NEW us \in Seq(Units), NEW f, Meant(us, f)
    PROVE  Sound(f[1])
<1> DEFINE m == Len(us) + 2
           S == {k \in 1 .. m : Sound(f[k])}
<1>1. Len(us) \in Nat /\ m \in Nat /\ \A k \in 1 .. Len(us) : us[k].value \in Int
  <2>1. Len(us) \in Nat
    BY LenProperties
  <2>2. \A k \in 1 .. Len(us) : us[k] \in Units
    BY ElementOfSeq
  <2>3. \A u \in Units : u.value \in Int
    BY UnitsAssumption
  <2>4. QED
    BY <2>1, <2>2, <2>3
<1>2. \A k \in 1 .. m : f[k] = MeaningStep(us, f, k)
  BY DEF Meant, MeaningStep
<1>3. ASSUME NEW k \in 1 .. m, \A j \in k + 1 .. m : j \in S PROVE k \in S
  <2>1. CASE k > Len(us)
    <3>1. f[k] = <<>>
      BY <1>2, <2>1 DEF MeaningStep
    <3>2. <<>> \in Seq(Int) /\ <<>> \in Seq(Byte)
      OBVIOUS
    <3>3. QED
      BY <3>1, <3>2, ValidEmpty DEF Sound
  <2>2. CASE ~(k > Len(us))
    <3> DEFINE a == us[k].value
               b == us[k + 1].value
    <3>1. a \in Int /\ k + 1 \in k + 1 .. m /\ k + 2 \in k + 1 .. m
          /\ (k < Len(us) => b \in Int)
      BY <1>1, <2>2
    <3>2. Sound(f[k + 1]) /\ Sound(f[k + 2])
      BY <1>3, <3>1
    <3>3. f[k] = IF High(a) /\ k < Len(us) /\ Low(b)
                 THEN EncodeUtf8(Combine(a, b)) \o f[k + 2]
                 ELSE IF Scalar(a)
                 THEN EncodeUtf8(a) \o f[k + 1]
                 ELSE <<-1>>
      BY <1>2, <2>2 DEF MeaningStep
    <3> HIDE DEF a, b
    <3>4. CASE High(a) /\ k < Len(us) /\ Low(b)
      <4> DEFINE c == Combine(a, b)
      <4>1. c \in Int /\ Scalar(c)
        BY <3>1, <3>4 DEF Combine, Scalar, High, Low
      <4>2. OneSequence(EncodeUtf8(c))
        <5> HIDE DEF c
        <5>1. QED
          BY <4>1, EncodingIsSequence
      <4>3. QED
        BY <3>2, <3>3, <3>4, <4>2, SoundFront
    <3>5. CASE ~(High(a) /\ k < Len(us) /\ Low(b)) /\ Scalar(a)
      <4>1. OneSequence(EncodeUtf8(a))
        BY <3>1, <3>5, EncodingIsSequence
      <4>2. f[k] = EncodeUtf8(a) \o f[k + 1]
        BY <3>3, <3>5
      <4>3. QED
        BY <3>2, <4>1, <4>2, SoundFront
    <3>6. CASE ~(High(a) /\ k < Len(us) /\ Low(b)) /\ ~Scalar(a)
      <4>1. f[k] = <<-1>>
        BY <3>3, <3>6
      <4>2. <<-1>> \in Seq(Int) /\ ~Whole(<<-1>>)
        <5>1. <<-1>> \in Seq(Int) /\ 1 \in DOMAIN <<-1>> /\ <<-1>>[1] = -1
          OBVIOUS
        <5>2. QED
          BY <5>1 DEF Whole
      <4>3. QED
        BY <4>1, <4>2 DEF Sound
    <3>7. QED
      BY <3>4, <3>5, <3>6
  <2>3. QED
    BY <2>1, <2>2
<1>4. 1 .. m \subseteq S
  <2> HIDE DEF S, m
  <2>1. QED
    BY <1>1, <1>3, BackwardInduction
<1>5. 1 \in 1 .. m
  BY <1>1
<1>6. QED
  BY <1>4, <1>5

LEMMA MeaningIsUtf8 ==
    ASSUME NEW us \in Seq(Units), Meaning(us) # <<-1>>
    PROVE  Meaning(us) \in Seq(Byte) /\ ValidUtf8(Meaning(us))
<1> DEFINE f == CHOOSE f : Meant(us, f)
<1>1. Len(us) \in Nat
  BY LenProperties
<1>2. Meant(us, f)
  BY <1>1, MeantExists
<1>3. Meaning(us) = IF \E k \in DOMAIN f[1] : f[1][k] = -1 THEN <<-1>> ELSE f[1]
  BY DEF Meaning, Meant
<1> HIDE DEF f
<1>4. Meaning(us) = f[1] /\ Whole(f[1])
  BY <1>3 DEF Whole
<1>5. Sound(f[1])
  BY <1>2, MeantSound
<1>6. QED
  BY <1>4, <1>5 DEF Sound

-----------------------------------------------------------------------------
(* The inputs, and the theorems.                                           *)

CodecInv == units \in Seq(Units) /\ bytes \in Seq(Byte)

LEMMA CodecInvariant == CodecSpec => []CodecInv
<1>1. CodecInit => CodecInv
  BY DEF CodecInit, CodecInv
<1>2. CodecInv /\ [CodecNext]_codecVars => CodecInv'
  <2> SUFFICES ASSUME CodecInv, [CodecNext]_codecVars PROVE CodecInv'
    OBVIOUS
  <2>1. ASSUME NEW unit \in Units, AppendUnit(unit) PROVE CodecInv'
    BY <2>1, AppendProperties DEF CodecInv, AppendUnit
  <2>2. ASSUME NEW byte \in SomeBytes, AppendByte(byte) PROVE CodecInv'
    <3>1. byte \in Byte
      BY UnitsAssumption
    <3>2. QED
      BY <2>2, <3>1, AppendProperties DEF CodecInv, AppendByte
  <2>3. CASE UNCHANGED codecVars
    BY <2>3 DEF CodecInv, codecVars
  <2>4. QED
    BY <2>1, <2>2, <2>3 DEF CodecNext
<1>3. QED
  BY <1>1, <1>2, PTL DEF CodecSpec

(* What a string is written as is bytes.                                   *)
Parts(us) == [k \in 1 .. Len(us) |-> us[k].bytes]

Spelling(us, f) ==
    f = [k \in 0 .. Len(us) |->
            IF k = 0 THEN <<Quote>> ELSE f[k - 1] \o us[k].bytes]

LEMMA InputTyped ==
    ASSUME CodecInv
    PROVE  Input \in Seq(Byte)
<1> DEFINE n == Len(units)
           f == CHOOSE f : Spelling(units, f)
<1>1. n \in Nat /\ \A k \in 1 .. n : units[k].bytes \in Seq(Byte)
  <2>1. n \in Nat /\ \A k \in 1 .. n : units[k] \in Units
    BY LenProperties, ElementOfSeq DEF CodecInv
  <2>2. \A u \in Units : u.bytes \in Seq(Byte)
    BY UnitsAssumption
  <2>3. QED
    BY <2>1, <2>2
<1>2. \A k \in 1 .. n : /\ Parts(units)[k] = units[k].bytes
                        /\ Parts(units)[k] \in Seq(Byte)
  BY <1>1 DEF Parts
<1>3. <<Quote>> \in Seq(Byte) /\ Quote \in Byte
  BY ByteIs DEF Quote
<1>4. \A g : Spelling(units, g) <=> Joined(n, <<Quote>>, Parts(units), g)
  <2> TAKE g
  <2>1. [k \in 0 .. n |-> IF k = 0 THEN <<Quote>> ELSE g[k - 1] \o units[k].bytes]
      = [k \in 0 .. n |-> IF k = 0 THEN <<Quote>> ELSE g[k - 1] \o Parts(units)[k]]
    <3>1. ASSUME NEW k \in 0 .. n
          PROVE  (IF k = 0 THEN <<Quote>> ELSE g[k - 1] \o units[k].bytes)
               = (IF k = 0 THEN <<Quote>> ELSE g[k - 1] \o Parts(units)[k])
      <4>1. k # 0 => k \in 1 .. n
        BY <1>1
      <4>2. QED
        BY <1>2, <4>1
    <3>2. QED
      BY <3>1
  <2>2. QED
    BY <2>1 DEF Spelling, Joined
<1> DEFINE quote == <<Quote>>
<1>5. \E g : Joined(n, quote, Parts(units), g)
  <2> HIDE DEF n, quote
  <2>1. QED
    BY <1>1, <1>2, <1>3, JoinedExists DEF quote
<1>6. Spelling(units, f)
  BY <1>4, <1>5
<1>7. Written = f[n]
  BY DEF Written, Spelling
<1> HIDE DEF f, n
<1>8. f[n] \in Seq(Byte)
  <2>1. Joined(n, quote, Parts(units), f)
    BY <1>4, <1>6
  <2>2. n \in 0 .. n
    BY <1>1
  <2> HIDE DEF quote
  <2>3. QED
    BY <1>1, <1>2, <1>3, <2>1, <2>2, JoinedTyped DEF quote
<1>9. QED
  BY <1>3, <1>7, <1>8, AppendProperties DEF Input

(* invalid_utf8_offset() finds nothing exactly if the text is a sequence   *)
(* of encodings of scalar values, each as short as it can be, and          *)
(* scan_string() takes text without escapes exactly then, and stores it as *)
(* it is: for every sequence of bytes.                                     *)
THEOREM Utf8IsExact == CodecSpec => []Utf8Exact
<1>1. CodecInv => Utf8Exact
  <2> SUFFICES ASSUME CodecInv PROVE Utf8Exact
    OBVIOUS
  <2>1. bytes \in Seq(Byte)
    BY DEF CodecInv
  <2>2. ValidUtf8(bytes) <=> IsUtf8(bytes)
    BY <2>1, Utf8IsValid
  <2>3. ASSUME \A k \in DOMAIN bytes : ~MustEscape(bytes[k])
        PROVE  /\ ScanString(Quoted(bytes)).code = Ok <=>
                     IsUtf8(bytes) /\ Len(bytes) <= MaxLength
               /\ ScanString(Quoted(bytes)).code = Ok =>
                     ParseString(Quoted(bytes)) = bytes
    <3>1. ~StringFlags(bytes)
      BY <2>3 DEF StringFlags
    <3>2. QED
      BY <2>1, <2>2, <3>1, PlainText
  <2>4. QED
    BY <2>2, <2>3 DEF Utf8Exact
<1>2. QED
  BY <1>1, CodecInvariant, PTL

(* When scan_string() has accepted a string, decode_string(), which checks *)
(* nothing, reads no further than the scan did and writes as many bytes as *)
(* the scan has measured, no more than a slab can hold; the flag of the    *)
(* scan is that of the text, and the text is UTF-8: for every input.       *)
THEOREM ScanAlwaysForetells == CodecSpec => []ScanForetells
<1>1. CodecInv => ScanForetells
  <2> SUFFICES ASSUME CodecInv, NEW input \in {Input, Quoted(bytes)},
                      ScanString(input).code = Ok
               PROVE  LET scan == ScanString(input)
                      IN /\ scan.cursor <= Len(input) + 1
                         /\ Len(ParseString(input)) = scan.length
                         /\ scan.length <= MaxLength
                         /\ scan.flags = StringFlags(ParseString(input))
                         /\ ValidUtf8(ParseString(input))
    BY DEF ScanForetells
  <2>1. input \in Seq(Byte)
    <3>1. bytes \in Seq(Byte)
      BY DEF CodecInv
    <3>2. QED
      BY <3>1, InputTyped, QuotedIs
  <2>2. QED
    BY <2>1, StringTells
<1>2. QED
  BY <1>1, CodecInvariant, PTL

(* What write_string() writes for a text that a string can mean, its flag  *)
(* set or not, parse_string() reads to the end as that text.               *)
THEOREM WrittenIsRead == CodecSpec => []WrittenReads
<1>1. CodecInv => WrittenReads
  <2> SUFFICES ASSUME CodecInv, Meaning(units) # <<-1>>,
                      Len(Meaning(units)) <= MaxLength
               PROVE  LET text == Meaning(units)
                          written == WriteString(text, StringFlags(text))
                      IN /\ ScanString(written).code = Ok
                         /\ ScanString(written).cursor = Len(written) + 1
                         /\ ParseString(written) = text
    BY DEF WrittenReads
  <2>1. Meaning(units) \in Seq(Byte) /\ ValidUtf8(Meaning(units))
    BY MeaningIsUtf8 DEF CodecInv
  <2>2. QED
    BY <2>1, WrittenText
<1>2. QED
  BY <1>1, CodecInvariant, PTL
=============================================================================

--------------------------- MODULE SlabText_proofs ---------------------------
(***************************************************************************)
(* Induction over data, and what it gives for the text of a document.      *)
(*                                                                         *)
(* The induction theorems of the library take an operator; here the        *)
(* principle is stated of sets of numbers, and a recursive definition is   *)
(* the function RecursionExists says there is.                             *)
(***************************************************************************)
EXTENDS SlabText, SlabTree_proofs, FiniteSetTheorems, SequenceTheorems,
        WellFoundedInduction

-----------------------------------------------------------------------------
(* Induction.                                                              *)

(* A nonempty set of numbers has a least element.                          *)
LEMMA LeastNat ==
    ASSUME NEW T \in SUBSET Nat, T # {}
    PROVE  \E x \in T : \A y \in T : x <= y
<1> DEFINE R == OpToRel(<, Nat)
<1>1. IsWellFoundedOn(R, Nat)
  BY NatLessThanWellFounded
<1>2. \A x, y \in Nat : y < x => <<y, x>> \in R
  BY DEF OpToRel
<1> HIDE DEF R
<1>3. PICK x \in T : \A y \in T : ~(<<y, x>> \in R)
  BY <1>1, WFMin
<1>4. ASSUME NEW y \in T PROVE x <= y
  <2>1. x \in Nat /\ y \in Nat /\ ~(y < x)
    BY <1>2, <1>3
  <2>2. QED
    BY <2>1
<1>5. QED
  BY <1>4

(* A set that holds 0 and with every number the next holds them all.       *)
LEMMA SetInduction ==
    ASSUME NEW S, 0 \in S, \A n \in Nat : n \in S => n + 1 \in S
    PROVE  Nat \subseteq S
<1> DEFINE T == Nat \ S
<1> SUFFICES ASSUME T # {} PROVE FALSE
  OBVIOUS
<1>1. PICK x \in T : \A y \in T : x <= y
  BY LeastNat
<1>2. x # 0 /\ x \in Nat /\ x \notin S
  BY <1>1
<1>3. x - 1 \in Nat /\ x - 1 \in S
  BY <1>1, <1>2
<1>4. QED
  BY <1>2, <1>3

(* What holds of an element of D when it holds of all of a lesser rank     *)
(* holds of them all.                                                      *)
LEMMA RankInduction ==
    ASSUME NEW D, NEW rank \in [D -> Nat], NEW S,
           \A x \in D : (\A y \in D : rank[y] < rank[x] => y \in S) => x \in S
    PROVE  D \subseteq S
<1> DEFINE T == {rank[x] : x \in D \ S}
<1> SUFFICES ASSUME D \ S # {} PROVE FALSE
  OBVIOUS
<1>1. PICK m \in T : \A n \in T : m <= n
  <2>1. T \in SUBSET Nat /\ T # {}
    OBVIOUS
  <2> HIDE DEF T
  <2>2. QED
    BY <2>1, LeastNat
<1>2. PICK x \in D \ S : rank[x] = m
  OBVIOUS
<1>3. ASSUME NEW y \in D, rank[y] < rank[x] PROVE y \in S
  <2> SUFFICES ASSUME y \notin S PROVE FALSE
    OBVIOUS
  <2>1. rank[y] \in T /\ rank[y] \in Nat /\ rank[x] \in Nat
    OBVIOUS
  <2> HIDE DEF T
  <2>2. rank[x] <= rank[y]
    BY <1>1, <1>2, <2>1
  <2>3. QED
    BY <1>3, <2>1, <2>2
<1>4. QED
  BY <1>2, <1>3

(* A set that holds the empty sequence, and with every sequence all those  *)
(* with one element more, holds them all.                                  *)
LEMMA SeqInduction ==
    ASSUME NEW A, NEW S, <<>> \in S,
           \A s \in Seq(A) : \A e \in A : s \in S => Append(s, e) \in S
    PROVE  Seq(A) \subseteq S
<1> DEFINE N == {n \in Nat : \A s \in Seq(A) : Len(s) = n => s \in S}
<1>1. 0 \in N
  BY EmptySeq
<1>2. ASSUME NEW n \in Nat, n \in N PROVE n + 1 \in N
  <2> SUFFICES ASSUME NEW s \in Seq(A), Len(s) = n + 1 PROVE s \in S
    OBVIOUS
  <2>1. s # <<>>
    BY EmptySeq
  <2>2. PICK r \in Seq(A), e \in A : s = Append(r, e)
    BY <2>1, SequenceEmptyOrAppend
  <2>3. Len(r) \in Nat /\ Len(s) = Len(r) + 1
    BY <2>2, AppendProperties, LenProperties
  <2>4. r \in S
    BY <1>2, <2>3
  <2>5. QED
    BY <2>2, <2>4
<1>3. Nat \subseteq N
  <2> HIDE DEF N
  <2>1. QED
    BY <1>1, <1>2, SetInduction
<1>4. QED
  BY <1>3, LenProperties

(* A recursion on D with values in T: what one step, B, yields for x       *)
(* depends on a function f only where the rank is less than that of x.     *)
Recursion(B, D, T, rank) ==
    /\ T # {}
    /\ rank \in [D -> Nat]
    /\ \E m \in Nat : \A x \in D : rank[x] <= m
    /\ \A f \in [D -> T] : \A x \in D : B[<<f, x>>] \in T
    /\ \A f, g \in [D -> T] : \A x \in D :
          (\A y \in D : rank[y] < rank[x] => f[y] = g[y])
             => B[<<f, x>>] = B[<<g, x>>]

(* It defines a function.                                                  *)
LEMMA RecursionExists ==
    ASSUME NEW B, NEW D, NEW T, NEW rank, Recursion(B, D, T, rank)
    PROVE  \E f \in [D -> T] : \A x \in D : f[x] = B[<<f, x>>]
<1>0. PICK t \in T, M \in Nat : \A x \in D : rank[x] <= M
  BY DEF Recursion
<1> USE DEF Recursion
<1> DEFINE S == {n \in Nat : \E f \in [D -> T] :
                    \A x \in D : rank[x] < n => f[x] = B[<<f, x>>]}
<1>1. 0 \in S
  <2>1. [x \in D |-> t] \in [D -> T]
    OBVIOUS
  <2>2. \A x \in D : ~(rank[x] < 0)
    OBVIOUS
  <2>3. QED
    BY <2>1, <2>2
<1>2. ASSUME NEW n \in Nat, n \in S PROVE n + 1 \in S
  <2>1. PICK f \in [D -> T] : \A x \in D : rank[x] < n => f[x] = B[<<f, x>>]
    BY <1>2
  <2> DEFINE g == [x \in D |-> B[<<f, x>>]]
  <2>2. g \in [D -> T]
    OBVIOUS
  <2>3. ASSUME NEW x \in D, rank[x] < n + 1 PROVE g[x] = B[<<g, x>>]
    <3>1. ASSUME NEW y \in D, rank[y] < rank[x] PROVE f[y] = g[y]
      <4>1. rank[y] \in Nat /\ rank[x] \in Nat
        OBVIOUS
      <4>2. rank[y] < n
        BY <4>1, <3>1, <2>3
      <4>3. QED
        BY <2>1, <4>2
    <3>2. B[<<f, x>>] = B[<<g, x>>]
      BY <2>2, <3>1
    <3>3. QED
      BY <3>2
  <2> HIDE DEF g
  <2>4. QED
    BY <2>2, <2>3
<1>3. M + 1 \in S
  <2> HIDE DEF S
  <2>1. QED
    BY <1>1, <1>2, SetInduction
<1>4. PICK f \in [D -> T] : \A x \in D : rank[x] < M + 1 => f[x] = B[<<f, x>>]
  BY <1>3
<1>5. \A x \in D : f[x] = B[<<f, x>>]
  <2> SUFFICES ASSUME NEW x \in D PROVE f[x] = B[<<f, x>>]
    OBVIOUS
  <2>1. rank[x] \in Nat /\ rank[x] <= M
    BY <1>0
  <2>2. QED
    BY <1>4, <2>1
<1>6. QED
  BY <1>4, <1>5

-----------------------------------------------------------------------------
(* Texts that are appended to each other.                                  *)

(* The empty list of texts is the empty text.                              *)
LEMMA FlattenNone == Seqs!FlattenSeq(<<>>) = <<>>
BY DEF Seqs!FlattenSeq

(* The texts of a list up to the nth are appended to each other by a       *)
(* function of n.                                                          *)
Appending(s, f) ==
    f = [n \in 1 .. Len(s) |-> IF n = 1 THEN s[n] ELSE f[n - 1] \o s[n]]

(* There is one.                                                           *)
LEMMA AppendingExists ==
    ASSUME NEW C, NEW s \in Seq(Seq(C))
    PROVE  \E f \in [1 .. Len(s) -> Seq(C)] : Appending(s, f)
<1> DEFINE D == 1 .. Len(s)
           T == Seq(C)
           F == [D -> T]
           rank == [n \in D |-> n]
           Step(f, n) == IF n = 1 THEN s[n] ELSE f[n - 1] \o s[n]
           B == [p \in F \X D |-> Step(p[1], p[2])]
<1>1. Len(s) \in Nat /\ \A n \in D : s[n] \in T
  BY LenProperties, ElementOfSeq
<1>2. <<>> \in T
  BY EmptySeq
<1>3. rank \in [D -> Nat] /\ \A x \in D : rank[x] <= Len(s)
  BY <1>1
<1>4. \A x \in D : x # 1 => x - 1 \in D /\ rank[x - 1] < rank[x]
  BY <1>1
<1>5. \A f \in F, x \in D : B[<<f, x>>] = Step(f, x)
  OBVIOUS
<1> HIDE DEF B, rank, D, T
<1>6. Recursion(B, D, T, rank)
  <2>1. ASSUME NEW f \in F, NEW x \in D PROVE B[<<f, x>>] \in T
    <3>1. x # 1 => f[x - 1] \in T
      BY <1>4
    <3>2. Step(f, x) \in T
      BY <1>1, <3>1, ConcatProperties DEF T
    <3>3. QED
      BY <1>5, <3>2
  <2>2. ASSUME NEW f \in F, NEW g \in F, NEW x \in D,
               \A y \in D : rank[y] < rank[x] => f[y] = g[y]
        PROVE  B[<<f, x>>] = B[<<g, x>>]
    <3>1. Step(f, x) = Step(g, x)
      BY <1>4, <2>2
    <3>2. QED
      BY <1>5, <3>1
  <2>3. QED
    BY <1>1, <1>2, <1>3, <2>1, <2>2 DEF Recursion
<1>7. PICK f \in [D -> T] : \A x \in D : f[x] = B[<<f, x>>]
  BY <1>6, RecursionExists
<1>8. f = [x \in D |-> Step(f, x)]
  BY <1>5, <1>7, ZenonT(30)
<1>9. QED
  BY <1>7, <1>8 DEF Appending, D, T

(* s is how t begins.                                                      *)
Begins(s, t) ==
    /\ Len(s) \in Nat /\ Len(t) \in Nat /\ Len(s) <= Len(t)
    /\ \A n \in 1 .. Len(s) : s[n] = t[n]

(* Two lists that begin alike are appended alike.                          *)
LEMMA AppendingUnique ==
    ASSUME NEW s, NEW t, NEW f, NEW g, Begins(s, t),
           Appending(s, f), Appending(t, g)
    PROVE  \A n \in 1 .. Len(s) : f[n] = g[n]
<1> USE DEF Begins
<1> DEFINE S == {n \in Nat : n \in 1 .. Len(s) => f[n] = g[n]}
<1>1. 0 \in S
  OBVIOUS
<1>2. ASSUME NEW n \in Nat, n \in S PROVE n + 1 \in S
  <2> SUFFICES ASSUME n + 1 \in 1 .. Len(s) PROVE f[n + 1] = g[n + 1]
    OBVIOUS
  <2>1. n + 1 \in 1 .. Len(t) /\ s[n + 1] = t[n + 1] /\ (n + 1) - 1 = n
        /\ (n + 1 # 1 => n \in 1 .. Len(s))
    OBVIOUS
  <2>2. f[n + 1] = IF n + 1 = 1 THEN s[n + 1] ELSE f[n] \o s[n + 1]
    BY <2>1, ZenonT(30) DEF Appending
  <2>3. g[n + 1] = IF n + 1 = 1 THEN t[n + 1] ELSE g[n] \o t[n + 1]
    BY <2>1 DEF Appending
  <2>4. QED
    BY <1>2, <2>1, <2>2, <2>3
<1>3. Nat \subseteq S
  <2> HIDE DEF S
  <2>1. QED
    BY <1>1, <1>2, SetInduction
<1>4. QED
  BY <1>3

(* What a list of texts comes to.                                          *)
LEMMA FlattenIs ==
    ASSUME NEW C, NEW s \in Seq(Seq(C)), s # <<>>
    PROVE  /\ Len(s) \in Nat /\ Len(s) >= 1
           /\ \E f \in [1 .. Len(s) -> Seq(C)] :
                 Appending(s, f) /\ Seqs!FlattenSeq(s) = f[Len(s)]
<1>1. Len(s) \in Nat /\ Len(s) >= 1
  BY EmptySeq
<1>2. PICK f \in [1 .. Len(s) -> Seq(C)] : Appending(s, f)
  BY AppendingExists
<1> DEFINE g == CHOOSE g : Appending(s, g)
<1>3. Seqs!FlattenSeq(s) = g[Len(s)]
  BY <1>1 DEF Seqs!FlattenSeq, Appending
<1>4. Appending(s, g)
  BY <1>2
<1> HIDE DEF g
<1>5. Begins(s, s)
  BY <1>1 DEF Begins
<1>6. g[Len(s)] = f[Len(s)]
  <2>1. \A n \in 1 .. Len(s) : g[n] = f[n]
    BY <1>2, <1>4, <1>5, AppendingUnique
  <2>2. QED
    BY <1>1, <2>1
<1>7. QED
  BY <1>1, <1>2, <1>3, <1>6

(* It is a text.                                                           *)
LEMMA FlattenTyped ==
    ASSUME NEW C, NEW s \in Seq(Seq(C))
    PROVE  Seqs!FlattenSeq(s) \in Seq(C)
BY FlattenIs, FlattenNone, EmptySeq

(* One text more.                                                          *)
LEMMA FlattenAppend ==
    ASSUME NEW C, NEW s \in Seq(Seq(C)), NEW x \in Seq(C)
    PROVE  Seqs!FlattenSeq(Append(s, x)) = Seqs!FlattenSeq(s) \o x
<1> DEFINE t == Append(s, x)
<1>1. /\ t \in Seq(Seq(C)) /\ t # <<>> /\ Len(t) = Len(s) + 1
      /\ \A n \in 1 .. Len(s) : t[n] = s[n]
      /\ t[Len(s) + 1] = x /\ Len(s) \in Nat
  BY AppendProperties, LenProperties
<1> HIDE DEF t
<1>2. PICK g : Appending(t, g) /\ Seqs!FlattenSeq(t) = g[Len(s) + 1]
  BY <1>1, FlattenIs
<1>3. g[Len(s) + 1] = IF Len(s) + 1 = 1 THEN x ELSE g[Len(s)] \o x
  <2>1. PICK m \in Nat : m = Len(s)
    BY <1>1
  <2>2. g = [n \in 1 .. m + 1 |-> IF n = 1 THEN t[n] ELSE g[n - 1] \o t[n]]
    BY <1>1, <1>2, <2>1 DEF Appending
  <2>3. m + 1 \in 1 .. m + 1 /\ (m + 1) - 1 = m /\ t[m + 1] = x
    BY <1>1, <2>1
  <2>4. g[m + 1] = IF m + 1 = 1 THEN x ELSE g[m] \o x
    BY <2>2, <2>3
  <2>5. QED
    BY <2>1, <2>4
<1>4. CASE s = <<>>
  BY <1>2, <1>3, <1>4, FlattenNone, ConcatEmptySeq, EmptySeq DEF t
<1>5. CASE s # <<>>
  <2>1. PICK f : /\ Appending(s, f) /\ Seqs!FlattenSeq(s) = f[Len(s)]
                 /\ Len(s) >= 1
    BY <1>5, FlattenIs
  <2>2. f[Len(s)] = g[Len(s)]
    <3>1. Begins(s, t)
      BY <1>1 DEF Begins
    <3>2. Appending(s, f) /\ Appending(t, g)
      BY <1>2, <2>1
    <3>3. \A n \in 1 .. Len(s) : f[n] = g[n]
      BY <3>1, <3>2, AppendingUnique
    <3>4. QED
      BY <1>1, <2>1, <3>3
  <2>3. QED
    BY <1>1, <1>2, <1>3, <2>1, <2>2 DEF t
<1>6. QED
  BY <1>4, <1>5

(* Two lists after each other.                                             *)
LEMMA FlattenConcat ==
    ASSUME NEW C, NEW s \in Seq(Seq(C)), NEW t \in Seq(Seq(C))
    PROVE  Seqs!FlattenSeq(s \o t) = Seqs!FlattenSeq(s) \o Seqs!FlattenSeq(t)
<1> DEFINE T == Seq(C)
           S == {r \in Seq(T) :
                    Seqs!FlattenSeq(s \o r)
                        = Seqs!FlattenSeq(s) \o Seqs!FlattenSeq(r)}
<1>1. <<>> \in S
  BY FlattenNone, FlattenTyped, ConcatEmptySeq, EmptySeq
<1>2. ASSUME NEW r \in Seq(T), NEW x \in T, r \in S
      PROVE  Append(r, x) \in S
  <2>1. /\ Append(r, x) \in Seq(T) /\ s \o r \in Seq(T)
        /\ s \o Append(r, x) = Append(s \o r, x)
    <3>1. /\ Append(r, x) = r \o <<x>> /\ <<x>> \in Seq(T)
          /\ s \o r \in Seq(T) /\ Append(r, x) \in Seq(T)
      BY AppendIsConcat, AppendProperties, ConcatProperties
    <3>2. s \o (r \o <<x>>) = (s \o r) \o <<x>>
      BY <3>1, ConcatAssociative
    <3>3. QED
      BY <3>1, <3>2, AppendIsConcat
  <2>2. Seqs!FlattenSeq(s \o Append(r, x)) = Seqs!FlattenSeq(s \o r) \o x
    BY <2>1, FlattenAppend
  <2>3. @ = (Seqs!FlattenSeq(s) \o Seqs!FlattenSeq(r)) \o x
    BY <1>2
  <2>4. @ = Seqs!FlattenSeq(s) \o (Seqs!FlattenSeq(r) \o x)
    <3>1. /\ Seqs!FlattenSeq(s) \in Seq(C) /\ Seqs!FlattenSeq(r) \in Seq(C)
          /\ x \in Seq(C)
      BY FlattenTyped
    <3>2. QED
      BY ONLY <3>1, ConcatAssociative
  <2>5. @ = Seqs!FlattenSeq(s) \o Seqs!FlattenSeq(Append(r, x))
    BY FlattenAppend
  <2>6. QED
    BY <2>1, <2>2, <2>3, <2>4, <2>5
<1>3. Seq(T) \subseteq S
  <2> HIDE DEF S, T
  <2>1. QED
    BY <1>1, <1>2, SeqInduction
<1>4. QED
  BY <1>3

(* One text.                                                               *)
LEMMA FlattenOne ==
    ASSUME NEW C, NEW x \in Seq(C)
    PROVE  Seqs!FlattenSeq(<<x>>) = x
<1>1. <<>> \in Seq(Seq(C)) /\ Append(<<>>, x) = <<x>>
  BY EmptySeq
<1>2. Seqs!FlattenSeq(Append(<<>>, x)) = Seqs!FlattenSeq(<<>>) \o x
  BY <1>1, FlattenAppend
<1>3. QED
  BY <1>1, <1>2, FlattenNone, ConcatEmptySeq

(* A text before a list of them.                                           *)
LEMMA FlattenFront ==
    ASSUME NEW C, NEW x \in Seq(C), NEW s \in Seq(Seq(C))
    PROVE  Seqs!FlattenSeq(<<x>> \o s) = x \o Seqs!FlattenSeq(s)
<1>1. <<x>> \in Seq(Seq(C))
  OBVIOUS
<1>2. Seqs!FlattenSeq(<<x>> \o s) = Seqs!FlattenSeq(<<x>>) \o Seqs!FlattenSeq(s)
  BY <1>1, FlattenConcat
<1>3. QED
  BY <1>2, FlattenOne

(* Two elements are one after one.                                         *)
LEMMA PairIsConcat ==
    ASSUME NEW x, NEW y
    PROVE  <<x, y>> = <<x>> \o <<y>>
<1> DEFINE S == {x, y}
<1>1. <<x>> \in Seq(S) /\ <<y>> \in Seq(S) /\ <<x, y>> \in Seq(S)
      /\ Len(<<x>>) = 1 /\ Len(<<y>>) = 1 /\ Len(<<x, y>>) = 2
  OBVIOUS
<1>2. /\ <<x>> \o <<y>> \in Seq(S) /\ Len(<<x>> \o <<y>>) = 2
      /\ \A i \in 1 .. 2 : (<<x>> \o <<y>>)[i] = <<x, y>>[i]
  BY <1>1, ConcatProperties
<1> HIDE DEF S
<1>3. QED
  BY <1>1, <1>2, SeqEqual

(* Two texts.                                                              *)
LEMMA FlattenTwo ==
    ASSUME NEW C, NEW x \in Seq(C), NEW y \in Seq(C)
    PROVE  Seqs!FlattenSeq(<<x, y>>) = x \o y
<1>1. <<y>> \in Seq(Seq(C))
  OBVIOUS
<1>2. Seqs!FlattenSeq(<<x>> \o <<y>>) = x \o Seqs!FlattenSeq(<<y>>)
  BY <1>1, FlattenFront
<1>3. QED
  BY <1>2, PairIsConcat, FlattenOne

(* A list up to its nth text, and the rest of it.                          *)
LEMMA FlattenCut ==
    ASSUME NEW C, NEW s \in Seq(Seq(C)), NEW n \in 0 .. Len(s)
    PROVE  /\ SubSeq(s, 1, n) \in Seq(Seq(C))
           /\ SubSeq(s, n + 1, Len(s)) \in Seq(Seq(C))
           /\ Seqs!FlattenSeq(s) = Seqs!FlattenSeq(SubSeq(s, 1, n))
                                      \o Seqs!FlattenSeq(SubSeq(s, n + 1, Len(s)))
<1> DEFINE T == Seq(C)
<1>1. Len(s) \in Nat /\ \A i \in 1 .. Len(s) : s[i] \in T
  BY LenProperties, ElementOfSeq
<1> HIDE DEF T
<1>2. SubSeq(s, 1, n) \in Seq(T)
  <2>1. \A i \in 1 .. n : s[i] \in T
    BY <1>1
  <2>2. QED
    BY <2>1, SubSeqProperties
<1>3. SubSeq(s, n + 1, Len(s)) \in Seq(T)
  <2>1. \A i \in n + 1 .. Len(s) : s[i] \in T
    BY <1>1
  <2>2. n + 1 \in Int /\ Len(s) \in Int
    BY <1>1
  <2>3. QED
    BY <2>1, <2>2, SubSeqProperties
<1>4. SubSeq(s, 1, n) \o SubSeq(s, n + 1, Len(s)) = SubSeq(s, 1, Len(s))
  <2>1. s \in Seq(T) /\ 1 \in 1 .. Len(s) + 1 /\ n \in 1 - 1 .. Len(s)
        /\ Len(s) \in n .. Len(s)
    BY <1>1 DEF T
  <2>2. QED
    BY <2>1, ConcatAdjacentSubSeq
<1>5. SubSeq(s, 1, Len(s)) = s
  BY SubSeqFull
<1>6. QED
  BY <1>2, <1>3, <1>4, <1>5, FlattenConcat, ZenonT(30) DEF T

(* A list up to its nth text, and the next.                                *)
LEMMA FlattenNext ==
    ASSUME NEW C, NEW s \in Seq(Seq(C)), NEW n \in Nat, n + 1 <= Len(s)
    PROVE  /\ Seqs!FlattenSeq(SubSeq(s, 1, n)) \in Seq(C)
           /\ s[n + 1] \in Seq(C)
           /\ Seqs!FlattenSeq(SubSeq(s, 1, n + 1))
                 = Seqs!FlattenSeq(SubSeq(s, 1, n)) \o s[n + 1]
<1> DEFINE T == Seq(C)
<1>1. /\ Len(s) \in Nat /\ n \in 0 .. Len(s) /\ n + 1 \in 1 .. Len(s)
      /\ 1 \in 1 .. Len(s) /\ n + 1 \in 1 .. Len(s) /\ (n + 1) - 1 = n
  BY LenProperties
<1>2. SubSeq(s, 1, n) \in Seq(T) /\ s[n + 1] \in T
  BY <1>1, FlattenCut, ElementOfSeq
<1>3. SubSeq(s, 1, n + 1) = SubSeq(s, 1, n) \o <<s[n + 1]>>
  <2>1. n + 1 \in 1 .. Len(s) /\ s \in Seq(T)
    BY <1>1
  <2>2. PICK m \in 1 .. Len(s) : m = n + 1 /\ m \in 1 .. Len(s)
    BY <2>1
  <2>3. SubSeq(s, 1, m) = SubSeq(s, 1, m - 1) \o <<s[m]>>
    BY <1>1, <2>1, <2>2, SubSeqRecursiveSecond
  <2>4. QED
    BY <1>1, <2>2, <2>3
<1> HIDE DEF T
<1>4. SubSeq(s, 1, n + 1) = Append(SubSeq(s, 1, n), s[n + 1])
  BY <1>2, <1>3, AppendIsConcat
<1>5. QED
  BY <1>2, <1>4, FlattenAppend, FlattenTyped DEF T

-----------------------------------------------------------------------------
(* Depth: how many ancestors a node has.                                   *)

(* How deep a node is.                                                     *)
Depth(h, i) == Cardinality(Ancestors(h, i))

(* Walks to the root are finite.                                           *)
LEMMA DepthCounts ==
    ASSUME NEW h, NEW i
    PROVE  /\ IsFiniteSet(Ancestors(h, i))
           /\ Depth(h, i) \in Nat /\ Depth(h, i) <= Capacity
<1>1. IsFiniteSet(Addresses) /\ Cardinality(Addresses) <= Capacity
  BY FS_Interval, SizesAssumption DEF Addresses
<1>2. Ancestors(h, i) \in SUBSET Addresses
  BY ReachIds DEF Ancestors, Ids
<1>3. IsFiniteSet(Ancestors(h, i))
      /\ Cardinality(Ancestors(h, i)) <= Cardinality(Addresses)
  BY <1>1, <1>2, FS_Subset
<1>4. Cardinality(Ancestors(h, i)) \in Nat /\ Cardinality(Addresses) \in Nat
  BY <1>1, <1>3, FS_CardinalityType
<1>5. QED
  BY <1>1, <1>3, <1>4, SizesAssumption DEF Depth

(* A child is one deeper than its parent.                                  *)
LEMMA DepthOfChild ==
    ASSUME NEW h, HeapOK(h), NEW i \in Live(h), h.parent[i] \in Live(h)
    PROVE  Depth(h, i) = Depth(h, h.parent[i]) + 1
<1>1. /\ Ancestors(h, i) = Ancestors(h, h.parent[i]) \cup {i}
      /\ i \notin Ancestors(h, h.parent[i])
  BY AncestorsOfChild
<1>2. IsFiniteSet(Ancestors(h, h.parent[i]))
  BY DepthCounts
<1>3. QED
  BY <1>1, <1>2, FS_AddElement DEF Depth

(* What is below a node is no less deep.                                   *)
LEMMA BelowIsDeeper ==
    ASSUME NEW h, HeapOK(h), NEW root \in Live(h), NEW i \in Below(h, root)
    PROVE  Depth(h, root) <= Depth(h, i)
<1>1. i \in Ids /\ root \in Ancestors(h, i)
  BY LinksStayLive DEF Below
<1>2. Ancestors(h, root) \in SUBSET Ancestors(h, i)
  BY <1>1, ReachTransitive DEF Ancestors
<1>3. QED
  BY <1>2, DepthCounts, FS_Subset DEF Depth

-----------------------------------------------------------------------------
(* The children of a container.                                            *)

(* How many nodes there are from c on in the list it is on.                *)
Following(h, c) == Cardinality(Reach(h.next, c))

(* The nodes of a list are finitely many, and one fewer from the next on.  *)
LEMMA FollowingCounts ==
    ASSUME NEW h, HeapOK(h)
    PROVE  /\ \A c : Following(h, c) \in Nat /\ Following(h, c) <= Capacity
           /\ \A c \in Live(h) : Following(h, h.next[c]) < Following(h, c)
<1>1. IsFiniteSet(Addresses) /\ Cardinality(Addresses) <= Capacity
  BY FS_Interval, SizesAssumption DEF Addresses
<1>2. ASSUME NEW c
      PROVE  /\ IsFiniteSet(Reach(h.next, c))
             /\ Following(h, c) \in Nat /\ Following(h, c) <= Capacity
  <2>1. Reach(h.next, c) \in SUBSET Addresses
    BY ReachIds DEF Ids
  <2>2. /\ IsFiniteSet(Reach(h.next, c))
        /\ Cardinality(Reach(h.next, c)) <= Cardinality(Addresses)
    BY <1>1, <2>1, FS_Subset
  <2>3. QED
    BY <1>1, <2>2, FS_CardinalityType, SizesAssumption DEF Following
<1>3. ASSUME NEW c \in Live(h)
      PROVE  Following(h, h.next[c]) < Following(h, c)
  <2> DEFINE S == Reach(h.next, h.next[c])
             T == Reach(h.next, c)
  <2>1. c \in Ids /\ c \in T
    BY LinksStayLive, ReachStart
  <2>2. S \subseteq T
    <3>1. h.next[c] \in Ids => h.next[c] \in T
      BY <2>1, ReachStep
    <3>2. QED
      BY <2>1, <3>1, ReachTransitive, ReachNil
  <2>3. c \notin S
    <3> SUFFICES ASSUME c \in S PROVE FALSE
      OBVIOUS
    <3>1. h.next[c] \in Ids
      BY ReachNil
    <3>2. h.next[c] \in Live(h) /\ h.next[c] \in T
      BY <2>1, <3>1, LinksStayLive, IdsBelowNil, ReachStep
    <3>3. QED
      BY <3>2, OrderAntisymmetric, NextIsOther
  <2>4. IsFiniteSet(T) /\ Cardinality(T) \in Nat /\ Cardinality(S) \in Nat
    BY <1>2 DEF Following
  <2> HIDE DEF S, T
  <2>5. Cardinality(S) <= Cardinality(T) /\ Cardinality(S) # Cardinality(T)
    BY <2>1, <2>2, <2>3, <2>4, FS_Subset
  <2>6. QED
    BY <2>4, <2>5 DEF Following, S, T
<1>4. QED
  BY <1>2, <1>3

(* The lists of children, by the node they begin with.                     *)
Listing(h, chain) ==
    chain = [c \in Live(h) \cup {Nil} |->
                IF c = Nil THEN <<>> ELSE <<c>> \o chain[h.next[c]]]

(* There are such lists.                                                   *)
LEMMA ListingExists ==
    ASSUME NEW h, HeapOK(h)
    PROVE  \E chain : Listing(h, chain)
<1> DEFINE D == Live(h) \cup {Nil}
           T == Seq(Live(h))
           F == [D -> T]
           rank == [c \in D |-> Following(h, c)]
           Step(f, c) == IF c = Nil THEN <<>> ELSE <<c>> \o f[h.next[c]]
           B == [p \in F \X D |-> Step(p[1], p[2])]
<1>1. <<>> \in T /\ \A c \in Live(h) : <<c>> \in T
  BY EmptySeq
<1>2. rank \in [D -> Nat] /\ \A c \in D : rank[c] <= Capacity
  BY FollowingCounts
<1>3. \A c \in D : c # Nil => h.next[c] \in D /\ rank[h.next[c]] < rank[c]
  BY FollowingCounts, LinksStayLive
<1>4. \A f \in F, c \in D : B[<<f, c>>] = Step(f, c)
  OBVIOUS
<1>5. \A c \in D : c # Nil => <<c>> \in T
  BY <1>1
<1> HIDE DEF B, rank, D, T
<1>6. Recursion(B, D, T, rank)
  <2>1. ASSUME NEW f \in F, NEW c \in D PROVE B[<<f, c>>] \in T
    <3>1. c # Nil => f[h.next[c]] \in T /\ <<c>> \in T
      BY <1>3, <1>5
    <3>2. Step(f, c) \in T
      BY <1>1, <3>1, ConcatProperties DEF T
    <3>3. QED
      BY <1>4, <3>2
  <2>2. ASSUME NEW f \in F, NEW g \in F, NEW c \in D,
               \A y \in D : rank[y] < rank[c] => f[y] = g[y]
        PROVE  B[<<f, c>>] = B[<<g, c>>]
    <3>1. Step(f, c) = Step(g, c)
      BY <1>3, <2>2
    <3>2. QED
      BY <1>4, <3>1
  <2>3. T # {} /\ \E m \in Nat : \A c \in D : rank[c] <= m
    BY <1>1, <1>2, IdsBelowNil
  <2>4. QED
    BY <1>2, <2>1, <2>2, <2>3 DEF Recursion
<1>7. PICK f \in [D -> T] : \A x \in D : f[x] = B[<<f, x>>]
  BY <1>6, RecursionExists
<1>8. f = [x \in D |-> Step(f, x)]
  BY <1>4, <1>7
<1>9. QED
  BY <1>8 DEF Listing, D

(* The children from c on are c and those from the next on; all of them    *)
(* come no earlier than c in the list it is on.                            *)
LEMMA ChildrenUnfold ==
    ASSUME NEW h, HeapOK(h)
    PROVE  /\ ChildrenFrom(h, Nil) = <<>>
           /\ \A c \in Live(h) :
                 /\ ChildrenFrom(h, c) = <<c>> \o ChildrenFrom(h, h.next[c])
                 /\ ChildrenFrom(h, c) \in Seq(Reach(h.next, c))
<1> DEFINE chain == CHOOSE chain : Listing(h, chain)
           D == Live(h) \cup {Nil}
<1>1. \A c : ChildrenFrom(h, c) = chain[c]
  BY DEF ChildrenFrom, Listing
<1>2. Listing(h, chain)
  BY ListingExists
<1> HIDE DEF chain
<1>3. \A c \in D : chain[c] = IF c = Nil THEN <<>> ELSE <<c>> \o chain[h.next[c]]
  BY <1>2 DEF Listing
<1>4. Nil \notin Live(h) /\ Live(h) \subseteq Ids
  BY IdsBelowNil, LinksStayLive
<1> DEFINE S == {c \in D : chain[c] \in Seq(Reach(h.next, c))}
           rank == [c \in D |-> Following(h, c)]
<1>5. ASSUME NEW c \in D, \A y \in D : rank[y] < rank[c] => y \in S
      PROVE  c \in S
  <2>1. CASE c = Nil
    BY <1>3, <2>1, EmptySeq
  <2>2. CASE c # Nil
    <3>1. c \in Live(h) /\ h.next[c] \in D /\ rank[h.next[c]] < rank[c]
      BY <2>2, FollowingCounts, LinksStayLive
    <3>2. chain[h.next[c]] \in Seq(Reach(h.next, h.next[c]))
      BY <1>5, <3>1
    <3>3. Reach(h.next, h.next[c]) \subseteq Reach(h.next, c)
          /\ c \in Reach(h.next, c)
      BY <1>4, <3>1, ReachStart, ReachStep, ReachTransitive, ReachNil
    <3>4. chain[h.next[c]] \in Seq(Reach(h.next, c))
          /\ <<c>> \in Seq(Reach(h.next, c))
      BY <3>2, <3>3, SeqMonotonic
    <3>5. <<c>> \o chain[h.next[c]] \in Seq(Reach(h.next, c))
      BY <3>4, ConcatProperties
    <3>6. QED
      BY <1>3, <2>2, <3>5
  <2>3. QED
    BY <2>1, <2>2
<1>6. D \subseteq S
  <2>1. rank \in [D -> Nat]
    BY FollowingCounts
  <2> HIDE DEF S, rank, D
  <2>2. QED
    BY <1>5, <2>1, RankInduction
<1>7. ASSUME NEW c \in Live(h)
      PROVE  /\ ChildrenFrom(h, c) = <<c>> \o ChildrenFrom(h, h.next[c])
             /\ ChildrenFrom(h, c) \in Seq(Reach(h.next, c))
  <2>1. chain[c] = <<c>> \o chain[h.next[c]]
    BY <1>3, <1>4
  <2>2. chain[c] \in Seq(Reach(h.next, c))
    BY <1>6
  <2>3. QED
    BY <1>1, <2>1, <2>2
<1>8. ChildrenFrom(h, Nil) = <<>>
  BY <1>1, <1>3
<1>9. QED
  BY <1>7, <1>8

-----------------------------------------------------------------------------
(* Characters.                                                             *)

(* What texts are made of; a leaf that is no string is one character.      *)
Chars == Bytes \cup {Junk} \cup ValueTypes
            \cup {"\"", "\\", "{", "}", "[", "]", ",", ":", " ", "\n"}

(* Texts after each other, for the provers to see as one term, and what    *)
(* is a text or a string, for them to look no further.                     *)
Cat(a, b) == a \o b

AText(s) == s \in Seq(Chars)

AString(text) == text \in Seq(Bytes \cup {Junk})

(* The text of a single character.                                         *)
One(c) == <<c>>

Comma == One(",")
Pair == One(":")
Quote == One("\"")
Blank == One(" ")
Break == One("\n")
Slash == One("\\")

(* What becomes of texts that are put after each other.                    *)
LEMMA CatTyped ==
    ASSUME NEW a, NEW b, AText(a), AText(b)
    PROVE  /\ AText(Cat(a, b))
           /\ Len(a) \in Nat /\ Len(b) \in Nat
           /\ Len(Cat(a, b)) = Len(a) + Len(b)
BY ConcatProperties, LenProperties DEF AText, Cat

(* It does not matter which are put together first.                        *)
LEMMA CatAssociative ==
    ASSUME NEW a, NEW b, NEW c, AText(a), AText(b), AText(c)
    PROVE  Cat(Cat(a, b), c) = Cat(a, Cat(b, c))
BY ConcatAssociative DEF AText, Cat

(* Nothing before or after a text leaves it as it is.                      *)
LEMMA CatNothing ==
    /\ AText(<<>>) /\ Len(<<>>) = 0
    /\ \A a : AText(a) => Cat(a, <<>>) = a /\ Cat(<<>>, a) = a
BY ConcatEmptySeq, EmptySeq DEF AText, Cat

(* Two characters.                                                         *)
LEMMA PairIsCat ==
    \A x, y : <<x, y>> = Cat(One(x), One(y))
BY PairIsConcat DEF Cat, One

(* The single characters.                                                  *)
LEMMA PunctuationTyped ==
    /\ AText(Comma) /\ AText(Pair) /\ AText(Quote) /\ AText(Blank)
    /\ AText(Break) /\ AText(Slash)
    /\ \A t : AText(One(Opening(t))) /\ AText(One(Closing(t)))
    /\ \A t \in ValueTypes : AText(One(t))
    /\ \A t \in Bytes \cup {Junk} : AText(One(t))
<1>1. \A c \in Chars : AText(One(c))
  BY DEF AText, One
<1>2. AText(Comma)
  <2>1. "," \in Chars
    BY Zenon DEF Chars
  <2>2. QED
    BY <1>1, <2>1, Zenon DEF Comma
<1>3. AText(Pair)
  <2>1. ":" \in Chars
    BY Zenon DEF Chars
  <2>2. QED
    BY <1>1, <2>1, Zenon DEF Pair
<1>4. AText(Quote)
  <2>1. "\"" \in Chars
    BY Zenon DEF Chars
  <2>2. QED
    BY <1>1, <2>1, Zenon DEF Quote
<1>5. AText(Blank)
  <2>1. " " \in Chars
    BY Zenon DEF Chars
  <2>2. QED
    BY <1>1, <2>1, Zenon DEF Blank
<1>6. AText(Break)
  <2>1. "\n" \in Chars
    BY Zenon DEF Chars
  <2>2. QED
    BY <1>1, <2>1, Zenon DEF Break
<1>7. AText(Slash)
  <2>1. "\\" \in Chars
    BY Zenon DEF Chars
  <2>2. QED
    BY <1>1, <2>1, Zenon DEF Slash
<1>8. \A t : AText(One(Opening(t))) /\ AText(One(Closing(t)))
  <2>1. "{" \in Chars
    BY Zenon DEF Chars
  <2>2. "[" \in Chars
    BY Zenon DEF Chars
  <2>3. "}" \in Chars
    BY Zenon DEF Chars
  <2>4. "]" \in Chars
    BY Zenon DEF Chars
  <2>5. \A t : Opening(t) \in Chars /\ Closing(t) \in Chars
    BY <2>1, <2>2, <2>3, <2>4, Zenon DEF Opening, Closing
  <2>6. QED
    BY <1>1, <2>5
<1>9. Bytes \cup {Junk} \subseteq Chars /\ ValueTypes \subseteq Chars
  BY Zenon DEF Chars
<1>10. QED
  BY <1>1, <1>2, <1>3, <1>4, <1>5, <1>6, <1>7, <1>8, <1>9

(* How texts can be laid out.                                              *)
AForm(form) == form \in [pretty : BOOLEAN, indent : Nat]

(* The bytes of a text, each as it is written.                             *)
Escapes(text) == [k \in DOMAIN text |-> Escape(text[k])]

(* A byte is written as a text.                                            *)
LEMMA EscapeTyped ==
    ASSUME NEW byte \in Bytes \cup {Junk}
    PROVE  /\ Escape(byte) = IF byte \in Escaped THEN Cat(Slash, One(byte))
                             ELSE One(byte)
           /\ AText(Escape(byte))
<1>1. Escape(byte) = IF byte \in Escaped THEN Cat(Slash, One(byte)) ELSE One(byte)
  BY PairIsCat, Zenon DEF Escape, One, Slash
<1>2. QED
  BY <1>1, PunctuationTyped, CatTyped

(* A function, for the provers to see as one.                              *)
Maps(f, A, T) == f \in [A -> T]

(* A function on the first numbers is a sequence.                          *)
LEMMA MapsIsSeq ==
    ASSUME NEW T, NEW n \in Nat, NEW f, Maps(f, 1 .. n, T)
    PROVE  f \in Seq(T) /\ Len(f) = n /\ DOMAIN f = 1 .. n
<1>1. f \in [1 .. n -> T]
  BY DEF Maps
<1>2. f \in Seq(T)
  BY <1>1, SeqDef
<1>3. QED
  BY <1>1, <1>2, LenProperties

(* The bytes as they are written are texts.                                *)
LEMMA EscapesTyped ==
    ASSUME NEW text, AString(text)
    PROVE  /\ Escapes(text) \in Seq(Seq(Chars))
           /\ Len(Escapes(text)) = Len(text) /\ Len(text) \in Nat
           /\ \A k \in 1 .. Len(text) :
                 /\ text[k] \in Bytes \cup {Junk}
                 /\ Escapes(text)[k] = Escape(text[k])
<1> DEFINE T == Seq(Chars)
<1>1. Len(text) \in Nat /\ DOMAIN text = 1 .. Len(text)
      /\ \A k \in 1 .. Len(text) : text[k] \in Bytes \cup {Junk}
  BY LenProperties, ElementOfSeq DEF AString
<1>2. \A k \in 1 .. Len(text) : Escape(text[k]) \in T
  BY <1>1, EscapeTyped DEF AText
<1> HIDE DEF T
<1>3. Escapes(text) = [k \in 1 .. Len(text) |-> Escape(text[k])]
  BY <1>1 DEF Escapes
<1>4. Maps(Escapes(text), 1 .. Len(text), T)
  BY <1>2, <1>3 DEF Maps
<1>5. QED
  BY <1>1, <1>3, <1>4, MapsIsSeq DEF T

(* A text in quotes is one.                                                *)
LEMMA QuotedTyped ==
    ASSUME NEW text, AString(text)
    PROVE  /\ AText(Seqs!FlattenSeq(Escapes(text)))
           /\ AText(Quoted(text))
           /\ Quoted(text) = Cat(Cat(Quote, Seqs!FlattenSeq(Escapes(text))),
                                 Quote)
<1>1. AText(Seqs!FlattenSeq(Escapes(text)))
  BY EscapesTyped, FlattenTyped DEF AText
<1>2. Quoted(text) = Cat(Cat(Quote, Seqs!FlattenSeq(Escapes(text))), Quote)
  BY Zenon DEF Quoted, Escapes, Cat, One, Quote
<1>3. QED
  BY <1>1, <1>2, PunctuationTyped, CatTyped

(* What is read from the storage is a text.                                *)
LEMMA ViewIsString ==
    ASSUME NEW h, h \in Heaps, NEW ref \in StringRefs
    PROVE  AString(ViewString(h, ref))
<1>1. /\ ref.off \in Nat /\ ref.len \in Nat /\ Capacity \in Nat
      /\ h.mem \in [Addresses -> Bytes \cup {Junk}]
  BY IdsBelowNil DEF StringRefs, Heaps
<1>2. CASE ref.off > Capacity \/ ref.len > Capacity - ref.off
  BY <1>2, EmptySeq DEF ViewString, AString
<1>3. CASE ref.off + ref.len <= Capacity
  <2>1. \A k \in 1 .. ref.len : ref.off + k - 1 \in Addresses
    BY <1>1, <1>3 DEF Addresses
  <2>2. Maps([k \in 1 .. ref.len |-> h.mem[ref.off + k - 1]],
             1 .. ref.len, Bytes \cup {Junk})
    BY <1>1, <2>1 DEF Maps
  <2>3. [k \in 1 .. ref.len |-> h.mem[ref.off + k - 1]]
           \in Seq(Bytes \cup {Junk})
    <3> DEFINE C == Bytes \cup {Junk}
               f == [k \in 1 .. ref.len |-> h.mem[ref.off + k - 1]]
    <3> HIDE DEF C, f
    <3>1. QED
      BY <1>1, <2>2, MapsIsSeq DEF C, f
  <2>4. QED
    BY <1>1, <1>3, <2>3 DEF ViewString, AString
<1>4. QED
  BY <1>1, <1>2, <1>3

(* So is what a node refers to.                                            *)
LEMMA ViewTyped ==
    ASSUME NEW h, h \in Heaps, NEW i \in Ids
    PROVE  /\ AString(ViewString(h, h.key[i]))
           /\ AString(ViewString(h, h.value[i]))
<1>1. h.key[i] \in StringRefs /\ h.value[i] \in StringRefs
  BY DEF Heaps
<1>2. QED
  BY <1>1, ViewIsString

(* The layout.                                                             *)
LEMMA LayoutTyped ==
    ASSUME NEW form, AForm(form)
    PROVE  /\ AText(Colon(form))
           /\ \A d \in Nat : /\ AText(Spaces(d * form.indent))
                             /\ AText(NewLine(form, d))
<1>1. AText(Colon(form))
  <2>1. Colon(form) = IF form.pretty THEN Cat(Pair, Blank) ELSE Pair
    BY PairIsCat, Zenon DEF One, Blank, Pair, Colon
  <2>2. AText(Cat(Pair, Blank))
    BY PunctuationTyped, CatTyped
  <2>3. QED
    BY <2>1, <2>2, PunctuationTyped
<1>2. ASSUME NEW d \in Nat
      PROVE  AText(Spaces(d * form.indent)) /\ AText(NewLine(form, d))
  <2>1. d * form.indent \in Nat
    BY DEF AForm
  <2>2. PICK n \in Nat : n = d * form.indent
    BY <2>1
  <2>3. Maps(Spaces(n), 1 .. n, Chars)
    <3>1. " " \in Chars
      BY Zenon DEF Chars
    <3>2. QED
      BY <3>1, Zenon DEF Spaces, Maps
  <2>4. AText(Spaces(n)) /\ Len(Spaces(n)) = n
    BY <2>3, MapsIsSeq DEF AText
  <2>5. NewLine(form, d) = IF form.pretty THEN Cat(Break, Spaces(n)) ELSE <<>>
    BY <2>2, Zenon DEF NewLine, Cat, One, Break
  <2>6. AText(Cat(Break, Spaces(n)))
    BY <2>4, PunctuationTyped, CatTyped
  <2>7. QED
    BY <2>2, <2>4, <2>5, <2>6, CatNothing
<1>3. QED
  BY <1>1, <1>2

(* What a child starts with.                                               *)
LEMMA LabelTyped ==
    ASSUME NEW h, HeapOK(h), NEW form, AForm(form), NEW i, NEW c \in Live(h)
    PROVE  AText(Label(h, form, i, c))
<1>1. AText(Quoted(ViewString(h, h.key[c])))
  BY LinksStayLive, ViewTyped, QuotedTyped DEF HeapOK
<1>2. Label(h, form, i, c)
         = IF h.type[i] = "Object"
           THEN Cat(Quoted(ViewString(h, h.key[c])), Colon(form)) ELSE <<>>
  BY DEF Label, Cat
<1>3. QED
  BY <1>1, <1>2, LayoutTyped, CatTyped, CatNothing

-----------------------------------------------------------------------------
(* The text of a node, by those of its children.                           *)

(* One element in front of a sequence.                                     *)
LEMMA FrontIs ==
    ASSUME NEW T, NEW x \in T, NEW p \in Seq(T)
    PROVE  /\ <<x>> \o p \in Seq(T)
           /\ Len(p) \in Nat /\ DOMAIN p = 1 .. Len(p)
           /\ Len(<<x>> \o p) = 1 + Len(p)
           /\ DOMAIN (<<x>> \o p) = 1 .. 1 + Len(p)
           /\ \A k \in 1 .. 1 + Len(p) :
                 (<<x>> \o p)[k] = IF k = 1 THEN x ELSE p[k - 1]
<1>1. <<x>> \in Seq(T) /\ Len(<<x>>) = 1 /\ <<x>>[1] = x
  OBVIOUS
<1>2. Len(p) \in Nat /\ DOMAIN p = 1 .. Len(p)
  BY LenProperties
<1>3. /\ <<x>> \o p \in Seq(T) /\ Len(<<x>> \o p) = Len(<<x>>) + Len(p)
      /\ \A k \in 1 .. Len(<<x>>) + Len(p) :
            (<<x>> \o p)[k] = IF k <= Len(<<x>>) THEN <<x>>[k]
                              ELSE p[k - Len(<<x>>)]
  BY <1>1, ConcatProperties
<1>4. \A k \in 1 .. 1 + Len(p) : (k <= 1 <=> k = 1) /\ (k = 1 => <<x>>[k] = x)
  BY <1>1, <1>2
<1>5. DOMAIN (<<x>> \o p) = 1 .. 1 + Len(p)
  BY <1>1, <1>3, LenProperties
<1>6. QED
  BY <1>1, <1>2, <1>3, <1>4, <1>5

(* An element in front, for the provers to see as one term.                *)
Front(a, s) == <<a>> \o s

(* The first element of one sequence and the others of another.            *)
Mixed(u, v) == [k \in DOMAIN u |-> IF k = 1 THEN u[k] ELSE v[k]]

(* What that comes to.                                                     *)
LEMMA FirstOfOther ==
    ASSUME NEW T, NEW x \in T, NEW y \in T, NEW p \in Seq(T), NEW q \in Seq(T),
           Len(p) = Len(q), NEW u, NEW v, u = Front(x, p), v = Front(y, q)
    PROVE  Mixed(u, v) = Front(x, q)
<1> USE DEF Front
<1> DEFINE m == [k \in DOMAIN u |-> IF k = 1 THEN u[k] ELSE v[k]]
<1>1. /\ Len(q) \in Nat /\ DOMAIN u = 1 .. 1 + Len(q)
      /\ \A k \in 1 .. 1 + Len(q) :
            /\ u[k] = IF k = 1 THEN x ELSE p[k - 1]
            /\ v[k] = IF k = 1 THEN y ELSE q[k - 1]
            /\ u[k] \in T /\ v[k] \in T
  <2>1. /\ u \in Seq(T) /\ DOMAIN u = 1 .. 1 + Len(p) /\ Len(u) = 1 + Len(p)
        /\ \A k \in 1 .. 1 + Len(p) : u[k] = IF k = 1 THEN x ELSE p[k - 1]
    BY FrontIs
  <2>2. /\ v \in Seq(T) /\ Len(q) \in Nat /\ Len(v) = 1 + Len(q)
        /\ \A k \in 1 .. 1 + Len(q) : v[k] = IF k = 1 THEN y ELSE q[k - 1]
    BY FrontIs
  <2>3. QED
    BY <2>1, <2>2, ElementOfSeq
<1> DEFINE w == <<x>> \o q
<1>2. /\ w \in Seq(T) /\ Len(w) = 1 + Len(q)
      /\ \A k \in 1 .. 1 + Len(q) : w[k] = IF k = 1 THEN x ELSE q[k - 1]
  BY FrontIs
<1>3. m \in [1 .. 1 + Len(q) -> T]
  BY <1>1
<1>4. \A k \in 1 .. 1 + Len(q) : m[k] = w[k]
  BY <1>1, <1>2
<1> HIDE DEF m, w
<1>5. m \in Seq(T) /\ Len(m) = 1 + Len(q)
  BY <1>1, <1>3, SeqDef, LenProperties
<1>6. m = w
  BY <1>2, <1>4, <1>5, SeqEqual
<1>7. QED
  BY <1>6 DEF m, w, Mixed

(* The values of a function along a sequence.                              *)
Each(f, s) == [k \in DOMAIN s |-> f[s[k]]]

(* They are a sequence.                                                    *)
LEMMA EachTyped ==
    ASSUME NEW A, NEW T, NEW f, Maps(f, A, T), NEW s \in Seq(A)
    PROVE  /\ Each(f, s) \in Seq(T) /\ Len(Each(f, s)) = Len(s)
           /\ DOMAIN Each(f, s) = DOMAIN s
<1>1. Len(s) \in Nat /\ DOMAIN s = 1 .. Len(s)
      /\ \A k \in 1 .. Len(s) : s[k] \in A
  BY LenProperties, ElementOfSeq
<1>2. Each(f, s) \in [1 .. Len(s) -> T]
  BY <1>1 DEF Each, Maps
<1>3. Each(f, s) \in Seq(T)
  BY <1>1, <1>2, SeqDef
<1>4. QED
  BY <1>1, <1>2, <1>3, LenProperties

(* One more in front.                                                      *)
LEMMA EachFront ==
    ASSUME NEW A, NEW T, NEW f, Maps(f, A, T), NEW a \in A, NEW s \in Seq(A)
    PROVE  Each(f, Front(a, s)) = Front(f[a], Each(f, s))
<1> DEFINE all == <<a>> \o s
           e == Each(f, s)
           u == <<f[a]>> \o e
<1>1. /\ all \in Seq(A) /\ Len(all) = 1 + Len(s) /\ Len(s) \in Nat
      /\ DOMAIN all = 1 .. 1 + Len(s) /\ DOMAIN s = 1 .. Len(s)
      /\ \A k \in 1 .. 1 + Len(s) : all[k] = IF k = 1 THEN a ELSE s[k - 1]
  BY FrontIs
<1>2. e \in Seq(T) /\ Len(e) = Len(s) /\ \A k \in DOMAIN s : e[k] = f[s[k]]
  BY EachTyped DEF Each
<1>3. f[a] \in T
  BY DEF Maps
<1> HIDE DEF e, all
<1>4. /\ u \in Seq(T) /\ Len(u) = 1 + Len(e)
      /\ \A k \in 1 .. 1 + Len(e) : u[k] = IF k = 1 THEN f[a] ELSE e[k - 1]
  BY <1>2, <1>3, FrontIs
<1> HIDE DEF u
<1>5. Each(f, all) \in Seq(T) /\ Len(Each(f, all)) = 1 + Len(s)
  BY <1>1, EachTyped
<1>6. ASSUME NEW k \in 1 .. 1 + Len(s) PROVE Each(f, all)[k] = u[k]
  <2>1. Each(f, all)[k] = f[all[k]]
    BY <1>1 DEF Each
  <2>2. CASE k = 1
    BY <1>1, <1>2, <1>4, <2>1, <2>2
  <2>3. CASE k # 1
    <3>1. k - 1 \in DOMAIN s
      BY <1>1, <2>3
    <3>2. e[k - 1] = f[s[k - 1]]
      BY <1>2, <3>1
    <3>3. all[k] = s[k - 1] /\ u[k] = e[k - 1]
      BY <1>1, <1>2, <1>4, <2>3
    <3>4. QED
      BY <2>1, <3>2, <3>3
  <2>4. QED
    BY <2>2, <2>3
<1>7. Each(f, all) = u
  BY <1>2, <1>4, <1>5, <1>6, SeqEqual
<1>8. QED
  BY <1>7 DEF all, u, e, Front

(* The same with a separator before every value.                           *)
After(separator, f) == [a \in DOMAIN f |-> separator \o f[a]]

(* It is a text too.                                                       *)
LEMMA AfterTyped ==
    ASSUME NEW A, NEW C, NEW f, Maps(f, A, Seq(C)), NEW separator \in Seq(C)
    PROVE  /\ Maps(After(separator, f), A, Seq(C))
           /\ \A a \in A : After(separator, f)[a] = separator \o f[a]
<1> DEFINE T == Seq(C)
<1>1. DOMAIN f = A /\ \A b \in A : separator \o f[b] \in T
  BY ConcatProperties DEF Maps
<1> HIDE DEF T
<1>2. Maps(After(separator, f), A, T)
  BY <1>1 DEF After, Maps
<1>3. QED
  BY <1>1, <1>2 DEF After, T

(* The values along a sequence, separated: the first, and what follows it. *)
LEMMA SeparatedFront ==
    ASSUME NEW A, NEW C, NEW f, Maps(f, A, Seq(C)), NEW a \in A, NEW s \in Seq(A),
           NEW separator \in Seq(C)
    PROVE  Separated(Each(f, Front(a, s)), separator)
              = f[a] \o Seqs!FlattenSeq(Each(After(separator, f), s))
<1> DEFINE T == Seq(C)
           all == Front(a, s)
           g == After(separator, f)
           u == Each(f, all)
           v == Each(g, all)
           mixed == [k \in DOMAIN u |->
                       IF k = 1 THEN u[k] ELSE separator \o u[k]]
<1>1. Maps(f, A, T) /\ Maps(g, A, T) /\ \A b \in A : g[b] = separator \o f[b]
  BY AfterTyped
<1>2. all \in Seq(A) /\ DOMAIN all = 1 .. Len(all)
      /\ \A k \in 1 .. Len(all) : all[k] \in A
  BY FrontIs, LenProperties, ElementOfSeq DEF Front
<1>3. Separated(u, separator) = Seqs!FlattenSeq(mixed)
  BY DEF Separated
<1> HIDE DEF g, T
<1>4. \A k \in DOMAIN all : v[k] = separator \o u[k]
  BY <1>1, <1>2 DEF Each
<1>5. DOMAIN u = DOMAIN all
  BY DEF Each
<1>6. mixed = Mixed(u, v)
  <2> HIDE DEF u, v, all
  <2>1. QED
    BY <1>4, <1>5 DEF Mixed
<1> HIDE DEF mixed
<1>7. u = Front(f[a], Each(f, s)) /\ v = Front(g[a], Each(g, s))
  BY <1>1, EachFront
<1>8. /\ Each(f, s) \in Seq(T) /\ Each(g, s) \in Seq(T)
      /\ Len(Each(f, s)) = Len(Each(g, s))
  BY <1>1, EachTyped
<1> HIDE DEF u, v, all
<1>9. f[a] \in T /\ g[a] \in T
  BY <1>1 DEF Maps
<1>10. mixed = Front(f[a], Each(g, s))
  BY <1>6, <1>7, <1>8, <1>9, FirstOfOther
<1>11. Seqs!FlattenSeq(mixed) = f[a] \o Seqs!FlattenSeq(Each(g, s))
  BY <1>8, <1>9, <1>10, FlattenFront DEF T, Front
<1>12. QED
  BY <1>3, <1>11 DEF u, all, g

(* The children of a node.                                                 *)
Kids(h, i) == {c \in Live(h) : h.parent[c] = i}

(* Their links.                                                            *)
LEMMA KidsLinked ==
    ASSUME NEW h, HeapOK(h), NEW i \in Live(h)
    PROVE  /\ h.first[i] # Nil => h.first[i] \in Kids(h, i)
           /\ ChildrenFrom(h, Nil) \in Seq(Kids(h, i))
           /\ \A c \in Kids(h, i) :
                 /\ h.next[c] # Nil => h.next[c] \in Kids(h, i)
                 /\ ChildrenFrom(h, c) \in Seq(Kids(h, i))
<1>1. h.first[i] # Nil => h.first[i] \in Kids(h, i)
  BY DEF HeapOK, ForestOK, LinksOK, EndsOK, Kids
<1>2. ASSUME NEW c \in Kids(h, i)
      PROVE  /\ h.next[c] # Nil => h.next[c] \in Kids(h, i)
             /\ ChildrenFrom(h, c) \in Seq(Kids(h, i))
  <2>1. c \in Live(h) /\ h.parent[c] = i
    BY DEF Kids
  <2>2. h.next[c] # Nil => h.next[c] \in Kids(h, i)
    BY <2>1 DEF HeapOK, ForestOK, LinksOK, NextOK, Kids
  <2>3. Reach(h.next, c) \subseteq Kids(h, i)
    BY <2>1, ReachSameParent DEF Kids
  <2>4. ChildrenFrom(h, c) \in Seq(Reach(h.next, c))
    BY <2>1, ChildrenUnfold
  <2>5. QED
    BY <2>2, <2>3, <2>4, SeqMonotonic
<1>3. QED
  BY <1>1, <1>2, ChildrenUnfold, EmptySeq

(* The text of every child of i, in depth d, on a line of its own.         *)
Line(h, form, text, i, d, c) ==
    NewLine(form, d) \o Label(h, form, i, c) \o text[<<c, d>>]

Lines(h, form, text, i, d) ==
    [c \in Kids(h, i) |-> Line(h, form, text, i, d, c)]

(* The lines from c on, where other lines come before.                     *)
More(h, form, text, i, d, c) ==
    Seqs!FlattenSeq(Each(After(Comma, Lines(h, form, text, i, d)),
                         ChildrenFrom(h, c)))

(* The text of a node, with the lines as a function.                       *)
LEMMA NodeTextRaw ==
    ASSUME NEW h, HeapOK(h), NEW i \in Live(h), NEW form, NEW text, NEW d
    PROVE  LET children == ChildrenFrom(h, h.first[i])
           IN NodeText(h, form, text, <<i, d>>) =
                 IF h.type[i] = "String"
                 THEN Quoted(ViewString(h, h.value[i]))
                 ELSE IF h.type[i] \notin Containers
                 THEN <<h.type[i]>>
                 ELSE <<Opening(h.type[i])>>
                         \o Separated(Each(Lines(h, form, text, i, d + 1),
                                           children), Comma)
                         \o (IF children = <<>> THEN <<>>
                             ELSE NewLine(form, d))
                         \o <<Closing(h.type[i])>>
<1> DEFINE children == ChildrenFrom(h, h.first[i])
           at == <<i, d>>
           each == [k \in DOMAIN children |->
                      NewLine(form, at[2] + 1) \o Label(h, form, i, children[k])
                         \o text[<<children[k], at[2] + 1>>]]
           lines == Lines(h, form, text, i, d + 1)
<1>1. at[1] = i /\ at[2] = d
  OBVIOUS
<1>2. children \in Seq(Kids(h, i))
  BY KidsLinked
<1>3. \A k \in DOMAIN children : children[k] \in Kids(h, i)
  BY <1>2, LenProperties, ElementOfSeq
<1>4. each = Each(lines, children)
  <2> HIDE DEF children
  <2>1. \A k \in DOMAIN children :
           lines[children[k]] = NewLine(form, at[2] + 1)
                                   \o Label(h, form, i, children[k])
                                   \o text[<<children[k], at[2] + 1>>]
    <3> HIDE DEF at
    <3>1. QED
      BY <1>1, <1>3 DEF Lines, Line
  <2> HIDE DEF lines, at
  <2>2. QED
    BY <2>1 DEF Each
<1>5. NodeText(h, form, text, at) =
         IF h.type[i] = "String"
         THEN Quoted(ViewString(h, h.value[i]))
         ELSE IF h.type[i] \notin Containers
         THEN <<h.type[i]>>
         ELSE <<Opening(h.type[i])>>
                 \o Separated(each, <<",">>)
                 \o (IF children = <<>> THEN <<>> ELSE NewLine(form, at[2]))
                 \o <<Closing(h.type[i])>>
  BY DEF NodeText
<1> HIDE DEF each, children, lines, at
<1>6. <<",">> = Comma
  BY Zenon DEF Comma, One
<1>7. NodeText(h, form, text, at) =
         IF h.type[i] = "String"
         THEN Quoted(ViewString(h, h.value[i]))
         ELSE IF h.type[i] \notin Containers
         THEN <<h.type[i]>>
         ELSE <<Opening(h.type[i])>>
                 \o Separated(each, Comma)
                 \o (IF children = <<>> THEN <<>> ELSE NewLine(form, at[2]))
                 \o <<Closing(h.type[i])>>
  BY <1>5, <1>6, Zenon
<1>8. QED
  BY <1>1, <1>4, <1>7 DEF children, lines, at

(* The same without brackets.                                              *)
LEMMA NodeTextIs ==
    ASSUME NEW h, HeapOK(h), NEW i \in Live(h), NEW form, NEW text, NEW d
    PROVE  LET children == ChildrenFrom(h, h.first[i])
           IN NodeText(h, form, text, <<i, d>>) =
                 IF h.type[i] = "String"
                 THEN Quoted(ViewString(h, h.value[i]))
                 ELSE IF h.type[i] \notin Containers
                 THEN One(h.type[i])
                 ELSE Cat(Cat(Cat(One(Opening(h.type[i])),
                                  Separated(Each(Lines(h, form, text, i, d + 1),
                                                 children), Comma)),
                              IF children = <<>> THEN <<>> ELSE NewLine(form, d)),
                          One(Closing(h.type[i])))
BY NodeTextRaw DEF Cat, One

(* It depends on the texts of the children alone.                          *)
LEMMA NodeTextLocal ==
    ASSUME NEW h, HeapOK(h), NEW i \in Live(h), NEW form, NEW d, NEW t, NEW u,
           \A c \in Kids(h, i) : t[<<c, d + 1>>] = u[<<c, d + 1>>]
    PROVE  NodeText(h, form, t, <<i, d>>) = NodeText(h, form, u, <<i, d>>)
<1>1. \A c \in Kids(h, i) :
         Line(h, form, t, i, d + 1, c) = Line(h, form, u, i, d + 1, c)
  BY DEF Line
<1>2. Lines(h, form, t, i, d + 1) = Lines(h, form, u, i, d + 1)
  BY <1>1 DEF Lines
<1>3. QED
  BY <1>2, NodeTextIs

(* Texts of the children of i, in depth d.                                 *)
KidsTyped(h, text, i, d) ==
    \A c \in Kids(h, i) : AText(text[<<c, d>>])

(* A line is a text after the end of the line before.                      *)
LEMMA LineIs ==
    ASSUME NEW h, NEW form, NEW text, NEW i, NEW d, NEW c
    PROVE  Line(h, form, text, i, d, c)
              = Cat(Cat(NewLine(form, d), Label(h, form, i, c)), text[<<c, d>>])
BY DEF Line, Cat

(* The lines are texts when those of the children are.                     *)
LEMMA LinesTyped ==
    ASSUME NEW h, HeapOK(h), NEW i \in Live(h), NEW form, AForm(form),
           NEW d \in Nat, NEW text, KidsTyped(h, text, i, d)
    PROVE  /\ Maps(Lines(h, form, text, i, d), Kids(h, i), Seq(Chars))
           /\ \A c \in Kids(h, i) :
                 /\ Lines(h, form, text, i, d)[c] = Line(h, form, text, i, d, c)
                 /\ AText(Line(h, form, text, i, d, c))
<1>1. ASSUME NEW c \in Kids(h, i)
      PROVE  AText(Line(h, form, text, i, d, c))
  <2>1. AText(NewLine(form, d)) /\ AText(Label(h, form, i, c))
        /\ AText(text[<<c, d>>])
    BY LayoutTyped, LabelTyped DEF Kids, KidsTyped
  <2>2. QED
    BY <2>1, CatTyped, LineIs
<1>2. QED
  BY <1>1 DEF Lines, Maps, AText

(* What follows a line: nothing, or the next line and what follows it.     *)
LEMMA MoreUnfold ==
    ASSUME NEW h, HeapOK(h), NEW i \in Live(h), NEW form, AForm(form),
           NEW d \in Nat, NEW text, KidsTyped(h, text, i, d)
    PROVE  /\ More(h, form, text, i, d, Nil) = <<>>
           /\ \A c \in Kids(h, i) \cup {Nil} :
                 AText(More(h, form, text, i, d, c))
           /\ \A c \in Kids(h, i) :
                 /\ More(h, form, text, i, d, c)
                       = Cat(Cat(Comma, Line(h, form, text, i, d, c)),
                             More(h, form, text, i, d, h.next[c]))
                 /\ Separated(Each(Lines(h, form, text, i, d),
                                   ChildrenFrom(h, c)), Comma)
                       = Cat(Line(h, form, text, i, d, c),
                             More(h, form, text, i, d, h.next[c]))
<1> DEFINE A == Kids(h, i)
           f == Lines(h, form, text, i, d)
           g == After(Comma, f)
<1>1. Maps(f, A, Seq(Chars))
  BY LinesTyped
<1>2. Comma \in Seq(Chars)
  BY PunctuationTyped DEF AText
<1>3. Maps(g, A, Seq(Chars))
  <2> HIDE DEF f, A
  <2>1. QED
    BY <1>1, <1>2, AfterTyped
<1>4. \A c \in A : g[c] = Comma \o f[c]
  <2> HIDE DEF f, A
  <2>1. QED
    BY <1>1, <1>2, AfterTyped
<1>5. \A c : More(h, form, text, i, d, c)
                = Seqs!FlattenSeq(Each(g, ChildrenFrom(h, c)))
  BY DEF More
<1>6. ASSUME NEW c \in A \cup {Nil}
      PROVE  /\ ChildrenFrom(h, c) \in Seq(A)
             /\ Each(g, ChildrenFrom(h, c)) \in Seq(Seq(Chars))
             /\ AText(More(h, form, text, i, d, c))
  <2>1. ChildrenFrom(h, c) \in Seq(A)
    BY KidsLinked
  <2> HIDE DEF g, A
  <2>2. Each(g, ChildrenFrom(h, c)) \in Seq(Seq(Chars))
    BY <1>3, <2>1, EachTyped
  <2>3. QED
    BY <1>5, <2>1, <2>2, FlattenTyped DEF AText
<1>7. More(h, form, text, i, d, Nil) = <<>>
  <2> HIDE DEF g
  <2>1. Each(g, <<>>) = <<>>
    BY DEF Each
  <2>2. QED
    BY <1>5, <2>1, ChildrenUnfold, FlattenNone
<1>8. ASSUME NEW c \in A
      PROVE  /\ More(h, form, text, i, d, c)
                   = Cat(Cat(Comma, Line(h, form, text, i, d, c)),
                         More(h, form, text, i, d, h.next[c]))
             /\ Separated(Each(f, ChildrenFrom(h, c)), Comma)
                   = Cat(Line(h, form, text, i, d, c),
                         More(h, form, text, i, d, h.next[c]))
  <2> DEFINE s == ChildrenFrom(h, h.next[c])
  <2>1. c \in Live(h) /\ h.next[c] \in A \cup {Nil}
    <3>1. c \in Live(h)
      BY DEF Kids
    <3>2. h.next[c] # Nil => h.next[c] \in A
      BY KidsLinked
    <3>3. QED
      BY <3>1, <3>2
  <2>2. s \in Seq(A)
    BY <1>6, <2>1
  <2>3. ChildrenFrom(h, c) = Front(c, s)
    BY <2>1, ChildrenUnfold DEF Front
  <2>4. f[c] = Line(h, form, text, i, d, c)
    BY LinesTyped
  <2>5. More(h, form, text, i, d, h.next[c]) = Seqs!FlattenSeq(Each(g, s))
    BY <1>5
  <2>6. Separated(Each(f, Front(c, s)), Comma)
           = f[c] \o Seqs!FlattenSeq(Each(g, s))
    <3> HIDE DEF A, f, s
    <3>1. QED
      BY <1>1, <1>2, <2>2, SeparatedFront
  <2>7. Seqs!FlattenSeq(Each(g, Front(c, s)))
           = g[c] \o Seqs!FlattenSeq(Each(g, s))
    <3> HIDE DEF A, f, g, s
    <3>1. Each(g, Front(c, s)) = Front(g[c], Each(g, s))
      BY <1>3, <2>2, EachFront
    <3>2. Each(g, s) \in Seq(Seq(Chars))
      BY <1>3, <2>2, EachTyped
    <3>3. g[c] \in Seq(Chars)
      BY <1>3 DEF Maps
    <3>4. Seqs!FlattenSeq(<<g[c]>> \o Each(g, s))
             = g[c] \o Seqs!FlattenSeq(Each(g, s))
      BY <3>2, <3>3, FlattenFront
    <3>5. QED
      BY <3>1, <3>4 DEF Front
  <2>8. g[c] = Comma \o f[c]
    BY <1>4
  <2>9. More(h, form, text, i, d, c) = Seqs!FlattenSeq(Each(g, Front(c, s)))
    BY <1>5, <2>3
  <2>10. Separated(Each(f, ChildrenFrom(h, c)), Comma)
            = Separated(Each(f, Front(c, s)), Comma)
    BY <2>3
  <2> HIDE DEF f, g, s
  <2>11. QED
    BY <2>4, <2>5, <2>6, <2>7, <2>8, <2>9, <2>10 DEF Cat
<1>9. QED
  BY <1>6, <1>7, <1>8

(* Five texts, however they are put in brackets.                           *)
LEMMA Regroup ==
    ASSUME NEW a, NEW b, NEW c, NEW d, NEW e,
           AText(a), AText(b), AText(c), AText(d), AText(e)
    PROVE  Cat(Cat(Cat(a, Cat(b, c)), d), e) = Cat(a, Cat(b, Cat(c, Cat(d, e))))
<1>1. AText(Cat(b, c)) /\ AText(Cat(a, Cat(b, c))) /\ AText(Cat(d, e))
  BY CatTyped
<1>2. Cat(Cat(Cat(a, Cat(b, c)), d), e) = Cat(Cat(a, Cat(b, c)), Cat(d, e))
  BY <1>1, CatAssociative
<1>3. Cat(Cat(a, Cat(b, c)), Cat(d, e)) = Cat(a, Cat(Cat(b, c), Cat(d, e)))
  BY <1>1, CatAssociative
<1>4. Cat(Cat(b, c), Cat(d, e)) = Cat(b, Cat(c, Cat(d, e)))
  BY <1>1, CatAssociative
<1>5. QED
  BY <1>2, <1>3, <1>4

(* The text of a container.                                                *)
LEMMA ContainerText ==
    ASSUME NEW h, HeapOK(h), NEW i \in Live(h), NEW form, AForm(form),
           NEW d \in Nat, NEW text, KidsTyped(h, text, i, d + 1),
           h.type[i] \in Containers
    PROVE  LET c == h.first[i]
               open == One(Opening(h.type[i]))
               close == One(Closing(h.type[i]))
           IN /\ c = Nil => NodeText(h, form, text, <<i, d>>) = Cat(open, close)
              /\ c # Nil =>
                    NodeText(h, form, text, <<i, d>>)
                       = Cat(open, Cat(Line(h, form, text, i, d + 1, c),
                            Cat(More(h, form, text, i, d + 1, h.next[c]),
                               Cat(NewLine(form, d), close))))
<1> DEFINE c == h.first[i]
           open == One(Opening(h.type[i]))
           close == One(Closing(h.type[i]))
           children == ChildrenFrom(h, c)
           separated == Separated(Each(Lines(h, form, text, i, d + 1), children),
                                  Comma)
           break == NewLine(form, d)
<1>1. AText(open) /\ AText(close) /\ AText(break)
  BY PunctuationTyped, LayoutTyped
<1>2. NodeText(h, form, text, <<i, d>>)
         = Cat(Cat(Cat(open, separated),
                   IF children = <<>> THEN <<>> ELSE break), close)
  <2>1. "String" \notin Containers
    BY DEF Containers
  <2>2. QED
    BY <2>1, NodeTextIs
<1>3. CASE c = Nil
  <2>1. children = <<>>
    BY <1>3, ChildrenUnfold
  <2>2. separated = <<>>
    <3>1. Each(Lines(h, form, text, i, d + 1), <<>>) = <<>>
      BY DEF Each
    <3>2. Separated(<<>>, Comma) = Seqs!FlattenSeq(<<>>)
      BY DEF Separated
    <3>3. QED
      BY <2>1, <3>1, <3>2, FlattenNone
  <2> HIDE DEF open, close, children, separated, break
  <2>3. Cat(Cat(open, <<>>), <<>>) = open
    BY <1>1, CatNothing
  <2>4. QED
    BY <1>2, <1>3, <2>1, <2>2, <2>3 DEF open, close
<1>4. CASE c # Nil
  <2> DEFINE line == Line(h, form, text, i, d + 1, c)
             more == More(h, form, text, i, d + 1, h.next[c])
  <2>1. c \in Kids(h, i) /\ d + 1 \in Nat
    BY <1>4, KidsLinked
  <2>2. separated = Cat(line, more)
    <3>1. PICK k, e : /\ k = c /\ e = d + 1 /\ k \in Kids(h, i) /\ e \in Nat
                      /\ KidsTyped(h, text, i, e)
      BY <2>1
    <3>2. Separated(Each(Lines(h, form, text, i, e), ChildrenFrom(h, k)), Comma)
             = Cat(Line(h, form, text, i, e, k),
                   More(h, form, text, i, e, h.next[k]))
      BY <3>1, MoreUnfold
    <3>3. QED
      BY <3>1, <3>2
  <2>3. AText(line) /\ AText(more)
    <3>1. AText(line)
      BY <2>1, LinesTyped
    <3>2. h.next[c] \in Kids(h, i) \cup {Nil}
      BY <2>1, KidsLinked
    <3>3. QED
      BY <2>1, <3>1, <3>2, MoreUnfold
  <2>4. children # <<>>
    <3>1. children = Front(c, ChildrenFrom(h, h.next[c]))
          /\ ChildrenFrom(h, h.next[c]) \in Seq(Kids(h, i))
      <4>1. c \in Live(h) /\ (h.next[c] = Nil \/ h.next[c] \in Kids(h, i))
        BY <2>1, KidsLinked DEF Kids
      <4>2. ChildrenFrom(h, c) = <<c>> \o ChildrenFrom(h, h.next[c])
        BY <4>1, ChildrenUnfold
      <4>3. ChildrenFrom(h, h.next[c]) \in Seq(Kids(h, i))
        BY <4>1, KidsLinked
      <4>4. QED
        BY <4>2, <4>3 DEF Front
    <3> HIDE DEF children
    <3>2. Len(children) = 1 + Len(ChildrenFrom(h, h.next[c]))
          /\ Len(ChildrenFrom(h, h.next[c])) \in Nat
      BY <2>1, <3>1, FrontIs DEF Front
    <3>3. QED
      BY <3>2, EmptySeq
  <2> HIDE DEF open, close, children, separated, break, line, more
  <2>5. NodeText(h, form, text, <<i, d>>)
           = Cat(open, Cat(line, Cat(more, Cat(break, close))))
    BY <1>1, <1>2, <2>2, <2>3, <2>4, Regroup
  <2>6. QED
    BY <1>4, <2>5 DEF open, close, line, more, break
<1>5. QED
  BY <1>3, <1>4

(* The text of a node is one when those of its children are.               *)
LEMMA NodeTextTyped ==
    ASSUME NEW h, HeapOK(h), NEW i \in Live(h), NEW form, AForm(form),
           NEW d \in Nat, NEW text, KidsTyped(h, text, i, d + 1)
    PROVE  AText(NodeText(h, form, text, <<i, d>>))
<1> DEFINE c == h.first[i]
           open == One(Opening(h.type[i]))
           close == One(Closing(h.type[i]))
           break == NewLine(form, d)
<1>1. AText(open) /\ AText(close) /\ AText(break)
  BY PunctuationTyped, LayoutTyped
<1>2. CASE h.type[i] \notin Containers
  <2>1. i \in Ids /\ h \in Heaps /\ h.type[i] \in ValueTypes
    BY LinksStayLive DEF HeapOK, Heaps
  <2>2. AText(Quoted(ViewString(h, h.value[i])))
    BY <2>1, ViewTyped, QuotedTyped
  <2>3. AText(One(h.type[i]))
    BY <2>1, PunctuationTyped
  <2>4. QED
    BY <1>2, <2>2, <2>3, NodeTextIs
<1>3. CASE h.type[i] \in Containers /\ c = Nil
  <2>1. NodeText(h, form, text, <<i, d>>) = Cat(open, close)
    BY <1>3, ContainerText
  <2> HIDE DEF open, close
  <2>2. QED
    BY <1>1, <2>1, CatTyped
<1>4. CASE h.type[i] \in Containers /\ c # Nil
  <2> DEFINE line == Line(h, form, text, i, d + 1, c)
             more == More(h, form, text, i, d + 1, h.next[c])
  <2>1. NodeText(h, form, text, <<i, d>>)
           = Cat(open, Cat(line, Cat(more, Cat(break, close))))
    BY <1>4, ContainerText
  <2>2. c \in Kids(h, i) /\ d + 1 \in Nat
    BY <1>4, KidsLinked
  <2>3. AText(line) /\ AText(more)
    <3>1. AText(line)
      BY <2>2, LinesTyped
    <3>2. h.next[c] \in Kids(h, i) \cup {Nil}
      BY <2>2, KidsLinked
    <3>3. QED
      BY <2>2, <3>1, <3>2, MoreUnfold
  <2> HIDE DEF open, close, break, line, more
  <2>4. AText(Cat(more, Cat(break, close)))
    BY <1>1, <2>3, CatTyped
  <2>5. AText(Cat(open, Cat(line, Cat(more, Cat(break, close)))))
    BY <1>1, <2>3, <2>4, CatTyped
  <2>6. QED
    BY <2>1, <2>5
<1>5. QED
  BY <1>2, <1>3, <1>4

-----------------------------------------------------------------------------
(* The texts of all nodes.                                                 *)

(* The texts of the nodes, in whatever depth.                              *)
Laid(h, form, text) ==
    text = [at \in Live(h) \X Nat |-> NodeText(h, form, text, at)]

(* There are such texts, and all of them are texts.                        *)
LEMMA LaidExists ==
    ASSUME NEW h, HeapOK(h), NEW form, AForm(form)
    PROVE  /\ \E text : Laid(h, form, text)
           /\ \A text : Laid(h, form, text) =>
                 \A i \in Live(h), d \in Nat : AText(text[<<i, d>>])
<1> DEFINE D == Live(h) \X Nat
           T == Seq(Chars)
           F == [D -> T]
           rank == [at \in D |-> Capacity - Depth(h, at[1])]
           B == [p \in F \X D |-> NodeText(h, form, p[1], p[2])]
<1>1. rank \in [D -> Nat] /\ \A at \in D : rank[at] <= Capacity
  <2>1. ASSUME NEW at \in D
        PROVE  Capacity - Depth(h, at[1]) \in 0 .. Capacity
    BY DepthCounts, SizesAssumption
  <2>2. QED
    BY <2>1, SizesAssumption
<1>2. ASSUME NEW i \in Live(h), NEW d \in Nat, NEW c \in Kids(h, i)
      PROVE  <<c, d + 1>> \in D /\ rank[<<c, d + 1>>] < rank[<<i, d>>]
  <2>1. c \in Live(h) /\ h.parent[c] = i /\ d + 1 \in Nat
    BY DEF Kids
  <2>2. Depth(h, c) = Depth(h, i) + 1
    BY <2>1, DepthOfChild
  <2>3. Capacity - Depth(h, c) < Capacity - Depth(h, i)
    BY <2>2, DepthCounts, SizesAssumption
  <2>4. QED
    BY <2>1, <2>3
<1>3. \A f \in F, at \in D : B[<<f, at>>] = NodeText(h, form, f, at)
  OBVIOUS
<1>4. \A at \in D : \E i \in Live(h), d \in Nat : at = <<i, d>>
  OBVIOUS
<1>5. \A i \in Live(h), d \in Nat : <<i, d>> \in D
  OBVIOUS
<1> HIDE DEF B, rank, D, T
<1>6. ASSUME NEW f \in F, NEW at \in D PROVE B[<<f, at>>] \in T
  <2>1. PICK i \in Live(h), d \in Nat : at = <<i, d>>
    BY <1>4
  <2>2. KidsTyped(h, f, i, d + 1)
    BY <1>2 DEF KidsTyped, AText, T
  <2>3. AText(NodeText(h, form, f, <<i, d>>))
    BY <2>2, NodeTextTyped
  <2>4. QED
    BY <1>3, <2>1, <2>3 DEF AText, T
<1>7. ASSUME NEW f \in F, NEW g \in F, NEW at \in D,
             \A y \in D : rank[y] < rank[at] => f[y] = g[y]
      PROVE  B[<<f, at>>] = B[<<g, at>>]
  <2>1. PICK i \in Live(h), d \in Nat : at = <<i, d>>
    BY <1>4
  <2>2. \A c \in Kids(h, i) : f[<<c, d + 1>>] = g[<<c, d + 1>>]
    BY <1>2, <1>7, <2>1
  <2>3. NodeText(h, form, f, <<i, d>>) = NodeText(h, form, g, <<i, d>>)
    BY <2>2, NodeTextLocal
  <2>4. QED
    BY <1>3, <2>1, <2>3
<1>8. Recursion(B, D, T, rank)
  <2>1. T # {}
    BY EmptySeq DEF T
  <2>2. \E m \in Nat : \A at \in D : rank[at] <= m
    BY <1>1, SizesAssumption
  <2>3. QED
    BY <1>1, <1>6, <1>7, <2>1, <2>2 DEF Recursion
<1>9. PICK f \in F : \A at \in D : f[at] = B[<<f, at>>]
  BY <1>8, RecursionExists
<1>10. f = [at \in D |-> NodeText(h, form, f, at)]
  BY <1>3, <1>9
<1>11. Laid(h, form, f)
  BY <1>10 DEF Laid, D
<1>12. ASSUME NEW text, Laid(h, form, text), NEW i \in Live(h), NEW d \in Nat
       PROVE  AText(text[<<i, d>>])
  <2> DEFINE S == {at \in D : AText(text[at])}
  <2>1. ASSUME NEW at \in D, \A y \in D : rank[y] < rank[at] => y \in S
        PROVE  at \in S
    <3>1. PICK j \in Live(h), e \in Nat : at = <<j, e>>
      BY <1>4
    <3>2. KidsTyped(h, text, j, e + 1)
      BY <1>2, <2>1, <3>1 DEF KidsTyped
    <3>3. AText(NodeText(h, form, text, <<j, e>>))
      BY <3>2, NodeTextTyped
    <3>4. text[at] = NodeText(h, form, text, at)
      BY <1>12 DEF Laid, D
    <3>5. QED
      BY <3>1, <3>3, <3>4
  <2> HIDE DEF S
  <2>2. D \subseteq S
    BY <1>1, <2>1, RankInduction
  <2>3. QED
    BY <1>5, <2>2 DEF S
<1>13. QED
  BY <1>11, <1>12

(* The texts of the nodes of a document.                                   *)
LaidOut(h, form) == CHOOSE text : Laid(h, form, text)

(* The text of a document is that of its root, and the text of every node  *)
(* is made from those of its children.                                     *)
LEMMA TextsAre ==
    ASSUME NEW h, HeapOK(h), NEW form, AForm(form)
    PROVE  /\ \A root : Render(h, root, form) = LaidOut(h, form)[<<root, 0>>]
           /\ \A i \in Live(h), d \in Nat :
                 /\ AText(LaidOut(h, form)[<<i, d>>])
                 /\ LaidOut(h, form)[<<i, d>>]
                       = NodeText(h, form, LaidOut(h, form), <<i, d>>)
                 /\ KidsTyped(h, LaidOut(h, form), i, d)
<1> DEFINE texts == LaidOut(h, form)
<1>1. Laid(h, form, texts)
  BY LaidExists DEF LaidOut
<1>2. \A root : Render(h, root, form) = texts[<<root, 0>>]
  BY DEF Render, LaidOut, Laid
<1> HIDE DEF texts
<1>3. ASSUME NEW i \in Live(h), NEW d \in Nat PROVE AText(texts[<<i, d>>])
  BY <1>1, LaidExists
<1>4. \A i \in Live(h), d \in Nat :
         texts[<<i, d>>] = NodeText(h, form, texts, <<i, d>>)
  BY <1>1 DEF Laid
<1>5. \A i \in Live(h), d \in Nat : KidsTyped(h, texts, i, d)
  BY <1>3 DEF KidsTyped, Kids
<1>6. QED
  BY <1>2, <1>3, <1>4, <1>5 DEF texts

-----------------------------------------------------------------------------
(* Induction along the links of a document.                                *)

(* What holds of a node when it holds of its children holds of them all.   *)
LEMMA KidsInduction ==
    ASSUME NEW h, HeapOK(h), NEW S,
           \A i \in Live(h) : Kids(h, i) \subseteq S => i \in S
    PROVE  Live(h) \subseteq S
<1> DEFINE rank == [i \in Live(h) |-> Capacity - Depth(h, i)]
<1>1. rank \in [Live(h) -> Nat]
  <2>1. ASSUME NEW i \in Live(h) PROVE Capacity - Depth(h, i) \in Nat
    BY DepthCounts, SizesAssumption
  <2>2. QED
    BY <2>1
<1>2. ASSUME NEW i \in Live(h), NEW c \in Kids(h, i)
      PROVE  c \in Live(h) /\ rank[c] < rank[i]
  <2>1. c \in Live(h) /\ h.parent[c] = i
    BY DEF Kids
  <2>2. Depth(h, c) = Depth(h, i) + 1
    BY <2>1, DepthOfChild
  <2>3. Capacity - Depth(h, c) < Capacity - Depth(h, i)
    BY <2>2, DepthCounts, SizesAssumption
  <2>4. QED
    BY <2>1, <2>3
<1> HIDE DEF rank
<1>3. ASSUME NEW i \in Live(h), \A c \in Live(h) : rank[c] < rank[i] => c \in S
      PROVE  i \in S
  BY <1>2, <1>3
<1>4. QED
  BY <1>1, <1>3, RankInduction

(* ... and what holds of a node when it holds of the one that follows.     *)
LEMMA ListInduction ==
    ASSUME NEW h, HeapOK(h), NEW S,
           \A c \in Live(h) : (h.next[c] # Nil => h.next[c] \in S) => c \in S
    PROVE  Live(h) \subseteq S
<1> DEFINE rank == [c \in Live(h) |-> Following(h, c)]
<1>1. rank \in [Live(h) -> Nat]
  BY FollowingCounts
<1>2. ASSUME NEW c \in Live(h), h.next[c] # Nil
      PROVE  h.next[c] \in Live(h) /\ rank[h.next[c]] < rank[c]
  BY <1>2, FollowingCounts, LinksStayLive
<1> HIDE DEF rank
<1>3. ASSUME NEW c \in Live(h), \A y \in Live(h) : rank[y] < rank[c] => y \in S
      PROVE  c \in S
  BY <1>2, <1>3
<1>4. QED
  BY <1>1, <1>3, RankInduction

-----------------------------------------------------------------------------
(* Documents on one line: what the parser reads.                           *)

(* There are no ends of lines.                                             *)
LEMMA CompactIsForm ==
    /\ AForm(Compact)
    /\ Colon(Compact) = Pair
    /\ \A d : NewLine(Compact, d) = <<>>
<1>1. AForm(Compact)
  BY DEF AForm, Compact
<1>2. ~Compact.pretty
  BY DEF Compact
<1>3. Colon(Compact) = Pair
  BY <1>2, Zenon DEF Colon, Pair, One
<1>4. \A d : NewLine(Compact, d) = <<>>
  BY <1>2, Zenon DEF NewLine
<1>5. QED
  BY <1>1, <1>3, <1>4

(* So the text of a node is the same in every depth.                       *)
LEMMA SameInEveryDepth ==
    ASSUME NEW h, HeapOK(h), NEW i \in Live(h), NEW d \in Nat
    PROVE  LaidOut(h, Compact)[<<i, d>>] = Render(h, i, Compact)
<1> DEFINE text == LaidOut(h, Compact)
           S == {j \in Live(h) :
                    \A m, n \in Nat : text[<<j, m>>] = text[<<j, n>>]}
<1>1. \A j \in Live(h), n \in Nat :
         text[<<j, n>>] = NodeText(h, Compact, text, <<j, n>>)
  BY CompactIsForm, TextsAre
<1>2. Render(h, i, Compact) = text[<<i, 0>>]
  BY CompactIsForm, TextsAre
<1> HIDE DEF text
<1>3. ASSUME NEW j \in Live(h), Kids(h, j) \subseteq S PROVE j \in S
  <2> SUFFICES ASSUME NEW m \in Nat, NEW n \in Nat
               PROVE  text[<<j, m>>] = text[<<j, n>>]
    OBVIOUS
  <2>1. \A c \in Kids(h, j) : text[<<c, m + 1>>] = text[<<c, n + 1>>]
    <3>1. m + 1 \in Nat /\ n + 1 \in Nat
      OBVIOUS
    <3>2. QED
      BY <1>3, <3>1
  <2>2. \A c \in Kids(h, j) : Line(h, Compact, text, j, m + 1, c)
                                 = Line(h, Compact, text, j, n + 1, c)
    BY <2>1, CompactIsForm DEF Line
  <2>3. Lines(h, Compact, text, j, m + 1) = Lines(h, Compact, text, j, n + 1)
    BY <2>2 DEF Lines
  <2>4. NodeText(h, Compact, text, <<j, m>>)
           = NodeText(h, Compact, text, <<j, n>>)
    BY <2>3, CompactIsForm, NodeTextIs
  <2>5. QED
    BY <1>1, <2>4
<1> HIDE DEF S
<1>4. Live(h) \subseteq S
  BY <1>3, KidsInduction
<1>5. QED
  BY <1>2, <1>4 DEF S, text

(* The text of a child, and of those from c on where others come before.   *)
Item(h, i, c) == Cat(Label(h, Compact, i, c), Render(h, c, Compact))

Others(h, i, c) == More(h, Compact, LaidOut(h, Compact), i, 1, c)

(* They are texts, and follow each other after a comma.                    *)
LEMMA OthersUnfold ==
    ASSUME NEW h, HeapOK(h), NEW i \in Live(h)
    PROVE  /\ Others(h, i, Nil) = <<>>
           /\ \A c \in Kids(h, i) \cup {Nil} : AText(Others(h, i, c))
           /\ \A c \in Kids(h, i) :
                 /\ AText(Item(h, i, c))
                 /\ Line(h, Compact, LaidOut(h, Compact), i, 1, c)
                       = Item(h, i, c)
                 /\ Others(h, i, c) = Cat(Cat(Comma, Item(h, i, c)),
                                          Others(h, i, h.next[c]))
<1> DEFINE text == LaidOut(h, Compact)
<1>1. KidsTyped(h, text, i, 1) /\ AForm(Compact)
  BY CompactIsForm, TextsAre
<1>2. ASSUME NEW c \in Kids(h, i)
      PROVE  /\ AText(Item(h, i, c))
             /\ Line(h, Compact, text, i, 1, c) = Item(h, i, c)
  <2>1. c \in Live(h)
    BY DEF Kids
  <2>2. AText(Label(h, Compact, i, c))
    BY <1>1, <2>1, LabelTyped
  <2>3. text[<<c, 1>>] = Render(h, c, Compact)
    BY <2>1, SameInEveryDepth
  <2>4. AText(text[<<c, 1>>])
    BY <1>1 DEF KidsTyped
  <2>5. Line(h, Compact, text, i, 1, c)
           = Cat(Cat(<<>>, Label(h, Compact, i, c)), Render(h, c, Compact))
    BY <2>3, CompactIsForm, LineIs
  <2>6. Cat(<<>>, Label(h, Compact, i, c)) = Label(h, Compact, i, c)
    BY <2>2, CatNothing
  <2>7. QED
    BY <2>2, <2>3, <2>4, <2>5, <2>6, CatTyped DEF Item
<1> HIDE DEF text
<1>3. /\ More(h, Compact, text, i, 1, Nil) = <<>>
      /\ \A c \in Kids(h, i) \cup {Nil} :
            AText(More(h, Compact, text, i, 1, c))
      /\ \A c \in Kids(h, i) :
            More(h, Compact, text, i, 1, c)
               = Cat(Cat(Comma, Line(h, Compact, text, i, 1, c)),
                     More(h, Compact, text, i, 1, h.next[c]))
  <2>1. PICK d \in Nat : d = 1
    OBVIOUS
  <2>2. KidsTyped(h, text, i, d)
    BY <1>1, <2>1
  <2>3. More(h, Compact, text, i, d, Nil) = <<>>
    BY <1>1, <2>2, MoreUnfold
  <2>4. \A c \in Kids(h, i) \cup {Nil} :
           AText(More(h, Compact, text, i, d, c))
    BY <1>1, <2>2, MoreUnfold
  <2>5. \A c \in Kids(h, i) :
           More(h, Compact, text, i, d, c)
              = Cat(Cat(Comma, Line(h, Compact, text, i, d, c)),
                    More(h, Compact, text, i, d, h.next[c]))
    BY <1>1, <2>2, MoreUnfold
  <2>6. QED
    BY <2>1, <2>3, <2>4, <2>5
<1>4. QED
  BY <1>2, <1>3 DEF Others, text

(* The text of a container up to its closing bracket.                      *)
Begun(h, i) ==
    IF h.first[i] = Nil
    THEN One(Opening(h.type[i]))
    ELSE Cat(Cat(One(Opening(h.type[i])), Item(h, i, h.first[i])),
             Others(h, i, h.next[h.first[i]]))

(* What comes before the next child.                                       *)
Between(h, i) == IF h.first[i] = Nil THEN <<>> ELSE Comma

(* It is one.                                                              *)
LEMMA BegunTyped ==
    ASSUME NEW h, HeapOK(h), NEW i \in Live(h)
    PROVE  AText(Begun(h, i)) /\ AText(Between(h, i))
<1>1. AText(One(Opening(h.type[i]))) /\ AText(Comma) /\ AText(<<>>)
  BY PunctuationTyped, CatNothing
<1>2. CASE h.first[i] = Nil
  BY <1>1, <1>2 DEF Begun, Between
<1>3. CASE h.first[i] # Nil
  <2>1. h.first[i] \in Kids(h, i)
        /\ h.next[h.first[i]] \in Kids(h, i) \cup {Nil}
    BY <1>3, KidsLinked
  <2>2. AText(Item(h, i, h.first[i]))
        /\ AText(Others(h, i, h.next[h.first[i]]))
    BY <2>1, OthersUnfold
  <2>3. AText(Cat(One(Opening(h.type[i])), Item(h, i, h.first[i])))
    BY <1>1, <2>2, CatTyped
  <2>4. QED
    BY <1>1, <1>3, <2>2, <2>3, CatTyped DEF Begun, Between
<1>4. QED
  BY <1>2, <1>3

(* The text of every kind of node.                                         *)
LEMMA OnOneLine ==
    ASSUME NEW h, HeapOK(h), NEW i \in Live(h)
    PROVE  /\ AText(Render(h, i, Compact))
           /\ Render(h, i, Compact) =
                 IF h.type[i] = "String"
                 THEN Quoted(ViewString(h, h.value[i]))
                 ELSE IF h.type[i] \notin Containers
                 THEN One(h.type[i])
                 ELSE Cat(Begun(h, i), One(Closing(h.type[i])))
<1> DEFINE text == LaidOut(h, Compact)
           open == One(Opening(h.type[i]))
           close == One(Closing(h.type[i]))
<1>1. /\ Render(h, i, Compact) = text[<<i, 0>>] /\ AText(text[<<i, 0>>])
      /\ text[<<i, 0>>] = NodeText(h, Compact, text, <<i, 0>>)
      /\ KidsTyped(h, text, i, 0 + 1) /\ KidsTyped(h, text, i, 1)
  <2>1. Render(h, i, Compact) = text[<<i, 0>>]
    BY CompactIsForm, TextsAre
  <2>2. AText(text[<<i, 0>>])
        /\ text[<<i, 0>>] = NodeText(h, Compact, text, <<i, 0>>)
    BY CompactIsForm, TextsAre
  <2>3. KidsTyped(h, text, i, 1)
    BY CompactIsForm, TextsAre
  <2> HIDE DEF text
  <2>4. 0 + 1 = 1
    OBVIOUS
  <2>5. QED
    BY <2>1, <2>2, <2>3, <2>4
<1>2. AText(open) /\ AText(close)
  BY PunctuationTyped
<1>3. CASE h.type[i] \notin Containers
  BY <1>1, <1>3, NodeTextIs
<1>4. CASE h.type[i] \in Containers
  <2>1. h.type[i] # "String"
    BY <1>4 DEF Containers
  <2>2. CASE h.first[i] = Nil
    <3>1. NodeText(h, Compact, text, <<i, 0>>) = Cat(open, close)
      <4> HIDE DEF text, open, close
      <4>1. PICK d \in Nat : d = 0 /\ KidsTyped(h, text, i, d + 1)
        BY <1>1
      <4>2. NodeText(h, Compact, text, <<i, d>>) = Cat(open, close)
        BY <1>4, <2>2, <4>1, CompactIsForm, ContainerText DEF open, close
      <4>3. QED
        BY <4>1, <4>2
    <3>2. QED
      BY <1>1, <1>4, <2>1, <2>2, <3>1 DEF Begun
  <2>3. CASE h.first[i] # Nil
    <3> DEFINE item == Item(h, i, h.first[i])
               others == Others(h, i, h.next[h.first[i]])
    <3>1. NodeText(h, Compact, text, <<i, 0>>)
             = Cat(open, Cat(item, Cat(others, Cat(<<>>, close))))
      <4> HIDE DEF text, open, close
      <4>1. PICK d, e : /\ d = 0 /\ e = 1 /\ d \in Nat /\ e = d + 1
                        /\ KidsTyped(h, text, i, d + 1)
        BY <1>1
      <4>2. NodeText(h, Compact, text, <<i, d>>)
               = Cat(open, Cat(Line(h, Compact, text, i, d + 1, h.first[i]),
                    Cat(More(h, Compact, text, i, d + 1, h.next[h.first[i]]),
                       Cat(NewLine(Compact, d), close))))
        BY <1>4, <2>3, <4>1, CompactIsForm, ContainerText DEF open, close
      <4>3. h.first[i] \in Kids(h, i)
        BY <2>3, KidsLinked
      <4>4. Line(h, Compact, text, i, 1, h.first[i]) = item
        BY <4>3, OthersUnfold DEF text
      <4>5. More(h, Compact, text, i, 1, h.next[h.first[i]]) = others
        BY DEF Others, text
      <4>6. NewLine(Compact, d) = <<>>
        BY CompactIsForm
      <4> HIDE DEF item, others
      <4>7. QED
        BY <4>1, <4>2, <4>4, <4>5, <4>6
    <3>2. AText(item) /\ AText(others)
      <4>1. h.first[i] \in Kids(h, i)
            /\ h.next[h.first[i]] \in Kids(h, i) \cup {Nil}
        BY <2>3, KidsLinked
      <4>2. QED
        BY <4>1, OthersUnfold
    <3>3. Begun(h, i) = Cat(Cat(open, item), others)
      BY <2>3 DEF Begun
    <3> HIDE DEF item, others, open, close
    <3>4. Cat(open, Cat(item, Cat(others, Cat(<<>>, close))))
             = Cat(Cat(Cat(open, item), others), close)
      <4>1. Cat(<<>>, close) = close
        BY <1>2, CatNothing
      <4>2. AText(Cat(others, close)) /\ AText(Cat(open, item))
        BY <1>2, <3>2, CatTyped
      <4>3. Cat(open, Cat(item, Cat(others, close)))
               = Cat(Cat(open, item), Cat(others, close))
        BY <1>2, <3>2, <4>2, CatAssociative
      <4>4. @ = Cat(Cat(Cat(open, item), others), close)
        BY <1>2, <3>2, <4>2, CatAssociative
      <4>5. QED
        BY <4>1, <4>3, <4>4
    <3>5. QED
      BY <1>1, <1>4, <2>1, <3>1, <3>3, <3>4 DEF close
  <2>4. QED
    BY <2>2, <2>3
<1>5. QED
  BY <1>1, <1>3, <1>4

-----------------------------------------------------------------------------
(* What keeps the text of a node.                                          *)

(* In g, c comes on the list of i where it came in h, under the same key.  *)
LikeMember(g, h, i, c) ==
    /\ c \in Kids(g, i) /\ g.next[c] = h.next[c]
    /\ ViewString(g, g.key[c]) = ViewString(h, h.key[c])

(* In g, i is the node it was in h.                                        *)
LikeNode(g, h, i) ==
    /\ i \in Live(g)
    /\ g.type[i] = h.type[i] /\ g.first[i] = h.first[i]
    /\ ViewString(g, g.value[i]) = ViewString(h, h.value[i])
    /\ \A c \in Kids(h, i) : LikeMember(g, h, i, c)

(* A container goes on as it did when its children do.                     *)
LEMMA SameBegun ==
    ASSUME NEW h, HeapOK(h), NEW g, HeapOK(g), NEW i \in Live(h),
           LikeNode(g, h, i),
           \A c \in Kids(h, i) : Render(g, c, Compact) = Render(h, c, Compact)
    PROVE  Begun(g, i) = Begun(h, i)
<1>1. i \in Live(g) /\ g.type[i] = h.type[i] /\ g.first[i] = h.first[i]
  BY DEF LikeNode
<1>2. ASSUME NEW c \in Kids(h, i)
      PROVE  /\ c \in Kids(g, i) /\ g.next[c] = h.next[c]
             /\ Item(g, i, c) = Item(h, i, c)
  <2>1. LikeMember(g, h, i, c)
    BY DEF LikeNode
  <2>2. Label(g, Compact, i, c) = Label(h, Compact, i, c)
    BY <1>1, <2>1 DEF LikeMember, Label
  <2>3. QED
    BY <2>1, <2>2 DEF LikeMember, Item
<1> DEFINE S == {c \in Live(h) : c \in Kids(h, i) =>
                                    Others(g, i, c) = Others(h, i, c)}
<1>3. ASSUME NEW c \in Live(h), h.next[c] # Nil => h.next[c] \in S
      PROVE  c \in S
  <2> SUFFICES ASSUME c \in Kids(h, i)
               PROVE  Others(g, i, c) = Others(h, i, c)
    OBVIOUS
  <2>1. Others(g, i, g.next[c]) = Others(h, i, h.next[c])
    <3>1. CASE h.next[c] = Nil
      BY <1>1, <1>2, <3>1, OthersUnfold
    <3>2. CASE h.next[c] # Nil
      <4>1. h.next[c] \in Kids(h, i)
        BY <3>2, KidsLinked
      <4>2. QED
        BY <1>2, <1>3, <3>2, <4>1
    <3>3. QED
      BY <3>1, <3>2
  <2>2. Others(h, i, c) = Cat(Cat(Comma, Item(h, i, c)),
                              Others(h, i, h.next[c]))
    BY OthersUnfold
  <2>3. Others(g, i, c) = Cat(Cat(Comma, Item(g, i, c)),
                              Others(g, i, g.next[c]))
    BY <1>1, <1>2, OthersUnfold
  <2>4. QED
    BY <1>2, <2>1, <2>2, <2>3
<1> HIDE DEF S
<1>4. Live(h) \subseteq S
  BY <1>3, ListInduction
<1>5. CASE h.first[i] = Nil
  BY <1>1, <1>5 DEF Begun
<1>6. CASE h.first[i] # Nil
  <2>1. h.first[i] \in Kids(h, i)
        /\ h.next[h.first[i]] \in Kids(h, i) \cup {Nil}
    BY <1>6, KidsLinked
  <2>2. Others(g, i, h.next[h.first[i]]) = Others(h, i, h.next[h.first[i]])
    <3>1. CASE h.next[h.first[i]] = Nil
      BY <1>1, <3>1, OthersUnfold
    <3>2. CASE h.next[h.first[i]] # Nil
      BY <1>4, <2>1, <3>2 DEF S, Kids
    <3>3. QED
      BY <3>1, <3>2
  <2>3. QED
    BY <1>1, <1>2, <1>6, <2>1, <2>2 DEF Begun
<1>7. QED
  BY <1>5, <1>6

(* The text of a node is kept with the nodes below it.                     *)
LEMMA SameText ==
    ASSUME NEW h, HeapOK(h), NEW g, HeapOK(g), NEW T \in SUBSET Live(h),
           \A i \in T : LikeNode(g, h, i) /\ Kids(h, i) \subseteq T
    PROVE  \A i \in T : /\ Render(g, i, Compact) = Render(h, i, Compact)
                        /\ Begun(g, i) = Begun(h, i)
<1> DEFINE S == {i \in Live(h) : i \in T =>
                    Render(g, i, Compact) = Render(h, i, Compact)}
<1>1. ASSUME NEW i \in Live(h), Kids(h, i) \subseteq S PROVE i \in S
  <2> SUFFICES ASSUME i \in T
               PROVE  Render(g, i, Compact) = Render(h, i, Compact)
    OBVIOUS
  <2>1. LikeNode(g, h, i) /\ i \in Live(g)
    BY DEF LikeNode
  <2>2. \A c \in Kids(h, i) : Render(g, c, Compact) = Render(h, c, Compact)
    BY <1>1
  <2>3. Begun(g, i) = Begun(h, i)
    BY <2>1, <2>2, SameBegun
  <2>4. g.type[i] = h.type[i]
        /\ ViewString(g, g.value[i]) = ViewString(h, h.value[i])
    BY <2>1 DEF LikeNode
  <2>5. QED
    BY <2>1, <2>3, <2>4, OnOneLine
<1> HIDE DEF S
<1>2. Live(h) \subseteq S
  BY <1>1, KidsInduction
<1>3. \A i \in T : Render(g, i, Compact) = Render(h, i, Compact)
  BY <1>2 DEF S
<1>4. ASSUME NEW i \in T PROVE Begun(g, i) = Begun(h, i)
  <2>1. LikeNode(g, h, i) /\ i \in Live(h) /\ Kids(h, i) \subseteq T
    OBVIOUS
  <2>2. QED
    BY <1>3, <2>1, SameBegun
<1>5. QED
  BY <1>3, <1>4

(* When nodes and strings are added, no text changes.                      *)
LEMMA AddedText ==
    ASSUME NEW h, HeapOK(h), NEW g, HeapOK(g), SameNodes(g, h),
           BytesKept(g, h), Live(h) \subseteq Live(g)
    PROVE  \A i \in Live(h) : /\ Render(g, i, Compact) = Render(h, i, Compact)
                              /\ Begun(g, i) = Begun(h, i)
<1>1. ASSUME NEW i \in Live(h)
      PROVE  /\ ViewString(g, g.key[i]) = ViewString(h, h.key[i])
             /\ ViewString(g, g.value[i]) = ViewString(h, h.value[i])
  BY LiveRefs, KeptView DEF SameNodes
<1>2. ASSUME NEW i \in Live(h) PROVE LikeNode(g, h, i)
  <2>1. ASSUME NEW c \in Kids(h, i) PROVE LikeMember(g, h, i, c)
    <3>1. c \in Live(h) /\ h.parent[c] = i
      BY DEF Kids
    <3>2. QED
      BY <1>1, <3>1 DEF LikeMember, Kids, SameNodes
  <2>2. QED
    BY <1>1, <2>1 DEF LikeNode, SameNodes
<1>3. \A i \in Live(h) : Kids(h, i) \subseteq Live(h)
  BY DEF Kids
<1>4. QED
  BY <1>2, <1>3, SameText

(* What is true of the children of p, but for the last.                    *)
LEMMA AttachedLinks ==
    ASSUME NEW h, HeapOK(h), NEW g, HeapOK(g), NEW p, NEW id, NEW ref, NEW flags,
           Attached(g, h, p, id, ref, flags)
    PROVE  /\ p \in Live(h) /\ id \in Live(h) /\ Live(g) = Live(h)
           /\ id \in Kids(g, p) /\ g.next[id] = Nil /\ g.first[p] # Nil
           /\ g.first[p] = IF h.first[p] = Nil THEN id ELSE h.first[p]
           /\ g.type = h.type
           /\ \A i \in Live(h) :
                 ViewString(g, g.value[i]) = ViewString(h, h.value[i])
           /\ \A i \in Live(h) : \A c \in Kids(h, i) :
                 /\ c \in Kids(g, i) /\ c # id
                 /\ ViewString(g, g.key[c]) = ViewString(h, h.key[c])
                 /\ i # p => g.next[c] = h.next[c]
                 /\ i = p => g.next[c] = IF h.next[c] = Nil THEN id
                                         ELSE h.next[c]
<1>1. /\ p \in Live(h) /\ id \in Live(h) /\ h.parent[id] = Nil
      /\ LinksAppended(g, h, p, id) /\ BytesKept(g, h)
      /\ g.count = h.count /\ g.type = h.type /\ g.value = h.value
      /\ \A i \in Ids : g.key[i] = IF i = id THEN ref ELSE h.key[i]
  BY DEF Attached, OnlyKeySet
<1>2. Live(g) = Live(h) /\ Live(h) \subseteq Ids /\ Nil \notin Ids
  BY <1>1, LinksStayLive, IdsBelowNil DEF Live
<1>3. id \in Kids(g, p) /\ g.next[id] = Nil
  BY <1>1, <1>2 DEF LinksAppended, Kids
<1>4. h.first[p] = Nil <=> h.last[p] = Nil
  BY <1>1, <1>2 DEF HeapOK, ForestOK, LinksOK, EndsOK
<1>5. /\ g.first[p] = IF h.first[p] = Nil THEN id ELSE h.first[p]
      /\ g.first[p] # Nil
  BY <1>1, <1>2, <1>4 DEF LinksAppended
<1>6. ASSUME NEW i \in Live(h)
      PROVE  ViewString(g, g.value[i]) = ViewString(h, h.value[i])
  BY <1>1, LiveRefs, KeptView
<1>7. ASSUME NEW i \in Live(h), NEW c \in Kids(h, i)
      PROVE  /\ c \in Kids(g, i) /\ c # id
             /\ ViewString(g, g.key[c]) = ViewString(h, h.key[c])
             /\ i # p => g.next[c] = h.next[c]
             /\ i = p => g.next[c] = IF h.next[c] = Nil THEN id ELSE h.next[c]
  <2>1. c \in Live(h) /\ h.parent[c] = i /\ c # id /\ i # Nil
    BY <1>1, <1>2 DEF Kids
  <2>2. c \in Kids(g, i)
    BY <1>1, <1>2, <2>1 DEF LinksAppended, Kids
  <2>3. g.key[c] = h.key[c]
    BY <1>1, <1>2, <2>1
  <2>4. ViewString(g, g.key[c]) = ViewString(h, h.key[c])
    BY <1>1, <2>1, <2>3, LiveRefs, KeptView
  <2>5. g.next[c] = IF c = h.last[p] THEN id ELSE h.next[c]
    BY <1>1, <1>2, <2>1 DEF LinksAppended
  <2>6. c = h.last[p] <=> i = p /\ h.next[c] = Nil
    BY <1>1, <1>2, <2>1 DEF HeapOK, ForestOK, LinksOK, EndsOK, NextOK
  <2>7. QED
    BY <2>1, <2>2, <2>4, <2>5, <2>6
<1>8. QED
  BY <1>1, <1>2, <1>3, <1>5, <1>6, <1>7

(* A child that is attached comes after all others.                        *)
LEMMA OthersAppended ==
    ASSUME NEW h, HeapOK(h), NEW g, HeapOK(g), NEW p, NEW id, NEW ref, NEW flags,
           Attached(g, h, p, id, ref, flags),
           \A c \in Kids(h, p) : Render(g, c, Compact) = Render(h, c, Compact)
    PROVE  /\ AText(Item(g, p, id))
           /\ \A c \in Kids(h, p) :
                 /\ Item(g, p, c) = Item(h, p, c)
                 /\ Others(g, p, g.next[c])
                       = Cat(Others(h, p, h.next[c]), Cat(Comma, Item(g, p, id)))
<1>1. /\ p \in Live(h) /\ p \in Live(g) /\ id \in Kids(g, p)
      /\ g.next[id] = Nil /\ g.type = h.type
      /\ \A c \in Kids(h, p) :
            /\ c \in Kids(g, p)
            /\ ViewString(g, g.key[c]) = ViewString(h, h.key[c])
            /\ g.next[c] = IF h.next[c] = Nil THEN id ELSE h.next[c]
  <2>1. /\ p \in Live(h) /\ Live(g) = Live(h) /\ id \in Kids(g, p)
        /\ g.next[id] = Nil /\ g.type = h.type
    BY AttachedLinks
  <2>2. ASSUME NEW c \in Kids(h, p)
        PROVE  /\ c \in Kids(g, p)
               /\ ViewString(g, g.key[c]) = ViewString(h, h.key[c])
               /\ g.next[c] = IF h.next[c] = Nil THEN id ELSE h.next[c]
    BY <2>1, AttachedLinks
  <2>3. QED
    BY <2>1, <2>2
<1> DEFINE item == Item(g, p, id)
           new == Cat(Comma, item)
<1>2. AText(item) /\ AText(Comma) /\ AText(<<>>)
  BY <1>1, OthersUnfold, PunctuationTyped, CatNothing
<1>3. Others(g, p, id) = new /\ AText(new)
  <2>1. AText(new)
    BY <1>2, CatTyped
  <2>2. Others(g, p, id) = Cat(Cat(Comma, item), <<>>)
    BY <1>1, OthersUnfold
  <2>3. QED
    BY <2>1, <2>2, CatNothing
<1> HIDE DEF item, new
<1>4. ASSUME NEW c \in Kids(h, p) PROVE Item(g, p, c) = Item(h, p, c)
  BY <1>1 DEF Item, Label
<1> DEFINE S == {c \in Live(h) : c \in Kids(h, p) =>
                    Others(g, p, g.next[c]) = Cat(Others(h, p, h.next[c]), new)}
<1>5. ASSUME NEW c \in Live(h), h.next[c] # Nil => h.next[c] \in S
      PROVE  c \in S
  <2> SUFFICES ASSUME c \in Kids(h, p)
               PROVE  Others(g, p, g.next[c])
                         = Cat(Others(h, p, h.next[c]), new)
    OBVIOUS
  <2>1. CASE h.next[c] = Nil
    <3>1. Others(h, p, Nil) = <<>> /\ g.next[c] = id
      BY <1>1, <2>1, OthersUnfold
    <3>2. QED
      BY <1>3, <2>1, <3>1, CatNothing
  <2>2. CASE h.next[c] # Nil
    <3> DEFINE d == h.next[c]
    <3>1. d \in Kids(h, p) /\ d \in Kids(g, p) /\ g.next[c] = d
      BY <1>1, <2>2, KidsLinked
    <3>2. Others(g, p, g.next[d]) = Cat(Others(h, p, h.next[d]), new)
      BY <1>5, <2>2, <3>1
    <3> HIDE DEF d
    <3>3. h.next[d] \in Kids(h, p) \cup {Nil}
      BY <1>1, <3>1, KidsLinked
    <3>4. /\ Others(g, p, d) = Cat(Cat(Comma, Item(g, p, d)),
                                   Others(g, p, g.next[d]))
          /\ Others(h, p, d) = Cat(Cat(Comma, Item(h, p, d)),
                                   Others(h, p, h.next[d]))
          /\ AText(Item(h, p, d)) /\ AText(Others(h, p, h.next[d]))
      BY <1>1, <3>1, <3>3, OthersUnfold
    <3>5. AText(Cat(Comma, Item(h, p, d)))
      BY <1>2, <3>4, CatTyped
    <3>6. Others(g, p, d) = Cat(Others(h, p, d), new)
      BY <1>3, <1>4, <3>1, <3>2, <3>4, <3>5, CatAssociative
    <3>7. QED
      BY <3>1, <3>6 DEF d
  <2>3. QED
    BY <2>1, <2>2
<1> HIDE DEF S
<1>6. Live(h) \subseteq S
  BY <1>5, ListInduction
<1>7. \A c \in Kids(h, p) : c \in S
  BY <1>6 DEF Kids
<1>8. QED
  BY <1>2, <1>4, <1>7 DEF S, item, new

(* A tree that goes into a root: its text comes after that of the root, up *)
(* to the closing bracket, and the texts of the other nodes are kept.      *)
LEMMA AttachedText ==
    ASSUME NEW h, HeapOK(h), NEW g, HeapOK(g), NEW p, NEW id, NEW ref, NEW flags,
           Attached(g, h, p, id, ref, flags), h.parent[p] = Nil
    PROVE  /\ \A i \in Live(h) \ {p} :
                 /\ Render(g, i, Compact) = Render(h, i, Compact)
                 /\ Begun(g, i) = Begun(h, i)
                 /\ g.first[i] = h.first[i]
           /\ g.first[p] # Nil
           /\ Begun(g, p) = Cat(Cat(Begun(h, p), Between(h, p)),
                                Cat(Label(g, Compact, p, id),
                                    Render(h, id, Compact)))
<1> DEFINE T == Live(h) \ {p}
<1>1. p \in Live(h) /\ id \in Live(h) /\ Live(g) = Live(h)
  BY AttachedLinks
<1>2. /\ id \in Kids(g, p) /\ g.next[id] = Nil /\ g.first[p] # Nil
      /\ g.first[p] = IF h.first[p] = Nil THEN id ELSE h.first[p]
      /\ g.type = h.type
  BY AttachedLinks
<1>3. \A i \in T : g.first[i] = h.first[i]
  BY LinksStayLive DEF Attached, LinksAppended
<1>4. ASSUME NEW i \in T PROVE LikeNode(g, h, i) /\ Kids(h, i) \subseteq T
  <2>1. i \in Live(h) /\ i # p /\ i # Nil
    BY LinksStayLive, IdsBelowNil
  <2>2. Kids(h, i) \subseteq T
    BY <2>1 DEF Kids
  <2>3. ASSUME NEW c \in Kids(h, i) PROVE LikeMember(g, h, i, c)
    BY <2>1, AttachedLinks DEF LikeMember
  <2>4. ViewString(g, g.value[i]) = ViewString(h, h.value[i])
    BY <2>1, AttachedLinks
  <2>5. QED
    BY <1>1, <1>2, <1>3, <2>1, <2>2, <2>3, <2>4 DEF LikeNode
<1>5. \A i \in T : /\ Render(g, i, Compact) = Render(h, i, Compact)
                   /\ Begun(g, i) = Begun(h, i)
  <2>1. T \in SUBSET Live(h)
    OBVIOUS
  <2> HIDE DEF T
  <2>2. QED
    BY <1>4, <2>1, SameText
<1>6. id \in T /\ \A c \in Kids(h, p) : c \in T
  <2>1. id # p /\ p # Nil
    BY LinksStayLive, IdsBelowNil, ReachStart DEF Attached, Ancestors
  <2>2. QED
    BY <1>1, <2>1 DEF Kids
<1> HIDE DEF T
<1> DEFINE open == One(Opening(h.type[p]))
           item == Item(g, p, id)
<1>7. item = Cat(Label(g, Compact, p, id), Render(h, id, Compact))
  BY <1>5, <1>6 DEF Item
<1>8. \A c \in Kids(h, p) : Render(g, c, Compact) = Render(h, c, Compact)
  BY <1>5, <1>6
<1>9. /\ AText(item)
      /\ \A c \in Kids(h, p) :
            /\ Item(g, p, c) = Item(h, p, c)
            /\ Others(g, p, g.next[c])
                  = Cat(Others(h, p, h.next[c]), Cat(Comma, item))
  BY <1>8, OthersAppended
<1>10. AText(open) /\ AText(Comma) /\ AText(<<>>)
  BY PunctuationTyped, CatNothing
<1> HIDE DEF item
<1>11. Begun(g, p) = Cat(Cat(Begun(h, p), Between(h, p)), item)
  <2>1. CASE h.first[p] = Nil
    <3>1. Begun(g, p) = Cat(Cat(open, item), Others(g, p, g.next[id]))
      BY <1>2, <2>1 DEF Begun, item
    <3>2. Others(g, p, g.next[id]) = <<>>
      BY <1>1, <1>2, OthersUnfold
    <3>3. Begun(h, p) = open /\ Between(h, p) = <<>>
      BY <2>1 DEF Begun, Between
    <3> HIDE DEF open
    <3>4. AText(Cat(open, item))
      BY <1>9, <1>10, CatTyped
    <3>5. QED
      BY <1>10, <3>1, <3>2, <3>3, <3>4, CatNothing
  <2>2. CASE h.first[p] # Nil
    <3> DEFINE c == h.first[p]
               others == Others(h, p, h.next[c])
    <3>1. c \in Kids(h, p) /\ h.next[c] \in Kids(h, p) \cup {Nil}
      BY <1>1, <2>2, KidsLinked
    <3>2. AText(Item(h, p, c)) /\ AText(others)
      BY <1>1, <3>1, OthersUnfold
    <3>3. Begun(g, p) = Cat(Cat(open, Item(g, p, c)), Others(g, p, g.next[c]))
      BY <1>2, <2>2 DEF Begun
    <3>4. Begun(h, p) = Cat(Cat(open, Item(h, p, c)), others)
          /\ Between(h, p) = Comma
      BY <2>2 DEF Begun, Between
    <3>5. Item(g, p, c) = Item(h, p, c)
          /\ Others(g, p, g.next[c]) = Cat(others, Cat(Comma, item))
      BY <1>9, <3>1
    <3> HIDE DEF c, others, open
    <3> DEFINE a == Cat(open, Item(h, p, c))
    <3>6. AText(a) /\ AText(Cat(a, others))
      BY <1>10, <3>2, CatTyped
    <3>7. Begun(g, p) = Cat(a, Cat(others, Cat(Comma, item)))
      BY <3>3, <3>5
    <3>8. AText(Cat(Comma, item))
      BY <1>9, <1>10, CatTyped
    <3> HIDE DEF a
    <3>9. Cat(a, Cat(others, Cat(Comma, item)))
             = Cat(Cat(a, others), Cat(Comma, item))
      BY <3>2, <3>6, <3>8, CatAssociative
    <3>10. @ = Cat(Cat(Cat(a, others), Comma), item)
      BY <1>9, <1>10, <3>6, CatAssociative
    <3>11. QED
      BY <3>4, <3>7, <3>9, <3>10 DEF a
  <2>3. QED
    BY <2>1, <2>2
<1>12. QED
  BY <1>2, <1>3, <1>5, <1>7, <1>11 DEF T
=============================================================================

----------------------- MODULE SlabSerializer_proofs -----------------------
(***************************************************************************)
(* Theorems about SlabSerializer: the walk of every serializer over every  *)
(* document, with every writer, and what is counted and written on it.     *)
(*                                                                         *)
(* First come lemmas on the walk: where it is, what of the text of the     *)
(* document is left from there (Left), and how the pieces of a turn spell  *)
(* the next part of it; then the walker, which stays on the walk           *)
(* (SerializerInv); then what it has told of the text (TextInv).           *)
(***************************************************************************)
EXTENDS SlabSerializer, SlabDom_proofs, SlabText_proofs

-----------------------------------------------------------------------------
(* The walk over a heap.  (id, depth) is where it is.                      *)
At(h, root, id, depth) ==
    /\ root \in Live(h)
    /\ id \in Below(h, root)
    /\ depth \in Nat
    /\ Depth(h, id) = Depth(h, root) + depth

(* It begins at its root.                                                  *)
LEMMA AtItsRoot ==
    ASSUME NEW h, HeapOK(h), NEW root \in Live(h)
    PROVE  At(h, root, root, 0)
<1>1. root \in Below(h, root)
  BY LinksStayLive, ReachStart DEF Below, Ancestors
<1>2. QED
  BY <1>1, DepthCounts DEF At

(* Down to the first child, which is where it should be.                   *)
LEMMA WalkDown ==
    ASSUME NEW h, HeapOK(h), NEW root, NEW id, NEW depth,
           At(h, root, id, depth), h.first[id] # Nil
    PROVE  /\ h.first[id] \in Live(h) /\ h.parent[h.first[id]] = id
           /\ At(h, root, h.first[id], depth + 1)
<1> DEFINE child == h.first[id]
<1>1. id \in Live(h) /\ root \in Ancestors(h, id)
  BY DEF At, Below
<1>2. child \in Live(h) /\ h.parent[child] = id
  BY <1>1 DEF HeapOK, ForestOK, LinksOK, EndsOK
<1> HIDE DEF child
<1>3. child \in Below(h, root)
  BY <1>1, <1>2, AncestorsOfChild DEF Below
<1>4. Depth(h, child) = Depth(h, id) + 1
  BY <1>1, <1>2, DepthOfChild
<1>5. QED
  BY <1>2, <1>3, <1>4, DepthCounts DEF At, child

(* Below its root every node has a parent that is a container, on the walk *)
(* and one less deep.                                                      *)
LEMMA WalkUp ==
    ASSUME NEW h, HeapOK(h), NEW root, NEW id, NEW depth,
           At(h, root, id, depth), id # root
    PROVE  /\ h.parent[id] \in Live(h) /\ h.type[h.parent[id]] \in Containers
           /\ depth # 0
           /\ At(h, root, h.parent[id], depth - 1)
<1> DEFINE p == h.parent[id]
<1>1. root \in Live(h) /\ id \in Live(h) /\ id \in Ids /\ root \in Ancestors(h, id)
  BY LinksStayLive DEF At, Below
<1>2. root \in Ancestors(h, p)
  BY <1>1, ReachUnfold DEF Ancestors
<1>3. p \in Ids
  BY <1>2, ReachNil DEF Ancestors
<1>4. p \in Live(h) /\ h.type[p] \in Containers
  BY <1>1, <1>3, IdsBelowNil DEF HeapOK, ForestOK, LinksOK, ParentOK
<1>5. Depth(h, id) = Depth(h, p) + 1
  BY <1>1, <1>4, DepthOfChild
<1>6. p \in Below(h, root)
  BY <1>2, <1>4 DEF Below
<1> HIDE DEF p
<1>7. Depth(h, root) <= Depth(h, p)
  BY <1>1, <1>6, BelowIsDeeper
<1>8. depth - 1 \in Nat /\ Depth(h, p) = Depth(h, root) + (depth - 1)
  BY <1>5, <1>7, DepthCounts DEF At
<1>9. QED
  BY <1>1, <1>4, <1>6, <1>8 DEF At, p

(* On to the next sibling, which is where it should be.                    *)
LEMMA WalkOnwards ==
    ASSUME NEW h, HeapOK(h), NEW root, NEW id, NEW depth,
           At(h, root, id, depth), id # root, h.next[id] # Nil
    PROVE  /\ h.next[id] \in Live(h) /\ h.parent[h.next[id]] = h.parent[id]
           /\ At(h, root, h.next[id], depth)
<1> DEFINE sibling == h.next[id]
<1>1. id \in Live(h) /\ h.parent[id] \in Live(h)
      /\ At(h, root, h.parent[id], depth - 1)
  BY WalkUp DEF At, Below
<1>2. sibling \in Live(h) /\ h.parent[sibling] = h.parent[id]
  BY <1>1 DEF HeapOK, ForestOK, LinksOK, NextOK
<1> HIDE DEF sibling
<1>3. sibling \in Below(h, root)
  BY <1>1, <1>2, AncestorsOfChild DEF Below, At
<1>4. Depth(h, sibling) = Depth(h, h.parent[id]) + 1
      /\ Depth(h, id) = Depth(h, h.parent[id]) + 1
  BY <1>1, <1>2, DepthOfChild
<1>5. QED
  BY <1>2, <1>3, <1>4 DEF At, sibling

-----------------------------------------------------------------------------
(* What is left to be written on the walk.                                 *)

(* A walk over a document, for a text of some form.                        *)
OnWalk(h, form, root, i, d) ==
    HeapOK(h) /\ AForm(form) /\ At(h, root, i, d)

(* Every node below the root is on the walk, in one depth.                 *)
LEMMA BelowIsOnWalk ==
    ASSUME NEW h, HeapOK(h), NEW root \in Live(h), NEW i \in Below(h, root)
    PROVE  At(h, root, i, Depth(h, i) - Depth(h, root))
BY BelowIsDeeper, DepthCounts DEF At

(* The text of a node in some depth; the lines that come after that of a   *)
(* child, c being the next; and the end of the container a node is in.     *)
TextAt(h, form, i, d) == LaidOut(h, form)[<<i, d>>]

MoreAt(h, form, p, d, c) == More(h, form, LaidOut(h, form), p, d, c)

Ending(h, form, i, d) ==
    Cat(NewLine(form, d - 1), One(Closing(h.type[h.parent[i]])))

(* They are texts.                                                         *)
LEMMA WalkTextsTyped ==
    ASSUME NEW h, NEW form, NEW root, NEW i, NEW d, OnWalk(h, form, root, i, d)
    PROVE  /\ AText(TextAt(h, form, i, d))
           /\ i # root => /\ AText(MoreAt(h, form, h.parent[i], d, h.next[i]))
                          /\ AText(Ending(h, form, i, d))
<1>1. HeapOK(h) /\ AForm(form) /\ At(h, root, i, d) /\ i \in Live(h) /\ d \in Nat
  BY DEF OnWalk, At, Below
<1>2. AText(TextAt(h, form, i, d))
  BY <1>1, TextsAre DEF TextAt
<1>3. ASSUME i # root
      PROVE  /\ AText(MoreAt(h, form, h.parent[i], d, h.next[i]))
             /\ AText(Ending(h, form, i, d))
  <2>1. h.parent[i] \in Live(h) /\ d # 0 /\ d - 1 \in Nat
    BY <1>1, <1>3, WalkUp
  <2>2. i \in Kids(h, h.parent[i])
    BY <1>1 DEF Kids
  <2>3. h.next[i] \in Kids(h, h.parent[i]) \cup {Nil}
    BY <1>1, <2>1, <2>2, KidsLinked
  <2>4. KidsTyped(h, LaidOut(h, form), h.parent[i], d)
    BY <1>1, <2>1, TextsAre
  <2>5. PICK p, c, texts : /\ p = h.parent[i] /\ c = h.next[i]
                           /\ texts = LaidOut(h, form)
    OBVIOUS
  <2>6. AText(More(h, form, texts, p, d, c))
    BY <1>1, <2>1, <2>3, <2>4, <2>5, MoreUnfold
  <2>7. AText(NewLine(form, d - 1)) /\ AText(One(Closing(h.type[h.parent[i]])))
    BY <1>1, <2>1, LayoutTyped, PunctuationTyped
  <2>8. QED
    BY <2>5, <2>6, <2>7, CatTyped DEF MoreAt, Ending
<1>4. QED
  BY <1>2, <1>3

(* What follows the text of each node in that of the root: the lines after *)
(* it, the end of its container, and what follows that.                    *)
RestOf(h, form, root, rest) ==
    rest = [i \in Below(h, root) |->
              IF i = root THEN <<>>
              ELSE Cat(MoreAt(h, form, h.parent[i],
                              Depth(h, i) - Depth(h, root), h.next[i]),
                       Cat(Ending(h, form, i, Depth(h, i) - Depth(h, root)),
                           rest[h.parent[i]]))]

Rest(h, form, root, i) ==
    (CHOOSE rest : RestOf(h, form, root, rest))[i]

(* It is a text.                                                           *)
LEMMA RestExists ==
    ASSUME NEW h, HeapOK(h), NEW form, AForm(form), NEW root \in Live(h)
    PROVE  \E rest \in [Below(h, root) -> Seq(Chars)] :
              RestOf(h, form, root, rest)
<1> DEFINE D == Below(h, root)
           T == Seq(Chars)
           F == [D -> T]
           rank == [i \in D |-> Depth(h, i)]
           deep(i) == Depth(h, i) - Depth(h, root)
           Step(f, i) ==
               IF i = root THEN <<>>
               ELSE Cat(MoreAt(h, form, h.parent[i], deep(i), h.next[i]),
                        Cat(Ending(h, form, i, deep(i)), f[h.parent[i]]))
           B == [p \in F \X D |-> Step(p[1], p[2])]
<1>1. rank \in [D -> Nat] /\ \A i \in D : rank[i] <= Capacity
  BY DepthCounts
<1>2. ASSUME NEW i \in D, i # root
      PROVE  h.parent[i] \in D /\ rank[h.parent[i]] < rank[i]
  <2>1. At(h, root, i, deep(i)) /\ i \in Live(h)
    BY BelowIsOnWalk DEF Below
  <2>2. h.parent[i] \in Live(h) /\ h.parent[i] \in D
    BY <1>2, <2>1, WalkUp DEF At
  <2>3. Depth(h, i) = Depth(h, h.parent[i]) + 1
    BY <2>1, <2>2, DepthOfChild
  <2>4. QED
    BY <2>2, <2>3, DepthCounts
<1>3. \A f \in F, i \in D : B[<<f, i>>] = Step(f, i)
  OBVIOUS
<1>4. ASSUME NEW i \in D, i # root
      PROVE  /\ AText(MoreAt(h, form, h.parent[i], deep(i), h.next[i]))
             /\ AText(Ending(h, form, i, deep(i)))
  <2>1. OnWalk(h, form, root, i, deep(i))
    BY BelowIsOnWalk DEF OnWalk
  <2> HIDE DEF deep
  <2>2. QED
    BY <1>4, <2>1, WalkTextsTyped
<1> HIDE DEF B, rank, D, T, deep
<1>5. ASSUME NEW f \in F, NEW i \in D PROVE B[<<f, i>>] \in T
  <2>1. CASE i = root
    BY <1>3, <2>1, CatNothing DEF AText, T
  <2>2. CASE i # root
    <3>1. AText(f[h.parent[i]])
      BY <1>2, <2>2 DEF AText, T
    <3>2. AText(Step(f, i))
      BY <1>4, <2>2, <3>1, CatTyped
    <3>3. QED
      BY <1>3, <3>2 DEF AText, T
  <2>3. QED
    BY <2>1, <2>2
<1>6. ASSUME NEW f \in F, NEW g \in F, NEW i \in D,
             \A y \in D : rank[y] < rank[i] => f[y] = g[y]
      PROVE  B[<<f, i>>] = B[<<g, i>>]
  <2>1. i # root => f[h.parent[i]] = g[h.parent[i]]
    BY <1>2, <1>6
  <2>2. Step(f, i) = Step(g, i)
    BY <2>1
  <2>3. QED
    BY <1>3, <2>2
<1>7. Recursion(B, D, T, rank)
  <2>1. T # {}
    BY EmptySeq DEF T
  <2>2. \E m \in Nat : \A i \in D : rank[i] <= m
    BY <1>1, SizesAssumption
  <2>3. QED
    BY <1>1, <1>5, <1>6, <2>1, <2>2 DEF Recursion
<1>8. PICK f \in F : \A i \in D : f[i] = B[<<f, i>>]
  BY <1>7, RecursionExists
<1>9. f = [i \in D |-> Step(f, i)]
  BY <1>3, <1>8
<1>10. RestOf(h, form, root, f)
  BY <1>9 DEF RestOf, D, deep
<1>11. QED
  BY <1>10 DEF D, T

(* What it is on the walk.                                                 *)
LEMMA RestIs ==
    ASSUME NEW h, NEW form, NEW root, NEW i, NEW d, OnWalk(h, form, root, i, d)
    PROVE  /\ AText(Rest(h, form, root, i))
           /\ i = root => Rest(h, form, root, i) = <<>>
           /\ i # root =>
                 /\ Rest(h, form, root, i)
                       = Cat(MoreAt(h, form, h.parent[i], d, h.next[i]),
                             Cat(Ending(h, form, i, d),
                                 Rest(h, form, root, h.parent[i])))
                 /\ AText(Rest(h, form, root, h.parent[i]))
<1>1. /\ HeapOK(h) /\ AForm(form) /\ root \in Live(h) /\ i \in Below(h, root)
      /\ At(h, root, i, d) /\ d = Depth(h, i) - Depth(h, root)
  BY DepthCounts DEF OnWalk, At
<1> DEFINE rest == CHOOSE rest : RestOf(h, form, root, rest)
<1>2. RestOf(h, form, root, rest)
  BY <1>1, RestExists
<1> HIDE DEF rest
<1>3. \A j : Rest(h, form, root, j) = rest[j]
  BY DEF Rest, rest
<1>4. ASSUME NEW j \in Below(h, root)
      PROVE  rest[j] = IF j = root THEN <<>>
                       ELSE Cat(MoreAt(h, form, h.parent[j],
                                       Depth(h, j) - Depth(h, root), h.next[j]),
                                Cat(Ending(h, form, j,
                                           Depth(h, j) - Depth(h, root)),
                                    rest[h.parent[j]]))
  BY <1>2 DEF RestOf
<1>5. \A j \in Below(h, root) : AText(rest[j])
  <2> DEFINE D == Below(h, root)
             rank == [j \in D |-> Depth(h, j)]
             S == {j \in D : AText(rest[j])}
  <2>1. rank \in [D -> Nat]
    BY DepthCounts
  <2>2. ASSUME NEW j \in D, \A y \in D : rank[y] < rank[j] => y \in S
        PROVE  j \in S
    <3>1. CASE j = root
      BY <1>4, <3>1, CatNothing
    <3>2. CASE j # root
      <4>1. PICK e : e = Depth(h, j) - Depth(h, root) /\ At(h, root, j, e)
        BY <1>1, BelowIsOnWalk
      <4>2. h.parent[j] \in D /\ j \in Live(h) /\ h.parent[j] \in Live(h)
        BY <1>1, <3>2, <4>1, WalkUp DEF At, Below
      <4>3. rank[h.parent[j]] < rank[j]
        BY <1>1, <4>2, DepthOfChild, DepthCounts
      <4>4. AText(rest[h.parent[j]])
        BY <2>2, <4>2, <4>3
      <4>5. /\ AText(MoreAt(h, form, h.parent[j], e, h.next[j]))
            /\ AText(Ending(h, form, j, e))
        BY <1>1, <3>2, <4>1, WalkTextsTyped DEF OnWalk
      <4>6. rest[j] = Cat(MoreAt(h, form, h.parent[j], e, h.next[j]),
                          Cat(Ending(h, form, j, e), rest[h.parent[j]]))
        BY <1>4, <3>2, <4>1
      <4>7. QED
        BY <4>4, <4>5, <4>6, CatTyped
    <3>3. QED
      BY <3>1, <3>2
  <2> HIDE DEF S, D, rank
  <2>3. D \subseteq S
    BY <2>1, <2>2, RankInduction
  <2>4. QED
    BY <2>3 DEF S, D
<1>6. i # root => h.parent[i] \in Below(h, root)
  BY <1>1, WalkUp DEF At
<1>7. QED
  BY <1>1, <1>3, <1>4, <1>5, <1>6

(* What is left from a node that is entered, or left, everything below it  *)
(* being written.                                                          *)
Left(h, form, root, i, d, phase) ==
    IF phase = "enter" THEN Cat(TextAt(h, form, i, d), Rest(h, form, root, i))
    ELSE Rest(h, form, root, i)

(* It is a text: at the start all of it, at the end nothing.               *)
LEMMA LeftTyped ==
    ASSUME NEW h, NEW form, NEW root, NEW i, NEW d, OnWalk(h, form, root, i, d)
    PROVE  /\ \A phase : AText(Left(h, form, root, i, d, phase))
           /\ Left(h, form, root, root, 0, "enter") = Render(h, root, form)
           /\ i = root => Left(h, form, root, i, d, "leave") = <<>>
<1>1. AText(TextAt(h, form, i, d)) /\ AText(Rest(h, form, root, i))
  BY WalkTextsTyped, RestIs
<1>2. \A phase : AText(Left(h, form, root, i, d, phase))
  BY <1>1, CatTyped DEF Left
<1>3. i = root => Left(h, form, root, i, d, "leave") = <<>>
  BY RestIs DEF Left
<1>4. Left(h, form, root, root, 0, "enter") = Render(h, root, form)
  <2>1. HeapOK(h) /\ AForm(form) /\ root \in Live(h)
    BY DEF OnWalk, At
  <2>2. OnWalk(h, form, root, root, 0)
    BY <2>1, AtItsRoot DEF OnWalk
  <2>3. Rest(h, form, root, root) = <<>> /\ AText(TextAt(h, form, root, 0))
    BY <2>2, RestIs, WalkTextsTyped
  <2>4. Render(h, root, form) = TextAt(h, form, root, 0)
    BY <2>1, TextsAre DEF TextAt
  <2>5. QED
    BY <2>3, <2>4, CatNothing DEF Left
<1>5. QED
  BY <1>2, <1>3, <1>4

(* Two ways to put six texts in brackets, twice.                           *)
LEMMA RegroupWalk ==
    ASSUME NEW a, NEW b, NEW c, NEW d, NEW e, NEW f,
           AText(a), AText(b), AText(c), AText(d), AText(e), AText(f)
    PROVE  /\ Cat(Cat(a, Cat(Cat(b, c), Cat(d, e))), f)
                 = Cat(Cat(a, b), Cat(c, Cat(d, Cat(e, f))))
           /\ Cat(Cat(Cat(a, Cat(b, c)), d), Cat(e, f))
                 = Cat(Cat(a, b), Cat(c, Cat(d, Cat(e, f))))
<1>1. /\ AText(Cat(e, f)) /\ AText(Cat(d, e)) /\ AText(Cat(b, c))
      /\ AText(Cat(Cat(b, c), Cat(d, e))) /\ AText(Cat(d, Cat(e, f)))
      /\ AText(Cat(c, Cat(d, Cat(e, f)))) /\ AText(Cat(a, Cat(b, c)))
  BY CatTyped
<1>2. Cat(Cat(a, b), Cat(c, Cat(d, Cat(e, f))))
         = Cat(a, Cat(b, Cat(c, Cat(d, Cat(e, f)))))
  BY <1>1, CatAssociative
<1>3. Cat(Cat(b, c), Cat(d, Cat(e, f))) = Cat(b, Cat(c, Cat(d, Cat(e, f))))
  BY <1>1, CatAssociative
<1>4. Cat(Cat(a, Cat(Cat(b, c), Cat(d, e))), f)
         = Cat(a, Cat(Cat(Cat(b, c), Cat(d, e)), f))
  BY <1>1, CatAssociative
<1>5. Cat(Cat(Cat(b, c), Cat(d, e)), f) = Cat(Cat(b, c), Cat(Cat(d, e), f))
  BY <1>1, CatAssociative
<1>6. Cat(Cat(d, e), f) = Cat(d, Cat(e, f))
  BY CatAssociative
<1>7. Cat(Cat(Cat(a, Cat(b, c)), d), Cat(e, f))
         = Cat(Cat(a, Cat(b, c)), Cat(d, Cat(e, f)))
  BY <1>1, CatAssociative
<1>8. Cat(Cat(a, Cat(b, c)), Cat(d, Cat(e, f)))
         = Cat(a, Cat(Cat(b, c), Cat(d, Cat(e, f))))
  BY <1>1, CatAssociative
<1>9. QED
  BY <1>2, <1>3, <1>4, <1>5, <1>6, <1>7, <1>8

(* A node that is no container is written, or an empty one.                *)
LEMMA LeftOfLeaf ==
    ASSUME NEW h, NEW form, NEW root, NEW i, NEW d, OnWalk(h, form, root, i, d)
    PROVE  LET rest == Left(h, form, root, i, d, "leave")
           IN /\ h.type[i] = "String" =>
                    Left(h, form, root, i, d, "enter")
                       = Cat(Quoted(ViewString(h, h.value[i])), rest)
              /\ h.type[i] # "String" /\ h.type[i] \notin Containers =>
                    Left(h, form, root, i, d, "enter")
                       = Cat(One(h.type[i]), rest)
              /\ h.type[i] \in Containers /\ h.first[i] = Nil =>
                    Left(h, form, root, i, d, "enter")
                       = Cat(Cat(One(Opening(h.type[i])),
                                 One(Closing(h.type[i]))), rest)
<1>1. HeapOK(h) /\ AForm(form) /\ i \in Live(h) /\ d \in Nat
  BY DEF OnWalk, At, Below
<1>2. PICK texts : texts = LaidOut(h, form)
  OBVIOUS
<1>3. /\ TextAt(h, form, i, d) = NodeText(h, form, texts, <<i, d>>)
      /\ KidsTyped(h, texts, i, d + 1)
  <2>1. TextAt(h, form, i, d) = NodeText(h, form, texts, <<i, d>>)
    BY <1>1, <1>2, TextsAre DEF TextAt
  <2>2. d + 1 \in Nat
    BY <1>1
  <2>3. KidsTyped(h, texts, i, d + 1)
    BY <1>1, <1>2, <2>2, TextsAre
  <2>4. QED
    BY <2>1, <2>3
<1>4. Left(h, form, root, i, d, "enter")
         = Cat(NodeText(h, form, texts, <<i, d>>),
               Left(h, form, root, i, d, "leave"))
  BY <1>3 DEF Left
<1>5. h.type[i] = "String" =>
         NodeText(h, form, texts, <<i, d>>) = Quoted(ViewString(h, h.value[i]))
  BY <1>1, NodeTextIs
<1>6. h.type[i] # "String" /\ h.type[i] \notin Containers =>
         NodeText(h, form, texts, <<i, d>>) = One(h.type[i])
  BY <1>1, NodeTextIs
<1>7. h.type[i] \in Containers /\ h.first[i] = Nil =>
         NodeText(h, form, texts, <<i, d>>)
            = Cat(One(Opening(h.type[i])), One(Closing(h.type[i])))
  BY <1>1, <1>3, ContainerText
<1>8. QED
  BY <1>4, <1>5, <1>6, <1>7

(* Down to the first child.                                                *)
LEMMA LeftDown ==
    ASSUME NEW h, NEW form, NEW root, NEW i, NEW d, OnWalk(h, form, root, i, d),
           h.type[i] \in Containers, NEW c, c = h.first[i], c # Nil
    PROVE  Left(h, form, root, i, d, "enter")
              = Cat(Cat(One(Opening(h.type[i])),
                        Cat(NewLine(form, d + 1), Label(h, form, i, c))),
                    Left(h, form, root, c, d + 1, "enter"))
<1>1. HeapOK(h) /\ AForm(form) /\ i \in Live(h) /\ d \in Nat
      /\ root \in Live(h) /\ root \in Ids
  BY LinksStayLive DEF OnWalk, At, Below
<1>2. /\ c \in Live(h) /\ h.parent[c] = i /\ At(h, root, c, d + 1)
  BY WalkDown DEF OnWalk
<1>3. c # root
  <2> SUFFICES ASSUME c = root PROVE FALSE
    OBVIOUS
  <2>1. d + 1 = 0
    BY <1>1, <1>2, DepthCounts DEF At
  <2>2. QED
    BY <1>1, <2>1
<1>4. OnWalk(h, form, root, c, d + 1)
  BY <1>1, <1>2 DEF OnWalk
<1> DEFINE texts == LaidOut(h, form)
           open == One(Opening(h.type[i]))
           label == Cat(NewLine(form, d + 1), Label(h, form, i, c))
           text == TextAt(h, form, c, d + 1)
           more == MoreAt(h, form, i, d + 1, h.next[c])
           end == Cat(NewLine(form, d), One(Closing(h.type[i])))
           rest == Rest(h, form, root, i)
<1>5. /\ AText(open) /\ AText(label) /\ AText(text) /\ AText(more)
      /\ AText(end) /\ AText(rest)
  <2>1. AText(open)
    BY PunctuationTyped
  <2>2. AText(label)
    BY <1>1, <1>2, LayoutTyped, LabelTyped, CatTyped
  <2>3. AText(text) /\ AText(more)
    BY <1>2, <1>3, <1>4, WalkTextsTyped
  <2>4. AText(end)
    BY <1>1, LayoutTyped, PunctuationTyped, CatTyped
  <2>5. AText(rest)
    BY RestIs
  <2>6. QED
    BY <2>1, <2>2, <2>3, <2>4, <2>5
<1>6. TextAt(h, form, i, d) = Cat(open, Cat(Cat(label, text), Cat(more, end)))
  <2>1. /\ TextAt(h, form, i, d) = NodeText(h, form, texts, <<i, d>>)
        /\ KidsTyped(h, texts, i, d + 1)
    <3>1. TextAt(h, form, i, d) = NodeText(h, form, texts, <<i, d>>)
      BY <1>1, TextsAre DEF TextAt
    <3>2. d + 1 \in Nat
      BY <1>1
    <3>3. KidsTyped(h, texts, i, d + 1)
      BY <1>1, <3>2, TextsAre
    <3>4. QED
      BY <3>1, <3>3
  <2>2. Line(h, form, texts, i, d + 1, c) = Cat(label, text)
    BY LineIs DEF TextAt
  <2>3. More(h, form, texts, i, d + 1, h.next[c]) = more
    BY DEF MoreAt
  <2> HIDE DEF texts, label, text, more
  <2>4. NodeText(h, form, texts, <<i, d>>)
           = Cat(open, Cat(Line(h, form, texts, i, d + 1, c),
                Cat(More(h, form, texts, i, d + 1, h.next[c]), end)))
    BY <1>1, <2>1, ContainerText
  <2>5. QED
    BY <2>1, <2>2, <2>3, <2>4
<1>7. Rest(h, form, root, c) = Cat(more, Cat(end, rest))
  <2>1. (d + 1) - 1 = d
    BY <1>1
  <2>2. Ending(h, form, c, d + 1) = end
    BY <1>2, <2>1 DEF Ending
  <2>3. QED
    BY <1>2, <1>3, <1>4, <2>2, RestIs
<1> HIDE DEF open, label, text, more, end, rest
<1>8. Cat(Cat(open, Cat(Cat(label, text), Cat(more, end))), rest)
         = Cat(Cat(open, label), Cat(text, Cat(more, Cat(end, rest))))
  BY <1>5, RegroupWalk
<1>9. QED
  BY <1>6, <1>7, <1>8 DEF Left, open, label, text, rest

(* On to the next sibling.                                                 *)
LEMMA LeftOnwards ==
    ASSUME NEW h, NEW form, NEW root, NEW i, NEW d, OnWalk(h, form, root, i, d),
           i # root, NEW c, c = h.next[i], c # Nil
    PROVE  Left(h, form, root, i, d, "leave")
              = Cat(Cat(Comma, Cat(NewLine(form, d),
                                   Label(h, form, h.parent[i], c))),
                    Left(h, form, root, c, d, "enter"))
<1> DEFINE p == h.parent[i]
           texts == LaidOut(h, form)
           label == Cat(NewLine(form, d), Label(h, form, p, c))
           text == TextAt(h, form, c, d)
           more == MoreAt(h, form, p, d, h.next[c])
           end == Ending(h, form, i, d)
           rest == Rest(h, form, root, p)
<1>1. HeapOK(h) /\ AForm(form) /\ i \in Live(h) /\ d \in Nat
      /\ root \in Live(h) /\ At(h, root, i, d)
  BY DEF OnWalk, At, Below
<1>2. c \in Live(h) /\ h.parent[c] = p /\ At(h, root, c, d)
  BY <1>1, WalkOnwards
<1>3. p \in Live(h) /\ d # 0 /\ c \in Kids(h, p)
  BY <1>1, <1>2, WalkUp DEF Kids
<1>4. c # root
  <2> SUFFICES ASSUME c = root PROVE FALSE
    OBVIOUS
  <2>1. d = 0
    BY <1>1, <1>2, DepthCounts DEF At
  <2>2. QED
    BY <1>3, <2>1
<1>5. OnWalk(h, form, root, c, d)
  BY <1>1, <1>2 DEF OnWalk
<1>6. /\ AText(Comma) /\ AText(label) /\ AText(text) /\ AText(more)
      /\ AText(end) /\ AText(rest)
  <2>1. AText(Comma)
    BY PunctuationTyped
  <2>2. AText(label)
    BY <1>1, <1>2, LayoutTyped, LabelTyped, CatTyped
  <2>3. AText(text) /\ AText(more)
    BY <1>2, <1>4, <1>5, WalkTextsTyped
  <2>4. AText(end)
    BY WalkTextsTyped
  <2>5. AText(rest)
    BY RestIs
  <2>6. QED
    BY <2>1, <2>2, <2>3, <2>4, <2>5
<1>7. MoreAt(h, form, p, d, c) = Cat(Cat(Comma, Cat(label, text)), more)
  <2>1. KidsTyped(h, texts, p, d)
    BY <1>1, <1>3, TextsAre
  <2>2. Line(h, form, texts, p, d, c) = Cat(label, text)
    BY LineIs DEF TextAt
  <2>3. More(h, form, texts, p, d, h.next[c]) = more
        /\ MoreAt(h, form, p, d, c) = More(h, form, texts, p, d, c)
    BY DEF MoreAt
  <2> HIDE DEF texts, label, text, more, p
  <2>4. More(h, form, texts, p, d, c)
           = Cat(Cat(Comma, Line(h, form, texts, p, d, c)),
                 More(h, form, texts, p, d, h.next[c]))
    BY <1>1, <1>3, <2>1, MoreUnfold
  <2>5. QED
    BY <2>2, <2>3, <2>4
<1>8. Rest(h, form, root, c) = Cat(more, Cat(end, rest))
  <2>1. Ending(h, form, c, d) = end
    BY <1>2 DEF Ending
  <2>2. QED
    BY <1>2, <1>4, <1>5, <2>1, RestIs
<1>9. Rest(h, form, root, i) = Cat(MoreAt(h, form, p, d, c), Cat(end, rest))
  BY RestIs
<1> HIDE DEF p, label, text, more, end, rest
<1>10. Cat(Cat(Cat(Comma, Cat(label, text)), more), Cat(end, rest))
         = Cat(Cat(Comma, label), Cat(text, Cat(more, Cat(end, rest))))
  BY <1>6, RegroupWalk
<1>11. QED
  BY <1>7, <1>8, <1>9, <1>10 DEF Left, p, label, text

(* Back to the container.                                                  *)
LEMMA LeftUp ==
    ASSUME NEW h, NEW form, NEW root, NEW i, NEW d, OnWalk(h, form, root, i, d),
           i # root, h.next[i] = Nil
    PROVE  Left(h, form, root, i, d, "leave")
              = Cat(Ending(h, form, i, d),
                    Left(h, form, root, h.parent[i], d - 1, "leave"))
<1> DEFINE p == h.parent[i]
           end == Ending(h, form, i, d)
           rest == Rest(h, form, root, p)
           texts == LaidOut(h, form)
<1>1. HeapOK(h) /\ AForm(form) /\ i \in Live(h) /\ d \in Nat /\ At(h, root, i, d)
  BY DEF OnWalk, At, Below
<1>2. p \in Live(h)
  BY <1>1, WalkUp
<1>3. MoreAt(h, form, p, d, h.next[i]) = <<>>
  <2>1. KidsTyped(h, texts, p, d)
    BY <1>1, <1>2, TextsAre
  <2>2. MoreAt(h, form, p, d, h.next[i]) = More(h, form, texts, p, d, Nil)
    BY DEF MoreAt
  <2> HIDE DEF texts, p
  <2>3. QED
    BY <1>1, <1>2, <2>1, <2>2, MoreUnfold
<1>4. AText(end) /\ AText(rest)
      /\ Rest(h, form, root, i)
            = Cat(MoreAt(h, form, p, d, h.next[i]), Cat(end, rest))
  BY WalkTextsTyped, RestIs
<1> HIDE DEF end, rest, p
<1>5. Cat(<<>>, Cat(end, rest)) = Cat(end, rest)
  BY <1>4, CatTyped, CatNothing
<1>6. QED
  BY <1>3, <1>4, <1>5 DEF Left, end, rest, p

-----------------------------------------------------------------------------
(* Pieces, and what they spell.                                            *)

(* These are pieces of text, and x is what they come to.                   *)
Spells(pieces, x) ==
    pieces \in Seq(Seq(Chars)) /\ AText(x) /\ Seqs!FlattenSeq(pieces) = x

(* No piece, one piece, and pieces after each other.                       *)
LEMMA SpellsParts ==
    /\ Spells(<<>>, <<>>)
    /\ \A x : AText(x) => Spells(One(x), x)
    /\ \A s, t, x, y : Spells(s, x) /\ Spells(t, y) => Spells(Cat(s, t), Cat(x, y))
<1>1. Spells(<<>>, <<>>)
  <2>1. <<>> \in Seq(Seq(Chars)) /\ AText(<<>>)
    BY EmptySeq, CatNothing
  <2>2. QED
    BY <2>1, FlattenNone DEF Spells
<1>2. ASSUME NEW x, AText(x) PROVE Spells(One(x), x)
  <2>1. One(x) \in Seq(Seq(Chars))
    BY <1>2 DEF One, AText
  <2>2. Seqs!FlattenSeq(One(x)) = x
    BY <1>2, FlattenOne DEF One, AText
  <2>3. QED
    BY <1>2, <2>1, <2>2 DEF Spells
<1>3. ASSUME NEW s, NEW t, NEW x, NEW y, Spells(s, x), Spells(t, y)
      PROVE  Spells(Cat(s, t), Cat(x, y))
  <2>1. s \in Seq(Seq(Chars)) /\ t \in Seq(Seq(Chars))
    BY <1>3 DEF Spells
  <2>2. Cat(s, t) \in Seq(Seq(Chars))
    BY <2>1, ConcatProperties DEF Cat
  <2>3. Seqs!FlattenSeq(Cat(s, t)) = Cat(Seqs!FlattenSeq(s), Seqs!FlattenSeq(t))
    BY <2>1, FlattenConcat DEF Cat
  <2>4. AText(Cat(x, y))
    BY <1>3, CatTyped DEF Spells
  <2>5. QED
    BY <1>3, <2>2, <2>3, <2>4 DEF Spells
<1>4. QED
  BY <1>1, <1>2, <1>3

(* A scan, with what it has found so far.                                  *)
AScan(scan) ==
    /\ scan = [pieces |-> scan.pieces, run |-> scan.run]
    /\ scan.pieces \in Seq(Seq(Chars)) /\ AText(scan.run)

ScanText(scan) == Cat(Seqs!FlattenSeq(scan.pieces), scan.run)

(* It has found nothing at the start, ...                                  *)
LEMMA ScanStarts ==
    ASSUME NEW s, s = [pieces |-> <<>>, run |-> <<>>]
    PROVE  AScan(s) /\ ScanText(s) = <<>>
<1>1. s.pieces = <<>> /\ s.run = <<>> /\ s = [pieces |-> s.pieces, run |-> s.run]
  OBVIOUS
<1>2. <<>> \in Seq(Seq(Chars)) /\ AText(<<>>) /\ Cat(<<>>, <<>>) = <<>>
  BY EmptySeq, CatNothing
<1>3. QED
  BY <1>1, <1>2, FlattenNone DEF AScan, ScanText

(* ... and with each byte that byte as it is to be written.                *)
LEMMA ScanGoesOn ==
    ASSUME NEW s, AScan(s), NEW byte \in Bytes \cup {Junk}
    PROVE  /\ AScan(Scan(s, byte))
           /\ ScanText(Scan(s, byte)) = Cat(ScanText(s), Escape(byte))
<1>1. PICK p, r : p = s.pieces /\ r = s.run /\ s = [pieces |-> p, run |-> r]
  BY DEF AScan
<1>2. p \in Seq(Seq(Chars)) /\ AText(r) /\ Spells(p, Seqs!FlattenSeq(p))
  BY <1>1, FlattenTyped DEF AScan, Spells, AText
<1>3. PICK q : q = Seqs!FlattenSeq(p) /\ Spells(p, q) /\ AText(q)
  BY <1>2 DEF Spells
<1>4. ScanText(s) = Cat(q, r)
  BY <1>1, <1>3 DEF ScanText
<1>5. AText(Escape(byte)) /\ AText(One(byte))
  BY EscapeTyped, PunctuationTyped
<1>6. CASE byte \in Escaped
  <2>1. PICK e : e = Escape(byte) /\ AText(e)
    BY <1>5
  <2>2. PICK u : u = Cat(p, Cat(One(r), One(e)))
    OBVIOUS
  <2>3. Scan(s, byte) = [pieces |-> u, run |-> <<>>]
    BY <1>1, <1>6, <2>1, <2>2, PairIsCat DEF Scan, Cat
  <2>4. Spells(u, Cat(q, Cat(r, e)))
    BY <1>2, <1>3, <2>1, <2>2, SpellsParts
  <2>5. AScan(Scan(s, byte)) /\ ScanText(Scan(s, byte)) = Cat(Cat(q, Cat(r, e)), <<>>)
    BY <2>3, <2>4, CatNothing DEF Spells, AScan, ScanText
  <2>6. Cat(Cat(q, Cat(r, e)), <<>>) = Cat(Cat(q, r), e)
    <3>1. AText(Cat(q, Cat(r, e)))
      BY <2>4 DEF Spells
    <3>2. Cat(Cat(q, r), e) = Cat(q, Cat(r, e))
      BY <1>2, <1>3, <2>1, CatAssociative
    <3>3. QED
      BY <3>1, <3>2, CatNothing
  <2>7. QED
    BY <1>4, <2>1, <2>5, <2>6
<1>7. CASE byte \notin Escaped
  <2>1. PICK u : u = Cat(r, One(byte)) /\ AText(u)
    BY <1>2, <1>5, CatTyped
  <2>2. Append(r, byte) = u
    BY <1>2, <2>1, AppendIsConcat DEF Cat, One, AText
  <2>3. Scan(s, byte) = [pieces |-> p, run |-> u]
    BY <1>1, <1>7, <2>2 DEF Scan
  <2>4. AScan(Scan(s, byte)) /\ ScanText(Scan(s, byte)) = Cat(q, u)
    BY <1>2, <1>3, <2>1, <2>3 DEF AScan, ScanText
  <2>5. Cat(q, u) = Cat(Cat(q, r), One(byte))
    BY <1>2, <1>3, <1>5, <2>1, CatAssociative
  <2>6. Escape(byte) = One(byte)
    BY <1>7, EscapeTyped
  <2>7. QED
    BY <1>4, <2>4, <2>5, <2>6
<1>8. QED
  BY <1>6, <1>7

(* The scans of a text up to each of its bytes.                            *)
Scans(text, scan) ==
    scan = [k \in 0 .. Len(text) |->
              IF k = 0 THEN [pieces |-> <<>>, run |-> <<>>]
              ELSE Scan(scan[k - 1], text[k])]

(* There are such scans.                                                   *)
LEMMA ScansExist ==
    ASSUME NEW text, AString(text)
    PROVE  \E scan : Scans(text, scan)
<1> DEFINE D == 0 .. Len(text)
           nothing == [pieces |-> <<>>, run |-> <<>>]
           T == {s \in [pieces : Seq(Seq(Chars)), run : Seq(Chars)] : AScan(s)}
           F == [D -> T]
           rank == [n \in D |-> n]
           Step(f, n) == IF n = 0 THEN nothing ELSE Scan(f[n - 1], text[n])
           B == [p \in F \X D |-> Step(p[1], p[2])]
<1>1. Len(text) \in Nat /\ \A n \in D : n # 0 => text[n] \in Bytes \cup {Junk}
  BY EscapesTyped
<1>2. \A s : AScan(s) => s \in T
  BY DEF AScan, AText
<1>3. nothing \in T
  <2>1. AScan(nothing)
    BY ScanStarts
  <2> HIDE DEF T, nothing
  <2>2. QED
    BY <1>2, <2>1
<1>4. rank \in [D -> Nat] /\ \A x \in D : rank[x] <= Len(text)
  BY <1>1
<1>5. \A x \in D : x # 0 => x - 1 \in D /\ rank[x - 1] < rank[x]
  BY <1>1
<1>6. \A f \in F, x \in D : B[<<f, x>>] = Step(f, x)
  OBVIOUS
<1>7. \A s \in T : AScan(s)
  OBVIOUS
<1> HIDE DEF B, rank, D, T, nothing
<1>8. Recursion(B, D, T, rank)
  <2>1. ASSUME NEW f \in F, NEW x \in D PROVE B[<<f, x>>] \in T
    <3>1. x # 0 => AScan(f[x - 1])
      BY <1>5, <1>7
    <3>2. x # 0 => AScan(Scan(f[x - 1], text[x]))
      BY <1>1, <3>1, ScanGoesOn
    <3>3. Step(f, x) \in T
      BY <1>2, <1>3, <3>2
    <3>4. QED
      BY <1>6, <3>3
  <2>2. ASSUME NEW f \in F, NEW g \in F, NEW x \in D,
               \A y \in D : rank[y] < rank[x] => f[y] = g[y]
        PROVE  B[<<f, x>>] = B[<<g, x>>]
    <3>1. Step(f, x) = Step(g, x)
      BY <1>5, <2>2
    <3>2. QED
      BY <1>6, <3>1
  <2>3. QED
    BY <1>1, <1>3, <1>4, <2>1, <2>2 DEF Recursion
<1>9. PICK f \in [D -> T] : \A x \in D : f[x] = B[<<f, x>>]
  BY <1>8, RecursionExists
<1>10. f = [x \in D |-> Step(f, x)]
  BY <1>6, <1>9
<1>11. QED
  BY <1>10 DEF Scans, D, nothing

(* After n bytes a scan has found those n, as they are to be written.      *)
LEMMA ScansFind ==
    ASSUME NEW text, AString(text), NEW scan, Scans(text, scan)
    PROVE  /\ AScan(scan[Len(text)])
           /\ ScanText(scan[Len(text)]) = Seqs!FlattenSeq(Escapes(text))
<1> DEFINE E == Escapes(text)
           Upto(n) == Seqs!FlattenSeq(SubSeq(E, 1, n))
           S == {n \in Nat : n <= Len(text) =>
                    AScan(scan[n]) /\ ScanText(scan[n]) = Upto(n)}
<1>1. /\ Len(text) \in Nat /\ Len(E) = Len(text) /\ E \in Seq(Seq(Chars))
      /\ \A k \in 1 .. Len(text) :
            text[k] \in Bytes \cup {Junk} /\ E[k] = Escape(text[k])
  BY EscapesTyped
<1>2. 0 \in S
  <2>1. scan[0] = [pieces |-> <<>>, run |-> <<>>]
    BY <1>1 DEF Scans
  <2>2. AScan(scan[0]) /\ ScanText(scan[0]) = <<>>
    BY <2>1, ScanStarts
  <2>3. SubSeq(E, 1, 0) = <<>>
    BY SubSeqEmpty
  <2>4. Upto(0) = <<>>
    BY <2>3, FlattenNone
  <2>5. QED
    BY <2>2, <2>4
<1>3. ASSUME NEW n \in Nat, n \in S PROVE n + 1 \in S
  <2> SUFFICES ASSUME n + 1 <= Len(text)
               PROVE  AScan(scan[n + 1]) /\ ScanText(scan[n + 1]) = Upto(n + 1)
    OBVIOUS
  <2>1. n + 1 \in 1 .. Len(text) /\ n <= Len(text) /\ (n + 1) - 1 = n
        /\ n + 1 \in 0 .. Len(text) /\ n + 1 # 0
    BY <1>1
  <2>2. scan[n + 1] = Scan(scan[n], text[n + 1])
    BY <2>1 DEF Scans
  <2>3. AScan(scan[n]) /\ ScanText(scan[n]) = Upto(n)
    BY <1>3, <2>1
  <2>4. PICK s, byte : s = scan[n] /\ byte = text[n + 1]
    OBVIOUS
  <2>5. AScan(s) /\ byte \in Bytes \cup {Junk} /\ E[n + 1] = Escape(byte)
    BY <1>1, <2>1, <2>3, <2>4
  <2>6. AScan(Scan(s, byte)) /\ ScanText(Scan(s, byte)) = Cat(ScanText(s), Escape(byte))
    BY <2>5, ScanGoesOn
  <2>7. Upto(n + 1) = Cat(Upto(n), E[n + 1])
    <3> HIDE DEF E
    <3>1. n + 1 <= Len(E)
      BY <1>1, <2>1
    <3>2. QED
      BY <1>1, <3>1, FlattenNext DEF Cat
  <2>8. QED
    BY <2>2, <2>3, <2>4, <2>5, <2>6, <2>7
<1>4. Nat \subseteq S
  <2> HIDE DEF S
  <2>1. QED
    BY <1>2, <1>3, SetInduction
<1>5. PICK n \in Nat : n = Len(text) /\ n = Len(E) /\ n \in S
  BY <1>1, <1>4
<1> HIDE DEF E
<1>6. SubSeq(E, 1, n) = E
  BY <1>1, <1>5, SubSeqFull
<1>7. AScan(scan[n]) /\ ScanText(scan[n]) = Upto(n)
  BY <1>5
<1>8. QED
  BY <1>5, <1>6, <1>7 DEF E

(* The pieces of a text with escapes are what is to be written.            *)
LEMMA EscapedPiecesSpell ==
    ASSUME NEW text, AString(text)
    PROVE  Spells(EscapedPieces(text), Seqs!FlattenSeq(Escapes(text)))
<1> DEFINE scan == CHOOSE scan : Scans(text, scan)
           last == scan[Len(text)]
<1>1. Scans(text, scan)
  BY ScansExist
<1>2. Scanned(text) = last
  BY DEF Scanned, Scans
<1> HIDE DEF scan
<1>3. AScan(last) /\ ScanText(last) = Seqs!FlattenSeq(Escapes(text))
  BY <1>1, ScansFind
<1> HIDE DEF last
<1>4. last.pieces \in Seq(Seq(Chars)) /\ AText(last.run)
  BY <1>3 DEF AScan
<1>5. EscapedPieces(text) = Cat(last.pieces, One(last.run))
  <2>1. EscapedPieces(text) = Append(last.pieces, last.run)
    BY <1>2 DEF EscapedPieces
  <2>2. PICK p, r : p = last.pieces /\ r = last.run /\ p \in Seq(Seq(Chars))
                    /\ r \in Seq(Chars)
    BY <1>4 DEF AText
  <2>3. Append(p, r) = Cat(p, One(r))
    BY <2>2, AppendIsConcat DEF Cat, One
  <2>4. QED
    BY <2>1, <2>2, <2>3
<1>6. /\ Spells(last.pieces, Seqs!FlattenSeq(last.pieces))
      /\ Spells(One(last.run), last.run)
  BY <1>4, FlattenTyped, SpellsParts DEF Spells, AText
<1>7. Spells(Cat(last.pieces, One(last.run)), ScanText(last))
  BY <1>6, SpellsParts DEF ScanText
<1>8. QED
  BY <1>3, <1>5, <1>7

(* A text without bytes to escape is written as it is.                     *)
LEMMA PlainText ==
    ASSUME NEW text, AString(text), ~NeedsEscape(text)
    PROVE  Seqs!FlattenSeq(Escapes(text)) = text /\ AText(text)
<1> DEFINE E == Escapes(text)
           S == {n \in Nat : n <= Len(text) =>
                    Seqs!FlattenSeq(SubSeq(E, 1, n)) = SubSeq(text, 1, n)}
<1>1. /\ Len(text) \in Nat /\ Len(E) = Len(text) /\ E \in Seq(Seq(Chars))
      /\ text \in Seq(Bytes \cup {Junk}) /\ DOMAIN text = 1 .. Len(text)
      /\ \A k \in 1 .. Len(text) :
            text[k] \in Bytes \cup {Junk} /\ E[k] = Escape(text[k])
  BY EscapesTyped, LenProperties DEF AString
<1>2. \A k \in 1 .. Len(text) : E[k] = <<text[k]>>
  BY <1>1, Zenon DEF NeedsEscape, Escape
<1>3. 0 \in S
  <2>1. SubSeq(E, 1, 0) = <<>> /\ SubSeq(text, 1, 0) = <<>>
    BY SubSeqEmpty
  <2>2. QED
    BY <2>1, FlattenNone
<1>4. ASSUME NEW n \in Nat, n \in S PROVE n + 1 \in S
  <2> SUFFICES ASSUME n + 1 <= Len(text)
               PROVE  Seqs!FlattenSeq(SubSeq(E, 1, n + 1)) = SubSeq(text, 1, n + 1)
    OBVIOUS
  <2>1. n + 1 \in 1 .. Len(text) /\ n <= Len(text)
    BY <1>1
  <2>2. Seqs!FlattenSeq(SubSeq(E, 1, n + 1))
           = Seqs!FlattenSeq(SubSeq(E, 1, n)) \o E[n + 1]
    <3> HIDE DEF E
    <3>1. n + 1 <= Len(E)
      BY <1>1, <2>1
    <3>2. QED
      BY <1>1, <3>1, FlattenNext
  <2>3. SubSeq(text, 1, n + 1) = SubSeq(text, 1, n) \o <<text[n + 1]>>
    <3>1. PICK A : A = Bytes \cup {Junk}
      OBVIOUS
    <3>2. text \in Seq(A)
      BY <1>1, <3>1
    <3>3. PICK m \in 1 .. Len(text) : m = n + 1 /\ m - 1 = n
                                      /\ m \in m .. Len(text)
                                      /\ 1 \in 1 .. Len(text)
                                      /\ m \in 1 .. Len(text)
      BY <1>1, <2>1
    <3>4. SubSeq(text, 1, m) = SubSeq(text, 1, m - 1) \o <<text[m]>>
      BY <3>2, <3>3, SubSeqRecursiveSecond
    <3>5. QED
      BY <3>3, <3>4
  <2>4. QED
    BY <1>2, <1>4, <2>1, <2>2, <2>3
<1>5. Nat \subseteq S
  <2> HIDE DEF S
  <2>1. QED
    BY <1>3, <1>4, SetInduction
<1>6. PICK n \in Nat : n = Len(text) /\ n = Len(E) /\ n \in S
  BY <1>1, <1>5
<1> HIDE DEF E
<1>7. Seqs!FlattenSeq(E) = text
  <2>1. SubSeq(E, 1, n) = E /\ SubSeq(text, 1, n) = text
    BY <1>1, <1>6, SubSeqFull
  <2>2. Seqs!FlattenSeq(SubSeq(E, 1, n)) = SubSeq(text, 1, n)
    BY <1>6
  <2>3. QED
    BY <2>1, <2>2
<1>8. AText(text)
  BY <1>7, QuotedTyped DEF E
<1>9. QED
  BY <1>7, <1>8 DEF E

(* What is written for a string is that string in quotes.                  *)
LEMMA StringPiecesSpell ==
    ASSUME NEW text, AString(text)
    PROVE  Spells(StringPieces(text, NeedsEscape(text)), Quoted(text))
<1> DEFINE body == IF NeedsEscape(text) THEN EscapedPieces(text) ELSE One(text)
           inner == Seqs!FlattenSeq(Escapes(text))
<1>1. StringPieces(text, NeedsEscape(text)) = Cat(Cat(One(Quote), body), One(Quote))
  BY Zenon DEF StringPieces, Cat, One, Quote
<1>2. Spells(body, inner)
  <2>1. CASE NeedsEscape(text)
    BY <2>1, EscapedPiecesSpell
  <2>2. CASE ~NeedsEscape(text)
    BY <2>2, PlainText, SpellsParts
  <2>3. QED
    BY <2>1, <2>2
<1>3. Spells(One(Quote), Quote)
  BY PunctuationTyped, SpellsParts
<1> HIDE DEF body, inner
<1>4. Spells(Cat(Cat(One(Quote), body), One(Quote)), Cat(Cat(Quote, inner), Quote))
  BY <1>2, <1>3, SpellsParts
<1>5. QED
  BY <1>1, <1>4, QuotedTyped DEF inner

(* The end of a line.                                                      *)
LEMMA LinePiecesSpell ==
    ASSUME AForm(walker.form), NEW d \in Nat
    PROVE  Spells(LinePieces(d), NewLine(walker.form, d))
<1>1. PICK form : form = walker.form /\ AForm(form)
  OBVIOUS
<1>2. PICK spaces : spaces = Spaces(d * form.indent) /\ AText(spaces)
  BY <1>1, LayoutTyped
<1>3. LinePieces(d) = IF form.pretty THEN Cat(One(Break), One(spaces)) ELSE <<>>
  <2>1. LinePieces(d) = IF form.pretty THEN <<Break, spaces>> ELSE <<>>
    BY <1>1, <1>2, Zenon DEF LinePieces, One, Break
  <2>2. QED
    BY <2>1, PairIsCat
<1>4. NewLine(form, d) = IF form.pretty THEN Cat(Break, spaces) ELSE <<>>
  BY <1>2, Zenon DEF NewLine, Cat, One, Break
<1>5. Spells(One(Break), Break) /\ Spells(One(spaces), spaces)
  BY <1>2, PunctuationTyped, SpellsParts
<1>6. Spells(Cat(One(Break), One(spaces)), Cat(Break, spaces))
  BY <1>5, SpellsParts
<1>7. QED
  BY <1>1, <1>3, <1>4, <1>6, SpellsParts

(* A text that is in order is no fault, and its flag says whether it has   *)
(* to be escaped.                                                          *)
LEMMA GoodPieces ==
    ASSUME NEW text, NEW flags, GoodText(text, flags)
    PROVE  /\ StringFault(text) = "Ok"
           /\ Spells(StringPieces(text, flags), Quoted(text))
<1>1. AString(text) /\ WellFormed(text) /\ flags = NeedsEscape(text)
  BY DEF GoodText, AString
<1>2. QED
  BY <1>1, StringPiecesSpell DEF StringFault

(* What a child starts with.                                               *)
LEMMA PrefixPiecesSpell ==
    ASSUME HeapOK(heap), AForm(walker.form), NEW i, NEW c \in Live(heap),
           GoodText(ViewString(heap, heap.key[c]), heap.keyFlags[c])
    PROVE  /\ PrefixFault(heap.type[i], c) = "Ok"
           /\ Spells(PrefixPieces(heap.type[i], c),
                     Label(heap, walker.form, i, c))
<1> DEFINE text == ViewString(heap, heap.key[c])
           flags == heap.keyFlags[c]
<1>1. PICK form : form = walker.form /\ AForm(form)
  OBVIOUS
<1>2. StringFault(text) = "Ok" /\ Spells(StringPieces(text, flags), Quoted(text))
  BY GoodPieces
<1>3. PrefixFault(heap.type[i], c) = "Ok"
  BY <1>2 DEF PrefixFault
<1>4. PICK t, quoted, pieces :
         /\ t = heap.type[i] /\ quoted = Quoted(text)
         /\ pieces = StringPieces(text, flags)
  OBVIOUS
<1>5. PrefixPieces(t, c)
         = IF t = "Object"
           THEN Cat(Cat(pieces, One(Pair)),
                    IF form.pretty THEN One(Blank) ELSE <<>>)
           ELSE <<>>
  BY <1>1, <1>4, Zenon DEF PrefixPieces, Cat, One, Pair, Blank
<1>6. Label(heap, form, i, c) = IF t = "Object" THEN Cat(quoted, Colon(form))
                                ELSE <<>>
  BY <1>4 DEF Label, Cat
<1>7. Colon(form) = Cat(Pair, IF form.pretty THEN Blank ELSE <<>>)
  <2>1. Colon(form) = IF form.pretty THEN Cat(Pair, Blank) ELSE Pair
    BY PairIsCat, Zenon DEF One, Blank, Pair, Colon
  <2>2. Cat(Pair, <<>>) = Pair
    BY PunctuationTyped, CatNothing
  <2>3. QED
    BY <2>1, <2>2
<1>8. /\ Spells(One(Pair), Pair) /\ Spells(One(Blank), Blank)
      /\ Spells(<<>>, <<>>) /\ Spells(pieces, quoted)
  BY <1>2, <1>4, PunctuationTyped, SpellsParts
<1>9. PICK blanks, blank :
         /\ blanks = (IF form.pretty THEN One(Blank) ELSE <<>>)
         /\ blank = (IF form.pretty THEN Blank ELSE <<>>)
         /\ Spells(blanks, blank)
  BY <1>8
<1>10. Spells(Cat(Cat(pieces, One(Pair)), blanks), Cat(Cat(quoted, Pair), blank))
  BY <1>8, <1>9, SpellsParts
<1>11. Cat(Cat(quoted, Pair), blank) = Cat(quoted, Cat(Pair, blank))
  BY <1>8, <1>9, CatAssociative DEF Spells
<1>12. QED
  BY <1>1, <1>3, <1>4, <1>5, <1>6, <1>7, <1>8, <1>9, <1>10, <1>11

-----------------------------------------------------------------------------
(* The walker.                                                             *)

(* Its fields; what it has counted and written is left open.               *)
Walker(w) ==
    /\ w = [active |-> w.active, call |-> w.call, form |-> w.form,
            buffer |-> w.buffer, pass |-> w.pass, root |-> w.root,
            id |-> w.id, depth |-> w.depth, phase |-> w.phase,
            code |-> w.code, count |-> w.count, room |-> w.room,
            out |-> w.out]
    /\ w.active \in BOOLEAN
    /\ w.pass \in {"count", "check", "trust"}

(* Only the pass that checks finds too little room, and the pass that      *)
(* trusts the count finds no fault at all.  Nothing is written while a     *)
(* text is counted.                                                        *)
PassOK(w) ==
    /\ w.code \in ErrorCodes \ {"InternalError"}
    /\ w.phase # "return" => w.code = "Ok"
    /\ w.pass = "count" => w.out = <<>>
    /\ w.pass = "trust" => w.code = "Ok"
    /\ w.call = "whole" => w.pass # "check"

SerializerInv ==
    /\ IInv
    /\ Walker(walker)
    /\ walker.active => /\ At(heap, walker.root, walker.id, walker.depth)
                        /\ PassOK(walker)

(* What a step of the walk does to the walker: it stays on the walk over   *)
(* an unchanged heap.                                                      *)
WalkStep ==
    /\ Walker(walker')
    /\ walker'.active
    /\ At(heap, walker'.root, walker'.id, walker'.depth)
    /\ PassOK(walker')

(* A walker that has stopped where it is.                                  *)
LEMMA StopShape ==
    ASSUME NEW w, Walker(w), NEW code, NEW s, s = Stop(w, code)
    PROVE  /\ Walker(s)
           /\ s.active = w.active /\ s.call = w.call /\ s.pass = w.pass
           /\ s.out = w.out /\ s.root = w.root /\ s.id = w.id
           /\ s.depth = w.depth /\ s.phase = "return" /\ s.code = code
<1> DEFINE u == [w EXCEPT !.phase = "return"]
<1>1. /\ Walker(u)
      /\ u.active = w.active /\ u.call = w.call /\ u.pass = w.pass
      /\ u.out = w.out /\ u.root = w.root /\ u.id = w.id
      /\ u.depth = w.depth /\ u.phase = "return"
  BY DEF Walker
<1>2. s = [u EXCEPT !.code = code]
  BY DEF Stop
<1> HIDE DEF u
<1>3. QED
  BY <1>1, <1>2 DEF Walker

(* A walker that has counted or written some pieces.                       *)
LEMMA WrittenShape ==
    ASSUME NEW w, Walker(w), NEW pieces
    PROVE  LET v == Written(w, pieces)
           IN /\ Walker(v)
              /\ v.active = w.active /\ v.call = w.call /\ v.pass = w.pass
              /\ v.root = w.root /\ v.id = w.id /\ v.depth = w.depth
              /\ v.phase = w.phase /\ v.code = w.code
              /\ w.pass = "count" => v.out = w.out
<1> DEFINE count == w.count + Total(pieces)
           out == w.out \o Seqs!FlattenSeq(pieces)
<1>1. Written(w, pieces) = IF w.pass = "count" THEN [w EXCEPT !.count = count]
                           ELSE [w EXCEPT !.out = out]
  BY DEF Written
<1> HIDE DEF count, out
<1>2. QED
  BY <1>1 DEF Walker

(* A turn of the walk whose fault, if any, is one of the text, and whose   *)
(* next place is on the walk.                                              *)
LEMMA TurnStep ==
    ASSUME SerializerInv, walker.active, walker.phase # "return",
           NEW all, NEW fault \in ErrorCodes \ {"InternalError"}, NEW next,
           walker.pass = "trust" => fault = "Ok",
           Walker(next), next.active, next.call = walker.call,
           next.pass = walker.pass, next.out = walker.out,
           next.root = walker.root, next.code = walker.code,
           next.phase # "return",
           fault = "Ok" => At(heap, next.root, next.id, next.depth),
           Turn(all, fault, next)
    PROVE  WalkStep
<1>1. Walker(walker) /\ At(heap, walker.root, walker.id, walker.depth)
      /\ PassOK(walker) /\ walker.code = "Ok"
  BY DEF SerializerInv, PassOK
<1>2. ASSUME NEW code \in ErrorCodes \ {"InternalError"}, NEW pieces,
             walker.pass = "trust" => code = "Ok",
             walker' = Stop(Written(walker, pieces), code)
      PROVE  WalkStep
  <2>1. PICK v, s :
           /\ Walker(v)
           /\ v.active = walker.active /\ v.call = walker.call
           /\ v.pass = walker.pass /\ v.root = walker.root
           /\ v.id = walker.id /\ v.depth = walker.depth
           /\ walker.pass = "count" => v.out = walker.out
           /\ s = Stop(v, code) /\ s = walker'
    BY <1>1, <1>2, WrittenShape
  <2>2. /\ Walker(s)
        /\ s.active = v.active /\ s.call = v.call
        /\ s.pass = v.pass /\ s.out = v.out
        /\ s.root = v.root /\ s.id = v.id
        /\ s.depth = v.depth
        /\ s.phase = "return" /\ s.code = code
    <3>1. Walker(v) /\ s = Stop(v, code)
      BY <2>1
    <3>2. QED
      BY <3>1, StopShape
  <2>3. PassOK(s) /\ s.active /\ At(heap, s.root, s.id, s.depth)
    BY <1>1, <1>2, <2>1, <2>2 DEF PassOK
  <2>4. QED
    BY <2>1, <2>2, <2>3 DEF WalkStep
<1>3. ASSUME NEW pieces, ~Fits(pieces),
             walker' = Stop(Written(walker, Fitting(pieces)),
                            "OutputCapacityExceeded")
      PROVE  WalkStep
  <2>1. walker.pass # "trust"
    BY <1>3 DEF Fits
  <2> DEFINE code == "OutputCapacityExceeded"
             fitting == Fitting(pieces)
  <2>2. code \in ErrorCodes \ {"InternalError"}
    BY DEF ErrorCodes
  <2>3. walker' = Stop(Written(walker, fitting), code)
    BY <1>3
  <2> HIDE DEF code, fitting
  <2>4. QED
    BY <1>2, <2>1, <2>2, <2>3
<1>4. ASSUME NEW pieces, fault = "Ok", walker' = Written(next, pieces)
      PROVE  WalkStep
  <2>1. /\ Walker(walker')
        /\ walker'.active = next.active /\ walker'.call = next.call
        /\ walker'.pass = next.pass /\ walker'.root = next.root
        /\ walker'.id = next.id /\ walker'.depth = next.depth
        /\ walker'.phase = next.phase /\ walker'.code = next.code
        /\ next.pass = "count" => walker'.out = next.out
    BY <1>4, WrittenShape
  <2>2. PassOK(walker')
    BY <1>1, <2>1 DEF PassOK
  <2>3. QED
    BY <1>4, <2>1, <2>2 DEF WalkStep
<1>5. PICK pieces \in {all} :
         walker' = IF ~Fits(pieces)
                   THEN Stop(Written(walker, Fitting(pieces)),
                             "OutputCapacityExceeded")
                   ELSE IF fault # "Ok"
                   THEN Stop(Written(walker, pieces), fault)
                   ELSE Written(next, pieces)
  BY DEF Turn
<1>6. QED
  BY <1>2, <1>3, <1>4, <1>5

(* A text that is not well-formed is no fault of a pass that trusts.       *)
LEMMA TextFault ==
    ASSUME NEW text
    PROVE  /\ StringFault(text) \in ErrorCodes \ {"InternalError"}
           /\ walker.pass = "trust" => StringFault(text) = "Ok"
BY DEF StringFault, ErrorCodes

(* The walker, when the invariant holds and it walks.                      *)
LEMMA Walking ==
    ASSUME SerializerInv, walker.active, walker.phase # "return"
    PROVE  /\ HeapOK(heap) /\ Walker(walker) /\ walker.code = "Ok"
           /\ At(heap, walker.root, walker.id, walker.depth)
           /\ walker.id \in Live(heap)
BY IInvHeap DEF SerializerInv, PassOK, At, Below

(* Mark that a node is written.                                            *)
LEMMA LeaveShape ==
    ASSUME Walker(walker)
    PROVE  /\ Walker(Leave) /\ Leave.active = walker.active
           /\ Leave.call = walker.call /\ Leave.pass = walker.pass
           /\ Leave.out = walker.out /\ Leave.root = walker.root
           /\ Leave.code = walker.code /\ Leave.phase = "leave"
           /\ Leave.id = walker.id /\ Leave.depth = walker.depth
BY DEF Walker, Leave

(* Writing a node that is no container, or an empty one.                   *)
LEMMA WriteLeafStep ==
    ASSUME SerializerInv, walker.active, WriteLeaf \/ WriteEmpty
    PROVE  WalkStep
<1>1. walker.phase = "enter"
  BY DEF WriteLeaf, WriteEmpty
<1>2. /\ Walker(walker)
      /\ At(heap, walker.root, walker.id, walker.depth)
  BY <1>1, Walking
<1>3. ASSUME NEW all, NEW fault \in ErrorCodes \ {"InternalError"},
             walker.pass = "trust" => fault = "Ok", Turn(all, fault, Leave)
      PROVE  WalkStep
  <2> DEFINE next == Leave
  <2>1. /\ Walker(next) /\ next.active = walker.active
        /\ next.call = walker.call /\ next.pass = walker.pass
        /\ next.out = walker.out /\ next.root = walker.root
        /\ next.code = walker.code /\ next.phase = "leave"
        /\ next.id = walker.id /\ next.depth = walker.depth
    BY <1>2, LeaveShape
  <2>2. Turn(all, fault, next)
    BY <1>3
  <2> HIDE DEF next
  <2>3. QED
    BY <1>1, <1>2, <1>3, <2>1, <2>2, TurnStep
<1>4. "Ok" \in ErrorCodes \ {"InternalError"}
  BY DEF ErrorCodes
<1>5. CASE WriteLeaf
  <2> DEFINE text == ViewString(heap, heap.value[walker.id])
             fault == IF Type = "String" THEN StringFault(text) ELSE "Ok"
  <2>1. /\ fault \in ErrorCodes \ {"InternalError"}
        /\ walker.pass = "trust" => fault = "Ok"
    BY <1>4, TextFault
  <2>2. \E all : Turn(all, fault, Leave)
    BY <1>5 DEF WriteLeaf
  <2> HIDE DEF fault
  <2>3. QED
    BY <2>1, <2>2, <1>3
<1>6. CASE WriteEmpty
  BY <1>3, <1>4, <1>6 DEF WriteEmpty
<1>7. QED
  BY <1>5, <1>6

(* Moving a walker to a node of another depth, and to one it is to enter.  *)
Moved(w, i, d) == [w EXCEPT !.id = i, !.depth = d]
Entering(w, i) == [w EXCEPT !.id = i, !.phase = "enter"]

(* A walker that has moved to a node of another depth.                     *)
LEMMA MovedShape ==
    ASSUME NEW w, Walker(w), NEW i, NEW d, NEW s, s = Moved(w, i, d)
    PROVE  /\ Walker(s)
           /\ s.active = w.active /\ s.call = w.call /\ s.pass = w.pass
           /\ s.out = w.out /\ s.root = w.root /\ s.code = w.code
           /\ s.phase = w.phase /\ s.id = i /\ s.depth = d
<1> DEFINE u == [w EXCEPT !.id = i]
<1>1. /\ Walker(u)
      /\ u.active = w.active /\ u.call = w.call /\ u.pass = w.pass
      /\ u.out = w.out /\ u.root = w.root /\ u.code = w.code
      /\ u.phase = w.phase /\ u.id = i
  BY DEF Walker
<1>2. s = [u EXCEPT !.depth = d]
  BY DEF Moved
<1> HIDE DEF u
<1>3. QED
  BY <1>1, <1>2 DEF Walker

(* A walker that has moved to a node it is to enter.                       *)
LEMMA EnteringShape ==
    ASSUME NEW w, Walker(w), NEW i, NEW s, s = Entering(w, i)
    PROVE  /\ Walker(s)
           /\ s.active = w.active /\ s.call = w.call /\ s.pass = w.pass
           /\ s.out = w.out /\ s.root = w.root /\ s.code = w.code
           /\ s.phase = "enter" /\ s.id = i /\ s.depth = w.depth
<1> DEFINE u == [w EXCEPT !.id = i]
<1>1. /\ Walker(u)
      /\ u.active = w.active /\ u.call = w.call /\ u.pass = w.pass
      /\ u.out = w.out /\ u.root = w.root /\ u.code = w.code
      /\ u.depth = w.depth /\ u.id = i
  BY DEF Walker
<1>2. s = [u EXCEPT !.phase = "enter"]
  BY DEF Entering
<1> HIDE DEF u
<1>3. QED
  BY <1>1, <1>2 DEF Walker

(* A child that is entered is where the walk goes, and no link is broken.  *)
LEMMA EnterChildStep ==
    ASSUME SerializerInv, walker.active, walker.phase # "return",
           NEW child, NEW broken, ~broken, NEW before, NEW line, NEW type,
           NEW next, Walker(next), next.active, next.call = walker.call,
           next.pass = walker.pass, next.out = walker.out,
           next.root = walker.root, next.code = walker.code,
           next.phase # "return", At(heap, next.root, next.id, next.depth),
           EnterChild(child, broken, before, line, type, next)
    PROVE  WalkStep
<1> DEFINE fault == PrefixFault(type, child)
<1>1. /\ fault \in ErrorCodes \ {"InternalError"}
      /\ walker.pass = "trust" => fault = "Ok"
  <2>1. "Ok" \in ErrorCodes \ {"InternalError"}
    BY DEF ErrorCodes
  <2>2. QED
    BY <2>1, TextFault DEF PrefixFault
<1>2. PICK all : Turn(all, fault, next)
  BY DEF EnterChild
<1> HIDE DEF fault
<1>3. QED
  BY <1>1, <1>2, TurnStep

(* Entering the first child of a container.                                *)
LEMMA WriteFirstChildStep ==
    ASSUME SerializerInv, walker.active, WriteFirstChild
    PROVE  WalkStep
<1> DEFINE child == heap.first[walker.id]
           next == [walker EXCEPT !.id = child, !.depth = walker.depth + 1]
           broken == child \notin Live(heap) \/ heap.parent[child] # walker.id
<1>1. walker.phase = "enter" /\ child # Nil
  BY DEF WriteFirstChild
<1>2. /\ HeapOK(heap) /\ Walker(walker)
      /\ At(heap, walker.root, walker.id, walker.depth)
  BY <1>1, Walking
<1>3. PICK root, id, depth : root = walker.root /\ id = walker.id
                             /\ depth = walker.depth
  OBVIOUS
<1>4. ~broken /\ At(heap, root, child, depth + 1)
  BY <1>1, <1>2, <1>3, WalkDown
<1>5. PICK before, line :
         EnterChild(child, broken, before, line, Type, next)
  BY DEF WriteFirstChild
<1> HIDE DEF child, broken
<1>6. /\ Walker(next) /\ next.active = walker.active
      /\ next.call = walker.call /\ next.pass = walker.pass
      /\ next.out = walker.out /\ next.root = walker.root
      /\ next.code = walker.code /\ next.phase = walker.phase
      /\ next.id = child /\ next.depth = walker.depth + 1
  <2> DEFINE deeper == walker.depth + 1
  <2>1. next = Moved(walker, child, deeper)
    BY DEF Moved
  <2> HIDE DEF next, deeper
  <2>2. PICK w, s : w = walker /\ s = next /\ Walker(w) /\ s = Moved(w, child, deeper)
    BY <1>2, <2>1
  <2>3. Walker(w) /\ s = Moved(w, child, deeper)
    BY <2>2
  <2>4. /\ Walker(s)
        /\ s.active = w.active /\ s.call = w.call /\ s.pass = w.pass
        /\ s.out = w.out /\ s.root = w.root /\ s.code = w.code
        /\ s.phase = w.phase /\ s.id = child /\ s.depth = deeper
    BY <2>3, MovedShape
  <2>5. QED
    BY <2>2, <2>4 DEF deeper
<1> HIDE DEF next
<1>7. At(heap, next.root, next.id, next.depth)
  BY <1>3, <1>4, <1>6
<1>8. QED
  BY <1>1, <1>4, <1>5, <1>6, <1>7, EnterChildStep

(* Entering the next sibling: a node below the root is in a container.     *)
LEMMA WriteNextSiblingStep ==
    ASSUME SerializerInv, walker.active, WriteNextSibling
    PROVE  WalkStep
<1> DEFINE sibling == heap.next[walker.id]
           next == [walker EXCEPT !.id = sibling, !.phase = "enter"]
           broken == \/ sibling \notin Live(heap)
                     \/ heap.parent[sibling] # Parent
<1>1. walker.phase = "leave" /\ sibling # Nil /\ walker.id # walker.root
  BY DEF WriteNextSibling
<1>2. /\ HeapOK(heap) /\ Walker(walker)
      /\ At(heap, walker.root, walker.id, walker.depth)
  BY <1>1, Walking
<1>3. PICK root, id, depth : root = walker.root /\ id = walker.id
                             /\ depth = walker.depth
  OBVIOUS
<1>4. ~broken /\ At(heap, root, sibling, depth)
  BY <1>1, <1>2, <1>3, WalkOnwards DEF Parent
<1>5. ~Orphaned
  BY <1>1, <1>2, <1>3, WalkUp DEF Orphaned, Parent
<1>6. PICK before, line, type :
         EnterChild(sibling, broken, before, line, type, next)
  BY <1>5 DEF WriteNextSibling
<1> HIDE DEF sibling, broken
<1>7. /\ Walker(next) /\ next.active = walker.active
      /\ next.call = walker.call /\ next.pass = walker.pass
      /\ next.out = walker.out /\ next.root = walker.root
      /\ next.code = walker.code /\ next.phase = "enter"
      /\ next.id = sibling /\ next.depth = walker.depth
  <2>1. next = Entering(walker, sibling)
    BY DEF Entering
  <2> HIDE DEF next
  <2>2. PICK w, s : w = walker /\ s = next /\ Walker(w) /\ s = Entering(w, sibling)
    BY <1>2, <2>1
  <2>3. Walker(w) /\ s = Entering(w, sibling)
    BY <2>2
  <2>4. /\ Walker(s)
        /\ s.active = w.active /\ s.call = w.call /\ s.pass = w.pass
        /\ s.out = w.out /\ s.root = w.root /\ s.code = w.code
        /\ s.phase = "enter" /\ s.id = sibling /\ s.depth = w.depth
    BY <2>3, EnteringShape
  <2>5. QED
    BY <2>2, <2>4
<1> HIDE DEF next
<1>8. At(heap, next.root, next.id, next.depth)
  BY <1>3, <1>4, <1>7
<1>9. QED
  BY <1>1, <1>4, <1>6, <1>7, <1>8, EnterChildStep

(* Going back to the container: the depth is not zero below the root.      *)
LEMMA WriteEndStep ==
    ASSUME SerializerInv, walker.active, WriteEnd
    PROVE  WalkStep
<1> DEFINE next == Climbed(walker)
           fault == "Ok"
<1>1. walker.phase = "leave" /\ walker.id # walker.root
  BY DEF WriteEnd
<1>2. /\ HeapOK(heap) /\ Walker(walker)
      /\ At(heap, walker.root, walker.id, walker.depth)
  BY <1>1, Walking
<1>3. PICK root, id, depth : root = walker.root /\ id = walker.id
                             /\ depth = walker.depth
  OBVIOUS
<1>4. /\ Parent \in Live(heap) /\ heap.type[Parent] \in Containers
      /\ depth # 0 /\ At(heap, root, Parent, depth - 1)
  BY <1>1, <1>2, <1>3, WalkUp DEF Parent
<1>5. PICK all : Turn(all, fault, next)
  BY <1>3, <1>4 DEF WriteEnd, Orphaned
<1>6. /\ Walker(next) /\ next.active = walker.active
      /\ next.call = walker.call /\ next.pass = walker.pass
      /\ next.out = walker.out /\ next.root = walker.root
      /\ next.code = walker.code /\ next.phase = walker.phase
      /\ next.id = Parent /\ next.depth = walker.depth - 1
  <2> DEFINE up == Parent
             less == walker.depth - 1
  <2>1. next = Moved(walker, up, less)
    BY DEF Climbed, Moved
  <2> HIDE DEF next, up, less
  <2>2. PICK w, s : w = walker /\ s = next /\ Walker(w) /\ s = Moved(w, up, less)
    BY <1>2, <2>1
  <2>3. Walker(w) /\ s = Moved(w, up, less)
    BY <2>2
  <2>4. /\ Walker(s)
        /\ s.active = w.active /\ s.call = w.call /\ s.pass = w.pass
        /\ s.out = w.out /\ s.root = w.root /\ s.code = w.code
        /\ s.phase = w.phase /\ s.id = up /\ s.depth = less
    BY <2>3, MovedShape
  <2>5. QED
    BY <2>2, <2>4 DEF up, less
<1>7. At(heap, next.root, next.id, next.depth)
  BY <1>3, <1>4, <1>6
<1>8. fault \in ErrorCodes \ {"InternalError"} /\ fault = "Ok"
  BY DEF ErrorCodes
<1> HIDE DEF next, fault
<1>9. QED
  BY <1>1, <1>5, <1>6, <1>7, <1>8, TurnStep

-----------------------------------------------------------------------------
(* The end of a pass, and the calls.                                       *)

(* A walker that starts a pass.                                            *)
LEMMA StartShape ==
    ASSUME NEW w, Walker(w), NEW item, NEW pass \in {"count", "check", "trust"},
           NEW room, NEW s, s = Start(w, item, pass, room)
    PROVE  /\ Walker(s) /\ s.active
           /\ s.call = w.call /\ s.pass = pass /\ s.out = w.out
           /\ s.root = item /\ s.id = item /\ s.depth = 0
           /\ s.phase = "enter" /\ s.code = w.code
<1>1. PICK active, call, form, buffer, last, root, id, depth, phase, code,
           count, left, out :
         /\ w = [active |-> active, call |-> call, form |-> form,
                 buffer |-> buffer, pass |-> last, root |-> root, id |-> id,
                 depth |-> depth, phase |-> phase, code |-> code,
                 count |-> count, room |-> left, out |-> out]
         /\ call = w.call /\ code = w.code /\ out = w.out
  BY DEF Walker
<1>2. s = [active |-> TRUE, call |-> call, form |-> form,
           buffer |-> buffer, pass |-> pass, root |-> item, id |-> item,
           depth |-> 0, phase |-> "enter", code |-> code,
           count |-> count, room |-> room, out |-> out]
  BY <1>1 DEF Start
<1>3. /\ s.active = TRUE /\ s.call = call /\ s.form = form
      /\ s.buffer = buffer /\ s.pass = pass /\ s.root = item /\ s.id = item
      /\ s.depth = 0 /\ s.phase = "enter" /\ s.code = code
      /\ s.count = count /\ s.room = room /\ s.out = out
  BY <1>2
<1>4. Walker(s)
  BY <1>2, <1>3 DEF Walker
<1>5. QED
  BY <1>1, <1>3, <1>4

(* A walker that starts a pass is on the walk.                             *)
LEMMA StartStep ==
    ASSUME HeapOK(heap), NEW w, Walker(w), NEW item \in Live(heap),
           NEW pass \in {"count", "check", "trust"}, NEW room,
           w.code = "Ok", pass = "count" => w.out = <<>>,
           w.call = "whole" => pass # "check",
           walker' = Start(w, item, pass, room)
    PROVE  WalkStep
<1>1. PICK s : s = Start(w, item, pass, room)
  OBVIOUS
<1>2. /\ Walker(s) /\ s.active
      /\ s.call = w.call /\ s.pass = pass /\ s.out = w.out
      /\ s.root = item /\ s.id = item /\ s.depth = 0
      /\ s.phase = "enter" /\ s.code = w.code
  BY <1>1, StartShape
<1>3. At(heap, s.root, s.id, s.depth)
  BY <1>2, AtItsRoot
<1>4. PassOK(s)
  BY <1>2 DEF PassOK, ErrorCodes
<1>5. s = walker'
  BY <1>1
<1>6. QED
  BY <1>2, <1>3, <1>4, <1>5 DEF WalkStep

(* A pass that is over returns an error that is not its own, or Ok.        *)
LEMMA ReturnStep ==
    ASSUME SerializerInv, walker.active, walker.phase # "return",
           NEW code \in ErrorCodes \ {"InternalError"},
           walker.pass = "trust" => code = "Ok", Return(code)
    PROVE  WalkStep
<1>1. Walker(walker) /\ At(heap, walker.root, walker.id, walker.depth)
      /\ PassOK(walker)
  BY DEF SerializerInv
<1>2. PICK v, s : v = walker /\ s = walker' /\ Walker(v) /\ s = Stop(v, code)
  BY <1>1 DEF Return
<1>3. Walker(v) /\ s = Stop(v, code)
  BY <1>2
<1>4. /\ Walker(s)
      /\ s.active = v.active /\ s.call = v.call /\ s.pass = v.pass
      /\ s.out = v.out /\ s.root = v.root /\ s.id = v.id
      /\ s.depth = v.depth /\ s.phase = "return" /\ s.code = code
  BY <1>3, StopShape
<1>5. PassOK(v) /\ At(heap, v.root, v.id, v.depth) /\ v.active
      /\ (v.pass = "trust" => code = "Ok")
  BY <1>1, <1>2
<1>6. PassOK(s) /\ At(heap, s.root, s.id, s.depth) /\ s.active
  BY <1>4, <1>5 DEF PassOK
<1>7. QED
  BY <1>2, <1>4, <1>6 DEF WalkStep

(* The ends of the passes.                                                 *)
LEMMA PassEndStep ==
    ASSUME SerializerInv, walker.active, PassReturns \/ WriteWhole \/ WritePrint
    PROVE  WalkStep
<1>1. walker.phase = "leave"
  BY DEF PassReturns, WriteWhole, WritePrint, AtRoot
<1>2. /\ HeapOK(heap) /\ Walker(walker) /\ walker.code = "Ok"
      /\ walker.root \in Live(heap)
  BY <1>1, Walking DEF At
<1>3. ASSUME NEW code \in ErrorCodes \ {"InternalError"},
             walker.pass = "trust" => code = "Ok", Return(code)
      PROVE  WalkStep
  BY <1>1, <1>3, ReturnStep
<1>4. CASE PassReturns
  <2> DEFINE code == "Ok"
  <2>1. code \in ErrorCodes \ {"InternalError"} /\ code = "Ok"
    BY DEF ErrorCodes
  <2>2. Return(code)
    BY <1>4 DEF PassReturns
  <2> HIDE DEF code
  <2>3. QED
    BY <1>3, <2>1, <2>2
<1>5. CASE WriteWhole
  <2> DEFINE code == WholeError(walker.count, walker.buffer)
  <2>1. code \in ErrorCodes \ {"InternalError"}
    BY DEF WholeError, ErrorCodes
  <2>2. /\ walker.pass = "count" /\ walker.call = "whole"
        /\ \/ Return(code)
           \/ walker' = Start(walker, walker.root, "trust", walker.buffer.size)
    BY <1>5 DEF WriteWhole
  <2> HIDE DEF code
  <2>3. CASE Return(code)
    BY <1>3, <2>1, <2>2, <2>3
  <2>4. CASE walker' = Start(walker, walker.root, "trust", walker.buffer.size)
    <3>1. PICK w, item, pass, room :
             /\ w = walker /\ item = walker.root /\ pass = "trust"
             /\ walker' = Start(w, item, pass, room)
      BY <2>4
    <3>2. /\ Walker(w) /\ item \in Live(heap) /\ w.code = "Ok"
          /\ pass \in {"count", "check", "trust"}
          /\ pass # "count" /\ pass # "check"
      BY <1>2, <3>1
    <3>3. walker' = Start(w, item, pass, room)
      BY <3>1
    <3>4. QED
      BY <1>2, <3>2, <3>3, StartStep
  <2>5. QED
    BY <2>2, <2>3, <2>4
<1>6. CASE WritePrint
  <2> DEFINE code == PrintError(walker.count, walker.buffer)
  <2>1. code \in ErrorCodes \ {"InternalError"}
    BY DEF PrintError, ErrorCodes
  <2>2. /\ walker.pass = "count" /\ walker.call = "print"
        /\ \/ Return(code)
           \/ \E room : walker' = Start(walker, walker.root, "check", room)
    BY <1>6 DEF WritePrint
  <2> HIDE DEF code
  <2>3. CASE Return(code)
    BY <1>3, <2>1, <2>2, <2>3
  <2>4. CASE \E room : walker' = Start(walker, walker.root, "check", room)
    <3>1. PICK w, item, pass, room :
             /\ w = walker /\ item = walker.root /\ pass = "check"
             /\ walker' = Start(w, item, pass, room)
      BY <2>4
    <3>2. /\ Walker(w) /\ item \in Live(heap) /\ w.code = "Ok"
          /\ pass \in {"count", "check", "trust"}
          /\ pass # "count" /\ w.call # "whole"
      BY <1>2, <2>2, <3>1
    <3>3. walker' = Start(w, item, pass, room)
      BY <3>1
    <3>4. QED
      BY <1>2, <3>2, <3>3, StartStep
  <2>5. QED
    BY <2>2, <2>3, <2>4
<1>7. QED
  BY <1>4, <1>5, <1>6

(* Every turn of the walk, and every end of a pass.                        *)
LEMMA SerializeStepSafe ==
    ASSUME SerializerInv, SerializeStep
    PROVE  SerializerInv'
<1>1. /\ walker.active
      /\ UNCHANGED <<heap, generation, error, epoch, stale>>
      /\ result' = IF walker'.active THEN "Ok" ELSE walker.code
  BY DEF SerializeStep
<1>2. walker.code \in ErrorCodes \ {"InternalError"}
  BY <1>1 DEF SerializerInv, PassOK
<1>3. IInv'
  <2>1. result' \in ErrorCodes \ {"InternalError"}
    BY <1>1, <1>2 DEF ErrorCodes
  <2>2. QED
    BY <1>1, <2>1 DEF SerializerInv, IInv, TypeOK, LayoutSafe, ForestSafe,
                      NoInternalError
<1>4. CASE WalkStep
  <2>1. At(heap', walker'.root, walker'.id, walker'.depth)
    BY <1>1, <1>4 DEF WalkStep
  <2>2. QED
    BY <1>3, <1>4, <2>1 DEF SerializerInv, WalkStep
<1>5. CASE SerializeReturn
  <2>1. Walker(Away) /\ ~Away.active
    BY DEF Walker, Away
  <2>2. walker' = Away
    BY <1>5 DEF SerializeReturn
  <2>3. QED
    BY <1>3, <2>1, <2>2 DEF SerializerInv
<1>6. QED
  BY <1>1, <1>4, <1>5, WriteLeafStep, WriteFirstChildStep,
     WriteNextSiblingStep, WriteEndStep, PassEndStep DEF SerializeStep

(* What the caller asks for.                                               *)
Asked(w, call, form, buffer) ==
    [w EXCEPT !.call = call, !.form = form, !.buffer = buffer]

(* A walker that has been asked for a text.                                *)
LEMMA AskedShape ==
    ASSUME NEW w, Walker(w), NEW call, NEW form, NEW buffer,
           NEW s, s = Asked(w, call, form, buffer)
    PROVE  /\ Walker(s) /\ s.call = call /\ s.code = w.code /\ s.out = w.out
<1> DEFINE u == [w EXCEPT !.call = call]
           v == [u EXCEPT !.form = form]
<1>1. Walker(u) /\ u.call = call /\ u.code = w.code /\ u.out = w.out
  BY DEF Walker
<1>2. s = [v EXCEPT !.buffer = buffer]
  BY DEF Asked
<1> HIDE DEF u
<1>3. Walker(v) /\ v.call = u.call /\ v.code = u.code /\ v.out = u.out
  BY <1>1 DEF Walker
<1> HIDE DEF v
<1>4. Walker(s) /\ s.call = v.call /\ s.code = v.code /\ s.out = v.out
  BY <1>2, <1>3 DEF Walker
<1>5. QED
  BY <1>1, <1>3, <1>4

(* A call that begins: it is refused, or walks from a live node.           *)
LEMMA SerializeSafe ==
    ASSUME SerializerInv, NEW call, NEW item, item.id \in Nat, NEW form,
           NEW buffer, Serialize(call, item, form, buffer)
    PROVE  SerializerInv'
<1> DEFINE refused == IF /\ call = "partial" /\ item.slab # "none"
                         /\ StoreOverlaps(buffer, buffer.size)
                      THEN "InvalidArgument"
                      ELSE IF ~Accepted(item) THEN "InvalidHandle"
                      ELSE "Ok"
           asked == [Away EXCEPT !.call = call, !.form = form,
                                 !.buffer = buffer]
<1>1. /\ ~walker.active
      /\ UNCHANGED <<heap, generation, error, epoch, stale>>
      /\ \/ refused # "Ok" /\ result' = refused /\ UNCHANGED walker
         \/ /\ refused = "Ok" /\ result' = "Ok"
            /\ walker' = IF call = "partial"
                         THEN Start(asked, item.id, "check", buffer.size)
                         ELSE Start(asked, item.id, "count", 0)
  BY DEF Serialize
<1>2. refused \in ErrorCodes \ {"InternalError"}
  BY DEF ErrorCodes
<1>3. refused = "Ok" => Accepted(item)
  OBVIOUS
<1> HIDE DEF refused
<1>4. IInv'
  <2>1. result' \in ErrorCodes \ {"InternalError"}
    BY <1>1, <1>2 DEF ErrorCodes
  <2>2. QED
    BY <1>1, <2>1 DEF SerializerInv, IInv, TypeOK, LayoutSafe, ForestSafe,
                      NoInternalError
<1>5. CASE UNCHANGED walker
  BY <1>1, <1>4, <1>5 DEF SerializerInv
<1>6. CASE /\ refused = "Ok"
           /\ walker' = IF call = "partial"
                        THEN Start(asked, item.id, "check", buffer.size)
                        ELSE Start(asked, item.id, "count", 0)
  <2>1. HeapOK(heap) /\ item.id \in Live(heap)
    <3>1. HeapOK(heap) /\ item.id < heap.count
      BY <1>3, <1>6, IInvHeap DEF SerializerInv, Accepted, NodeFor
    <3>2. NodeBytes(heap.count) <= Capacity /\ heap \in Heaps
      BY <3>1, Counters, SizesAssumption DEF HeapOK, LayoutOK, NodeBytes, Heaps
    <3>3. QED
      BY <3>1, <3>2, LiveIsPrefix
  <2>2. Walker(Away) /\ Away.code = "Ok" /\ Away.out = <<>>
    BY DEF Walker, Away
  <2>3. /\ Walker(asked) /\ asked.code = "Ok" /\ asked.out = <<>>
        /\ asked.call = call
    <3>1. PICK w, v : /\ w = Away /\ v = asked /\ v = Asked(w, call, form, buffer)
                      /\ Walker(w) /\ w.code = "Ok" /\ w.out = <<>>
      BY <2>2 DEF Asked
    <3>2. Walker(w) /\ v = Asked(w, call, form, buffer)
      BY <3>1
    <3>3. /\ Walker(v) /\ v.call = call /\ v.code = w.code /\ v.out = w.out
      BY <3>2, AskedShape
    <3> HIDE DEF asked
    <3>4. QED
      BY <3>1, <3>3
  <2> HIDE DEF asked
  <2>4. PICK w, id, pass, room :
           /\ w = asked /\ id = item.id
           /\ pass = (IF call = "partial" THEN "check" ELSE "count")
           /\ walker' = Start(w, id, pass, room)
    BY <1>6
  <2>5. /\ Walker(w) /\ w.code = "Ok" /\ w.out = <<>> /\ id \in Live(heap)
        /\ pass \in {"count", "check", "trust"}
        /\ w.call = "whole" => pass # "check"
    BY <2>1, <2>3, <2>4
  <2>6. walker' = Start(w, id, pass, room)
    BY <2>4
  <2>7. WalkStep
    BY <2>1, <2>5, <2>6, StartStep
  <2>8. At(heap', walker'.root, walker'.id, walker'.depth)
    BY <1>1, <2>7 DEF WalkStep
  <2>9. QED
    BY <1>4, <2>7, <2>8 DEF SerializerInv, WalkStep
<1>7. QED
  BY <1>1, <1>5, <1>6

(* The invariant holds at the start ...                                    *)
LEMMA SerializerInvInit == SerializerInit => SerializerInv
<1>1. Walker(Away) /\ ~Away.active
  BY DEF Walker, Away
<1>2. QED
  BY <1>1, InitSafe DEF SerializerInit, SerializerInv

(* ... and every step keeps it.                                            *)
LEMMA SerializerInvSafe ==
    ASSUME SerializerInv, [SerializerNext]_serializerVars
    PROVE  SerializerInv'
<1>1. CASE UNCHANGED serializerVars
  BY <1>1 DEF serializerVars, SerializerInv, IInv, TypeOK, LayoutSafe,
              ForestSafe, NoInternalError
<1>2. CASE Client
  <2>1. IInv'
    BY <1>2, NextSafe DEF Client, SerializerInv
  <2>2. walker' = walker /\ ~walker.active
    BY <1>2 DEF Client
  <2>3. QED
    BY <2>1, <2>2 DEF SerializerInv
<1>3. \A item \in Held \cup {NullValue} : item.id \in Nat
  BY HeldTyped DEF SerializerInv, IInv, Values
<1>4. CASE \E call, item, form, buffer :
              /\ item \in Held \cup {NullValue}
              /\ Serialize(call, item, form, buffer)
  BY <1>3, <1>4, SerializeSafe
<1>5. CASE SerializeStep
  BY <1>5, SerializeStepSafe
<1>6. QED
  BY <1>1, <1>2, <1>4, <1>5 DEF SerializerNext

(* What the invariant says holds in every document, at every step of every *)
(* serializer.                                                             *)
THEOREM SerializerInvariant == SerializerSpec => []SerializerInv
<1>1. SerializerInv /\ [SerializerNext]_serializerVars => SerializerInv'
  BY SerializerInvSafe
<1>2. QED
  BY <1>1, SerializerInvInit, PTL DEF SerializerSpec

(* The walk that has no stack stays below its root and counts its depth    *)
(* right, in every document: none of its checks for a broken link ever     *)
(* fails, and the pass that makes none needs none.                         *)
THEOREM WalkIsSafe == SerializerSpec => []WalkSafe
<1>1. SerializerInv => WalkSafe
  <2> SUFFICES ASSUME SerializerInv, walker.active PROVE WalkSafe
    BY DEF WalkSafe
  <2>1. At(heap, walker.root, walker.id, walker.depth) /\ PassOK(walker)
    BY DEF SerializerInv
  <2>2. QED
    BY <2>1 DEF At, Depth, PassOK, WalkSafe
<1>2. QED
  BY <1>1, SerializerInvariant, PTL

-----------------------------------------------------------------------------
(* What is counted, and what is written.                                   *)

(* Two walkers that differ in where they are, if at all.                   *)
Alike(v, w) ==
    /\ v.active = w.active /\ v.call = w.call /\ v.form = w.form
    /\ v.buffer = w.buffer /\ v.pass = w.pass /\ v.root = w.root
    /\ v.room = w.room /\ v.code = w.code
    /\ v.count = w.count /\ v.out = w.out

(* A walker that moves is such a one.                                      *)
LEMMA MovesAlike ==
    ASSUME NEW w, Walker(w), NEW i, NEW d
    PROVE  /\ Alike(Moved(w, i, d), w) /\ Alike(Entering(w, i), w)
           /\ Alike([w EXCEPT !.phase = "leave"], w)
BY DEF Alike, Moved, Entering, Walker

(* A walker that stops, or has counted or written pieces, is where it was. *)
LEMMA StopKeeps ==
    ASSUME NEW w, Walker(w), NEW code, NEW s, s = Stop(w, code)
    PROVE  /\ s.active = w.active /\ s.call = w.call /\ s.form = w.form
           /\ s.buffer = w.buffer /\ s.pass = w.pass /\ s.root = w.root
           /\ s.room = w.room /\ s.count = w.count /\ s.out = w.out
           /\ s.phase = "return" /\ s.code = code
BY DEF Stop, Walker

(* What it has counted or written.                                         *)
LEMMA WrittenKeeps ==
    ASSUME NEW w, Walker(w), NEW pieces, NEW x, Spells(pieces, x),
           NEW s, s = Written(w, pieces)
    PROVE  /\ Walker(s)
           /\ s.active = w.active /\ s.call = w.call /\ s.form = w.form
           /\ s.buffer = w.buffer /\ s.pass = w.pass /\ s.root = w.root
           /\ s.room = w.room /\ s.id = w.id /\ s.depth = w.depth
           /\ s.phase = w.phase /\ s.code = w.code
           /\ s.count = (IF w.pass = "count" THEN w.count + Len(x) ELSE w.count)
           /\ s.out = (IF w.pass = "count" THEN w.out ELSE Cat(w.out, x))
<1> DEFINE count == w.count + Len(x)
           out == Cat(w.out, x)
<1>1. s = IF w.pass = "count" THEN [w EXCEPT !.count = count]
          ELSE [w EXCEPT !.out = out]
  BY DEF Written, Total, Spells, Cat
<1> HIDE DEF count, out
<1>2. /\ Walker(s)
      /\ s.active = w.active /\ s.call = w.call /\ s.form = w.form
      /\ s.buffer = w.buffer /\ s.pass = w.pass /\ s.root = w.root
      /\ s.room = w.room /\ s.id = w.id /\ s.depth = w.depth
      /\ s.phase = w.phase /\ s.code = w.code
      /\ s.count = (IF w.pass = "count" THEN count ELSE w.count)
      /\ s.out = (IF w.pass = "count" THEN w.out ELSE out)
  BY <1>1 DEF Walker
<1>3. QED
  BY <1>2 DEF count, out

(* Everything told of t but rest: counted, or written.                     *)
Told(w, t, rest) ==
    /\ AText(w.out) /\ AText(rest) /\ AText(t) /\ w.count \in Nat
    /\ w.pass = "count" => w.out = <<>> /\ w.count + Len(rest) = Len(t)
    /\ w.pass # "count" =>
          /\ Cat(w.out, rest) = t
          /\ w.count = (IF w.call = "partial" THEN 0 ELSE Len(t))

(* The room the pass has to write in: what was measured and is trusted,    *)
(* or what is checked, lies in the buffer and shares no byte with the slab.*)
Roomy(w) ==
    /\ w.call \in Calls
    /\ w.buffer \in [at : Int, size : Nat] /\ w.room \in Nat
    /\ w.pass = "count" => w.call # "partial"
    /\ w.pass = "trust" =>
          /\ w.call = "whole" /\ w.count <= w.buffer.size
          /\ ~StoreOverlaps(w.buffer, w.buffer.size)
    /\ w.pass = "check" =>
          /\ Len(w.out) <= w.room /\ ~StoreOverlaps(w.buffer, w.room)
          /\ \/ w.call = "partial" /\ w.room = w.buffer.size
             \/ /\ w.call = "print" /\ w.room = w.count + 1
                /\ w.room <= w.buffer.size

(* What a walker returns with: the whole text told, or why it is not.      *)
Done(w, t, rest) ==
    \/ /\ w.code = "Ok" /\ rest = <<>>
       /\ w.pass = "count" => w.call = "size"
    \/ /\ w.call = "partial" \/ w.pass = "count"
       /\ w.code = "OutputCapacityExceeded"
       /\ w.buffer.size < Len(t) + (IF w.call = "print" THEN 1 ELSE 0)
    \/ /\ w.pass = "count"
       /\ w.code = "InvalidArgument"
       /\ \E a \in Addresses : a - w.buffer.at \in 0 .. w.buffer.size - 1

TextOf(h, w) == Render(h, w.root, w.form)
LeftOf(h, w) == Left(h, w.form, w.root, w.id, w.depth, w.phase)

(* What the walker has told and what is left on its walk is the text.      *)
Telling(h, w) ==
    /\ AForm(w.form)
    /\ Roomy(w)
    /\ w.phase # "return" => Told(w, TextOf(h, w), LeftOf(h, w))
    /\ w.phase = "return" =>
          \E rest : Told(w, TextOf(h, w), rest) /\ Done(w, TextOf(h, w), rest)

TextInv ==
    /\ StringsInv
    /\ ~walker.active => walker = Away
    /\ walker.active => Telling(heap, walker)

(* A span that does not overlap the storage has none of its bytes, and one *)
(* that does has one.                                                      *)
LEMMA OverlapsIsExact ==
    ASSUME NEW buffer, buffer \in [at : Int, size : Nat], NEW n \in Nat
    PROVE  /\ ~StoreOverlaps(buffer, n) =>
                 \A k \in 0 .. n - 1 : buffer.at + k \notin Addresses
           /\ StoreOverlaps(buffer, n) =>
                 \E a \in Addresses : a - buffer.at \in 0 .. n - 1
<1>1. buffer.at \in Int /\ Capacity \in Nat
  BY SizesAssumption
<1>2. PICK at \in Int : at = buffer.at
  BY <1>1
<1>3. StoreOverlaps(buffer, n)
         <=> n # 0 /\ Capacity # 0
             /\ IF at <= 0 THEN 0 - at < n ELSE at - 0 < Capacity
  BY <1>2 DEF StoreOverlaps, Overlaps
<1>4. ASSUME ~StoreOverlaps(buffer, n), NEW k \in 0 .. n - 1
      PROVE  at + k \notin Addresses
  BY <1>1, <1>3, <1>4 DEF Addresses
<1>5. ASSUME StoreOverlaps(buffer, n)
      PROVE  \E a \in Addresses : a - at \in 0 .. n - 1
  <2>1. CASE at <= 0
    <3>1. 0 \in Addresses /\ 0 - at \in 0 .. n - 1
      BY <1>1, <1>3, <1>5, <2>1 DEF Addresses
    <3>2. QED
      BY <3>1
  <2>2. CASE ~(at <= 0)
    <3>1. at \in Addresses /\ at - at \in 0 .. n - 1
      BY <1>1, <1>3, <1>5, <2>2 DEF Addresses
    <3>2. QED
      BY <3>1
  <2>3. QED
    BY <2>1, <2>2
<1>6. QED
  BY <1>2, <1>4, <1>5

(* The pieces that are written when not all fit: what they spell is how    *)
(* the text of all begins, and fits.                                       *)
LEMMA FittingIs ==
    ASSUME NEW pieces, NEW x, Spells(pieces, x), ~Fits(pieces),
           walker.room \in Nat, AText(walker.out),
           Len(walker.out) <= walker.room
    PROVE  \E y, z : /\ Spells(Fitting(pieces), y) /\ AText(z)
                     /\ x = Cat(y, z)
                     /\ Len(walker.out) + Len(y) <= walker.room
<1>1. /\ pieces \in Seq(Seq(Chars)) /\ Len(pieces) \in Nat
      /\ Len(walker.out) \in Nat /\ walker.pass = "check"
  BY CatTyped DEF Spells, AText, Fits
<1> DEFINE Upto(n) == Fits(SubSeq(pieces, 1, n))
           T == {n \in Nat : n <= Len(pieces) /\ ~Upto(n)}
           N == {n \in 0 .. Len(pieces) :
                    Upto(n) /\ (n < Len(pieces) => ~Upto(n + 1))}
<1>2. Len(pieces) \in T
  <2>1. SubSeq(pieces, 1, Len(pieces)) = pieces
    BY <1>1, SubSeqFull
  <2>2. ~Upto(Len(pieces))
    BY <2>1
  <2>3. QED
    BY <1>1, <2>2
<1>3. PICK m \in T : \A n \in T : m <= n
  BY <1>2, LeastNat
<1>4. Upto(0)
  <2>1. SubSeq(pieces, 1, 0) = <<>>
    BY SubSeqEmpty
  <2>2. Total(<<>>) = 0
    BY FlattenNone, CatNothing DEF Total
  <2>3. Fits(<<>>)
    BY <1>1, <2>2 DEF Fits
  <2>4. QED
    BY <2>1, <2>3
<1> HIDE DEF Upto
<1>5. m - 1 \in N
  <2>1. m \in Nat /\ m # 0 /\ m <= Len(pieces) /\ ~Upto(m)
    BY <1>3, <1>4
  <2>2. m - 1 \in Nat /\ m - 1 < m /\ (m - 1) + 1 = m /\ m - 1 <= Len(pieces)
    BY <1>1, <2>1
  <2>3. m - 1 \notin T
    BY <1>3, <2>1, <2>2
  <2>4. Upto(m - 1)
    BY <2>2, <2>3
  <2>5. QED
    BY <1>1, <2>1, <2>2, <2>4
<1>6. PICK n : n \in N /\ Fitting(pieces) = SubSeq(pieces, 1, n)
  <2> DEFINE n == CHOOSE n \in 0 .. Len(pieces) :
                     Upto(n) /\ (n < Len(pieces) => ~Upto(n + 1))
  <2>1. n \in N
    BY <1>5
  <2>2. Fitting(pieces) = SubSeq(pieces, 1, n)
    BY Zenon DEF Fitting, Upto
  <2> HIDE DEF n, N
  <2>3. QED
    BY <2>1, <2>2
<1>7. n \in 0 .. Len(pieces) /\ Upto(n)
  BY <1>6
<1> HIDE DEF N, T
<1>8. PICK s, r : /\ s = SubSeq(pieces, 1, n)
                  /\ r = SubSeq(pieces, n + 1, Len(pieces))
                  /\ s \in Seq(Seq(Chars)) /\ r \in Seq(Seq(Chars))
                  /\ x = Cat(Seqs!FlattenSeq(s), Seqs!FlattenSeq(r))
  <2>1. PICK s, r : /\ s = SubSeq(pieces, 1, n)
                    /\ r = SubSeq(pieces, n + 1, Len(pieces))
    OBVIOUS
  <2>2. /\ s \in Seq(Seq(Chars)) /\ r \in Seq(Seq(Chars))
        /\ Seqs!FlattenSeq(pieces) = Cat(Seqs!FlattenSeq(s), Seqs!FlattenSeq(r))
    BY <1>1, <1>7, <2>1, FlattenCut, Zenon DEF Cat
  <2>3. Seqs!FlattenSeq(pieces) = x
    BY DEF Spells
  <2>4. QED
    BY <2>1, <2>2, <2>3
<1>9. PICK y, z : /\ y = Seqs!FlattenSeq(s) /\ z = Seqs!FlattenSeq(r)
                  /\ AText(y) /\ AText(z)
  BY <1>8, FlattenTyped DEF AText
<1>10. Spells(s, y)
  BY <1>8, <1>9 DEF Spells
<1>11. Len(walker.out) + Len(y) <= walker.room
  <2>1. Len(y) \in Nat
    BY <1>9, CatTyped
  <2>2. Len(y) <= walker.room - Len(walker.out)
    BY <1>1, <1>7, <1>8, <1>9 DEF Upto, Fits, Total
  <2>3. QED
    BY <1>1, <2>1, <2>2
<1>12. QED
  BY <1>6, <1>8, <1>9, <1>10, <1>11

(* Telling some more of the text leaves so much less of it.                *)
LEMMA ToldMore ==
    ASSUME NEW w, NEW v, NEW t, NEW x, NEW rest, AText(x), AText(rest),
           Told(w, t, Cat(x, rest)), v.call = w.call, v.pass = w.pass,
           v.count = (IF w.pass = "count" THEN w.count + Len(x) ELSE w.count),
           v.out = (IF w.pass = "count" THEN w.out ELSE Cat(w.out, x))
    PROVE  Told(v, t, rest)
<1>1. /\ Len(x) \in Nat /\ Len(rest) \in Nat
      /\ Len(Cat(x, rest)) = Len(x) + Len(rest)
  BY CatTyped
<1>2. AText(w.out) /\ AText(t) /\ w.count \in Nat
  BY DEF Told
<1>3. CASE w.pass = "count"
  <2>1. w.out = <<>> /\ w.count + Len(Cat(x, rest)) = Len(t)
    BY <1>3 DEF Told
  <2>2. v.count \in Nat /\ v.count + Len(rest) = Len(t)
    BY <1>1, <1>2, <1>3, <2>1
  <2>3. QED
    BY <1>2, <1>3, <2>1, <2>2 DEF Told
<1>4. CASE w.pass # "count"
  <2>1. Cat(w.out, Cat(x, rest)) = t
    BY <1>4 DEF Told
  <2>2. Cat(Cat(w.out, x), rest) = t /\ AText(Cat(w.out, x))
    BY <1>2, <2>1, CatAssociative, CatTyped
  <2>3. w.count = (IF w.call = "partial" THEN 0 ELSE Len(t))
    BY <1>4 DEF Told
  <2>4. QED
    BY <1>2, <1>4, <2>2, <2>3 DEF Told
<1>5. QED
  BY <1>3, <1>4

(* The room stays what it is.                                              *)
LEMMA RoomyMore ==
    ASSUME NEW w, NEW v, Roomy(w), v.call = w.call, v.pass = w.pass,
           v.buffer = w.buffer, v.room = w.room,
           w.pass # "count" => v.count = w.count,
           w.pass = "check" => Len(v.out) <= w.room
    PROVE  Roomy(v)
BY DEF Roomy

(* What is left from where a walker is depends on where that is.           *)
LEMMA WhereIsLeft ==
    ASSUME NEW h, NEW v, NEW w, v.form = w.form, v.root = w.root
    PROVE  /\ TextOf(h, v) = TextOf(h, w)
           /\ v.id = w.id /\ v.depth = w.depth /\ v.phase = w.phase
                 => LeftOf(h, v) = LeftOf(h, w)
BY DEF TextOf, LeftOf

(* A turn that writes what is before the place it goes on from.            *)
LEMMA TurnTells ==
    ASSUME Walker(walker), walker.code = "Ok", walker.phase # "return",
           Telling(heap, walker),
           NEW pieces, NEW x, Spells(pieces, x),
           NEW next, Walker(next), Alike(next, walker), next.phase # "return",
           AText(LeftOf(heap, next)),
           LeftOf(heap, walker) = Cat(x, LeftOf(heap, next)),
           Turn(pieces, "Ok", next)
    PROVE  Telling(heap, walker')
<1>1. PICK w, t, rest : w = walker /\ t = TextOf(heap, w)
                        /\ rest = LeftOf(heap, next)
  OBVIOUS
<1>2. /\ Walker(w) /\ AForm(w.form) /\ Roomy(w) /\ AText(x) /\ AText(rest)
      /\ Told(w, t, Cat(x, rest))
  BY <1>1 DEF Telling, Spells
<1>3. /\ AText(w.out) /\ AText(t) /\ w.room \in Nat /\ w.count \in Nat
      /\ w.buffer.size \in Nat
  BY <1>2 DEF Told, Roomy
<1>4. /\ Len(w.out) \in Nat /\ Len(x) \in Nat /\ Len(rest) \in Nat
      /\ Len(t) \in Nat
      /\ Len(Cat(w.out, x)) = Len(w.out) + Len(x)
      /\ Len(Cat(x, rest)) = Len(x) + Len(rest) /\ AText(Cat(x, rest))
  BY <1>2, <1>3, CatTyped
<1>5. walker' = IF ~Fits(pieces)
                THEN Stop(Written(walker, Fitting(pieces)),
                          "OutputCapacityExceeded")
                ELSE Written(next, pieces)
  BY DEF Turn
<1>6. Fits(pieces) <=> (w.pass = "check" => Len(x) <= w.room - Len(w.out))
  BY <1>1 DEF Fits, Total, Spells
<1>7. CASE Fits(pieces)
  <2>1. PICK v, n : v = walker' /\ n = next /\ Walker(n) /\ Alike(n, w)
                    /\ v = Written(n, pieces)
    BY <1>1, <1>5, <1>7
  <2>2. /\ v.call = n.call /\ v.form = n.form /\ v.buffer = n.buffer
        /\ v.pass = n.pass /\ v.root = n.root /\ v.room = n.room
        /\ v.id = n.id /\ v.depth = n.depth /\ v.phase = n.phase
        /\ v.count = (IF n.pass = "count" THEN n.count + Len(x) ELSE n.count)
        /\ v.out = (IF n.pass = "count" THEN n.out ELSE Cat(n.out, x))
    BY <2>1, WrittenKeeps
  <2>3. /\ v.call = w.call /\ v.form = w.form /\ v.buffer = w.buffer
        /\ v.pass = w.pass /\ v.root = w.root /\ v.room = w.room
        /\ v.count = (IF w.pass = "count" THEN w.count + Len(x) ELSE w.count)
        /\ v.out = (IF w.pass = "count" THEN w.out ELSE Cat(w.out, x))
    BY <2>1, <2>2 DEF Alike
  <2>4. Told(v, t, rest)
    BY <1>2, <2>3, ToldMore
  <2>5. w.pass = "check" => Len(v.out) <= w.room
    BY <1>3, <1>4, <1>6, <1>7, <2>3
  <2>6. Roomy(v)
    BY <1>2, <2>3, <2>5, RoomyMore
  <2>7. TextOf(heap, v) = t /\ LeftOf(heap, v) = rest /\ v.phase # "return"
    <3>1. TextOf(heap, v) = t
      BY <1>1, <2>3, WhereIsLeft
    <3>2. LeftOf(heap, v) = LeftOf(heap, n)
      BY <2>2, WhereIsLeft
    <3>3. QED
      BY <1>1, <2>1, <2>2, <3>1, <3>2
  <2>8. Telling(heap, v)
    BY <1>2, <2>3, <2>4, <2>6, <2>7 DEF Telling
  <2>9. QED
    BY <2>1, <2>8
<1>8. CASE ~Fits(pieces)
  <2>1. /\ w.pass = "check" /\ ~(Len(x) <= w.room - Len(w.out))
        /\ Len(w.out) <= w.room
    BY <1>2, <1>6, <1>8 DEF Roomy
  <2>2. Cat(w.out, Cat(x, rest)) = t
        /\ (w.call # "partial" => w.count = Len(t))
    BY <1>2, <2>1 DEF Told
  <2>3. Len(t) = Len(w.out) + Len(x) + Len(rest)
    <3>1. Len(Cat(w.out, Cat(x, rest))) = Len(w.out) + Len(Cat(x, rest))
      BY <1>3, <1>4, CatTyped
    <3>2. Len(Cat(w.out, Cat(x, rest))) = Len(t)
      BY <2>2
    <3>3. PICK a \in Nat, b \in Nat, c \in Nat :
             a = Len(w.out) /\ b = Len(x) /\ c = Len(rest)
      BY <1>4
    <3>4. Len(t) = a + (b + c)
      BY <1>4, <3>1, <3>2, <3>3, Zenon
    <3>5. a + (b + c) = a + b + c
      OBVIOUS
    <3>6. QED
      BY <3>3, <3>4, <3>5, Zenon
  <2>4. w.call = "partial" /\ w.room = w.buffer.size
    <3>1. \/ w.call = "partial" /\ w.room = w.buffer.size
          \/ w.call = "print" /\ w.room = w.count + 1
      BY <1>2, <2>1 DEF Roomy
    <3>2. w.call # "print"
      BY <1>3, <1>4, <2>1, <2>2, <2>3, <3>1
    <3>3. QED
      BY <3>1, <3>2
  <2>5. PICK y, z : /\ Spells(Fitting(pieces), y) /\ AText(z) /\ x = Cat(y, z)
                    /\ Len(w.out) + Len(y) <= w.room
    BY <1>1, <1>3, <1>8, <2>1, FittingIs
  <2>6. PICK u, f, code : /\ f = Fitting(pieces) /\ u = Written(w, f)
                          /\ code = "OutputCapacityExceeded"
    OBVIOUS
  <2>7. /\ Walker(u)
        /\ u.call = w.call /\ u.form = w.form /\ u.buffer = w.buffer
        /\ u.pass = w.pass /\ u.root = w.root /\ u.room = w.room
        /\ u.count = (IF w.pass = "count" THEN w.count + Len(y) ELSE w.count)
        /\ u.out = (IF w.pass = "count" THEN w.out ELSE Cat(w.out, y))
    <3>1. Walker(w) /\ Spells(f, y) /\ u = Written(w, f)
      BY <1>2, <2>5, <2>6
    <3>2. QED
      BY <3>1, WrittenKeeps
  <2>8. PICK v : v = walker' /\ v = Stop(u, code)
    BY <1>1, <1>5, <1>8, <2>6
  <2>9. /\ v.call = w.call /\ v.form = w.form /\ v.buffer = w.buffer
        /\ v.pass = w.pass /\ v.root = w.root /\ v.room = w.room
        /\ v.count = u.count /\ v.out = u.out
        /\ v.phase = "return" /\ v.code = code
    <3>1. /\ v.call = u.call /\ v.form = u.form /\ v.buffer = u.buffer
          /\ v.pass = u.pass /\ v.root = u.root /\ v.room = u.room
          /\ v.count = u.count /\ v.out = u.out
          /\ v.phase = "return" /\ v.code = code
      BY <2>7, <2>8, StopKeeps
    <3>2. QED
      BY <2>7, <3>1
  <2>10. AText(y) /\ AText(Cat(z, rest))
         /\ Told(w, t, Cat(y, Cat(z, rest)))
    <3>1. AText(y)
      BY <2>5 DEF Spells
    <3>2. AText(Cat(z, rest)) /\ Cat(Cat(y, z), rest) = Cat(y, Cat(z, rest))
      BY <1>2, <2>5, <3>1, CatTyped, CatAssociative
    <3>3. QED
      BY <1>2, <2>5, <3>1, <3>2
  <2>11. Told(v, t, Cat(z, rest))
    <3>1. PICK r : r = Cat(z, rest) /\ AText(r) /\ Told(w, t, Cat(y, r)) /\ AText(y)
      BY <2>10
    <3>2. Told(v, t, r)
      BY <3>1, <2>7, <2>9, ToldMore
    <3>3. QED
      BY <3>1, <3>2
  <2>12. Roomy(v)
    <3>1. Len(v.out) <= w.room
      <4>1. v.out = Cat(w.out, y)
        BY <2>1, <2>7, <2>9
      <4>2. Len(Cat(w.out, y)) = Len(w.out) + Len(y)
        BY <1>3, <2>10, CatTyped
      <4>3. QED
        BY <2>5, <4>1, <4>2
    <3>2. w.pass # "count" /\ v.count = w.count
      BY <2>1, <2>7, <2>9
    <3>3. QED
      BY <1>2, <2>9, <3>1, <3>2, RoomyMore
  <2>13. Done(v, t, Cat(z, rest))
    <3>1. w.buffer.size < Len(t)
      BY <1>3, <1>4, <2>1, <2>3, <2>4
    <3>2. v.call = "partial" /\ v.code = "OutputCapacityExceeded"
          /\ v.buffer.size < Len(t) + (IF v.call = "print" THEN 1 ELSE 0)
      BY <1>4, <2>4, <2>6, <2>9, <3>1
    <3>3. QED
      BY <3>2 DEF Done
  <2>14. TextOf(heap, v) = t
    BY <1>1, <2>9, WhereIsLeft
  <2>15. Telling(heap, v)
    BY <1>2, <2>9, <2>11, <2>12, <2>13, <2>14 DEF Telling
  <2>16. QED
    BY <2>8, <2>15
<1>9. QED
  BY <1>7, <1>8

(* A walker that walks and tells, in a document whose texts are in order.  *)
Walks ==
    /\ Walker(walker) /\ walker.code = "Ok" /\ walker.phase # "return"
    /\ OnWalk(heap, walker.form, walker.root, walker.id, walker.depth)
    /\ Telling(heap, walker)
    /\ \A i \in Live(heap) :
          /\ GoodText(ViewString(heap, heap.key[i]), heap.keyFlags[i])
          /\ GoodText(ViewString(heap, heap.value[i]), heap.valueFlags[i])

(* So it is when the invariants hold.                                      *)
LEMMA WalksAndTells ==
    ASSUME SerializerInv, TextInv, walker.active, walker.phase # "return"
    PROVE  Walks
<1>1. /\ HeapOK(heap) /\ Walker(walker) /\ walker.code = "Ok"
      /\ At(heap, walker.root, walker.id, walker.depth)
  BY Walking
<1>2. Telling(heap, walker) /\ StringsInv
  BY DEF TextInv
<1>3. OnWalk(heap, walker.form, walker.root, walker.id, walker.depth)
  BY <1>1, <1>2 DEF OnWalk, Telling
<1>4. StoredTextOK
  BY <1>2, GoodStrings DEF SerializerInv
<1>5. ASSUME NEW i \in Live(heap)
      PROVE  /\ GoodText(ViewString(heap, heap.key[i]), heap.keyFlags[i])
             /\ GoodText(ViewString(heap, heap.value[i]), heap.valueFlags[i])
  <2> DEFINE k == [ref |-> heap.key[i], flags |-> heap.keyFlags[i]]
             v == [ref |-> heap.value[i], flags |-> heap.valueFlags[i]]
  <2>1. \A s \in {k, v} : GoodText(ViewString(heap, s.ref), s.flags)
    BY <1>4 DEF StoredTextOK, GoodText
  <2>2. /\ k.ref = heap.key[i] /\ k.flags = heap.keyFlags[i]
        /\ v.ref = heap.value[i] /\ v.flags = heap.valueFlags[i]
    OBVIOUS
  <2> HIDE DEF k, v
  <2>3. QED
    BY <2>1, <2>2
<1>6. QED
  BY <1>1, <1>2, <1>3, <1>5 DEF Walks

(* What is left where a walker goes on.                                    *)
LEMMA LeftThere ==
    ASSUME NEW w, NEW n, AForm(w.form), Alike(n, w), HeapOK(heap),
           At(heap, w.root, n.id, n.depth)
    PROVE  /\ LeftOf(heap, n)
                 = Left(heap, w.form, w.root, n.id, n.depth, n.phase)
           /\ AText(LeftOf(heap, n))
<1>1. LeftOf(heap, n) = Left(heap, w.form, w.root, n.id, n.depth, n.phase)
  BY DEF LeftOf, Alike
<1>2. OnWalk(heap, w.form, w.root, n.id, n.depth)
  BY DEF OnWalk
<1>3. QED
  BY <1>1, <1>2, LeftTyped

(* The walker that leaves the node it is at.                               *)
LEMMA LeavesHere ==
    ASSUME Walks
    PROVE  /\ Walker(Leave) /\ Alike(Leave, walker) /\ Leave.phase # "return"
           /\ AText(LeftOf(heap, Leave))
           /\ LeftOf(heap, Leave)
                 = Left(heap, walker.form, walker.root, walker.id,
                        walker.depth, "leave")
<1>1. /\ Walker(Leave) /\ Leave.phase = "leave"
      /\ Leave.id = walker.id /\ Leave.depth = walker.depth
  BY LeaveShape DEF Walks
<1>2. Alike(Leave, walker)
  BY MovesAlike DEF Walks, Leave
<1>3. /\ AForm(walker.form) /\ HeapOK(heap)
      /\ At(heap, walker.root, Leave.id, Leave.depth)
  BY <1>1 DEF Walks, OnWalk
<1>4. PICK w, n : /\ w = walker /\ n = Leave /\ AForm(w.form) /\ Alike(n, w)
                  /\ HeapOK(heap) /\ At(heap, w.root, n.id, n.depth)
  BY <1>2, <1>3
<1>5. /\ LeftOf(heap, n) = Left(heap, w.form, w.root, n.id, n.depth, n.phase)
      /\ AText(LeftOf(heap, n))
  BY <1>4, LeftThere
<1>6. QED
  BY <1>1, <1>2, <1>4, <1>5

(* Writing a string, another leaf, or an empty container.                  *)
LEMMA WriteLeafTells ==
    ASSUME Walks, WriteLeaf \/ WriteEmpty
    PROVE  Telling(heap, walker')
<1> DEFINE rest == Left(heap, walker.form, walker.root, walker.id,
                        walker.depth, "leave")
           text == ViewString(heap, heap.value[walker.id])
           flags == heap.valueFlags[walker.id]
<1>1. /\ walker.phase = "enter" /\ walker.id \in Live(heap)
      /\ Type \in ValueTypes /\ GoodText(text, flags)
  <2>1. walker.phase = "enter" /\ walker.id \in Live(heap)
    BY DEF WriteLeaf, WriteEmpty, Walks, OnWalk, At, Below
  <2>2. HeapOK(heap)
    BY DEF Walks, OnWalk
  <2>3. Type \in ValueTypes
    BY <2>1, <2>2, LinksStayLive DEF HeapOK, Heaps, Type
  <2>4. QED
    BY <2>1, <2>3 DEF Walks
<1>2. ASSUME NEW pieces, NEW x, Spells(pieces, x),
             Turn(pieces, "Ok", Leave),
             LeftOf(heap, walker) = Cat(x, rest)
      PROVE  Telling(heap, walker')
  <2>1. PICK n : /\ n = Leave /\ Walker(n) /\ Alike(n, walker)
                 /\ n.phase # "return" /\ AText(LeftOf(heap, n))
                 /\ LeftOf(heap, n) = rest
    BY LeavesHere
  <2>2. LeftOf(heap, walker) = Cat(x, LeftOf(heap, n))
    BY <1>2, <2>1
  <2>3. Turn(pieces, "Ok", n)
    BY <1>2, <2>1
  <2>4. /\ Walker(walker) /\ walker.code = "Ok" /\ walker.phase # "return"
        /\ Telling(heap, walker)
    BY DEF Walks
  <2>5. QED
    BY <1>2, <2>1, <2>2, <2>3, <2>4, TurnTells
<1>3. LeftOf(heap, walker) = Left(heap, walker.form, walker.root, walker.id,
                                  walker.depth, "enter")
  BY <1>1 DEF LeftOf
<1>4. PICK form, root, i, d :
         /\ form = walker.form /\ root = walker.root /\ i = walker.id
         /\ d = walker.depth /\ OnWalk(heap, form, root, i, d)
         /\ Type = heap.type[i]
  BY DEF Walks, Type
<1>5. LET left == Left(heap, form, root, i, d, "leave")
      IN /\ heap.type[i] = "String" =>
               Left(heap, form, root, i, d, "enter")
                  = Cat(Quoted(ViewString(heap, heap.value[i])), left)
         /\ heap.type[i] # "String" /\ heap.type[i] \notin Containers =>
               Left(heap, form, root, i, d, "enter")
                  = Cat(One(heap.type[i]), left)
         /\ heap.type[i] \in Containers /\ heap.first[i] = Nil =>
               Left(heap, form, root, i, d, "enter")
                  = Cat(Cat(One(Opening(heap.type[i])),
                            One(Closing(heap.type[i]))), left)
  BY <1>4, LeftOfLeaf
<1>6. StringFault(text) = "Ok" /\ Spells(StringPieces(text, flags), Quoted(text))
  BY <1>1, GoodPieces
<1>7. CASE WriteLeaf /\ Type = "String"
  <2>1. Turn(StringPieces(text, flags), "Ok", Leave)
    BY <1>6, <1>7 DEF WriteLeaf
  <2>2. LeftOf(heap, walker) = Cat(Quoted(text), rest)
    BY <1>3, <1>4, <1>5, <1>7
  <2>3. QED
    BY <1>2, <1>6, <2>1, <2>2
<1>8. CASE WriteLeaf /\ Type # "String"
  <2>1. Turn(One(One(Type)), "Ok", Leave) /\ Type \notin Containers
    BY <1>8 DEF WriteLeaf, One
  <2>2. LeftOf(heap, walker) = Cat(One(Type), rest)
    BY <1>3, <1>4, <1>5, <1>8, <2>1
  <2>3. Spells(One(One(Type)), One(Type))
    BY <1>1, PunctuationTyped, SpellsParts
  <2>4. QED
    BY <1>2, <2>1, <2>2, <2>3
<1>9. CASE WriteEmpty
  <2>1. PICK a, b : a = One(Opening(Type)) /\ b = One(Closing(Type))
    OBVIOUS
  <2>2. AText(a) /\ AText(b)
    BY <2>1, PunctuationTyped
  <2>3. Turn(<<a, b>>, "Ok", Leave) /\ Type \in Containers
        /\ heap.first[walker.id] = Nil
    BY <1>9, <2>1 DEF WriteEmpty, One
  <2>4. Turn(Cat(One(a), One(b)), "Ok", Leave)
    BY <2>3, PairIsCat
  <2>5. Spells(Cat(One(a), One(b)), Cat(a, b))
    BY <2>2, SpellsParts
  <2>6. LeftOf(heap, walker) = Cat(Cat(a, b), rest)
    BY <1>3, <1>4, <1>5, <2>1, <2>3
  <2>7. QED
    BY <1>2, <2>4, <2>5, <2>6
<1>10. QED
  BY <1>7, <1>8, <1>9

(* Entering a child after what separates it from what is before it.        *)
LEMMA EnterChildTells ==
    ASSUME Walks, NEW child \in Live(heap), NEW broken, ~broken,
           NEW before, NEW line, NEW x, NEW y, Spells(before, x), Spells(line, y),
           NEW i, NEW next, Walker(next), Alike(next, walker),
           next.phase # "return", AText(LeftOf(heap, next)),
           LeftOf(heap, walker)
              = Cat(Cat(x, Cat(y, Label(heap, walker.form, i, child))),
                    LeftOf(heap, next)),
           EnterChild(child, broken, before, line, heap.type[i], next)
    PROVE  Telling(heap, walker')
<1>1. PICK pieces, label :
         /\ pieces = PrefixPieces(heap.type[i], child)
         /\ label = Label(heap, walker.form, i, child)
  OBVIOUS
<1>2. HeapOK(heap) /\ AForm(walker.form)
      /\ GoodText(ViewString(heap, heap.key[child]), heap.keyFlags[child])
  BY DEF Walks, OnWalk
<1>3. PrefixFault(heap.type[i], child) = "Ok" /\ Spells(pieces, label)
  BY <1>1, <1>2, PrefixPiecesSpell
<1>4. PICK all : all = Cat(Cat(before, line), pieces)
  OBVIOUS
<1>5. Turn(all, "Ok", next)
  BY <1>1, <1>3, <1>4 DEF EnterChild, Cat
<1>6. Spells(all, Cat(Cat(x, y), label))
  BY <1>3, <1>4, SpellsParts
<1>7. Cat(Cat(x, y), label) = Cat(x, Cat(y, label))
  BY <1>3, CatAssociative DEF Spells
<1>8. Spells(all, Cat(x, Cat(y, label)))
  BY <1>6, <1>7
<1>9. /\ Walker(walker) /\ walker.code = "Ok" /\ walker.phase # "return"
      /\ Telling(heap, walker)
  BY DEF Walks
<1>10. QED
  BY <1>1, <1>5, <1>8, <1>9, TurnTells

(* Going down.                                                             *)
LEMMA WriteFirstChildTells ==
    ASSUME Walks, WriteFirstChild
    PROVE  Telling(heap, walker')
<1>1. PICK form, root, i, d, c :
         /\ form = walker.form /\ root = walker.root /\ i = walker.id
         /\ d = walker.depth /\ c = heap.first[i]
  OBVIOUS
<1>2. /\ OnWalk(heap, form, root, i, d) /\ HeapOK(heap) /\ AForm(form)
      /\ At(heap, root, i, d) /\ d \in Nat /\ d + 1 \in Nat /\ Walker(walker)
  BY <1>1 DEF Walks, OnWalk, At
<1>3. /\ walker.phase = "enter" /\ heap.type[i] \in Containers /\ c # Nil
      /\ EnterChild(c, c \notin Live(heap) \/ heap.parent[c] # i,
                    One(One(Opening(heap.type[i]))), LinePieces(d + 1),
                    heap.type[i], [walker EXCEPT !.id = c, !.depth = d + 1])
  BY <1>1 DEF WriteFirstChild, Type, One
<1>4. c \in Live(heap) /\ heap.parent[c] = i /\ At(heap, root, c, d + 1)
  BY <1>1, <1>2, <1>3, WalkDown
<1>5. PICK n : n = Moved(walker, c, d + 1)
  OBVIOUS
<1>6. /\ Walker(n) /\ n.phase = walker.phase /\ n.id = c /\ n.depth = d + 1
      /\ Alike(n, walker)
  <2>1. PICK w, e : w = walker /\ e = d + 1 /\ Walker(w) /\ n = Moved(w, c, e)
    BY <1>2, <1>5
  <2>2. Walker(n) /\ n.phase = w.phase /\ n.id = c /\ n.depth = e
    BY <2>1, MovedShape
  <2>3. Alike(n, w)
    BY <2>1, MovesAlike
  <2>4. QED
    BY <2>1, <2>2, <2>3
<1>7. /\ LeftOf(heap, n) = Left(heap, form, root, c, d + 1, "enter")
      /\ AText(LeftOf(heap, n))
  <2>1. PICK w : /\ w = walker /\ AForm(w.form) /\ Alike(n, w)
                 /\ At(heap, w.root, n.id, n.depth)
    BY <1>1, <1>2, <1>4, <1>6
  <2>2. /\ LeftOf(heap, n) = Left(heap, w.form, w.root, n.id, n.depth, n.phase)
        /\ AText(LeftOf(heap, n))
    BY <1>2, <2>1, LeftThere
  <2>3. QED
    BY <1>1, <1>3, <1>6, <2>1, <2>2
<1>8. PICK x, y, before, line :
         /\ x = One(Opening(heap.type[i])) /\ y = NewLine(form, d + 1)
         /\ before = One(x) /\ line = LinePieces(d + 1)
  OBVIOUS
<1>9. Spells(before, x) /\ Spells(line, y)
  BY <1>1, <1>2, <1>8, PunctuationTyped, SpellsParts, LinePiecesSpell
<1>10. LeftOf(heap, walker)
          = Cat(Cat(x, Cat(y, Label(heap, form, i, c))), LeftOf(heap, n))
  <2>1. LeftOf(heap, walker) = Left(heap, form, root, i, d, "enter")
    BY <1>1, <1>3 DEF LeftOf
  <2>2. Left(heap, form, root, i, d, "enter")
           = Cat(Cat(One(Opening(heap.type[i])),
                     Cat(NewLine(form, d + 1), Label(heap, form, i, c))),
                 Left(heap, form, root, c, d + 1, "enter"))
    BY <1>1, <1>2, <1>3, LeftDown
  <2>3. QED
    BY <1>7, <1>8, <2>1, <2>2
<1>11. PICK broken : /\ broken = (c \notin Live(heap) \/ heap.parent[c] # i)
                     /\ ~broken
                     /\ EnterChild(c, broken, before, line, heap.type[i], n)
  <2>1. [walker EXCEPT !.id = c, !.depth = d + 1] = n
    BY <1>5 DEF Moved
  <2>2. QED
    BY <1>3, <1>4, <1>8, <2>1
<1>12. QED
  BY <1>1, <1>3, <1>4, <1>6, <1>7, <1>9, <1>10, <1>11, EnterChildTells

(* Going on.                                                               *)
LEMMA WriteNextSiblingTells ==
    ASSUME Walks, WriteNextSibling
    PROVE  Telling(heap, walker')
<1>1. PICK form, root, i, d, p, c :
         /\ form = walker.form /\ root = walker.root /\ i = walker.id
         /\ d = walker.depth /\ p = heap.parent[i] /\ c = heap.next[i]
         /\ p = Parent
  BY DEF Parent
<1>2. /\ OnWalk(heap, form, root, i, d) /\ HeapOK(heap) /\ AForm(form)
      /\ At(heap, root, i, d) /\ d \in Nat /\ Walker(walker)
  BY <1>1 DEF Walks, OnWalk, At
<1>3. walker.phase = "leave" /\ i # root /\ c # Nil
  BY <1>1 DEF WriteNextSibling
<1>4. p \in Live(heap) /\ heap.type[p] \in Containers
  BY <1>1, <1>2, <1>3, WalkUp
<1>5. ~Orphaned
  BY <1>1, <1>4 DEF Orphaned
<1>6. c \in Live(heap) /\ heap.parent[c] = p /\ At(heap, root, c, d)
  BY <1>1, <1>2, <1>3, WalkOnwards, ZenonT(30)
<1>7. EnterChild(c, c \notin Live(heap) \/ heap.parent[c] # p,
                 <<>>, <<<<",">>>> \o LinePieces(d), heap.type[p],
                 [walker EXCEPT !.id = c, !.phase = "enter"])
  BY <1>1, <1>5, Zenon DEF WriteNextSibling
<1>8. PICK n : n = Entering(walker, c)
  OBVIOUS
<1>9. /\ Walker(n) /\ n.phase = "enter" /\ n.id = c /\ n.depth = d
      /\ Alike(n, walker)
  <2>1. PICK w : w = walker /\ Walker(w) /\ n = Entering(w, c)
    BY <1>2, <1>8
  <2>2. Walker(n) /\ n.phase = "enter" /\ n.id = c /\ n.depth = w.depth
    BY <2>1, EnteringShape
  <2>3. Alike(n, w)
    BY <2>1, MovesAlike
  <2>4. QED
    BY <1>1, <2>1, <2>2, <2>3
<1>10. /\ LeftOf(heap, n) = Left(heap, form, root, c, d, "enter")
       /\ AText(LeftOf(heap, n))
  <2>1. PICK w : /\ w = walker /\ AForm(w.form) /\ Alike(n, w)
                 /\ At(heap, w.root, n.id, n.depth)
    BY <1>1, <1>2, <1>6, <1>9
  <2>2. /\ LeftOf(heap, n) = Left(heap, w.form, w.root, n.id, n.depth, n.phase)
        /\ AText(LeftOf(heap, n))
    BY <1>2, <2>1, LeftThere
  <2>3. QED
    BY <1>1, <1>9, <2>1, <2>2
<1>11. PICK y, z, before, line :
          /\ y = NewLine(form, d) /\ z = Cat(Comma, y)
          /\ before = <<>> /\ line = Cat(One(Comma), LinePieces(d))
  OBVIOUS
<1>12. /\ Spells(before, <<>>) /\ Spells(line, z)
       /\ AText(y) /\ AText(Comma) /\ AText(z)
  <2>1. Spells(LinePieces(d), y)
    BY <1>1, <1>2, <1>11, LinePiecesSpell
  <2>2. Spells(One(Comma), Comma)
    BY PunctuationTyped, SpellsParts
  <2>3. QED
    BY <1>11, <2>1, <2>2, SpellsParts DEF Spells
<1>13. LeftOf(heap, walker)
          = Cat(Cat(<<>>, Cat(z, Label(heap, form, p, c))), LeftOf(heap, n))
  <2>1. LeftOf(heap, walker) = Left(heap, form, root, i, d, "leave")
    BY <1>1, <1>3 DEF LeftOf
  <2>2. Left(heap, form, root, i, d, "leave")
           = Cat(Cat(Comma, Cat(NewLine(form, d), Label(heap, form, p, c))),
                 Left(heap, form, root, c, d, "enter"))
    <3>1. c = heap.next[i] /\ heap.parent[i] = p
      BY <1>1
    <3>2. Left(heap, form, root, i, d, "leave")
             = Cat(Cat(Comma, Cat(NewLine(form, d),
                                  Label(heap, form, heap.parent[i], c))),
                   Left(heap, form, root, c, d, "enter"))
      BY <1>2, <1>3, <3>1, LeftOnwards
    <3>3. QED
      BY <3>1, <3>2
  <2>3. PICK label : label = Label(heap, form, p, c) /\ AText(label)
    BY <1>2, <1>6, LabelTyped
  <2>4. Cat(Comma, Cat(y, label)) = Cat(<<>>, Cat(z, label))
    <3>1. Cat(z, label) = Cat(Comma, Cat(y, label)) /\ AText(Cat(z, label))
      BY <1>11, <1>12, <2>3, CatAssociative, CatTyped
    <3>2. QED
      BY <3>1, CatNothing
  <2>5. QED
    BY <1>10, <1>11, <2>1, <2>2, <2>3, <2>4
<1>14. PICK broken : /\ broken = (c \notin Live(heap) \/ heap.parent[c] # p)
                     /\ ~broken
                     /\ EnterChild(c, broken, before, line, heap.type[p], n)
  <2>1. [walker EXCEPT !.id = c, !.phase = "enter"] = n
    BY <1>8 DEF Entering
  <2>2. line = <<<<",">>>> \o LinePieces(d)
    BY <1>11, Zenon DEF Cat, One, Comma
  <2>3. QED
    BY <1>6, <1>7, <1>11, <2>1, <2>2, Zenon
<1>15. QED
  BY <1>1, <1>6, <1>9, <1>10, <1>12, <1>13, <1>14, EnterChildTells

(* Going back.                                                             *)
LEMMA WriteEndTells ==
    ASSUME Walks, WriteEnd
    PROVE  Telling(heap, walker')
<1>1. PICK form, root, i, d, p :
         /\ form = walker.form /\ root = walker.root /\ i = walker.id
         /\ d = walker.depth /\ p = heap.parent[i] /\ p = Parent
  BY DEF Parent
<1>2. /\ OnWalk(heap, form, root, i, d) /\ HeapOK(heap) /\ AForm(form)
      /\ At(heap, root, i, d) /\ d \in Nat /\ Walker(walker)
  BY <1>1 DEF Walks, OnWalk, At
<1>3. walker.phase = "leave" /\ i # root /\ heap.next[i] = Nil
  BY <1>1 DEF WriteEnd
<1>4. /\ p \in Live(heap) /\ heap.type[p] \in Containers
      /\ d # 0 /\ d - 1 \in Nat /\ At(heap, root, p, d - 1)
  <2>1. /\ p \in Live(heap) /\ heap.type[p] \in Containers
        /\ d # 0 /\ At(heap, root, p, d - 1)
    BY <1>1, <1>2, <1>3, WalkUp
  <2>2. QED
    BY <1>2, <2>1
<1>5. Turn(LinePieces(d - 1) \o <<<<Closing(heap.type[p])>>>>, "Ok",
           Climbed(walker))
  BY <1>1, <1>4 DEF WriteEnd, Orphaned
<1>6. PICK n : n = Moved(walker, p, d - 1)
  OBVIOUS
<1>7. /\ Walker(n) /\ n.phase = walker.phase /\ n.id = p /\ n.depth = d - 1
      /\ Alike(n, walker)
  <2>1. PICK w, e : w = walker /\ e = d - 1 /\ Walker(w) /\ n = Moved(w, p, e)
    BY <1>2, <1>6
  <2>2. Walker(n) /\ n.phase = w.phase /\ n.id = p /\ n.depth = e
    BY <2>1, MovedShape
  <2>3. Alike(n, w)
    BY <2>1, MovesAlike
  <2>4. QED
    BY <2>1, <2>2, <2>3
<1>8. /\ LeftOf(heap, n) = Left(heap, form, root, p, d - 1, "leave")
      /\ AText(LeftOf(heap, n))
  <2>1. PICK w : /\ w = walker /\ AForm(w.form) /\ Alike(n, w)
                 /\ At(heap, w.root, n.id, n.depth)
    BY <1>1, <1>2, <1>4, <1>7
  <2>2. /\ LeftOf(heap, n) = Left(heap, w.form, w.root, n.id, n.depth, n.phase)
        /\ AText(LeftOf(heap, n))
    BY <1>2, <2>1, LeftThere
  <2>3. QED
    BY <1>1, <1>3, <1>7, <2>1, <2>2
<1>9. PICK x, y, pieces :
         /\ x = NewLine(form, d - 1) /\ y = One(Closing(heap.type[p]))
         /\ pieces = Cat(LinePieces(d - 1), One(y))
  OBVIOUS
<1>10. Spells(pieces, Cat(x, y))
  <2>1. Spells(LinePieces(d - 1), x)
    BY <1>1, <1>2, <1>4, <1>9, LinePiecesSpell
  <2>2. Spells(One(y), y)
    BY <1>9, PunctuationTyped, SpellsParts
  <2>3. QED
    BY <1>9, <2>1, <2>2, SpellsParts
<1>11. LeftOf(heap, walker) = Cat(Cat(x, y), LeftOf(heap, n))
  <2>1. LeftOf(heap, walker) = Left(heap, form, root, i, d, "leave")
    BY <1>1, <1>3 DEF LeftOf
  <2>2. Left(heap, form, root, i, d, "leave")
           = Cat(Ending(heap, form, i, d),
                 Left(heap, form, root, p, d - 1, "leave"))
    <3>1. heap.parent[i] = p
      BY <1>1
    <3>2. Left(heap, form, root, i, d, "leave")
             = Cat(Ending(heap, form, i, d),
                   Left(heap, form, root, heap.parent[i], d - 1, "leave"))
      BY <1>2, <1>3, LeftUp
    <3>3. QED
      BY <3>1, <3>2
  <2>3. Ending(heap, form, i, d) = Cat(x, y)
    BY <1>1, <1>9 DEF Ending
  <2>4. QED
    BY <1>8, <2>1, <2>2, <2>3
<1>12. Turn(pieces, "Ok", n)
  <2>1. Climbed(walker) = n
    BY <1>1, <1>6 DEF Climbed, Moved
  <2>2. pieces = LinePieces(d - 1) \o <<<<Closing(heap.type[p])>>>>
    BY <1>9 DEF Cat, One
  <2>3. QED
    BY <1>5, <2>1, <2>2
<1>13. /\ Walker(walker) /\ walker.code = "Ok" /\ walker.phase # "return"
       /\ Telling(heap, walker)
  BY DEF Walks
<1>14. QED
  BY <1>3, <1>7, <1>8, <1>10, <1>11, <1>12, <1>13, TurnTells

(* What a pass that starts keeps.                                          *)
LEMMA StartKeeps ==
    ASSUME NEW w, Walker(w), NEW item, NEW mode, NEW most,
           NEW s, s = Start(w, item, mode, most)
    PROVE  /\ s.call = w.call /\ s.form = w.form /\ s.buffer = w.buffer
           /\ s.pass = mode /\ s.root = item /\ s.id = item /\ s.depth = 0
           /\ s.phase = "enter" /\ s.code = w.code /\ s.count = w.count
           /\ s.room = most /\ s.out = w.out
<1>1. PICK active, call, form, buffer, last, root, id, depth, phase, code,
           count, left, out :
         /\ w = [active |-> active, call |-> call, form |-> form,
                 buffer |-> buffer, pass |-> last, root |-> root, id |-> id,
                 depth |-> depth, phase |-> phase, code |-> code,
                 count |-> count, room |-> left, out |-> out]
         /\ call = w.call /\ form = w.form /\ buffer = w.buffer
         /\ code = w.code /\ count = w.count /\ out = w.out
  BY DEF Walker
<1>2. s = [active |-> TRUE, call |-> call, form |-> form,
           buffer |-> buffer, pass |-> mode, root |-> item, id |-> item,
           depth |-> 0, phase |-> "enter", code |-> code,
           count |-> count, room |-> most, out |-> out]
  BY <1>1 DEF Start
<1>3. QED
  BY <1>1, <1>2

(* The whole text is left where a pass starts.                             *)
LEMMA WholeIsLeft ==
    ASSUME HeapOK(heap), NEW v, AForm(v.form), v.root \in Live(heap),
           v.id = v.root, v.depth = 0, v.phase = "enter"
    PROVE  LeftOf(heap, v) = TextOf(heap, v) /\ AText(TextOf(heap, v))
<1>1. PICK form, root : form = v.form /\ root = v.root /\ AForm(form)
                        /\ root \in Live(heap)
  OBVIOUS
<1>2. LeftOf(heap, v) = Left(heap, form, root, root, 0, "enter")
      /\ TextOf(heap, v) = Render(heap, root, form)
  BY <1>1 DEF LeftOf, TextOf
<1>3. OnWalk(heap, form, root, root, 0)
  BY <1>1, AtItsRoot DEF OnWalk
<1>4. QED
  BY <1>2, <1>3, LeftTyped

(* Nothing is left where it ends.                                          *)
LEMMA NothingIsLeft ==
    ASSUME Walks, AtRoot
    PROVE  /\ Told(walker, TextOf(heap, walker), <<>>)
           /\ walker.root \in Live(heap)
<1>1. PICK form, root, i, d :
         /\ form = walker.form /\ root = walker.root /\ i = walker.id
         /\ d = walker.depth /\ OnWalk(heap, form, root, i, d)
         /\ i = root /\ walker.phase = "leave"
  BY DEF Walks, AtRoot
<1>2. LeftOf(heap, walker) = <<>>
  BY <1>1, LeftTyped DEF LeftOf
<1>3. Told(walker, TextOf(heap, walker), LeftOf(heap, walker))
  BY DEF Walks, Telling
<1>4. QED
  BY <1>1, <1>2, <1>3 DEF OnWalk, At

(* A pass that is over returns the text, or why it is not written.         *)
LEMMA ReturnTells ==
    ASSUME Walks, AtRoot, NEW code, Return(code),
           LET size == Len(TextOf(heap, walker))
           IN \/ code = "Ok" /\ (walker.pass = "count" => walker.call = "size")
              \/ /\ walker.pass = "count" /\ code = "OutputCapacityExceeded"
                 /\ walker.buffer.size
                       < size + (IF walker.call = "print" THEN 1 ELSE 0)
              \/ /\ walker.pass = "count" /\ code = "InvalidArgument"
                 /\ StoreOverlaps(walker.buffer, walker.buffer.size)
    PROVE  Telling(heap, walker')
<1>1. PICK w, v, t : /\ w = walker /\ v = walker' /\ t = TextOf(heap, w)
                     /\ Walker(w) /\ v = Stop(w, code)
  BY DEF Walks, Return
<1>2. /\ v.call = w.call /\ v.form = w.form /\ v.buffer = w.buffer
      /\ v.pass = w.pass /\ v.root = w.root /\ v.room = w.room
      /\ v.count = w.count /\ v.out = w.out
      /\ v.phase = "return" /\ v.code = code
  BY <1>1, StopKeeps
<1>3. Told(w, t, <<>>) /\ AForm(w.form) /\ Roomy(w)
  BY <1>1, NothingIsLeft DEF Walks, Telling
<1>4. Told(v, t, <<>>)
  BY <1>2, <1>3 DEF Told
<1>5. Roomy(v)
  <2>1. w.pass = "check" => Len(v.out) <= w.room
    BY <1>2, <1>3 DEF Roomy
  <2>2. QED
    BY <1>2, <1>3, <2>1, RoomyMore
<1>6. Done(v, t, <<>>)
  <2>1. StoreOverlaps(w.buffer, w.buffer.size) =>
           \E a \in Addresses : a - w.buffer.at \in 0 .. w.buffer.size - 1
    <3>1. PICK buffer, n : /\ buffer = w.buffer /\ n = w.buffer.size
                           /\ buffer \in [at : Int, size : Nat] /\ n \in Nat
      BY <1>3 DEF Roomy
    <3>2. StoreOverlaps(buffer, n) =>
             \E a \in Addresses : a - buffer.at \in 0 .. n - 1
      BY <3>1, OverlapsIsExact
    <3>3. QED
      BY <3>1, <3>2
  <2>2. \/ code = "Ok" /\ (w.pass = "count" => w.call = "size")
        \/ /\ w.pass = "count" /\ code = "OutputCapacityExceeded"
           /\ w.buffer.size < Len(t) + (IF w.call = "print" THEN 1 ELSE 0)
        \/ /\ w.pass = "count" /\ code = "InvalidArgument"
           /\ StoreOverlaps(w.buffer, w.buffer.size)
    BY <1>1
  <2>3. QED
    BY <1>2, <2>1, <2>2 DEF Done
<1>7. TextOf(heap, v) = t
  BY <1>1, <1>2, WhereIsLeft
<1>8. Telling(heap, v)
  BY <1>2, <1>3, <1>4, <1>5, <1>6, <1>7 DEF Telling
<1>9. QED
  BY <1>1, <1>8

(* A walker is asked for a text in some buffer.                            *)
Typed(w) == w.call \in Calls /\ w.buffer \in [at : Int, size : Nat]

(* A walker may start a pass for a text of so many characters.             *)
Ready(w, size, pass, room) ==
    \/ /\ pass = "count" /\ w.call # "partial" /\ w.count = 0
    \/ /\ pass = "trust" /\ w.call = "whole" /\ w.count = size
       /\ w.count <= w.buffer.size
       /\ ~StoreOverlaps(w.buffer, w.buffer.size)
    \/ /\ pass = "check" /\ w.call = "print" /\ w.count = size
       /\ room = w.count + 1 /\ room <= w.buffer.size
       /\ ~StoreOverlaps(w.buffer, room)
    \/ /\ pass = "check" /\ w.call = "partial" /\ w.count = 0
       /\ room = w.buffer.size /\ ~StoreOverlaps(w.buffer, room)

(* A pass that writes starts with the whole text before it, and room for   *)
(* it.                                                                     *)
LEMMA StartTells ==
    ASSUME HeapOK(heap), NEW w, Walker(w), AForm(w.form), w.out = <<>>,
           w.count \in Nat, Typed(w),
           NEW item \in Live(heap), NEW mode, NEW most \in Nat,
           walker' = Start(w, item, mode, most),
           Ready(w, Len(Render(heap, item, w.form)), mode, most)
    PROVE  Telling(heap, walker')
<1>1. PICK v, t : /\ v = walker' /\ v = Start(w, item, mode, most)
                  /\ t = Render(heap, item, w.form)
  OBVIOUS
<1>2. /\ v.call = w.call /\ v.form = w.form /\ v.buffer = w.buffer
      /\ v.pass = mode /\ v.root = item /\ v.id = item /\ v.depth = 0
      /\ v.phase = "enter" /\ v.code = w.code /\ v.count = w.count
      /\ v.room = most /\ v.out = w.out
  <2>1. Walker(w) /\ v = Start(w, item, mode, most)
    BY <1>1
  <2>2. QED
    BY <2>1, StartKeeps
<1>3. TextOf(heap, v) = t
  BY <1>1, <1>2 DEF TextOf
<1>4. LeftOf(heap, v) = t /\ AText(t)
  BY <1>2, <1>3, WholeIsLeft
<1>5. AText(<<>>) /\ Len(<<>>) = 0 /\ Cat(<<>>, t) = t /\ Len(t) \in Nat
  BY <1>4, CatNothing, CatTyped
<1>6. Told(v, t, t)
  <2>1. mode = "count" => w.count + Len(t) = Len(t)
    BY <1>5 DEF Ready
  <2>2. mode # "count" => w.count = (IF w.call = "partial" THEN 0 ELSE Len(t))
    BY <1>1 DEF Ready
  <2>3. QED
    BY <1>2, <1>4, <1>5, <2>1, <2>2 DEF Told
<1>7. Roomy(v)
  <2>1. Len(w.out) <= most
    BY <1>5
  <2>2. QED
    BY <1>1, <1>2, <2>1 DEF Roomy, Ready, Typed
<1>8. Telling(heap, v)
  BY <1>2, <1>3, <1>4, <1>6, <1>7 DEF Telling
<1>9. QED
  BY <1>1, <1>8

(* The ends of the passes.                                                 *)
LEMMA PassEndTells ==
    ASSUME Walks, PassReturns \/ WriteWhole \/ WritePrint
    PROVE  Telling(heap, walker')
<1>1. AtRoot
  BY DEF PassReturns, WriteWhole, WritePrint
<1>2. PICK w, t : w = walker /\ t = TextOf(heap, w)
  OBVIOUS
<1>3. /\ Told(w, t, <<>>) /\ w.root \in Live(heap) /\ Walker(w)
      /\ AForm(w.form) /\ Roomy(w) /\ HeapOK(heap)
  BY <1>1, <1>2, NothingIsLeft DEF Walks, Telling, OnWalk
<1>4. /\ w.count \in Nat /\ w.call \in Calls /\ AText(t) /\ Len(t) \in Nat
      /\ w.buffer \in [at : Int, size : Nat] /\ w.buffer.size \in Nat
      /\ t = Render(heap, w.root, w.form)
  BY <1>2, <1>3, CatTyped DEF Told, Roomy, TextOf
<1>5. w.pass = "count" => w.out = <<>> /\ w.count = Len(t)
  <2>1. w.pass = "count" => w.out = <<>> /\ w.count + Len(<<>>) = Len(t)
    BY <1>3 DEF Told
  <2>2. w.count + Len(<<>>) = w.count
    BY <1>4, CatNothing
  <2>3. QED
    BY <2>1, <2>2
<1>6. CASE PassReturns
  <2>1. Return("Ok") /\ (walker.pass = "count" => walker.call = "size")
    BY <1>6 DEF PassReturns
  <2>2. QED
    BY <1>1, <2>1, ReturnTells
<1>7. CASE WriteWhole
  <2>1. /\ w.pass = "count" /\ w.call = "whole"
        /\ \/ /\ WholeError(w.count, w.buffer) # "Ok"
              /\ Return(WholeError(w.count, w.buffer))
           \/ /\ WholeError(w.count, w.buffer) = "Ok"
              /\ walker' = Start(w, w.root, "trust", w.buffer.size)
    BY <1>2, <1>7 DEF WriteWhole
  <2>2. CASE WholeError(w.count, w.buffer) = "Ok"
    <3>1. /\ w.count <= w.buffer.size
          /\ ~StoreOverlaps(w.buffer, w.buffer.size)
      BY <1>4, <2>2 DEF WholeError
    <3>2. walker' = Start(w, w.root, "trust", w.buffer.size)
      BY <2>1, <2>2
    <3>3. PICK item, pass, room :
             item = w.root /\ pass = "trust" /\ room = w.buffer.size
      OBVIOUS
    <3>4. /\ item \in Live(heap) /\ room \in Nat /\ w.out = <<>>
          /\ walker' = Start(w, item, pass, room)
          /\ pass = "trust" /\ w.call = "whole"
          /\ w.count = Len(Render(heap, item, w.form))
      BY <1>3, <1>4, <1>5, <2>1, <3>2, <3>3
    <3>5. QED
      BY <1>3, <1>4, <3>1, <3>4, StartTells DEF Ready, Typed
  <2>3. CASE WholeError(w.count, w.buffer) # "Ok"
    <3>1. PICK code : /\ code = WholeError(w.count, w.buffer) /\ code # "Ok"
                      /\ Return(code)
      BY <2>1, <2>3
    <3>2. \/ /\ code = "OutputCapacityExceeded" /\ w.buffer.size < w.count
          \/ /\ code = "InvalidArgument"
             /\ StoreOverlaps(w.buffer, w.buffer.size)
      BY <1>4, <3>1 DEF WholeError
    <3>3. w.buffer.size < w.count =>
             w.buffer.size < Len(t) + (IF w.call = "print" THEN 1 ELSE 0)
      BY <1>4, <1>5, <2>1
    <3>4. QED
      BY <1>1, <1>2, <2>1, <3>1, <3>2, <3>3, ReturnTells
  <2>4. QED
    BY <2>2, <2>3
<1>8. CASE WritePrint
  <2>1. /\ w.pass = "count" /\ w.call = "print"
        /\ \/ /\ PrintError(w.count, w.buffer) # "Ok"
              /\ Return(PrintError(w.count, w.buffer))
           \/ /\ PrintError(w.count, w.buffer) = "Ok"
              /\ walker' = Start(w, w.root, "check", w.count + 1)
    BY <1>2, <1>8 DEF WritePrint
  <2>2. CASE PrintError(w.count, w.buffer) = "Ok"
    <3>1. /\ w.count + 1 <= w.buffer.size
          /\ ~StoreOverlaps(w.buffer, w.count + 1)
      BY <1>4, <2>2 DEF PrintError
    <3>2. walker' = Start(w, w.root, "check", w.count + 1)
      BY <2>1, <2>2
    <3>3. PICK item, pass, room :
             item = w.root /\ pass = "check" /\ room = w.count + 1
      OBVIOUS
    <3>4. room \in Nat
      BY <1>4, <3>3
    <3>5. /\ item \in Live(heap) /\ w.out = <<>>
          /\ walker' = Start(w, item, pass, room)
          /\ pass = "check" /\ w.call = "print" /\ room = w.count + 1
          /\ room <= w.buffer.size /\ ~StoreOverlaps(w.buffer, room)
          /\ w.count = Len(Render(heap, item, w.form))
      BY <1>3, <1>4, <1>5, <2>1, <3>1, <3>2, <3>3
    <3>6. QED
      BY <1>3, <1>4, <3>4, <3>5, StartTells DEF Ready, Typed
  <2>3. CASE PrintError(w.count, w.buffer) # "Ok"
    <3>1. PICK code : /\ code = PrintError(w.count, w.buffer) /\ code # "Ok"
                      /\ Return(code)
      BY <2>1, <2>3
    <3>2. \/ /\ code = "OutputCapacityExceeded" /\ w.buffer.size <= w.count
          \/ /\ code = "InvalidArgument" /\ w.count + 1 <= w.buffer.size
             /\ StoreOverlaps(w.buffer, w.count + 1)
      BY <1>4, <3>1 DEF PrintError
    <3>3. w.buffer.size <= w.count =>
             w.buffer.size < Len(t) + (IF w.call = "print" THEN 1 ELSE 0)
      BY <1>4, <1>5, <2>1
    <3>4. w.count + 1 <= w.buffer.size /\ StoreOverlaps(w.buffer, w.count + 1)
             => StoreOverlaps(w.buffer, w.buffer.size)
      <4>1. PICK at \in Int, size \in Nat, n \in Nat :
               at = w.buffer.at /\ size = w.buffer.size /\ n = w.count + 1
        BY <1>4
      <4>2. n <= size /\ Overlaps(at, n, 0, Capacity)
               => Overlaps(at, size, 0, Capacity)
        BY SizesAssumption DEF Overlaps
      <4>3. QED
        BY <4>1, <4>2 DEF StoreOverlaps
    <3>5. QED
      BY <1>1, <1>2, <2>1, <3>1, <3>2, <3>3, <3>4, ReturnTells
  <2>4. QED
    BY <2>2, <2>3
<1>9. QED
  BY <1>6, <1>7, <1>8

(* Every turn of the walk, and every end of a pass, keeps what is told.    *)
LEMMA SerializeStepTells ==
    ASSUME SerializerInv, TextInv, SerializeStep
    PROVE  TextInv'
<1>1. walker.active /\ heap' = heap
  BY DEF SerializeStep
<1>2. StringsInv'
  <2>1. StringsInv
    BY DEF TextInv
  <2>2. QED
    BY <1>1, <2>1 DEF StringsInv, StringsOK, StringsDisjoint, TextsOK, KeysOK,
                      KeysAtHome
<1>3. CASE SerializeReturn
  <2>1. walker' = Away /\ ~Away.active
    BY <1>3 DEF SerializeReturn, Away
  <2>2. QED
    BY <1>2, <2>1 DEF TextInv
<1>4. CASE /\ walker.phase # "return"
           /\ walker'.active /\ Telling(heap, walker')
  <2>1. Telling(heap', walker')
    BY <1>1, <1>4
  <2>2. QED
    BY <1>2, <1>4, <2>1 DEF TextInv
<1>5. CASE WriteLeaf \/ WriteEmpty
  <2>1. walker.phase # "return"
    BY <1>5 DEF WriteLeaf, WriteEmpty
  <2>2. Walks
    BY <1>1, <2>1, WalksAndTells
  <2>3. Telling(heap, walker') /\ walker'.active
    BY <1>1, <1>5, <2>2, WriteLeafTells, WriteLeafStep DEF WalkStep
  <2>4. QED
    BY <1>4, <2>1, <2>3
<1>6. CASE WriteFirstChild
  <2>1. walker.phase # "return"
    BY <1>6 DEF WriteFirstChild
  <2>2. Walks
    BY <1>1, <2>1, WalksAndTells
  <2>3. Telling(heap, walker') /\ walker'.active
    BY <1>1, <1>6, <2>2, WriteFirstChildTells, WriteFirstChildStep DEF WalkStep
  <2>4. QED
    BY <1>4, <2>1, <2>3
<1>7. CASE WriteNextSibling
  <2>1. walker.phase # "return"
    BY <1>7 DEF WriteNextSibling
  <2>2. Walks
    BY <1>1, <2>1, WalksAndTells
  <2>3. Telling(heap, walker') /\ walker'.active
    BY <1>1, <1>7, <2>2, WriteNextSiblingTells, WriteNextSiblingStep
       DEF WalkStep
  <2>4. QED
    BY <1>4, <2>1, <2>3
<1>8. CASE WriteEnd
  <2>1. walker.phase # "return"
    BY <1>8 DEF WriteEnd
  <2>2. Walks
    BY <1>1, <2>1, WalksAndTells
  <2>3. Telling(heap, walker') /\ walker'.active
    BY <1>1, <1>8, <2>2, WriteEndTells, WriteEndStep DEF WalkStep
  <2>4. QED
    BY <1>4, <2>1, <2>3
<1>9. CASE PassReturns \/ WriteWhole \/ WritePrint
  <2>1. walker.phase # "return"
    BY <1>9 DEF PassReturns, WriteWhole, WritePrint, AtRoot
  <2>2. Walks
    BY <1>1, <2>1, WalksAndTells
  <2>3. Telling(heap, walker') /\ walker'.active
    BY <1>1, <1>9, <2>2, PassEndTells, PassEndStep DEF WalkStep
  <2>4. QED
    BY <1>4, <2>1, <2>3
<1>10. QED
  BY <1>3, <1>5, <1>6, <1>7, <1>8, <1>9 DEF SerializeStep

(* The walker that is asked for a text, before it starts.                  *)
LEMMA AskedIs ==
    ASSUME NEW w, Walker(w), NEW c, NEW f, NEW b, NEW s, s = Asked(w, c, f, b)
    PROVE  /\ Walker(s) /\ s.call = c /\ s.form = f /\ s.buffer = b
           /\ s.count = w.count /\ s.out = w.out
<1> DEFINE u == [w EXCEPT !.call = c]
           v == [u EXCEPT !.form = f]
<1>1. /\ Walker(u) /\ u.call = c /\ u.count = w.count /\ u.out = w.out
  BY DEF Walker
<1>2. s = [v EXCEPT !.buffer = b]
  BY DEF Asked
<1> HIDE DEF u
<1>3. /\ Walker(v) /\ v.call = c /\ v.form = f
      /\ v.count = u.count /\ v.out = u.out
  BY <1>1 DEF Walker
<1> HIDE DEF v
<1>4. /\ Walker(s) /\ s.call = v.call /\ s.form = v.form /\ s.buffer = b
      /\ s.count = v.count /\ s.out = v.out
  BY <1>2, <1>3 DEF Walker
<1>5. QED
  BY <1>1, <1>3, <1>4

(* A call that begins has the whole text before it.                        *)
LEMMA SerializeTells ==
    ASSUME SerializerInv, TextInv, NEW call \in Calls, NEW item, item.id \in Nat,
           NEW form, AForm(form),
           NEW buffer, buffer \in [at : Int, size : Nat],
           Serialize(call, item, form, buffer)
    PROVE  TextInv'
<1> DEFINE refused == IF /\ call = "partial" /\ item.slab # "none"
                         /\ StoreOverlaps(buffer, buffer.size)
                      THEN "InvalidArgument"
                      ELSE IF ~Accepted(item) THEN "InvalidHandle"
                      ELSE "Ok"
           asked == [Away EXCEPT !.call = call, !.form = form,
                                 !.buffer = buffer]
<1>1. /\ ~walker.active /\ heap' = heap
      /\ \/ UNCHANGED walker
         \/ /\ refused = "Ok"
            /\ walker' = IF call = "partial"
                         THEN Start(asked, item.id, "check", buffer.size)
                         ELSE Start(asked, item.id, "count", 0)
  BY DEF Serialize
<1>2. refused = "Ok" => /\ Accepted(item)
                        /\ \/ call # "partial" \/ item.slab = "none"
                           \/ ~StoreOverlaps(buffer, buffer.size)
  OBVIOUS
<1> HIDE DEF refused
<1>3. StringsInv'
  <2>1. StringsInv
    BY DEF TextInv
  <2>2. QED
    BY <1>1, <2>1 DEF StringsInv, StringsOK, StringsDisjoint, TextsOK, KeysOK,
                      KeysAtHome
<1>4. CASE UNCHANGED walker
  BY <1>1, <1>3, <1>4 DEF TextInv
<1>5. CASE /\ refused = "Ok"
           /\ walker' = IF call = "partial"
                        THEN Start(asked, item.id, "check", buffer.size)
                        ELSE Start(asked, item.id, "count", 0)
  <2>1. /\ HeapOK(heap) /\ item.id \in Live(heap)
        /\ call = "partial" => ~StoreOverlaps(buffer, buffer.size)
    <3>1. Accepted(item) /\ IInv
      BY <1>2, <1>5 DEF SerializerInv
    <3>2. HeapOK(heap) /\ item.id \in Live(heap)
      <4>1. HeapOK(heap) /\ item.id < heap.count
        BY <3>1, IInvHeap DEF Accepted, NodeFor
      <4>2. NodeBytes(heap.count) <= Capacity /\ heap \in Heaps
        BY <4>1, Counters, SizesAssumption DEF HeapOK, LayoutOK, NodeBytes,
                                               Heaps
      <4>3. QED
        BY <4>1, <4>2, LiveIsPrefix
    <3>3. item.slab = "this"
      BY <3>1 DEF Accepted, NodeFor
    <3>4. QED
      BY <1>2, <1>5, <3>2, <3>3
  <2>2. /\ Walker(asked) /\ asked.call = call /\ asked.form = form
        /\ asked.buffer = buffer /\ asked.count = 0 /\ asked.out = <<>>
    <3>1. PICK w, s, c, f, b :
             /\ w = Away /\ s = asked /\ s = Asked(w, c, f, b)
             /\ c = call /\ f = form /\ b = buffer
             /\ Walker(w) /\ w.count = 0 /\ w.out = <<>>
      <4>1. Walker(Away) /\ Away.count = 0 /\ Away.out = <<>>
        BY DEF Walker, Away
      <4>2. asked = Asked(Away, call, form, buffer)
        BY DEF Asked
      <4> HIDE DEF asked
      <4>3. QED
        BY <4>1, <4>2
    <3>2. Walker(w) /\ s = Asked(w, c, f, b)
      BY <3>1
    <3>3. /\ Walker(s) /\ s.call = c /\ s.form = f /\ s.buffer = b
          /\ s.count = w.count /\ s.out = w.out
      BY <3>2, AskedIs
    <3> HIDE DEF asked
    <3>4. QED
      BY <3>1, <3>3
  <2> HIDE DEF asked
  <2>3. PICK w, i, mode, most :
           /\ w = asked /\ i = item.id
           /\ mode = (IF call = "partial" THEN "check" ELSE "count")
           /\ most = (IF call = "partial" THEN buffer.size ELSE 0)
           /\ walker' = Start(w, i, mode, most)
    BY <1>5
  <2>4. /\ Walker(w) /\ AForm(w.form) /\ w.out = <<>> /\ w.count \in Nat
        /\ w.count = 0 /\ w.call = call /\ w.buffer = buffer
        /\ i \in Live(heap) /\ most \in Nat
    BY <2>1, <2>2, <2>3
  <2>5. Typed(w)
    BY <2>4 DEF Typed
  <2>6. Ready(w, Len(Render(heap, i, w.form)), mode, most)
    BY <2>1, <2>3, <2>4 DEF Ready
  <2>7. walker' = Start(w, i, mode, most)
    BY <2>3
  <2>8. Telling(heap, walker')
    BY <2>1, <2>4, <2>5, <2>6, <2>7, StartTells
  <2>9. walker'.active
    <3>1. PICK s : s = Start(w, i, mode, most)
      OBVIOUS
    <3>2. s.active
      BY <2>3, <2>4, <3>1, StartShape
    <3>3. QED
      BY <2>7, <3>1, <3>2
  <2>10. Telling(heap', walker')
    BY <1>1, <2>8
  <2>11. QED
    BY <1>3, <2>9, <2>10 DEF TextInv
<1>6. QED
  BY <1>1, <1>4, <1>5

(* What is told is the text from the start ...                             *)
LEMMA TextInvInit == SerializerInit => TextInv
<1>1. ~Away.active
  BY DEF Away
<1>2. QED
  BY <1>1, StringsInvInit DEF SerializerInit, TextInv

(* ... and every step keeps it so.                                         *)
LEMMA TextInvSafe ==
    ASSUME SerializerInv, TextInv, [SerializerNext]_serializerVars
    PROVE  TextInv'
<1>1. CASE UNCHANGED serializerVars
  BY <1>1 DEF serializerVars, TextInv, StringsInv, StringsOK, StringsDisjoint,
              TextsOK, KeysOK, KeysAtHome
<1>2. CASE Client
  <2>1. StringsInv'
    BY <1>2, StringsInvSafe DEF Client, SerializerInv, TextInv
  <2>2. walker' = walker /\ ~walker.active
    BY <1>2 DEF Client
  <2>3. QED
    BY <2>1, <2>2 DEF TextInv
<1>3. \A item \in Held \cup {NullValue} : item.id \in Nat
  BY HeldTyped DEF SerializerInv, IInv, Values
<1>4. /\ \A form \in Forms : AForm(form)
      /\ \A buffer \in Buffers : buffer \in [at : Int, size : Nat]
      /\ NoBuffer \in [at : Int, size : Nat]
  BY SerializerAssumption DEF AForm, NoBuffer
<1>5. CASE \E call \in Calls, item \in Held \cup {NullValue}, form \in Forms,
              buffer \in Buffers \cup {NoBuffer} :
                 Serialize(call, item, form, buffer)
  BY <1>3, <1>4, <1>5, SerializeTells
<1>6. CASE SerializeStep
  BY <1>6, SerializeStepTells
<1>7. "size" \in Calls
  BY DEF Calls
<1>8. QED
  BY <1>1, <1>2, <1>5, <1>6, <1>7 DEF SerializerNext

(* The tree, the walk and the text told of it, in every state.             *)
LEMMA TextInvHolds == SerializerSpec => [](SerializerInv /\ TextInv)
<1>1. SerializerInit => SerializerInv /\ TextInv
  BY SerializerInvInit, TextInvInit
<1>2. SerializerInv /\ TextInv /\ [SerializerNext]_serializerVars
         => (SerializerInv /\ TextInv)'
  BY SerializerInvSafe, TextInvSafe
<1>3. QED
  BY <1>1, <1>2, PTL DEF SerializerSpec

(* A walker that is under way has told some of the text, and has room.     *)
LEMMA WalkerTells ==
    ASSUME TextInv, walker.active
    PROVE  /\ \E rest : Told(walker, Text, rest)
           /\ Roomy(walker)
BY DEF TextInv, Telling, TextOf, Text

(* serialize(), serialize_partial() and the print functions of the cJSON   *)
(* layer write within the buffer they are given, the terminator included,  *)
(* and no byte of the slab, the writer without checks no less than the     *)
(* one that makes them.                                                    *)
THEOREM WritesStayInBuffer == SerializerSpec => []WritesInBuffer
<1>1. SerializerInv /\ TextInv => WritesInBuffer
  <2>1. ASSUME TextInv, ~walker.active
        PROVE  WritesInBuffer
    <3>1. End = 0
      <4>1. walker = Away
        BY <2>1 DEF TextInv
      <4>2. Len(Away.out) = 0 /\ Away.call = "size"
        BY DEF Away
      <4>3. Len(walker.out) = 0 /\ walker.call = "size"
        BY <4>1, <4>2, Zenon
      <4>4. QED
        BY <4>3 DEF End
    <3>2. QED
      BY <3>1 DEF WritesInBuffer
  <2>2. ASSUME SerializerInv, TextInv, walker.active
        PROVE  WritesInBuffer
    <3>1. PICK w, t, rest : /\ w = walker /\ Told(w, t, rest) /\ Roomy(w)
      BY <2>2, WalkerTells
    <3>2. /\ AText(w.out) /\ AText(rest) /\ AText(t) /\ w.count \in Nat
          /\ w.room \in Nat
          /\ w.buffer.size \in Nat /\ w.buffer \in [at : Int, size : Nat]
      BY <3>1 DEF Told, Roomy
    <3>3. PICK out, size, room, count :
             /\ out \in Nat /\ size \in Nat /\ room \in Nat /\ count \in Nat
             /\ out = Len(w.out) /\ size = w.buffer.size /\ room = w.room
             /\ count = w.count
      BY <3>2, CatTyped
    <3>4. PICK end : end = out + (IF w.call = "print" /\ w.pass = "check"
                                  THEN 1 ELSE 0)
      OBVIOUS
    <3>5. end \in Nat /\ end = End
      <4>1. End = Len(w.out) + (IF w.call = "print" /\ w.pass = "check"
                                THEN 1 ELSE 0)
        BY <3>1, Zenon DEF End
      <4>2. end = End
        BY <3>3, <3>4, <4>1
      <4>3. end = out \/ end = out + 1
        <5>1. out + 0 = out
          BY <3>3
        <5>2. end = out + 0 \/ end = out + 1
          BY <3>4, Zenon
        <5>3. QED
          BY <5>1, <5>2
      <4>4. end \in Nat
        BY <3>3, <4>3
      <4>5. QED
        BY <4>2, <4>4
    <3>6. w.pass # "count" => Cat(w.out, rest) = t
                              /\ w.count = (IF w.call = "partial" THEN 0
                                            ELSE Len(t))
      BY <3>1 DEF Told
    <3>7. w.pass # "count" /\ w.call # "partial" => out <= count
      <4>1. w.pass # "count" => Len(t) = Len(w.out) + Len(rest)
                                /\ Len(rest) \in Nat
        BY <3>2, <3>6, CatTyped
      <4>2. QED
        BY <3>3, <3>6, <4>1
    <3>8. PICK buffer : buffer = w.buffer /\ buffer \in [at : Int, size : Nat]
      BY <3>2
    <3>9. CASE end = 0
      BY <3>1, <3>5, <3>9 DEF WritesInBuffer
    <3>10. ASSUME NEW n \in Nat, end <= n, n <= size, ~StoreOverlaps(buffer, n)
           PROVE  WritesInBuffer
      <4>1. \A k \in 0 .. n - 1 : buffer.at + k \notin Addresses
        BY <3>8, <3>10, OverlapsIsExact
      <4>2. \A k \in 0 .. end - 1 : k \in 0 .. n - 1
        BY <3>5, <3>10
      <4>3. end <= size
        BY <3>3, <3>5, <3>10
      <4>4. QED
        BY <3>1, <3>3, <3>5, <3>8, <4>1, <4>2, <4>3 DEF WritesInBuffer
    <3>11. CASE w.pass = "trust"
      <4>1. w.call = "whole" /\ count <= size /\ ~StoreOverlaps(buffer, size)
        BY <3>1, <3>3, <3>8, <3>11 DEF Roomy
      <4>2. end <= size
        BY <3>3, <3>4, <3>7, <3>11, <4>1
      <4>3. QED
        BY <3>3, <3>10, <4>1, <4>2
    <3>12. CASE w.pass = "check"
      <4>1. /\ out <= room /\ ~StoreOverlaps(buffer, room)
            /\ \/ w.call = "partial" /\ room = size
               \/ w.call = "print" /\ room = count + 1 /\ room <= size
        BY <3>1, <3>3, <3>8, <3>12 DEF Roomy
      <4>2. room <= size
        BY <3>3, <4>1
      <4>3. CASE w.call = "partial"
        BY <3>3, <3>4, <3>10, <4>1, <4>2, <4>3
      <4>4. CASE w.call = "print" /\ room = count + 1
        <5>1. out <= count
          BY <3>7, <3>12, <4>4
        <5>2. end = out + 1
          BY <3>4, <3>12, <4>4
        <5>3. QED
          BY <3>3, <3>10, <4>1, <4>2, <4>4, <5>1, <5>2
      <4>5. QED
        BY <4>1, <4>3, <4>4
    <3>13. CASE w.pass = "count"
      <4>1. w.out = <<>>
        BY <3>1, <3>13 DEF Told
      <4>2. end = 0
        BY <3>3, <3>4, <3>13, <4>1
      <4>3. QED
        BY <3>9, <4>2
    <3>14. w.pass \in {"count", "check", "trust"}
      BY <2>2, <3>1 DEF SerializerInv, Walker
    <3>15. QED
      BY <3>11, <3>12, <3>13, <3>14
  <2>3. QED
    BY <2>1, <2>2
<1>2. QED
  BY <1>1, TextInvHolds, PTL

(* What is put before some text is how the whole begins.                   *)
LEMMA BeginsWith ==
    ASSUME NEW a, NEW b, AText(a), AText(b)
    PROVE  Seqs!IsPrefix(a, Cat(a, b)) /\ Len(a) <= Len(Cat(a, b))
<1>1. /\ a \in Seq(Chars) /\ b \in Seq(Chars)
      /\ Len(a) \in Nat /\ Len(b) \in Nat /\ Len(a) <= Len(Cat(a, b))
  BY CatTyped DEF AText
<1>2. SubSeq(a, 1, Len(a)) = SubSeq(a \o b, 1, Len(a))
  <2>1. CASE Len(a) = 0
    BY <1>1, <2>1, SubSeqEmpty
  <2>2. CASE Len(a) # 0
    <3>1. 1 \in 1 .. Len(a) /\ Len(a) \in 1 .. Len(a)
      BY <1>1, <2>2
    <3>2. SubSeq(a \o b, 1, Len(a)) = SubSeq(a, 1, Len(a))
      BY <1>1, <3>1, SubSeqOfConcat1
    <3>3. QED
      BY <3>2
  <2>3. QED
    BY <2>1, <2>2
<1>3. QED
  BY <1>1, <1>2, Zenon DEF Seqs!IsPrefix, Cat

(* In the middle of a walk too, what is written is how the text of the     *)
(* document begins, and no more is counted than it has: the walk without a *)
(* stack goes to every node once, in the order of the text.                *)
THEOREM WritesTheText == SerializerSpec => []TextSoFar
<1>1. ASSUME TextInv, walker.active
      PROVE  Seqs!IsPrefix(walker.out, Text) /\ walker.count <= Len(Text)
  <2>1. PICK w, t, rest : w = walker /\ t = Text /\ Told(w, t, rest)
    BY <1>1, WalkerTells
  <2>2. /\ AText(w.out) /\ AText(rest) /\ AText(t) /\ w.count \in Nat
        /\ Len(t) \in Nat /\ Len(rest) \in Nat
    BY <2>1, CatTyped DEF Told
  <2>3. CASE w.pass = "count"
    <3>1. w.out = <<>> /\ w.count + Len(rest) = Len(t)
      BY <2>1, <2>3 DEF Told
    <3>2. w.count <= Len(t)
      BY <2>2, <3>1
    <3>3. Cat(w.out, t) = t
      BY <2>2, <3>1, CatNothing
    <3>4. Seqs!IsPrefix(w.out, t)
      BY <2>2, <3>3, BeginsWith
    <3>5. QED
      BY <2>1, <3>2, <3>4
  <2>4. CASE w.pass # "count"
    <3>1. Cat(w.out, rest) = t
      BY <2>1, <2>4 DEF Told
    <3>2. w.count = 0 \/ w.count = Len(t)
      BY <2>1, <2>4 DEF Told
    <3>3. w.count <= Len(t)
      BY <2>2, <3>2
    <3>4. Seqs!IsPrefix(w.out, t)
      BY <2>2, <3>1, BeginsWith
    <3>5. QED
      BY <2>1, <3>3, <3>4
  <2>5. QED
    BY <2>3, <2>4
<1>2. TextInv => TextSoFar
  BY <1>1 DEF TextSoFar
<1>3. QED
  BY <1>2, TextInvHolds, PTL

(* A walker is put away only when its walk has returned, with the whole    *)
(* text told, or with the reason why it is not.                            *)
LEMMA ReturnsWhenDone ==
    ASSUME SerializerInv, TextInv, SerializerNext, Returns
    PROVE  \E rest : Told(walker, Text, rest) /\ Done(walker, Text, rest)
<1>1. walker.active /\ ~walker'.active
  BY DEF Returns
<1>2. SerializeStep
  BY <1>1 DEF SerializerNext, Client, Serialize
<1>3. walker.phase = "return"
  <2>1. ~WalkStep
    BY <1>1 DEF WalkStep
  <2>2. SerializeReturn
    BY <1>1, <1>2, <2>1, WriteLeafStep, WriteFirstChildStep,
       WriteNextSiblingStep, WriteEndStep, PassEndStep DEF SerializeStep
  <2>3. QED
    BY <2>2 DEF SerializeReturn
<1>4. QED
  BY <1>1, <1>3 DEF TextInv, Telling, TextOf, Text

(* What a call has to show for it when it returns.                         *)
LEMMA WhatIsDone ==
    ASSUME NEW w, NEW t, NEW rest, Told(w, t, rest), Done(w, t, rest)
    PROVE  /\ w.code = "Ok" => /\ w.call # "partial" => w.count = Len(t)
                               /\ w.call # "size" \/ w.pass # "count"
                                     => w.out = t
           /\ w.code # "Ok" => w.call = "partial" \/ w.out = <<>>
           /\ w.code # "Ok" =>
                 \/ /\ w.code = "OutputCapacityExceeded"
                    /\ w.buffer.size
                          < Len(t) + (IF w.call = "print" THEN 1 ELSE 0)
                 \/ /\ w.code = "InvalidArgument"
                    /\ \E a \in Addresses :
                          a - w.buffer.at \in 0 .. w.buffer.size - 1
<1>1. AText(w.out) /\ AText(t) /\ w.count \in Nat /\ Len(t) \in Nat
  BY CatTyped DEF Told
<1>2. w.code # "Ok" => w.call = "partial" \/ w.out = <<>>
  BY DEF Told, Done
<1>3. w.code # "Ok" =>
         \/ /\ w.code = "OutputCapacityExceeded"
            /\ w.buffer.size < Len(t) + (IF w.call = "print" THEN 1 ELSE 0)
         \/ /\ w.code = "InvalidArgument"
            /\ \E a \in Addresses : a - w.buffer.at \in 0 .. w.buffer.size - 1
  BY Zenon DEF Done
<1>4. ASSUME w.code = "Ok"
      PROVE  /\ w.call # "partial" => w.count = Len(t)
             /\ w.call # "size" \/ w.pass # "count" => w.out = t
  <2>1. rest = <<>> /\ (w.pass = "count" => w.call = "size")
    BY <1>4 DEF Done
  <2>2. CASE w.pass = "count"
    <3>1. w.count + Len(rest) = Len(t) /\ Len(rest) = 0
      BY <2>1, <2>2, CatNothing DEF Told
    <3>2. w.count = Len(t)
      BY <1>1, <3>1
    <3>3. QED
      BY <2>1, <2>2, <3>2
  <2>3. CASE w.pass # "count"
    <3>1. Cat(w.out, rest) = t
      BY <2>3 DEF Told
    <3>2. w.out = t
      BY <1>1, <2>1, <3>1, CatNothing
    <3>3. w.call # "partial" => w.count = Len(t)
      BY <2>3 DEF Told
    <3>4. QED
      BY <3>2, <3>3
  <2>4. QED
    BY <2>2, <2>3
<1>5. QED
  BY <1>2, <1>3, <1>4

(* A call that succeeds has counted or written the text of the document,   *)
(* whole and nothing else; one that fails had too small a buffer, or one   *)
(* that shares bytes with the slab.                                        *)
THEOREM SuccessIsTheText == SerializerSpec => OutputIsText
<1> DEFINE Returned ==
        IF walker.code = "Ok"
        THEN /\ walker.call # "partial" => walker.count = Len(Text)
             /\ walker.call # "size" => walker.out = Text
        ELSE \/ /\ walker.code = "OutputCapacityExceeded"
                /\ walker.buffer.size < Len(Text)
                      + (IF walker.call = "print" THEN 1 ELSE 0)
             \/ /\ walker.code = "InvalidArgument"
                /\ \E a \in Addresses :
                      a - walker.buffer.at \in 0 .. walker.buffer.size - 1
<1>1. ASSUME SerializerInv, TextInv, SerializerNext, Returns
      PROVE  Returned
  <2>1. PICK w, t, rest : /\ w = walker /\ t = Text
                          /\ Told(w, t, rest) /\ Done(w, t, rest)
    BY <1>1, ReturnsWhenDone
  <2>2. /\ w.code = "Ok" => /\ w.call # "partial" => w.count = Len(t)
                            /\ w.call # "size" \/ w.pass # "count"
                                  => w.out = t
        /\ w.code # "Ok" =>
              \/ /\ w.code = "OutputCapacityExceeded"
                 /\ w.buffer.size
                       < Len(t) + (IF w.call = "print" THEN 1 ELSE 0)
              \/ /\ w.code = "InvalidArgument"
                 /\ \E a \in Addresses :
                       a - w.buffer.at \in 0 .. w.buffer.size - 1
    BY <2>1, WhatIsDone
  <2>3. QED
    BY <2>1, <2>2, Zenon
<1>2. SerializerInv /\ TextInv /\ [SerializerNext]_serializerVars
         => [Returns => Returned]_serializerVars
  BY <1>1
<1>3. QED
  BY <1>2, TextInvHolds, PTL DEF SerializerSpec, OutputIsText

(* README.md:159: serialize() "is transactional", and so are the print     *)
(* functions: one that fails has written nothing.                          *)
THEOREM FailureWritesNothing == SerializerSpec => WholeOrNothing
<1>1. ASSUME SerializerInv, TextInv, SerializerNext, Returns,
             walker.code # "Ok"
      PROVE  walker.call = "partial" \/ walker.out = <<>>
  <2>1. PICK w, t, rest : w = walker /\ Told(w, t, rest) /\ Done(w, t, rest)
    BY <1>1, ReturnsWhenDone
  <2>2. w.code # "Ok" => w.call = "partial" \/ w.out = <<>>
    BY <2>1, WhatIsDone
  <2>3. QED
    BY <1>1, <2>1, <2>2
<1>2. SerializerInv /\ TextInv /\ [SerializerNext]_serializerVars
         => [Returns /\ walker.code # "Ok" =>
                walker.call = "partial" \/ walker.out = <<>>]_serializerVars
  BY <1>1
<1>3. QED
  BY <1>2, TextInvHolds, PTL DEF SerializerSpec, WholeOrNothing
=============================================================================

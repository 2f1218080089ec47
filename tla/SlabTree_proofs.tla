--------------------------- MODULE SlabTree_proofs ---------------------------
(***************************************************************************)
(* Lemmas about the operators of SlabHeap and SlabTree.  The first part:   *)
(* every one that changes a heap keeps it well-formed.  The second part:   *)
(* what one operation does beyond that, to the stored bytes, the           *)
(* references that lead to them and the flags that describe them, to the   *)
(* keys, and to the order of children.  Grown, Attached, TakenOut and      *)
(* Extends say it without the operators.                                   *)
(***************************************************************************)
EXTENDS SlabTree, TLAPS

(* What every operation preserves.                                         *)
HeapOK(h) == h \in Heaps /\ LayoutOK(h) /\ ForestOK(h)

-----------------------------------------------------------------------------
(* Sizes and ids.                                                          *)

(* Nil is the id of no node: kInvalidNodeId is never handed out.           *)
LEMMA IdsBelowNil ==
    /\ Ids \subseteq Nat
    /\ \A i \in Ids : i < Capacity /\ i < U16Max
    /\ Nil \in Nat /\ Nil \notin Ids
    /\ U16Max \in Nat /\ Capacity \in Nat /\ NodeSize \in Nat /\ NodeSize >= 1
BY SizesAssumption DEF Ids, Addresses, Nil

(* A node slot that fits in the storage is an id.                          *)
LEMMA FittingIsId ==
    ASSUME NEW n \in Nat, NodeBytes(n + 1) <= Capacity
    PROVE  n \in Ids
<1>1. n + 1 <= (n + 1) * NodeSize
  BY SizesAssumption
<1>2. n < Capacity
  BY <1>1, SizesAssumption DEF NodeBytes
<1>3. QED
  BY <1>2, SizesAssumption DEF Ids, Addresses, NodeBytes

(* Every id below node_count_ has a slot.                                  *)
LEMMA LiveIsPrefix ==
    ASSUME NEW h \in Heaps, NodeBytes(h.count) <= Capacity
    PROVE  \A i \in Nat : i < h.count => i \in Live(h)
<1> SUFFICES ASSUME NEW i \in Nat, i < h.count PROVE i \in Live(h)
  OBVIOUS
<1>1. h.count \in Nat
  BY DEF Heaps
<1>2. (i + 1) * NodeSize <= h.count * NodeSize
  BY <1>1, SizesAssumption
<1>3. i \in Ids
  BY <1>1, <1>2, FittingIsId, SizesAssumption DEF NodeBytes
<1>4. QED
  BY <1>3 DEF Live

-----------------------------------------------------------------------------
(* Walks.                                                                  *)

(* A walk visits node slots only.                                          *)
LEMMA ReachIds ==
    ASSUME NEW link, NEW start PROVE Reach(link, start) \subseteq Ids
BY DEF Reach

(* A walk visits its start.                                                *)
LEMMA ReachStart ==
    ASSUME NEW link, NEW start \in Ids PROVE start \in Reach(link, start)
BY DEF Reach

(* A walk goes on until the link is Nil.                                   *)
LEMMA ReachStep ==
    ASSUME NEW link, NEW start, NEW x \in Reach(link, start), link[x] \in Ids
    PROVE  link[x] \in Reach(link, start)
BY DEF Reach

(* A walk visits nothing but what it has to.                               *)
LEMMA ReachLeast ==
    ASSUME NEW link, NEW start, NEW S \in SUBSET Ids,
           start \in Ids => start \in S,
           \A y \in S : link[y] \in Ids => link[y] \in S
    PROVE  Reach(link, start) \subseteq S
BY DEF Reach

(* A walk that starts at no node visits none.                              *)
LEMMA ReachNil ==
    ASSUME NEW link, NEW start, start \notin Ids
    PROVE  Reach(link, start) = {}
<1>1. Reach(link, start) \subseteq {}
  <2> DEFINE S == {}
  <2>1. S \in SUBSET Ids /\ (start \in Ids => start \in S)
    OBVIOUS
  <2>2. \A y \in S : link[y] \in Ids => link[y] \in S
    OBVIOUS
  <2>3. QED
    BY <2>1, <2>2, ReachLeast
<1>2. QED
  BY <1>1

(* The rest of a walk is the walk from the next node.                      *)
LEMMA ReachUnfold ==
    ASSUME NEW link, NEW start \in Ids, NEW x \in Reach(link, start)
    PROVE  x = start \/ x \in Reach(link, link[start])
<1> DEFINE S == {start} \cup Reach(link, link[start])
<1>1. S \in SUBSET Ids
  BY ReachIds
<1>2. \A y \in S : link[y] \in Ids => link[y] \in S
  BY ReachStart, ReachStep
<1>3. Reach(link, start) \subseteq S
  BY <1>1, <1>2, ReachLeast
<1>4. QED
  BY <1>3

-----------------------------------------------------------------------------
(* What a well-formed document gives a walk.                               *)

(* The links of live nodes stay within the live nodes.                     *)
LEMMA LinksStayLive ==
    ASSUME NEW h, HeapOK(h)
    PROVE  /\ Live(h) \subseteq Ids
           /\ \A i \in Live(h) :
                 /\ h.parent[i] \in Live(h) \cup {Nil}
                 /\ h.first[i] \in Live(h) \cup {Nil}
                 /\ h.last[i] \in Live(h) \cup {Nil}
                 /\ h.next[i] \in Live(h) \cup {Nil}
<1>1. Live(h) \subseteq Ids
  BY DEF Live
<1>2. QED
  BY <1>1 DEF HeapOK, ForestOK, LinksOK, ParentOK, EndsOK, NextOK

(* A walk towards the root only meets live nodes.                          *)
LEMMA AncestorsLive ==
    ASSUME NEW h, HeapOK(h), NEW p \in Live(h)
    PROVE  Ancestors(h, p) \subseteq Live(h)
<1>1. Live(h) \in SUBSET Ids
  BY LinksStayLive
<1>2. \A y \in Live(h) : h.parent[y] \in Ids => h.parent[y] \in Live(h)
  BY LinksStayLive, IdsBelowNil
<1>3. QED
  BY <1>1, <1>2, ReachLeast DEF Ancestors

(* Iterating a container only meets live children of it.                   *)
LEMMA SiblingsAreChildren ==
    ASSUME NEW h, HeapOK(h), NEW p \in Live(h)
    PROVE  Siblings(h, p) \subseteq {c \in Live(h) : h.parent[c] = p}
<1> DEFINE S == {c \in Live(h) : h.parent[c] = p}
<1>1. S \in SUBSET Ids
  BY LinksStayLive
<1>2. h.first[p] \in Ids => h.first[p] \in S
  BY IdsBelowNil DEF HeapOK, ForestOK, LinksOK, EndsOK
<1>3. \A y \in S : h.next[y] \in Ids => h.next[y] \in S
  BY IdsBelowNil DEF HeapOK, ForestOK, LinksOK, NextOK
<1>4. QED
  BY <1>1, <1>2, <1>3, ReachLeast DEF Siblings

(* ... and it meets all of them.                                           *)
LEMMA ChildrenAreSiblings ==
    ASSUME NEW h, HeapOK(h), NEW p \in Live(h)
    PROVE  {c \in Live(h) : h.parent[c] = p} \subseteq Siblings(h, p)
<1> DEFINE K == {c \in Live(h) : h.parent[c] = p /\ c \notin Siblings(h, p)}
<1> SUFFICES ASSUME K # {} PROVE FALSE
  OBVIOUS
<1>1. PICK x \in K : \A y \in K : h.next[y] # x
  <2>1. K \in (SUBSET Live(h)) \ {{}}
    OBVIOUS
  <2>2. QED
    BY <2>1 DEF HeapOK, ForestOK, EntryOK
<1>2. x \in Live(h) /\ h.parent[x] = p /\ p # Nil /\ x \in Ids
  BY LinksStayLive, IdsBelowNil
<1>3. h.first[p] # x
  BY <1>2, ReachStart DEF Siblings
<1>4. PICK j \in Live(h) : h.next[j] = x
  BY <1>2, <1>3 DEF HeapOK, ForestOK, LinksOK, NextOK
<1>5. h.parent[j] = p
  BY <1>2, <1>4, IdsBelowNil DEF HeapOK, ForestOK, LinksOK, NextOK
<1>6. j \notin Siblings(h, p)
  BY <1>2, <1>4, ReachStep DEF Siblings
<1>7. QED
  BY <1>1, <1>4, <1>5, <1>6

(* Iterating a container yields exactly the nodes attached to it.          *)
LEMMA ForestHasChildren ==
    ASSUME NEW h, HeapOK(h) PROVE ChildrenOK(h)
BY SiblingsAreChildren, ChildrenAreSiblings DEF ChildrenOK

-----------------------------------------------------------------------------
(* Attaching.                                                              *)

(* How append_child_unchecked() changes the fields of a heap.              *)
Appended(g, h, p, c) ==
    /\ g.count = h.count /\ g.bytes = h.bytes /\ g.mem = h.mem
    /\ g.type = h.type /\ g.key = h.key /\ g.keyFlags = h.keyFlags
    /\ g.value = h.value /\ g.valueFlags = h.valueFlags
    /\ \A i \in Ids :
          /\ g.parent[i] = IF i = c THEN p ELSE h.parent[i]
          /\ g.next[i] = IF i = c THEN Nil
                         ELSE IF i = h.last[p] THEN c ELSE h.next[i]
          /\ g.first[i] = IF i = p /\ h.last[p] = Nil THEN c ELSE h.first[i]
          /\ g.last[i] = IF i = p THEN c ELSE h.last[i]

(* append_child_unchecked() writes nothing but the four link fields.       *)
LEMMA AppendFields ==
    ASSUME NEW h \in Heaps, NEW p \in Ids, NEW c \in Ids
    PROVE  /\ AppendChild(h, p, c) \in Heaps
           /\ Appended(AppendChild(h, p, c), h, p, c)
BY DEF AppendChild, Heaps, Appended

(* Attaching a detached node that is no ancestor of the container keeps    *)
(* the document a forest.                                                  *)
LEMMA AppendKeepsForest ==
    ASSUME NEW h, HeapOK(h), NEW p \in Live(h), NEW c \in Live(h),
           h.type[p] \in Containers, h.parent[c] = Nil,
           c \notin Ancestors(h, p)
    PROVE  HeapOK(AppendChild(h, p, c))
<1> DEFINE g == AppendChild(h, p, c)
<1>a. h \in Heaps /\ p \in Ids /\ c \in Ids /\ Live(h) \subseteq Ids
  BY LinksStayLive DEF HeapOK
<1>b. g \in Heaps /\ Appended(g, h, p, c)
  BY <1>a, AppendFields
<1> USE DEF Appended
<1>c. Live(g) = Live(h)
  BY <1>b DEF Live
<1>d. c # p /\ p \in Ancestors(h, p)
  BY <1>a, ReachStart DEF Ancestors
<1>e. Nil \notin Ids
  BY IdsBelowNil
<1>f. ParentOK(h) /\ EndsOK(h) /\ NextOK(h)
  BY DEF HeapOK, ForestOK, LinksOK
<1> HIDE DEF g
<1>1. LayoutOK(g)
  BY <1>b, <1>c DEF HeapOK, LayoutOK, RefOK
<1>2. ParentOK(g)
  BY <1>a, <1>b, <1>c, <1>e, <1>f DEF ParentOK, EndsOK
<1>3. EndsOK(g)
  BY <1>a, <1>b, <1>c, <1>d, <1>e, <1>f DEF EndsOK, NextOK, ParentOK
<1>4. NextOK(g)
  BY <1>a, <1>b, <1>c, <1>d, <1>e, <1>f DEF EndsOK, NextOK, ParentOK
<1>5. ParentAcyclic(g)
  <2> SUFFICES ASSUME NEW S \in (SUBSET Live(h)) \ {{}}
               PROVE  \E x \in S : g.parent[x] \notin S
    BY <1>c DEF ParentAcyclic
  <2>1. PICK x \in S : h.parent[x] \notin S
    BY DEF HeapOK, ForestOK, ParentAcyclic
  <2>2. CASE x # c
    BY <2>1, <2>2, <1>a, <1>b
  <2>3. CASE x = c /\ p \notin S
    BY <2>3, <1>a, <1>b
  <2>4. CASE x = c /\ p \in S
    <3> DEFINE T == S \cap Ancestors(h, p)
    <3>1. PICK y \in T : h.parent[y] \notin T
      BY <2>4, <1>d DEF HeapOK, ForestOK, ParentAcyclic
    <3>2. h.parent[y] \in Ids => h.parent[y] \in Ancestors(h, p)
      BY ReachStep DEF Ancestors
    <3>3. h.parent[y] \notin S
      BY <3>1, <3>2, <1>a
    <3>4. y # c
      OBVIOUS
    <3>5. QED
      BY <3>3, <3>4, <1>a, <1>b
  <2>5. QED
    BY <2>2, <2>3, <2>4
<1>6. NextAcyclic(g)
  <2> SUFFICES ASSUME NEW S \in (SUBSET Live(h)) \ {{}}
               PROVE  \E x \in S : g.next[x] \notin S
    BY <1>c DEF NextAcyclic
  <2>1. CASE c \in S
    BY <2>1, <1>a, <1>b, <1>e
  <2>2. CASE c \notin S
    <3>1. PICK x \in S : h.next[x] \notin S
      BY DEF HeapOK, ForestOK, NextAcyclic
    <3>2. QED
      BY <3>1, <2>2, <1>a, <1>b
  <2>3. QED
    BY <2>1, <2>2
<1>7. EntryOK(g)
  <2> SUFFICES ASSUME NEW S \in (SUBSET Live(h)) \ {{}}
               PROVE  \E x \in S : \A y \in S : g.next[y] # x
    BY <1>c DEF EntryOK
  <2> DEFINE T == S \ {c}
  <2>1. CASE T = {}
    BY <2>1, <1>a, <1>b, <1>e
  <2>2. CASE T # {}
    <3>1. PICK x \in T : \A y \in T : h.next[y] # x
      BY <2>2 DEF HeapOK, ForestOK, EntryOK
    <3>2. \A y \in S : g.next[y] # x
      BY <3>1, <1>a, <1>b, <1>e
    <3>3. QED
      BY <3>1, <3>2
  <2>3. QED
    BY <2>1, <2>2
<1>8. QED
  BY <1>b, <1>1, <1>2, <1>3, <1>4, <1>5, <1>6, <1>7
     DEF g, HeapOK, ForestOK, LinksOK

-----------------------------------------------------------------------------
(* Unlinking.                                                              *)

(* Among nodes of one list there is a first.                               *)
LEMMA FirstOfExists ==
    ASSUME NEW h, HeapOK(h), NEW p \in Live(h),
           NEW S \in SUBSET Siblings(h, p), S # {}
    PROVE  FirstOf(h, S) \in S /\ \A d \in S : NotAfter(h, FirstOf(h, S), d)
<1> DEFINE T == {x \in Siblings(h, p) : S \subseteq Reach(h.next, x)}
<1>1. Siblings(h, p) \subseteq Live(h) /\ Live(h) \subseteq Ids
  BY SiblingsAreChildren, LinksStayLive
<1>2. h.first[p] \in T
  <2>1. h.first[p] \in Ids
    BY ReachNil DEF Siblings
  <2>2. QED
    BY <2>1, ReachStart DEF Siblings
<1>3. PICK x \in T : h.next[x] \notin T
  <2>1. T \in (SUBSET Live(h)) \ {{}}
    BY <1>1, <1>2
  <2>2. QED
    BY <2>1 DEF HeapOK, ForestOK, NextAcyclic
<1>4. x \in Ids /\ x \in Siblings(h, p) /\ S \subseteq Reach(h.next, x)
  BY <1>1
<1>5. x \in S
  <2> SUFFICES ASSUME x \notin S PROVE FALSE
    OBVIOUS
  <2>1. S \subseteq Reach(h.next, h.next[x])
    BY <1>4, ReachUnfold
  <2>2. h.next[x] \in Ids
    BY <2>1, ReachNil
  <2>3. h.next[x] \in Siblings(h, p)
    BY <1>4, <2>2, ReachStep DEF Siblings
  <2>4. QED
    BY <1>3, <2>1, <2>3
<1>6. \A d \in S : NotAfter(h, x, d)
  BY <1>4 DEF NotAfter
<1>7. QED
  BY <1>5, <1>6 DEF FirstOf

(* Every child but the first has a predecessor on its list.                *)
LEMMA PreviousExists ==
    ASSUME NEW h, HeapOK(h), NEW p \in Live(h), NEW c \in Siblings(h, p)
    PROVE  IF h.first[p] = c
           THEN Previous(h, p, c) = Nil
           ELSE /\ Previous(h, p, c) \in Live(h)
                /\ h.parent[Previous(h, p, c)] = p
                /\ h.next[Previous(h, p, c)] = c
<1>1. CASE h.first[p] = c
  BY <1>1 DEF Previous
<1>2. CASE h.first[p] # c
  <2>1. Siblings(h, p) = {q \in Live(h) : h.parent[q] = p}
    BY ForestHasChildren DEF ChildrenOK
  <2>2. c \in Live(h) /\ h.parent[c] = p /\ p # Nil /\ c \in Ids
    BY <2>1, LinksStayLive, IdsBelowNil
  <2>3. PICK q \in Live(h) : h.next[q] = c
    BY <1>2, <2>2 DEF HeapOK, ForestOK, LinksOK, NextOK
  <2>4. h.parent[q] = p
    BY <2>2, <2>3, IdsBelowNil DEF HeapOK, ForestOK, LinksOK, NextOK
  <2>5. \E r \in Siblings(h, p) : h.next[r] = c
    BY <2>1, <2>3, <2>4
  <2>6. Previous(h, p, c) \in Siblings(h, p) /\ h.next[Previous(h, p, c)] = c
    BY <1>2, <2>5 DEF Previous
  <2>7. QED
    BY <1>2, <2>1, <2>6
<1>3. QED
  BY <1>1, <1>2

(* How unlinking c, whose predecessor is q, changes the fields of a heap.    *)
Unlinked(g, h, p, q, c) ==
    /\ g.count = h.count /\ g.bytes = h.bytes /\ g.mem = h.mem
    /\ g.type = h.type
    /\ g.value = h.value /\ g.valueFlags = h.valueFlags
    /\ \A i \in Ids :
          /\ g.parent[i] = IF i = c THEN Nil ELSE h.parent[i]
          /\ g.next[i] = IF i = c THEN Nil
                         ELSE IF i = q THEN h.next[c] ELSE h.next[i]
          /\ g.first[i] = IF i = p /\ q = Nil THEN h.next[c] ELSE h.first[i]
          /\ g.last[i] = IF i = p /\ h.last[p] = c THEN q ELSE h.last[i]
          /\ g.key[i] = IF i = c THEN NoRef ELSE h.key[i]

(* What unlinking writes: the parent's ends, the predecessor and the child.*)
LEMMA UnlinkFields ==
    ASSUME NEW h \in Heaps, NEW p \in Ids, NEW c \in Ids,
           NEW q \in Ids \cup {Nil}
    PROVE  /\ UnlinkChild(h, p, q, c) \in Heaps
           /\ Unlinked(UnlinkChild(h, p, q, c), h, p, q, c)
<1> DEFINE first == IF q = Nil THEN h.next[c] ELSE h.first[p]
           last == IF h.last[p] = c THEN q ELSE h.last[p]
           next == [i \in Ids |-> IF i = c THEN Nil
                                  ELSE IF i = q THEN h.next[c] ELSE h.next[i]]
           g == [h EXCEPT !.first[p] = first, !.next = next, !.last[p] = last,
                          !.parent[c] = Nil, !.key[c] = NoRef,
                          !.keyFlags[c] = FALSE]
<1>1. NoRef \in StringRefs /\ Nil \in Ids \cup {Nil}
  BY IdsBelowNil DEF NoRef, StringRefs, Nil
<1>2. /\ first \in Ids \cup {Nil} /\ last \in Ids \cup {Nil}
      /\ next \in [Ids -> Ids \cup {Nil}]
  BY DEF Heaps
<1>3. g = UnlinkChild(h, p, q, c)
  BY DEF UnlinkChild
<1>4. \A i \in Ids : next[i] = IF i = c THEN Nil
                               ELSE IF i = q THEN h.next[c] ELSE h.next[i]
  OBVIOUS
<1>5. first = IF q = Nil THEN h.next[c] ELSE h.first[p]
  OBVIOUS
<1>6. last = IF h.last[p] = c THEN q ELSE h.last[p]
  OBVIOUS
<1> HIDE DEF first, last, next
<1>7. g \in Heaps
  BY <1>1, <1>2 DEF Heaps
<1>8. Unlinked(g, h, p, q, c)
  BY <1>4, <1>5, <1>6 DEF Heaps, Unlinked
<1>9. QED
  BY <1>3, <1>7, <1>8

(* Taking any child out of any container keeps the document a forest.      *)
LEMMA UnlinkKeepsForest ==
    ASSUME NEW h, HeapOK(h), NEW p \in Live(h), NEW c \in Siblings(h, p)
    PROVE  HeapOK(TakeOut(h, p, c))
<1> DEFINE q == Previous(h, p, c)
           g == UnlinkChild(h, p, q, c)
<1>a. /\ h \in Heaps /\ p \in Ids /\ c \in Ids /\ Live(h) \subseteq Ids
      /\ c \in Live(h) /\ h.parent[c] = p /\ p # Nil
  BY LinksStayLive, SiblingsAreChildren, IdsBelowNil DEF HeapOK
<1>q. IF h.first[p] = c THEN q = Nil
      ELSE q \in Live(h) /\ h.parent[q] = p /\ h.next[q] = c
  BY PreviousExists
<1>b. g \in Heaps /\ Unlinked(g, h, p, q, c)
  <2>1. q \in Ids \cup {Nil}
    BY <1>a, <1>q
  <2>2. QED
    BY <2>1, <1>a, UnlinkFields
<1>c. Live(g) = Live(h)
  BY <1>b DEF Live, Unlinked
<1>e. Nil \notin Ids
  BY IdsBelowNil
<1>f. ParentOK(h) /\ EndsOK(h) /\ NextOK(h)
  BY DEF HeapOK, ForestOK, LinksOK
<1>g. h.next[c] \in Live(h) \cup {Nil} /\ h.next[c] # c
  <2>1. {c} \in (SUBSET Live(h)) \ {{}}
    BY <1>a
  <2>2. QED
    BY <2>1, LinksStayLive, <1>a DEF HeapOK, ForestOK, NextAcyclic
<1> USE DEF Unlinked
<1> HIDE DEF g, q
<1>1. LayoutOK(g)
  BY <1>a, <1>b, <1>c DEF HeapOK, LayoutOK, RefOK
<1>2. ParentOK(g)
  BY <1>a, <1>b, <1>c, <1>e, <1>f, <1>q DEF ParentOK
<1>3. EndsOK(g)
  BY <1>a, <1>b, <1>c, <1>e, <1>f, <1>g, <1>q DEF EndsOK, NextOK, ParentOK
<1>4. NextOK(g)
  BY <1>a, <1>b, <1>c, <1>e, <1>f, <1>g, <1>q DEF EndsOK, NextOK, ParentOK
<1>5. ParentAcyclic(g)
  <2> SUFFICES ASSUME NEW S \in (SUBSET Live(h)) \ {{}}
               PROVE  \E x \in S : g.parent[x] \notin S
    BY <1>c DEF ParentAcyclic
  <2>1. PICK x \in S : h.parent[x] \notin S
    BY DEF HeapOK, ForestOK, ParentAcyclic
  <2>2. QED
    BY <2>1, <1>a, <1>b, <1>e
<1>6. NextAcyclic(g)
  <2> SUFFICES ASSUME NEW S \in (SUBSET Live(h)) \ {{}}
               PROVE  \E x \in S : g.next[x] \notin S
    BY <1>c DEF NextAcyclic
  <2>1. CASE c \in S
    BY <2>1, <1>a, <1>b, <1>e
  <2>2. CASE c \notin S
    <3>1. PICK x \in S : h.next[x] \notin S
      BY DEF HeapOK, ForestOK, NextAcyclic
    <3>2. PICK y \in S \cup {c} : h.next[y] \notin S \cup {c}
      <4>1. S \cup {c} \in (SUBSET Live(h)) \ {{}}
        BY <1>a
      <4>2. QED
        BY <4>1 DEF HeapOK, ForestOK, NextAcyclic
    <3>3. CASE x # q \/ h.next[c] \notin S
      BY <3>1, <3>3, <2>2, <1>a, <1>b
    <3>4. CASE x = q /\ h.next[c] \in S
      <4>1. y \in S /\ y # q
        BY <3>2, <3>4, <1>a, <1>q, <1>e
      <4>2. QED
        BY <4>1, <3>2, <2>2, <1>a, <1>b
    <3>5. QED
      BY <3>3, <3>4
  <2>3. QED
    BY <2>1, <2>2
<1>7. EntryOK(g)
  <2> SUFFICES ASSUME NEW S \in (SUBSET Live(h)) \ {{}}
               PROVE  \E x \in S : \A y \in S : g.next[y] # x
    BY <1>c DEF EntryOK
  <2>1. CASE c \in S
    <3>1. \A y \in Live(h) : h.next[y] = c => y = q
      BY <1>a, <1>e, <1>f, <1>q DEF EndsOK, NextOK
    <3>2. \A y \in S : g.next[y] # c
      BY <3>1, <1>a, <1>b, <1>e, <1>g
    <3>3. QED
      BY <2>1, <3>2
  <2>2. CASE c \notin S
    <3>1. PICK x \in S \cup {c} : \A y \in S \cup {c} : h.next[y] # x
      <4>1. S \cup {c} \in (SUBSET Live(h)) \ {{}}
        BY <1>a
      <4>2. QED
        BY <4>1 DEF HeapOK, ForestOK, EntryOK
    <3>2. CASE x # c
      <4>1. \A y \in S : g.next[y] # x
        BY <3>1, <3>2, <2>2, <1>a, <1>b
      <4>2. QED
        BY <4>1, <3>1, <3>2
    <3>3. CASE x = c
      <4>1. PICK z \in S : \A y \in S : h.next[y] # z
        BY DEF HeapOK, ForestOK, EntryOK
      <4>2. q \notin S
        BY <3>1, <3>3, <1>q, <1>a, <1>e
      <4>3. \A y \in S : g.next[y] # z
        BY <4>1, <4>2, <2>2, <1>a, <1>b
      <4>4. QED
        BY <4>1, <4>3
    <3>4. QED
      BY <3>2, <3>3
  <2>3. QED
    BY <2>1, <2>2
<1>8. QED
  BY <1>b, <1>1, <1>2, <1>3, <1>4, <1>5, <1>6, <1>7
     DEF g, q, TakeOut, HeapOK, ForestOK, LinksOK

-----------------------------------------------------------------------------
(* Allocation.                                                             *)

(* A default StringRef and kInvalidNodeId are values of their fields.      *)
LEMMA NoRefTyped == NoRef \in StringRefs /\ Nil \in Ids \cup {Nil}
BY IdsBelowNil DEF NoRef, StringRefs, Nil

(* can_allocate_node() is enough for the next node to have a slot.         *)
LEMMA NextIdFits ==
    ASSUME NEW h \in Heaps, CanAllocateNode(h)
    PROVE  h.count \in Ids /\ h.count \notin Live(h)
<1>1. h.count \in Nat /\ h.bytes \in Nat
  BY DEF Heaps
<1>2. NodeBytes(h.count + 1) <= Capacity
  BY <1>1, SizesAssumption DEF CanAllocateNode, NodeBytes
<1>3. QED
  BY <1>1, <1>2, FittingIsId DEF Live

(* How allocating a node changes the fields of a heap.                     *)
Allocated(g, h, type) ==
    /\ g.count = h.count + 1 /\ g.bytes = h.bytes
    /\ \A i \in Ids :
          /\ g.type[i] = IF i = h.count THEN type ELSE h.type[i]
          /\ g.parent[i] = IF i = h.count THEN Nil ELSE h.parent[i]
          /\ g.first[i] = IF i = h.count THEN Nil ELSE h.first[i]
          /\ g.last[i] = IF i = h.count THEN Nil ELSE h.last[i]
          /\ g.next[i] = IF i = h.count THEN Nil ELSE h.next[i]
          /\ g.key[i] = IF i = h.count THEN NoRef ELSE h.key[i]
          /\ g.value[i] = IF i = h.count THEN NoRef ELSE h.value[i]

(* Allocating writes every field of the new slot and no other node.        *)
LEMMA AllocateFields ==
    ASSUME NEW h \in Heaps, NEW type \in ValueTypes, CanAllocateNode(h)
    PROVE  /\ AllocateNode(h, type) \in Heaps
           /\ Allocated(AllocateNode(h, type), h, type)
<1> DEFINE id == h.count
           mem == [a \in Addresses |->
                      IF NodeBytes(id) <= a /\ a < NodeBytes(id + 1)
                      THEN Junk ELSE h.mem[a]]
           g == AllocateNode(h, type)
<1>1. id \in Ids /\ id \in Nat
  BY NextIdFits DEF Heaps
<1>2. g.mem = mem
  BY DEF AllocateNode
<1>3. mem \in [Addresses -> Bytes \cup {Junk}]
  BY DEF Heaps
<1> HIDE DEF mem
<1>4. g \in Heaps
  <2>1. /\ g.type \in [Ids -> ValueTypes]
        /\ g.parent \in [Ids -> Ids \cup {Nil}]
        /\ g.first \in [Ids -> Ids \cup {Nil}]
        /\ g.last \in [Ids -> Ids \cup {Nil}]
        /\ g.next \in [Ids -> Ids \cup {Nil}]
        /\ g.key \in [Ids -> StringRefs]
        /\ g.value \in [Ids -> StringRefs]
        /\ g.count \in Nat /\ g.bytes \in Nat
    BY <1>1, NoRefTyped DEF Heaps, AllocateNode
  <2>2. /\ g.keyFlags \in [Ids -> BOOLEAN]
        /\ g.valueFlags \in [Ids -> BOOLEAN]
    BY DEF Heaps, AllocateNode
  <2>3. g = [type |-> g.type, parent |-> g.parent, first |-> g.first,
             last |-> g.last, next |-> g.next, key |-> g.key,
             keyFlags |-> g.keyFlags, value |-> g.value,
             valueFlags |-> g.valueFlags, count |-> g.count,
             bytes |-> g.bytes, mem |-> g.mem]
    BY DEF AllocateNode
  <2> HIDE DEF g
  <2>4. QED
    BY <2>1, <2>2, <2>3, <1>2, <1>3 DEF Heaps
<1>5. Allocated(g, h, type)
  BY <1>1 DEF Heaps, Allocated, AllocateNode
<1>6. QED
  BY <1>4, <1>5

(* A new node stands alone; the rest of the document is as it was.         *)
LEMMA AllocateKeepsForest ==
    ASSUME NEW h, HeapOK(h), NEW type \in ValueTypes, CanAllocateNode(h)
    PROVE  HeapOK(AllocateNode(h, type))
<1> DEFINE g == AllocateNode(h, type)
           id == h.count
<1>a. /\ h \in Heaps /\ Live(h) \subseteq Ids
      /\ id \in Ids /\ id \notin Live(h) /\ id # Nil /\ Nil \notin Ids
  BY LinksStayLive, NextIdFits, IdsBelowNil DEF HeapOK
<1>b. g \in Heaps /\ Allocated(g, h, type)
  BY <1>a, AllocateFields
<1>c. Live(g) = Live(h) \cup {id}
  <2>1. g.count = id + 1
    BY <1>b DEF Allocated
  <2>2. \A i, n \in Nat : i < n + 1 <=> (i < n \/ i = n)
    OBVIOUS
  <2>3. ASSUME NEW i \in Ids
        PROVE  i \in Live(g) <=> (i \in Live(h) \/ i = id)
    <3>1. i \in Nat /\ id \in Nat
      BY <1>a, IdsBelowNil
    <3>2. i < id + 1 <=> (i < id \/ i = id)
      BY <3>1, <2>2
    <3>3. QED
      BY <2>1, <3>2 DEF Live
  <2>4. Live(g) \subseteq Ids
    BY DEF Live
  <2>5. QED
    BY <2>3, <2>4, <1>a
<1>f. ParentOK(h) /\ EndsOK(h) /\ NextOK(h)
  BY DEF HeapOK, ForestOK, LinksOK
<1> HIDE DEF g
<1>1. LayoutOK(g)
  <2>1. g.count = h.count + 1 /\ g.bytes = h.bytes
    BY <1>b DEF Allocated
  <2>2. NodeBytes(h.count + 1) + h.bytes <= Capacity
    BY <1>a, SizesAssumption DEF CanAllocateNode, Heaps, NodeBytes
  <2>3. \A i \in Live(g) : RefOK(g, g.key[i]) /\ RefOK(g, g.value[i])
    BY <1>a, <1>b, <1>c DEF Allocated, HeapOK, LayoutOK, RefOK
  <2>4. QED
    BY <2>1, <2>2, <2>3 DEF LayoutOK
<1> USE DEF Allocated
<1>2. ParentOK(g)
  BY <1>a, <1>b, <1>c, <1>f DEF ParentOK
<1>3. EndsOK(g)
  BY <1>a, <1>b, <1>c, <1>f DEF EndsOK
<1>4. NextOK(g)
  BY <1>a, <1>b, <1>c, <1>f DEF ParentOK, NextOK
<1>5. \A S \in (SUBSET Live(g)) \ {{}} :
         id \notin S => S \in (SUBSET Live(h)) \ {{}}
  BY <1>c
<1>6. ParentAcyclic(g)
  BY <1>a, <1>b, <1>c, <1>5 DEF HeapOK, ForestOK, ParentAcyclic
<1>7. NextAcyclic(g)
  BY <1>a, <1>b, <1>c, <1>5 DEF HeapOK, ForestOK, NextAcyclic
<1>8. EntryOK(g)
  <2> SUFFICES ASSUME NEW S \in (SUBSET Live(g)) \ {{}}
               PROVE  \E x \in S : \A y \in S : g.next[y] # x
    BY DEF EntryOK
  <2>1. CASE id \notin S
    BY <2>1, <1>a, <1>b, <1>c, <1>5 DEF HeapOK, ForestOK, EntryOK
  <2>2. CASE id \in S
    <3>1. \A y \in S : g.next[y] # id
      BY <1>a, <1>b, <1>c, LinksStayLive
    <3>2. QED
      BY <2>2, <3>1
  <2>3. QED
    BY <2>1, <2>2
<1>9. QED
  BY <1>b, <1>1, <1>2, <1>3, <1>4, <1>6, <1>7, <1>8
     DEF g, HeapOK, ForestOK, LinksOK

(* Two heaps with the same counters that agree on the live nodes are       *)
(* equally well-formed: what lies beyond them does not matter.             *)
SameNodes(g, h) ==
    \A i \in Live(h) :
        /\ g.type[i] = h.type[i] /\ g.parent[i] = h.parent[i]
        /\ g.first[i] = h.first[i] /\ g.last[i] = h.last[i]
        /\ g.next[i] = h.next[i]
        /\ g.key[i] = h.key[i] /\ g.value[i] = h.value[i]

Agree(g, h) == g.count = h.count /\ SameNodes(g, h)

(* Only links, types and the node count matter to the forest.              *)
LEMMA AgreeKeepsForest ==
    ASSUME NEW g, NEW h, HeapOK(h), Agree(g, h)
    PROVE  ForestOK(g)
<1>1. Live(g) = Live(h)
  BY DEF Live, Agree, SameNodes
<1>2. LinksOK(g)
  BY <1>1, IdsBelowNil, LinksStayLive, SMTT(30)
     DEF HeapOK, ForestOK, LinksOK, ParentOK, EndsOK, NextOK, Agree, SameNodes
<1>3. ParentAcyclic(g)
  BY <1>1 DEF HeapOK, ForestOK, ParentAcyclic, Agree, SameNodes
<1>4. NextAcyclic(g)
  BY <1>1 DEF HeapOK, ForestOK, NextAcyclic, Agree, SameNodes
<1>5. EntryOK(g)
  BY <1>1 DEF HeapOK, ForestOK, EntryOK, Agree, SameNodes
<1>6. QED
  BY <1>2, <1>3, <1>4, <1>5 DEF ForestOK

(* allocate_string() checks that the string fits: its reference lies in    *)
(* the storage, so the casts to uint16_t lose nothing.                     *)
LEMMA NextRefFits ==
    ASSUME NEW h, HeapOK(h), NEW len \in Nat,
           AllocateStringError(h, len) = "Ok"
    PROVE  /\ NextRef(h, len) \in StringRefs
           /\ NextRef(h, len).off = Capacity - h.bytes - len
           /\ NextRef(h, len).len = len
           /\ NodeBytes(h.count) + h.bytes + len <= Capacity
<1>1. /\ h.count \in Nat /\ h.bytes \in Nat /\ NodeBytes(h.count) \in Nat
  BY SizesAssumption DEF HeapOK, Heaps, NodeBytes
<1>2. len <= Capacity - h.bytes - NodeBytes(h.count) /\ len <= U16Max
  BY SizesAssumption, <1>1 DEF AllocateStringError
<1>3. QED
  BY <1>1, <1>2, SizesAssumption DEF NextRef, StringRefs

(* Storing a string changes no node, and no reference becomes dangling.    *)
LEMMA CopyKeepsForest ==
    ASSUME NEW h, HeapOK(h), NEW text \in Seq(Bytes),
           AllocateStringError(h, Len(text)) = "Ok"
    PROVE  LET g == CopyString(h, text)
           IN /\ HeapOK(g)
              /\ Agree(g, h)
              /\ RefOK(g, NextRef(h, Len(text)))
<1> DEFINE g == CopyString(h, text)
           ref == NextRef(h, Len(text))
           mem == [a \in Addresses |->
                      IF ref.off <= a /\ a < ref.off + ref.len
                      THEN text[a - ref.off + 1] ELSE h.mem[a]]
<1>1. /\ Len(text) \in Nat /\ h \in Heaps /\ Capacity \in Nat
      /\ h.bytes \in Nat /\ NodeBytes(h.count) \in Nat
  BY SizesAssumption DEF HeapOK, Heaps, NodeBytes
<1>2. /\ ref \in StringRefs
      /\ ref.off = Capacity - h.bytes - Len(text) /\ ref.len = Len(text)
      /\ NodeBytes(h.count) + h.bytes + Len(text) <= Capacity
  BY <1>1, NextRefFits
<1>3. ref.off \in Nat /\ ref.len \in Nat
  BY <1>2, SizesAssumption DEF StringRefs
<1> HIDE DEF ref
<1>4. mem \in [Addresses -> Bytes \cup {Junk}]
  <2> SUFFICES ASSUME NEW a \in Addresses
               PROVE  mem[a] \in Bytes \cup {Junk}
    OBVIOUS
  <2>1. CASE ref.off <= a /\ a < ref.off + ref.len
    <3>1. \A n, off, len \in Nat :
             off <= n /\ n < off + len => n - off + 1 \in 1 .. len
      OBVIOUS
    <3>2. a \in Nat
      BY <1>1 DEF Addresses
    <3>3. a - ref.off + 1 \in 1 .. Len(text)
      BY <2>1, <3>1, <3>2, <1>1, <1>2, <1>3
    <3>4. text[a - ref.off + 1] \in Bytes
      BY <3>3
    <3>5. QED
      BY <2>1, <3>4
  <2>2. CASE ~(ref.off <= a /\ a < ref.off + ref.len)
    BY <2>2, <1>1 DEF Heaps
  <2>3. QED
    BY <2>1, <2>2
<1>5. g = [h EXCEPT !.bytes = h.bytes + ref.len, !.mem = mem]
  BY DEF CopyString, ref
<1> HIDE DEF mem, g
<1>6. g \in Heaps /\ Agree(g, h) /\ g.bytes = h.bytes + Len(text)
  <2>1. h.bytes + ref.len \in Nat
    BY <1>1, <1>3
  <2>2. g \in Heaps
    BY <1>1, <1>4, <1>5, <2>1 DEF Heaps
  <2>3. Agree(g, h)
    BY <1>1, <1>5 DEF Heaps, Agree, SameNodes
  <2>4. g.bytes = h.bytes + Len(text)
    BY <1>1, <1>2, <1>5 DEF Heaps
  <2>5. QED
    BY <2>2, <2>3, <2>4
<1>7. Live(g) = Live(h)
  BY <1>6 DEF Live, Agree, SameNodes
<1>8. RefOK(g, ref)
  BY <1>1, <1>2, <1>6 DEF RefOK
<1>9. \A r \in StringRefs : RefOK(h, r) => RefOK(g, r)
  BY <1>1, <1>6 DEF RefOK, StringRefs
<1>10. LayoutOK(g)
  <2>1. NodeBytes(g.count) + g.bytes <= Capacity
    BY <1>1, <1>2, <1>6 DEF Agree
  <2>2. \A i \in Live(h) : h.key[i] \in StringRefs /\ h.value[i] \in StringRefs
    BY <1>1 DEF Heaps, Live
  <2>3. QED
    BY <2>1, <2>2, <1>6, <1>7, <1>9 DEF LayoutOK, HeapOK, Agree, SameNodes
<1>11. ForestOK(g)
  BY <1>6, AgreeKeepsForest
<1>12. QED
  BY <1>6, <1>8, <1>10, <1>11 DEF HeapOK, g, ref

(* Writing a reference to stored bytes into a node keeps the heap in order. *)
LEMMA SetKeyKeepsForest ==
    ASSUME NEW h, HeapOK(h), NEW c \in Ids, NEW ref \in StringRefs,
           RefOK(h, ref), NEW flags \in BOOLEAN
    PROVE  /\ HeapOK(SetKey(h, c, ref, flags))
           /\ Live(SetKey(h, c, ref, flags)) = Live(h)
           /\ SetKey(h, c, ref, flags).type = h.type
           /\ SetKey(h, c, ref, flags).parent = h.parent
<1> DEFINE g == SetKey(h, c, ref, flags)
<1>1. h \in Heaps
  BY DEF HeapOK
<1>2. g \in Heaps
  BY <1>1 DEF SetKey, Heaps
<1>3. /\ g.count = h.count /\ g.bytes = h.bytes /\ g.type = h.type
      /\ g.parent = h.parent /\ g.first = h.first /\ g.last = h.last
      /\ g.next = h.next /\ g.value = h.value
      /\ \A i \in Ids : g.key[i] = IF i = c THEN ref ELSE h.key[i]
  BY <1>1 DEF SetKey, Heaps
<1> HIDE DEF g
<1>4. Live(g) = Live(h)
  BY <1>3 DEF Live
<1>5. LayoutOK(g)
  BY <1>3, <1>4 DEF HeapOK, LayoutOK, RefOK, Live
<1>6. ForestOK(g)
  BY <1>3, <1>4 DEF HeapOK, ForestOK, LinksOK, ParentOK, EndsOK, NextOK,
                    ParentAcyclic, NextAcyclic, EntryOK
<1>7. QED
  BY <1>2, <1>3, <1>4, <1>5, <1>6 DEF HeapOK, g

(* The same for the text of a string value.                                *)
LEMMA SetValueKeepsForest ==
    ASSUME NEW h, HeapOK(h), NEW c \in Ids, NEW ref \in StringRefs,
           RefOK(h, ref), NEW flags \in BOOLEAN
    PROVE  HeapOK([h EXCEPT !.value[c] = ref, !.valueFlags[c] = flags])
<1> DEFINE g == [h EXCEPT !.value[c] = ref, !.valueFlags[c] = flags]
<1>1. h \in Heaps
  BY DEF HeapOK
<1>2. g \in Heaps
  BY <1>1 DEF Heaps
<1>3. /\ g.count = h.count /\ g.bytes = h.bytes /\ g.type = h.type
      /\ g.parent = h.parent /\ g.first = h.first /\ g.last = h.last
      /\ g.next = h.next /\ g.key = h.key
      /\ \A i \in Ids : g.value[i] = IF i = c THEN ref ELSE h.value[i]
  BY <1>1 DEF Heaps
<1> HIDE DEF g
<1>4. Live(g) = Live(h)
  BY <1>3 DEF Live
<1>5. LayoutOK(g)
  BY <1>3, <1>4 DEF HeapOK, LayoutOK, RefOK, Live
<1>6. ForestOK(g)
  BY <1>3, <1>4 DEF HeapOK, ForestOK, LinksOK, ParentOK, EndsOK, NextOK,
                    ParentAcyclic, NextAcyclic, EntryOK
<1>7. QED
  BY <1>2, <1>5, <1>6 DEF HeapOK, g

(* Returning to the counters of an earlier heap, whose nodes are as they   *)
(* were, returns to a well-formed heap: ContainerBuilder's rollback.       *)
LEMMA RollbackKeepsForest ==
    ASSUME NEW h, HeapOK(h), NEW g \in Heaps, SameNodes(g, h)
    PROVE  HeapOK(Rollback(g, h))
<1> DEFINE r == Rollback(g, h)
<1>1. h.count \in Nat /\ h.bytes \in Nat
  BY DEF HeapOK, Heaps
<1>2. r \in Heaps /\ r.count = h.count /\ r.bytes = h.bytes
  BY <1>1 DEF Rollback, Heaps
<1>3. Agree(r, h)
  BY <1>2 DEF Agree, SameNodes, Rollback, Heaps
<1>4. ForestOK(r)
  BY <1>3, AgreeKeepsForest
<1>5. LayoutOK(r)
  <2>1. Live(r) = Live(h)
    BY <1>2 DEF Live
  <2> HIDE DEF r
  <2>2. QED
    BY <1>2, <1>3, <2>1 DEF Agree, SameNodes, HeapOK, LayoutOK, RefOK
<1>6. QED
  BY <1>2, <1>4, <1>5 DEF HeapOK

-----------------------------------------------------------------------------
(* Makers.                                                                 *)

(* A maker has added one node, detached, and touched no other.             *)
Made(g, h, type) ==
    /\ h.count \in Live(g)
    /\ g.type[h.count] = type /\ g.parent[h.count] = Nil
    /\ SameNodes(g, h)

(* A maker without text succeeds exactly when the allocation does.         *)
LEMMA AllocateMakes ==
    ASSUME NEW h, HeapOK(h), NEW type \in ValueTypes, CanAllocateNode(h)
    PROVE  Made(AllocateNode(h, type), h, type)
<1>1. h \in Heaps /\ h.count \in Ids /\ h.count \notin Live(h)
  BY NextIdFits DEF HeapOK
<1>2. Allocated(AllocateNode(h, type), h, type)
  BY <1>1, AllocateFields
<1>3. h.count < h.count + 1
  <2>1. h.count \in Nat
    BY <1>1 DEF Heaps
  <2>2. QED
    BY <2>1
<1>4. QED
  BY <1>1, <1>2, <1>3 DEF Allocated, Made, SameNodes, Live

(* make_string() checks the room for node and bytes before it allocates    *)
(* either, so that the copy cannot fail once the node exists.              *)
LEMMA MakeStringPrecheckExact ==
    ASSUME NEW h, HeapOK(h), NEW text \in Seq(Bytes),
           MakeStringError(h, text) = "Ok"
    PROVE  /\ CanAllocateNode(h)
           /\ AllocateStringError(AllocateNode(h, "String"), Len(text)) = "Ok"
<1>1. CanAllocateNode(h) /\ Valid
  BY DEF MakeStringError
<1>2. /\ ~(Len(text) > U16Max)
      /\ ~(Len(text) > Capacity - h.bytes - NodeBytes(h.count + 1))
  BY <1>1 DEF MakeStringError
<1>3. AllocateNode(h, "String").count = h.count + 1
      /\ AllocateNode(h, "String").bytes = h.bytes
  BY DEF AllocateNode
<1>4. QED
  BY <1>1, <1>2, <1>3 DEF AllocateStringError

(* A maker that fails changes nothing, one that succeeds keeps the document *)
(* well-formed, and the error of an impossible state is never returned.    *)
LEMMA MakeKeepsForest ==
    ASSUME NEW h, HeapOK(h), NEW item,
           item.type \in ValueTypes, item.text \in Seq(Bytes)
    PROVE  /\ Make(h, item).code \in ErrorCodes \ {"InternalError"}
           /\ HeapOK(Make(h, item).heap)
           /\ Make(h, item).code # "Ok" => Make(h, item).heap = h
           /\ Make(h, item).code = "Ok" =>
                 Made(Make(h, item).heap, h, item.type)
<1> DEFINE m == Make(h, item)
           text == item.text
           node == AllocateNode(h, "String")
<1>1. CASE item.type = "Number" /\ ~item.finite
  BY <1>1 DEF Make, Failure, ErrorCodes
<1>2. CASE ~(item.type = "Number" /\ ~item.finite) /\ item.type = "String"
  <2>1. m = MakeString(h, text)
    BY <1>2 DEF Make
  <2>2. CASE MakeStringError(h, text) # "Ok"
    <3>1. m = Failure(MakeStringError(h, text), h)
      BY <2>1, <2>2 DEF MakeString
    <3>2. MakeStringError(h, text) \in ErrorCodes \ {"InternalError"}
      BY DEF MakeStringError, ErrorCodes
    <3>3. QED
      BY <3>1, <3>2, <2>2 DEF Failure
  <2>3. CASE MakeStringError(h, text) = "Ok"
    <3> DEFINE ref == NextRef(node, Len(text))
               copy == CopyString(node, text)
               id == h.count
               g == [copy EXCEPT !.value[id] = ref,
                                 !.valueFlags[id] = NeedsEscape(text)]
    <3>1. /\ CanAllocateNode(h)
          /\ AllocateStringError(node, Len(text)) = "Ok"
      BY <2>3, MakeStringPrecheckExact
    <3>2. m = Success(g)
      BY <2>1, <2>3, <3>1 DEF MakeString
    <3>3. HeapOK(node) /\ Made(node, h, "String")
      BY <3>1, AllocateKeepsForest, AllocateMakes DEF ValueTypes
    <3>4. /\ HeapOK(copy) /\ Agree(copy, node) /\ RefOK(copy, ref)
          /\ ref \in StringRefs
      <4>1. Len(text) \in Nat
        OBVIOUS
      <4>2. QED
        BY <3>1, <3>3, <4>1, CopyKeepsForest, NextRefFits
    <3>5. id \in Ids /\ id \notin Live(h)
      BY <3>1, NextIdFits DEF HeapOK
    <3>6. NeedsEscape(text) \in BOOLEAN
      BY DEF NeedsEscape
    <3> HIDE DEF copy, ref, node
    <3>7. HeapOK(g)
      BY <3>4, <3>5, <3>6, SetValueKeepsForest
    <3>8. Made(g, h, "String")
      <4>1. copy \in Heaps /\ copy.count = node.count
        BY <3>4 DEF HeapOK, Agree
      <4>2. Live(h) \subseteq Live(node) /\ Live(copy) = Live(node)
        <5>1. h.count \in Nat /\ node.count \in Nat /\ h.count < node.count
          BY <3>3, <3>5, IdsBelowNil DEF HeapOK, Heaps, Made, Live
        <5>2. \A i, m1, n1 \in Nat : i < m1 /\ m1 < n1 => i < n1
          OBVIOUS
        <5>3. ASSUME NEW i \in Live(h) PROVE i \in Live(node)
          <6>1. i \in Ids /\ i \in Nat /\ i < h.count
            BY IdsBelowNil DEF Live
          <6>2. QED
            BY <5>1, <5>2, <6>1 DEF Live
        <5>4. QED
          BY <4>1, <5>3 DEF Live
      <4>3. /\ g.type = copy.type /\ g.parent = copy.parent
            /\ g.first = copy.first /\ g.last = copy.last
            /\ g.next = copy.next /\ g.key = copy.key
            /\ g.count = copy.count
            /\ \A i \in Ids : i # id => g.value[i] = copy.value[i]
        BY <4>1 DEF Heaps
      <4> HIDE DEF g
      <4>4. Live(g) = Live(node)
        BY <4>2, <4>3 DEF Live
      <4>5. SameNodes(g, h)
        BY <3>3, <3>4, <3>5, <4>2, <4>3 DEF Made, SameNodes, Agree, Live
      <4>6. QED
        BY <3>3, <3>4, <4>3, <4>4, <4>5 DEF Made, SameNodes, Agree
    <3>9. QED
      BY <3>2, <3>7, <3>8, <1>2 DEF Success, ErrorCodes
  <2>4. QED
    BY <2>2, <2>3
<1>3. CASE ~(item.type = "Number" /\ ~item.finite) /\ item.type # "String"
  <2>1. CASE AllocateNodeError(h) # "Ok"
    BY <1>3, <2>1 DEF Make, Failure, AllocateNodeError, ErrorCodes
  <2>2. CASE AllocateNodeError(h) = "Ok"
    <3>1. CanAllocateNode(h)
      BY <2>2 DEF AllocateNodeError
    <3>2. m = Success(AllocateNode(h, item.type))
      BY <1>3, <2>2 DEF Make
    <3>3. QED
      BY <3>1, <3>2, AllocateKeepsForest, AllocateMakes
         DEF Success, ErrorCodes
  <2>3. QED
    BY <2>1, <2>2
<1>4. QED
  BY <1>1, <1>2, <1>3

-----------------------------------------------------------------------------
(* Attachments.                                                            *)

(* validate_attachment() lets through only what AppendKeepsForest asks     *)
(* for, and its walk to the root never meets a node that is not there.     *)
LEMMA ValidateIsEnough ==
    ASSUME NEW h, HeapOK(h), NEW generation, NEW type \in Containers,
           NEW parent, parent.id \in Nat, NEW child, child.id \in Nat
    PROVE  LET code == ValidateAttachment(h, generation, parent, child, type)
           IN /\ code \in ErrorCodes \ {"InternalError"}
              /\ code = "Ok" =>
                    /\ parent.id \in Live(h) /\ child.id \in Live(h)
                    /\ h.type[parent.id] = type
                    /\ h.parent[child.id] = Nil
                    /\ child.id \notin Ancestors(h, parent.id)
<1> DEFINE code == ValidateAttachment(h, generation, parent, child, type)
<1>1. h \in Heaps /\ NodeBytes(h.count) <= Capacity
  <2>1. h \in Heaps /\ NodeBytes(h.count) + h.bytes <= Capacity
    BY DEF HeapOK, LayoutOK
  <2>2. h.bytes \in Nat /\ NodeBytes(h.count) \in Nat
    BY <2>1, SizesAssumption DEF Heaps, NodeBytes
  <2>3. QED
    BY <2>1, <2>2, SizesAssumption
<1>2. \A handle : /\ NodeFor(h, generation, handle)
                  /\ handle.id \in Nat
                  => handle.id \in Live(h)
  BY <1>1, LiveIsPrefix DEF NodeFor
<1>3. NodeFor(h, generation, parent) =>
         ~ \E a \in Ancestors(h, parent.id) : a \notin Live(h)
  BY <1>2, AncestorsLive
<1>4. code \in ErrorCodes \ {"InternalError"}
  BY <1>3 DEF ValidateAttachment, ErrorCodes
<1>5. code = "Ok" =>
         /\ NodeFor(h, generation, parent) /\ NodeFor(h, generation, child)
         /\ h.type[parent.id] = type
         /\ h.parent[child.id] = Nil
         /\ child.id \notin Ancestors(h, parent.id)
  BY DEF ValidateAttachment
<1>6. QED
  BY <1>2, <1>4, <1>5

(* An adder either changes nothing or leaves the document a forest.        *)
AttachSafe(out, h) ==
    /\ out.code \in ErrorCodes \ {"InternalError"}
    /\ HeapOK(out.heap)
    /\ out.code # "Ok" => out.heap = h

(* Array::add(Value) keeps the heap in order, attached or refused.         *)
LEMMA ArrayAttachSafe ==
    ASSUME NEW h, HeapOK(h), NEW generation,
           NEW parent, parent.id \in Nat, NEW child, child.id \in Nat
    PROVE  AttachSafe(ArrayAttach(h, generation, parent, child), h)
<1> DEFINE code == ValidateAttachment(h, generation, parent, child, "Array")
           p == parent.id
           c == child.id
           g == SetKey(h, c, NoRef, FALSE)
<1>1. /\ code \in ErrorCodes \ {"InternalError"}
      /\ code = "Ok" => /\ p \in Live(h) /\ c \in Live(h)
                        /\ h.type[p] = "Array" /\ h.parent[c] = Nil
                        /\ c \notin Ancestors(h, p)
  BY ValidateIsEnough DEF Containers
<1> HIDE DEF code
<1>2. CASE code # "Ok"
  BY <1>1, <1>2 DEF ArrayAttach, Failure, AttachSafe, code
<1>3. CASE code = "Ok"
  <2>1. c \in Ids
    BY <1>1, <1>3, LinksStayLive
  <2>2. HeapOK(g) /\ Live(g) = Live(h) /\ g.type = h.type
        /\ g.parent = h.parent
    BY <2>1, NoRefTyped, SetKeyKeepsForest DEF RefOK
  <2>3. Ancestors(g, p) = Ancestors(h, p)
    BY <2>2 DEF Ancestors
  <2> HIDE DEF g, p, c
  <2>4. HeapOK(AppendChild(g, p, c))
    BY <1>1, <1>3, <2>2, <2>3, AppendKeepsForest DEF Containers
  <2>5. ArrayAttach(h, generation, parent, child)
          = Success(AppendChild(g, p, c))
    BY <1>3 DEF ArrayAttach, code, g, p, c
  <2>6. QED
    BY <2>4, <2>5 DEF Success, AttachSafe, ErrorCodes
<1>4. QED
  BY <1>2, <1>3

(* Object::add(key, Value) keeps it in order, with the key it stores.      *)
LEMMA ObjectAttachSafe ==
    ASSUME NEW h, HeapOK(h), NEW generation, NEW key \in Seq(Bytes),
           NEW parent, parent.id \in Nat, NEW child, child.id \in Nat
    PROVE  AttachSafe(ObjectAttach(h, generation, parent, key, child), h)
<1> DEFINE code == ValidateAttachment(h, generation, parent, child, "Object")
           p == parent.id
           c == child.id
           copy == CopyString(h, key)
           ref == NextRef(h, Len(key))
           g == SetKey(copy, c, ref, NeedsEscape(key))
<1>1. /\ code \in ErrorCodes \ {"InternalError"}
      /\ code = "Ok" => /\ p \in Live(h) /\ c \in Live(h)
                        /\ h.type[p] = "Object" /\ h.parent[c] = Nil
                        /\ c \notin Ancestors(h, p)
  <2>1. "Object" \in Containers
    BY DEF Containers
  <2>2. QED
    BY <2>1, ValidateIsEnough
<1>2. StoreStringError(h, key) \in ErrorCodes \ {"InternalError"}
  BY DEF StoreStringError, AllocateStringError, ErrorCodes
<1> HIDE DEF code
<1>3. CASE code # "Ok"
  BY <1>1, <1>3 DEF ObjectAttach, Failure, AttachSafe, code
<1>4. CASE code = "Ok" /\ StoreStringError(h, key) # "Ok"
  BY <1>2, <1>4 DEF ObjectAttach, Failure, AttachSafe, code
<1>5. CASE code = "Ok" /\ StoreStringError(h, key) = "Ok"
  <2>1. c \in Ids /\ p \in Ids
    BY <1>1, <1>5, LinksStayLive
  <2>2. AllocateStringError(h, Len(key)) = "Ok" /\ Len(key) \in Nat
    BY <1>5 DEF StoreStringError
  <2>3. /\ HeapOK(copy) /\ Agree(copy, h)
        /\ RefOK(copy, ref) /\ ref \in StringRefs
    BY <2>2, CopyKeepsForest, NextRefFits
  <2>4. NeedsEscape(key) \in BOOLEAN
    BY DEF NeedsEscape
  <2> HIDE DEF ref
  <2>5. HeapOK(g) /\ Live(g) = Live(copy) /\ g.type = copy.type
        /\ g.parent = copy.parent
    BY <2>1, <2>3, <2>4, SetKeyKeepsForest
  <2>6. copy.parent = h.parent
    BY DEF CopyString
  <2>7. Ancestors(g, p) = Ancestors(h, p)
    BY <2>5, <2>6 DEF Ancestors
  <2>8. Live(copy) = Live(h)
    BY <2>3 DEF Agree, Live
  <2>9. copy.type = h.type
    BY DEF CopyString
  <2> HIDE DEF g, p, c, copy
  <2>10. HeapOK(AppendChild(g, p, c))
    BY <1>1, <1>5, <2>5, <2>6, <2>7, <2>8, <2>9, AppendKeepsForest
       DEF Containers
  <2>11. ObjectAttach(h, generation, parent, key, child)
           = Success(AppendChild(g, p, c))
    BY <1>5 DEF ObjectAttach, code, g, p, c, copy, ref
  <2>12. QED
    BY <2>10, <2>11 DEF Success, AttachSafe, ErrorCodes
<1>6. QED
  BY <1>3, <1>4, <1>5

-----------------------------------------------------------------------------
(* Bytes that stay.                                                        *)

(* The strings that were in use in h have kept their bytes in g, and more  *)
(* may have been allocated since.                                          *)
BytesKept(g, h) ==
    /\ h.bytes <= g.bytes
    /\ \A a \in Addresses : a >= Capacity - h.bytes => g.mem[a] = h.mem[a]

(* So have the flags of the nodes that were live.                          *)
FlagsKept(g, h) ==
    \A i \in Live(h) : /\ g.keyFlags[i] = h.keyFlags[i]
                       /\ g.valueFlags[i] = h.valueFlags[i]

(* g has come from h by adding nodes and strings.                          *)
Extends(g, h) ==
    /\ h.count <= g.count
    /\ SameNodes(g, h)
    /\ FlagsKept(g, h)
    /\ BytesKept(g, h)

(* The counters of a well-formed heap, and where its strings begin.        *)
LEMMA Counters ==
    ASSUME NEW h, HeapOK(h)
    PROVE  /\ h \in Heaps
           /\ h.count \in Nat /\ h.bytes \in Nat /\ NodeBytes(h.count) \in Nat
           /\ NodeBytes(h.count) + h.bytes <= Capacity
           /\ Capacity \in Nat /\ U16Max \in Nat /\ Capacity <= U16Max
BY SizesAssumption DEF HeapOK, LayoutOK, Heaps, NodeBytes

(* The references of live nodes are references, to where strings are.      *)
LEMMA LiveRefs ==
    ASSUME NEW h, HeapOK(h), NEW i \in Live(h)
    PROVE  /\ h.key[i] \in StringRefs /\ RefOK(h, h.key[i])
           /\ h.value[i] \in StringRefs /\ RefOK(h, h.value[i])
BY DEF HeapOK, LayoutOK, Heaps, Live

(* A reference to an allocated string reads the same as long as the bytes  *)
(* are kept.                                                               *)
LEMMA KeptView ==
    ASSUME NEW h, HeapOK(h), NEW g, BytesKept(g, h),
           NEW ref \in StringRefs, RefOK(h, ref)
    PROVE  ViewString(g, ref) = ViewString(h, ref)
<1>1. ref.off \in Nat /\ ref.len \in Nat
  BY Counters DEF StringRefs
<1>2. ASSUME NEW k \in 1 .. ref.len, ref.len <= Capacity - ref.off
      PROVE  g.mem[ref.off + k - 1] = h.mem[ref.off + k - 1]
  <2>1. ref # NoRef
    BY <1>1, <1>2 DEF NoRef
  <2>2. ref.off >= Capacity - h.bytes
    BY <2>1 DEF RefOK
  <2>3. ref.off + k - 1 \in Addresses
    BY <1>1, <1>2, Counters DEF Addresses
  <2>4. ref.off + k - 1 >= Capacity - h.bytes
    BY <1>1, <2>2, Counters
  <2>5. QED
    BY <2>3, <2>4 DEF BytesKept
<1>3. CASE ref.off > Capacity \/ ref.len > Capacity - ref.off
  BY <1>3 DEF ViewString
<1>4. CASE ~(ref.off > Capacity \/ ref.len > Capacity - ref.off)
  <2>1. ref.len <= Capacity - ref.off
    BY <1>1, <1>4, Counters
  <2>2. QED
    BY <1>2, <1>4, <2>1 DEF ViewString
<1>5. QED
  BY <1>3, <1>4

(* ... and still is one to an allocated string.                            *)
LEMMA KeptRef ==
    ASSUME NEW h, HeapOK(h), NEW g, g.bytes \in Nat, BytesKept(g, h),
           NEW ref \in StringRefs, RefOK(h, ref)
    PROVE  RefOK(g, ref)
BY Counters DEF RefOK, BytesKept, StringRefs

(* The default reference reads as the empty text.                          *)
LEMMA NoRefView == \A h : ViewString(h, NoRef) = <<>>
<1> SUFFICES ASSUME NEW h PROVE ViewString(h, NoRef) = <<>>
  OBVIOUS
<1>1. NoRef.len = 0 /\ NoRef.off \in Nat /\ Capacity \in Nat
  BY IdsBelowNil DEF NoRef
<1>2. CASE NoRef.off > Capacity \/ NoRef.len > Capacity - NoRef.off
  BY <1>2 DEF ViewString
<1>3. CASE ~(NoRef.off > Capacity \/ NoRef.len > Capacity - NoRef.off)
  <2>1. ViewString(h, NoRef) = [k \in 1 .. 0 |-> h.mem[NoRef.off + k - 1]]
    BY <1>1, <1>3 DEF ViewString
  <2>2. 1 .. 0 = {}
    OBVIOUS
  <2>3. \A f : DOMAIN f = {} /\ f = [k \in {} |-> h.mem[NoRef.off + k - 1]]
                  => f = <<>>
    OBVIOUS
  <2>4. QED
    BY <2>1, <2>2, <2>3
<1>4. QED
  BY <1>2, <1>3

(* More nodes are live when more are counted.                              *)
LEMMA LiveGrows ==
    ASSUME NEW h, h.count \in Nat, NEW g, g.count \in Nat, h.count <= g.count
    PROVE  Live(h) \subseteq Live(g)
<1>1. \A i, m, n \in Nat : i < m /\ m <= n => i < n
  OBVIOUS
<1>2. QED
  BY <1>1, IdsBelowNil DEF Live

(* Adding, and adding again, is adding.                                    *)
LEMMA ExtendsTransitive ==
    ASSUME NEW h, HeapOK(h), NEW g, HeapOK(g), NEW f, HeapOK(f),
           Extends(g, h), Extends(f, g)
    PROVE  Extends(f, h)
<1>1. h.count <= f.count /\ h.bytes <= f.bytes
  BY Counters DEF Extends, BytesKept
<1>2. Live(h) \subseteq Live(g)
  BY Counters, LiveGrows DEF Extends
<1>3. SameNodes(f, h) /\ FlagsKept(f, h)
  BY <1>2 DEF Extends, SameNodes, FlagsKept
<1>4. \A a \in Addresses : a >= Capacity - h.bytes => a >= Capacity - g.bytes
  BY Counters DEF Extends, BytesKept, Addresses
<1>5. QED
  BY <1>1, <1>3, <1>4 DEF Extends, BytesKept

-----------------------------------------------------------------------------
(* Texts.                                                                  *)

(* What every text that is stored has to be: well-formed, and described by *)
(* the flag that the serializer trusts.                                    *)
GoodText(text, flags) ==
    text \in Seq(Bytes) /\ WellFormed(text) /\ flags = NeedsEscape(text)

(* allocate_string() has room for text.                                    *)
HasRoom(h, text) ==
    text \in Seq(Bytes) /\ AllocateStringError(h, Len(text)) = "Ok"

(* The text of a node that has none.                                       *)
LEMMA EmptyIsGood == GoodText(<<>>, FALSE)
<1>1. <<>> \in Seq(Bytes) /\ DOMAIN <<>> = {}
  OBVIOUS
<1>2. QED
  BY <1>1 DEF GoodText, WellFormed, NeedsEscape

(* Storing a text keeps the bytes of the others.                           *)
LEMMA CopyKeepsBytes ==
    ASSUME NEW h, HeapOK(h), NEW text, HasRoom(h, text)
    PROVE  BytesKept(CopyString(h, text), h)
<1> DEFINE g == CopyString(h, text)
           ref == NextRef(h, Len(text))
<1>1. Len(text) \in Nat
  BY DEF HasRoom
<1>2. ref.off = Capacity - h.bytes - Len(text) /\ ref.len = Len(text)
  BY <1>1, NextRefFits DEF HasRoom
<1>3. g.bytes = h.bytes + ref.len
  BY Counters DEF CopyString, Heaps
<1>4. ASSUME NEW a \in Addresses, a >= Capacity - h.bytes
      PROVE  g.mem[a] = h.mem[a]
  <2>1. ~(a < ref.off + ref.len)
    BY <1>1, <1>2, <1>4, Counters DEF Addresses
  <2>2. g.mem = [b \in Addresses |-> IF ref.off <= b /\ b < ref.off + ref.len
                                    THEN text[b - ref.off + 1] ELSE h.mem[b]]
    BY Counters DEF CopyString, Heaps
  <2>3. QED
    BY <2>1, <2>2
<1>5. h.bytes <= g.bytes
  BY <1>1, <1>2, <1>3, Counters
<1>6. QED
  BY <1>4, <1>5 DEF BytesKept

(* The bytes of a span and their places in the text.                       *)
LEMMA IndexInSpan ==
    ASSUME NEW n \in Nat, NEW len \in Nat, NEW k \in 1 .. len
    PROVE  /\ n + k - 1 \in Nat /\ (n + k - 1) - n + 1 = k
           /\ n <= n + k - 1 /\ n + k - 1 < n + len
           /\ \A m \in Nat : n + len <= m => n + k - 1 \in 0 .. m - 1
OBVIOUS

(* A stored text is read back.                                             *)
LEMMA CopiedView ==
    ASSUME NEW h, HeapOK(h), NEW text, HasRoom(h, text)
    PROVE  ViewString(CopyString(h, text), NextRef(h, Len(text))) = text
<1> DEFINE g == CopyString(h, text)
           ref == NextRef(h, Len(text))
<1>1. Len(text) \in Nat /\ DOMAIN text = 1 .. Len(text)
  BY DEF HasRoom
<1>2. /\ ref.off = Capacity - h.bytes - Len(text) /\ ref.len = Len(text)
      /\ NodeBytes(h.count) + h.bytes + Len(text) <= Capacity
  BY <1>1, NextRefFits DEF HasRoom
<1>3. g.mem = [b \in Addresses |-> IF ref.off <= b /\ b < ref.off + ref.len
                                  THEN text[b - ref.off + 1] ELSE h.mem[b]]
  BY Counters DEF CopyString, Heaps
<1> HIDE DEF ref, g
<1>4. ref.off \in Nat /\ ref.len \in Nat /\ ref.off + ref.len <= Capacity
  BY <1>1, <1>2, Counters
<1>5. ViewString(g, ref) = [k \in 1 .. ref.len |-> g.mem[ref.off + k - 1]]
  BY <1>1, <1>2, <1>4, Counters DEF ViewString
<1>6. ASSUME NEW k \in 1 .. ref.len PROVE g.mem[ref.off + k - 1] = text[k]
  <2>1. ref.off \in Nat /\ ref.len \in Nat /\ k \in 1 .. ref.len
    BY <1>4, <1>6
  <2>2. /\ ref.off <= ref.off + k - 1 /\ ref.off + k - 1 < ref.off + ref.len
        /\ (ref.off + k - 1) - ref.off + 1 = k
    BY <2>1, IndexInSpan
  <2>3. ref.off + k - 1 \in Addresses
    BY <2>1, <1>4, IndexInSpan, Counters DEF Addresses
  <2>4. QED
    BY <1>3, <2>2, <2>3
<1>7. text = [k \in 1 .. ref.len |-> text[k]]
  BY <1>1, <1>2 DEF HasRoom
<1>8. QED
  BY <1>5, <1>6, <1>7 DEF ref, g

(* A new string lies below all the others.                                 *)
LEMMA NextRefApart ==
    ASSUME NEW h, HeapOK(h), NEW text, HasRoom(h, text),
           NEW s \in StringRefs, RefOK(h, s)
    PROVE  Disjoint(NextRef(h, Len(text)), s)
<1>1. Len(text) \in Nat
  BY DEF HasRoom
<1>2. /\ NextRef(h, Len(text)).off = Capacity - h.bytes - Len(text)
      /\ NextRef(h, Len(text)).len = Len(text)
  BY <1>1, NextRefFits DEF HasRoom
<1>3. s.off >= Capacity - h.bytes
  BY Counters DEF RefOK, NoRef, Nil
<1>4. QED
  BY <1>1, <1>2, <1>3, Counters DEF Disjoint, StringRefs

(* The default reference shares no byte with any string.                   *)
LEMMA NoRefApart ==
    ASSUME NEW h, HeapOK(h), NEW s \in StringRefs, RefOK(h, s)
    PROVE  Disjoint(NoRef, s)
BY Counters DEF RefOK, NoRef, Nil, Disjoint, StringRefs

(* Sharing no byte is mutual.                                              *)
LEMMA DisjointSymmetric ==
    ASSUME NEW r, NEW s, Disjoint(r, s) PROVE Disjoint(s, r)
BY DEF Disjoint

-----------------------------------------------------------------------------
(* Heaps whose strings are in order.                                       *)

(* The flag of a node without a key is of no consequence here: KeysOK has  *)
(* it, and the cloner does not keep it.                                    *)
GoodKey(h, i) ==
    h.key[i] = NoRef \/ GoodText(ViewString(h, h.key[i]), h.keyFlags[i])

GoodValue(h, i) == GoodText(ViewString(h, h.value[i]), h.valueFlags[i])

TextsOK(h) == \A i \in Live(h) : GoodKey(h, i) /\ GoodValue(h, i)

StringsOK(h) == StringsDisjoint(h) /\ TextsOK(h)

(* The key, and the value, of node i in g is that of h or none.            *)
KeyFrom(g, h, i) ==
    \/ i \in Live(h) /\ g.key[i] = h.key[i] /\ g.keyFlags[i] = h.keyFlags[i]
    \/ g.key[i] = NoRef

ValueFrom(g, h, i) ==
    \/ i \in Live(h) /\ g.value[i] = h.value[i]
                     /\ g.valueFlags[i] = h.valueFlags[i]
    \/ g.value[i] = NoRef /\ g.valueFlags[i] = FALSE

(* ref is a string that no node of h has, and g has a good text there.     *)
FreshString(g, h, ref, flags) ==
    /\ \A s \in StringRefs : RefOK(h, s) => Disjoint(ref, s)
    /\ GoodText(ViewString(g, ref), flags)

(* No string in use in h shares a byte with ref.                           *)
Apart(h, ref) ==
    /\ Disjoint(ref, NoRef)
    /\ \A i \in Live(h) : Disjoint(ref, h.key[i]) /\ Disjoint(ref, h.value[i])

(* The strings of g are those of h, except that node c may have a fresh    *)
(* key, or a fresh value.                                                  *)
FreshKey(g, h, c, ref, flags) ==
    /\ BytesKept(g, h)
    /\ Apart(h, ref)
    /\ GoodText(ViewString(g, ref), flags)
    /\ \A i \in Live(g) :
          /\ ValueFrom(g, h, i)
          /\ \/ KeyFrom(g, h, i)
             \/ i = c /\ g.key[i] = ref /\ g.keyFlags[i] = flags

FreshValue(g, h, c, ref, flags) ==
    /\ BytesKept(g, h)
    /\ Apart(h, ref)
    /\ GoodText(ViewString(g, ref), flags)
    /\ \A i \in Live(g) :
          /\ KeyFrom(g, h, i)
          /\ \/ ValueFrom(g, h, i)
             \/ i = c /\ g.value[i] = ref /\ g.valueFlags[i] = flags

(* A string in order stays so when the bytes are kept.                     *)
LEMMA KeptKey ==
    ASSUME NEW h, HeapOK(h), StringsOK(h), NEW g, BytesKept(g, h),
           NEW i, KeyFrom(g, h, i)
    PROVE  GoodKey(g, i)
<1>1. CASE /\ i \in Live(h) /\ g.key[i] = h.key[i]
           /\ g.keyFlags[i] = h.keyFlags[i]
  BY <1>1, LiveRefs, KeptView DEF StringsOK, TextsOK, GoodKey
<1>2. CASE g.key[i] = NoRef
  BY <1>2 DEF GoodKey
<1>3. QED
  BY <1>1, <1>2 DEF KeyFrom

(* The same of a value.                                                    *)
LEMMA KeptValue ==
    ASSUME NEW h, HeapOK(h), StringsOK(h), NEW g, BytesKept(g, h),
           NEW i, ValueFrom(g, h, i)
    PROVE  GoodValue(g, i)
<1>1. CASE /\ i \in Live(h) /\ g.value[i] = h.value[i]
           /\ g.valueFlags[i] = h.valueFlags[i]
  BY <1>1, LiveRefs, KeptView DEF StringsOK, TextsOK, GoodValue
<1>2. CASE g.value[i] = NoRef /\ g.valueFlags[i] = FALSE
  BY <1>2, NoRefView, EmptyIsGood DEF GoodValue
<1>3. QED
  BY <1>1, <1>2 DEF ValueFrom

(* A fresh string is apart from everything that was there.                 *)
LEMMA FreshApart ==
    ASSUME NEW h, HeapOK(h), NEW g, NEW ref, NEW flags,
           FreshString(g, h, ref, flags)
    PROVE  Apart(h, ref)
<1>1. NoRef \in StringRefs /\ RefOK(h, NoRef)
  BY NoRefTyped DEF RefOK
<1>2. QED
  BY <1>1, LiveRefs DEF FreshString, Apart

(* To be apart is mutual.                                                  *)
LEMMA ApartSymmetric ==
    ASSUME NEW h, NEW ref, Apart(h, ref)
    PROVE  /\ Disjoint(NoRef, ref)
           /\ \A i \in Live(h) :
                 Disjoint(h.key[i], ref) /\ Disjoint(h.value[i], ref)
BY DisjointSymmetric DEF Apart

(* ... and what was there is apart from the default reference.             *)
LEMMA OldApart ==
    ASSUME NEW h, HeapOK(h)
    PROVE  /\ Disjoint(NoRef, NoRef)
           /\ \A i \in Live(h) :
                 /\ Disjoint(NoRef, h.key[i]) /\ Disjoint(h.key[i], NoRef)
                 /\ Disjoint(NoRef, h.value[i]) /\ Disjoint(h.value[i], NoRef)
<1>1. NoRef \in StringRefs /\ RefOK(h, NoRef)
  BY NoRefTyped DEF RefOK
<1>2. QED
  BY <1>1, LiveRefs, NoRefApart, DisjointSymmetric

(* Giving one node a fresh key, and any others none, keeps the strings in  *)
(* order.                                                                  *)
LEMMA FreshKeyKeepsStrings ==
    ASSUME NEW h, HeapOK(h), StringsOK(h), NEW g, NEW c, NEW ref, NEW flags,
           FreshKey(g, h, c, ref, flags)
    PROVE  StringsOK(g)
<1>1. TextsOK(g)
  <2> SUFFICES ASSUME NEW i \in Live(g)
               PROVE  GoodKey(g, i) /\ GoodValue(g, i)
    BY DEF TextsOK
  <2>1. GoodValue(g, i)
    BY KeptValue DEF FreshKey
  <2>2. GoodKey(g, i)
    BY KeptKey DEF FreshKey, GoodKey
  <2>3. QED
    BY <2>1, <2>2
<1>2. StringsDisjoint(g)
  <2> SUFFICES ASSUME NEW i \in Live(g), NEW j \in Live(g)
               PROVE  /\ Disjoint(g.key[i], g.value[j])
                      /\ i # j => /\ Disjoint(g.key[i], g.key[j])
                                  /\ Disjoint(g.value[i], g.value[j])
    BY DEF StringsDisjoint
  <2>1. Apart(h, ref)
    BY DEF FreshKey
  <2>2. Disjoint(g.key[i], g.value[j])
    BY <2>1, ApartSymmetric, OldApart
       DEF Apart, FreshKey, KeyFrom, ValueFrom, StringsOK, StringsDisjoint
  <2>3. i # j => Disjoint(g.key[i], g.key[j])
    BY <2>1, ApartSymmetric, OldApart
       DEF Apart, FreshKey, KeyFrom, StringsOK, StringsDisjoint
  <2>4. i # j => Disjoint(g.value[i], g.value[j])
    BY OldApart DEF FreshKey, ValueFrom, StringsOK, StringsDisjoint
  <2>5. QED
    BY <2>2, <2>3, <2>4
<1>3. QED
  BY <1>1, <1>2 DEF StringsOK

(* The same for a fresh value.                                             *)
LEMMA FreshValueKeepsStrings ==
    ASSUME NEW h, HeapOK(h), StringsOK(h), NEW g, NEW c, NEW ref, NEW flags,
           FreshValue(g, h, c, ref, flags)
    PROVE  StringsOK(g)
<1>1. TextsOK(g)
  <2> SUFFICES ASSUME NEW i \in Live(g)
               PROVE  GoodKey(g, i) /\ GoodValue(g, i)
    BY DEF TextsOK
  <2>1. GoodKey(g, i)
    BY KeptKey DEF FreshValue
  <2>2. GoodValue(g, i)
    BY KeptValue DEF FreshValue, GoodValue
  <2>3. QED
    BY <2>1, <2>2
<1>2. StringsDisjoint(g)
  <2> SUFFICES ASSUME NEW i \in Live(g), NEW j \in Live(g)
               PROVE  /\ Disjoint(g.key[i], g.value[j])
                      /\ i # j => /\ Disjoint(g.key[i], g.key[j])
                                  /\ Disjoint(g.value[i], g.value[j])
    BY DEF StringsDisjoint
  <2>1. Apart(h, ref)
    BY DEF FreshValue
  <2>2. Disjoint(g.key[i], g.value[j])
    BY <2>1, ApartSymmetric, OldApart
       DEF Apart, FreshValue, KeyFrom, ValueFrom, StringsOK, StringsDisjoint
  <2>3. i # j => Disjoint(g.value[i], g.value[j])
    BY <2>1, ApartSymmetric, OldApart
       DEF Apart, FreshValue, ValueFrom, StringsOK, StringsDisjoint
  <2>4. i # j => Disjoint(g.key[i], g.key[j])
    BY OldApart DEF FreshValue, KeyFrom, StringsOK, StringsDisjoint
  <2>5. QED
    BY <2>2, <2>3, <2>4
<1>3. QED
  BY <1>1, <1>2 DEF StringsOK

(* Losing references keeps the strings in order.                           *)
LEMMA LosingKeepsStrings ==
    ASSUME NEW h, HeapOK(h), StringsOK(h), NEW g, BytesKept(g, h),
           \A i \in Live(g) : KeyFrom(g, h, i) /\ ValueFrom(g, h, i)
    PROVE  StringsOK(g)
<1>1. FreshString(g, h, NoRef, FALSE)
  BY NoRefApart, NoRefView, EmptyIsGood DEF FreshString
<1>2. FreshKey(g, h, Nil, NoRef, FALSE)
  BY <1>1, FreshApart DEF FreshKey, FreshString
<1>3. QED
  BY <1>2, FreshKeyKeepsStrings

(* What is copied into the storage is a fresh string.                      *)
LEMMA CopiedIsFresh ==
    ASSUME NEW h, HeapOK(h), NEW text, HasRoom(h, text), WellFormed(text)
    PROVE  FreshString(CopyString(h, text), h, NextRef(h, Len(text)),
                       NeedsEscape(text))
<1>1. ViewString(CopyString(h, text), NextRef(h, Len(text))) = text
  BY CopiedView
<1>2. text \in Seq(Bytes)
  BY DEF HasRoom
<1>3. QED
  BY <1>1, <1>2, NextRefApart DEF FreshString, GoodText

-----------------------------------------------------------------------------
(* Makers.                                                                 *)

(* A maker that succeeds has added one node, which is not attached, has no *)
(* children and no key.                                                    *)
Grown(g, h, type) ==
    /\ g.count = h.count + 1 /\ h.count \in Ids
    /\ Extends(g, h)
    /\ LET id == h.count
       IN /\ g.type[id] = type
          /\ g.parent[id] = Nil /\ g.next[id] = Nil
          /\ g.first[id] = Nil /\ g.last[id] = Nil
          /\ g.key[id] = NoRef /\ g.keyFlags[id] = FALSE

(* What is live when one node has been added.                              *)
LEMMA GrownLive ==
    ASSUME NEW h, h.count \in Ids, NEW g, g.count = h.count + 1
    PROVE  Live(g) = Live(h) \cup {h.count} /\ h.count \notin Live(h)
<1>1. h.count \in Nat
  BY IdsBelowNil
<1>2. ASSUME NEW i \in Ids PROVE i < g.count <=> i < h.count \/ i = h.count
  <2>1. i \in Nat
    BY IdsBelowNil
  <2>2. QED
    BY <1>1, <2>1
<1>3. ~(h.count < h.count)
  BY <1>1
<1>4. QED
  BY <1>2, <1>3 DEF Live

(* Writing a Node{} leaves the strings and the other nodes alone: the node *)
(* is below all strings.                                                   *)
LEMMA AllocateGrows ==
    ASSUME NEW h, HeapOK(h), NEW type \in ValueTypes, CanAllocateNode(h)
    PROVE  LET g == AllocateNode(h, type)
           IN /\ Grown(g, h, type)
              /\ g.bytes = h.bytes
              /\ g.value[h.count] = NoRef /\ g.valueFlags[h.count] = FALSE
<1> DEFINE g == AllocateNode(h, type)
           id == h.count
<1>1. h \in Heaps /\ id \in Ids /\ id \notin Live(h) /\ id \in Nat
  BY NextIdFits, Counters DEF HeapOK
<1>2. Allocated(g, h, type)
  BY <1>1, AllocateFields
<1>3. /\ \A i \in Ids : /\ g.keyFlags[i] = IF i = id THEN FALSE ELSE h.keyFlags[i]
                        /\ g.valueFlags[i]
                              = IF i = id THEN FALSE ELSE h.valueFlags[i]
      /\ \A a \in Addresses :
            g.mem[a] = IF NodeBytes(id) <= a /\ a < NodeBytes(id + 1)
                       THEN Junk ELSE h.mem[a]
  BY <1>1 DEF AllocateNode, Heaps
<1> HIDE DEF g
<1>4. BytesKept(g, h)
  <2>1. NodeBytes(id + 1) <= Capacity - h.bytes
    BY DEF CanAllocateNode
  <2>2. NodeBytes(id + 1) \in Nat
    BY <1>1, SizesAssumption DEF NodeBytes
  <2>3. ASSUME NEW a \in Addresses, a >= Capacity - h.bytes
        PROVE  ~(a < NodeBytes(id + 1))
    BY <2>1, <2>2, <2>3, Counters DEF Addresses
  <2>4. h.bytes <= g.bytes
    BY <1>2, Counters DEF Allocated
  <2>5. QED
    BY <1>3, <2>3, <2>4 DEF BytesKept
<1>5. SameNodes(g, h) /\ FlagsKept(g, h)
  BY <1>1, <1>2, <1>3 DEF Allocated, SameNodes, FlagsKept, Live
<1>6. h.count <= g.count
  BY <1>1, <1>2 DEF Allocated
<1>7. Extends(g, h)
  BY <1>4, <1>5, <1>6 DEF Extends
<1>8. QED
  BY <1>1, <1>2, <1>3, <1>7 DEF g, Grown, Allocated

(* make_string() stores a text that is as long as what was checked, in a   *)
(* place no other string has.                                              *)
LEMMA MakeStringGrows ==
    ASSUME NEW h, HeapOK(h), NEW text \in Seq(Bytes),
           MakeStringError(h, text) = "Ok"
    PROVE  LET g == MakeString(h, text).heap
               ref == NextRef(AllocateNode(h, "String"), Len(text))
           IN /\ MakeString(h, text) = Success(g)
              /\ Grown(g, h, "String")
              /\ FreshValue(g, h, h.count, ref, NeedsEscape(text))
              /\ ViewString(g, g.value[h.count]) = text
<1> DEFINE node == AllocateNode(h, "String")
           copy == CopyString(node, text)
           ref == NextRef(node, Len(text))
           id == h.count
           flags == NeedsEscape(text)
           g == [copy EXCEPT !.value[id] = ref, !.valueFlags[id] = flags]
<1>1. CanAllocateNode(h) /\ AllocateStringError(node, Len(text)) = "Ok"
  BY MakeStringPrecheckExact
<1>2. MakeString(h, text) = Success(g)
  BY <1>1 DEF MakeString
<1>3. HeapOK(node) /\ Grown(node, h, "String") /\ node.bytes = h.bytes
      /\ node.value[id] = NoRef /\ node.valueFlags[id] = FALSE
  BY <1>1, AllocateKeepsForest, AllocateGrows DEF ValueTypes
<1>4. HasRoom(node, text) /\ WellFormed(text)
  BY <1>1 DEF HasRoom, MakeStringError
<1>5. HeapOK(copy) /\ Agree(copy, node) /\ BytesKept(copy, node)
  BY <1>3, <1>4, CopyKeepsForest, CopyKeepsBytes DEF HasRoom
<1>6. FreshString(copy, node, ref, flags)
  BY <1>3, <1>4, CopiedIsFresh
<1>7. copy.keyFlags = node.keyFlags /\ copy.valueFlags = node.valueFlags
  BY DEF CopyString
<1>v. ViewString(copy, ref) = text
  BY <1>3, <1>4, CopiedView
<1> HIDE DEF node, copy, ref, flags
<1>8. id \in Ids /\ id \notin Live(h) /\ Live(node) = Live(h) \cup {id}
  BY <1>3, GrownLive DEF Grown
<1>9. /\ g.count = copy.count /\ g.bytes = copy.bytes /\ g.mem = copy.mem
      /\ g.type = copy.type /\ g.parent = copy.parent
      /\ g.first = copy.first /\ g.last = copy.last
      /\ g.next = copy.next /\ g.key = copy.key
      /\ g.keyFlags = copy.keyFlags
      /\ \A i \in Ids :
            /\ g.value[i] = IF i = id THEN ref ELSE copy.value[i]
            /\ g.valueFlags[i] = IF i = id THEN flags ELSE copy.valueFlags[i]
  BY <1>5 DEF HeapOK, Heaps
<1> HIDE DEF g
<1>10. Live(copy) = Live(node) /\ Live(g) = Live(node)
  BY <1>5, <1>9 DEF Live, Agree
<1>11. BytesKept(copy, h) /\ BytesKept(g, h)
  <2>1. Extends(copy, node)
    <3>1. node.count <= copy.count
      BY <1>3, <1>5, Counters DEF Agree
    <3>2. QED
      BY <3>1, <1>5, <1>7 DEF Extends, Agree, FlagsKept
  <2>2. Extends(copy, h)
    BY <2>1, <1>3, <1>5, ExtendsTransitive DEF Grown
  <2>3. QED
    BY <2>2, <1>9 DEF Extends, BytesKept
<1>12. Grown(g, h, "String")
  <2>1. SameNodes(g, h) /\ FlagsKept(g, h)
    BY <1>3, <1>5, <1>7, <1>8, <1>9
       DEF Grown, Extends, SameNodes, FlagsKept, Agree, Live
  <2>2. g.count = h.count + 1 /\ h.count <= g.count
    BY <1>3, <1>5, <1>9 DEF Grown, Extends, Agree
  <2>3. QED
    BY <2>1, <2>2, <1>3, <1>5, <1>7, <1>8, <1>9, <1>11
       DEF Grown, Extends, Agree, SameNodes
<1>13. ViewString(g, ref) = ViewString(copy, ref)
  BY <1>9 DEF ViewString
<1>14. FreshString(g, h, ref, flags)
  BY <1>3, <1>6, <1>13 DEF FreshString, RefOK
<1>15. ASSUME NEW i \in Live(g)
       PROVE  /\ KeyFrom(g, h, i)
              /\ \/ ValueFrom(g, h, i)
                 \/ i = id /\ g.value[i] = ref /\ g.valueFlags[i] = flags
  <2>1. CASE i = id
    BY <2>1, <1>8, <1>9, <1>12 DEF Grown, KeyFrom
  <2>2. CASE i # id
    BY <2>2, <1>8, <1>10, <1>12
       DEF Grown, Extends, SameNodes, FlagsKept, KeyFrom, ValueFrom
  <2>3. QED
    BY <2>1, <2>2
<1>16. FreshValue(g, h, id, ref, flags)
  BY <1>11, <1>14, <1>15, FreshApart DEF FreshValue, FreshString
<1>17. g.value[id] = ref
  BY <1>8, <1>9
<1>18. MakeString(h, text).heap = g
  BY <1>2 DEF Success, g
<1>19. QED
  BY <1>2, <1>12, <1>13, <1>16, <1>17, <1>18, <1>v DEF g, ref, node, flags

(* Every maker.                                                            *)
LEMMA MakeGrows ==
    ASSUME NEW h, HeapOK(h), NEW item, Make(h, item).code = "Ok",
           item.type \in ValueTypes, item.text \in Seq(Bytes)
    PROVE  LET g == Make(h, item).heap
           IN /\ Grown(g, h, item.type)
              /\ ViewString(g, g.value[h.count])
                    = IF item.type = "String" THEN item.text ELSE <<>>
              /\ StringsOK(h) => StringsOK(g)
<1> DEFINE g == Make(h, item).heap
<1>0. ~(item.type = "Number" /\ ~item.finite)
  BY DEF Make, Failure
<1>1. CASE item.type = "String"
  <2>1. Make(h, item) = MakeString(h, item.text)
    BY <1>0, <1>1 DEF Make
  <2>2. MakeStringError(h, item.text) = "Ok"
    BY <2>1 DEF MakeString, Failure
  <2>3. QED
    BY <1>1, <2>1, <2>2, MakeStringGrows, FreshValueKeepsStrings
<1>2. CASE item.type # "String"
  <2>1. AllocateNodeError(h) = "Ok"
    BY <1>0, <1>2 DEF Make, Failure
  <2>2. CanAllocateNode(h) /\ g = AllocateNode(h, item.type)
    BY <1>0, <1>2, <2>1 DEF Make, AllocateNodeError, Success
  <2> HIDE DEF g
  <2>3. /\ Grown(g, h, item.type)
        /\ g.value[h.count] = NoRef /\ g.valueFlags[h.count] = FALSE
    BY <2>2, AllocateGrows
  <2>4. \A i \in Live(g) : KeyFrom(g, h, i) /\ ValueFrom(g, h, i)
    BY <2>3, GrownLive
       DEF Grown, Extends, SameNodes, FlagsKept, KeyFrom, ValueFrom
  <2>5. StringsOK(h) => StringsOK(g)
    BY <2>3, <2>4, LosingKeepsStrings DEF Grown, Extends
  <2>6. QED
    BY <1>2, <2>3, <2>5, NoRefView DEF g
<1>3. QED
  BY <1>1, <1>2

(* Going back to an earlier heap.                                          *)
LEMMA RollbackKeepsStrings ==
    ASSUME NEW h, HeapOK(h), NEW g \in Heaps, Extends(g, h)
    PROVE  LET r == Rollback(g, h)
           IN /\ r.count = h.count /\ r.bytes = h.bytes
              /\ Extends(r, h)
              /\ StringsOK(h) => StringsOK(r)
<1> DEFINE r == Rollback(g, h)
<1>1. /\ r.count = h.count /\ r.bytes = h.bytes /\ r.mem = g.mem
      /\ r.type = g.type /\ r.parent = g.parent
      /\ r.first = g.first /\ r.last = g.last /\ r.next = g.next
      /\ r.key = g.key /\ r.keyFlags = g.keyFlags
      /\ r.value = g.value /\ r.valueFlags = g.valueFlags
  BY DEF Rollback, Heaps
<1> HIDE DEF r
<1>2. Live(r) = Live(h)
  BY <1>1 DEF Live
<1>3. Extends(r, h)
  BY <1>1, Counters DEF Extends, SameNodes, FlagsKept, BytesKept
<1>4. StringsOK(h) => StringsOK(r)
  BY <1>2, <1>3, LosingKeepsStrings
     DEF Extends, SameNodes, FlagsKept, KeyFrom, ValueFrom
<1>5. QED
  BY <1>1, <1>3, <1>4 DEF r

-----------------------------------------------------------------------------
(* Attaching and unlinking.                                                *)

(* How appending a child, and taking one out, change the links.            *)
LinksAppended(g, h, p, c) ==
    \A i \in Ids :
        /\ g.parent[i] = IF i = c THEN p ELSE h.parent[i]
        /\ g.next[i] = IF i = c THEN Nil
                       ELSE IF i = h.last[p] THEN c ELSE h.next[i]
        /\ g.first[i] = IF i = p /\ h.last[p] = Nil THEN c ELSE h.first[i]
        /\ g.last[i] = IF i = p THEN c ELSE h.last[i]

LinksUnlinked(g, h, p, q, c) ==
    \A i \in Ids :
        /\ g.parent[i] = IF i = c THEN Nil ELSE h.parent[i]
        /\ g.next[i] = IF i = c THEN Nil
                       ELSE IF i = q THEN h.next[c] ELSE h.next[i]
        /\ g.first[i] = IF i = p /\ q = Nil THEN h.next[c] ELSE h.first[i]
        /\ g.last[i] = IF i = p /\ h.last[p] = c THEN q ELSE h.last[i]

(* The key of c has been set, and nothing else but links has changed.      *)
OnlyKeySet(g, h, c, ref, flags) ==
    /\ g.count = h.count /\ g.type = h.type
    /\ g.value = h.value /\ g.valueFlags = h.valueFlags
    /\ BytesKept(g, h)
    /\ \A i \in Ids : /\ g.key[i] = IF i = c THEN ref ELSE h.key[i]
                      /\ g.keyFlags[i] = IF i = c THEN flags ELSE h.keyFlags[i]

(* What the key of a child of p can be: an array gives none, and a key     *)
(* without bytes has none that need an escape.                             *)
KeyFits(h, p, ref, flags) ==
    \/ h.type[p] = "Object" /\ (ref = NoRef => flags = FALSE)
    \/ h.type[p] = "Array" /\ ref = NoRef /\ flags = FALSE

(* The flag of a good text that is empty.                                  *)
LEMMA EmptyNeedsNoEscape ==
    ASSUME NEW h, NEW ref, NEW flags, GoodText(ViewString(h, ref), flags)
    PROVE  ref = NoRef => flags = FALSE
BY NoRefView, EmptyIsGood DEF GoodText

(* c has been attached to p, under the key at ref if p is an object.       *)
Attached(g, h, p, c, ref, flags) ==
    /\ p \in Live(h) /\ c \in Live(h)
    /\ h.parent[c] = Nil /\ c \notin Ancestors(h, p)
    /\ KeyFits(h, p, ref, flags)
    /\ LinksAppended(g, h, p, c)
    /\ OnlyKeySet(g, h, c, ref, flags)

(* c, which follows q, has been taken out of p.                            *)
TakenOut(g, h, p, q, c) ==
    /\ p \in Live(h) /\ c \in Live(h) /\ h.parent[c] = p
    /\ IF h.first[p] = c THEN q = Nil
       ELSE q \in Live(h) /\ h.parent[q] = p /\ h.next[q] = c
    /\ LinksUnlinked(g, h, p, q, c)
    /\ OnlyKeySet(g, h, c, NoRef, FALSE)

(* Setting a key and then appending the node.                              *)
LEMMA AppendAttaches ==
    ASSUME NEW h, HeapOK(h), NEW k, k \in Heaps,
           k.count = h.count, k.type = h.type, k.parent = h.parent,
           k.first = h.first, k.last = h.last, k.next = h.next,
           k.key = h.key, k.keyFlags = h.keyFlags,
           k.value = h.value, k.valueFlags = h.valueFlags, BytesKept(k, h),
           NEW p \in Live(h), NEW c \in Live(h), h.parent[c] = Nil,
           c \notin Ancestors(h, p), NEW ref \in StringRefs, NEW flags \in BOOLEAN,
           KeyFits(h, p, ref, flags)
    PROVE  LET g == AppendChild(SetKey(k, c, ref, flags), p, c)
           IN Attached(g, h, p, c, ref, flags) /\ g.bytes = k.bytes
                                               /\ g.mem = k.mem
<1> DEFINE s == SetKey(k, c, ref, flags)
           g == AppendChild(s, p, c)
<1>1. p \in Ids /\ c \in Ids
  BY LinksStayLive
<1>2. /\ s \in Heaps
      /\ s.count = h.count /\ s.bytes = k.bytes /\ s.mem = k.mem
      /\ s.type = h.type /\ s.parent = h.parent
      /\ s.first = h.first /\ s.last = h.last /\ s.next = h.next
      /\ s.value = h.value /\ s.valueFlags = h.valueFlags
      /\ \A i \in Ids :
            /\ s.key[i] = IF i = c THEN ref ELSE h.key[i]
            /\ s.keyFlags[i] = IF i = c THEN flags ELSE h.keyFlags[i]
  BY <1>1 DEF SetKey, Heaps
<1> HIDE DEF s
<1>3. Appended(g, s, p, c)
  BY <1>1, <1>2, AppendFields
<1> HIDE DEF g
<1>4. LinksAppended(g, h, p, c)
  BY <1>2, <1>3 DEF Appended, LinksAppended
<1>5. OnlyKeySet(g, h, c, ref, flags)
  BY <1>2, <1>3 DEF Appended, OnlyKeySet, BytesKept
<1>6. g.bytes = k.bytes /\ g.mem = k.mem
  BY <1>2, <1>3 DEF Appended
<1>7. QED
  BY <1>4, <1>5, <1>6 DEF Attached, g, s

(* Array::add(Value).                                                      *)
LEMMA ArrayAttaches ==
    ASSUME NEW h, HeapOK(h), NEW generation,
           NEW parent, parent.id \in Nat, NEW child, child.id \in Nat,
           ArrayAttach(h, generation, parent, child).code = "Ok"
    PROVE  LET g == ArrayAttach(h, generation, parent, child).heap
           IN /\ Attached(g, h, parent.id, child.id, NoRef, FALSE)
              /\ h.type[parent.id] = "Array" /\ g.bytes = h.bytes
              /\ StringsOK(h) => StringsOK(g)
<1> DEFINE p == parent.id
           c == child.id
           g == AppendChild(SetKey(h, c, NoRef, FALSE), p, c)
<1>1. ValidateAttachment(h, generation, parent, child, "Array") = "Ok"
  BY DEF ArrayAttach, Failure
<1>2. /\ p \in Live(h) /\ c \in Live(h) /\ h.type[p] = "Array"
      /\ h.parent[c] = Nil /\ c \notin Ancestors(h, p)
  BY <1>1, ValidateIsEnough DEF Containers
<1>3. BytesKept(h, h) /\ h \in Heaps
  BY Counters DEF BytesKept
<1>4. ArrayAttach(h, generation, parent, child).heap = g
  BY <1>1 DEF ArrayAttach, Success
<1>5. Attached(g, h, p, c, NoRef, FALSE) /\ g.bytes = h.bytes
  <2> DEFINE flags == FALSE
             k == AppendChild(SetKey(h, c, NoRef, flags), p, c)
  <2>1. NoRef \in StringRefs /\ flags \in BOOLEAN /\ KeyFits(h, p, NoRef, flags)
    BY <1>2, NoRefTyped DEF KeyFits
  <2> HIDE DEF p, c, flags
  <2>2. Attached(k, h, p, c, NoRef, flags) /\ k.bytes = h.bytes
    BY <1>2, <1>3, <2>1, AppendAttaches
  <2>3. QED
    BY <2>2 DEF flags
<1> HIDE DEF g
<1>6. StringsOK(h) => StringsOK(g)
  <2>1. \A i \in Live(g) : KeyFrom(g, h, i) /\ ValueFrom(g, h, i)
    BY <1>5 DEF Attached, OnlyKeySet, KeyFrom, ValueFrom, Live
  <2>2. QED
    BY <1>5, <2>1, LosingKeepsStrings DEF Attached, OnlyKeySet
<1>7. QED
  BY <1>2, <1>4, <1>5, <1>6

(* Object::add(key, Value).                                                *)
LEMMA ObjectAttaches ==
    ASSUME NEW h, HeapOK(h), NEW generation, NEW key \in Seq(Bytes),
           NEW parent, parent.id \in Nat, NEW child, child.id \in Nat,
           ObjectAttach(h, generation, parent, key, child).code = "Ok"
    PROVE  LET g == ObjectAttach(h, generation, parent, key, child).heap
           IN /\ Attached(g, h, parent.id, child.id, NextRef(h, Len(key)),
                          NeedsEscape(key))
              /\ h.type[parent.id] = "Object"
              /\ ViewString(g, g.key[child.id]) = key
              /\ StringsOK(h) => StringsOK(g)
<1> DEFINE p == parent.id
           c == child.id
           copy == CopyString(h, key)
           ref == NextRef(h, Len(key))
           flags == NeedsEscape(key)
           g == AppendChild(SetKey(copy, c, ref, flags), p, c)
<1>1. /\ ValidateAttachment(h, generation, parent, child, "Object") = "Ok"
      /\ StoreStringError(h, key) = "Ok"
  BY DEF ObjectAttach, Failure
<1>2. /\ p \in Live(h) /\ c \in Live(h) /\ h.type[p] = "Object"
      /\ h.parent[c] = Nil /\ c \notin Ancestors(h, p)
  BY <1>1, ValidateIsEnough DEF Containers
<1>3. HasRoom(h, key) /\ WellFormed(key)
  BY <1>1 DEF HasRoom, StoreStringError
<1>4. copy \in Heaps /\ BytesKept(copy, h) /\ ref \in StringRefs
  BY <1>3, CopyKeepsForest, CopyKeepsBytes, NextRefFits DEF HasRoom, HeapOK
<1>5. ObjectAttach(h, generation, parent, key, child).heap = g
  BY <1>1 DEF ObjectAttach, Success
<1>6. /\ copy.count = h.count /\ copy.type = h.type /\ copy.parent = h.parent
      /\ copy.first = h.first /\ copy.last = h.last /\ copy.next = h.next
      /\ copy.key = h.key /\ copy.keyFlags = h.keyFlags
      /\ copy.value = h.value /\ copy.valueFlags = h.valueFlags
  BY DEF CopyString
<1>7. FreshString(copy, h, ref, flags) /\ ViewString(copy, ref) = key
  BY <1>3, CopiedIsFresh, CopiedView
<1> HIDE DEF copy, ref
<1>8. flags \in BOOLEAN /\ KeyFits(h, p, ref, flags)
  <2>1. flags \in BOOLEAN
    BY DEF NeedsEscape
  <2> HIDE DEF flags
  <2>2. ref = NoRef => flags = FALSE
    BY <1>7, EmptyNeedsNoEscape DEF FreshString
  <2>3. QED
    BY <1>2, <2>1, <2>2 DEF KeyFits
<1> HIDE DEF flags
<1>9. Attached(g, h, p, c, ref, flags) /\ g.bytes = copy.bytes
      /\ g.mem = copy.mem
  BY <1>2, <1>4, <1>6, <1>8, AppendAttaches
<1> HIDE DEF g
<1>10. ViewString(g, ref) = ViewString(copy, ref)
  BY <1>9 DEF ViewString
<1>11. c \in Ids /\ g.key[c] = ref
  BY <1>2, <1>9, LinksStayLive DEF Attached, OnlyKeySet
<1>12. StringsOK(h) => StringsOK(g)
  <2>1. \A i \in Live(g) :
           /\ ValueFrom(g, h, i)
           /\ \/ KeyFrom(g, h, i)
              \/ i = c /\ g.key[i] = ref /\ g.keyFlags[i] = flags
    BY <1>9 DEF Attached, OnlyKeySet, KeyFrom, ValueFrom, Live
  <2>2. FreshKey(g, h, c, ref, flags)
    BY <1>7, <1>9, <1>10, <2>1, FreshApart
       DEF FreshKey, FreshString, Attached, OnlyKeySet
  <2>3. QED
    BY <2>2, FreshKeyKeepsStrings
<1>13. QED
  BY <1>2, <1>5, <1>7, <1>9, <1>10, <1>11, <1>12 DEF ref, flags

(* Object::remove and detach.                                              *)
LEMMA TakeOutUnlinks ==
    ASSUME NEW h, HeapOK(h), NEW p \in Live(h), NEW c \in Siblings(h, p)
    PROVE  /\ TakenOut(TakeOut(h, p, c), h, p, Previous(h, p, c), c)
           /\ TakeOut(h, p, c).bytes = h.bytes
           /\ StringsOK(h) => StringsOK(TakeOut(h, p, c))
<1> DEFINE q == Previous(h, p, c)
           g == UnlinkChild(h, p, q, c)
<1>1. c \in Live(h) /\ h.parent[c] = p
  BY SiblingsAreChildren
<1>2. p \in Ids /\ c \in Ids /\ h \in Heaps
  BY <1>1, LinksStayLive DEF HeapOK
<1>3. IF h.first[p] = c THEN q = Nil
      ELSE q \in Live(h) /\ h.parent[q] = p /\ h.next[q] = c
  BY PreviousExists
<1>4. g = TakeOut(h, p, c)
  BY DEF TakeOut
<1>5. q \in Ids \cup {Nil}
  BY <1>3, LinksStayLive
<1> HIDE DEF q
<1>6. Unlinked(g, h, p, q, c)
  BY <1>2, <1>5, UnlinkFields
<1>7. \A i \in Ids : g.keyFlags[i] = IF i = c THEN FALSE ELSE h.keyFlags[i]
  BY <1>2 DEF UnlinkChild, Heaps
<1> HIDE DEF g
<1>8. OnlyKeySet(g, h, c, NoRef, FALSE)
  <2>1. BytesKept(g, h)
    BY <1>6, Counters DEF Unlinked, BytesKept
  <2>2. \A i \in Ids : g.key[i] = IF i = c THEN NoRef ELSE h.key[i]
    BY <1>6 DEF Unlinked
  <2>3. /\ g.count = h.count /\ g.type = h.type
        /\ g.value = h.value /\ g.valueFlags = h.valueFlags
    BY <1>6 DEF Unlinked
  <2>4. QED
    BY <2>1, <2>2, <2>3, <1>7 DEF OnlyKeySet
<1>9. TakenOut(g, h, p, q, c)
  BY <1>1, <1>3, <1>6, <1>8 DEF Unlinked, LinksUnlinked, TakenOut
<1>10. StringsOK(h) => StringsOK(g)
  <2>1. \A i \in Live(g) : KeyFrom(g, h, i) /\ ValueFrom(g, h, i)
    BY <1>8 DEF OnlyKeySet, KeyFrom, ValueFrom, Live
  <2>2. QED
    BY <1>8, <2>1, LosingKeepsStrings DEF OnlyKeySet
<1>11. QED
  BY <1>4, <1>6, <1>9, <1>10 DEF q, Unlinked

(* Attaching a node that was not there to one that was not there leaves    *)
(* what was there as it was.                                               *)
LEMMA AttachedBeyond ==
    ASSUME NEW h, HeapOK(h), NEW before, HeapOK(before), Extends(h, before),
           NEW g, g.bytes \in Nat, NEW p, NEW c, NEW ref, NEW flags,
           p \in Live(h), c \in Live(h), LinksAppended(g, h, p, c),
           OnlyKeySet(g, h, c, ref, flags),
           p \notin Live(before), c \notin Live(before)
    PROVE  Extends(g, before)
<1>1. Live(before) \subseteq Live(h)
  BY Counters, LiveGrows DEF Extends
<1>2. /\ Live(before) \subseteq Ids /\ Nil \notin Ids
      /\ p \in Ids /\ p \in Live(h) /\ c \in Live(h)
  BY LinksStayLive, IdsBelowNil
<1>3. h.last[p] \notin Live(before)
  <2> SUFFICES ASSUME h.last[p] \in Live(before) PROVE FALSE
    OBVIOUS
  <2>1. h.parent[h.last[p]] = p
    BY <1>2 DEF HeapOK, ForestOK, LinksOK, EndsOK
  <2>2. before.parent[h.last[p]] = p
    BY <2>1 DEF Extends, SameNodes
  <2>3. QED
    BY <1>2, <2>2, LinksStayLive
<1>4. ASSUME NEW i \in Live(before)
      PROVE  /\ g.type[i] = h.type[i] /\ g.parent[i] = h.parent[i]
             /\ g.first[i] = h.first[i] /\ g.last[i] = h.last[i]
             /\ g.next[i] = h.next[i]
             /\ g.key[i] = h.key[i] /\ g.value[i] = h.value[i]
             /\ g.keyFlags[i] = h.keyFlags[i]
             /\ g.valueFlags[i] = h.valueFlags[i]
  BY <1>2, <1>3 DEF LinksAppended, OnlyKeySet
<1>5. SameNodes(g, before) /\ FlagsKept(g, before)
  BY <1>4 DEF Extends, SameNodes, FlagsKept
<1>6. BytesKept(g, before)
  <2>1. \A a \in Addresses : a >= Capacity - before.bytes
                                => a >= Capacity - h.bytes
    BY Counters DEF Extends, BytesKept, Addresses
  <2>2. \A a \in Addresses : a >= Capacity - before.bytes
                                => g.mem[a] = before.mem[a]
    BY <2>1 DEF Extends, BytesKept, OnlyKeySet
  <2>3. before.bytes <= g.bytes
    BY Counters DEF Extends, BytesKept, OnlyKeySet
  <2>4. QED
    BY <2>2, <2>3 DEF BytesKept
<1>7. QED
  BY <1>5, <1>6 DEF Extends, OnlyKeySet

-----------------------------------------------------------------------------
(* Keys.                                                                   *)

Member(h, i) == h.parent[i] # Nil /\ h.type[h.parent[i]] = "Object"

(* Only a member of an object has a key, and one without bytes needs no    *)
(* escape.                                                                 *)
KeysAtHome(h) ==
    \A i \in Live(h) :
        IF Member(h, i) THEN h.key[i] = NoRef => ~h.keyFlags[i]
                        ELSE h.key[i] = NoRef

(* A node that is no member has no flag left either.                       *)
KeysOK(h) ==
    /\ KeysAtHome(h)
    /\ \A i \in Live(h) : ~Member(h, i) => ~h.keyFlags[i]

(* Nodes with the keys, the flags and the parents they had.                *)
LEMMA SameKeys ==
    ASSUME NEW h, HeapOK(h), NEW g, NEW i \in Live(h),
           g.key[i] = h.key[i], g.keyFlags[i] = h.keyFlags[i],
           g.parent[i] = h.parent[i],
           \A j \in Live(h) : g.type[j] = h.type[j]
    PROVE  /\ Member(g, i) = Member(h, i)
           /\ KeysAtHome(h) => IF Member(g, i)
                                THEN g.key[i] = NoRef => ~g.keyFlags[i]
                                ELSE g.key[i] = NoRef
           /\ KeysOK(h) /\ ~Member(g, i) => ~g.keyFlags[i]
<1>1. Member(g, i) = Member(h, i)
  BY LinksStayLive DEF Member
<1>2. QED
  BY <1>1 DEF KeysAtHome, KeysOK

(* A new node has no key.                                                  *)
LEMMA GrownKeys ==
    ASSUME NEW h, HeapOK(h), NEW g, NEW type, Grown(g, h, type)
    PROVE  /\ KeysAtHome(h) => KeysAtHome(g)
           /\ KeysOK(h) => KeysOK(g)
<1>1. Live(g) = Live(h) \cup {h.count}
  BY GrownLive DEF Grown
<1>2. /\ ~Member(g, h.count) /\ g.key[h.count] = NoRef
      /\ g.keyFlags[h.count] = FALSE
  BY DEF Member, Grown
<1>3. \A i \in Live(h) :
         /\ g.key[i] = h.key[i] /\ g.keyFlags[i] = h.keyFlags[i]
         /\ g.parent[i] = h.parent[i] /\ g.type[i] = h.type[i]
  BY DEF Grown, Extends, SameNodes, FlagsKept
<1>4. KeysAtHome(h) => KeysAtHome(g)
  BY <1>1, <1>2, <1>3, SameKeys DEF KeysAtHome
<1>5. QED
  BY <1>1, <1>2, <1>3, <1>4, SameKeys DEF KeysOK

(* A heap that has gone back has the keys it had.                          *)
LEMMA ExtendedKeys ==
    ASSUME NEW h, HeapOK(h), NEW g, Extends(g, h), g.count = h.count
    PROVE  /\ KeysAtHome(h) => KeysAtHome(g)
           /\ KeysOK(h) => KeysOK(g)
<1>1. Live(g) = Live(h)
  BY DEF Live
<1>2. \A i \in Live(h) :
         /\ g.key[i] = h.key[i] /\ g.keyFlags[i] = h.keyFlags[i]
         /\ g.parent[i] = h.parent[i] /\ g.type[i] = h.type[i]
  BY DEF Extends, SameNodes, FlagsKept
<1>3. KeysAtHome(h) => KeysAtHome(g)
  BY <1>1, <1>2, SameKeys DEF KeysAtHome
<1>4. QED
  BY <1>1, <1>2, <1>3, SameKeys DEF KeysOK

(* A node is attached to an object with a key, to an array without.        *)
LEMMA AttachedKeys ==
    ASSUME NEW h, HeapOK(h), NEW g, NEW p, NEW c, NEW ref, NEW flags,
           Attached(g, h, p, c, ref, flags)
    PROVE  /\ KeysAtHome(h) => KeysAtHome(g)
           /\ KeysOK(h) => KeysOK(g)
<1>1. /\ Live(g) = Live(h) /\ Live(h) \subseteq Ids /\ Nil \notin Ids
      /\ p \in Live(h) /\ c \in Live(h)
  BY LinksStayLive, IdsBelowNil DEF Attached, OnlyKeySet, Live
<1>2. /\ g.key[c] = ref /\ g.keyFlags[c] = flags /\ g.parent[c] = p
      /\ g.type = h.type /\ KeyFits(h, p, ref, flags)
  BY <1>1 DEF Attached, OnlyKeySet, LinksAppended
<1>3. \A i \in Live(h) \ {c} :
         /\ g.key[i] = h.key[i] /\ g.keyFlags[i] = h.keyFlags[i]
         /\ g.parent[i] = h.parent[i]
  BY <1>1 DEF Attached, OnlyKeySet, LinksAppended
<1>4. p # Nil
  BY <1>1
<1>5. /\ IF Member(g, c) THEN g.key[c] = NoRef => ~g.keyFlags[c]
                         ELSE g.key[c] = NoRef
      /\ ~Member(g, c) => ~g.keyFlags[c]
  <2>1. CASE h.type[p] = "Object" /\ (ref = NoRef => flags = FALSE)
    BY <1>2, <1>4, <2>1 DEF Member
  <2>2. CASE h.type[p] = "Array" /\ ref = NoRef /\ flags = FALSE
    BY <1>2, <1>4, <2>2 DEF Member
  <2>3. QED
    BY <1>2, <2>1, <2>2 DEF KeyFits
<1>6. KeysAtHome(h) => KeysAtHome(g)
  BY <1>1, <1>2, <1>3, <1>5, SameKeys DEF KeysAtHome
<1>7. QED
  BY <1>1, <1>2, <1>3, <1>5, <1>6, SameKeys DEF KeysOK

(* A node that is taken out leaves its key behind.                         *)
LEMMA TakenOutKeys ==
    ASSUME NEW h, HeapOK(h), NEW g, NEW p, NEW q, NEW c,
           TakenOut(g, h, p, q, c)
    PROVE  /\ KeysAtHome(h) => KeysAtHome(g)
           /\ KeysOK(h) => KeysOK(g)
<1>1. /\ Live(g) = Live(h) /\ Live(h) \subseteq Ids /\ c \in Live(h)
  BY LinksStayLive DEF TakenOut, OnlyKeySet, Live
<1>2. /\ g.key[c] = NoRef /\ g.keyFlags[c] = FALSE /\ g.parent[c] = Nil
      /\ g.type = h.type
  BY <1>1 DEF TakenOut, OnlyKeySet, LinksUnlinked
<1>3. \A i \in Live(h) \ {c} :
         /\ g.key[i] = h.key[i] /\ g.keyFlags[i] = h.keyFlags[i]
         /\ g.parent[i] = h.parent[i]
  BY <1>1 DEF TakenOut, OnlyKeySet, LinksUnlinked
<1>4. ~Member(g, c)
  BY <1>2 DEF Member
<1>5. KeysAtHome(h) => KeysAtHome(g)
  BY <1>1, <1>2, <1>3, <1>4, SameKeys DEF KeysAtHome
<1>6. QED
  BY <1>1, <1>2, <1>3, <1>4, <1>5, SameKeys DEF KeysOK

-----------------------------------------------------------------------------
(* The order of children: which nodes come after one on its list.          *)

(* Those after a node have the same parent.                                *)
LEMMA ReachSameParent ==
    ASSUME NEW h, HeapOK(h), NEW a \in Live(h)
    PROVE  /\ a \in Reach(h.next, a)
           /\ \A d \in Reach(h.next, a) : d \in Live(h) /\ h.parent[d] = h.parent[a]
<1> DEFINE S == {d \in Live(h) : h.parent[d] = h.parent[a]}
<1>1. Live(h) \subseteq Ids
  BY LinksStayLive
<1>2. \A y \in S : h.next[y] \in Ids => h.next[y] \in S
  BY LinksStayLive, IdsBelowNil DEF HeapOK, ForestOK, LinksOK, NextOK
<1>3. a \in S
  OBVIOUS
<1> HIDE DEF S
<1>4. Reach(h.next, a) \subseteq S
  BY <1>1, <1>2, <1>3, ReachLeast DEF S
<1>5. QED
  BY <1>1, <1>4, ReachStart DEF S

(* The last child comes after every child.                                 *)
LEMMA LastIsAfter ==
    ASSUME NEW h, HeapOK(h), NEW a \in Live(h), h.parent[a] # Nil
    PROVE  h.last[h.parent[a]] \in Reach(h.next, a)
<1> DEFINE S == Reach(h.next, a)
<1>1. S \in (SUBSET Live(h)) \ {{}}
  BY ReachSameParent
<1>2. PICK x \in S : h.next[x] \notin S
  BY <1>1 DEF HeapOK, ForestOK, NextAcyclic
<1>3. h.next[x] \notin Ids
  BY <1>2, ReachStep
<1>4. x \in Live(h) /\ h.parent[x] = h.parent[a]
  BY ReachSameParent
<1>5. h.next[x] = Nil
  BY <1>3, <1>4, LinksStayLive
<1>6. h.last[h.parent[x]] = x
  BY <1>4, <1>5 DEF HeapOK, ForestOK, LinksOK, NextOK
<1>7. QED
  BY <1>4, <1>6

(* No node comes after itself, and the last child has no next sibling.     *)
LEMMA NextIsOther ==
    ASSUME NEW h, HeapOK(h), NEW a \in Live(h)
    PROVE  h.next[a] # a
<1>1. {a} \in (SUBSET Live(h)) \ {{}}
  OBVIOUS
<1>2. \E x \in {a} : h.next[x] \notin {a}
  BY <1>1 DEF HeapOK, ForestOK, NextAcyclic
<1>3. QED
  BY <1>2

(* Where the links of the live nodes are kept, so is the order.            *)
LEMMA SameNextSameOrder ==
    ASSUME NEW h, HeapOK(h), NEW g, \A i \in Live(h) : g.next[i] = h.next[i],
           NEW a \in Live(h)
    PROVE  Reach(g.next, a) = Reach(h.next, a)
<1>1. Live(h) \subseteq Ids
  BY LinksStayLive
<1>2. Reach(g.next, a) \subseteq Reach(h.next, a)
  <2>1. \A y \in Reach(h.next, a) :
           g.next[y] \in Ids => g.next[y] \in Reach(h.next, a)
    BY ReachStep, ReachSameParent
  <2>2. QED
    BY <2>1, ReachIds, ReachSameParent, ReachLeast
<1>3. Reach(h.next, a) \subseteq Reach(g.next, a)
  <2> DEFINE S == Reach(g.next, a) \cap Live(h)
  <2>1. \A y \in S : h.next[y] \in Ids => h.next[y] \in S
    BY ReachStep, LinksStayLive, IdsBelowNil
  <2>2. a \in S /\ S \in SUBSET Ids
    BY <1>1, ReachStart
  <2> HIDE DEF S
  <2>3. Reach(h.next, a) \subseteq S
    BY <2>1, <2>2, ReachLeast
  <2>4. QED
    BY <2>3 DEF S
<1>4. QED
  BY <1>2, <1>3

(* A child that is appended comes after the children that were there, and  *)
(* nothing comes after it.                                                 *)
LEMMA AttachedOrder ==
    ASSUME NEW h, HeapOK(h), NEW g, NEW p, NEW c, NEW ref, NEW flags,
           Attached(g, h, p, c, ref, flags)
    PROVE  /\ Reach(g.next, c) = {c}
           /\ \A a \in Live(h) \ {c} :
                 Reach(g.next, a)
                   = Reach(h.next, a) \cup (IF h.parent[a] = p THEN {c} ELSE {})
<1>1. /\ p \in Live(h) /\ c \in Live(h) /\ h.parent[c] = Nil
      /\ p \in Ids /\ c \in Ids /\ Nil \notin Ids /\ Live(h) \subseteq Ids
  BY LinksStayLive, IdsBelowNil DEF Attached
<1>2. \A i \in Ids : g.next[i] = IF i = c THEN Nil
                                ELSE IF i = h.last[p] THEN c ELSE h.next[i]
  BY DEF Attached, LinksAppended
<1>3. h.next[c] = Nil
  BY <1>1 DEF HeapOK, ForestOK, LinksOK, ParentOK
<1>4. h.last[p] \in Ids =>
         /\ h.last[p] \in Live(h) /\ h.parent[h.last[p]] = p
         /\ h.next[h.last[p]] = Nil /\ h.last[p] # c
  BY <1>1 DEF HeapOK, ForestOK, LinksOK, EndsOK
<1>5. Reach(g.next, c) = {c}
  <2> DEFINE S == {c}
  <2>1. /\ S \in SUBSET Ids /\ c \in S
        /\ \A y \in S : g.next[y] \in Ids => g.next[y] \in S
    BY <1>1, <1>2
  <2> HIDE DEF S
  <2>2. Reach(g.next, c) \subseteq S
    BY <2>1, ReachLeast
  <2>3. QED
    BY <2>2, <1>1, ReachStart DEF S
<1>6. ASSUME NEW a \in Live(h) \ {c}
      PROVE  Reach(g.next, a)
               = Reach(h.next, a) \cup (IF h.parent[a] = p THEN {c} ELSE {})
  <2> DEFINE new == IF h.parent[a] = p THEN {c} ELSE {}
             S == Reach(h.next, a) \cup new
  <2>1. /\ a \in Reach(h.next, a)
        /\ \A d \in Reach(h.next, a) : d \in Live(h) /\ h.parent[d] = h.parent[a]
    BY ReachSameParent
  <2>2. c \notin Reach(h.next, a)
    <3>1. CASE h.parent[a] # Nil
      BY <3>1, <2>1, <1>1
    <3>2. CASE h.parent[a] = Nil
      <4>1. h.next[a] = Nil
        BY <3>2 DEF HeapOK, ForestOK, LinksOK, ParentOK
      <4>2. \A y \in {a} : h.next[y] \in Ids => h.next[y] \in {a}
        BY <4>1, <1>1
      <4>3. Reach(h.next, a) \subseteq {a}
        BY <4>2, <1>1, ReachLeast, ZenonT(30)
      <4>4. QED
        BY <4>3
    <3>3. QED
      BY <3>1, <3>2
  <2>3. Reach(g.next, a) \subseteq S
    <3>1. ASSUME NEW y \in S, g.next[y] \in Ids PROVE g.next[y] \in S
      <4>1. y # c
        BY <3>1, <1>1, <1>2
      <4>2. y \in Reach(h.next, a) /\ y \in Ids
        BY <3>1, <4>1, ReachIds
      <4>3. CASE y = h.last[p]
        BY <4>1, <4>2, <4>3, <1>2, <1>4, <2>1
      <4>4. CASE y # h.last[p]
        BY <4>1, <4>2, <4>4, <1>2, <3>1, ReachStep
      <4>5. QED
        BY <4>3, <4>4
    <3>2. a \in S /\ S \in SUBSET Ids
      BY <2>1, <1>1, ReachIds
    <3> HIDE DEF S
    <3>3. QED
      BY <3>1, <3>2, ReachLeast
  <2>4. Reach(h.next, a) \subseteq Reach(g.next, a)
    <3>1. ASSUME NEW y \in Reach(g.next, a), h.next[y] \in Ids
          PROVE  h.next[y] \in Reach(g.next, a)
      <4>1. y # c /\ y # h.last[p] /\ y \in Ids
        BY <3>1, <1>1, <1>3, <1>4, ReachIds
      <4>2. g.next[y] = h.next[y]
        BY <4>1, <1>2
      <4>3. QED
        BY <4>2, <3>1, ReachStep
    <3>2. a \in Reach(g.next, a) /\ Reach(g.next, a) \in SUBSET Ids
      BY <1>1, ReachStart, ReachIds
    <3>3. QED
      BY <3>1, <3>2, ReachLeast
  <2>5. h.parent[a] = p => c \in Reach(g.next, a)
    <3>1. h.parent[a] = p => h.last[p] \in Reach(g.next, a)
      BY <2>4, <1>1, LastIsAfter
    <3>2. h.last[p] \in Ids => g.next[h.last[p]] = c
      BY <1>2, <1>4
    <3>3. QED
      BY <3>1, <3>2, <1>1, ReachIds, ReachStep
  <2>6. QED
    BY <2>3, <2>4, <2>5
<1>7. QED
  BY <1>5, <1>6

(* Taking a child out leaves the others in their order.                    *)
LEMMA TakenOutOrder ==
    ASSUME NEW h, HeapOK(h), NEW g, NEW p, NEW q, NEW c,
           TakenOut(g, h, p, q, c), NEW a \in Live(h) \ {c}
    PROVE  Reach(g.next, a) = Reach(h.next, a) \ {c}
<1>1. /\ p \in Live(h) /\ c \in Live(h) /\ h.parent[c] = p
      /\ p \in Ids /\ c \in Ids /\ Nil \notin Ids /\ Live(h) \subseteq Ids
      /\ IF h.first[p] = c THEN q = Nil
         ELSE q \in Live(h) /\ h.parent[q] = p /\ h.next[q] = c
  BY LinksStayLive, IdsBelowNil DEF TakenOut
<1>2. \A i \in Ids : g.next[i] = IF i = c THEN Nil
                                ELSE IF i = q THEN h.next[c] ELSE h.next[i]
  BY DEF TakenOut, LinksUnlinked
<1>3. h.next[c] # c
  BY <1>1, NextIsOther
<1>4. \A y \in Live(h) : h.next[y] = c => y = q
  BY <1>1 DEF HeapOK, ForestOK, LinksOK, NextOK, EndsOK
<1>5. q \in Ids => h.next[q] = c
  BY <1>1
<1>6. Reach(g.next, a) \subseteq Reach(h.next, a) \ {c}
  <2> DEFINE S == Reach(h.next, a) \ {c}
  <2>1. ASSUME NEW y \in S, g.next[y] \in Ids PROVE g.next[y] \in S
    <3>1. y # c /\ y \in Ids /\ y \in Live(h)
      BY ReachIds, ReachSameParent
    <3>2. CASE y = q
      <4>1. h.next[y] = c /\ g.next[y] = h.next[c]
        BY <3>1, <3>2, <1>2, <1>5
      <4>2. c \in Reach(h.next, a)
        BY <4>1, <1>1, ReachStep
      <4>3. QED
        BY <4>1, <4>2, <2>1, <1>3, ReachStep
    <3>3. CASE y # q
      <4>1. g.next[y] = h.next[y] /\ h.next[y] # c
        BY <3>1, <3>3, <1>2, <1>4
      <4>2. QED
        BY <4>1, <2>1, ReachStep
    <3>4. QED
      BY <3>2, <3>3
  <2>2. a \in S /\ S \in SUBSET Ids
    BY <1>1, ReachStart, ReachIds
  <2> HIDE DEF S
  <2>3. Reach(g.next, a) \subseteq S
    BY <2>1, <2>2, ReachLeast
  <2>4. QED
    BY <2>3 DEF S
<1>7. Reach(h.next, a) \subseteq Reach(g.next, a) \cup {c}
  <2> DEFINE R == Reach(g.next, a)
             S == R \cup (IF q \in R THEN {c} ELSE {})
  <2>1. ASSUME NEW y \in S, h.next[y] \in Ids PROVE h.next[y] \in S
    <3>1. y \in Ids
      BY <2>1, <1>1, ReachIds
    <3>2. CASE y = c
      <4>1. q \in R /\ q \in Ids
        BY <2>1, <3>2, <1>6, ReachIds
      <4>2. g.next[q] = h.next[c]
        BY <4>1, <1>2, <1>3, <1>5
      <4>3. QED
        BY <4>1, <4>2, <3>2, <2>1, ReachStep
    <3>3. CASE y # c /\ y = q
      BY <3>1, <3>3, <2>1, <1>5
    <3>4. CASE y # c /\ y # q
      <4>1. g.next[y] = h.next[y] /\ y \in R
        BY <2>1, <3>1, <3>4, <1>2
      <4>2. QED
        BY <4>1, <2>1, ReachStep
    <3>5. QED
      BY <3>2, <3>3, <3>4
  <2>2. a \in S /\ S \in SUBSET Ids
    BY <1>1, ReachStart, ReachIds
  <2> HIDE DEF S
  <2>3. Reach(h.next, a) \subseteq S
    BY <2>1, <2>2, ReachLeast
  <2>4. QED
    BY <2>3 DEF S
<1>8. QED
  BY <1>6, <1>7

(* A node in no container has nothing after it.                            *)
LEMMA RootAlone ==
    ASSUME NEW h, HeapOK(h), NEW a \in Live(h), h.parent[a] = Nil
    PROVE  Reach(h.next, a) = {a}
<1>1. h.next[a] = Nil /\ a \in Ids /\ Nil \notin Ids
  BY LinksStayLive, IdsBelowNil DEF HeapOK, ForestOK, LinksOK, ParentOK
<1> DEFINE S == {a}
<1>2. a \in S /\ S \in SUBSET Ids
      /\ \A y \in S : h.next[y] \in Ids => h.next[y] \in S
  BY <1>1
<1> HIDE DEF S
<1>3. Reach(h.next, a) \subseteq S
  BY <1>2, ReachLeast
<1>4. a \in Reach(h.next, a)
  BY <1>1, ReachStart
<1>5. QED
  BY <1>3, <1>4 DEF S

(* What comes after a node that comes after another comes after that one.  *)
LEMMA ReachTransitive ==
    ASSUME NEW link, NEW a \in Ids, NEW b \in Reach(link, a)
    PROVE  Reach(link, b) \subseteq Reach(link, a)
<1>1. \A y \in Reach(link, a) : link[y] \in Ids => link[y] \in Reach(link, a)
  BY ReachStep
<1>2. QED
  BY <1>1, ReachIds, ReachLeast

(* Of two nodes one at most comes after the other.                         *)
LEMMA OrderAntisymmetric ==
    ASSUME NEW h, HeapOK(h), NEW a \in Live(h), NEW b \in Live(h),
           b \in Reach(h.next, a), a \in Reach(h.next, b)
    PROVE  a = b
<1> SUFFICES ASSUME a # b PROVE FALSE
  OBVIOUS
<1> DEFINE S == Reach(h.next, a)
<1>1. a \in Ids /\ b \in Ids
  BY LinksStayLive
<1>2. Reach(h.next, b) \subseteq S
  BY <1>1, ReachTransitive
<1>3. S \in (SUBSET Live(h)) \ {{}}
  BY ReachSameParent
<1>4. PICK x \in S : \A y \in S : h.next[y] # x
  BY <1>3 DEF HeapOK, ForestOK, EntryOK
<1>5. \A start, z \in Ids :
         z \in Reach(h.next, start) /\ z # start
            => \E y \in Reach(h.next, start) : h.next[y] = z
  <2> SUFFICES ASSUME NEW start \in Ids, NEW z \in Reach(h.next, start),
                      z # start,
                      \A y \in Reach(h.next, start) : h.next[y] # z
               PROVE  FALSE
    OBVIOUS
  <2> DEFINE T == Reach(h.next, start) \ {z}
  <2>1. \A y \in T : h.next[y] \in Ids => h.next[y] \in T
    BY ReachStep
  <2>2. start \in T /\ T \in SUBSET Ids
    BY ReachStart, ReachIds
  <2> HIDE DEF T
  <2>3. Reach(h.next, start) \subseteq T
    BY <2>1, <2>2, ReachLeast
  <2>4. QED
    BY <2>3 DEF T
<1>6. x \in Ids
  BY ReachIds
<1>7. x = a
  BY <1>1, <1>4, <1>5, <1>6
<1>8. \E y \in Reach(h.next, b) : h.next[y] = a
  BY <1>1, <1>5
<1>9. QED
  BY <1>2, <1>4, <1>7, <1>8

(* Of two children of one container one comes after the other.             *)
LEMMA OrderTotal ==
    ASSUME NEW h, HeapOK(h), NEW a \in Live(h), NEW b \in Live(h),
           h.parent[a] # Nil, h.parent[a] = h.parent[b]
    PROVE  b \in Reach(h.next, a) \/ a \in Reach(h.next, b)
<1> DEFINE S == {a, b}
<1>1. h.parent[a] \in Live(h)
  BY LinksStayLive
<1>2. S \in SUBSET Siblings(h, h.parent[a]) /\ S # {}
  BY <1>1, ChildrenAreSiblings
<1> HIDE DEF S
<1>3. FirstOf(h, S) \in S /\ \A d \in S : NotAfter(h, FirstOf(h, S), d)
  BY <1>1, <1>2, FirstOfExists
<1>4. QED
  BY <1>3 DEF S, NotAfter

-----------------------------------------------------------------------------
(* Ancestors.                                                              *)

(* A node is not above its parent.                                         *)
LEMMA NotAboveParent ==
    ASSUME NEW h, HeapOK(h), NEW i \in Live(h), h.parent[i] \in Live(h)
    PROVE  i \notin Ancestors(h, h.parent[i])
<1> SUFFICES ASSUME i \in Ancestors(h, h.parent[i]) PROVE FALSE
  OBVIOUS
<1> DEFINE p == h.parent[i]
           S == {x \in Ancestors(h, p) : i \in Ancestors(h, x)}
<1>1. Live(h) \subseteq Ids /\ Ancestors(h, p) \subseteq Live(h)
  BY LinksStayLive, AncestorsLive
<1>2. p \in S
  BY <1>1, ReachStart DEF Ancestors
<1>3. ASSUME NEW x \in S PROVE h.parent[x] \in S
  <2>1. x \in Ids /\ x \in Ancestors(h, p) /\ i \in Ancestors(h, x)
    BY <1>1
  <2>2. CASE x = i
    BY <1>2, <2>2
  <2>3. CASE x # i
    <3>1. i \in Ancestors(h, h.parent[x])
      BY <2>1, <2>3, ReachUnfold DEF Ancestors
    <3>2. h.parent[x] \in Ids
      BY <3>1, ReachNil DEF Ancestors
    <3>3. h.parent[x] \in Ancestors(h, p)
      BY <2>1, <3>2, ReachStep DEF Ancestors
    <3>4. QED
      BY <3>1, <3>3
  <2>4. QED
    BY <2>2, <2>3
<1>4. S \in (SUBSET Live(h)) \ {{}}
  BY <1>1, <1>2
<1> HIDE DEF S
<1>5. \E x \in S : h.parent[x] \notin S
  BY <1>4 DEF HeapOK, ForestOK, ParentAcyclic
<1>6. QED
  BY <1>3, <1>5

(* The ancestors of a child are the child and those of its parent.         *)
LEMMA AncestorsOfChild ==
    ASSUME NEW h, HeapOK(h), NEW i \in Live(h), h.parent[i] \in Live(h)
    PROVE  /\ Ancestors(h, i) = Ancestors(h, h.parent[i]) \cup {i}
           /\ i \notin Ancestors(h, h.parent[i])
<1>1. i \in Ids /\ h.parent[i] \in Ids
  BY LinksStayLive
<1>2. i \in Ancestors(h, i) /\ h.parent[i] \in Ancestors(h, i)
  BY <1>1, ReachStart, ReachStep DEF Ancestors
<1>3. Ancestors(h, h.parent[i]) \subseteq Ancestors(h, i)
  BY <1>1, <1>2, ReachTransitive DEF Ancestors
<1>4. Ancestors(h, i) \subseteq Ancestors(h, h.parent[i]) \cup {i}
  BY <1>1, ReachUnfold DEF Ancestors
<1>5. QED
  BY <1>2, <1>3, <1>4, NotAboveParent
=============================================================================

------------------------ MODULE SlabIterator_proofs ------------------------
(***************************************************************************)
(* Theorems about SlabIterator: an iterator over any container of any      *)
(* document, whatever the client does to the document meanwhile.           *)
(***************************************************************************)
EXTENDS SlabIterator, SlabDom_proofs

-----------------------------------------------------------------------------
(* A walk over the children of home that has passed some of them and       *)
(* stands at one, or at the end.                                           *)
WalkOn(h, home, at, passed) ==
    /\ home \in Live(h)
    /\ at = Nil \/ at \in Children(h, home)
    /\ passed \cap Reach(h.next, at) = {}
    /\ passed \cup Reach(h.next, at) = Children(h, home)

(* The children of home that are there still.                              *)
StillThere(h, home, passed) == {i \in passed : i \in Live(h) /\ h.parent[i] = home}

(* A walk begins at the first child, with all children ahead.              *)
LEMMA WalkBegins ==
    ASSUME NEW h, HeapOK(h), NEW home \in Live(h), NEW none, none = {}
    PROVE  WalkOn(h, home, h.first[home], none)
<1>1. Reach(h.next, h.first[home]) = Children(h, home)
  BY ForestHasChildren DEF ChildrenOK, Siblings, Children
<1>2. h.first[home] = Nil \/ h.first[home] \in Children(h, home)
  BY DEF Children, HeapOK, ForestOK, LinksOK, EndsOK
<1>3. QED
  BY <1>1, <1>2 DEF WalkOn

(* operator++ passes the node it stands on, and that one only.             *)
LEMMA WalkAdvances ==
    ASSUME NEW h, HeapOK(h), NEW home, NEW at, NEW passed,
           WalkOn(h, home, at, passed), at # Nil,
           NEW more, more = passed \cup {at}
    PROVE  WalkOn(h, home, h.next[at], more)
<1>1. at \in Live(h) /\ at \in Ids /\ Nil \notin Ids /\ h.parent[at] = home
  BY LinksStayLive, IdsBelowNil DEF WalkOn, Children
<1>2. h.next[at] = Nil \/ h.next[at] \in Children(h, home)
  BY <1>1 DEF Children, HeapOK, ForestOK, LinksOK, NextOK
<1>3. at \in Reach(h.next, at)
  BY <1>1, ReachStart
<1>4. Reach(h.next, at) \subseteq {at} \cup Reach(h.next, h.next[at])
  BY <1>1, ReachUnfold
<1>5. CASE h.next[at] = Nil
  <2>1. Reach(h.next, h.next[at]) = {}
    BY <1>1, <1>5, ReachNil
  <2>2. Reach(h.next, at) = {at}
    BY <2>1, <1>3, <1>4
  <2>3. QED
    BY <2>1, <2>2, <1>5 DEF WalkOn
<1>6. CASE h.next[at] # Nil
  <2>1. /\ h.next[at] \in Live(h) /\ h.next[at] \in Ids
        /\ h.next[at] \in Reach(h.next, at)
    BY <1>1, <1>2, <1>3, <1>6, LinksStayLive, ReachStep DEF Children
  <2>2. Reach(h.next, h.next[at]) \subseteq Reach(h.next, at)
    BY <1>1, <2>1, ReachTransitive
  <2>3. at \notin Reach(h.next, h.next[at])
    BY <1>1, <2>1, OrderAntisymmetric, NextIsOther
  <2>4. QED
    BY <1>2, <1>3, <1>4, <2>2, <2>3 DEF WalkOn
<1>7. QED
  BY <1>5, <1>6

(* A walk that is not touched goes on.                                     *)
LEMMA WalkKept ==
    ASSUME NEW h, NEW home, NEW at, NEW passed, WalkOn(h, home, at, passed)
    PROVE  StillThere(h, home, passed) = passed
BY DEF WalkOn, StillThere, Children

(* A new node is nobody's child yet.                                       *)
LEMMA WalkOverNew ==
    ASSUME NEW h, HeapOK(h), NEW g, NEW type, Grown(g, h, type),
           NEW home, NEW at, NEW passed, WalkOn(h, home, at, passed), at # Nil
    PROVE  WalkOn(g, home, at, StillThere(g, home, passed))
<1>1. Live(g) = Live(h) \cup {h.count} /\ h.count \notin Live(h)
  BY GrownLive DEF Grown
<1>2. \A i \in Live(h) : g.parent[i] = h.parent[i] /\ g.next[i] = h.next[i]
  BY DEF Grown, Extends, SameNodes
<1>3. home # Nil /\ g.parent[h.count] = Nil /\ at \in Live(h)
  BY LinksStayLive, IdsBelowNil DEF WalkOn, Children, Grown
<1>4. Children(g, home) = Children(h, home)
  BY <1>1, <1>2, <1>3 DEF Children
<1>5. Reach(g.next, at) = Reach(h.next, at)
  BY <1>2, <1>3, SameNextSameOrder
<1>6. StillThere(g, home, passed) = passed
  BY <1>4 DEF WalkOn, StillThere, Children
<1>7. QED
  BY <1>1, <1>2, <1>3, <1>4, <1>5, <1>6 DEF WalkOn

(* A node that is attached to home comes last, so it is ahead.             *)
LEMMA WalkOverAttached ==
    ASSUME NEW h, HeapOK(h), NEW g, NEW p, NEW c, NEW ref, NEW flags,
           Attached(g, h, p, c, ref, flags),
           NEW home, NEW at, NEW passed, WalkOn(h, home, at, passed), at # Nil
    PROVE  WalkOn(g, home, at, StillThere(g, home, passed))
<1>1. /\ home # Nil /\ at \in Live(h) /\ h.parent[at] = home
      /\ c \in Live(h) /\ h.parent[c] = Nil /\ Live(g) = Live(h)
      /\ \A i \in Live(h) : g.parent[i] = IF i = c THEN p ELSE h.parent[i]
  BY LinksStayLive, IdsBelowNil
     DEF WalkOn, Children, Attached, LinksAppended, OnlyKeySet, Live
<1> DEFINE more == IF home = p THEN {c} ELSE {}
<1>2. Children(g, home) = Children(h, home) \cup more /\ c \notin Children(h, home)
  BY <1>1 DEF Children
<1>3. Reach(g.next, at) = Reach(h.next, at) \cup more
  BY <1>1, AttachedOrder
<1>4. StillThere(g, home, passed) = passed
  <2>1. passed \subseteq Children(h, home)
    BY DEF WalkOn
  <2>2. passed \subseteq Children(g, home)
    BY <2>1, <1>2
  <2>3. QED
    BY <2>2 DEF StillThere, Children
<1>5. passed \cap more = {}
  BY <1>2 DEF WalkOn
<1> HIDE DEF more
<1>6. passed \cap Reach(g.next, at) = {}
  BY <1>3, <1>5 DEF WalkOn
<1>7. passed \cup Reach(g.next, at) = Children(g, home)
  BY <1>2, <1>3 DEF WalkOn
<1>8. at \in Children(g, home) /\ home \in Live(g)
  BY <1>1 DEF WalkOn, Children
<1>9. QED
  BY <1>4, <1>6, <1>7, <1>8 DEF WalkOn

(* A node that is taken out is neither ahead nor passed any more.          *)
LEMMA WalkOverTakenOut ==
    ASSUME NEW h, HeapOK(h), NEW g, NEW p, NEW q, NEW c,
           TakenOut(g, h, p, q, c),
           NEW home, NEW at, NEW passed, WalkOn(h, home, at, passed), at # Nil,
           g.parent[at] = home
    PROVE  WalkOn(g, home, at, StillThere(g, home, passed))
<1>1. /\ home # Nil /\ at \in Live(h) /\ Live(g) = Live(h)
      /\ \A i \in Live(h) : g.parent[i] = IF i = c THEN Nil ELSE h.parent[i]
  BY LinksStayLive, IdsBelowNil
     DEF WalkOn, Children, TakenOut, LinksUnlinked, OnlyKeySet, Live
<1>2. at # c
  BY <1>1
<1>3. Children(g, home) = Children(h, home) \ {c}
  BY <1>1 DEF Children
<1>4. Reach(g.next, at) = Reach(h.next, at) \ {c}
  BY <1>1, <1>2, TakenOutOrder
<1>5. StillThere(g, home, passed) = passed \ {c}
  BY <1>1 DEF StillThere, WalkOn, Children
<1>6. QED
  BY <1>1, <1>3, <1>4, <1>5 DEF WalkOn

-----------------------------------------------------------------------------
(* What the edits of the client do to the heap.                            *)
Change(g, h) ==
    \/ g = h
    \/ \E type : Grown(g, h, type)
    \/ \E p, c, ref, flags : Attached(g, h, p, c, ref, flags)
    \/ \E p, q, c : TakenOut(g, h, p, q, c)

(* A walk goes on over every edit that leaves it the ground it stands on.  *)
LEMMA WalkGoesOn ==
    ASSUME NEW h, HeapOK(h), NEW g, Change(g, h),
           NEW home, NEW at, NEW passed, WalkOn(h, home, at, passed),
           at = Nil => g = h,
           at # Nil => at \in Live(g) /\ g.parent[at] = home
    PROVE  WalkOn(g, home, at, StillThere(g, home, passed))
<1>1. CASE g = h
  BY <1>1, WalkKept
<1>2. CASE at # Nil /\ \E type : Grown(g, h, type)
  BY <1>2, WalkOverNew
<1>3. CASE at # Nil /\ \E p, c, ref, flags : Attached(g, h, p, c, ref, flags)
  BY <1>3, WalkOverAttached
<1>4. CASE at # Nil /\ \E p, q, c : TakenOut(g, h, p, q, c)
  BY <1>4, WalkOverTakenOut
<1>5. QED
  BY <1>1, <1>2, <1>3, <1>4 DEF Change

(* An edit keeps the document well-formed; if it is no reset(), it makes   *)
(* one node, attaches one or takes one out.                                *)
LEMMA EditChanges ==
    ASSUME IInv, Edit, result' = "Ok"
    PROVE  /\ IInv'
           /\ Reset \/ (UNCHANGED <<generation, epoch>> /\ Change(heap', heap))
<1>1. HeapOK(heap) /\ TypeOK
  BY IInvHeap DEF IInv
<1>2. ASSUME NEW item \in Items, MakeItem(item)
      PROVE  IInv' /\ UNCHANGED <<generation, epoch>> /\ Change(heap', heap)
  <2>1. IInv'
    BY <1>2, MakeItemSafe
  <2>2. Make(heap, item).code = "Ok" /\ heap' = Make(heap, item).heap
    BY <1>2 DEF MakeItem
  <2>3. Created(heap', heap)
    BY <1>1, <2>2, MakeCreates
  <2>4. QED
    BY <1>2, <2>1, <2>3 DEF Created, Change, MakeItem
<1>3. ASSUME NEW parent \in Held, NEW key \in Texts, NEW child \in Current,
             Add(parent, key, child)
      PROVE  IInv' /\ UNCHANGED <<generation, epoch>> /\ Change(heap', heap)
  <2>1. /\ parent.id \in Nat /\ child.id \in Nat /\ key \in Seq(Bytes)
        /\ child \in Values
    BY <1>1, HeldTyped, TextsTyped DEF Values, Held
  <2>2. IInv'
    BY <1>3, <2>1, AddSafe
  <2>3. CASE UNCHANGED <<heap, generation, epoch>>
    BY <2>2, <2>3 DEF Change
  <2>4. CASE Attach(heap, parent, key, child).code = "Ok"
             /\ Commit(Attach(heap, parent, key, child).heap)
    <3>1. Put(heap', heap, parent.id, child.id)
      BY <1>1, <2>1, <2>4, AttachEffect DEF Commit
    <3>2. QED
      BY <2>2, <2>4, <3>1 DEF Put, Change, Commit
  <2>5. QED
    BY <1>3, <2>3, <2>4 DEF Add, Reject
<1>4. ASSUME NEW parent \in Held, NEW child \in Children(heap, parent.id),
             Detach(parent, parent.type, child)
      PROVE  IInv' /\ UNCHANGED <<generation, epoch>> /\ Change(heap', heap)
  <2>1. parent.id \in Ids
    BY <1>1, HeldTyped DEF HandleSet
  <2>2. parent.id \in Live(heap) => child \in Siblings(heap, parent.id)
    BY <1>1, ForestHasChildren DEF ChildrenOK, Children
  <2>3. IInv'
    BY <1>4, <2>1, <2>2, DetachSafe
  <2>4. CASE UNCHANGED <<heap, generation, epoch>>
    BY <2>3, <2>4 DEF Change
  <2>5. CASE /\ ParentError(parent, parent.type) = "Ok"
             /\ Commit(TakeOut(heap, parent.id, child))
    <3>1. parent.id \in Live(heap)
      BY <2>1, <2>5, AcceptedIsLive DEF ParentError
    <3>2. TakenOut(TakeOut(heap, parent.id, child), heap, parent.id,
                   Previous(heap, parent.id, child), child)
      BY <1>1, <2>2, <3>1, TakeOutUnlinks
    <3>3. QED
      BY <2>3, <2>5, <3>2 DEF Change, Commit
  <2>6. QED
    BY <1>4, <2>4, <2>5 DEF Detach, Refuse
<1>5. CASE Reset
  BY <1>5, ResetSafe
<1>6. QED
  BY <1>2, <1>3, <1>4, <1>5 DEF Edit, HeldAs

-----------------------------------------------------------------------------
(* The inductive invariant.  An iterator that stands on a node carries the *)
(* generation of the document it began on; while its walk has not strayed  *)
(* that is the current one, and the walk is as WalkOn says.                *)
Iterators == [slab : {"none", "this"}, gen : Nat, id : Ids \cup {Nil}]
Walks == [home : Nat, epoch : Nat, passed : SUBSET Ids, strayed : BOOLEAN]

IteratorInv ==
    /\ IInv
    /\ InStep(epoch, generation)
    /\ iterator \in Iterators
    /\ walk \in Walks
    /\ walk.epoch <= epoch
    /\ iterator.id # Nil => InStep(walk.epoch, iterator.gen)
    /\ ~walk.strayed =>
          /\ walk.epoch = epoch
          /\ iterator.slab = "this" /\ iterator.gen = generation
          /\ WalkOn(heap, walk.home, iterator.id, walk.passed)

(* A count of nodes is no more than the storage holds.                     *)
LEMMA BelowCountIsLive ==
    ASSUME NEW h, HeapOK(h), NEW i \in Nat, i < h.count
    PROVE  i \in Live(h)
<1>1. NodeBytes(h.count) <= Capacity /\ h \in Heaps
  BY Counters, SizesAssumption DEF HeapOK, LayoutOK, NodeBytes, Heaps
<1>2. QED
  BY <1>1, LiveIsPrefix

(* begin() of a container keeps the invariant, whatever the handle.        *)
LEMMA BeginStep ==
    ASSUME IteratorInv, NEW container \in Held, Begin(container)
    PROVE  IteratorInv'
<1>1. HeapOK(heap) /\ container \in HandleSet /\ Nil \notin Ids
  BY IInvHeap, HeldTyped, IdsBelowNil DEF IteratorInv, IInv
<1>2. IInv' /\ InStep(epoch', generation')
  BY DEF IteratorInv, Begin, vars, IInv, TypeOK, LayoutSafe, ForestSafe,
         NoInternalError, InStep
<1>3. container.slab = "this" /\ container.id \in Ids /\ container.gen \in Nat
  BY <1>1, GenerationsAssumption DEF HandleSet
<1>4. heap.first[container.id] \in Ids \cup {Nil}
  BY <1>1, <1>3 DEF HeapOK, Heaps
<1>5. iterator' \in Iterators /\ walk' \in Walks /\ walk'.epoch <= epoch'
  <2>1. iterator' \in Iterators
    BY <1>3, <1>4 DEF Begin, BeginOf, Iterators
  <2>2. epoch \in Nat /\ container.id \in Nat /\ epoch' = epoch
    <3>1. epoch \in Nat
      BY ClientAssumption DEF IteratorInv, IInv, TypeOK
    <3>2. container.id \in Nat
      BY <1>3, IdsBelowNil
    <3>3. QED
      BY <3>1, <3>2 DEF Begin, vars
  <2> DEFINE strayed == ~Opens(container)
  <2>3. walk' = [home |-> container.id, epoch |-> epoch, passed |-> {},
                 strayed |-> strayed] /\ strayed \in BOOLEAN
    BY DEF Begin
  <2> HIDE DEF strayed
  <2>4. QED
    BY <2>1, <2>2, <2>3 DEF Walks
<1>6. CASE ~Opens(container)
  <2>1. iterator'.id = Nil /\ walk'.strayed
    BY <1>6 DEF Begin, BeginOf
  <2>2. QED
    BY <1>2, <1>5, <2>1 DEF IteratorInv
<1>7. CASE Opens(container)
  <2>1. container.id \in Live(heap) /\ container.gen = generation
    BY <1>3, <1>7, AcceptedIsLive DEF Opens, Accepted, NodeFor, IteratorInv
  <2> DEFINE none == {}
  <2>2. /\ iterator'.slab = "this" /\ iterator'.gen = generation
        /\ iterator'.id = heap.first[container.id]
        /\ walk'.home = container.id /\ walk'.epoch = epoch
        /\ walk'.passed = none
        /\ heap' = heap /\ epoch' = epoch /\ generation' = generation
    BY <1>3, <1>7, <2>1 DEF Begin, BeginOf, vars
  <2> HIDE DEF none
  <2>3. WalkOn(heap, container.id, heap.first[container.id], none)
    BY <1>1, <2>1, WalkBegins DEF none
  <2>4. QED
    BY <1>2, <1>5, <2>2, <2>3 DEF IteratorInv
<1>8. QED
  BY <1>6, <1>7

(* An iterator whose walk has not strayed is accepted where it stands.     *)
LEMMA OnItsWay ==
    ASSUME IteratorInv, ~walk.strayed, iterator.id # Nil
    PROVE  Accepted(iterator)
<1>1. iterator.id \in Live(heap) /\ iterator.id \in Ids
  BY LinksStayLive, IInvHeap DEF IteratorInv, WalkOn, Children
<1>2. Valid
  BY <1>1, SizesAssumption DEF Valid, Ids, Addresses
<1>3. QED
  BY <1>1, <1>2 DEF IteratorInv, Accepted, NodeFor, Live

(* So does operator++.                                                     *)
LEMMA AdvanceStep ==
    ASSUME IteratorInv, Advance
    PROVE  IteratorInv'
<1>1. HeapOK(heap) /\ iterator \in Iterators /\ walk \in Walks
  BY IInvHeap DEF IteratorInv
<1>2. IInv' /\ InStep(epoch', generation')
  BY DEF IteratorInv, Advance, vars, IInv, TypeOK, LayoutSafe, ForestSafe,
         NoInternalError, InStep
<1>3. iterator.id \in Ids /\ heap.next[iterator.id] \in Ids \cup {Nil}
  BY <1>1 DEF Advance, Iterators, HeapOK, Heaps
<1>4. /\ iterator'.slab = iterator.slab /\ iterator'.gen = iterator.gen
      /\ iterator'.id = IF Accepted(iterator) THEN heap.next[iterator.id]
                        ELSE Nil
      /\ iterator' \in Iterators
  BY <1>1, <1>3 DEF Advance, Successor, Iterators
<1> DEFINE passed == IF Accepted(iterator) THEN walk.passed \cup {iterator.id}
                     ELSE walk.passed
<1>5. walk' = [home |-> walk.home, epoch |-> walk.epoch, passed |-> passed,
               strayed |-> walk.strayed]
  BY <1>1 DEF Advance, Walks
<1>6. passed \in SUBSET Ids
  BY <1>1, <1>3 DEF Walks
<1>7. Accepted(iterator) => passed = walk.passed \cup {iterator.id}
  OBVIOUS
<1> HIDE DEF passed
<1>8. walk' \in Walks
  BY <1>1, <1>5, <1>6 DEF Walks
<1>9. InStep(walk.epoch, iterator.gen)
  BY DEF IteratorInv, Advance
<1>10. ASSUME ~walk.strayed
       PROVE  WalkOn(heap, walk.home, heap.next[iterator.id], passed)
              /\ Accepted(iterator)
  <2>1. Accepted(iterator)
    BY <1>10, OnItsWay DEF Advance
  <2>2. WalkOn(heap, walk.home, iterator.id, walk.passed) /\ iterator.id # Nil
    BY <1>10 DEF IteratorInv, Advance
  <2>3. PICK id, before, home : id = iterator.id /\ before = walk.passed
                                /\ home = walk.home
    OBVIOUS
  <2>4. WalkOn(heap, home, heap.next[id], passed)
    BY <1>1, <1>7, <2>1, <2>2, <2>3, WalkAdvances
  <2>5. QED
    BY <2>1, <2>3, <2>4
<1>11. walk'.epoch <= epoch'
  BY <1>5 DEF IteratorInv, Advance, vars
<1>12. InStep(walk'.epoch, iterator'.gen)
  BY <1>4, <1>5, <1>9
<1>13. ASSUME ~walk'.strayed
       PROVE  /\ walk'.epoch = epoch'
              /\ iterator'.slab = "this" /\ iterator'.gen = generation'
              /\ WalkOn(heap', walk'.home, iterator'.id, walk'.passed)
  <2>1. ~walk.strayed /\ walk'.epoch = walk.epoch /\ walk'.home = walk.home
        /\ walk'.passed = passed
    BY <1>5, <1>13
  <2>2. iterator'.id = heap.next[iterator.id]
    BY <1>4, <1>10, <2>1
  <2>3. heap' = heap /\ epoch' = epoch /\ generation' = generation
    BY DEF Advance, vars
  <2>4. QED
    BY <1>4, <1>10, <2>1, <2>2, <2>3 DEF IteratorInv
<1>14. QED
  BY <1>2, <1>4, <1>8, <1>11, <1>12, <1>13 DEF IteratorInv

(* So does every edit of the client.                                       *)
LEMMA ClientStep ==
    ASSUME IteratorInv, Client
    PROVE  IteratorInv'
<1>1. HeapOK(heap) /\ iterator \in Iterators /\ walk \in Walks /\ IInv
  BY IInvHeap DEF IteratorInv
<1>2. IInv' /\ (Reset \/ (UNCHANGED <<generation, epoch>> /\ Change(heap', heap)))
  BY <1>1, EditChanges DEF Client
<1>3. epoch \in Nat /\ generation \in 1 .. Generations - 1
  BY <1>1, ClientAssumption DEF IInv, TypeOK
<1>4. /\ InStep(epoch', generation') /\ epoch <= epoch'
      /\ Reset => epoch' # epoch
  <2>1. CASE Reset
    BY <1>3, <2>1, NextInStep DEF IteratorInv, Reset
  <2>2. CASE UNCHANGED <<generation, epoch>>
    BY <1>3, <2>2 DEF IteratorInv, Reset
  <2>3. QED
    BY <1>2, <2>1, <2>2
<1> DEFINE passed == {i \in walk.passed : ~Left(i)}
           strayed == \/ walk.strayed
                      \/ epoch' # epoch
                      \/ iterator.id = Nil /\ heap' # heap
                      \/ iterator.id # Nil /\ Left(iterator.id)
<1>5. walk' = [home |-> walk.home, epoch |-> walk.epoch, passed |-> passed,
               strayed |-> strayed] /\ iterator' = iterator
  BY <1>1 DEF Client, Walks
<1>6. strayed \in BOOLEAN
  BY <1>1 DEF Walks
<1>7. passed \in SUBSET Ids /\ passed = StillThere(heap', walk.home, walk.passed)
  BY <1>1 DEF Walks, Left, StillThere
<1> HIDE DEF passed
<1>8. /\ walk' \in Walks /\ walk'.epoch = walk.epoch /\ walk'.home = walk.home
      /\ walk'.passed = passed /\ walk'.strayed = strayed
  <2> HIDE DEF strayed
  <2>1. QED
    BY <1>1, <1>5, <1>6, <1>7 DEF Walks
<1>9. ASSUME ~strayed
      PROVE  /\ walk.epoch = epoch' /\ generation' = generation
             /\ iterator.slab = "this" /\ iterator.gen = generation
             /\ WalkOn(heap', walk.home, iterator.id, passed)
  <2>1. UNCHANGED <<generation, epoch>> /\ Change(heap', heap)
    BY <1>2, <1>4, <1>9
  <2>2. /\ iterator.id = Nil => heap' = heap
        /\ iterator.id # Nil =>
              iterator.id \in Live(heap') /\ heap'.parent[iterator.id] = walk.home
    BY <1>9 DEF Left
  <2>3. /\ walk.epoch = epoch
        /\ iterator.slab = "this" /\ iterator.gen = generation
        /\ WalkOn(heap, walk.home, iterator.id, walk.passed)
    BY <1>9 DEF IteratorInv
  <2>4. PICK id, before, home : id = iterator.id /\ before = walk.passed
                                /\ home = walk.home
    OBVIOUS
  <2> HIDE DEF strayed
  <2>5. WalkOn(heap', home, id, StillThere(heap', home, before))
    BY <1>1, <2>1, <2>2, <2>3, <2>4, WalkGoesOn
  <2>6. QED
    BY <1>7, <2>1, <2>3, <2>4, <2>5
<1> HIDE DEF strayed
<1>10. walk'.epoch <= epoch'
  <2>1. walk.epoch \in Nat /\ walk.epoch <= epoch /\ walk'.epoch = walk.epoch
    BY <1>1, <1>8 DEF IteratorInv, Walks
  <2>2. epoch' \in Nat
    BY <1>2, ClientAssumption DEF IInv, TypeOK
  <2>3. QED
    BY <1>3, <1>4, <2>1, <2>2
<1>11. QED
  BY <1>1, <1>2, <1>4, <1>5, <1>8, <1>9, <1>10 DEF IteratorInv

(* An iterator of no slab satisfies the invariant.                         *)
LEMMA IteratorInvInit == IteratorInit => IteratorInv
<1> SUFFICES ASSUME IteratorInit PROVE IteratorInv
  OBVIOUS
<1>1. IInv
  BY InitSafe DEF IteratorInit
<1>2. InStep(0, 1)
  <2>1. 0 = 0 * (Generations - 1) + 1 - 1
    BY GenerationsAssumption
  <2>2. QED
    BY <2>1 DEF InStep
<1>3. epoch = 0 /\ generation = 1
  BY DEF IteratorInit, Init
<1>4. iterator \in Iterators /\ iterator.id = Nil
  BY DEF IteratorInit, Iterators
<1>5. walk \in Walks /\ walk.epoch = 0 /\ walk.strayed
  BY DEF IteratorInit, Walks
<1>6. QED
  BY <1>1, <1>2, <1>3, <1>4, <1>5 DEF IteratorInv

(* What the invariant holds at every step.                                 *)
THEOREM IteratorInvariant == IteratorSpec => []IteratorInv
<1>1. IteratorInv /\ [IteratorNext]_<<vars, iteratorVars>> => IteratorInv'
  <2> SUFFICES ASSUME IteratorInv, [IteratorNext]_<<vars, iteratorVars>>
               PROVE  IteratorInv'
    OBVIOUS
  <2>1. CASE UNCHANGED <<vars, iteratorVars>>
    BY <2>1 DEF vars, iteratorVars, IteratorInv, IInv, TypeOK, LayoutSafe,
                ForestSafe, NoInternalError, InStep
  <2>2. CASE \E container \in HeldAs("Array") \cup HeldAs("Object") :
                Begin(container)
    BY <2>2, BeginStep DEF HeldAs
  <2>3. QED
    BY <2>1, <2>2, AdvanceStep, ClientStep DEF IteratorNext
<1>2. QED
  BY <1>1, IteratorInvInit, PTL DEF IteratorSpec

(* An iterator passes every child that is there exactly once, whatever is  *)
(* added, taken out and put back meanwhile, as long as the node it stands  *)
(* on stays; and after a reset() it yields the null value until the        *)
(* generation counter has come round.                                      *)
THEOREM IteratorsAreExact == IteratorSpec => []WalkExact
<1>1. IteratorInv => WalkExact
  <2> SUFFICES ASSUME IteratorInv PROVE WalkExact
    OBVIOUS
  <2>1. ASSUME ~walk.strayed
        PROVE  /\ walk.passed \cap Ahead(heap, iterator) = {}
               /\ walk.passed \cup Ahead(heap, iterator)
                    = Children(heap, walk.home)
               /\ iterator.id # Nil => Accepted(Dereference(iterator))
    <3>1. WalkOn(heap, walk.home, iterator.id, walk.passed)
      BY <2>1 DEF IteratorInv
    <3>2. ASSUME iterator.id # Nil PROVE Accepted(Dereference(iterator))
      <4>1. Accepted(iterator)
        BY <2>1, <3>2, OnItsWay
      <4>2. QED
        BY <4>1 DEF Dereference, Accepted, NodeFor
    <3>3. QED
      BY <3>1, <3>2 DEF WalkOn, Ahead
  <2>2. ASSUME epoch - walk.epoch \in 1 .. Generations - 2, Accepted(iterator)
        PROVE  FALSE
    <3>1. /\ epoch \in Nat /\ walk.epoch \in Nat /\ walk.epoch < epoch
          /\ iterator.gen = generation /\ iterator.id < heap.count
      BY <2>2, ClientAssumption, GenerationsAssumption
         DEF IteratorInv, IInv, TypeOK, Walks, Accepted, NodeFor
    <3>2. iterator.id # Nil
      <4>1. iterator.id \in Nat
        BY IdsBelowNil DEF IteratorInv, Iterators
      <4>2. iterator.id \in Live(heap)
        BY <3>1, <4>1, IInvHeap, BelowCountIsLive DEF IteratorInv
      <4>3. QED
        BY <4>2, IdsBelowNil DEF Live
    <3>3. InStep(epoch, generation) /\ InStep(walk.epoch, generation)
          /\ generation \in Nat
      BY <3>1, <3>2, GenerationsAssumption DEF IteratorInv, IInv, TypeOK
    <3>4. epoch - walk.epoch >= Generations - 1
      BY <3>1, <3>3, CyclesApart
    <3>5. QED
      BY <2>2, <3>4, <3>1, GenerationsAssumption
  <2>3. epoch - walk.epoch \in 1 .. Generations - 2 =>
           Dereference(iterator).slab = "none"
    BY <2>2 DEF Dereference
  <2>4. QED
    BY <2>1, <2>3 DEF WalkExact
<1>2. QED
  BY <1>1, IteratorInvariant, PTL

=============================================================================

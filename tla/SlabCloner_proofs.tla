------------------------- MODULE SlabCloner_proofs -------------------------
(***************************************************************************)
(* Theorems about SlabCloner: what holds of both slabs after every turn of *)
(* duplicate()'s loop, and what it leaves behind when it fails.            *)
(***************************************************************************)
EXTENDS SlabCloner, SlabDom_proofs

-----------------------------------------------------------------------------
(* Slabs that have been copied into.                                       *)

(* Only a string has a text.  The cloner copies the escape flag of every   *)
(* value, but the bytes only of strings.                                   *)
ValuesAtHome(h) ==
    \A i \in Live(h) : h.type[i] # "String" => ViewString(h, h.value[i]) = <<>>

(* What DocumentOK of the parser's proofs says, but for the key flag of a  *)
(* node that has no key, which the cloner copies too.                      *)
SlabOK(h) ==
    HeapOK(h) /\ StringsOK(h) /\ KeysAtHome(h) /\ ValuesAtHome(h)

(* A node that keeps its type and its bytes keeps to it.                   *)
LEMMA ValuesKept ==
    ASSUME NEW h, HeapOK(h), NEW g, BytesKept(g, h),
           NEW i \in Live(h), g.value[i] = h.value[i], g.type[i] = h.type[i],
           ValuesAtHome(h), g.type[i] # "String"
    PROVE  ViewString(g, g.value[i]) = <<>>
BY LiveRefs, KeptView DEF ValuesAtHome

(* Adding strings alone changes nothing there, ...                         *)
LEMMA ExtendedValues ==
    ASSUME NEW h, HeapOK(h), NEW g, Extends(g, h), g.count = h.count,
           ValuesAtHome(h)
    PROVE  ValuesAtHome(g)
<1>1. Live(g) = Live(h)
  BY DEF Live
<1>2. QED
  BY <1>1, ValuesKept DEF ValuesAtHome, Extends, SameNodes

(* ... neither does making a node, ...                                     *)
LEMMA CreatedValues ==
    ASSUME NEW h, HeapOK(h), NEW g, Created(g, h), ValuesAtHome(h)
    PROVE  ValuesAtHome(g)
<1>1. PICK type \in ValueTypes :
         /\ Grown(g, h, type)
         /\ ViewString(g, g.value[h.count])
               \in IF type = "String" THEN Texts ELSE {<<>>}
  BY DEF Created
<1>2. Live(g) = Live(h) \cup {h.count}
  BY <1>1, GrownLive DEF Grown
<1>3. g.type[h.count] # "String" => ViewString(g, g.value[h.count]) = <<>>
  BY <1>1 DEF Grown
<1>4. \A i \in Live(h) :
         g.type[i] # "String" => ViewString(g, g.value[i]) = <<>>
  BY <1>1, ValuesKept DEF Grown, Extends, SameNodes
<1>5. QED
  BY <1>2, <1>3, <1>4 DEF ValuesAtHome

(* ... nor attaching one or taking one out.                                *)
LEMMA OnlyKeySetValues ==
    ASSUME NEW h, HeapOK(h), NEW g, NEW c, NEW ref, NEW flags,
           OnlyKeySet(g, h, c, ref, flags), ValuesAtHome(h)
    PROVE  ValuesAtHome(g)
<1>1. Live(g) = Live(h)
  BY DEF Live, OnlyKeySet
<1>2. QED
  BY <1>1, ValuesKept DEF ValuesAtHome, OnlyKeySet

(* No call of the client gives a text to what is not a string.             *)
LEMMA ValuesSafe ==
    ASSUME IInv, ValuesAtHome(heap), [Next]_vars
    PROVE  ValuesAtHome(heap')
<1>1. HeapOK(heap)
  BY IInvHeap
<1>2. CASE Effect
  <2>1. CASE Kept(heap', heap)
    BY <1>1, <2>1, ExtendedValues DEF Kept
  <2>2. CASE Created(heap', heap)
    BY <1>1, <2>2, CreatedValues
  <2>3. CASE Dropped(heap', heap)
    BY <1>1, <2>3, OnlyKeySetValues DEF Dropped, TakenOut
  <2>4. CASE Joined(heap', heap)
    BY <1>1, <2>4, OnlyKeySetValues DEF Joined, Put, Attached
  <2>5. CASE Built(heap', heap)
    <3>1. PICK m, p, ref, flags :
             /\ HeapOK(m) /\ Created(m, heap)
             /\ OnlyKeySet(heap', m, heap.count, ref, flags)
      BY <2>5 DEF Built, Put, Attached
    <3>2. ValuesAtHome(m)
      BY <1>1, <3>1, CreatedValues
    <3>3. QED
      BY <3>1, <3>2, OnlyKeySetValues
  <2>6. QED
    BY <1>2, <2>1, <2>2, <2>3, <2>4, <2>5 DEF Effect
<1>3. CASE Reset
  <2>1. heap'.count = 0
    BY <1>3 DEF Reset, IInv, TypeOK, Heaps
  <2>2. Live(heap') = {}
    BY <2>1, NothingLive
  <2>3. QED
    BY <2>2 DEF ValuesAtHome
<1>4. QED
  BY <1>2, <1>3, NextEffect

(* The texts of a slab that is in order.                                   *)
LEMMA TextsGood ==
    ASSUME NEW h, SlabOK(h), NEW i \in Live(h)
    PROVE  /\ GoodText(ViewString(h, h.value[i]), h.valueFlags[i])
           /\ Member(h, i) => GoodText(ViewString(h, h.key[i]), h.keyFlags[i])
           /\ h.type[i] # "String" => ViewString(h, h.value[i]) = <<>>
<1>1. GoodText(ViewString(h, h.value[i]), h.valueFlags[i])
  BY DEF SlabOK, StringsOK, TextsOK, GoodValue
<1>2. ASSUME Member(h, i)
      PROVE  GoodText(ViewString(h, h.key[i]), h.keyFlags[i])
  <2>1. CASE h.key[i] = NoRef
    <3>1. h.keyFlags[i] = FALSE
      <4>1. h.keyFlags[i] \in BOOLEAN
        BY DEF SlabOK, HeapOK, Heaps, Live
      <4>2. ~h.keyFlags[i]
        BY <1>2, <2>1 DEF SlabOK, KeysAtHome
      <4>3. QED
        BY <4>1, <4>2
    <3>2. ViewString(h, h.key[i]) = <<>>
      BY <2>1, NoRefView
    <3>3. QED
      BY <3>1, <3>2, EmptyIsGood
  <2>2. QED
    BY <2>1 DEF SlabOK, StringsOK, TextsOK, GoodKey
<1>3. QED
  BY <1>1, <1>2 DEF SlabOK, ValuesAtHome

-----------------------------------------------------------------------------
(* Copying one node.                                                       *)

(* The same links, other references.                                       *)
LEMMA RelabelKeepsForest ==
    ASSUME NEW h, HeapOK(h), NEW g \in Heaps,
           g.count = h.count, g.bytes = h.bytes, g.type = h.type,
           g.parent = h.parent, g.first = h.first, g.last = h.last,
           g.next = h.next,
           \A i \in Live(h) :
              /\ g.key[i] = h.key[i] \/ RefOK(h, g.key[i])
              /\ g.value[i] = h.value[i] \/ RefOK(h, g.value[i])
    PROVE  HeapOK(g)
<1>1. Live(g) = Live(h)
  BY DEF Live
<1>2. LayoutOK(g)
  BY <1>1 DEF HeapOK, LayoutOK, RefOK
<1>3. ForestOK(g)
  BY <1>1 DEF HeapOK, ForestOK, LinksOK, ParentOK, EndsOK, NextOK,
              ParentAcyclic, NextAcyclic, EntryOK
<1>4. QED
  BY <1>2, <1>3 DEF HeapOK

(* One detached node more.                                                 *)
Sprouted(g, h, type) ==
    /\ g.count = h.count + 1 /\ h.count \in Ids
    /\ Extends(g, h)
    /\ LET id == h.count
       IN /\ g.type[id] = type
          /\ g.parent[id] = Nil /\ g.next[id] = Nil
          /\ g.first[id] = Nil /\ g.last[id] = Nil

(* The node of the copy, before its text is there.                         *)
NewNode(h, type, keyFlags, valueFlags) ==
    [AllocateNode(h, type) EXCEPT !.keyFlags[h.count] = keyFlags,
                                  !.valueFlags[h.count] = valueFlags]

(* It is detached, has no text yet, and the flags of its source.           *)
LEMMA NewNodeSprouts ==
    ASSUME NEW h, HeapOK(h), NEW type \in ValueTypes, CanAllocateNode(h),
           NEW keyFlags \in BOOLEAN, NEW valueFlags \in BOOLEAN
    PROVE  LET g == NewNode(h, type, keyFlags, valueFlags)
               id == h.count
           IN /\ HeapOK(g) /\ Sprouted(g, h, type) /\ g.bytes = h.bytes
              /\ g.key[id] = NoRef /\ g.value[id] = NoRef
              /\ g.keyFlags[id] = keyFlags /\ g.valueFlags[id] = valueFlags
<1> DEFINE a == AllocateNode(h, type)
           id == h.count
           g == NewNode(h, type, keyFlags, valueFlags)
<1>1. /\ HeapOK(a) /\ Grown(a, h, type) /\ a.bytes = h.bytes
      /\ a.value[id] = NoRef
  BY AllocateKeepsForest, AllocateGrows
<1>2. g = [a EXCEPT !.keyFlags[id] = keyFlags, !.valueFlags[id] = valueFlags]
  BY DEF NewNode
<1>3. a \in Heaps /\ id \in Ids /\ id \notin Live(h)
  BY <1>1, GrownLive DEF HeapOK, Grown
<1> HIDE DEF a, g
<1>4. /\ g \in Heaps /\ g.count = a.count /\ g.bytes = a.bytes
      /\ g.type = a.type /\ g.parent = a.parent /\ g.first = a.first
      /\ g.last = a.last /\ g.next = a.next /\ g.key = a.key
      /\ g.value = a.value /\ g.mem = a.mem
      /\ \A i \in Ids :
            /\ g.keyFlags[i] = IF i = id THEN keyFlags ELSE a.keyFlags[i]
            /\ g.valueFlags[i] = IF i = id THEN valueFlags ELSE a.valueFlags[i]
  BY <1>2, <1>3 DEF Heaps
<1>5. HeapOK(g)
  BY <1>1, <1>4, RelabelKeepsForest
<1>6. SameNodes(g, h) /\ FlagsKept(g, h) /\ BytesKept(g, h)
  BY <1>1, <1>3, <1>4
     DEF Grown, Extends, SameNodes, FlagsKept, BytesKept, Live
<1>7. Sprouted(g, h, type)
  BY <1>1, <1>4, <1>6 DEF Grown, Extends, Sprouted
<1>8. QED
  BY <1>1, <1>3, <1>4, <1>5, <1>7 DEF Grown, g

(* Node id has been given a text that nothing else has.                    *)
Rewritten(g, h, id) ==
    /\ g.count = h.count /\ BytesKept(g, h)
    /\ g.type = h.type /\ g.parent = h.parent /\ g.first = h.first
    /\ g.last = h.last /\ g.next = h.next
    /\ g.keyFlags = h.keyFlags /\ g.valueFlags = h.valueFlags
    /\ \A i \in Ids \ {id} : g.key[i] = h.key[i] /\ g.value[i] = h.value[i]

(* ... and is as new as it was.                                            *)
LEMMA RewrittenSprouts ==
    ASSUME NEW h, HeapOK(h), NEW m, HeapOK(m), NEW g, HeapOK(g), NEW type,
           Sprouted(m, h, type), Rewritten(g, m, h.count)
    PROVE  Sprouted(g, h, type)
<1>1. Live(m) = Live(h) \cup {h.count} /\ h.count \notin Live(h)
      /\ Live(h) \subseteq Ids /\ h.count \in Ids
  BY GrownLive, LinksStayLive DEF Sprouted
<1>2. SameNodes(g, h) /\ FlagsKept(g, h)
  BY <1>1 DEF Sprouted, Rewritten, Extends, SameNodes, FlagsKept
<1>3. BytesKept(g, h)
  <2>1. \A a \in Addresses : a >= Capacity - h.bytes
                                => a >= Capacity - m.bytes
    BY Counters DEF Sprouted, Extends, BytesKept, Addresses
  <2>2. h.bytes <= g.bytes
    BY Counters DEF Sprouted, Rewritten, Extends, BytesKept
  <2>3. QED
    BY <2>1, <2>2 DEF Sprouted, Rewritten, Extends, BytesKept
<1>4. h.count <= g.count
  BY DEF Sprouted, Rewritten, Extends
<1>5. QED
  BY <1>2, <1>3, <1>4 DEF Sprouted, Rewritten, Extends

(* What a string that has just been copied is.                             *)
LEMMA StringStored ==
    ASSUME NEW h, HeapOK(h), NEW text, NEW flags, GoodText(text, flags),
           AllocateStringError(h, Len(text)) = "Ok"
    PROVE  LET c == CopyString(h, text)
               ref == NextRef(h, Len(text))
           IN /\ HeapOK(c) /\ c.count = h.count /\ BytesKept(c, h)
              /\ c.type = h.type /\ c.parent = h.parent /\ c.first = h.first
              /\ c.last = h.last /\ c.next = h.next
              /\ c.key = h.key /\ c.value = h.value
              /\ c.keyFlags = h.keyFlags /\ c.valueFlags = h.valueFlags
              /\ ref \in StringRefs /\ RefOK(c, ref)
              /\ ViewString(c, ref) = text
              /\ FreshString(c, h, ref, flags)
<1>1. /\ HasRoom(h, text) /\ WellFormed(text) /\ flags = NeedsEscape(text)
      /\ text \in Seq(Bytes) /\ Len(text) \in Nat
  BY DEF HasRoom, GoodText
<1> DEFINE c == CopyString(h, text)
           ref == NextRef(h, Len(text))
<1>2. /\ HeapOK(c) /\ RefOK(c, ref) /\ ref \in StringRefs
      /\ Agree(c, h)
  BY <1>1, CopyKeepsForest, NextRefFits
<1>3. BytesKept(c, h) /\ ViewString(c, ref) = text
  BY <1>1, CopyKeepsBytes, CopiedView
<1>4. FreshString(c, h, ref, flags)
  BY <1>1, CopiedIsFresh
<1>5. /\ c.type = h.type /\ c.parent = h.parent /\ c.first = h.first
      /\ c.last = h.last /\ c.next = h.next
      /\ c.key = h.key /\ c.value = h.value
      /\ c.keyFlags = h.keyFlags /\ c.valueFlags = h.valueFlags
  BY DEF CopyString
<1>6. QED
  BY <1>2, <1>3, <1>4, <1>5 DEF Agree

(* detail::copy_string_between_slabs() for the value of a node, ...        *)
LEMMA ValueStored ==
    ASSUME NEW h, HeapOK(h), NEW id \in Live(h), NEW text, NEW flags,
           GoodText(text, flags), AllocateStringError(h, Len(text)) = "Ok"
    PROVE  LET g == CopyValue(h, id, text).heap
               ref == NextRef(h, Len(text))
           IN /\ CopyValue(h, id, text) = Success(g)
              /\ HeapOK(g) /\ Rewritten(g, h, id)
              /\ g.key = h.key /\ g.value[id] = ref
              /\ ViewString(g, ref) = text
              /\ FreshString(g, h, ref, flags)
<1> DEFINE c == CopyString(h, text)
           ref == NextRef(h, Len(text))
           g == [c EXCEPT !.value[id] = ref]
<1>1. CopyValue(h, id, text) = Success(g)
  BY DEF CopyValue
<1>2. /\ HeapOK(c) /\ c.count = h.count /\ BytesKept(c, h)
      /\ c.type = h.type /\ c.parent = h.parent /\ c.first = h.first
      /\ c.last = h.last /\ c.next = h.next
      /\ c.key = h.key /\ c.value = h.value
      /\ c.keyFlags = h.keyFlags /\ c.valueFlags = h.valueFlags
      /\ ref \in StringRefs /\ RefOK(c, ref)
      /\ ViewString(c, ref) = text /\ FreshString(c, h, ref, flags)
  BY StringStored
<1> HIDE DEF c, ref
<1>3. id \in Ids
  BY LinksStayLive
<1>4. /\ g \in Heaps /\ g.count = c.count /\ g.bytes = c.bytes
      /\ g.type = c.type /\ g.parent = c.parent /\ g.first = c.first
      /\ g.last = c.last /\ g.next = c.next /\ g.key = c.key
      /\ g.keyFlags = c.keyFlags /\ g.valueFlags = c.valueFlags
      /\ g.mem = c.mem
      /\ \A i \in Ids : g.value[i] = IF i = id THEN ref ELSE c.value[i]
  BY <1>2, <1>3 DEF HeapOK, Heaps
<1> HIDE DEF g
<1>5. HeapOK(g)
  BY <1>2, <1>4, RelabelKeepsForest DEF Live
<1>6. ViewString(g, ref) = ViewString(c, ref)
  BY <1>4 DEF ViewString
<1>7. Rewritten(g, h, id) /\ FreshString(g, h, ref, flags)
  BY <1>2, <1>4, <1>6 DEF Rewritten, FreshString, BytesKept
<1>8. CopyValue(h, id, text).heap = g
  BY <1>1 DEF Success
<1>9. QED
  BY <1>1, <1>2, <1>3, <1>4, <1>5, <1>6, <1>7, <1>8 DEF ref

(* ... and for its key.                                                    *)
LEMMA KeyStored ==
    ASSUME NEW h, HeapOK(h), NEW id \in Live(h), NEW text, NEW flags,
           GoodText(text, flags), AllocateStringError(h, Len(text)) = "Ok"
    PROVE  LET g == CopyKey(h, id, text).heap
               ref == NextRef(h, Len(text))
           IN /\ CopyKey(h, id, text) = Success(g)
              /\ HeapOK(g) /\ Rewritten(g, h, id)
              /\ g.value = h.value /\ g.key[id] = ref
              /\ ViewString(g, ref) = text
              /\ FreshString(g, h, ref, flags)
<1> DEFINE c == CopyString(h, text)
           ref == NextRef(h, Len(text))
           g == [c EXCEPT !.key[id] = ref]
<1>1. CopyKey(h, id, text) = Success(g)
  BY DEF CopyKey
<1>2. /\ HeapOK(c) /\ c.count = h.count /\ BytesKept(c, h)
      /\ c.type = h.type /\ c.parent = h.parent /\ c.first = h.first
      /\ c.last = h.last /\ c.next = h.next
      /\ c.key = h.key /\ c.value = h.value
      /\ c.keyFlags = h.keyFlags /\ c.valueFlags = h.valueFlags
      /\ ref \in StringRefs /\ RefOK(c, ref)
      /\ ViewString(c, ref) = text /\ FreshString(c, h, ref, flags)
  BY StringStored
<1> HIDE DEF c, ref
<1>3. id \in Ids
  BY LinksStayLive
<1>4. /\ g \in Heaps /\ g.count = c.count /\ g.bytes = c.bytes
      /\ g.type = c.type /\ g.parent = c.parent /\ g.first = c.first
      /\ g.last = c.last /\ g.next = c.next /\ g.value = c.value
      /\ g.keyFlags = c.keyFlags /\ g.valueFlags = c.valueFlags
      /\ g.mem = c.mem
      /\ \A i \in Ids : g.key[i] = IF i = id THEN ref ELSE c.key[i]
  BY <1>2, <1>3 DEF HeapOK, Heaps
<1> HIDE DEF g
<1>5. HeapOK(g)
  BY <1>2, <1>4, RelabelKeepsForest DEF Live
<1>6. ViewString(g, ref) = ViewString(c, ref)
  BY <1>4 DEF ViewString
<1>7. Rewritten(g, h, id) /\ FreshString(g, h, ref, flags)
  BY <1>2, <1>4, <1>6 DEF Rewritten, FreshString, BytesKept
<1>8. CopyKey(h, id, text).heap = g
  BY <1>1 DEF Success
<1>9. QED
  BY <1>1, <1>2, <1>3, <1>4, <1>5, <1>6, <1>7, <1>8 DEF ref

(* A copy of node i of s has been added to h, with its key or without.     *)
Cloned(g, h, s, i, copyKey) ==
    LET id == h.count
    IN /\ HeapOK(g) /\ StringsOK(g) /\ Sprouted(g, h, s.type[i])
       /\ ViewString(g, g.value[id]) = ViewString(s, s.value[i])
       /\ g.keyFlags[id] = s.keyFlags[i]
       /\ IF copyKey THEN ViewString(g, g.key[id]) = ViewString(s, s.key[i])
                     ELSE g.key[id] = NoRef

(* A step of the copying of a node that can be taken back.                 *)
Undoable(made, h) ==
    /\ made.code \in ErrorCodes \ {"InternalError"}
    /\ made.heap \in Heaps /\ Extends(made.heap, h)

(* The node and its text.                                                  *)
LEMMA ValueCloned ==
    ASSUME NEW h, SlabOK(h), NEW s, SlabOK(s), NEW i \in Live(s),
           CanAllocateNode(h)
    PROVE  LET node == NewNode(h, s.type[i], s.keyFlags[i], s.valueFlags[i])
               valued == IF s.type[i] = "String"
                         THEN CopyValue(node, h.count,
                                        ViewString(s, s.value[i]))
                         ELSE Success(node)
           IN /\ Undoable(valued, h)
              /\ valued.code = "Ok" => Cloned(valued.heap, h, s, i, FALSE)
<1> DEFINE id == h.count
           type == s.type[i]
           kf == s.keyFlags[i]
           vf == s.valueFlags[i]
           node == NewNode(h, type, kf, vf)
           text == ViewString(s, s.value[i])
           valued == IF type = "String" THEN CopyValue(node, id, text)
                     ELSE Success(node)
<1>1. HeapOK(h) /\ StringsOK(h) /\ HeapOK(s)
  BY DEF SlabOK
<1>2. type \in ValueTypes /\ kf \in BOOLEAN /\ vf \in BOOLEAN
  BY <1>1 DEF HeapOK, Heaps, Live
<1>3. GoodText(text, vf) /\ (type # "String" => text = <<>>)
  BY TextsGood
<1>4. /\ HeapOK(node) /\ Sprouted(node, h, type) /\ node.bytes = h.bytes
      /\ node.key[id] = NoRef /\ node.value[id] = NoRef
      /\ node.keyFlags[id] = kf /\ node.valueFlags[id] = vf
  BY <1>1, <1>2, NewNodeSprouts
<1>5. Live(node) = Live(h) \cup {id} /\ id \notin Live(h)
  BY <1>4, GrownLive DEF Sprouted
<1> HIDE DEF node, text, vf, kf, type
<1>6. \A j \in Live(h) : KeyFrom(node, h, j) /\ ValueFrom(node, h, j)
  BY <1>4 DEF Sprouted, Extends, SameNodes, FlagsKept, KeyFrom, ValueFrom
<1>7. CASE type # "String"
  <2>1. valued = Success(node)
    BY <1>7
  <2>2. vf = FALSE
    BY <1>3, <1>7, EmptyIsGood DEF GoodText
  <2>3. KeyFrom(node, h, id) /\ ValueFrom(node, h, id)
    BY <1>4, <2>2 DEF KeyFrom, ValueFrom
  <2>4. StringsOK(node)
    BY <1>1, <1>4, <1>5, <1>6, <2>3, LosingKeepsStrings DEF Sprouted, Extends
  <2>5. ViewString(node, node.value[id]) = text
    BY <1>3, <1>4, <1>7, NoRefView
  <2>6. node \in Heaps /\ Extends(node, h)
    BY <1>4 DEF HeapOK, Sprouted
  <2>7. QED
    BY <1>4, <2>1, <2>4, <2>5, <2>6, SMTT(30)
       DEF Cloned, Undoable, Success, ErrorCodes, node, text, vf, kf, type
<1>8. CASE type = "String" /\ AllocateStringError(node, Len(text)) # "Ok"
  <2>1. valued = Failure(AllocateStringError(node, Len(text)), node)
    BY <1>8 DEF CopyValue
  <2>2. AllocateStringError(node, Len(text)) \in ErrorCodes \ {"InternalError"}
    BY DEF AllocateStringError, ErrorCodes
  <2>3. node \in Heaps /\ Extends(node, h)
    BY <1>4 DEF HeapOK, Sprouted
  <2>4. valued.code # "Ok" /\ Undoable(valued, h)
    BY <1>8, <2>1, <2>2, <2>3 DEF Undoable, Failure
  <2>5. QED
    BY <2>4 DEF node, text, vf, kf, type
<1>9. CASE type = "String" /\ AllocateStringError(node, Len(text)) = "Ok"
  <2> DEFINE g == CopyValue(node, id, text).heap
             ref == NextRef(node, Len(text))
  <2>1. id \in Live(node)
    BY <1>5
  <2>2. /\ CopyValue(node, id, text) = Success(g)
        /\ HeapOK(g) /\ Rewritten(g, node, id)
        /\ g.key = node.key /\ g.value[id] = ref
        /\ ViewString(g, ref) = text /\ FreshString(g, node, ref, vf)
    BY <1>3, <1>4, <1>9, <2>1, ValueStored
  <2> HIDE DEF g, ref
  <2>3. Sprouted(g, h, type)
    BY <1>1, <1>4, <2>2, RewrittenSprouts
  <2>4. FreshString(g, h, ref, vf)
    BY <1>4, <2>2 DEF FreshString, RefOK
  <2>5. Live(g) = Live(node)
    BY <2>2 DEF Rewritten, Live
  <2>6. \A j \in Live(h) : KeyFrom(g, h, j) /\ ValueFrom(g, h, j)
    BY <2>3 DEF Sprouted, Extends, SameNodes, FlagsKept, KeyFrom, ValueFrom
  <2>7. KeyFrom(g, h, id) /\ g.valueFlags[id] = vf /\ g.keyFlags[id] = kf
    BY <1>4, <2>2 DEF KeyFrom, Rewritten
  <2>8. FreshValue(g, h, id, ref, vf)
    BY <1>1, <1>5, <2>2, <2>3, <2>4, <2>5, <2>6, <2>7, FreshApart
       DEF FreshValue, FreshString, Sprouted, Extends
  <2>9. StringsOK(g)
    BY <1>1, <2>8, FreshValueKeepsStrings
  <2>10. valued = Success(g) /\ g \in Heaps /\ Extends(g, h)
    BY <1>9, <2>2, <2>3 DEF HeapOK, Sprouted
  <2>11. g.key[id] = NoRef
    BY <1>4, <2>2
  <2>12. QED
    BY <2>2, <2>3, <2>7, <2>9, <2>10, <2>11
       DEF Cloned, Undoable, Success, ErrorCodes, node, text, vf, kf, type
<1>10. QED
  BY <1>7, <1>8, <1>9 DEF node, text, vf, kf, type

(* ... and its key.                                                        *)
LEMMA KeyCloned ==
    ASSUME NEW h, SlabOK(h), NEW s, SlabOK(s), NEW i \in Live(s),
           Member(s, i), NEW m, Cloned(m, h, s, i, FALSE)
    PROVE  LET made == CopyKey(m, h.count, ViewString(s, s.key[i]))
           IN /\ Undoable(made, h)
              /\ made.code = "Ok" => Cloned(made.heap, h, s, i, TRUE)
<1> DEFINE id == h.count
           text == ViewString(s, s.key[i])
           kf == s.keyFlags[i]
           made == CopyKey(m, id, text)
<1>1. HeapOK(h) /\ HeapOK(m) /\ StringsOK(m) /\ Sprouted(m, h, s.type[i])
      /\ ViewString(m, m.value[id]) = ViewString(s, s.value[i])
      /\ m.keyFlags[id] = kf /\ m.key[id] = NoRef
  BY DEF SlabOK, Cloned
<1>2. GoodText(text, kf)
  BY TextsGood
<1>3. Live(m) = Live(h) \cup {id} /\ id \notin Live(h)
  BY <1>1, GrownLive DEF Sprouted
<1> HIDE DEF text, kf
<1>4. CASE AllocateStringError(m, Len(text)) # "Ok"
  <2>1. made = Failure(AllocateStringError(m, Len(text)), m)
    BY <1>4 DEF CopyKey
  <2>2. AllocateStringError(m, Len(text)) \in ErrorCodes \ {"InternalError"}
    BY DEF AllocateStringError, ErrorCodes
  <2>3. m \in Heaps /\ Extends(m, h)
    BY <1>1 DEF HeapOK, Sprouted
  <2>4. made.code # "Ok" /\ Undoable(made, h)
    BY <1>4, <2>1, <2>2, <2>3 DEF Undoable, Failure
  <2>5. QED
    BY <2>4 DEF text
<1>5. CASE AllocateStringError(m, Len(text)) = "Ok"
  <2> DEFINE g == CopyKey(m, id, text).heap
             ref == NextRef(m, Len(text))
  <2>1. id \in Live(m)
    BY <1>3
  <2>2. /\ CopyKey(m, id, text) = Success(g)
        /\ HeapOK(g) /\ Rewritten(g, m, id)
        /\ g.value = m.value /\ g.key[id] = ref
        /\ ViewString(g, ref) = text /\ FreshString(g, m, ref, kf)
    BY <1>1, <1>2, <1>5, <2>1, KeyStored
  <2> HIDE DEF g, ref
  <2>3. Sprouted(g, h, s.type[i])
    BY <1>1, <2>2, RewrittenSprouts
  <2>4. Live(g) = Live(m) /\ Live(m) \subseteq Ids
    BY <2>2 DEF Rewritten, Live
  <2>5. \A j \in Live(m) : ValueFrom(g, m, j)
                           /\ (j # id => KeyFrom(g, m, j))
    BY <2>2, <2>4 DEF Rewritten, KeyFrom, ValueFrom
  <2>6. g.keyFlags[id] = kf
    BY <1>1, <2>2 DEF Rewritten
  <2>7. FreshKey(g, m, id, ref, kf)
    BY <1>1, <2>2, <2>4, <2>5, <2>6, FreshApart
       DEF FreshKey, FreshString, Rewritten
  <2>8. StringsOK(g)
    BY <1>1, <2>7, FreshKeyKeepsStrings
  <2>9. ViewString(g, g.value[id]) = ViewString(s, s.value[i])
    <3>1. ViewString(g, m.value[id]) = ViewString(m, m.value[id])
      BY <1>1, <2>1, <2>2, LiveRefs, KeptView DEF Rewritten
    <3>2. QED
      BY <1>1, <2>2, <3>1
  <2>10. made = Success(g) /\ g \in Heaps /\ Extends(g, h)
    BY <2>2, <2>3 DEF HeapOK, Sprouted
  <2>11. Undoable(made, h) /\ made.heap = g
    BY <2>10 DEF Undoable, Success, ErrorCodes
  <2>12. Cloned(g, h, s, i, TRUE)
    BY <2>2, <2>3, <2>6, <2>8, <2>9 DEF Cloned, text, kf
  <2>13. QED
    BY <2>11, <2>12 DEF text
<1>6. QED
  BY <1>4, <1>5

(* detail::clone_node() is all or nothing: a whole copy of the node, with  *)
(* its key if that is asked for, or something that can be taken back.      *)
LEMMA CloneNodeOK ==
    ASSUME NEW h, SlabOK(h), NEW s, SlabOK(s), NEW i \in Live(s),
           NEW copyKey \in BOOLEAN, copyKey => Member(s, i)
    PROVE  LET made == CloneNode(h, s, i, copyKey)
           IN /\ Undoable(made, h)
              /\ made.code = "Ok" => Cloned(made.heap, h, s, i, copyKey)
<1> DEFINE node == NewNode(h, s.type[i], s.keyFlags[i], s.valueFlags[i])
           valued == IF s.type[i] = "String"
                     THEN CopyValue(node, h.count, ViewString(s, s.value[i]))
                     ELSE Success(node)
           made == CloneNode(h, s, i, copyKey)
           keyed == CopyKey(valued.heap, h.count, ViewString(s, s.key[i]))
<1>1. made = IF AllocateNodeError(h) # "Ok"
             THEN Failure(AllocateNodeError(h), h)
             ELSE IF valued.code = "Ok" /\ copyKey THEN keyed ELSE valued
  BY DEF CloneNode, NewNode
<1>2. CASE AllocateNodeError(h) # "Ok"
  <2>1. made = Failure(AllocateNodeError(h), h)
    BY <1>1, <1>2
  <2>2. AllocateNodeError(h) \in ErrorCodes \ {"InternalError"}
    BY DEF AllocateNodeError, ErrorCodes
  <2>3. h \in Heaps /\ Extends(h, h)
    BY DEF SlabOK, HeapOK, Heaps, Extends, SameNodes, FlagsKept, BytesKept
  <2> HIDE DEF made
  <2>4. made.code # "Ok" /\ Undoable(made, h)
    BY <1>2, <2>1, <2>2, <2>3 DEF Undoable, Failure
  <2>5. QED
    BY <2>4 DEF made
<1>3. CASE AllocateNodeError(h) = "Ok"
  <2>1. CanAllocateNode(h)
    BY <1>3 DEF AllocateNodeError
  <2>2. /\ Undoable(valued, h)
        /\ valued.code = "Ok" => Cloned(valued.heap, h, s, i, FALSE)
    BY <2>1, ValueCloned
  <2>3. made = IF valued.code = "Ok" /\ copyKey THEN keyed ELSE valued
    BY <1>1, <1>3
  <2> HIDE DEF valued, made
  <2>4. valued.code = "Ok" /\ copyKey =>
           /\ Undoable(keyed, h)
           /\ keyed.code = "Ok" => Cloned(keyed.heap, h, s, i, TRUE)
    BY <2>2, KeyCloned
  <2> HIDE DEF keyed
  <2>5. CASE valued.code = "Ok" /\ copyKey
    <3>1. copyKey = TRUE /\ made = keyed
      BY <2>3, <2>5
    <3>2. QED
      BY <2>4, <2>5, <3>1 DEF made
  <2>6. CASE ~copyKey
    <3>1. copyKey = FALSE /\ made = valued
      BY <2>3, <2>6
    <3>2. QED
      BY <2>2, <3>1 DEF made
  <2>7. CASE valued.code # "Ok" /\ copyKey
    <3>1. made = valued
      BY <2>3, <2>7
    <3>2. QED
      BY <2>2, <2>7, <3>1 DEF made
  <2>8. QED
    BY <2>5, <2>6, <2>7
<1>4. QED
  BY <1>2, <1>3

(* A copied root has no key, whatever key its source has.                  *)
LEMMA RootCloned ==
    ASSUME NEW h, SlabOK(h), NEW s, SlabOK(s), NEW i \in Live(s),
           NEW g, Cloned(g, h, s, i, FALSE)
    PROVE  SlabOK(g)
<1> DEFINE id == h.count
<1>1. HeapOK(h) /\ HeapOK(g) /\ StringsOK(g) /\ Sprouted(g, h, s.type[i])
      /\ ViewString(g, g.value[id]) = ViewString(s, s.value[i])
      /\ g.key[id] = NoRef
  BY DEF SlabOK, Cloned
<1>2. Live(g) = Live(h) \cup {id}
  BY <1>1, GrownLive DEF Sprouted
<1>3. \A j \in Live(h) :
         /\ g.key[j] = h.key[j] /\ g.keyFlags[j] = h.keyFlags[j]
         /\ g.parent[j] = h.parent[j] /\ g.type[j] = h.type[j]
         /\ g.value[j] = h.value[j]
  BY <1>1 DEF Sprouted, Extends, SameNodes, FlagsKept
<1>4. ~Member(g, id)
  BY <1>1 DEF Sprouted, Member
<1>5. KeysAtHome(g)
  BY <1>1, <1>2, <1>3, <1>4, SameKeys DEF SlabOK, KeysAtHome
<1>6. \A j \in Live(h) :
         g.type[j] # "String" => ViewString(g, g.value[j]) = <<>>
  BY <1>1, <1>3, ValuesKept DEF SlabOK, Sprouted, Extends
<1>7. g.type[id] # "String" => ViewString(g, g.value[id]) = <<>>
  BY <1>1, TextsGood DEF Sprouted
<1>8. ValuesAtHome(g)
  BY <1>2, <1>6, <1>7 DEF ValuesAtHome
<1>9. QED
  BY <1>1, <1>5, <1>8 DEF SlabOK

-----------------------------------------------------------------------------
(* Linking the copy of a node.                                             *)

(* A node alone is above nothing that has been there before it.            *)
LEMMA NewIsNotAbove ==
    ASSUME NEW h, HeapOK(h), NEW m, HeapOK(m), NEW type, Sprouted(m, h, type),
           NEW p \in Live(h)
    PROVE  h.count \notin Ancestors(m, p)
<1>1. Live(h) \subseteq Ids /\ h.count \notin Live(h) /\ Nil \notin Ids
  BY LinksStayLive, GrownLive, IdsBelowNil DEF Sprouted
<1>2. \A y \in Live(h) : m.parent[y] \in Ids => m.parent[y] \in Live(h)
  BY <1>1, LinksStayLive DEF Sprouted, Extends, SameNodes
<1>3. Ancestors(m, p) \subseteq Live(h)
  BY <1>1, <1>2, ReachLeast DEF Ancestors
<1>4. QED
  BY <1>1, <1>3

ValueText(h, i) == ViewString(h, h.value[i])
KeyText(h, i) == ViewString(h, h.key[i])

(* What linking a copy of node i of s as the last child of p does.         *)
Linked(g, h, s, i, p) ==
    LET id == h.count
    IN /\ g.count = h.count + 1
       /\ g.type[id] = s.type[i] /\ g.parent[id] = p
       /\ g.next[id] = Nil /\ g.first[id] = Nil
       /\ ValueText(g, id) = ValueText(s, i) /\ KeyText(g, id) = KeyText(s, i)
       /\ \A j \in Live(h) :
             /\ g.type[j] = h.type[j] /\ g.parent[j] = h.parent[j]
             /\ g.next[j] = IF j = h.last[p] THEN id ELSE h.next[j]
             /\ g.first[j] = IF j = p /\ h.last[p] = Nil
                              THEN id ELSE h.first[j]
             /\ ValueText(g, j) = ValueText(h, j)
             /\ KeyText(g, j) = KeyText(h, j)

(* Linking the copy of a node leaves the slab in order, and leaves alone   *)
(* what was there before the container was made.                           *)
LEMMA ClonedLinks ==
    ASSUME NEW h, SlabOK(h), NEW before, SlabOK(before), Extends(h, before),
           NEW s, SlabOK(s), NEW i \in Live(s), NEW copyKey \in BOOLEAN,
           copyKey <=> Member(s, i),
           NEW m, Cloned(m, h, s, i, copyKey),
           NEW p \in Live(h) \ Live(before), h.type[p] \in Containers,
           copyKey <=> h.type[p] = "Object"
    PROVE  LET g == AppendChild(m, p, h.count)
           IN SlabOK(g) /\ Extends(g, before) /\ Linked(g, h, s, i, p)
<1> DEFINE id == h.count
           g == AppendChild(m, p, id)
           ref == m.key[id]
           flags == m.keyFlags[id]
<1>1. HeapOK(h) /\ HeapOK(m) /\ StringsOK(m) /\ Sprouted(m, h, s.type[i])
      /\ HeapOK(before)
      /\ ViewString(m, m.value[id]) = ViewString(s, s.value[i])
      /\ flags = s.keyFlags[i]
  BY DEF SlabOK, Cloned
<1>2. /\ Live(m) = Live(h) \cup {id} /\ id \notin Live(h)
      /\ Live(h) \subseteq Ids /\ id \in Ids /\ Nil \notin Ids
  BY <1>1, GrownLive, LinksStayLive, IdsBelowNil DEF Sprouted
<1>3. \A j \in Live(h) :
         /\ m.key[j] = h.key[j] /\ m.keyFlags[j] = h.keyFlags[j]
         /\ m.parent[j] = h.parent[j] /\ m.type[j] = h.type[j]
         /\ m.value[j] = h.value[j]
         /\ m.next[j] = h.next[j] /\ m.first[j] = h.first[j]
         /\ m.last[j] = h.last[j]
  BY <1>1 DEF Sprouted, Extends, SameNodes, FlagsKept
<1>4. /\ m.type[id] = s.type[i] /\ m.parent[id] = Nil
      /\ m.next[id] = Nil /\ m.first[id] = Nil /\ m.count = h.count + 1
  BY <1>1 DEF Sprouted
<1>5. id \notin Ancestors(m, p)
  BY <1>1, NewIsNotAbove
<1>6. HeapOK(g)
  BY <1>1, <1>2, <1>3, <1>4, <1>5, AppendKeepsForest
<1>7. Appended(g, m, p, id)
  BY <1>1, <1>2, AppendFields DEF HeapOK
<1> HIDE DEF g
<1>8. LinksAppended(g, m, p, id) /\ OnlyKeySet(g, m, id, ref, flags)
  <2>1. LinksAppended(g, m, p, id)
    BY <1>7 DEF Appended, LinksAppended
  <2>2. m.bytes \in Nat
    BY <1>1, Counters
  <2>3. BytesKept(g, m)
    BY <1>7, <2>2 DEF Appended, BytesKept
  <2>4. OnlyKeySet(g, m, id, ref, flags)
    BY <1>7, <2>3 DEF Appended, OnlyKeySet
  <2>5. QED
    BY <2>1, <2>4
<1> HIDE DEF ref, flags
<1>9. Extends(m, before)
  BY <1>1, ExtendsTransitive DEF Sprouted
<1>10. id \notin Live(before)
  BY <1>1, <1>2, Counters, LiveGrows DEF Extends
<1>11. Extends(g, before)
  <2>1. g.bytes \in Nat
    BY <1>6, Counters
  <2>2. QED
    BY <1>1, <1>2, <1>8, <1>9, <1>10, <2>1, AttachedBeyond
<1>13. StringsOK(g)
  <2>1. Live(g) = Live(m) /\ Live(m) \subseteq Ids
    BY <1>7 DEF Appended, Live
  <2>2. \A j \in Live(m) : KeyFrom(g, m, j) /\ ValueFrom(g, m, j)
    BY <1>7 DEF Appended, KeyFrom, ValueFrom
  <2>3. QED
    BY <1>1, <1>8, <2>1, <2>2, LosingKeepsStrings DEF OnlyKeySet
<1>14. Live(g) = Live(h) \cup {id}
  BY <1>2, <1>7 DEF Appended, Live
<1>15. \A j \in Live(h) :
          /\ g.key[j] = h.key[j] /\ g.keyFlags[j] = h.keyFlags[j]
          /\ g.parent[j] = h.parent[j] /\ g.type[j] = h.type[j]
          /\ g.value[j] = h.value[j]
  BY <1>2, <1>3, <1>7 DEF Appended
<1>16. g.key[id] = ref /\ g.keyFlags[id] = flags /\ g.parent[id] = p
       /\ g.value[id] = m.value[id] /\ g.type[id] = s.type[i]
  BY <1>2, <1>4, <1>7 DEF Appended, ref, flags
<1>17. Member(g, id) <=> copyKey
  BY <1>2, <1>15, <1>16 DEF Member
<1>18. IF copyKey THEN ref = NoRef => ~flags ELSE ref = NoRef
  <2>1. CASE copyKey
    <3>1. GoodText(ViewString(s, s.key[i]), s.keyFlags[i])
      BY <2>1, TextsGood
    <3>2. ViewString(m, ref) = ViewString(s, s.key[i])
      BY <2>1 DEF Cloned, ref
    <3>3. ref = NoRef => flags = FALSE
      BY <1>1, <3>1, <3>2, EmptyNeedsNoEscape
    <3>4. QED
      BY <2>1, <3>3
  <2>2. CASE ~copyKey
    BY <2>2 DEF Cloned, ref
  <2>3. QED
    BY <2>1, <2>2
<1>19. KeysAtHome(g)
  BY <1>1, <1>14, <1>15, <1>16, <1>17, <1>18, SameKeys
     DEF SlabOK, KeysAtHome
<1>20. BytesKept(g, h)
  <2>1. h.bytes <= m.bytes /\ m.bytes <= g.bytes
    BY <1>1, <1>8 DEF Sprouted, Extends, BytesKept, OnlyKeySet
  <2>2. h.bytes \in Nat /\ m.bytes \in Nat /\ g.bytes \in Nat /\ Capacity \in Nat
    BY <1>1, <1>6, Counters
  <2>3. \A a \in Addresses : a >= Capacity - h.bytes => a >= Capacity - m.bytes
    BY <2>1, <2>2 DEF Addresses
  <2>4. QED
    BY <1>1, <1>8, <2>1, <2>2, <2>3
       DEF Sprouted, Extends, BytesKept, OnlyKeySet
<1>21. ValuesAtHome(g)
  <2>1. \A j \in Live(h) :
           g.type[j] # "String" => ViewString(g, g.value[j]) = <<>>
    BY <1>1, <1>15, <1>20, ValuesKept DEF SlabOK
  <2>2. ViewString(g, g.value[id]) = ViewString(m, m.value[id])
    BY <1>7, <1>16 DEF Appended, ViewString
  <2>3. g.type[id] # "String" => ViewString(g, g.value[id]) = <<>>
    BY <1>1, <1>16, <2>2, TextsGood
  <2>4. QED
    BY <1>14, <2>1, <2>3 DEF ValuesAtHome
<1>22. Linked(g, h, s, i, p)
  <2>1. /\ g.count = h.count + 1
        /\ g.type[id] = s.type[i] /\ g.parent[id] = p
        /\ g.next[id] = Nil /\ g.first[id] = Nil
        /\ \A j \in Live(h) :
              /\ g.type[j] = h.type[j] /\ g.parent[j] = h.parent[j]
              /\ g.next[j] = IF j = h.last[p] THEN id ELSE h.next[j]
              /\ g.first[j] = IF j = p /\ h.last[p] = Nil
                               THEN id ELSE h.first[j]
    BY <1>2, <1>3, <1>4, <1>7 DEF Appended
  <2>2. ValueText(g, id) = ValueText(s, i)
    BY <1>1, <1>7, <1>16 DEF Appended, ViewString, ValueText
  <2>3. KeyText(g, id) = KeyText(s, i)
    <3>1. ViewString(g, ref) = ViewString(m, ref)
      BY <1>7 DEF Appended, ViewString
    <3>2. ViewString(m, ref) = ViewString(s, s.key[i])
      <4>1. CASE copyKey
        BY <4>1 DEF Cloned, ref
      <4>2. CASE ~copyKey
        <5>1. ref = NoRef
          BY <1>18, <4>2
        <5>2. s.key[i] = NoRef
          BY <4>2 DEF SlabOK, KeysAtHome
        <5>3. QED
          BY <5>1, <5>2, NoRefView
      <4>3. QED
        BY <4>1, <4>2
    <3>3. QED
      BY <1>16, <3>1, <3>2 DEF KeyText
  <2>4. ASSUME NEW j \in Live(h)
        PROVE  ValueText(g, j) = ValueText(h, j) /\ KeyText(g, j) = KeyText(h, j)
    <3>1. /\ ViewString(g, h.value[j]) = ViewString(h, h.value[j])
          /\ ViewString(g, h.key[j]) = ViewString(h, h.key[j])
      BY <1>1, <1>20, LiveRefs, KeptView
    <3>2. QED
      BY <1>15, <3>1 DEF ValueText, KeyText
  <2>5. QED
    BY <2>1, <2>2, <2>3, <2>4 DEF Linked
<1>23. QED
  BY <1>6, <1>11, <1>13, <1>19, <1>21, <1>22 DEF SlabOK, g

(* The cloner links by hand what append_child_unchecked() links: a first   *)
(* child, ...                                                              *)
LEMMA LinkFirstIsAppend ==
    ASSUME NEW h \in Heaps, NEW p \in Ids, NEW c \in Ids,
           h.last[p] = Nil, h.next[c] = Nil
    PROVE  LinkFirstChild(h, p, c) = AppendChild(h, p, c)
<1> DEFINE after == [i \in Ids |-> IF i = c THEN Nil
                                   ELSE IF i = h.last[p] THEN c
                                   ELSE h.next[i]]
<1>1. Nil \notin Ids
  BY IdsBelowNil
<1>2. \A i \in Ids : after[i] = h.next[i]
  BY <1>1
<1>3. after = h.next
  BY <1>2 DEF Heaps
<1> HIDE DEF after
<1>4. AppendChild(h, p, c)
        = [h EXCEPT !.parent[c] = p, !.next = after,
                    !.first[p] = IF h.last[p] = Nil THEN c ELSE h.first[p],
                    !.last[p] = c]
  BY DEF AppendChild, after
<1>5. QED
  BY <1>3, <1>4 DEF LinkFirstChild, Heaps

(* ... and the one after the last.                                         *)
LEMMA LinkNextIsAppend ==
    ASSUME NEW h \in Heaps, NEW last \in Ids, NEW c \in Ids,
           h.parent[last] \in Ids, h.last[h.parent[last]] = last,
           c # last, h.next[c] = Nil
    PROVE  LinkNextSibling(h, last, c) = AppendChild(h, h.parent[last], c)
<1> DEFINE p == h.parent[last]
           after == [i \in Ids |-> IF i = c THEN Nil
                                   ELSE IF i = h.last[p] THEN c
                                   ELSE h.next[i]]
           changed == [h.next EXCEPT ![last] = c]
           ends == [h.first EXCEPT ![p] = h.first[p]]
<1>1. Nil \notin Ids
  BY IdsBelowNil
<1>2. \A i \in Ids : after[i] = changed[i]
  BY DEF Heaps
<1>3. after = changed
  BY <1>2 DEF Heaps
<1>4. ends = h.first
  BY DEF Heaps
<1>5. AppendChild(h, p, c)
        = [h EXCEPT !.parent[c] = p, !.next = after, !.first = ends,
                    !.last[p] = c]
  <2>1. h.last[p] # Nil
    BY <1>1
  <2>2. AppendChild(h, p, c)
          = [h EXCEPT !.parent[c] = p, !.next = after,
                      !.first[p] = IF h.last[p] = Nil THEN c ELSE h.first[p],
                      !.last[p] = c]
    BY DEF AppendChild
  <2> HIDE DEF after, p
  <2>3. QED
    BY <2>1, <2>2 DEF Heaps
<1>6. LinkNextSibling(h, last, c)
        = [h EXCEPT !.next = changed, !.last[p] = c, !.parent[c] = p]
  BY DEF LinkNextSibling
<1> HIDE DEF after, changed, ends, p
<1>7. AppendChild(h, p, c)
        = [h EXCEPT !.parent[c] = p, !.next = changed, !.last[p] = c]
  BY <1>3, <1>4, <1>5 DEF Heaps
<1>8. LinkNextSibling(h, last, c) = AppendChild(h, p, c)
  <2> DEFINE parents == [h.parent EXCEPT ![c] = p]
             lasts == [h.last EXCEPT ![p] = c]
  <2>1. AppendChild(h, p, c)
          = [h EXCEPT !.parent = parents, !.next = changed, !.last = lasts]
    BY <1>7
  <2>2. LinkNextSibling(h, last, c)
          = [h EXCEPT !.next = changed, !.last = lasts, !.parent = parents]
    BY <1>6
  <2> HIDE DEF parents, lasts
  <2>3. QED
    BY <2>1, <2>2 DEF Heaps
<1>9. QED
  BY <1>8 DEF p

-----------------------------------------------------------------------------
(* What has been copied, halfway.                                          *)

(* D is what has been visited below c.root in s: up to the cursor in       *)
(* document order.  Of the nodes above the cursor the rest of the list is  *)
(* still to come, of the cursor what is below it, unless it is climbing.   *)
Visited(s, D, c) ==
    /\ D \subseteq Live(s) /\ c.root \in D /\ c.source \in D
    /\ \A x \in D :
          IF x = c.source /\ ~c.climbing THEN s.first[x] \notin D
                                         ELSE s.first[x] \in D \cup {Nil}
    /\ \A x \in D \ {c.root} :
          /\ s.parent[x] \in D
          /\ \A t \in Live(s) : s.next[t] = x => t \in D
          /\ IF x \in Ancestors(s, c.source) THEN s.next[x] \notin D
                                             ELSE s.next[x] \in D \cup {Nil}

(* What has been visited lies below the root.                              *)
LEMMA ClosedIsBelow ==
    ASSUME NEW h, HeapOK(h), NEW root, NEW D, D \subseteq Live(h),
           \A x \in D \ {root} : h.parent[x] \in D
    PROVE  \A x \in D : root \in Ancestors(h, x)
<1> DEFINE S == {x \in D : root \notin Ancestors(h, x)}
<1>1. Live(h) \subseteq Ids
  BY LinksStayLive
<1>2. ASSUME NEW x \in S PROVE h.parent[x] \in S
  <2>1. x \in Ids /\ root \notin Ancestors(h, x) /\ x \in D
    BY <1>1
  <2>2. x # root
    BY <2>1, ReachStart DEF Ancestors
  <2>3. h.parent[x] \in D
    BY <2>1, <2>2
  <2>4. Ancestors(h, h.parent[x]) \subseteq Ancestors(h, x)
    BY <1>1, <2>1, <2>3, AncestorsOfChild
  <2>5. QED
    BY <2>1, <2>3, <2>4
<1>3. S \subseteq Live(h)
  OBVIOUS
<1> HIDE DEF S
<1>4. S = {}
  BY <1>2, <1>3 DEF HeapOK, ForestOK, ParentAcyclic
<1>5. QED
  BY <1>4 DEF S

(* The root is no child of anything below it.                              *)
LEMMA RootIsAbove ==
    ASSUME NEW s, HeapOK(s), NEW D, NEW c, Visited(s, D, c), NEW x \in D
    PROVE  /\ c.root \in Ancestors(s, x)
           /\ s.parent[c.root] # x
           /\ x # c.root => x \notin Ancestors(s, c.root)
<1>1. D \subseteq Live(s) /\ Live(s) \subseteq Ids /\ c.root \in Live(s)
      /\ \A y \in D \ {c.root} : s.parent[y] \in D
  BY LinksStayLive DEF Visited
<1>2. c.root \in Ancestors(s, x)
  BY <1>1, ClosedIsBelow
<1>3. s.parent[c.root] # x
  BY <1>1, <1>2, NotAboveParent
<1>4. ASSUME x # c.root PROVE x \notin Ancestors(s, c.root)
  <2>1. s.parent[x] \in Live(s)
    BY <1>1, <1>4
  <2>2. /\ Ancestors(s, x) = Ancestors(s, s.parent[x]) \cup {x}
        /\ x \notin Ancestors(s, s.parent[x])
    BY <1>1, <2>1, AncestorsOfChild
  <2>3. c.root \in Ancestors(s, s.parent[x])
    BY <1>2, <1>4, <2>2
  <2>4. Ancestors(s, c.root) \subseteq Ancestors(s, s.parent[x])
    BY <1>1, <2>1, <2>3, ReachTransitive DEF Ancestors
  <2>5. QED
    BY <2>2, <2>4
<1>5. QED
  BY <1>2, <1>3, <1>4

(* What is known of the node that is copied next.                          *)
Due(s, D, root, x) ==
    /\ x \in Live(s) \ D /\ x # root
    /\ s.parent[x] \in D
    /\ \A t \in Live(s) : s.next[t] = x => t \in D \ {root}
    /\ s.first[x] \notin D \cup {x} /\ s.next[x] \notin D \cup {x}

(* An unvisited node is next when its parent and what comes before it in   *)
(* the list have been visited.                                             *)
LEMMA NextIsDue ==
    ASSUME NEW s, HeapOK(s), NEW D, NEW c, Visited(s, D, c),
           NEW x \in Live(s) \ D, s.parent[x] \in D,
           \A t \in Live(s) : s.next[t] = x => t \in D
    PROVE  Due(s, D, c.root, x)
<1>1. /\ D \subseteq Live(s) /\ Live(s) \subseteq Ids /\ Nil \notin Ids
      /\ c.root \in D /\ x # c.root /\ s.parent[x] \in Live(s)
  BY LinksStayLive, IdsBelowNil DEF Visited
<1>2. c.root \in Ancestors(s, s.parent[x]) /\ s.parent[c.root] # s.parent[x]
  BY RootIsAbove
<1>3. s.parent[c.root] # x
  <2>1. c.root \in Ancestors(s, x)
    BY <1>1, <1>2, AncestorsOfChild
  <2>2. QED
    BY <1>1, <2>1, NotAboveParent
<1>4. \A t \in Live(s) : s.next[t] = x => s.parent[t] = s.parent[x]
  BY <1>1 DEF HeapOK, ForestOK, LinksOK, NextOK
<1>5. s.first[x] \notin D \cup {x}
  <2>1. s.first[x] # Nil => s.parent[s.first[x]] = x
    BY DEF HeapOK, ForestOK, LinksOK, EndsOK
  <2>2. QED
    BY <1>1, <1>3, <2>1 DEF Visited
<1>6. s.next[x] \notin D \cup {x}
  <2>1. s.next[x] # Nil => s.next[x] \in Live(s)
                           /\ s.parent[s.next[x]] = s.parent[x]
    BY DEF HeapOK, ForestOK, LinksOK, NextOK
  <2>2. s.next[x] # x
    BY <1>1, NextIsOther
  <2>3. s.next[x] # c.root
    BY <1>1, <1>2, <2>1
  <2>4. QED
    BY <1>1, <2>1, <2>2, <2>3 DEF Visited
<1>7. QED
  BY <1>1, <1>2, <1>4, <1>5, <1>6 DEF Due

(* The first child of the cursor is next when there is one.                *)
LEMMA FirstVisited ==
    ASSUME NEW s, HeapOK(s), NEW D, NEW c, Visited(s, D, c), ~c.climbing,
           NEW x, x = s.first[c.source], x # Nil,
           NEW d, d.root = c.root, d.source = x, ~d.climbing
    PROVE  /\ Due(s, D, c.root, x) /\ s.parent[x] = c.source
           /\ Visited(s, D \cup {x}, d)
<1>1. /\ D \subseteq Live(s) /\ Live(s) \subseteq Ids /\ c.source \in D
  BY LinksStayLive DEF Visited
<1>2. /\ x \in Live(s) \ D /\ s.parent[x] = c.source
      /\ \A t \in Live(s) : s.next[t] # x
  BY <1>1 DEF Visited, HeapOK, ForestOK, LinksOK, EndsOK
<1>3. Due(s, D, c.root, x)
  BY <1>1, <1>2, NextIsDue
<1>4. Ancestors(s, x) = Ancestors(s, c.source) \cup {x}
  BY <1>1, <1>2, AncestorsOfChild
<1>5. \A u \in D \ {c.source} : s.first[u] \in D \cup {Nil}
  BY DEF Visited
<1>6. ASSUME NEW u \in D \ {c.root}
      PROVE  /\ s.parent[u] \in D \cup {x}
             /\ \A t \in Live(s) : s.next[t] = u => t \in D \cup {x}
             /\ IF u \in Ancestors(s, x) THEN s.next[u] \notin D \cup {x}
                                         ELSE s.next[u] \in D \cup {x, Nil}
  BY <1>1, <1>2, <1>4 DEF Visited
<1>7. Visited(s, D \cup {x}, d)
  BY <1>1, <1>2, <1>3, <1>4, <1>5, <1>6 DEF Visited, Due
<1>8. QED
  BY <1>2, <1>3, <1>7

(* Nothing is left below the cursor.                                       *)
Left(s, c) == c.climbing \/ s.first[c.source] = Nil

(* Then its next sibling is, when there is one.                            *)
LEMMA NextVisited ==
    ASSUME NEW s, HeapOK(s), NEW D, NEW c, Visited(s, D, c), Left(s, c),
           c.source # c.root, NEW x, x = s.next[c.source], x # Nil,
           NEW d, d.root = c.root, d.source = x, ~d.climbing
    PROVE  /\ Due(s, D, c.root, x) /\ s.parent[x] = s.parent[c.source]
           /\ Visited(s, D \cup {x}, d)
<1>1. /\ D \subseteq Live(s) /\ Live(s) \subseteq Ids /\ c.source \in D
      /\ s.parent[c.source] \in D /\ c.source \in Ids
  BY LinksStayLive DEF Visited
<1>2. c.source \in Ancestors(s, c.source)
  BY <1>1, ReachStart DEF Ancestors
<1>3. /\ x \in Live(s) \ D /\ s.parent[x] = s.parent[c.source]
      /\ \A t \in Live(s) : s.next[t] = x => t = c.source
  BY <1>1, <1>2 DEF Visited, HeapOK, ForestOK, LinksOK, NextOK
<1>4. Due(s, D, c.root, x)
  BY <1>1, <1>3, NextIsDue
<1>5. /\ Ancestors(s, x) = Ancestors(s, s.parent[c.source]) \cup {x}
      /\ Ancestors(s, c.source)
            = Ancestors(s, s.parent[c.source]) \cup {c.source}
      /\ c.source \notin Ancestors(s, s.parent[c.source])
  BY <1>1, <1>3, AncestorsOfChild
<1>6. \A u \in D : s.first[u] \in D \cup {Nil}
  BY DEF Visited, Left
<1>7. ASSUME NEW u \in D \ {c.root}
      PROVE  /\ s.parent[u] \in D \cup {x}
             /\ \A t \in Live(s) : s.next[t] = u => t \in D \cup {x}
             /\ IF u \in Ancestors(s, x) THEN s.next[u] \notin D \cup {x}
                                         ELSE s.next[u] \in D \cup {x, Nil}
  <2>1. CASE u = c.source
    BY <1>1, <1>3, <1>5, <2>1 DEF Visited
  <2>2. CASE u # c.source
    BY <1>1, <1>3, <1>5, <2>2 DEF Visited
  <2>3. QED
    BY <2>1, <2>2
<1>8. x \in Ancestors(s, x)
  BY <1>5
<1>9. Visited(s, D \cup {x}, d)
  BY <1>1, <1>3, <1>4, <1>6, <1>7, <1>8 DEF Visited, Due
<1>10. QED
  BY <1>3, <1>4, <1>9

(* Otherwise the cursor climbs, ...                                        *)
LEMMA ClimbVisited ==
    ASSUME NEW s, HeapOK(s), NEW D, NEW c, Visited(s, D, c), Left(s, c),
           c.source # c.root, s.next[c.source] = Nil,
           NEW d, d.root = c.root, d.source = s.parent[c.source], d.climbing
    PROVE  Visited(s, D, d)
<1>1. /\ D \subseteq Live(s) /\ Live(s) \subseteq Ids /\ c.source \in D
      /\ s.parent[c.source] \in D /\ c.source \in Ids /\ c.root \in D
  BY LinksStayLive DEF Visited
<1>2. /\ Ancestors(s, c.source)
            = Ancestors(s, s.parent[c.source]) \cup {c.source}
      /\ c.source \notin Ancestors(s, s.parent[c.source])
  BY <1>1, AncestorsOfChild
<1>3. \A u \in D : s.first[u] \in D \cup {Nil}
  BY DEF Visited, Left
<1>4. ASSUME NEW u \in D \ {c.root}
      PROVE  /\ s.parent[u] \in D
             /\ \A t \in Live(s) : s.next[t] = u => t \in D
             /\ IF u \in Ancestors(s, s.parent[c.source])
                THEN s.next[u] \notin D ELSE s.next[u] \in D \cup {Nil}
  BY <1>2 DEF Visited
<1>5. QED
  BY <1>1, <1>3, <1>4 DEF Visited

(* ... and back at the root everything has been visited.                   *)
LEMMA AllVisited ==
    ASSUME NEW s, HeapOK(s), NEW D, NEW c, Visited(s, D, c), Left(s, c),
           c.source = c.root
    PROVE  /\ \A x \in D : s.first[x] \in D \cup {Nil}
           /\ \A x \in D \ {c.root} : s.next[x] \in D \cup {Nil}
<1>1. \A x \in D : s.first[x] \in D \cup {Nil}
  BY DEF Visited, Left
<1>2. \A x \in D \ {c.root} : s.next[x] \in D \cup {Nil}
  BY RootIsAbove DEF Visited
<1>3. QED
  BY <1>1, <1>2

(* The part of g that f maps D to looks like D in s: the same types and    *)
(* texts, and the same links as far as they stay in D.                     *)
Mirrors(s, g, before, D, f, root) ==
    /\ f \in [D -> Live(g) \ Live(before)]
    /\ \A x, y \in D : f[x] = f[y] => x = y
    /\ g.parent[f[root]] = Nil /\ KeyText(g, f[root]) = <<>>
    /\ \A x \in D :
          /\ g.type[f[x]] = s.type[x] /\ ValueText(g, f[x]) = ValueText(s, x)
          /\ g.first[f[x]] = IF s.first[x] \in D THEN f[s.first[x]] ELSE Nil
    /\ \A x \in D \ {root} :
          /\ g.parent[f[x]] = f[s.parent[x]] /\ KeyText(g, f[x]) = KeyText(s, x)
          /\ g.next[f[x]] = IF s.next[x] \in D THEN f[s.next[x]] ELSE Nil

(* Where the copy of the next node belongs: behind that of its predecessor. *)
LEMMA DuePlace ==
    ASSUME NEW s, HeapOK(s), NEW h, HeapOK(h), NEW before, NEW D, NEW f,
           NEW root \in D, D \subseteq Live(s), Mirrors(s, h, before, D, f, root),
           NEW x, Due(s, D, root, x)
    PROVE  LET p == f[s.parent[x]]
           IN /\ p \in Live(h) \ Live(before)
              /\ \A u \in D : s.first[u] = x <=> f[u] = p /\ h.last[p] = Nil
              /\ \A u \in D : s.next[u] = x <=> f[u] = h.last[p]
<1> DEFINE p == f[s.parent[x]]
<1>1. /\ x \in Live(s) /\ x \notin D /\ s.parent[x] \in D /\ Nil \notin Live(s)
      /\ Live(s) \subseteq Ids /\ Live(h) \subseteq Ids /\ Nil \notin Ids
  BY LinksStayLive, IdsBelowNil DEF Due
<1>2. p \in Live(h) \ Live(before) /\ \A u \in D : f[u] \in Live(h)
  BY <1>1 DEF Mirrors
<1>3. \A u \in D : f[u] = p <=> u = s.parent[x]
  BY <1>1 DEF Mirrors
<1>4. \A u \in D : s.first[u] = x => u = s.parent[x]
  BY <1>1 DEF HeapOK, ForestOK, LinksOK, EndsOK
<1>5. CASE s.first[s.parent[x]] = x
  <2>1. h.first[p] = Nil
    BY <1>1, <1>5 DEF Mirrors
  <2>2. h.last[p] = Nil
    BY <1>1, <1>2, <2>1 DEF HeapOK, ForestOK, LinksOK, EndsOK
  <2>3. \A u \in D : s.next[u] # x
    BY <1>1, <1>5 DEF HeapOK, ForestOK, LinksOK, EndsOK
  <2>4. \A u \in D : f[u] # h.last[p]
    BY <1>1, <1>2, <2>2
  <2> HIDE DEF p
  <2>5. QED
    BY <1>2, <1>3, <1>4, <1>5, <2>2, <2>3, <2>4 DEF p
<1>6. CASE s.first[s.parent[x]] # x
  <2>1. PICK t \in Live(s) : s.next[t] = x
    BY <1>1, <1>6 DEF HeapOK, ForestOK, LinksOK, NextOK
  <2>2. t \in D \ {root} /\ s.parent[t] = s.parent[x]
    BY <1>1, <2>1 DEF Due, HeapOK, ForestOK, LinksOK, NextOK
  <2>3. h.next[f[t]] = Nil /\ h.parent[f[t]] = p
    BY <1>1, <2>1, <2>2 DEF Mirrors
  <2>4. h.last[p] = f[t]
    BY <1>1, <1>2, <2>2, <2>3 DEF HeapOK, ForestOK, LinksOK, NextOK
  <2>5. \A u \in D : s.next[u] = x => u = t
    BY <1>1, <2>1 DEF HeapOK, ForestOK, LinksOK, NextOK, Due
  <2>6. \A u \in D : f[u] = f[t] => u = t
    BY <2>2 DEF Mirrors
  <2>7. h.last[p] # Nil
    BY <1>1, <1>2, <2>2, <2>4
  <2> HIDE DEF p
  <2>8. QED
    BY <1>2, <1>4, <1>6, <2>1, <2>4, <2>5, <2>6, <2>7 DEF p
<1>7. QED
  BY <1>5, <1>6

(* Linking the copy of the next node there keeps the mirror.               *)
LEMMA MirrorGrows ==
    ASSUME NEW s, HeapOK(s), NEW h, HeapOK(h), NEW before, HeapOK(before),
           Extends(h, before), NEW D, NEW f, NEW root \in D,
           D \subseteq Live(s), Mirrors(s, h, before, D, f, root),
           \A y \in D \ {root} : s.parent[y] \in D,
           NEW x, Due(s, D, root, x),
           NEW g, HeapOK(g), Linked(g, h, s, x, f[s.parent[x]])
    PROVE  LET e == [u \in D \cup {x} |-> IF u = x THEN h.count ELSE f[u]]
           IN Mirrors(s, g, before, D \cup {x}, e, root)
<1> DEFINE id == h.count
           p == f[s.parent[x]]
           E == D \cup {x}
           e == [u \in E |-> IF u = x THEN id ELSE f[u]]
<1>1. /\ x \in Live(s) /\ x \notin D /\ s.parent[x] \in D /\ x # root
      /\ s.first[x] \notin E /\ s.next[x] \notin E
  BY DEF Due
<1>2. /\ \A u \in D : s.first[u] = x <=> f[u] = p /\ h.last[p] = Nil
      /\ \A u \in D : s.next[u] = x <=> f[u] = h.last[p]
  BY DuePlace
<1>3. Live(g) = Live(h) \cup {id} /\ id \notin Live(h) /\ id \notin Live(before)
  <2>1. g.count = h.count + 1 /\ h.count \in Nat
    BY Counters DEF Linked
  <2>2. NodeBytes(h.count + 1) \in Nat /\ NodeBytes(h.count + 1) <= Capacity
    BY <2>1, Counters
  <2>3. id \in Ids
    BY <2>1, <2>2, FittingIsId
  <2>4. Live(g) = Live(h) \cup {id} /\ id \notin Live(h)
    BY <2>1, <2>3, GrownLive
  <2>5. Live(before) \subseteq Live(h)
    BY Counters, LiveGrows DEF Extends
  <2>6. QED
    BY <2>4, <2>5
<1>4. \A u \in D : f[u] \in Live(h) \ Live(before) /\ f[u] # id
  BY <1>3 DEF Mirrors
<1>5. e[x] = id /\ \A u \in D : e[u] = f[u]
  BY <1>1
<1>6. e \in [E -> Live(g) \ Live(before)]
  BY <1>3, <1>4
<1> HIDE DEF e, E, p
<1>7. \A y, z \in E : e[y] = e[z] => y = z
  BY <1>4, <1>5 DEF E, Mirrors
<1>8. \A i \in Live(h) :
         /\ g.type[i] = h.type[i] /\ g.parent[i] = h.parent[i]
         /\ g.next[i] = IF i = h.last[p] THEN id ELSE h.next[i]
         /\ g.first[i] = IF i = p /\ h.last[p] = Nil THEN id ELSE h.first[i]
         /\ ValueText(g, i) = ValueText(h, i)
         /\ KeyText(g, i) = KeyText(h, i)
  BY DEF Linked, p
<1>9. g.parent[e[root]] = Nil /\ KeyText(g, e[root]) = <<>>
  BY <1>4, <1>5, <1>8 DEF Mirrors
<1>10. ASSUME NEW u \in D
       PROVE  /\ g.type[e[u]] = s.type[u]
              /\ ValueText(g, e[u]) = ValueText(s, u)
              /\ g.first[e[u]] = IF s.first[u] \in E THEN e[s.first[u]] ELSE Nil
  <2>1. g.type[e[u]] = s.type[u] /\ ValueText(g, e[u]) = ValueText(s, u)
    BY <1>4, <1>5, <1>8 DEF Mirrors
  <2>2. h.first[f[u]] = IF s.first[u] \in D THEN f[s.first[u]] ELSE Nil
    BY DEF Mirrors
  <2>3. g.first[e[u]] = IF s.first[u] = x THEN id ELSE h.first[f[u]]
    BY <1>2, <1>4, <1>5, <1>8
  <2>4. QED
    BY <1>1, <1>5, <2>1, <2>2, <2>3 DEF E
<1>11. ASSUME NEW u \in D \ {root}
       PROVE  /\ g.parent[e[u]] = e[s.parent[u]]
              /\ KeyText(g, e[u]) = KeyText(s, u)
              /\ g.next[e[u]] = IF s.next[u] \in E THEN e[s.next[u]] ELSE Nil
  <2>1. g.parent[e[u]] = e[s.parent[u]] /\ KeyText(g, e[u]) = KeyText(s, u)
    BY <1>4, <1>5, <1>8 DEF Mirrors
  <2>2. h.next[f[u]] = IF s.next[u] \in D THEN f[s.next[u]] ELSE Nil
    BY DEF Mirrors
  <2>3. g.next[e[u]] = IF s.next[u] = x THEN id ELSE h.next[f[u]]
    BY <1>2, <1>4, <1>5, <1>8
  <2>4. QED
    BY <1>1, <1>5, <2>1, <2>2, <2>3 DEF E
<1>12. /\ g.type[e[x]] = s.type[x] /\ ValueText(g, e[x]) = ValueText(s, x)
       /\ g.first[e[x]] = Nil /\ g.next[e[x]] = Nil
       /\ g.parent[e[x]] = e[s.parent[x]] /\ KeyText(g, e[x]) = KeyText(s, x)
  BY <1>1, <1>5 DEF Linked
<1>13. Mirrors(s, g, before, E, e, root)
  BY <1>1, <1>6, <1>7, <1>9, <1>10, <1>11, <1>12 DEF Mirrors, E
<1>14. QED
  BY <1>13 DEF E, e

-----------------------------------------------------------------------------
(* The state in the middle of a copy.                                      *)

(* g is what the destination, before at the checkpoint, has become; the    *)
(* source is as it was, and its copy mirrors what has been visited.        *)
CopyOK(s, g, before, D, f, c) ==
    /\ SlabOK(s) /\ SlabOK(g) /\ SlabOK(before) /\ Extends(g, before)
    /\ Visited(s, D, c) /\ Mirrors(s, g, before, D, f, c.root)
    /\ c.copyRoot = f[c.root] /\ c.copy = f[c.source]

(* What the links of the copy are where the cursor is.                     *)
LEMMA CursorPlace ==
    ASSUME NEW s, NEW g, NEW before, NEW D, NEW f, NEW c,
           CopyOK(s, g, before, D, f, c)
    PROVE  /\ c.source \in Live(s) /\ c.root \in Live(s)
           /\ {c.copy, c.copyRoot} \subseteq Live(g) \ Live(before)
           /\ g.type[c.copy] = s.type[c.source]
           /\ c.source # c.root =>
                 /\ s.parent[c.source] \in Live(s)
                 /\ g.parent[c.copy] = f[s.parent[c.source]]
                 /\ g.parent[c.copy] \in Live(g) \ Live(before)
                 /\ g.type[g.parent[c.copy]] = s.type[s.parent[c.source]]
<1>1. /\ c.source \in D /\ c.root \in D /\ D \subseteq Live(s)
      /\ c.source # c.root => s.parent[c.source] \in D
      /\ c.copyRoot = f[c.root] /\ c.copy = f[c.source]
  BY DEF CopyOK, Visited
<1>2. QED
  BY <1>1 DEF CopyOK, Mirrors

(* The state of the loop: before is what the destination was at the        *)
(* checkpoint, s what the slab of the source was then, and what has been   *)
(* visited and copied so far is as CopyOK says.                            *)
Copying(before, s, D, f) ==
    /\ before.count = cursor.start.count /\ before.bytes = cursor.start.bytes
    /\ s = IF cursor.target = "this" THEN before ELSE heap
    /\ CopyOK(s, Destination, before, D, f, cursor)

ClonerInv ==
    /\ IInv /\ SlabOK(heap) /\ SlabOK(other)
    /\ cursor \in Cursors /\ duplicates \in 0 .. MaxDuplicates
    /\ cursor.active => \E before, s, D, f : Copying(before, s, D, f)

(* What a turn of the loop owes, which leaves g as the destination.        *)
Owes(g, before) ==
    /\ ClonerInv' /\ SetHeap(cursor.target, g) /\ Extends(g, before)
    /\ ~cursor'.active /\ result' # "Ok" => GivesBack(cursor.start, g)

(* What duplicate() leaves alone.                                          *)
Aside == UNCHANGED <<generation, error, epoch, stale>>

(* Both slabs are in order when the one that changes is.                   *)
LEMMA HeapsInOrder ==
    ASSUME IInv, SlabOK(heap), SlabOK(other), Aside,
           NEW target, NEW g, SlabOK(g), SetHeap(target, g),
           result' \in ErrorCodes \ {"InternalError"}
    PROVE  IInv' /\ SlabOK(heap') /\ SlabOK(other')
<1>1. SlabOK(heap') /\ SlabOK(other')
  BY DEF SetHeap
<1>2. HeapOK(heap')
  BY <1>1 DEF SlabOK
<1>3. IInv'
  BY <1>2 DEF IInv, Aside, HeapOK, TypeOK, LayoutSafe, ForestSafe,
              NoInternalError
<1>4. QED
  BY <1>1, <1>3

(* Going back to the checkpoint.                                           *)
LEMMA RolledBack ==
    ASSUME NEW before, SlabOK(before), NEW h \in Heaps, Extends(h, before)
    PROVE  LET g == Rollback(h, before)
           IN /\ SlabOK(g) /\ Extends(g, before)
              /\ g.count = before.count /\ g.bytes = before.bytes
<1> DEFINE g == Rollback(h, before)
<1>1. HeapOK(before) /\ HeapOK(g)
  BY RollbackKeepsForest DEF SlabOK, Extends
<1>2. /\ g.count = before.count /\ g.bytes = before.bytes
      /\ Extends(g, before) /\ StringsOK(g)
  BY <1>1, RollbackKeepsStrings DEF SlabOK
<1> HIDE DEF g
<1>3. KeysAtHome(g) /\ ValuesAtHome(g)
  BY <1>1, <1>2, ExtendedKeys, ExtendedValues DEF SlabOK
<1>4. QED
  BY <1>1, <1>2, <1>3 DEF SlabOK, g

(* The loop gives up: the destination goes back to the checkpoint, so both *)
(* slabs are in order and nothing that was there before is lost.           *)
LEMMA AbortStep ==
    ASSUME ClonerInv, Aside, UNCHANGED duplicates,
           NEW before, NEW s, NEW D, NEW f, Copying(before, s, D, f),
           NEW h \in Heaps, Extends(h, before),
           NEW code \in ErrorCodes \ {"InternalError"}, Abort(code, h)
    PROVE  \E g : Owes(g, before)
<1> DEFINE g == Rollback(h, before)
<1>1. Rollback(h, cursor.start) = g
  BY DEF Rollback, Copying
<1>2. SetHeap(cursor.target, g) /\ cursor' = NoCursor /\ result' = code
  BY <1>1 DEF Abort
<1>3. /\ SlabOK(g) /\ Extends(g, before)
      /\ g.count = before.count /\ g.bytes = before.bytes
  BY RolledBack DEF Copying, CopyOK
<1> HIDE DEF g
<1>4. IInv' /\ SlabOK(heap') /\ SlabOK(other')
  BY <1>2, <1>3, HeapsInOrder DEF ClonerInv
<1>5. NoCursor \in Cursors /\ ~NoCursor.active
  BY IdsBelowNil DEF NoCursor, Cursors
<1>6. Owes(g, before)
  BY <1>2, <1>3, <1>4, <1>5 DEF Owes, ClonerInv, GivesBack, Copying
<1>7. QED
  BY <1>6

(* The source is there as it was, whatever has been added to its slab.     *)
LEMMA SourceKept ==
    ASSUME ClonerInv, NEW before, NEW s, NEW D, NEW f, Copying(before, s, D, f)
    PROVE  /\ HeapOK(s) /\ HeapOK(heap) /\ Extends(heap, s)
           /\ Live(s) \subseteq Live(heap)
           /\ \A i \in Live(s) :
                 /\ heap.type[i] = s.type[i] /\ heap.parent[i] = s.parent[i]
                 /\ heap.first[i] = s.first[i] /\ heap.next[i] = s.next[i]
                 /\ ValueText(heap, i) = ValueText(s, i)
                 /\ KeyText(heap, i) = KeyText(s, i)
<1>1. HeapOK(s) /\ HeapOK(heap)
  BY DEF ClonerInv, Copying, CopyOK, SlabOK
<1>2. Extends(heap, s)
  <2>1. CASE cursor.target = "this"
    BY <2>1 DEF Copying, CopyOK, Destination, HeapOf
  <2>2. CASE cursor.target # "this"
    BY <1>1, <2>2, SameIsKept DEF Copying, Kept
  <2>3. QED
    BY <2>1, <2>2
<1>3. Live(s) \subseteq Live(heap)
  BY <1>1, <1>2, Counters, LiveGrows DEF Extends
<1>4. ASSUME NEW i \in Live(s)
      PROVE  /\ heap.type[i] = s.type[i] /\ heap.parent[i] = s.parent[i]
             /\ heap.first[i] = s.first[i] /\ heap.next[i] = s.next[i]
             /\ ValueText(heap, i) = ValueText(s, i)
             /\ KeyText(heap, i) = KeyText(s, i)
  <2>1. /\ ViewString(heap, s.value[i]) = ViewString(s, s.value[i])
        /\ ViewString(heap, s.key[i]) = ViewString(s, s.key[i])
    BY <1>1, <1>2, LiveRefs, KeptView DEF Extends
  <2>2. QED
    BY <1>2, <2>1 DEF Extends, SameNodes, ValueText, KeyText
<1>5. QED
  BY <1>1, <1>2, <1>3, <1>4

(* Both cursors go on to the node that is next and to its copy.            *)
LEMMA GoOnStep ==
    ASSUME ClonerInv, cursor.active, Aside, UNCHANGED duplicates,
           NEW before, NEW s, NEW D, NEW f, Copying(before, s, D, f),
           NEW x, Due(s, D, cursor.root, x),
           NEW copyKey \in BOOLEAN,
           copyKey <=> heap.type[s.parent[x]] = "Object",
           NEW made, made = CloneNode(Destination, heap, x, copyKey),
           NEW p, p = f[s.parent[x]],
           NEW id, id = Destination.count,
           NEW linked,
           made.code = "Ok" /\ Cloned(made.heap, Destination, heap, x, copyKey)
              => linked = AppendChild(made.heap, p, id),
           NEW c, c.root = cursor.root, c.source = x, ~c.climbing,
           Visited(s, D \cup {x}, c),
           GoOn(x, made, linked)
    PROVE  \E g : Owes(g, before)
<1>1. /\ CopyOK(s, Destination, before, D, f, cursor)
      /\ SlabOK(heap) /\ SlabOK(Destination) /\ SlabOK(before)
      /\ Extends(Destination, before)
      /\ HeapOK(Destination) /\ HeapOK(before)
      /\ Visited(s, D, cursor)
      /\ Mirrors(s, Destination, before, D, f, cursor.root)
  BY DEF Copying, CopyOK, ClonerInv, SlabOK
<1>2. /\ HeapOK(s) /\ Live(s) \subseteq Live(heap)
      /\ \A i \in Live(s) :
            /\ heap.type[i] = s.type[i] /\ heap.parent[i] = s.parent[i]
            /\ ValueText(heap, i) = ValueText(s, i)
            /\ KeyText(heap, i) = KeyText(s, i)
  BY SourceKept
<1>3. /\ x \in Live(s) /\ x \in Live(heap) /\ s.parent[x] \in D
      /\ D \subseteq Live(s) /\ cursor.root \in D
      /\ \A y \in D \ {cursor.root} : s.parent[y] \in D
  BY <1>1, <1>2 DEF Due, Visited
<1>4. Nil \notin Ids /\ Live(s) \subseteq Ids
  BY <1>2, LinksStayLive, IdsBelowNil
<1>5. copyKey <=> Member(heap, x)
  BY <1>2, <1>3, <1>4 DEF Member
<1>6. /\ Undoable(made, Destination)
      /\ made.code = "Ok" =>
            Cloned(made.heap, Destination, heap, x, copyKey)
  BY <1>1, <1>3, <1>5, CloneNodeOK
<1>7. CASE made.code # "Ok"
  <2>1. Abort(made.code, made.heap)
    BY <1>7 DEF GoOn
  <2>2. made.code \in ErrorCodes \ {"InternalError"} /\ made.heap \in Heaps
        /\ Extends(made.heap, Destination)
    BY <1>6 DEF Undoable
  <2>3. Extends(made.heap, before)
    <3>1. Destination.count <= made.heap.count /\ before.count <= Destination.count
          /\ Destination.bytes <= made.heap.bytes
          /\ before.bytes <= Destination.bytes
      BY <1>1, <2>2 DEF Extends, BytesKept
    <3>2. /\ before.count \in Nat /\ before.bytes \in Nat
          /\ Destination.count \in Nat /\ Destination.bytes \in Nat
          /\ made.heap.count \in Nat /\ made.heap.bytes \in Nat
          /\ Capacity \in Nat
      BY <1>1, <2>2, Counters DEF Heaps
    <3>3. Live(before) \subseteq Live(Destination)
      BY <1>1, <3>2, LiveGrows DEF Extends
    <3>4. SameNodes(made.heap, before) /\ FlagsKept(made.heap, before)
      BY <1>1, <2>2, <3>3 DEF Extends, SameNodes, FlagsKept
    <3>5. \A a \in Addresses : a >= Capacity - before.bytes
                                  => a >= Capacity - Destination.bytes
      BY <3>1, <3>2 DEF Addresses
    <3>6. BytesKept(made.heap, before)
      BY <1>1, <2>2, <3>1, <3>2, <3>5 DEF Extends, BytesKept
    <3>7. before.count <= made.heap.count
      BY <3>1, <3>2
    <3>8. QED
      BY <3>4, <3>6, <3>7 DEF Extends
  <2>4. QED
    BY <2>1, <2>2, <2>3, AbortStep
<1>8. CASE made.code = "Ok"
  <2>1. Cloned(made.heap, Destination, heap, x, copyKey)
        /\ linked = AppendChild(made.heap, p, id)
    BY <1>6, <1>8
  <2> DEFINE d == [cursor EXCEPT !.source = x, !.copy = id,
                                 !.climbing = FALSE]
  <2>2. SetHeap(cursor.target, linked) /\ cursor' = d /\ UNCHANGED result
    BY <1>8 DEF GoOn, Abort
  <2>3. p \in Live(Destination) \ Live(before)
    BY <1>1, <1>3 DEF Mirrors
  <2>4. Destination.type[p] = heap.type[s.parent[x]]
    BY <1>1, <1>2, <1>3 DEF Mirrors
  <2>5. Destination.type[p] \in Containers
    BY <1>2, <1>3, <1>4, <2>4 DEF HeapOK, ForestOK, LinksOK, ParentOK
  <2>6. SlabOK(linked) /\ Extends(linked, before)
        /\ Linked(linked, Destination, heap, x, p)
    BY <1>1, <1>3, <1>5, <2>1, <2>3, <2>4, <2>5, ClonedLinks
  <2>7. Linked(linked, Destination, s, x, p)
    BY <1>2, <1>3, <2>6 DEF Linked
  <2> DEFINE E == D \cup {x}
             e == [u \in E |-> IF u = x THEN id ELSE f[u]]
  <2>8. Mirrors(s, linked, before, E, e, cursor.root)
    <3>1. HeapOK(linked)
      BY <2>6 DEF SlabOK
    <3>2. QED
      BY <1>1, <1>2, <1>3, <2>7, <3>1, MirrorGrows, SMTT(30)
  <2>9. e[x] = id /\ e[cursor.root] = f[cursor.root]
    BY <1>3 DEF Due
  <2> HIDE DEF E, e
  <2>10. /\ d.root = cursor.root /\ d.source = x /\ d.copy = id
         /\ d.copyRoot = cursor.copyRoot /\ d.target = cursor.target
         /\ d.start = cursor.start /\ d.active /\ ~d.climbing
    BY DEF ClonerInv, Cursors
  <2>d. d \in Cursors \/ id \notin Ids \/ x \notin Ids
    BY DEF ClonerInv, Cursors
  <2> HIDE DEF d
  <2>v. Visited(s, E, d)
    BY <2>10 DEF Visited, E
  <2>11. CopyOK(s, linked, before, E, e, d)
    BY <1>1, <2>6, <2>8, <2>9, <2>10, <2>v DEF CopyOK
  <2>12. Copying(before, s, E, e)'
    <3>1. /\ HeapOf(cursor.target)' = linked
          /\ cursor.target # "this" => heap' = heap
      BY <2>2, <2>10 DEF SetHeap, HeapOf
    <3>2. before.count = d.start.count /\ before.bytes = d.start.bytes
          /\ s = IF d.target = "this" THEN before ELSE heap
      BY <2>10 DEF Copying
    <3>3. s = IF cursor'.target = "this" THEN before ELSE heap'
      BY <2>2, <2>10, <3>1, <3>2
    <3>4. CopyOK(s, Destination', before, E, e, cursor')
      BY <2>2, <2>11, <3>1 DEF Destination
    <3>5. QED
      BY <2>2, <3>2, <3>3, <3>4 DEF Copying
  <2>13. IInv' /\ SlabOK(heap') /\ SlabOK(other')
    BY <2>2, <2>6, HeapsInOrder DEF ClonerInv, IInv, TypeOK, NoInternalError
  <2>14. d \in Cursors
    <3>1. x \in Ids /\ id \in Ids
      <4>1. id = cursor'.copy /\ e[x] \in Live(linked)
        BY <2>2, <2>8, <2>10 DEF Mirrors, E
      <4>2. QED
        BY <1>3, <1>4, <2>9, <4>1 DEF Live
    <3>2. QED
      BY <2>d, <3>1
  <2>15. ClonerInv'
    BY <2>2, <2>12, <2>13, <2>14 DEF ClonerInv
  <2>16. Owes(linked, before)
    BY <2>2, <2>6, <2>10, <2>15 DEF Owes
  <2>17. QED
    BY <2>16
<1>9. QED
  BY <1>7, <1>8

(* The copy of a node, before it is linked, and the links that were there. *)
LEMMA BeforeLinking ==
    ASSUME NEW h, HeapOK(h), NEW s, NEW i, NEW copyKey, NEW m,
           Cloned(m, h, s, i, copyKey), NEW p \in Live(h)
    PROVE  /\ m \in Heaps /\ p \in Ids /\ h.count \in Ids /\ p # h.count
           /\ m.next[h.count] = Nil
           /\ m.parent[p] = h.parent[p] /\ m.next[p] = h.next[p]
           /\ m.first[p] = h.first[p] /\ m.last[p] = h.last[p]
<1>1. HeapOK(m) /\ Sprouted(m, h, s.type[i])
  BY DEF Cloned
<1>2. Live(h) \subseteq Ids /\ h.count \notin Live(h)
  BY <1>1, LinksStayLive, GrownLive DEF Sprouted
<1>3. QED
  BY <1>1, <1>2 DEF Sprouted, Extends, SameNodes, HeapOK

(* The first child of the cursor is copied under the copy of the cursor:   *)
(* the link function, which writes three fields, is enough there.          *)
LEMMA CloneFirstChildStep ==
    ASSUME ClonerInv, cursor.active, Aside, UNCHANGED duplicates,
           NEW before, NEW s, NEW D, NEW f, Copying(before, s, D, f),
           CloneFirstChild
    PROVE  \E g : Owes(g, before)
<1>1. /\ CopyOK(s, Destination, before, D, f, cursor)
      /\ HeapOK(Destination)
      /\ Visited(s, D, cursor)
      /\ Mirrors(s, Destination, before, D, f, cursor.root)
      /\ cursor.copy = f[cursor.source]
  BY DEF Copying, CopyOK, SlabOK
<1>2. /\ HeapOK(s)
      /\ \A i \in Live(s) : heap.first[i] = s.first[i]
  BY SourceKept
<1>3. cursor.source \in Live(s) /\ cursor.source \in D /\ D \subseteq Live(s)
  BY <1>1 DEF Visited
<1>4. \E x, k, id, d, made, p, linked :
         /\ x = heap.first[cursor.source]
         /\ k = (heap.type[cursor.source] = "Object")
         /\ id = Destination.count
         /\ d = [cursor EXCEPT !.source = x, !.copy = id, !.climbing = FALSE]
         /\ made = CloneNode(Destination, heap, x, k)
         /\ p = f[s.parent[x]]
         /\ linked = LinkFirstChild(made.heap, cursor.copy, id)
  OBVIOUS
<1>5. PICK x, k, id, d, made, p, linked :
         /\ x = heap.first[cursor.source]
         /\ k = (heap.type[cursor.source] = "Object")
         /\ id = Destination.count
         /\ d = [cursor EXCEPT !.source = x, !.copy = id, !.climbing = FALSE]
         /\ made = CloneNode(Destination, heap, x, k)
         /\ p = f[s.parent[x]]
         /\ linked = LinkFirstChild(made.heap, cursor.copy, id)
  BY <1>4
<1>a. /\ x = heap.first[cursor.source] /\ id = Destination.count
      /\ made = CloneNode(Destination, heap, x, k)
      /\ p = f[s.parent[x]]
      /\ linked = LinkFirstChild(made.heap, cursor.copy, id)
  BY <1>5
<1>b. k \in BOOLEAN /\ (k <=> heap.type[cursor.source] = "Object")
  BY <1>5
<1>6. x # Nil /\ ~cursor.climbing /\ x = s.first[cursor.source]
  BY <1>2, <1>3, <1>a DEF CloneFirstChild
<1>7. d.root = cursor.root /\ d.source = x /\ ~d.climbing
  BY <1>5 DEF ClonerInv, Cursors
<1>8. /\ Due(s, D, cursor.root, x) /\ s.parent[x] = cursor.source
      /\ Visited(s, D \cup {x}, d)
  BY <1>1, <1>2, <1>6, <1>7, FirstVisited
<1>9. GoOn(x, made, linked)
  BY <1>5 DEF CloneFirstChild
<1>10. ASSUME Cloned(made.heap, Destination, heap, x, k)
       PROVE  linked = AppendChild(made.heap, p, id)
  <2>1. cursor.copy \in Live(Destination)
    BY <1>1, <1>3 DEF Mirrors
  <2>2. Destination.first[cursor.copy] = Nil
    BY <1>1, <1>3, <1>6, <1>8 DEF Mirrors, Due
  <2>3. Destination.last[cursor.copy] = Nil
    BY <1>1, <2>1, <2>2, LinksStayLive, IdsBelowNil
       DEF HeapOK, ForestOK, LinksOK, EndsOK
  <2>4. /\ made.heap \in Heaps /\ cursor.copy \in Ids /\ id \in Ids
        /\ made.heap.next[id] = Nil /\ made.heap.last[cursor.copy] = Nil
    BY <1>1, <1>a, <1>10, <2>1, <2>3, BeforeLinking
  <2>5. linked = AppendChild(made.heap, cursor.copy, id)
    BY <1>a, <2>4, LinkFirstIsAppend
  <2>6. QED
    BY <1>1, <1>a, <1>8, <2>5
<1>11. k <=> heap.type[s.parent[x]] = "Object"
  BY <1>8, <1>b
<1>12. made.code = "Ok" /\ Cloned(made.heap, Destination, heap, x, k)
          => linked = AppendChild(made.heap, p, id)
  BY <1>10
<1>13. QED
  BY <1>a, <1>b, <1>7, <1>8, <1>9, <1>11, <1>12, GoOnStep

(* The next sibling is copied behind the copy of the cursor, which is the  *)
(* last child of its parent.                                               *)
LEMMA CloneNextSiblingStep ==
    ASSUME ClonerInv, cursor.active, Aside, UNCHANGED duplicates,
           NEW before, NEW s, NEW D, NEW f, Copying(before, s, D, f),
           CloneNextSibling
    PROVE  \E g : Owes(g, before)
<1>1. /\ CopyOK(s, Destination, before, D, f, cursor)
      /\ HeapOK(Destination)
      /\ Visited(s, D, cursor)
      /\ Mirrors(s, Destination, before, D, f, cursor.root)
      /\ cursor.copy = f[cursor.source]
  BY DEF Copying, CopyOK, SlabOK
<1>2. /\ HeapOK(s)
      /\ \A i \in Live(s) : /\ heap.first[i] = s.first[i]
                            /\ heap.next[i] = s.next[i]
                            /\ heap.parent[i] = s.parent[i]
  BY SourceKept
<1>3. cursor.source \in Live(s) /\ cursor.source \in D /\ D \subseteq Live(s)
  BY <1>1 DEF Visited
<1>4. ~Broken /\ cursor.source # cursor.root
  <2>1. cursor.source # cursor.root
    BY DEF CloneNextSibling
  <2>2. /\ heap.parent[cursor.source] \in Live(s)
        /\ Destination.parent[cursor.copy] \in Live(Destination)
    BY <1>1, <1>2, <1>3, <2>1, CursorPlace
  <2>3. Nil \notin Live(s) /\ Nil \notin Live(Destination)
    BY <1>1, <1>2, LinksStayLive, IdsBelowNil
  <2>4. QED
    BY <2>1, <2>2, <2>3 DEF Broken
<1>5. \E x, k, id, d, made, p, linked :
         /\ x = heap.next[cursor.source]
         /\ k = (heap.type[heap.parent[cursor.source]] = "Object")
         /\ id = Destination.count
         /\ d = [cursor EXCEPT !.source = x, !.copy = id, !.climbing = FALSE]
         /\ made = CloneNode(Destination, heap, x, k)
         /\ p = f[s.parent[x]]
         /\ linked = LinkNextSibling(made.heap, cursor.copy, id)
  OBVIOUS
<1>6. PICK x, k, id, d, made, p, linked :
         /\ x = heap.next[cursor.source]
         /\ k = (heap.type[heap.parent[cursor.source]] = "Object")
         /\ id = Destination.count
         /\ d = [cursor EXCEPT !.source = x, !.copy = id, !.climbing = FALSE]
         /\ made = CloneNode(Destination, heap, x, k)
         /\ p = f[s.parent[x]]
         /\ linked = LinkNextSibling(made.heap, cursor.copy, id)
  BY <1>5
<1>a. /\ x = heap.next[cursor.source] /\ id = Destination.count
      /\ made = CloneNode(Destination, heap, x, k)
      /\ p = f[s.parent[x]]
      /\ linked = LinkNextSibling(made.heap, cursor.copy, id)
  BY <1>6
<1>b. k \in BOOLEAN
      /\ (k <=> heap.type[heap.parent[cursor.source]] = "Object")
  BY <1>6
<1>7. x # Nil /\ Left(s, cursor) /\ x = s.next[cursor.source]
  BY <1>2, <1>3, <1>a DEF CloneNextSibling, Leaving, Left
<1>8. d.root = cursor.root /\ d.source = x /\ ~d.climbing
  BY <1>6 DEF ClonerInv, Cursors
<1>9. /\ Due(s, D, cursor.root, x) /\ s.parent[x] = s.parent[cursor.source]
      /\ Visited(s, D \cup {x}, d)
  BY <1>1, <1>2, <1>4, <1>7, <1>8, NextVisited
<1>10. GoOn(x, made, linked)
  BY <1>4, <1>6 DEF CloneNextSibling
<1>11. ASSUME Cloned(made.heap, Destination, heap, x, k)
       PROVE  linked = AppendChild(made.heap, p, id)
  <2>1. cursor.copy \in Live(Destination)
    BY <1>1, <1>3 DEF Mirrors
  <2>2. Destination.parent[cursor.copy] = p /\ p \in Live(Destination)
    BY <1>1, <1>4, <1>a, <1>9, CursorPlace
  <2>3. Destination.next[cursor.copy] = Nil
    BY <1>1, <1>3, <1>4, <1>7, <1>9 DEF Mirrors, Due
  <2>4. Nil \notin Live(Destination)
    BY <1>1, LinksStayLive, IdsBelowNil
  <2>5. Destination.last[p] = cursor.copy
    BY <1>1, <2>1, <2>2, <2>3, <2>4 DEF HeapOK, ForestOK, LinksOK, NextOK
  <2>6. /\ made.heap \in Heaps /\ cursor.copy \in Ids /\ id \in Ids
        /\ cursor.copy # id /\ p \in Ids
        /\ made.heap.next[id] = Nil /\ made.heap.parent[cursor.copy] = p
        /\ made.heap.last[p] = cursor.copy
    <3> DEFINE h == Destination
    <3>1. /\ HeapOK(h) /\ Cloned(made.heap, h, heap, x, k) /\ id = h.count
          /\ cursor.copy \in Live(h) /\ p \in Live(h)
          /\ h.parent[cursor.copy] = p /\ h.last[p] = cursor.copy
      BY <1>1, <1>a, <1>11, <2>1, <2>2, <2>5
    <3> HIDE DEF h
    <3>2. QED
      BY <3>1, BeforeLinking
  <2>7. /\ made.heap \in Heaps /\ cursor.copy \in Ids /\ id \in Ids
        /\ id # cursor.copy /\ made.heap.parent[cursor.copy] \in Ids
        /\ made.heap.last[made.heap.parent[cursor.copy]] = cursor.copy
        /\ made.heap.next[id] = Nil
    BY <2>6
  <2>8. LinkNextSibling(made.heap, cursor.copy, id)
          = AppendChild(made.heap, made.heap.parent[cursor.copy], id)
    BY <2>7, LinkNextIsAppend
  <2>9. QED
    BY <1>a, <2>6, <2>8
<1>12. k <=> heap.type[s.parent[x]] = "Object"
  BY <1>2, <1>3, <1>9, <1>b
<1>13. made.code = "Ok" /\ Cloned(made.heap, Destination, heap, x, k)
          => linked = AppendChild(made.heap, p, id)
  BY <1>11
<1>14. QED
  BY <1>a, <1>b, <1>8, <1>9, <1>10, <1>12, <1>13, GoOnStep

(* The cursors climb: a node below the root has a parent, in the source    *)
(* and in the copy.                                                        *)
LEMMA CloneClimbStep ==
    ASSUME ClonerInv, cursor.active, Aside, UNCHANGED duplicates,
           NEW before, NEW s, NEW D, NEW f, Copying(before, s, D, f),
           CloneClimb
    PROVE  \E g : Owes(g, before)
<1>1. /\ CopyOK(s, Destination, before, D, f, cursor)
      /\ SlabOK(Destination) /\ HeapOK(Destination)
      /\ Extends(Destination, before)
      /\ Visited(s, D, cursor)
      /\ Mirrors(s, Destination, before, D, f, cursor.root)
      /\ cursor.copy = f[cursor.source]
  BY DEF Copying, CopyOK, SlabOK
<1>2. /\ HeapOK(s)
      /\ \A i \in Live(s) : /\ heap.first[i] = s.first[i]
                            /\ heap.next[i] = s.next[i]
                            /\ heap.parent[i] = s.parent[i]
  BY SourceKept
<1>3. cursor.source \in Live(s) /\ cursor.source \in D /\ D \subseteq Live(s)
  BY <1>1 DEF Visited
<1>4. ~Broken /\ cursor.source # cursor.root
  <2>1. cursor.source # cursor.root
    BY DEF CloneClimb
  <2>2. /\ heap.parent[cursor.source] \in Live(s)
        /\ Destination.parent[cursor.copy] \in Live(Destination)
    BY <1>1, <1>2, <1>3, <2>1, CursorPlace
  <2>3. Nil \notin Live(s) /\ Nil \notin Live(Destination)
    BY <1>1, <1>2, LinksStayLive, IdsBelowNil
  <2>4. QED
    BY <2>1, <2>2, <2>3 DEF Broken
<1> DEFINE d == Up(cursor)
<1>5. cursor' = d /\ UNCHANGED <<heap, other, result>>
  BY <1>4 DEF CloneClimb
<1>6. /\ d.root = cursor.root /\ d.source = s.parent[cursor.source]
      /\ d.copy = Destination.parent[cursor.copy]
      /\ d.copyRoot = cursor.copyRoot /\ d.target = cursor.target
      /\ d.start = cursor.start
  BY <1>2, <1>3 DEF Up, ClonerInv, Cursors
<1>7. d.active /\ d.climbing
  BY DEF Up, ClonerInv, Cursors
<1>8. /\ s.parent[cursor.source] \in D
      /\ Destination.parent[cursor.copy] = f[s.parent[cursor.source]]
      /\ Destination.parent[cursor.copy] \in Live(Destination)
  BY <1>1, <1>3, <1>4, CursorPlace DEF Visited
<1>9. s.parent[cursor.source] \in Ids
      /\ Destination.parent[cursor.copy] \in Ids
  BY <1>1, <1>2, <1>3, <1>8, LinksStayLive
<1>10. d \in Cursors
  BY <1>2, <1>3, <1>9 DEF Up, ClonerInv, Cursors
<1> HIDE DEF d
<1>11. Left(s, cursor) /\ s.next[cursor.source] = Nil
  BY <1>2, <1>3 DEF CloneClimb, Leaving, Left
<1>12. Visited(s, D, d)
  BY <1>1, <1>2, <1>4, <1>6, <1>7, <1>11, ClimbVisited
<1>13. CopyOK(s, Destination, before, D, f, d)
  BY <1>1, <1>6, <1>8, <1>12 DEF CopyOK
<1>14. Copying(before, s, D, f)'
  <2>1. Destination' = Destination
    BY <1>5, <1>6 DEF Destination, HeapOf
  <2>2. /\ before.count = d.start.count /\ before.bytes = d.start.bytes
        /\ s = IF d.target = "this" THEN before ELSE heap'
    BY <1>5, <1>6 DEF Copying
  <2>3. QED
    BY <1>5, <1>13, <2>1, <2>2 DEF Copying
<1>15. SetHeap(cursor.target, Destination)
  BY <1>5 DEF SetHeap, Destination, HeapOf
<1>16. result \in ErrorCodes \ {"InternalError"}
  BY DEF ClonerInv, IInv, TypeOK, NoInternalError
<1>17. IInv' /\ SlabOK(heap') /\ SlabOK(other')
  BY <1>1, <1>5, <1>15, <1>16, HeapsInOrder DEF ClonerInv
<1>18. ClonerInv'
  BY <1>5, <1>10, <1>14, <1>17 DEF ClonerInv
<1>19. Owes(Destination, before)
  BY <1>1, <1>5, <1>7, <1>15, <1>18 DEF Owes
<1>20. QED
  BY <1>19

(* duplicate() returns.                                                    *)
LEMMA CloneReturnStep ==
    ASSUME ClonerInv, cursor.active, Aside, UNCHANGED duplicates,
           NEW before, NEW s, NEW D, NEW f, Copying(before, s, D, f),
           CloneReturn
    PROVE  \E g : Owes(g, before)
<1>1. SlabOK(Destination) /\ Extends(Destination, before)
  BY DEF Copying, CopyOK
<1>2. cursor' = NoCursor /\ result' = "Ok" /\ UNCHANGED <<heap, other>>
  BY DEF CloneReturn
<1>3. SetHeap(cursor.target, Destination)
  BY <1>2 DEF SetHeap, Destination, HeapOf
<1>4. IInv' /\ SlabOK(heap') /\ SlabOK(other')
  <2>1. result' \in ErrorCodes \ {"InternalError"}
    BY <1>2 DEF ErrorCodes
  <2>2. QED
    BY <1>1, <1>3, <2>1, HeapsInOrder DEF ClonerInv
<1>5. NoCursor \in Cursors /\ ~NoCursor.active
  BY IdsBelowNil DEF NoCursor, Cursors
<1>6. ClonerInv'
  BY <1>2, <1>4, <1>5 DEF ClonerInv
<1>7. Owes(Destination, before)
  BY <1>1, <1>2, <1>3, <1>6 DEF Owes
<1>8. QED
  BY <1>7

(* A turn of the loop, whatever it does.                                   *)
LEMMA CloneStepOK ==
    ASSUME ClonerInv, CloneStep
    PROVE  \E before, s, D, f, g : Copying(before, s, D, f) /\ Owes(g, before)
<1>1. cursor.active /\ Aside /\ UNCHANGED duplicates
  BY DEF CloneStep, Aside
<1>2. PICK before, s, D, f : Copying(before, s, D, f)
  BY <1>1 DEF ClonerInv
<1>3. \E g : Owes(g, before)
  <2>1. CASE CloneFirstChild
    BY <1>1, <1>2, <2>1, CloneFirstChildStep
  <2>2. CASE CloneNextSibling
    BY <1>1, <1>2, <2>2, CloneNextSiblingStep
  <2>3. CASE CloneClimb
    BY <1>1, <1>2, <2>3, CloneClimbStep
  <2>4. CASE CloneReturn
    BY <1>1, <1>2, <2>4, CloneReturnStep
  <2>5. QED
    BY <2>1, <2>2, <2>3, <2>4 DEF CloneStep
<1>4. QED
  BY <1>2, <1>3

-----------------------------------------------------------------------------
(* The call itself.                                                        *)

(* The copy begins with the root alone.                                    *)
LEMMA CopyBegins ==
    ASSUME NEW h, SlabOK(h), NEW s, SlabOK(s), NEW i \in Live(s),
           NEW g, Cloned(g, h, s, i, FALSE),
           NEW c, c.root = i, c.source = i, ~c.climbing,
           c.copyRoot = h.count, c.copy = h.count
    PROVE  \E D, f : CopyOK(s, g, h, D, f, c)
<1> DEFINE id == h.count
           D == {i}
           f == [x \in D |-> id]
<1>1. HeapOK(h) /\ HeapOK(s) /\ Sprouted(g, h, s.type[i])
      /\ ValueText(g, id) = ValueText(s, i) /\ g.key[id] = NoRef
  BY DEF SlabOK, Cloned, ValueText
<1>2. Live(g) = Live(h) \cup {id} /\ id \notin Live(h)
  BY <1>1, GrownLive DEF Sprouted
<1>3. SlabOK(g)
  BY RootCloned
<1>4. s.first[i] # i
  <2>1. s.first[i] = i => s.parent[i] = i
    BY <1>1, LinksStayLive, IdsBelowNil
       DEF HeapOK, ForestOK, LinksOK, EndsOK
  <2>2. s.parent[i] # i
    <3>1. i \in Ancestors(s, i)
      BY <1>1, LinksStayLive, ReachStart DEF Ancestors
    <3>2. QED
      BY <1>1, <3>1, AncestorsOfChild
  <2>3. QED
    BY <2>1, <2>2
<1>5. Visited(s, D, c)
  BY <1>4 DEF Visited
<1>6. KeyText(g, id) = <<>>
  BY <1>1, NoRefView DEF KeyText
<1>7. f[i] = id /\ f \in [D -> Live(g) \ Live(h)]
  BY <1>2
<1>8. /\ g.type[id] = s.type[i] /\ g.parent[id] = Nil /\ g.first[id] = Nil
      /\ Extends(g, h)
  BY <1>1 DEF Sprouted
<1> HIDE DEF f
<1>9. Mirrors(s, g, h, D, f, i)
  BY <1>1, <1>4, <1>6, <1>7, <1>8 DEF Mirrors
<1>10. CopyOK(s, g, h, D, f, c)
  BY <1>3, <1>5, <1>7, <1>8, <1>9 DEF CopyOK
<1>11. QED
  BY <1>10

(* What a call of duplicate() owes, which leaves g as the destination.     *)
Called(target, g) ==
    /\ ClonerInv' /\ SetHeap(target, g) /\ Extends(g, HeapOf(target))
    /\ ~cursor'.active /\ result' # "Ok" => GivesBack(HeapOf(target), g)

(* The call returns: there is nothing to be copied below the root, or an   *)
(* error.                                                                  *)
LEMMA CallReturns ==
    ASSUME ClonerInv, ~cursor.active, Aside, UNCHANGED cursor,
           duplicates < MaxDuplicates, duplicates' = duplicates + 1,
           NEW target, NEW g, SlabOK(g), SetHeap(target, g),
           Extends(g, HeapOf(target)),
           result' \in ErrorCodes \ {"InternalError"},
           result' # "Ok" => GivesBack(HeapOf(target), g)
    PROVE  Called(target, g)
<1>1. IInv' /\ SlabOK(heap') /\ SlabOK(other')
  BY HeapsInOrder DEF ClonerInv
<1>2. duplicates' \in 0 .. MaxDuplicates
  BY DuplicatesAssumption DEF ClonerInv
<1>3. ClonerInv'
  BY <1>1, <1>2 DEF ClonerInv
<1>4. QED
  BY <1>3 DEF Called

(* The loop is entered, with both cursors on the root.                     *)
LEMMA CallEnters ==
    ASSUME ClonerInv, ~cursor.active, Aside, UNCHANGED result,
           duplicates < MaxDuplicates, duplicates' = duplicates + 1,
           NEW target \in {"this", "other"}, NEW i \in Live(heap), NEW g,
           NEW h, h = HeapOf(target), NEW s, s = heap,
           Cloned(g, h, s, i, FALSE), SetHeap(target, g),
           cursor' = [active |-> TRUE, target |-> target,
                      root |-> i, source |-> i,
                      copyRoot |-> h.count, copy |-> h.count,
                      climbing |-> FALSE,
                      start |-> [count |-> h.count, bytes |-> h.bytes]]
    PROVE  Called(target, g)
<1> DEFINE id == h.count
<1>1. SlabOK(h) /\ SlabOK(s) /\ HeapOK(h) /\ HeapOK(s) /\ i \in Live(s)
  BY DEF HeapOf, ClonerInv, SlabOK
<1>2. SlabOK(g) /\ Sprouted(g, h, s.type[i])
  BY <1>1, RootCloned DEF Cloned
<1>3. id \in Ids /\ i \in Ids /\ h.count \in Nat /\ h.bytes \in Nat
  BY <1>1, <1>2, LinksStayLive, Counters DEF Sprouted
<1>4. Extends(g, h)
  BY <1>2 DEF Sprouted
<1>5. cursor' \in Cursors
  BY <1>3 DEF Cursors
<1>6. /\ cursor'.root = i /\ cursor'.source = i
      /\ cursor'.copyRoot = id /\ cursor'.copy = id
      /\ cursor'.target = target
      /\ cursor'.start.count = id /\ cursor'.start.bytes = h.bytes
  OBVIOUS
<1>7. cursor'.active /\ ~cursor'.climbing
  OBVIOUS
<1>8. \E D, f : CopyOK(s, g, h, D, f, cursor')
  <2> DEFINE c == cursor'
  <2>1. /\ c.root = i /\ c.source = i /\ ~c.climbing
        /\ c.copyRoot = h.count /\ c.copy = h.count
    BY <1>6, <1>7
  <2> HIDE DEF c
  <2>2. \E D, f : CopyOK(s, g, h, D, f, c)
    BY <1>1, <2>1, CopyBegins
  <2>3. QED
    BY <2>2 DEF c
<1>9. PICK D, f : CopyOK(s, g, h, D, f, cursor')
  BY <1>8
<1>10. Copying(h, s, D, f)'
  <2>1. Destination' = g
    BY <1>6 DEF SetHeap, Destination, HeapOf
  <2>2. s = IF target = "this" THEN h ELSE heap'
    BY DEF HeapOf, SetHeap
  <2>3. QED
    BY <1>6, <1>9, <2>1, <2>2 DEF Copying
<1>11. IInv' /\ SlabOK(heap') /\ SlabOK(other')
  <2>1. result' \in ErrorCodes \ {"InternalError"}
    BY DEF ClonerInv, IInv, TypeOK, NoInternalError
  <2>2. QED
    BY <1>2, <2>1, HeapsInOrder DEF ClonerInv
<1>12. duplicates' \in 0 .. MaxDuplicates
  BY DuplicatesAssumption DEF ClonerInv
<1>13. ClonerInv'
  BY <1>5, <1>10, <1>11, <1>12 DEF ClonerInv
<1>14. QED
  BY <1>4, <1>7, <1>13 DEF Called

(* duplicate() up to its loop, whatever it is called with.                 *)
LEMMA DuplicateOK ==
    ASSUME ClonerInv, NEW target \in {"this", "other"},
           NEW item \in Held \cup {NullValue}, NEW recurse \in BOOLEAN,
           Duplicate(target, item, recurse)
    PROVE  \E g : Called(target, g)
<1> DEFINE dst == HeapOf(target)
           cloned == CloneNode(dst, heap, item.id, FALSE)
           code == IF item.slab = "none" THEN "InvalidHandle"
                   ELSE IF ~Valid THEN "InvalidArgument"
                   ELSE IF ~Accepted(item) THEN "InvalidHandle"
                   ELSE cloned.code
<1>1. /\ ~cursor.active /\ duplicates < MaxDuplicates
      /\ duplicates' = duplicates + 1 /\ Aside
  BY DEF Duplicate, Aside
<1>2. SlabOK(dst) /\ SlabOK(heap) /\ HeapOK(dst)
  BY DEF HeapOf, ClonerInv, SlabOK
<1>3. Accepted(item) => item.id \in Live(heap)
  <2>1. CASE item \in Held
    <3>1. item.id \in Ids
      BY <2>1, HeldTyped DEF HandleSet, ClonerInv, IInv
    <3>2. QED
      BY <3>1, AcceptedIsLive DEF ClonerInv
  <2>2. CASE item = NullValue
    BY <2>2 DEF NullValue, Accepted, NodeFor
  <2>3. QED
    BY <2>1, <2>2
<1>4. Accepted(item) =>
         /\ Undoable(cloned, dst)
         /\ cloned.code = "Ok" => Cloned(cloned.heap, dst, heap, item.id, FALSE)
  <2>1. FALSE \in BOOLEAN
    OBVIOUS
  <2>2. QED
    BY <1>2, <1>3, <2>1, CloneNodeOK
<1>5. Accepted(item) =>
         /\ cloned.code \in ErrorCodes \ {"InternalError"}
         /\ cloned.heap \in Heaps /\ Extends(cloned.heap, dst)
  BY <1>4 DEF Undoable
<1>6. \/ /\ code # "Ok" /\ ~Accepted(item)
         /\ result' = code /\ UNCHANGED <<heap, other, cursor>>
      \/ /\ code # "Ok" /\ Accepted(item)
         /\ SetHeap(target, Rollback(cloned.heap, dst))
         /\ result' = code /\ UNCHANGED cursor
      \/ /\ code = "Ok" /\ SetHeap(target, cloned.heap)
         /\ result' = "Ok" /\ UNCHANGED cursor
      \/ /\ code = "Ok" /\ SetHeap(target, cloned.heap)
         /\ cursor' = [active |-> TRUE, target |-> target,
                       root |-> item.id, source |-> item.id,
                       copyRoot |-> dst.count, copy |-> dst.count,
                       climbing |-> FALSE,
                       start |-> [count |-> dst.count, bytes |-> dst.bytes]]
         /\ UNCHANGED result
  BY DEF Duplicate
<1>7. code \in ErrorCodes \ {"InternalError"}
      /\ (code = "Ok" => Accepted(item) /\ cloned.code = "Ok")
  <2> HIDE DEF cloned
  <2>1. QED
    BY <1>5 DEF ErrorCodes
<1> HIDE DEF code, cloned
<1>8. CASE /\ code # "Ok" /\ ~Accepted(item)
           /\ result' = code /\ UNCHANGED <<heap, other, cursor>>
  <2>1. SetHeap(target, dst)
    BY <1>8 DEF SetHeap, HeapOf
  <2>2. Extends(dst, dst) /\ GivesBack(dst, dst)
    BY <1>2, SameIsKept DEF Kept, GivesBack
  <2>3. Called(target, dst)
    BY <1>1, <1>2, <1>7, <1>8, <2>1, <2>2, CallReturns
  <2>4. QED
    BY <2>3
<1>9. CASE /\ code # "Ok" /\ Accepted(item)
           /\ SetHeap(target, Rollback(cloned.heap, dst))
           /\ result' = code /\ UNCHANGED cursor
  <2> DEFINE g == Rollback(cloned.heap, dst)
  <2>1. SlabOK(g) /\ Extends(g, dst) /\ GivesBack(dst, g)
    BY <1>2, <1>5, <1>9, RolledBack DEF GivesBack
  <2>2. SetHeap(target, g)
    BY <1>9
  <2> HIDE DEF g
  <2>3. Called(target, g)
    BY <1>1, <1>7, <1>9, <2>1, <2>2, CallReturns
  <2>4. QED
    BY <2>3
<1>10. CASE /\ code = "Ok" /\ SetHeap(target, cloned.heap)
            /\ result' = "Ok" /\ UNCHANGED cursor
  <2>1. Cloned(cloned.heap, dst, heap, item.id, FALSE)
        /\ item.id \in Live(heap) /\ Extends(cloned.heap, dst)
    BY <1>3, <1>4, <1>5, <1>7, <1>10
  <2>2. SlabOK(cloned.heap)
    BY <1>2, <2>1, RootCloned
  <2>3. Called(target, cloned.heap)
    BY <1>1, <1>7, <1>10, <2>1, <2>2, CallReturns
  <2>4. QED
    BY <2>3
<1>11. CASE /\ code = "Ok" /\ SetHeap(target, cloned.heap)
            /\ cursor' = [active |-> TRUE, target |-> target,
                          root |-> item.id, source |-> item.id,
                          copyRoot |-> dst.count, copy |-> dst.count,
                          climbing |-> FALSE,
                          start |-> [count |-> dst.count, bytes |-> dst.bytes]]
            /\ UNCHANGED result
  <2>1. Cloned(cloned.heap, dst, heap, item.id, FALSE)
        /\ item.id \in Live(heap)
    BY <1>3, <1>4, <1>7, <1>11
  <2>2. \E h, s : h = dst /\ s = heap
    OBVIOUS
  <2>3. PICK h, s : h = dst /\ s = heap
    BY <2>2
  <2> DEFINE c == [active |-> TRUE, target |-> target,
                   root |-> item.id, source |-> item.id,
                   copyRoot |-> h.count, copy |-> h.count,
                   climbing |-> FALSE,
                   start |-> [count |-> h.count, bytes |-> h.bytes]]
  <2>4. cursor' = c
    BY <1>11, <2>3
  <2>5. Called(target, cloned.heap)
    BY <1>1, <1>11, <2>1, <2>3, <2>4, CallEnters
  <2>6. QED
    BY <2>5
<1>12. QED
  BY <1>6, <1>8, <1>9, <1>10, <1>11

-----------------------------------------------------------------------------
(* The copy when it is complete.                                           *)

(* Nothing is below the root but what can be reached by first and next     *)
(* links.                                                                  *)
LEMMA ClosedIsAllBelow ==
    ASSUME NEW h, HeapOK(h), NEW D, D \subseteq Live(h), NEW root \in D,
           \A x \in D : h.first[x] \in D \cup {Nil},
           \A x \in D \ {root} :
              h.parent[x] \in D /\ h.next[x] \in D \cup {Nil}
    PROVE  Below(h, root) = D
<1> DEFINE S == Below(h, root) \ D
<1>1. /\ Live(h) \subseteq Ids /\ Nil \notin Ids
      /\ \A x \in D : root \in Ancestors(h, x)
  BY LinksStayLive, IdsBelowNil, ClosedIsBelow
<1>2. D \subseteq Below(h, root)
  BY <1>1 DEF Below
<1>3. S = {}
  <2> SUFFICES ASSUME S # {} PROVE FALSE
    OBVIOUS
  <2>1. PICK x \in S : h.parent[x] \notin S
    <3>1. S \subseteq Live(h)
      BY DEF Below
    <3> HIDE DEF S
    <3>2. QED
      BY <3>1 DEF HeapOK, ForestOK, ParentAcyclic
  <2> DEFINE p == h.parent[x]
             T == {c \in Live(h) : h.parent[c] = p /\ c \notin D}
  <2>2. x \in Live(h) /\ x \notin D /\ root \in Ancestors(h, x) /\ x # root
    BY DEF Below
  <2>3. root \in Ancestors(h, p)
    BY <1>1, <2>2, ReachUnfold DEF Ancestors
  <2>4. p \in Live(h)
    <3>1. p \in Ids
      BY <2>3, ReachNil DEF Ancestors
    <3>2. QED
      BY <1>1, <2>2, <3>1, LinksStayLive
  <2>5. p \in D
    BY <2>1, <2>3, <2>4 DEF Below
  <2>6. h.parent[root] # p
    BY <2>3, <2>4, NotAboveParent
  <2>7. T \subseteq Live(h) /\ T # {}
    BY <2>2
  <2> HIDE DEF T
  <2>8. PICK c \in T : \A y \in T : h.next[y] # c
    BY <2>7 DEF HeapOK, ForestOK, EntryOK
  <2>9. c \in Live(h) /\ h.parent[c] = p /\ c \notin D /\ c # Nil
    BY <1>1, <2>8 DEF T
  <2>10. h.first[p] # c
    BY <2>5, <2>9
  <2>11. PICK j \in Live(h) : h.next[j] = c
    BY <1>1, <2>4, <2>9, <2>10 DEF HeapOK, ForestOK, LinksOK, NextOK
  <2>12. h.parent[j] = p
    BY <2>9, <2>11 DEF HeapOK, ForestOK, LinksOK, NextOK
  <2>13. j \in D
    BY <2>8, <2>11, <2>12 DEF T
  <2>14. j # root
    BY <2>6, <2>12
  <2>15. QED
    BY <2>9, <2>11, <2>13, <2>14
<1>4. QED
  BY <1>2, <1>3

(* When everything has been visited, the mirror is a copy.                 *)
LEMMA MirrorIsCopy ==
    ASSUME ClonerInv, NEW before, NEW s, NEW D, NEW f,
           Copying(before, s, D, f), Left(s, cursor),
           cursor.source = cursor.root
    PROVE  IsCopy(heap, cursor.root, Destination, cursor.copyRoot)
<1> DEFINE g == Destination
           root == cursor.root
           R == {f[x] : x \in D}
<1>1. /\ HeapOK(g) /\ Visited(s, D, cursor)
      /\ Mirrors(s, g, before, D, f, root) /\ cursor.copyRoot = f[root]
  BY DEF Copying, CopyOK, SlabOK
<1> HIDE DEF g
<1>2. /\ HeapOK(s) /\ HeapOK(heap) /\ Live(s) \subseteq Live(heap)
      /\ \A i \in Live(s) :
            /\ heap.type[i] = s.type[i] /\ heap.parent[i] = s.parent[i]
            /\ heap.first[i] = s.first[i] /\ heap.next[i] = s.next[i]
            /\ ValueText(heap, i) = ValueText(s, i)
            /\ KeyText(heap, i) = KeyText(s, i)
  BY SourceKept
<1>3. /\ D \subseteq Live(s) /\ root \in D /\ Nil \notin D
      /\ \A x \in D \ {root} : s.parent[x] \in D
  BY <1>1, <1>2, LinksStayLive, IdsBelowNil DEF Visited
<1>4. /\ \A x \in D : s.first[x] \in D \cup {Nil}
      /\ \A x \in D \ {root} : s.next[x] \in D \cup {Nil}
  BY <1>1, <1>2, AllVisited
<1>5. Below(heap, root) = D
  <2>1. /\ D \subseteq Live(heap)
        /\ \A x \in D : heap.first[x] \in D \cup {Nil}
        /\ \A x \in D \ {root} :
              heap.parent[x] \in D /\ heap.next[x] \in D \cup {Nil}
    BY <1>2, <1>3, <1>4
  <2>2. QED
    BY <1>2, <1>3, <2>1, ClosedIsAllBelow
<1>6. /\ f \in [D -> Live(g)]
      /\ \A x, y \in D : f[x] = f[y] => x = y
      /\ g.parent[f[root]] = Nil /\ KeyText(g, f[root]) = <<>>
      /\ \A x \in D :
            /\ g.type[f[x]] = s.type[x] /\ ValueText(g, f[x]) = ValueText(s, x)
            /\ g.first[f[x]] = IF s.first[x] \in D THEN f[s.first[x]] ELSE Nil
      /\ \A x \in D \ {root} :
            /\ g.parent[f[x]] = f[s.parent[x]]
            /\ KeyText(g, f[x]) = KeyText(s, x)
            /\ g.next[f[x]] = IF s.next[x] \in D THEN f[s.next[x]] ELSE Nil
  BY <1>1 DEF Mirrors
<1>7. Below(g, f[root]) = R
  <2>1. R \subseteq Live(g) /\ f[root] \in R
    BY <1>3, <1>6
  <2>2. \A y \in R : g.first[y] \in R \cup {Nil}
    BY <1>6
  <2>3. \A y \in R \ {f[root]} :
           g.parent[y] \in R /\ g.next[y] \in R \cup {Nil}
    BY <1>3, <1>6
  <2> HIDE DEF R
  <2>4. QED
    BY <1>1, <2>1, <2>2, <2>3, ClosedIsAllBelow
<1>8. f \in [Below(heap, root) -> Below(g, f[root])]
  BY <1>5, <1>6, <1>7
<1>9. {f[i] : i \in Below(heap, root)} = Below(g, f[root])
  BY <1>5, <1>7
<1>10. \A i \in D :
          /\ g.type[f[i]] = heap.type[i]
          /\ ValueText(g, f[i]) = ValueText(heap, i)
          /\ i # root =>
                /\ g.parent[f[i]] = f[heap.parent[i]]
                /\ g.next[f[i]] = IF heap.next[i] = Nil THEN Nil
                                  ELSE f[heap.next[i]]
                /\ KeyText(g, f[i]) = KeyText(heap, i)
  BY <1>2, <1>3, <1>4, <1>6
<1> HIDE DEF R, root
<1>11. IsCopy(heap, root, g, f[root])
  BY <1>5, <1>6, <1>8, <1>9, <1>10 DEF IsCopy, ValueText, KeyText
<1>12. QED
  BY <1>1, <1>11 DEF root, g

-----------------------------------------------------------------------------
(* The theorems.                                                           *)

(* Every call and every turn of the loop keeps the invariant.              *)
LEMMA ClonerInvSafe ==
    ASSUME ClonerInv, [ClonerNext]_clonerVars
    PROVE  ClonerInv'
<1>1. CASE Client
  <2>1. [Next]_vars
    BY <1>1 DEF Client
  <2>2. IInv /\ HeapOK(heap) /\ StringsOK(heap) /\ KeysAtHome(heap)
        /\ ValuesAtHome(heap)
    BY DEF ClonerInv, SlabOK
  <2>3. IInv'
    BY <2>1, <2>2, NextSafe
  <2>4. HeapOK(heap')
    BY <2>3 DEF IInv, TypeOK, LayoutSafe, ForestSafe, HeapOK
  <2>5. StringsOK(heap') /\ KeysAtHome(heap') /\ ValuesAtHome(heap')
    BY <2>1, <2>2, KeysSafe, StringsSafe, ValuesSafe
  <2>6. SlabOK(heap')
    BY <2>4, <2>5 DEF SlabOK
  <2>7. SlabOK(other') /\ cursor' \in Cursors
        /\ duplicates' \in 0 .. MaxDuplicates /\ ~cursor'.active
    BY <1>1 DEF Client, ClonerInv
  <2>8. QED
    BY <2>3, <2>6, <2>7 DEF ClonerInv
<1>2. CASE \E target \in {"this", "other"}, item \in Held \cup {NullValue},
              recurse \in BOOLEAN : Duplicate(target, item, recurse)
  BY <1>2, DuplicateOK DEF Called
<1>3. CASE CloneStep
  BY <1>3, CloneStepOK DEF Owes
<1>4. CASE UNCHANGED clonerVars
  <2>1. UNCHANGED vars /\ UNCHANGED <<other, cursor, duplicates>>
    BY <1>4 DEF clonerVars, vars
  <2>2. IInv'
    BY <2>1, NextSafe DEF ClonerInv
  <2>3. SlabOK(heap') /\ SlabOK(other') /\ cursor' \in Cursors
        /\ duplicates' \in 0 .. MaxDuplicates
    BY <2>1 DEF vars, ClonerInv
  <2>4. ASSUME cursor'.active PROVE \E before, s, D, f : Copying(before, s, D, f)'
    <3>1. PICK before, s, D, f : Copying(before, s, D, f)
      BY <2>1, <2>4 DEF ClonerInv
    <3>2. Destination' = Destination
      BY <2>1 DEF vars, Destination, HeapOf
    <3>3. Copying(before, s, D, f)'
      BY <2>1, <3>1, <3>2 DEF vars, Copying
    <3>4. QED
      BY <3>3
  <2>5. QED
    BY <2>2, <2>3, <2>4 DEF ClonerInv
<1>5. QED
  BY <1>1, <1>2, <1>3, <1>4 DEF ClonerNext

(* Two fresh slabs are in order.                                           *)
LEMMA ClonerInvInit == ClonerInit => ClonerInv
<1> SUFFICES ASSUME ClonerInit PROVE ClonerInv
  OBVIOUS
<1>1. Init /\ IInv /\ heap = EmptyHeap /\ other = EmptyHeap
  BY InitSafe DEF ClonerInit, Init
<1>2. HeapOK(EmptyHeap)
  BY <1>1, IInvHeap
<1>3. Live(EmptyHeap) = {}
  BY NothingLive DEF EmptyHeap
<1>4. SlabOK(EmptyHeap)
  BY <1>2, <1>3 DEF SlabOK, StringsOK, StringsDisjoint, TextsOK, KeysAtHome,
                    ValuesAtHome
<1>5. NoCursor \in Cursors /\ ~NoCursor.active
  BY IdsBelowNil DEF NoCursor, Cursors
<1>6. duplicates \in 0 .. MaxDuplicates /\ cursor = NoCursor
  BY DuplicatesAssumption DEF ClonerInit
<1>7. QED
  BY <1>1, <1>4, <1>5, <1>6 DEF ClonerInv

(* ClonerInv holds in every state, before, in the middle of and after a    *)
(* duplicate.                                                              *)
THEOREM ClonerInvariant == ClonerSpec => []ClonerInv
<1>1. ClonerInv /\ [ClonerNext]_clonerVars => ClonerInv'
  BY ClonerInvSafe
<1>2. QED
  BY <1>1, ClonerInvInit, PTL DEF ClonerSpec

(* The cursors of duplicate() are always on nodes that are there, as       *)
(* node_at_unchecked() takes for granted.                                  *)
THEOREM ClonerTypesCorrect == ClonerSpec => []ClonerTypeOK
<1>1. ASSUME ClonerInv PROVE ClonerTypeOK
  <2>1. TypeOK /\ other \in Heaps /\ cursor \in Cursors
        /\ duplicates \in 0 .. MaxDuplicates
    BY <1>1 DEF ClonerInv, IInv, SlabOK, HeapOK
  <2>2. ASSUME cursor.active
        PROVE  /\ {cursor.root, cursor.source} \subseteq Live(heap)
               /\ {cursor.copyRoot, cursor.copy} \subseteq Live(Destination)
    <3>1. PICK before, s, D, f : Copying(before, s, D, f)
      BY <1>1, <2>2 DEF ClonerInv
    <3>2. /\ cursor.source \in Live(s) /\ cursor.root \in Live(s)
          /\ {cursor.copy, cursor.copyRoot}
                \subseteq Live(Destination) \ Live(before)
      BY <3>1, CursorPlace DEF Copying
    <3>3. Live(s) \subseteq Live(heap)
      BY <1>1, <3>1, SourceKept
    <3>4. QED
      BY <3>2, <3>3
  <2>3. QED
    BY <2>1, <2>2 DEF ClonerTypeOK
<1>2. QED
  BY <1>1, ClonerInvariant, PTL

(* Both slabs are a forest with agreeing links, laid out, with their       *)
(* strings apart, after every turn of the loop: what the cloner's own      *)
(* link functions leave out is never missed.                               *)
THEOREM CloningIsSafe == ClonerSpec => []ClonedForestSafe
<1>1. ClonerInv => ClonedForestSafe
  BY DEF ClonerInv, SlabOK, HeapOK, StringsOK, ClonedForestSafe
<1>2. QED
  BY <1>1, ClonerInvariant, PTL

(* The flags that the cloner copies without a scan tell the truth about    *)
(* the texts that it copies, in both slabs.                                *)
THEOREM ClonedTextCorrect == ClonerSpec => []ClonedTextOK
<1>1. ASSUME ClonerInv PROVE ClonedTextOK
  <2>1. ASSUME NEW h \in {heap, other}, NEW i \in Live(h)
        PROVE  /\ TextFlagOK(h, h.value[i], h.valueFlags[i])
               /\ h.parent[i] # Nil /\ h.type[h.parent[i]] = "Object" =>
                     TextFlagOK(h, h.key[i], h.keyFlags[i])
    <3>1. SlabOK(h)
      BY <1>1 DEF ClonerInv
    <3>2. /\ GoodText(ViewString(h, h.value[i]), h.valueFlags[i])
          /\ Member(h, i) => GoodText(ViewString(h, h.key[i]), h.keyFlags[i])
      BY <3>1, TextsGood
    <3>3. QED
      BY <3>2 DEF GoodText, Member, TextFlagOK
  <2>2. QED
    BY <2>1 DEF ClonedTextOK
<1>2. QED
  BY <1>1, ClonerInvariant, PTL

(* duplicate() never returns ErrorCode::InternalError: no node below the   *)
(* root is without a parent, in the source or in the copy.                 *)
THEOREM CloningNoInternalError == ClonerSpec => []NoInternalError
<1>1. ClonerInv => NoInternalError
  BY DEF ClonerInv, IInv
<1>2. QED
  BY <1>1, ClonerInvariant, PTL

(* Two heaps that have grown out of the same one show the same of it.      *)
LEMMA BothKeep ==
    ASSUME NEW before, HeapOK(before), NEW h, Extends(h, before),
           NEW g, Extends(g, before), NEW start, start.count = before.count
    PROVE  KeepsBefore(start, h, g)
<1>1. \A i \in 0 .. start.count - 1 : i \in Live(before)
  BY Counters, LiveIsPrefix
<1>2. QED
  BY <1>1, ExtendedView DEF KeepsBefore

(* No turn of the loop touches a node or a text that was there before the  *)
(* call, in either slab, and a copy that fails gives back all it took.     *)
THEOREM DuplicatingKeepsDocument == ClonerSpec => DuplicateKeepsDocument
<1>1. ASSUME ClonerInv, [ClonerNext]_clonerVars
      PROVE  [duplicates' # duplicates \/ cursor.active =>
                /\ KeepsBefore(Before("this"), heap, heap')
                /\ KeepsBefore(Before("other"), other, other')
                /\ ~cursor'.active /\ result' # "Ok" =>
                      /\ GivesBack(Before("this"), heap')
                      /\ GivesBack(Before("other"), other')]_clonerVars
  <2> SUFFICES ASSUME ClonerNext, duplicates' # duplicates \/ cursor.active
               PROVE  /\ KeepsBefore(Before("this"), heap, heap')
                      /\ KeepsBefore(Before("other"), other, other')
                      /\ ~cursor'.active /\ result' # "Ok" =>
                            /\ GivesBack(Before("this"), heap')
                            /\ GivesBack(Before("other"), other')
    BY <1>1
  <2>1. HeapOK(heap) /\ HeapOK(other)
    BY <1>1 DEF ClonerInv, SlabOK
  <2>2. /\ Extends(heap, heap) /\ Extends(other, other)
    BY <2>1, SameIsKept DEF Kept
  <2>3. CASE \E target \in {"this", "other"}, item \in Held \cup {NullValue},
                recurse \in BOOLEAN : Duplicate(target, item, recurse)
    <3>1. PICK target, g : target \in {"this", "other"} /\ Called(target, g)
      BY <1>1, <2>3, DuplicateOK
    <3>2. ~cursor.active
      BY <2>3 DEF Duplicate
    <3>3. /\ Before("this").count = heap.count
          /\ Before("this").bytes = heap.bytes
          /\ Before("other").count = other.count
          /\ Before("other").bytes = other.bytes
      BY <3>2 DEF Before, HeapOf
    <3>4. Extends(heap', heap) /\ Extends(other', other)
      BY <2>2, <3>1 DEF Called, SetHeap, HeapOf
    <3>5. ~cursor'.active /\ result' # "Ok" =>
             /\ heap'.count = heap.count /\ heap'.bytes = heap.bytes
             /\ other'.count = other.count /\ other'.bytes = other.bytes
      BY <3>1 DEF Called, SetHeap, HeapOf, GivesBack
    <3>6. KeepsBefore(Before("this"), heap, heap')
          /\ KeepsBefore(Before("other"), other, other')
      BY <2>1, <2>2, <3>3, <3>4, BothKeep
    <3>7. QED
      BY <3>3, <3>5, <3>6 DEF GivesBack
  <2>4. CASE CloneStep
    <3>1. PICK before, s, D, f, g : Copying(before, s, D, f) /\ Owes(g, before)
      BY <1>1, <2>4, CloneStepOK
    <3>2. /\ cursor.active /\ cursor.target \in {"this", "other"}
          /\ HeapOK(before) /\ Extends(Destination, before)
          /\ before.count = cursor.start.count
      BY <1>1, <2>4, <3>1
         DEF CloneStep, ClonerInv, Cursors, Copying, CopyOK, SlabOK
    <3>3. /\ SetHeap(cursor.target, g) /\ Extends(g, before)
          /\ ~cursor'.active /\ result' # "Ok" => GivesBack(cursor.start, g)
      BY <3>1 DEF Owes
    <3>4. CASE cursor.target = "this"
      <4>1. /\ Destination = heap /\ heap' = g /\ other' = other
            /\ Before("this") = cursor.start
            /\ Before("other").count = other.count
            /\ Before("other").bytes = other.bytes
        BY <3>2, <3>3, <3>4 DEF Destination, HeapOf, SetHeap, Before
      <4>2. KeepsBefore(Before("this"), heap, heap')
        BY <3>2, <3>3, <4>1, BothKeep
      <4>3. KeepsBefore(Before("other"), other, other')
        BY <2>1, <2>2, <4>1, BothKeep
      <4>4. QED
        BY <3>3, <4>1, <4>2, <4>3 DEF GivesBack
    <3>5. CASE cursor.target = "other"
      <4>1. /\ Destination = other /\ other' = g /\ heap' = heap
            /\ Before("other") = cursor.start
            /\ Before("this").count = heap.count
            /\ Before("this").bytes = heap.bytes
        BY <3>2, <3>3, <3>5 DEF Destination, HeapOf, SetHeap, Before
      <4>2. KeepsBefore(Before("other"), other, other')
        BY <3>2, <3>3, <4>1, BothKeep
      <4>3. KeepsBefore(Before("this"), heap, heap')
        BY <2>1, <2>2, <4>1, BothKeep
      <4>4. QED
        BY <3>3, <4>1, <4>2, <4>3 DEF GivesBack
    <3>6. QED
      BY <3>2, <3>4, <3>5
  <2>5. CASE Client
    BY <2>5 DEF Client
  <2>6. QED
    BY <2>3, <2>4, <2>5 DEF ClonerNext
<1>2. QED
  BY <1>1, ClonerInvariant, PTL DEF ClonerSpec, DuplicateKeepsDocument

(* When duplicate() returns a value, it is the root of a copy of its       *)
(* source: the same tree, in the same order, with the same types, texts    *)
(* and keys, detached, and sharing nothing with the source.                *)
THEOREM CopyIsFaithful == ClonerSpec => CopyFaithful
<1>1. ASSUME ClonerInv, [ClonerNext]_clonerVars
      PROVE  [cursor.active /\ ~cursor'.active /\ result' = "Ok" =>
                IsCopy(heap, cursor.root, Destination,
                       cursor.copyRoot)]_clonerVars
  <2> SUFFICES ASSUME ClonerNext, cursor.active, ~cursor'.active,
                      result' = "Ok"
               PROVE  IsCopy(heap, cursor.root, Destination, cursor.copyRoot)
    BY <1>1
  <2>1. CloneStep
    BY DEF ClonerNext, Client, Duplicate
  <2>2. PICK before, s, D, f : Copying(before, s, D, f)
    BY <1>1 DEF ClonerInv
  <2>3. ASSUME NEW x, NEW made, NEW linked, GoOn(x, made, linked) PROVE FALSE
    <3>1. CASE made.code # "Ok" /\ Abort(made.code, made.heap)
      BY <3>1 DEF Abort
    <3>2. CASE cursor' = [cursor EXCEPT !.source = x,
                                        !.copy = Destination.count,
                                        !.climbing = FALSE]
      BY <1>1, <3>2 DEF ClonerInv, Cursors
    <3>3. QED
      BY <2>3, <3>1, <3>2 DEF GoOn
  <2>4. ~CloneFirstChild /\ ~CloneNextSibling
    BY <2>3 DEF CloneFirstChild, CloneNextSibling
  <2>5. ~CloneClimb
    <3>1. CASE cursor' = Up(cursor)
      BY <1>1, <3>1 DEF Up, ClonerInv, Cursors
    <3>2. CASE Abort("InternalError", Destination)
      BY <3>2 DEF Abort
    <3>3. QED
      BY <3>1, <3>2 DEF CloneClimb
  <2>6. CloneReturn
    BY <2>1, <2>4, <2>5 DEF CloneStep
  <2>7. Left(s, cursor) /\ cursor.source = cursor.root
    <3>1. cursor.source \in Live(s)
      BY <2>2, CursorPlace DEF Copying
    <3>2. heap.first[cursor.source] = s.first[cursor.source]
      BY <1>1, <2>2, <3>1, SourceKept
    <3>3. QED
      BY <2>6, <3>2 DEF CloneReturn, Leaving, Left
  <2>8. QED
    BY <1>1, <2>2, <2>7, MirrorIsCopy
<1>2. QED
  BY <1>1, ClonerInvariant, PTL DEF ClonerSpec, CopyFaithful

=============================================================================

------------------------- MODULE SlabParser_proofs -------------------------
(***************************************************************************)
(* Theorems about SlabParser: what holds after every lexeme, while the     *)
(* storage is full of loose ends, what a parse leaves behind when it       *)
(* fails, and what it has made when it returns.                            *)
(***************************************************************************)
EXTENDS SlabParser, SlabDom_proofs, SlabText_proofs

-----------------------------------------------------------------------------
(* Strings that belong to no node yet.                                     *)

(* A reference that may become the key of a node.                          *)
Waiting(h, ref) == ref \in StringRefs /\ RefOK(h, ref) /\ Apart(h, ref)

(* The default reference always may.                                       *)
LEMMA NoRefWaits == ASSUME NEW h, HeapOK(h) PROVE Waiting(h, NoRef)
<1>1. NoRef \in StringRefs /\ RefOK(h, NoRef)
  BY NoRefTyped DEF RefOK
<1>2. QED
  BY <1>1, OldApart DEF Waiting, Apart

(* A string goes on waiting as long as no node takes it and no other is    *)
(* written over it.                                                        *)
LEMMA WaitingKept ==
    ASSUME NEW h, HeapOK(h), NEW ref, Waiting(h, ref),
           NEW g, g.bytes \in Nat, BytesKept(g, h),
           \A i \in Live(g) :
              /\ KeyFrom(g, h, i) \/ Disjoint(ref, g.key[i])
              /\ ValueFrom(g, h, i) \/ Disjoint(ref, g.value[i])
    PROVE  Waiting(g, ref) /\ ViewString(g, ref) = ViewString(h, ref)
<1>1. ViewString(g, ref) = ViewString(h, ref) /\ RefOK(g, ref)
  BY KeptView, KeptRef DEF Waiting
<1>2. Apart(g, ref)
  BY DEF Waiting, Apart, KeyFrom, ValueFrom
<1>3. QED
  BY <1>1, <1>2 DEF Waiting

(* A string that has just been written waits, apart from all that do.      *)
LEMMA WrittenWaits ==
    ASSUME NEW h, HeapOK(h), NEW text, HasRoom(h, text), WellFormed(text)
    PROVE  LET g == CopyString(h, text)
               ref == NextRef(h, Len(text))
           IN /\ Waiting(g, ref)
              /\ GoodText(ViewString(g, ref), NeedsEscape(text))
              /\ \A s \in StringRefs : RefOK(h, s) => Disjoint(ref, s)
<1> DEFINE g == CopyString(h, text)
           ref == NextRef(h, Len(text))
<1>1. HeapOK(g) /\ Agree(g, h) /\ RefOK(g, ref) /\ ref \in StringRefs
  BY CopyKeepsForest, NextRefFits DEF HasRoom
<1>2. FreshString(g, h, ref, NeedsEscape(text))
  BY CopiedIsFresh
<1> HIDE DEF g, ref
<1>3. Apart(g, ref)
  BY <1>1, <1>2, FreshApart DEF Apart, Agree, SameNodes, Live
<1>4. QED
  BY <1>1, <1>2, <1>3 DEF g, ref, Waiting, FreshString

-----------------------------------------------------------------------------
(* The state in the middle of a parse.                                     *)

(* A document all of whose parts are in order.                             *)
DocumentOK(h) == HeapOK(h) /\ StringsOK(h) /\ KeysOK(h)

(* The document as it was when parse() was called.                         *)
Checkpoint(before) ==
    /\ DocumentOK(before)
    /\ before.count = parser.start.count /\ before.bytes = parser.start.bytes

(* A root that this parse has made.                                        *)
Loose(h, before, id) ==
    id \in Live(h) /\ id \notin Live(before) /\ h.parent[id] = Nil

(* The key of this frame has been read, and is for the value to come.      *)
Keyed(h, stack, at, k) ==
    /\ h.type[stack[k].id] = "Object"
    /\ k < Len(stack) \/ at \in {"colon", "value"}

OpenOK(h, before, stack, at) ==
    \A k \in DOMAIN stack :
        /\ Loose(h, before, stack[k].id)
        /\ h.type[stack[k].id] \in Containers
        /\ Waiting(h, stack[k].key)
        /\ Keyed(h, stack, at, k) =>
              GoodText(ViewString(h, stack[k].key), stack[k].flags)
        /\ \A l \in DOMAIN stack :
              l # k => /\ stack[l].id # stack[k].id
                       /\ Disjoint(stack[k].key, stack[l].key)

PlaceOK(h, stack, at) ==
    /\ at \in {"element", "member", "key", "colon", "next"} => stack # <<>>
    /\ at = "element" => h.type[stack[Len(stack)].id] = "Array"
    /\ at \in {"member", "key", "colon"} =>
          h.type[stack[Len(stack)].id] = "Object"

ParsingOK(h, before, stack, at) ==
    /\ DocumentOK(h) /\ Extends(h, before)
    /\ stack \in Seq(Frames) /\ at \in Places
    /\ OpenOK(h, before, stack, at) /\ PlaceOK(h, stack, at)

Parsers == [active : BOOLEAN, maxDepth : Nat, trailing : BOOLEAN,
            stack : Seq(Frames), at : Places, root : Ids \cup {Nil},
            start : [count : Nat, bytes : Nat]]

ParserInv ==
    /\ IInv /\ StringsInv
    /\ parser \in Parsers
    /\ ~parser.active => parser.stack = <<>>
    /\ parser.active =>
          \E before : /\ Checkpoint(before)
                      /\ ParsingOK(heap, before, parser.stack, parser.at)

(* What a step of the parser owes, seen from the checkpoint.               *)
StepOK(before) ==
    /\ ParserInv'
    /\ Extends(heap', before)
    /\ ~parser'.active /\ result' # "Ok" => GivesBack(parser.start, heap')

-----------------------------------------------------------------------------
(* How a lexeme is answered.                                               *)

(* What a step of the parser leaves alone.                                 *)
Aside == UNCHANGED <<generation, error, epoch, stale>>

(* The rest of the invariant, once the heap is in order.                   *)
LEMMA AnsweredInv ==
    ASSUME IInv, Aside, DocumentOK(heap'),
           result' \in ErrorCodes \ {"InternalError"}
    PROVE  IInv' /\ StringsInv'
BY DEF IInv, Aside, DocumentOK, HeapOK, TypeOK, LayoutSafe, ForestSafe,
       NoInternalError, StringsInv

(* An error gives back what the parse has taken.                           *)
LEMMA FailStep ==
    ASSUME ParserInv, Aside, NEW before, Checkpoint(before),
           NEW h \in Heaps, Extends(h, before),
           NEW code \in ErrorCodes \ {"InternalError"}, Fail(code, h)
    PROVE  StepOK(before)
<1>1. Rollback(h, parser.start) = Rollback(h, before)
  BY DEF Rollback, Checkpoint
<1>2. heap' = Rollback(h, before) /\ parser' = Idle /\ result' = code
  BY <1>1 DEF Fail
<1>3. HeapOK(heap')
  BY <1>2, RollbackKeepsForest DEF Checkpoint, DocumentOK, Extends
<1>4. /\ heap'.count = before.count /\ heap'.bytes = before.bytes
      /\ Extends(heap', before) /\ StringsOK(heap')
  BY <1>2, RollbackKeepsStrings DEF Checkpoint, DocumentOK
<1>5. KeysOK(heap')
  BY <1>4, ExtendedKeys DEF Checkpoint, DocumentOK
<1>6. IInv' /\ StringsInv'
  BY <1>2, <1>3, <1>4, <1>5, AnsweredInv DEF ParserInv, DocumentOK
<1>7. Idle \in Parsers /\ Idle.active = FALSE /\ Idle.stack = <<>>
  BY IdsBelowNil DEF Idle, Parsers, Places
<1>8. QED
  BY <1>2, <1>4, <1>6, <1>7 DEF StepOK, ParserInv, GivesBack, Checkpoint

(* The recursion goes on.                                                  *)
LEMMA GoOnStep ==
    ASSUME ParserInv, Aside, NEW before, Checkpoint(before), parser.active,
           NEW h, NEW stack, NEW at, ParsingOK(h, before, stack, at),
           NEW root \in Ids \cup {Nil},
           heap' = h, result' = result,
           parser' = [parser EXCEPT !.at = at, !.stack = stack, !.root = root]
    PROVE  StepOK(before)
<1>1. result' \in ErrorCodes \ {"InternalError"}
  BY DEF ParserInv, IInv, TypeOK, NoInternalError
<1>2. IInv' /\ StringsInv'
  BY <1>1, AnsweredInv DEF ParserInv, ParsingOK
<1>3. /\ parser' \in Parsers /\ parser'.active /\ parser'.stack = stack
      /\ parser'.at = at /\ parser'.start = parser.start
  BY DEF ParserInv, Parsers, ParsingOK
<1>4. Checkpoint(before)'
  BY <1>3 DEF Checkpoint
<1>5. ParserInv'
  BY <1>2, <1>3, <1>4 DEF ParserInv
<1>6. QED
  BY <1>3, <1>5 DEF StepOK, ParsingOK

(* ... at another place, with other containers open.                       *)
LEMMA GoOnAtStep ==
    ASSUME ParserInv, Aside, NEW before, Checkpoint(before), parser.active,
           NEW h, NEW stack, NEW at, ParsingOK(h, before, stack, at),
           GoOnAt(at, h, stack)
    PROVE  StepOK(before)
<1>1. heap' = h /\ result' = result
  BY DEF GoOnAt
<1>2. PICK root \in Ids \cup {Nil} :
         parser' = [parser EXCEPT !.at = at, !.stack = stack, !.root = root]
  BY DEF ParserInv, Parsers, GoOnAt
<1>3. QED
  BY <1>1, <1>2, GoOnStep

-----------------------------------------------------------------------------
(* A value goes into the innermost open container.                         *)

(* The place in the stack that a value is for.                             *)
LEMMA TopFrame ==
    ASSUME NEW stack \in Seq(Frames), stack # <<>>
    PROVE  /\ Len(stack) \in DOMAIN stack /\ Len(stack) \in Nat
           /\ DOMAIN stack = 1 .. Len(stack)
           /\ \A k \in DOMAIN stack :
                 /\ stack[k] \in Frames /\ k \in Nat /\ k <= Len(stack)
                 /\ k # Len(stack) => k < Len(stack)
           /\ LET rest == [stack EXCEPT ![Len(stack)].key = NoRef]
              IN /\ rest \in Seq(Frames) /\ Len(rest) = Len(stack)
                 /\ DOMAIN rest = DOMAIN stack
                 /\ \A k \in DOMAIN stack :
                       /\ rest[k].id = stack[k].id
                       /\ rest[k].flags = stack[k].flags
                       /\ rest[k].key = IF k = Len(stack) THEN NoRef
                                        ELSE stack[k].key
<1>1. /\ Len(stack) \in DOMAIN stack /\ Len(stack) \in Nat
      /\ DOMAIN stack = 1 .. Len(stack)
  OBVIOUS
<1>2. \A k \in DOMAIN stack :
         /\ stack[k] \in Frames /\ k \in Nat /\ k <= Len(stack)
         /\ k # Len(stack) => k < Len(stack)
  OBVIOUS
<1> DEFINE top == [stack[Len(stack)] EXCEPT !.key = NoRef]
<1>3. top \in Frames /\ top.id = stack[Len(stack)].id /\ top.key = NoRef
      /\ top.flags = stack[Len(stack)].flags
  BY <1>1, <1>2, NoRefTyped DEF Frames
<1> HIDE DEF top
<1> DEFINE rest == [stack EXCEPT ![Len(stack)] = top]
<1>4. /\ rest \in Seq(Frames) /\ Len(rest) = Len(stack)
      /\ DOMAIN rest = DOMAIN stack
      /\ \A k \in DOMAIN stack : rest[k] = IF k = Len(stack) THEN top
                                           ELSE stack[k]
  BY <1>1, <1>3
<1>5. rest = [stack EXCEPT ![Len(stack)].key = NoRef]
  BY DEF top
<1>6. QED
  BY <1>1, <1>2, <1>3, <1>4, <1>5

(* Nothing is above a root.                                                *)
LEMMA NothingAbove ==
    ASSUME NEW h, HeapOK(h), NEW p \in Live(h), h.parent[p] = Nil
    PROVE  Ancestors(h, p) \subseteq {p}
<1> DEFINE S == {p}
<1>1. p \in Ids /\ Nil \notin Ids
  BY LinksStayLive, IdsBelowNil
<1>2. p \in S /\ S \in SUBSET Ids
      /\ \A y \in S : h.parent[y] \in Ids => h.parent[y] \in S
  BY <1>1
<1> HIDE DEF S
<1>3. Reach(h.parent, p) \subseteq S
  BY <1>2, ReachLeast
<1>4. QED
  BY <1>3 DEF S, Ancestors

(* A loose node goes into a loose container, under the key that waits for  *)
(* it if the container is an object.                                       *)
LEMMA DeliveredAttaches ==
    ASSUME NEW h, DocumentOK(h), NEW p \in Live(h), NEW id \in Live(h),
           h.parent[p] = Nil, h.parent[id] = Nil, id # p,
           h.type[p] \in Containers, NEW ref, NEW flags \in BOOLEAN,
           Waiting(h, ref),
           h.type[p] = "Object" => GoodText(ViewString(h, ref), flags),
           NEW keyed, keyed = IF h.type[p] = "Object"
                              THEN SetKey(h, id, ref, flags) ELSE h
    PROVE  LET g == AppendChild(keyed, p, id)
           IN /\ DocumentOK(g) /\ g.bytes = h.bytes /\ g.mem = h.mem
              /\ \E newRef \in {ref, NoRef}, newFlags \in BOOLEAN :
                    Attached(g, h, p, id, newRef, newFlags)
<1> DEFINE object == h.type[p] = "Object"
           g == AppendChild(keyed, p, id)
<1> DEFINE newRef == IF object THEN ref ELSE NoRef
           newFlags == IF object THEN flags ELSE FALSE
<1>1. HeapOK(h) /\ StringsOK(h) /\ KeysOK(h) /\ h \in Heaps
  BY DEF DocumentOK, HeapOK
<1>2. p \in Ids /\ id \in Ids /\ id \notin Ancestors(h, p)
  BY <1>1, LinksStayLive, NothingAbove
<1>3. Waiting(h, newRef) /\ newFlags \in BOOLEAN
  BY <1>1, NoRefWaits
<1>4. KeyFits(h, p, newRef, newFlags)
  BY EmptyNeedsNoEscape DEF KeyFits, Containers
<1>5. keyed = SetKey(h, id, newRef, newFlags)
  <2>1. CASE ~object
    <3>1. h.key[id] = NoRef /\ h.keyFlags[id] = FALSE
      <4>1. ~Member(h, id) /\ h.keyFlags[id] \in BOOLEAN
        BY <1>1, <1>2 DEF Member, Heaps
      <4>2. h.key[id] = NoRef /\ ~h.keyFlags[id]
        BY <1>1, <4>1 DEF KeysOK, KeysAtHome
      <4>3. QED
        BY <4>1, <4>2
    <3>2. [h.key EXCEPT ![id] = NoRef] = h.key
          /\ [h.keyFlags EXCEPT ![id] = FALSE] = h.keyFlags
      BY <3>1, <1>1 DEF Heaps
    <3>3. SetKey(h, id, NoRef, FALSE) = h
      BY <3>2, <1>1 DEF SetKey, Heaps
    <3>4. QED
      BY <2>1, <3>3
  <2>2. QED
    BY <2>1
<1>6. GoodText(ViewString(h, newRef), newFlags)
  BY NoRefView, EmptyIsGood
<1>8. newRef \in {ref, NoRef}
  OBVIOUS
<1> HIDE DEF newRef, newFlags
<1>9. BytesKept(h, h)
  BY <1>1, SameIsKept DEF Kept, Extends
<1>10. Attached(g, h, p, id, newRef, newFlags) /\ g.bytes = h.bytes
       /\ g.mem = h.mem
  BY <1>1, <1>2, <1>3, <1>4, <1>5, <1>9, AppendAttaches DEF Waiting
<1>11. HeapOK(g)
  <2>1. HeapOK(keyed) /\ Live(keyed) = Live(h) /\ keyed.type = h.type
        /\ keyed.parent = h.parent
    BY <1>1, <1>2, <1>3, <1>5, SetKeyKeepsForest DEF Waiting
  <2>2. Ancestors(keyed, p) = Ancestors(h, p)
    BY <2>1 DEF Ancestors
  <2>3. QED
    BY <1>2, <2>1, <2>2, AppendKeepsForest
<1> HIDE DEF g
<1>12. KeysOK(g)
  BY <1>1, <1>10, AttachedKeys
<1>13. ViewString(g, newRef) = ViewString(h, newRef)
  BY <1>10 DEF ViewString
<1>14. StringsOK(g)
  <2>1. \A i \in Live(g) :
           /\ ValueFrom(g, h, i)
           /\ \/ KeyFrom(g, h, i)
              \/ i = id /\ g.key[i] = newRef /\ g.keyFlags[i] = newFlags
    BY <1>10 DEF Attached, OnlyKeySet, KeyFrom, ValueFrom, Live
  <2>2. FreshKey(g, h, id, newRef, newFlags)
    BY <1>3, <1>6, <1>10, <1>13, <2>1
       DEF FreshKey, Waiting, Attached, OnlyKeySet
  <2>3. QED
    BY <1>1, <2>2, FreshKeyKeepsStrings
<1>15. QED
  BY <1>3, <1>8, <1>10, <1>11, <1>12, <1>14 DEF DocumentOK, g

(* The stack of open containers after a value has gone into the innermost. *)
LEMMA DeliveredOK ==
    ASSUME NEW h, NEW before, HeapOK(before), NEW stack,
           ParsingOK(h, before, stack, "value"), stack # <<>>,
           NEW id, Loose(h, before, id),
           \A k \in DOMAIN stack : stack[k].id # id
    PROVE  LET top == stack[Len(stack)]
               keyed == IF h.type[top.id] = "Object"
                        THEN SetKey(h, id, top.key, top.flags) ELSE h
           IN ParsingOK(AppendChild(keyed, top.id, id), before,
                        [stack EXCEPT ![Len(stack)].key = NoRef], "next")
<1> DEFINE top == stack[Len(stack)]
           p == top.id
           key == top.key
           escape == top.flags
           keyed == IF h.type[p] = "Object"
                    THEN SetKey(h, id, key, escape) ELSE h
           g == AppendChild(keyed, p, id)
           rest == [stack EXCEPT ![Len(stack)].key = NoRef]
<1>1. stack \in Seq(Frames) /\ OpenOK(h, before, stack, "value")
      /\ DocumentOK(h) /\ HeapOK(h) /\ Extends(h, before)
  BY DEF ParsingOK, DocumentOK
<1>2. /\ Len(stack) \in DOMAIN stack /\ Len(stack) \in Nat
      /\ \A k \in DOMAIN stack : /\ stack[k] \in Frames
                                 /\ k # Len(stack) => k < Len(stack)
  BY <1>1, TopFrame
<1>3. /\ rest \in Seq(Frames) /\ Len(rest) = Len(stack)
      /\ DOMAIN rest = DOMAIN stack
      /\ \A k \in DOMAIN stack :
            /\ rest[k].id = stack[k].id /\ rest[k].flags = stack[k].flags
            /\ rest[k].key = IF k = Len(stack) THEN NoRef ELSE stack[k].key
  BY <1>1, TopFrame
<1> HIDE DEF rest
<1>4. /\ Loose(h, before, p) /\ h.type[p] \in Containers
      /\ Waiting(h, key) /\ escape \in BOOLEAN /\ p # id
      /\ h.type[p] = "Object" =>
            GoodText(ViewString(h, key), escape)
  BY <1>1, <1>2 DEF OpenOK, Keyed, Frames
<1>m. keyed = IF h.type[p] = "Object"
              THEN SetKey(h, id, key, escape) ELSE h
  OBVIOUS
<1>k. \A k \in DOMAIN stack : k # Len(stack) =>
         stack[k].id # p /\ Disjoint(stack[k].key, key)
  BY <1>1, <1>2 DEF OpenOK
<1> HIDE DEF p, key, escape, keyed
<1>a. /\ DocumentOK(g) /\ g.bytes = h.bytes /\ g.mem = h.mem
      /\ \E ref \in {key, NoRef}, flags \in BOOLEAN :
            Attached(g, h, p, id, ref, flags)
  BY <1>1, <1>4, <1>m, DeliveredAttaches DEF Loose
<1> HIDE DEF g
<1>5. PICK ref \in {key, NoRef}, flags \in BOOLEAN :
         Attached(g, h, p, id, ref, flags)
  BY <1>a
<1>6. /\ g.count = h.count /\ g.type = h.type /\ BytesKept(g, h)
      /\ Live(g) = Live(h) /\ Live(h) \subseteq Ids /\ HeapOK(g)
      /\ \A i \in Ids : i # id => g.parent[i] = h.parent[i]
      /\ \A i \in Live(g) :
            /\ ValueFrom(g, h, i)
            /\ \/ KeyFrom(g, h, i)
               \/ i = id /\ g.key[i] \in {key, NoRef}
  BY <1>1, <1>5, <1>a, LinksStayLive
     DEF Attached, OnlyKeySet, LinksAppended, KeyFrom, ValueFrom, Live,
         DocumentOK
<1>7. Extends(g, before)
  <2>1. g.bytes \in Nat
    BY <1>6, Counters
  <2>2. QED
    BY <1>1, <1>4, <1>5, <2>1, AttachedBeyond DEF Loose, Attached
<1>8. ASSUME NEW k \in DOMAIN stack
      PROVE  /\ Waiting(g, rest[k].key)
             /\ k < Len(stack) => ViewString(g, rest[k].key)
                                     = ViewString(h, stack[k].key)
  <2>1. CASE k = Len(stack)
    <3>1. rest[k].key = NoRef /\ ~(k < Len(stack))
      BY <1>2, <1>3, <2>1
    <3>2. QED
      BY <3>1, <1>6, NoRefWaits
  <2>2. CASE k # Len(stack)
    <3>1. rest[k].key = stack[k].key /\ Waiting(h, stack[k].key)
          /\ Disjoint(stack[k].key, key)
      BY <1>1, <1>2, <1>3, <1>k, <2>2 DEF OpenOK
    <3>2. \A i \in Live(g) :
             /\ KeyFrom(g, h, i) \/ Disjoint(stack[k].key, g.key[i])
             /\ ValueFrom(g, h, i) \/ Disjoint(stack[k].key, g.value[i])
      BY <3>1, <1>6 DEF Waiting, Apart
    <3>3. g.bytes \in Nat
      BY <1>6, Counters
    <3>4. QED
      BY <1>1, <1>6, <3>1, <3>2, <3>3, WaitingKept
  <2>3. QED
    BY <2>1, <2>2
<1>9. ASSUME NEW k \in DOMAIN stack, NEW l \in DOMAIN stack, l # k
      PROVE  rest[l].id # rest[k].id /\ Disjoint(rest[k].key, rest[l].key)
  <2>1. stack[l].id # stack[k].id /\ Disjoint(stack[k].key, stack[l].key)
        /\ Waiting(h, stack[k].key) /\ Waiting(h, stack[l].key)
    BY <1>1, <1>9 DEF OpenOK
  <2>2. Disjoint(stack[k].key, NoRef) /\ Disjoint(NoRef, stack[l].key)
    BY <2>1, DisjointSymmetric DEF Waiting, Apart
  <2>3. QED
    BY <1>3, <1>9, <2>1, <2>2
<1>10. OpenOK(g, before, rest, "next")
  <2> SUFFICES ASSUME NEW k \in DOMAIN stack
               PROVE  /\ Loose(g, before, rest[k].id)
                      /\ g.type[rest[k].id] \in Containers
                      /\ Keyed(g, rest, "next", k) =>
                            GoodText(ViewString(g, rest[k].key), rest[k].flags)
    BY <1>3, <1>8, <1>9 DEF OpenOK
  <2>1. Loose(g, before, rest[k].id) /\ g.type[rest[k].id] \in Containers
    BY <1>1, <1>3, <1>6 DEF OpenOK, Loose
  <2>2. ASSUME Keyed(g, rest, "next", k)
        PROVE  GoodText(ViewString(g, rest[k].key), rest[k].flags)
    <3>1. k < Len(stack) /\ h.type[stack[k].id] = "Object"
      BY <2>2, <1>3, <1>6 DEF Keyed
    <3>2. QED
      BY <3>1, <1>1, <1>3, <1>8 DEF OpenOK, Keyed
  <2>3. QED
    BY <2>1, <2>2
<1>11. rest # <<>>
  BY <1>2, <1>3
<1>12. PlaceOK(g, rest, "next") /\ "next" \in Places
  BY <1>11 DEF PlaceOK, Places
<1>13. QED
  BY <1>3, <1>a, <1>7, <1>10, <1>12 DEF ParsingOK, g, keyed, rest, p, key, escape

(* A value that is complete.                                               *)
LEMMA DeliverStep ==
    ASSUME ParserInv, Aside, NEW before, Checkpoint(before), parser.active,
           NEW h, NEW stack, ParsingOK(h, before, stack, "value"),
           NEW id, Loose(h, before, id),
           \A k \in DOMAIN stack : stack[k].id # id,
           Deliver(id, h, stack)
    PROVE  StepOK(before)
<1>1. HeapOK(before) /\ id \in Ids /\ parser \in Parsers
  BY LinksStayLive
     DEF Checkpoint, ParsingOK, DocumentOK, Loose, ParserInv
<1>2. CASE stack = <<>>
  <2>1. ParsingOK(h, before, stack, "trailing")
    BY <1>2 DEF ParsingOK, OpenOK, PlaceOK, Places
  <2>2. /\ heap' = h /\ result' = result
        /\ parser' = [parser EXCEPT !.at = "trailing", !.stack = stack,
                                    !.root = id]
    BY <1>2 DEF Deliver
  <2>3. QED
    BY <1>1, <2>1, <2>2, GoOnStep
<1>3. CASE stack # <<>>
  <2> DEFINE top == stack[Len(stack)]
             keyed == IF h.type[top.id] = "Object"
                      THEN SetKey(h, id, top.key, top.flags) ELSE h
             g == AppendChild(keyed, top.id, id)
             rest == [stack EXCEPT ![Len(stack)].key = NoRef]
  <2>1. ParsingOK(g, before, rest, "next")
    BY <1>1, <1>3, DeliveredOK
  <2>2. GoOnAt("next", g, rest)
    BY <1>3 DEF Deliver, Seqs!Last
  <2> HIDE DEF g, rest
  <2>3. QED
    BY <2>1, <2>2, GoOnAtStep
<1>4. QED
  BY <1>2, <1>3

-----------------------------------------------------------------------------
(* Values.                                                                 *)

(* Where a value may come, the invariant is that of "value".               *)
LEMMA ValuePlace ==
    ASSUME NEW h, NEW before, NEW stack, NEW at, ParsingOK(h, before, stack, at),
           at \in {"value", "element"}
    PROVE  ParsingOK(h, before, stack, "value")
<1>1. CASE at = "value"
  BY <1>1
<1>2. CASE at = "element"
  <2>1. stack \in Seq(Frames) /\ stack # <<>>
        /\ h.type[stack[Len(stack)].id] = "Array"
    BY <1>2 DEF ParsingOK, PlaceOK
  <2>2. \A k \in DOMAIN stack : Keyed(h, stack, "value", k)
                                   => Keyed(h, stack, "element", k)
    BY <2>1, TopFrame DEF Keyed
  <2>3. OpenOK(h, before, stack, "value")
    BY <1>2, <2>2 DEF ParsingOK, OpenOK
  <2>4. PlaceOK(h, stack, "value") /\ "value" \in Places
    BY DEF PlaceOK, Places
  <2>5. QED
    BY <2>3, <2>4 DEF ParsingOK
<1>3. QED
  BY <1>1, <1>2

(* The node that has been added is loose, whatever its text.               *)
LEMMA GrownOK ==
    ASSUME NEW h, NEW before, HeapOK(before), NEW stack, NEW at,
           ParsingOK(h, before, stack, at),
           NEW g, NEW type, Grown(g, h, type), DocumentOK(g),
           \A ref \in StringRefs :
              RefOK(h, ref) => Disjoint(ref, g.value[h.count])
    PROVE  /\ ParsingOK(g, before, stack, at)
           /\ Loose(g, before, h.count)
           /\ \A k \in DOMAIN stack : stack[k].id # h.count
<1>1. HeapOK(h) /\ HeapOK(g) /\ Extends(h, before) /\ Extends(g, h)
      /\ OpenOK(h, before, stack, at) /\ stack \in Seq(Frames)
  BY DEF ParsingOK, DocumentOK, Grown
<1>2. Extends(g, before)
  BY <1>1, ExtendsTransitive
<1>3. Live(g) = Live(h) \cup {h.count} /\ h.count \notin Live(h)
  BY GrownLive DEF Grown
<1>4. Live(before) \subseteq Live(h)
  BY <1>1, Counters, LiveGrows DEF Extends
<1>5. Loose(g, before, h.count)
  BY <1>3, <1>4 DEF Loose, Grown
<1>6. \A k \in DOMAIN stack : stack[k].id # h.count
  BY <1>1, <1>3 DEF OpenOK, Loose
<1>7. ASSUME NEW ref, Waiting(h, ref)
      PROVE  Waiting(g, ref) /\ ViewString(g, ref) = ViewString(h, ref)
  <2>1. \A i \in Live(g) :
           /\ KeyFrom(g, h, i)
           /\ ValueFrom(g, h, i) \/ Disjoint(ref, g.value[i])
    BY <1>3, <1>7
       DEF Grown, Extends, SameNodes, FlagsKept, KeyFrom, ValueFrom, Waiting
  <2>2. g.bytes \in Nat /\ BytesKept(g, h)
    BY <1>1, Counters DEF Extends
  <2>3. QED
    BY <1>1, <1>7, <2>1, <2>2, WaitingKept
<1>8. \A k \in DOMAIN stack :
         /\ g.type[stack[k].id] = h.type[stack[k].id]
         /\ Loose(g, before, stack[k].id)
  BY <1>1, <1>3 DEF OpenOK, Loose, Extends, SameNodes
<1>9. OpenOK(g, before, stack, at)
  BY <1>1, <1>7, <1>8 DEF OpenOK, Keyed
<1>10. PlaceOK(g, stack, at)
  <2>1. stack # <<>> => Len(stack) \in DOMAIN stack
    BY <1>1
  <2>2. QED
    BY <1>8, <2>1 DEF ParsingOK, PlaceOK
<1>11. QED
  BY <1>2, <1>5, <1>6, <1>9, <1>10 DEF ParsingOK

(* A string without bytes shares none.                                     *)
LEMMA ApartFromNoRef ==
    ASSUME NEW h, HeapOK(h)
    PROVE  \A ref \in StringRefs : RefOK(h, ref) => Disjoint(ref, NoRef)
BY NoRefApart, DisjointSymmetric

(* What a lexeme adds is a node, in a document as good as before, and its  *)
(* text shares no byte with a key that waits.                              *)
Added(g, h, type) ==
    /\ DocumentOK(g) /\ Grown(g, h, type)
    /\ \A ref \in StringRefs : RefOK(h, ref) => Disjoint(ref, g.value[h.count])

(* make_null(), make_bool(), make_number().                                *)
LEMMA ScalarMade ==
    ASSUME NEW h, DocumentOK(h), NEW type \in Scalars,
           LET item == [type |-> type, text |-> <<>>, finite |-> TRUE]
           IN Make(h, item).code = "Ok"
    PROVE  LET item == [type |-> type, text |-> <<>>, finite |-> TRUE]
           IN Added(Make(h, item).heap, h, type)
<1> DEFINE item == [type |-> type, text |-> <<>>, finite |-> TRUE]
           made == Make(h, item)
           g == made.heap
<1>1. HeapOK(h) /\ made.code = "Ok"
  BY DEF DocumentOK
<1>2. /\ item.type = type /\ item.type \in ValueTypes
      /\ item.type # "String" /\ item.text \in Seq(Bytes)
      /\ item.finite = TRUE
  BY DEF Scalars, ValueTypes
<1> HIDE DEF item
<1>3. HeapOK(g) /\ Grown(g, h, type) /\ StringsOK(g)
  BY <1>1, <1>2, MakeGrows, MakeKeepsForest DEF DocumentOK
<1>4. DocumentOK(g)
  BY <1>1, <1>3, GrownKeys DEF DocumentOK
<1>5. g.value[h.count] = NoRef
  <2>1. AllocateNodeError(h) = "Ok" /\ made = Success(AllocateNode(h, item.type))
    BY <1>1, <1>2 DEF Make, Failure
  <2>2. CanAllocateNode(h) /\ g = AllocateNode(h, item.type)
    BY <2>1 DEF AllocateNodeError, Success
  <2>3. QED
    BY <1>1, <1>2, <2>2, AllocateGrows
<1> HIDE DEF made
<1>6. QED
  BY <1>1, <1>3, <1>4, <1>5, ApartFromNoRef DEF Added, item, made

(* A value that has been added goes where values go.                       *)
LEMMA ValueStep ==
    ASSUME ParserInv, Aside, NEW before, Checkpoint(before), parser.active,
           ParsingOK(heap, before, parser.stack, parser.at),
           parser.at \in {"value", "element"},
           NEW g, NEW type, Added(g, heap, type),
           Deliver(heap.count, g, parser.stack)
    PROVE  StepOK(before)
<1>1. HeapOK(before)
  BY DEF Checkpoint, DocumentOK
<1>2. ParsingOK(heap, before, parser.stack, "value")
  BY ValuePlace
<1>3. /\ ParsingOK(g, before, parser.stack, "value")
      /\ Loose(g, before, heap.count)
      /\ \A k \in DOMAIN parser.stack : parser.stack[k].id # heap.count
  BY <1>1, <1>2, GrownOK DEF Added
<1>4. QED
  BY <1>3, DeliverStep

(* parse_null(), parse_bool(), parse_number().                             *)
LEMMA ParseScalarStep ==
    ASSUME ParserInv, Aside, NEW before, Checkpoint(before), parser.active,
           ParsingOK(heap, before, parser.stack, parser.at),
           NEW lexeme \in Lexemes, ParseScalar(lexeme)
    PROVE  StepOK(before)
<1> DEFINE item == [type |-> lexeme.kind, text |-> <<>>, finite |-> TRUE]
           made == Make(heap, item)
<1>1. /\ HeapOK(heap) /\ heap \in Heaps
      /\ DocumentOK(heap) /\ Extends(heap, before)
  BY DEF ParsingOK, DocumentOK, HeapOK
<1>2. lexeme.kind \in Scalars /\ parser.at \in {"value", "element"}
  BY DEF ParseScalar, AtValue
<1>3. item.type \in ValueTypes /\ item.text \in Seq(Bytes)
  BY <1>2 DEF Scalars, ValueTypes
<1>4. lexeme.fault # "Ok" => lexeme.fault \in ErrorCodes \ {"InternalError"}
  BY DEF Lexemes, LiteralFaults, StringFaults, ErrorCodes
<1>5. CASE lexeme.fault # "Ok" /\ Fail(lexeme.fault, heap)
  BY <1>1, <1>4, <1>5, FailStep
<1>6. CASE made.code # "Ok" /\ Fail(made.code, made.heap)
  <2> HIDE DEF item
  <2>1. made.code \in ErrorCodes \ {"InternalError"} /\ made.heap = heap
    BY <1>1, <1>3, <1>6, MakeKeepsForest
  <2>2. QED
    BY <1>1, <1>6, <2>1, FailStep
<1>7. CASE made.code = "Ok" /\ Deliver(heap.count, made.heap, parser.stack)
  <2>1. Added(made.heap, heap, lexeme.kind)
    BY <1>1, <1>2, <1>7, ScalarMade
  <2> HIDE DEF made
  <2>2. QED
    BY <1>2, <1>7, <2>1, ValueStep
<1>8. QED
  BY <1>5, <1>6, <1>7 DEF ParseScalar

(* A text that scan_string() and allocate_string() let through.            *)
LEMMA ParsedText ==
    ASSUME NEW h, NEW lexeme \in Lexemes, lexeme.kind = "String"
    PROVE  LET text == lexeme.text
               parsed == ParseText(h, lexeme)
           IN /\ parsed.code \in ErrorCodes \ {"InternalError"}
              /\ parsed.code # "Ok" => parsed.heap = h
              /\ parsed.code = "Ok" =>
                    /\ HasRoom(h, text) /\ WellFormed(text)
                    /\ parsed.heap = CopyString(h, text)
<1> DEFINE text == lexeme.text
           allocated == AllocateStringError(h, Len(text))
           scanned == ScanError(lexeme)
<1>1. text \in Seq(Bytes)
  BY TextsTyped DEF Lexemes, Punctuation, Scalars
<1>2. lexeme.fault \in ErrorCodes \ {"InternalError"}
  BY DEF Lexemes, Punctuation, Scalars, StringFaults, LiteralFaults, ErrorCodes
<1>3. /\ scanned \in ErrorCodes \ {"InternalError"}
      /\ scanned = "Ok" => WellFormed(text)
  BY <1>2 DEF ScanError, ErrorCodes
<1>4. allocated \in ErrorCodes \ {"InternalError"}
  BY DEF AllocateStringError, ErrorCodes
<1> HIDE DEF allocated, scanned
<1>5. CASE scanned # "Ok"
  BY <1>3, <1>5 DEF ParseText, Failure, scanned
<1>6. CASE scanned = "Ok" /\ allocated # "Ok"
  BY <1>4, <1>6 DEF ParseText, Failure, scanned, allocated
<1>7. CASE scanned = "Ok" /\ allocated = "Ok"
  BY <1>1, <1>3, <1>7
     DEF ParseText, Success, HasRoom, ErrorCodes, scanned, allocated
<1>8. QED
  BY <1>5, <1>6, <1>7

(* What parse_string() leaves behind is what make_string() does, which     *)
(* checks beforehand what parse_string() checks on the way.                *)
LEMMA ParsedIsMade ==
    ASSUME NEW h, HeapOK(h), CanAllocateNode(h), NEW text,
           HasRoom(AllocateNode(h, "String"), text), WellFormed(text)
    PROVE  LET node == AllocateNode(h, "String")
           IN /\ MakeStringError(h, text) = "Ok"
              /\ MakeString(h, text) = Success(
                    [CopyString(node, text) EXCEPT
                        !.value[h.count] = NextRef(node, Len(text)),
                        !.valueFlags[h.count] = NeedsEscape(text)])
<1> DEFINE node == AllocateNode(h, "String")
<1>1. AllocateStringError(node, Len(text)) = "Ok" /\ text \in Seq(Bytes)
  BY DEF HasRoom
<1>2. node.count = h.count + 1 /\ node.bytes = h.bytes
  BY DEF AllocateNode
<1>3. MakeStringError(h, text) = "Ok"
  BY <1>1, <1>2 DEF AllocateStringError, MakeStringError
<1>4. QED
  BY <1>1, <1>3 DEF MakeString

(* A node for a string, with its text.                                     *)
LEMMA StringMade ==
    ASSUME NEW h, DocumentOK(h), CanAllocateNode(h), NEW text,
           HasRoom(AllocateNode(h, "String"), text), WellFormed(text)
    PROVE  LET node == AllocateNode(h, "String")
           IN Added([CopyString(node, text) EXCEPT
                        !.value[h.count] = NextRef(node, Len(text)),
                        !.valueFlags[h.count] = NeedsEscape(text)],
                    h, "String")
<1> DEFINE id == h.count
           node == AllocateNode(h, "String")
           ref == NextRef(node, Len(text))
           g == [CopyString(node, text) EXCEPT
                    !.value[id] = ref, !.valueFlags[id] = NeedsEscape(text)]
           item == [type |-> "String", text |-> text, finite |-> TRUE]
<1>1. HeapOK(h) /\ HeapOK(node) /\ node.bytes = h.bytes
  BY AllocateKeepsForest, AllocateGrows DEF DocumentOK, ValueTypes
<1>2. MakeStringError(h, text) = "Ok" /\ MakeString(h, text) = Success(g)
  BY <1>1, ParsedIsMade
<1>3. /\ item.type = "String" /\ item.type \in ValueTypes
      /\ item.text = text /\ item.text \in Seq(Bytes)
  BY DEF ValueTypes, HasRoom
<1>4. Make(h, item) = Success(g)
  BY <1>2, <1>3 DEF Make
<1> HIDE DEF g, item
<1>5. Make(h, item).heap = g /\ Make(h, item).code = "Ok"
  BY <1>4 DEF Success
<1>6. Grown(g, h, "String") /\ StringsOK(g) /\ HeapOK(g)
  BY <1>1, <1>3, <1>5, MakeGrows, MakeKeepsForest DEF DocumentOK
<1>7. DocumentOK(g)
  BY <1>1, <1>6, GrownKeys DEF DocumentOK
<1>8. g.value[id] = ref
  <2>1. HeapOK(CopyString(node, text)) /\ id \in Ids
    BY <1>1, <1>6, CopyKeepsForest DEF HasRoom, Grown
  <2>2. QED
    BY <2>1 DEF g, HeapOK, Heaps
<1>9. \A s \in StringRefs : RefOK(h, s) => Disjoint(s, g.value[id])
  <2>1. \A s \in StringRefs : RefOK(h, s) => RefOK(node, s)
    BY <1>1 DEF RefOK
  <2> HIDE DEF node
  <2>2. \A s \in StringRefs : RefOK(node, s) => Disjoint(ref, s)
    BY <1>1, NextRefApart DEF node
  <2>3. QED
    BY <1>8, <2>1, <2>2, DisjointSymmetric
<1>10. QED
  BY <1>6, <1>7, <1>9 DEF Added, g

(* parse_string() for a value.                                             *)
LEMMA ParseStringStep ==
    ASSUME ParserInv, Aside, NEW before, Checkpoint(before), parser.active,
           ParsingOK(heap, before, parser.stack, parser.at),
           NEW lexeme \in Lexemes, ParseString(lexeme)
    PROVE  StepOK(before)
<1> DEFINE id == heap.count
           text == lexeme.text
           node == AllocateNode(heap, "String")
           parsed == ParseText(node, lexeme)
           g == [parsed.heap EXCEPT !.value[id] = NextRef(node, Len(text)),
                                    !.valueFlags[id] = NeedsEscape(text)]
<1>1. /\ HeapOK(heap) /\ HeapOK(before) /\ heap \in Heaps
      /\ DocumentOK(heap) /\ Extends(heap, before)
  BY DEF ParsingOK, DocumentOK, HeapOK, Checkpoint
<1>2. lexeme.kind = "String" /\ parser.at \in {"value", "element"}
  BY DEF ParseString, AtValue
<1>3. /\ parsed.code \in ErrorCodes \ {"InternalError"}
      /\ parsed.code # "Ok" => parsed.heap = node
      /\ parsed.code = "Ok" => /\ HasRoom(node, text) /\ WellFormed(text)
                               /\ parsed.heap = CopyString(node, text)
  BY <1>2, ParsedText
<1>4. CASE AllocateNodeError(heap) # "Ok" /\ Fail(AllocateNodeError(heap), heap)
  <2>1. AllocateNodeError(heap) \in ErrorCodes \ {"InternalError"}
    BY DEF AllocateNodeError, ErrorCodes
  <2>2. QED
    BY <1>1, <1>4, <2>1, FailStep
<1>5. ASSUME AllocateNodeError(heap) = "Ok"
      PROVE  CanAllocateNode(heap) /\ node \in Heaps /\ Extends(node, before)
  <2>1. CanAllocateNode(heap)
    BY <1>5 DEF AllocateNodeError
  <2>2. HeapOK(node) /\ Grown(node, heap, "String")
    BY <1>1, <2>1, AllocateKeepsForest, AllocateGrows DEF ValueTypes
  <2>3. Extends(node, before)
    BY <1>1, <2>2, ExtendsTransitive DEF Grown
  <2>4. QED
    BY <2>1, <2>2, <2>3 DEF HeapOK
<1>6. CASE /\ AllocateNodeError(heap) = "Ok"
           /\ parsed.code # "Ok" /\ Fail(parsed.code, parsed.heap)
  <2> HIDE DEF node, parsed
  <2>1. QED
    BY <1>3, <1>5, <1>6, FailStep
<1>7. CASE /\ AllocateNodeError(heap) = "Ok"
           /\ parsed.code = "Ok" /\ Deliver(id, g, parser.stack)
  <2>1. Added(g, heap, "String")
    BY <1>1, <1>3, <1>5, <1>7, StringMade
  <2> HIDE DEF g
  <2>2. QED
    BY <1>2, <1>7, <2>1, ValueStep
<1>8. QED
  BY <1>4, <1>6, <1>7 DEF ParseString

-----------------------------------------------------------------------------
(* Keys and containers.                                                    *)

(* The innermost open container gets a key.                                *)
LEMMA KeyedFrame ==
    ASSUME NEW stack \in Seq(Frames), stack # <<>>,
           NEW ref \in StringRefs, NEW flags \in BOOLEAN
    PROVE  LET n == Len(stack)
               rest == [stack EXCEPT ![n].key = ref, ![n].flags = flags]
           IN /\ rest \in Seq(Frames) /\ Len(rest) = Len(stack)
              /\ DOMAIN rest = DOMAIN stack
              /\ \A k \in DOMAIN stack :
                    /\ rest[k].id = stack[k].id
                    /\ rest[k].key = IF k = n THEN ref ELSE stack[k].key
                    /\ rest[k].flags = IF k = n THEN flags ELSE stack[k].flags
<1> DEFINE n == Len(stack)
           frame == [stack[n] EXCEPT !.key = ref]
           top == [frame EXCEPT !.flags = flags]
           middle == [stack EXCEPT ![n] = frame]
           rest == [stack EXCEPT ![n] = top]
<1>1. /\ n \in DOMAIN stack
      /\ \A k \in DOMAIN stack : stack[k] \in Frames
  BY TopFrame
<1>2. frame \in Frames /\ frame.id = stack[n].id /\ frame.key = ref
  BY <1>1 DEF Frames
<1>3. top \in Frames /\ top.id = frame.id /\ top.key = ref /\ top.flags = flags
  BY <1>2 DEF Frames
<1>4. middle[n] = frame
  BY <1>1
<1> HIDE DEF top
<1>5. /\ rest \in Seq(Frames) /\ Len(rest) = Len(stack)
      /\ DOMAIN rest = DOMAIN stack
      /\ \A k \in DOMAIN stack : rest[k] = IF k = n THEN top ELSE stack[k]
  BY <1>1, <1>3
<1>6. rest = [middle EXCEPT ![n].flags = flags]
  BY <1>1, <1>4 DEF top
<1>7. rest = [stack EXCEPT ![n].key = ref, ![n].flags = flags]
  BY <1>6
<1>8. QED
  BY <1>2, <1>3, <1>5, <1>7

(* The stack of open containers after a key has been read.                 *)
LEMMA ReadKeyOK ==
    ASSUME NEW h, NEW before, HeapOK(before), NEW stack, NEW at,
           ParsingOK(h, before, stack, at), at \in {"member", "key"},
           NEW text, HasRoom(h, text), WellFormed(text)
    PROVE  LET n == Len(stack)
           IN ParsingOK(CopyString(h, text), before,
                        [stack EXCEPT ![n].key = NextRef(h, Len(text)),
                                      ![n].flags = NeedsEscape(text)],
                        "colon")
<1> DEFINE n == Len(stack)
           g == CopyString(h, text)
           ref == NextRef(h, Len(text))
           escape == NeedsEscape(text)
           rest == [stack EXCEPT ![n].key = ref, ![n].flags = escape]
<1>1. /\ stack \in Seq(Frames) /\ OpenOK(h, before, stack, at)
      /\ HeapOK(h) /\ StringsOK(h) /\ KeysOK(h) /\ Extends(h, before)
      /\ stack # <<>> /\ h.type[stack[n].id] = "Object"
  BY DEF ParsingOK, DocumentOK, PlaceOK
<1>2. /\ n \in DOMAIN stack /\ n \in Nat
      /\ \A k \in DOMAIN stack : k # n => k < n
  BY <1>1, TopFrame
<1>3. /\ HeapOK(g) /\ Agree(g, h) /\ BytesKept(g, h)
      /\ ref \in StringRefs /\ escape \in BOOLEAN
  BY <1>1, CopyKeepsForest, CopyKeepsBytes, NextRefFits
     DEF HasRoom, NeedsEscape
<1>4. /\ Waiting(g, ref) /\ GoodText(ViewString(g, ref), escape)
      /\ \A s \in StringRefs : RefOK(h, s) => Disjoint(ref, s)
  BY <1>1, WrittenWaits
<1>5. /\ g.keyFlags = h.keyFlags /\ g.valueFlags = h.valueFlags
      /\ g.type = h.type /\ g.parent = h.parent
      /\ g.key = h.key /\ g.value = h.value /\ g.count = h.count
  BY DEF CopyString
<1> HIDE DEF g, ref, escape
<1>6. /\ rest \in Seq(Frames) /\ Len(rest) = Len(stack)
      /\ DOMAIN rest = DOMAIN stack
      /\ \A k \in DOMAIN stack :
            /\ rest[k].id = stack[k].id
            /\ rest[k].key = IF k = n THEN ref ELSE stack[k].key
            /\ rest[k].flags = IF k = n THEN escape ELSE stack[k].flags
  BY <1>1, <1>3, KeyedFrame
<1> HIDE DEF rest
<1>7. Live(g) = Live(h)
  BY <1>5 DEF Live
<1>8. \A i \in Live(g) : KeyFrom(g, h, i) /\ ValueFrom(g, h, i)
  BY <1>5, <1>7 DEF KeyFrom, ValueFrom
<1>9. DocumentOK(g)
  <2>1. StringsOK(g)
    BY <1>1, <1>3, <1>8, LosingKeepsStrings
  <2>2. KeysOK(g)
    BY <1>1, <1>5, <1>7 DEF KeysOK, KeysAtHome, Member
  <2>3. QED
    BY <1>3, <2>1, <2>2 DEF DocumentOK
<1>10. Extends(g, before)
  <2>1. h.count <= g.count
    BY <1>1, <1>5, Counters
  <2>2. Extends(g, h)
    BY <2>1, <1>3, <1>5 DEF Extends, Agree, FlagsKept
  <2>3. QED
    BY <1>1, <1>3, <2>2, ExtendsTransitive
<1>11. ASSUME NEW s, Waiting(h, s)
       PROVE  /\ Waiting(g, s) /\ ViewString(g, s) = ViewString(h, s)
              /\ Disjoint(ref, s) /\ Disjoint(s, ref)
  <2>1. g.bytes \in Nat
    BY <1>3, Counters
  <2>2. Waiting(g, s) /\ ViewString(g, s) = ViewString(h, s)
    BY <1>1, <1>3, <1>8, <1>11, <2>1, WaitingKept
  <2>3. QED
    BY <1>4, <1>11, <2>2, DisjointSymmetric DEF Waiting
<1>12. OpenOK(g, before, rest, "colon")
  <2> SUFFICES ASSUME NEW k \in DOMAIN stack
               PROVE  /\ Loose(g, before, rest[k].id)
                      /\ g.type[rest[k].id] \in Containers
                      /\ Waiting(g, rest[k].key)
                      /\ Keyed(g, rest, "colon", k) =>
                            GoodText(ViewString(g, rest[k].key), rest[k].flags)
                      /\ \A l \in DOMAIN stack :
                            l # k => /\ rest[l].id # rest[k].id
                                     /\ Disjoint(rest[k].key, rest[l].key)
    BY <1>6 DEF OpenOK
  <2>1. /\ Loose(h, before, stack[k].id) /\ h.type[stack[k].id] \in Containers
        /\ Waiting(h, stack[k].key)
        /\ \A l \in DOMAIN stack :
              l # k => /\ stack[l].id # stack[k].id /\ Waiting(h, stack[l].key)
                       /\ Disjoint(stack[k].key, stack[l].key)
    BY <1>1 DEF OpenOK
  <2>2. Loose(g, before, rest[k].id) /\ g.type[rest[k].id] \in Containers
    BY <1>5, <1>6, <1>7, <2>1 DEF Loose
  <2>3. Waiting(g, rest[k].key)
    BY <1>4, <1>6, <1>11, <2>1
  <2>4. ASSUME Keyed(g, rest, "colon", k)
        PROVE  GoodText(ViewString(g, rest[k].key), rest[k].flags)
    <3>1. CASE k = n
      BY <3>1, <1>4, <1>6
    <3>2. CASE k # n
      <4>1. Keyed(h, stack, at, k)
        BY <1>2, <1>5, <1>6, <2>4, <3>2 DEF Keyed
      <4>2. GoodText(ViewString(h, stack[k].key), stack[k].flags)
        BY <1>1, <4>1 DEF OpenOK
      <4>3. QED
        BY <1>6, <1>11, <2>1, <3>2, <4>2
    <3>3. QED
      BY <3>1, <3>2
  <2>5. ASSUME NEW l \in DOMAIN stack, l # k
        PROVE  rest[l].id # rest[k].id /\ Disjoint(rest[k].key, rest[l].key)
    BY <1>6, <1>11, <2>1, <2>5
  <2>6. QED
    BY <2>2, <2>3, <2>4, <2>5
<1>13. PlaceOK(g, rest, "colon") /\ "colon" \in Places
  <2>1. rest # <<>> /\ g.type[rest[Len(rest)].id] = "Object"
    BY <1>1, <1>2, <1>5, <1>6
  <2>2. QED
    BY <2>1 DEF PlaceOK, Places
<1>14. QED
  BY <1>6, <1>9, <1>10, <1>12, <1>13 DEF ParsingOK, g, ref, escape, rest

(* parse_string() for a key.                                               *)
LEMMA ParseKeyStep ==
    ASSUME ParserInv, Aside, NEW before, Checkpoint(before), parser.active,
           ParsingOK(heap, before, parser.stack, parser.at),
           NEW lexeme \in Lexemes, ParseKey(lexeme)
    PROVE  StepOK(before)
<1> DEFINE text == lexeme.text
           parsed == ParseText(heap, lexeme)
           n == Len(parser.stack)
           rest == [parser.stack EXCEPT ![n].key = NextRef(heap, Len(text)),
                                        ![n].flags = NeedsEscape(text)]
<1>1. /\ HeapOK(before) /\ heap \in Heaps /\ Extends(heap, before)
      /\ lexeme.kind = "String" /\ parser.at \in {"member", "key"}
  BY DEF ParsingOK, DocumentOK, HeapOK, Checkpoint, ParseKey
<1>2. /\ parsed.code \in ErrorCodes \ {"InternalError"}
      /\ parsed.code # "Ok" => parsed.heap = heap
      /\ parsed.code = "Ok" => /\ HasRoom(heap, text) /\ WellFormed(text)
                               /\ parsed.heap = CopyString(heap, text)
  BY <1>1, ParsedText
<1> HIDE DEF parsed
<1>3. CASE parsed.code # "Ok" /\ Fail(parsed.code, parsed.heap)
  BY <1>1, <1>2, <1>3, FailStep
<1>4. CASE parsed.code = "Ok" /\ GoOnAt("colon", parsed.heap, rest)
  <2>1. HasRoom(heap, text) /\ WellFormed(text)
        /\ parsed.heap = CopyString(heap, text)
    BY <1>2, <1>4
  <2>2. ParsingOK(CopyString(heap, text), before, rest, "colon")
    BY <1>1, <2>1, ReadKeyOK
  <2> HIDE DEF rest
  <2>3. ParsingOK(parsed.heap, before, rest, "colon")
    BY <2>1, <2>2
  <2>4. QED
    BY <1>4, <2>3, GoOnAtStep
<1>5. QED
  BY <1>3, <1>4 DEF ParseKey, parsed

(* What a further open container does to the stack.                        *)
LEMMA Pushed ==
    ASSUME NEW stack \in Seq(Frames), NEW frame \in Frames
    PROVE  LET longer == Append(stack, frame)
           IN /\ longer \in Seq(Frames) /\ longer # <<>>
              /\ Len(longer) = Len(stack) + 1 /\ Len(stack) \in Nat
              /\ DOMAIN longer = DOMAIN stack \cup {Len(longer)}
              /\ Len(longer) \notin DOMAIN stack
              /\ longer[Len(longer)] = frame
              /\ \A k \in DOMAIN stack :
                    longer[k] = stack[k] /\ k < Len(longer)
OBVIOUS

(* A loose container that has just been made is opened.                    *)
LEMMA OpenedOK ==
    ASSUME NEW h, NEW before, NEW stack, ParsingOK(h, before, stack, "value"),
           NEW id, Loose(h, before, id), NEW at \in {"element", "member"},
           \A k \in DOMAIN stack : stack[k].id # id,
           h.type[id] = IF at = "element" THEN "Array" ELSE "Object"
    PROVE  ParsingOK(h, before, Append(stack, OpenFrame(id)), at)
<1> DEFINE frame == OpenFrame(id)
           longer == Append(stack, frame)
           n == Len(longer)
<1>1. /\ stack \in Seq(Frames) /\ OpenOK(h, before, stack, "value")
      /\ DocumentOK(h) /\ HeapOK(h) /\ Extends(h, before)
  BY DEF ParsingOK, DocumentOK
<1>2. id \in Ids
  BY <1>1, LinksStayLive DEF Loose
<1>3. frame \in Frames /\ frame.id = id /\ frame.key = NoRef
  BY <1>2, NoRefTyped DEF OpenFrame, Frames
<1> HIDE DEF frame
<1>4. /\ longer \in Seq(Frames) /\ longer # <<>>
      /\ DOMAIN longer = DOMAIN stack \cup {n} /\ n \notin DOMAIN stack
      /\ longer[n] = frame /\ n \in Nat
      /\ \A k \in DOMAIN stack : longer[k] = stack[k] /\ k < n
  BY <1>1, <1>3, Pushed
<1> HIDE DEF longer
<1>5. \A k \in DOMAIN stack : h.type[stack[k].id] = "Object"
                                 => Keyed(h, stack, "value", k)
  BY DEF Keyed
<1>6. ~Keyed(h, longer, at, n)
  BY <1>4 DEF Keyed
<1>7. ASSUME NEW k \in DOMAIN stack
      PROVE  /\ Loose(h, before, longer[k].id)
             /\ h.type[longer[k].id] \in Containers
             /\ Waiting(h, longer[k].key)
             /\ Keyed(h, longer, at, k) =>
                   GoodText(ViewString(h, longer[k].key), longer[k].flags)
             /\ \A l \in DOMAIN stack :
                   l # k => /\ longer[l].id # longer[k].id
                            /\ Disjoint(longer[k].key, longer[l].key)
             /\ longer[k].id # frame.id
             /\ Disjoint(longer[k].key, frame.key)
             /\ Disjoint(frame.key, longer[k].key)
  <2>1. /\ longer[k] = stack[k] /\ Waiting(h, stack[k].key)
        /\ \A l \in DOMAIN stack : longer[l] = stack[l]
    BY <1>1, <1>4 DEF OpenOK
  <2>2. Keyed(h, longer, at, k) => Keyed(h, stack, "value", k)
    BY <1>5, <2>1 DEF Keyed
  <2>3. Disjoint(stack[k].key, NoRef) /\ Disjoint(NoRef, stack[k].key)
    BY <2>1, DisjointSymmetric DEF Waiting, Apart
  <2>4. /\ Loose(h, before, stack[k].id)
        /\ h.type[stack[k].id] \in Containers
        /\ Keyed(h, stack, "value", k) =>
              GoodText(ViewString(h, stack[k].key), stack[k].flags)
        /\ \A l \in DOMAIN stack :
              l # k => /\ stack[l].id # stack[k].id
                       /\ Disjoint(stack[k].key, stack[l].key)
    BY <1>1 DEF OpenOK
  <2>5. QED
    BY <1>3, <2>1, <2>2, <2>3, <2>4
<1>8. /\ Loose(h, before, frame.id) /\ h.type[frame.id] \in Containers
      /\ Waiting(h, frame.key)
  BY <1>1, <1>3, NoRefWaits DEF Containers
<1>9. OpenOK(h, before, longer, at)
  BY <1>4, <1>6, <1>7, <1>8 DEF OpenOK
<1>10. PlaceOK(h, longer, at) /\ at \in Places
  BY <1>3, <1>4 DEF PlaceOK, Places
<1>11. QED
  BY <1>1, <1>4, <1>9, <1>10 DEF ParsingOK, longer, frame

(* A node for a container.                                                 *)
LEMMA ContainerMade ==
    ASSUME NEW h, DocumentOK(h), NEW type \in ValueTypes, type # "String",
           CanAllocateNode(h)
    PROVE  Added(AllocateNode(h, type), h, type)
<1> DEFINE g == AllocateNode(h, type)
<1>1. HeapOK(h) /\ StringsOK(h) /\ KeysOK(h)
  BY DEF DocumentOK
<1>2. HeapOK(g) /\ Grown(g, h, type) /\ g.value[h.count] = NoRef
      /\ g.valueFlags[h.count] = FALSE
  BY <1>1, AllocateKeepsForest, AllocateGrows
<1> HIDE DEF g
<1>3. \A i \in Live(g) : KeyFrom(g, h, i) /\ ValueFrom(g, h, i)
  BY <1>2, GrownLive
     DEF Grown, Extends, SameNodes, FlagsKept, KeyFrom, ValueFrom
<1>4. DocumentOK(g)
  BY <1>1, <1>2, <1>3, LosingKeepsStrings, GrownKeys
     DEF DocumentOK, Grown, Extends
<1>5. QED
  BY <1>1, <1>2, <1>4, ApartFromNoRef DEF Added, g

(* What "[" or "{" opens.                                                  *)
OpenedType(lexeme) == IF lexeme.kind = "[" THEN "Array" ELSE "Object"

(* The node for it, or why there is none.                                  *)
LEMMA OpeningMade ==
    ASSUME DocumentOK(heap), NEW lexeme,
           NEW made, made = Make(heap, [type |-> OpenedType(lexeme)])
    PROVE  /\ made.code \in ErrorCodes \ {"InternalError"}
           /\ made.code # "Ok" => made.heap = heap
           /\ made.code = "Ok" => Added(made.heap, heap, OpenedType(lexeme))
<1> DEFINE type == OpenedType(lexeme)
<1>1. type \in ValueTypes /\ type # "String"
  BY DEF OpenedType, ValueTypes
<1>2. /\ AllocateNodeError(heap) \in ErrorCodes \ {"InternalError"}
      /\ AllocateNodeError(heap) = "Ok" => CanAllocateNode(heap)
      /\ made = IF AllocateNodeError(heap) # "Ok"
                THEN Failure(AllocateNodeError(heap), heap)
                ELSE Success(AllocateNode(heap, type))
  BY DEF Make, AllocateNodeError, ErrorCodes, OpenedType
<1>3. CanAllocateNode(heap) => Added(AllocateNode(heap, type), heap, type)
  BY <1>1, ContainerMade
<1> HIDE DEF type
<1>4. QED
  BY <1>2, <1>3 DEF Success, Failure, ErrorCodes, type

(* parse_array() and parse_object() up to what they hold.                  *)
LEMMA ParseOpenStep ==
    ASSUME ParserInv, Aside, NEW before, Checkpoint(before), parser.active,
           ParsingOK(heap, before, parser.stack, parser.at),
           NEW lexeme, ParseOpen(lexeme)
    PROVE  StepOK(before)
<1> DEFINE type == OpenedType(lexeme)
           at == IF type = "Array" THEN "element" ELSE "member"
           made == Make(heap, [type |-> type])
           longer == Append(parser.stack, OpenFrame(heap.count))
<1>1. /\ HeapOK(before) /\ heap \in Heaps
      /\ DocumentOK(heap) /\ Extends(heap, before)
      /\ parser.at \in {"value", "element"}
  BY DEF ParsingOK, DocumentOK, HeapOK, Checkpoint, ParseOpen, AtValue
<1>2. /\ made.code \in ErrorCodes \ {"InternalError"}
      /\ made.code # "Ok" => made.heap = heap
      /\ made.code = "Ok" => Added(made.heap, heap, type)
  BY <1>1, OpeningMade
<1> HIDE DEF made
<1>3. CASE Fail("ParserDepthExceeded", heap)
  <2>1. "ParserDepthExceeded" \in ErrorCodes \ {"InternalError"}
    BY DEF ErrorCodes
  <2>2. QED
    BY <1>1, <1>3, <2>1, FailStep
<1>4. CASE made.code # "Ok" /\ Fail(made.code, made.heap)
  BY <1>1, <1>2, <1>4, FailStep
<1>5. CASE made.code = "Ok" /\ GoOnAt(at, made.heap, longer)
  <2>1. ParsingOK(heap, before, parser.stack, "value")
    BY <1>1, ValuePlace
  <2>2. /\ ParsingOK(made.heap, before, parser.stack, "value")
        /\ Loose(made.heap, before, heap.count)
        /\ \A k \in DOMAIN parser.stack : parser.stack[k].id # heap.count
    BY <1>1, <1>2, <1>5, <2>1, GrownOK DEF Added
  <2>3. made.heap.type[heap.count] = type
    BY <1>2, <1>5 DEF Added, Grown
  <2>4. /\ at \in {"element", "member"}
        /\ type = IF at = "element" THEN "Array" ELSE "Object"
    BY DEF OpenedType
  <2> HIDE DEF type, at
  <2>5. ParsingOK(made.heap, before, longer, at)
    BY <2>2, <2>3, <2>4, OpenedOK
  <2> HIDE DEF longer
  <2>6. QED
    BY <1>5, <2>5, GoOnAtStep
<1>6. QED
  BY <1>3, <1>4, <1>5 DEF ParseOpen, OpenedType, made

(* What closing the innermost container does to the stack.                 *)
LEMMA Popped ==
    ASSUME NEW stack \in Seq(Frames), stack # <<>>
    PROVE  LET n == Len(stack)
               rest == SubSeq(stack, 1, n - 1)
           IN /\ rest \in Seq(Frames) /\ n \in DOMAIN stack
              /\ n \notin DOMAIN rest
              /\ \A k \in DOMAIN rest :
                    k \in DOMAIN stack /\ rest[k] = stack[k] /\ k < n
<1> DEFINE n == Len(stack)
           rest == SubSeq(stack, 1, n - 1)
<1>1. n \in Nat /\ n >= 1 /\ n \in DOMAIN stack /\ DOMAIN stack = 1 .. n
  OBVIOUS
<1>2. rest \in Seq(Frames)
  BY <1>1
<1>3. Len(rest) = n - 1 /\ DOMAIN rest = 1 .. n - 1
  BY <1>1
<1>4. \A k \in 1 .. n - 1 : rest[k] = stack[k]
  BY <1>1
<1> HIDE DEF n, rest
<1>5. \A k \in 1 .. n - 1 : k \in 1 .. n /\ k < n
  BY <1>1
<1>6. n \notin 1 .. n - 1
  BY <1>1
<1>7. QED
  BY <1>1, <1>2, <1>3, <1>4, <1>5, <1>6 DEF n, rest

(* A container that is closed is a value like any other.                   *)
LEMMA ClosedOK ==
    ASSUME NEW before, ParsingOK(heap, before, parser.stack, parser.at),
           NEW lexeme, ParseClose(lexeme)
    PROVE  LET n == Len(parser.stack)
               rest == SubSeq(parser.stack, 1, n - 1)
               id == parser.stack[n].id
           IN /\ Deliver(id, heap, rest) /\ Loose(heap, before, id)
              /\ \A k \in DOMAIN rest : rest[k].id # id
              /\ ParsingOK(heap, before, rest, "value")
<1> DEFINE stack == parser.stack
           n == Len(stack)
           rest == SubSeq(stack, 1, n - 1)
           id == stack[n].id
<1>1. /\ stack \in Seq(Frames) /\ stack # <<>>
      /\ OpenOK(heap, before, stack, parser.at)
  BY DEF ParsingOK, PlaceOK, ParseClose
<1>2. /\ rest \in Seq(Frames) /\ n \in DOMAIN stack /\ n \notin DOMAIN rest
      /\ \A k \in DOMAIN rest :
            k \in DOMAIN stack /\ rest[k] = stack[k] /\ k < n
  BY <1>1, Popped
<1>3. Deliver(id, heap, rest)
  BY DEF ParseClose, Top, Seqs!Last, Seqs!Front
<1> HIDE DEF rest
<1>4. Loose(heap, before, id)
  BY <1>1, <1>2 DEF OpenOK
<1>5. \A k \in DOMAIN rest : rest[k].id # id
  BY <1>1, <1>2 DEF OpenOK
<1>6. \A k \in DOMAIN rest :
         Keyed(heap, rest, "value", k) => Keyed(heap, stack, parser.at, k)
  BY <1>2 DEF Keyed
<1>7. OpenOK(heap, before, rest, "value")
  BY <1>1, <1>2, <1>6 DEF OpenOK
<1>8. PlaceOK(heap, rest, "value") /\ "value" \in Places
  BY DEF PlaceOK, Places
<1>9. ParsingOK(heap, before, rest, "value")
  BY <1>2, <1>7, <1>8 DEF ParsingOK
<1>10. QED
  BY <1>3, <1>4, <1>5, <1>9 DEF rest

(* The end of parse_array() and parse_object().                            *)
LEMMA ParseCloseStep ==
    ASSUME ParserInv, Aside, NEW before, Checkpoint(before), parser.active,
           ParsingOK(heap, before, parser.stack, parser.at),
           NEW lexeme, ParseClose(lexeme)
    PROVE  StepOK(before)
<1> DEFINE n == Len(parser.stack)
           rest == SubSeq(parser.stack, 1, n - 1)
           id == parser.stack[n].id
<1>1. /\ Deliver(id, heap, rest) /\ Loose(heap, before, id)
      /\ \A k \in DOMAIN rest : rest[k].id # id
      /\ ParsingOK(heap, before, rest, "value")
  BY ClosedOK
<1> HIDE DEF rest, id
<1>2. QED
  BY <1>1, DeliverStep

(* Where the recursion is changes, and nothing else.                       *)
LEMMA MovedOK ==
    ASSUME NEW h, NEW before, NEW stack, NEW at, NEW next \in Places,
           ParsingOK(h, before, stack, at), PlaceOK(h, stack, next),
           \A k \in DOMAIN stack :
              Keyed(h, stack, next, k) => Keyed(h, stack, at, k)
    PROVE  ParsingOK(h, before, stack, next)
BY DEF ParsingOK, OpenOK

(* After "," comes a value in an array and a key in an object.             *)
LEMMA ParseCommaStep ==
    ASSUME ParserInv, Aside, NEW before, Checkpoint(before), parser.active,
           ParsingOK(heap, before, parser.stack, parser.at),
           NEW lexeme, ParseComma(lexeme)
    PROVE  StepOK(before)
<1> DEFINE stack == parser.stack
           n == Len(stack)
           next == IF TopType = "Array" THEN "value" ELSE "key"
<1>1. /\ stack \in Seq(Frames) /\ stack # <<>> /\ parser.at = "next"
      /\ OpenOK(heap, before, stack, parser.at)
      /\ GoOnAt(next, heap, stack)
  BY DEF ParsingOK, PlaceOK, ParseComma
<1>2. TopType = heap.type[stack[n].id]
  BY DEF TopType, Top, Seqs!Last
<1>3. /\ n \in DOMAIN stack
      /\ \A k \in DOMAIN stack : k # n => k < n
  BY <1>1, TopFrame
<1>4. TopType \in Containers
  BY <1>1, <1>2, <1>3 DEF OpenOK
<1>5. \A k \in DOMAIN stack :
         Keyed(heap, stack, next, k) => Keyed(heap, stack, parser.at, k)
  BY <1>1, <1>2, <1>3 DEF Keyed
<1>6. next \in Places /\ PlaceOK(heap, stack, next)
  BY <1>1, <1>2, <1>4 DEF Places, PlaceOK, Containers
<1> HIDE DEF next
<1>7. ParsingOK(heap, before, stack, next)
  BY <1>5, <1>6, MovedOK
<1>8. QED
  BY <1>1, <1>7, GoOnAtStep

(* After ":" comes the value of the key.                                   *)
LEMMA ParseColonStep ==
    ASSUME ParserInv, Aside, NEW before, Checkpoint(before), parser.active,
           ParsingOK(heap, before, parser.stack, parser.at),
           NEW lexeme, ParseColon(lexeme)
    PROVE  StepOK(before)
<1>1. /\ parser.at = "colon"
      /\ GoOnAt("value", heap, parser.stack)
  BY DEF ParseColon
<1>2. \A k \in DOMAIN parser.stack :
         Keyed(heap, parser.stack, "value", k)
            => Keyed(heap, parser.stack, parser.at, k)
  BY <1>1 DEF Keyed
<1>3. "value" \in Places /\ PlaceOK(heap, parser.stack, "value")
  BY DEF Places, PlaceOK
<1>4. ParsingOK(heap, before, parser.stack, "value")
  BY <1>2, <1>3, MovedOK
<1>5. QED
  BY <1>1, <1>4, GoOnAtStep

-----------------------------------------------------------------------------
(* The end.                                                                *)

(* parse() returns the root.                                               *)
LEMMA ParseReturnStep ==
    ASSUME ParserInv, Aside, NEW before, Checkpoint(before), parser.active,
           ParsingOK(heap, before, parser.stack, parser.at),
           NEW lexeme, ParseReturn(lexeme)
    PROVE  StepOK(before)
<1>1. heap' = heap /\ parser' = Idle /\ result' = "Ok"
  BY DEF ParseReturn
<1>2. DocumentOK(heap') /\ Extends(heap', before)
  BY <1>1 DEF ParsingOK
<1>3. result' \in ErrorCodes \ {"InternalError"}
  BY <1>1 DEF ErrorCodes
<1>4. IInv' /\ StringsInv'
  BY <1>2, <1>3, AnsweredInv DEF ParserInv
<1>5. Idle \in Parsers /\ Idle.active = FALSE /\ Idle.stack = <<>>
  BY IdsBelowNil DEF Idle, Parsers, Places
<1>6. ParserInv'
  BY <1>1, <1>4, <1>5 DEF ParserInv
<1>7. QED
  BY <1>1, <1>2, <1>6 DEF StepOK

(* Whatever does not belong where it stands is refused.                    *)
LEMMA ParseRefuseStep ==
    ASSUME ParserInv, Aside, NEW before, Checkpoint(before), parser.active,
           ParsingOK(heap, before, parser.stack, parser.at),
           NEW lexeme, ParseRefuse(lexeme)
    PROVE  StepOK(before)
<1> DEFINE code == IF parser.at = "trailing" THEN "ParseTrailingCharacters"
                   ELSE IF lexeme.kind \in {"Space", "End"}
                   THEN "ParseUnexpectedEnd" ELSE "ParseUnexpectedToken"
<1>1. code \in ErrorCodes \ {"InternalError"} /\ Fail(code, heap)
  BY DEF ErrorCodes, ParseRefuse
<1>2. heap \in Heaps /\ Extends(heap, before)
  BY DEF ParsingOK, DocumentOK, HeapOK
<1> HIDE DEF code
<1>3. QED
  BY <1>1, <1>2, FailStep

(* Every lexeme.                                                           *)
LEMMA ParseStepOK ==
    ASSUME ParserInv, NEW lexeme \in Lexemes, ParseStep(lexeme)
    PROVE  \E before : Checkpoint(before) /\ Extends(heap, before)
                       /\ HeapOK(heap) /\ StepOK(before)
<1>1. parser.active /\ Aside
  BY DEF ParseStep, Aside
<1>2. PICK before : /\ Checkpoint(before)
                    /\ ParsingOK(heap, before, parser.stack, parser.at)
  BY <1>1 DEF ParserInv
<1>3. StepOK(before)
  BY <1>1, <1>2, ParseScalarStep, ParseStringStep, ParseOpenStep,
     ParseCloseStep, ParseKeyStep, ParseColonStep, ParseCommaStep,
     ParseReturnStep, ParseRefuseStep DEF ParseStep
<1>4. QED
  BY <1>2, <1>3 DEF ParsingOK, DocumentOK

(* parse() begins with what is there as the checkpoint.                    *)
LEMMA ParseBegins ==
    ASSUME ParserInv, NEW maxDepth \in MaxDepths, NEW trailing \in BOOLEAN,
           NEW overlaps, Parse(maxDepth, trailing, overlaps)
    PROVE  ParserInv' /\ heap' = heap
<1>1. /\ heap' = heap /\ Aside /\ ~parser.active
      /\ parser.stack = <<>> /\ parser \in Parsers
  BY DEF Parse, Aside, ParserInv
<1>2. HeapOK(heap) /\ DocumentOK(heap)
  BY IInvHeap DEF ParserInv, StringsInv, DocumentOK
<1>3. CASE result' = "InvalidArgument" /\ UNCHANGED parser
  <2>1. result' \in ErrorCodes \ {"InternalError"}
    BY <1>3 DEF ErrorCodes
  <2>2. IInv' /\ StringsInv'
    BY <1>1, <1>2, <2>1, AnsweredInv DEF ParserInv
  <2>3. QED
    BY <1>1, <1>3, <2>2 DEF ParserInv
<1>4. CASE /\ parser' = [Idle EXCEPT !.active = TRUE, !.maxDepth = maxDepth,
                                     !.trailing = trailing,
                                     !.start = [count |-> heap.count,
                                                bytes |-> heap.bytes]]
           /\ result' = "Ok"
  <2>1. result' \in ErrorCodes \ {"InternalError"}
    BY <1>4 DEF ErrorCodes
  <2>2. IInv' /\ StringsInv'
    BY <1>1, <1>2, <2>1, AnsweredInv DEF ParserInv
  <2>3. /\ parser' \in Parsers /\ parser'.active /\ parser'.stack = <<>>
        /\ parser'.at = "value" /\ parser'.start.count = heap.count
        /\ parser'.start.bytes = heap.bytes
    <3> DEFINE start == [count |-> heap.count, bytes |-> heap.bytes]
    <3>1. start \in [count : Nat, bytes : Nat] /\ maxDepth \in Nat
      BY <1>2, Counters, ParserAssumption
    <3>2. start.count = heap.count /\ start.bytes = heap.bytes
      OBVIOUS
    <3> HIDE DEF start
    <3>3. parser' = [active |-> TRUE, maxDepth |-> maxDepth,
                     trailing |-> trailing, stack |-> <<>>, at |-> "value",
                     root |-> Nil, start |-> start]
      BY <1>4 DEF Idle, start
    <3>4. <<>> \in Seq(Frames) /\ "value" \in Places /\ Nil \in Ids \cup {Nil}
      BY DEF Places
    <3>5. QED
      BY <3>1, <3>2, <3>3, <3>4 DEF Parsers
  <2>4. Extends(heap, heap)
    BY <1>2, SameIsKept DEF Kept
  <2>5. ParsingOK(heap, heap, <<>>, "value")
    BY <1>2, <2>4 DEF ParsingOK, OpenOK, PlaceOK, Places
  <2>6. \E before : before = heap
    OBVIOUS
  <2>7. PICK before : before = heap
    BY <2>6
  <2>8. /\ DocumentOK(before) /\ before.count = parser'.start.count
        /\ before.bytes = parser'.start.bytes
        /\ ParsingOK(heap', before, parser'.stack, parser'.at)
    BY <1>1, <1>2, <2>3, <2>5, <2>7
  <2>9. QED
    BY <1>1, <2>2, <2>3, <2>8 DEF ParserInv, Checkpoint
<1>5. QED
  BY <1>1, <1>3, <1>4 DEF Parse

(* The calls around it.                                                    *)
LEMMA ParserInvSafe ==
    ASSUME ParserInv, [ParserNext]_parserVars
    PROVE  ParserInv'
<1>1. CASE Client
  <2>1. IInv' /\ StringsInv'
    BY <1>1, NextSafe, StringsInvSafe DEF Client, ParserInv
  <2>2. QED
    BY <1>1, <2>1 DEF Client, ParserInv
<1>2. CASE UNCHANGED parserVars
  <2>1. UNCHANGED vars /\ UNCHANGED parser
    BY <1>2 DEF parserVars, vars
  <2>2. IInv' /\ StringsInv'
    BY <2>1, NextSafe, StringsInvSafe DEF ParserInv
  <2>3. UNCHANGED heap
    BY <2>1 DEF vars
  <2>4. ASSUME NEW before, Checkpoint(before),
               ParsingOK(heap, before, parser.stack, parser.at)
        PROVE  /\ Checkpoint(before)'
               /\ ParsingOK(heap', before, parser'.stack, parser'.at)
    BY <2>1, <2>3, <2>4 DEF Checkpoint
  <2>5. QED
    BY <2>1, <2>2, <2>4 DEF ParserInv
<1>3. ASSUME NEW maxDepth \in MaxDepths, NEW trailing \in BOOLEAN,
             NEW overlaps \in BOOLEAN, Parse(maxDepth, trailing, overlaps)
      PROVE  ParserInv'
  BY <1>3, ParseBegins
<1>4. ASSUME NEW lexeme \in Lexemes, ParseStep(lexeme) PROVE ParserInv'
  BY <1>4, ParseStepOK DEF StepOK
<1>5. QED
  BY <1>1, <1>2, <1>3, <1>4 DEF ParserNext, Rest

-----------------------------------------------------------------------------
(* ParserInv holds of the empty slab, when no parse has begun.              *)
LEMMA ParserInvInit == ParserInit => ParserInv
<1> SUFFICES ASSUME ParserInit PROVE ParserInv
  OBVIOUS
<1>1. IInv
  BY InitSafe DEF ParserInit
<1>2. StringsInv
  BY StringsInvInit DEF ParserInit
<1>3. parser \in Parsers /\ parser.active = FALSE /\ parser.stack = <<>>
  BY IdsBelowNil DEF ParserInit, Idle, Parsers, Places
<1>4. QED
  BY <1>1, <1>2, <1>3 DEF ParserInv

(* ParserInv holds in every state, before, in the middle of and after a    *)
(* parse.                                                                  *)
THEOREM ParserInvariant == ParserSpec => []ParserInv
<1>1. ParserInv /\ [ParserNext]_parserVars => ParserInv'
  BY ParserInvSafe
<1>2. QED
  BY <1>1, ParserInvInit, PTL DEF ParserSpec

(* After every lexeme of every text the storage is laid out, the links     *)
(* agree, every open container is a root of its own, and no key that waits *)
(* for its value shares a byte with any other string.                      *)
THEOREM ParsingIsSafe == ParserSpec => []ParsingSafe
<1>1. ASSUME ParserInv PROVE ParsingSafe
  <2>1. HeapOK(heap) /\ StringsOK(heap)
    BY <1>1, IInvHeap DEF ParserInv, StringsInv
  <2>2. ForestOK(heap) /\ LayoutOK(heap) /\ StringsDisjoint(heap)
    BY <2>1 DEF HeapOK, StringsOK
  <2>3. CASE ~parser.active
    <3>1. DOMAIN parser.stack = {} /\ Pending = {}
      BY <1>1, <2>3 DEF ParserInv, Pending
    <3>2. QED
      BY <2>2, <3>1 DEF ParsingSafe
  <2>4. CASE parser.active
    <3>1. PICK before : OpenOK(heap, before, parser.stack, parser.at)
      BY <1>1, <2>4 DEF ParserInv, ParsingOK
    <3>2. Pending \subseteq DOMAIN parser.stack
      BY DEF Pending
    <3>3. \A k \in DOMAIN parser.stack :
             /\ parser.stack[k].id \in Live(heap)
             /\ heap.type[parser.stack[k].id] \in Containers
             /\ heap.parent[parser.stack[k].id] = Nil
             /\ \A l \in DOMAIN parser.stack :
                   parser.stack[l].id = parser.stack[k].id => l = k
      BY <3>1 DEF OpenOK, Loose
    <3>4. \A k \in DOMAIN parser.stack :
             /\ RefOK(heap, parser.stack[k].key)
             /\ \A i \in Live(heap) :
                   /\ Disjoint(parser.stack[k].key, heap.key[i])
                   /\ Disjoint(parser.stack[k].key, heap.value[i])
             /\ \A l \in DOMAIN parser.stack : l # k =>
                   Disjoint(parser.stack[k].key, parser.stack[l].key)
      BY <3>1 DEF OpenOK, Waiting, Apart
    <3>5. QED
      BY <2>2, <3>2, <3>3, <3>4 DEF ParsingSafe
  <2>5. QED
    BY <2>3, <2>4
<1>2. QED
  BY <1>1, ParserInvariant, PTL

(* The text of every node is good in the middle of a parse, too: a node is *)
(* not given a reference before the bytes are there.                       *)
THEOREM ParsedTextCorrect == ParserSpec => []StoredTextOK
<1>1. ParserInv => StoredTextOK
  BY GoodStrings DEF ParserInv, IInv
<1>2. QED
  BY <1>1, ParserInvariant, PTL

(* parse() never returns ErrorCode::InternalError, and neither does any    *)
(* call on what it has made.                                               *)
THEOREM ParsingNoInternalError == ParserSpec => []NoInternalError
<1>1. ParserInv => NoInternalError
  BY DEF ParserInv, IInv
<1>2. QED
  BY <1>1, ParserInvariant, PTL

(* No lexeme touches a node or a text that was there before parse() was    *)
(* called, and a parse that fails gives back all it took.                  *)
THEOREM ParsingKeepsDocument == ParserSpec => ParseKeepsDocument
<1>1. ASSUME ParserInv, [ParserNext]_parserVars
      PROVE  [parser.active =>
                 /\ KeepsBefore(parser.start, heap, heap')
                 /\ ~parser'.active /\ result' # "Ok" =>
                       GivesBack(parser.start, heap')]_parserVars
  <2> SUFFICES ASSUME ParserNext, parser.active
               PROVE  /\ KeepsBefore(parser.start, heap, heap')
                      /\ ~parser'.active /\ result' # "Ok" =>
                            GivesBack(parser.start, heap')
    BY <1>1
  <2>1. \E lexeme \in Lexemes : ParseStep(lexeme)
    BY DEF ParserNext, Client, Rest, Parse
  <2>2. PICK before : /\ Checkpoint(before) /\ Extends(heap, before)
                      /\ HeapOK(heap) /\ StepOK(before)
    BY <1>1, <2>1, ParseStepOK
  <2>3. \A i \in 0 .. parser.start.count - 1 : i \in Live(before)
    BY <2>2, Counters, LiveIsPrefix DEF Checkpoint, DocumentOK
  <2>4. HeapOK(before) /\ Extends(heap', before)
    BY <2>2 DEF Checkpoint, DocumentOK, StepOK
  <2>5. KeepsBefore(parser.start, heap, heap')
    BY <2>2, <2>3, <2>4, ExtendedView DEF KeepsBefore
  <2>6. QED
    BY <2>2, <2>5 DEF StepOK
<1>2. QED
  BY <1>1, ParserInvariant, PTL DEF ParserSpec, ParseKeepsDocument

-----------------------------------------------------------------------------
(* Nesting.                                                                *)

(* How many containers there are from i up.                                *)
Nesting(h, i) == Cardinality({a \in Ancestors(h, i) : h.type[a] \in Containers})

(* There are as many as can be counted.                                    *)
LEMMA NestingCounts ==
    ASSUME NEW h, NEW i
    PROVE  /\ IsFiniteSet({a \in Ancestors(h, i) : h.type[a] \in Containers})
           /\ Nesting(h, i) \in Nat
<1>1. IsFiniteSet(Addresses)
  BY FS_Interval, SizesAssumption DEF Addresses
<1>2. {a \in Ancestors(h, i) : h.type[a] \in Containers} \in SUBSET Addresses
  BY ReachIds DEF Ancestors, Ids
<1>3. QED
  BY <1>1, <1>2, FS_Subset, FS_CardinalityType DEF Nesting

(* What is above a node stays, as long as no node above it is attached to  *)
(* another.                                                                *)
LEMMA SameAbove ==
    ASSUME NEW h, NEW g, NEW i,
           \A y \in Ancestors(h, i) : g.parent[y] = h.parent[y]
    PROVE  Ancestors(g, i) = Ancestors(h, i)
<1>1. Ancestors(h, i) \in SUBSET Ids /\ Ancestors(g, i) \in SUBSET Ids
  BY ReachIds DEF Ancestors
<1>2. i \in Ids => i \in Ancestors(h, i) /\ i \in Ancestors(g, i)
  BY ReachStart DEF Ancestors
<1>3. \A y \in Ancestors(h, i) :
         h.parent[y] \in Ids => h.parent[y] \in Ancestors(h, i)
  BY ReachStep DEF Ancestors
<1>4. \A y \in Ancestors(g, i) :
         g.parent[y] \in Ids => g.parent[y] \in Ancestors(g, i)
  BY ReachStep DEF Ancestors
<1>5. Reach(g.parent, i) \subseteq Ancestors(h, i)
  BY <1>1, <1>2, <1>3, ReachLeast
<1>6. \A y \in Ancestors(g, i) : g.parent[y] = h.parent[y]
  BY <1>5 DEF Ancestors
<1>7. Reach(h.parent, i) \subseteq Ancestors(g, i)
  BY <1>1, <1>2, <1>4, <1>6, ReachLeast
<1>8. QED
  BY <1>5, <1>7 DEF Ancestors

(* There is one root above a node, ...                                     *)
LEMMA OneRoot ==
    ASSUME NEW h, HeapOK(h), NEW i \in Live(h),
           NEW r \in Ancestors(h, i), h.parent[r] = Nil,
           NEW s \in Ancestors(h, i), h.parent[s] = Nil
    PROVE  r = s
<1> DEFINE S == {x \in Ancestors(h, i) : r \in Ancestors(h, x)}
<1>1. /\ Live(h) \subseteq Ids /\ Ancestors(h, i) \subseteq Live(h)
      /\ Nil \notin Ids
  BY LinksStayLive, AncestorsLive, IdsBelowNil
<1>2. i \in S
  BY <1>1, ReachStart DEF Ancestors
<1>3. ASSUME NEW x \in S, h.parent[x] \in Ids PROVE h.parent[x] \in S
  <2>1. x \in Ids /\ x \in Ancestors(h, i) /\ r \in Ancestors(h, x) /\ x # r
    BY <1>1, <1>3
  <2>2. r \in Ancestors(h, h.parent[x])
    BY <2>1, ReachUnfold DEF Ancestors
  <2>3. h.parent[x] \in Ancestors(h, i)
    BY <1>3, <2>1, ReachStep DEF Ancestors
  <2>4. QED
    BY <2>2, <2>3
<1>4. S \in SUBSET Ids
  BY <1>1
<1> HIDE DEF S
<1>5. Reach(h.parent, i) \subseteq S
  BY <1>2, <1>3, <1>4, ReachLeast
<1>6. r \in Ancestors(h, s) /\ s \in Live(h)
  BY <1>1, <1>5 DEF S, Ancestors
<1>7. QED
  BY <1>6, NothingAbove

(* ... and it is there.                                                    *)
LEMMA RootExists ==
    ASSUME NEW h, HeapOK(h), NEW i \in Live(h)
    PROVE  \E r \in Ancestors(h, i) : r \in Live(h) /\ h.parent[r] = Nil
<1>1. Live(h) \subseteq Ids /\ Ancestors(h, i) \subseteq Live(h)
  BY LinksStayLive, AncestorsLive
<1>2. i \in Ancestors(h, i)
  BY <1>1, ReachStart DEF Ancestors
<1>3. Ancestors(h, i) \in (SUBSET Live(h)) \ {{}}
  BY <1>1, <1>2
<1>4. PICK r \in Ancestors(h, i) : h.parent[r] \notin Ancestors(h, i)
  BY <1>3 DEF HeapOK, ForestOK, ParentAcyclic
<1>5. r \in Live(h) /\ h.parent[r] \notin Ids
  BY <1>1, <1>4, ReachStep DEF Ancestors
<1>6. QED
  BY <1>1, <1>5, LinksStayLive

(* Of the nodes from count on, which the parse has made: each is below an  *)
(* open container or in loose, and the more containers are open around it, *)
(* the fewer are within.                                                   *)
Nested(h, count, stack, loose, max) ==
    /\ Len(stack) <= max
    /\ \A i \in Live(h) : i >= count =>
          IF h.parent[i] = Nil
          THEN i \in loose \/ \E k \in DOMAIN stack : stack[k].id = i
          ELSE h.parent[i] >= count
    /\ \A k \in DOMAIN stack :
          \A i \in Below(h, stack[k].id) : Nesting(h, i) + k <= max + 1
    /\ \A r \in loose : \A i \in Below(h, r) : Nesting(h, i) + Len(stack) <= max

(* Links that stay keep it.                                                *)
LEMMA NestedKept ==
    ASSUME NEW h, HeapOK(h), NEW g, Live(g) = Live(h),
           \A i \in Live(h) : g.parent[i] = h.parent[i] /\ g.type[i] = h.type[i],
           NEW stack, NEW rest, Len(rest) = Len(stack),
           DOMAIN rest = DOMAIN stack,
           \A k \in DOMAIN stack : rest[k].id = stack[k].id,
           NEW count, NEW loose, NEW max, Nested(h, count, stack, loose, max)
    PROVE  Nested(g, count, rest, loose, max)
<1>1. \A i \in Live(h) : Ancestors(h, i) \subseteq Live(h)
  BY AncestorsLive
<1>2. \A i \in Live(h) : Ancestors(g, i) = Ancestors(h, i)
  BY <1>1, SameAbove
<1>3. \A i \in Live(h) :
         {a \in Ancestors(g, i) : g.type[a] \in Containers}
            = {a \in Ancestors(h, i) : h.type[a] \in Containers}
  BY <1>1, <1>2
<1>4. \A i \in Live(h) : Nesting(g, i) = Nesting(h, i)
  BY <1>3 DEF Nesting
<1>5. \A x : Below(g, x) = Below(h, x)
  BY <1>2 DEF Below
<1>6. \A x : Below(h, x) \subseteq Live(h)
  BY DEF Below
<1>7. QED
  BY <1>4, <1>5, <1>6 DEF Nested

(* A new node stands for itself, ...                                       *)
LEMMA NestedGrown ==
    ASSUME NEW h, HeapOK(h), NEW g, HeapOK(g), NEW type, Grown(g, h, type),
           NEW stack \in Seq(Frames), \A k \in DOMAIN stack : stack[k].id \in Live(h),
           NEW count \in Nat, NEW max \in Nat,
           Nested(h, count, stack, {}, max),
           type \in Containers => Len(stack) < max
    PROVE  Nested(g, count, stack, {h.count}, max)
<1> DEFINE new == h.count
<1>1. /\ Live(g) = Live(h) \cup {new} /\ new \notin Live(h)
      /\ Live(g) \subseteq Ids /\ Nil \notin Ids
      /\ g.type[new] = type /\ g.parent[new] = Nil
  BY GrownLive, LinksStayLive, IdsBelowNil DEF Grown
<1>2. \A i \in Live(h) : g.parent[i] = h.parent[i] /\ g.type[i] = h.type[i]
  BY DEF Grown, Extends, SameNodes
<1>3. \A i \in Live(h) : Ancestors(h, i) \subseteq Live(h)
  BY AncestorsLive
<1>4. \A i \in Live(h) : Ancestors(g, i) = Ancestors(h, i)
  BY <1>2, <1>3, SameAbove
<1>5. \A i \in Live(h) :
         {a \in Ancestors(g, i) : g.type[a] \in Containers}
            = {a \in Ancestors(h, i) : h.type[a] \in Containers}
  BY <1>2, <1>3, <1>4
<1>6. \A i \in Live(h) : Nesting(g, i) = Nesting(h, i)
  BY <1>5 DEF Nesting
<1>7. Ancestors(g, new) \subseteq {new} /\ new \in Live(g)
  BY <1>1, NothingAbove
<1> HIDE DEF new
<1>8. \A x \in Live(h) : Below(g, x) = Below(h, x)
  BY <1>1, <1>4, <1>7 DEF Below
<1>9. \A i \in Below(g, new) : i = new
  BY <1>1, <1>3, <1>4 DEF Below
<1>10. Nesting(g, new) + Len(stack) <= max
  <2> DEFINE C == {a \in Ancestors(g, new) : g.type[a] \in Containers}
  <2>1. Len(stack) \in Nat /\ Len(stack) <= max
    BY DEF Nested
  <2>2. CASE type \in Containers
    <3>1. C \subseteq {new}
      BY <1>7
    <3>2. Cardinality(C) <= Cardinality({new}) /\ Cardinality({new}) = 1
      BY <3>1, FS_Singleton, FS_Subset
    <3>3. Nesting(g, new) <= 1
      BY <3>2 DEF Nesting
    <3>4. Nesting(g, new) \in Nat
      BY NestingCounts
    <3>5. QED
      BY <2>1, <2>2, <3>3, <3>4
  <2>3. CASE type \notin Containers
    <3>1. C = {}
      BY <1>1, <1>7, <2>3
    <3>2. Nesting(g, new) = 0
      BY <3>1, FS_EmptySet DEF Nesting
    <3>3. QED
      BY <2>1, <3>2
  <2>4. QED
    BY <2>2, <2>3
<1>11. \A i \in Live(g) : i >= count =>
          IF g.parent[i] = Nil
          THEN i \in {new} \/ \E k \in DOMAIN stack : stack[k].id = i
          ELSE g.parent[i] >= count
  BY <1>1, <1>2 DEF Nested
<1>12. \A k \in DOMAIN stack :
          \A i \in Below(g, stack[k].id) : Nesting(g, i) + k <= max + 1
  <2>1. \A k \in DOMAIN stack : Below(h, stack[k].id) \subseteq Live(h)
    BY DEF Below
  <2>2. QED
    BY <1>6, <1>8, <2>1 DEF Nested
<1>13. QED
  BY <1>9, <1>10, <1>11, <1>12 DEF Nested, new

(* ... and, if it is a container, is opened.                                *)
LEMMA NestedOpened ==
    ASSUME NEW h, NEW stack \in Seq(Frames), NEW id \in Ids,
           NEW count, NEW max \in Nat, Len(stack) < max,
           Nested(h, count, stack, {id}, max)
    PROVE  Nested(h, count, Append(stack, OpenFrame(id)), {}, max)
<1> DEFINE frame == OpenFrame(id)
           longer == Append(stack, frame)
           n == Len(longer)
<1>1. frame \in Frames /\ frame.id = id
  BY NoRefTyped DEF OpenFrame, Frames
<1> HIDE DEF frame
<1>2. /\ n = Len(stack) + 1 /\ Len(stack) \in Nat
      /\ DOMAIN longer = DOMAIN stack \cup {n} /\ longer[n] = frame
      /\ \A k \in DOMAIN stack : longer[k] = stack[k]
  BY <1>1, Pushed
<1> HIDE DEF longer
<1>3. n <= max
  BY <1>2
<1>4. \A i \in Below(h, id) : Nesting(h, i) + n <= max + 1
  <2> SUFFICES ASSUME NEW i \in Below(h, id)
               PROVE  Nesting(h, i) + n <= max + 1
    OBVIOUS
  <2>1. Nesting(h, i) \in Nat
    BY NestingCounts
  <2>2. Nesting(h, i) + Len(stack) <= max
    BY DEF Nested
  <2>3. QED
    BY <1>2, <2>1, <2>2
<1>5. \A k \in DOMAIN longer :
         \A i \in Below(h, longer[k].id) : Nesting(h, i) + k <= max + 1
  BY <1>1, <1>2, <1>4 DEF Nested
<1>6. \A i : i \in {id} \/ (\E k \in DOMAIN stack : stack[k].id = i)
                => \E k \in DOMAIN longer : longer[k].id = i
  BY <1>1, <1>2
<1>7. QED
  BY <1>3, <1>5, <1>6 DEF Nested, longer, frame

(* The innermost container is closed.                                      *)
LEMMA NestedClosed ==
    ASSUME NEW h, NEW stack \in Seq(Frames), stack # <<>>,
           NEW count, NEW max \in Nat,
           Nested(h, count, stack, {}, max)
    PROVE  LET n == Len(stack)
           IN Nested(h, count, SubSeq(stack, 1, n - 1), {stack[n].id}, max)
<1> DEFINE n == Len(stack)
           rest == SubSeq(stack, 1, n - 1)
<1>1. n \in Nat /\ n >= 1 /\ n \in DOMAIN stack /\ DOMAIN stack = 1 .. n
  OBVIOUS
<1>2. Len(rest) = n - 1 /\ DOMAIN rest = 1 .. n - 1
  BY <1>1
<1>3. \A k \in 1 .. n - 1 : k \in DOMAIN stack /\ rest[k] = stack[k]
  BY <1>1
<1> HIDE DEF rest
<1>4. \A k \in DOMAIN stack : k = n \/ k \in 1 .. n - 1
  BY <1>1
<1> HIDE DEF n
<1>5. n <= max
  BY DEF Nested, n
<1>6. \A i \in Below(h, stack[n].id) : Nesting(h, i) + Len(rest) <= max
  <2> SUFFICES ASSUME NEW i \in Below(h, stack[n].id)
               PROVE  Nesting(h, i) + Len(rest) <= max
    OBVIOUS
  <2>1. Nesting(h, i) \in Nat
    BY NestingCounts
  <2>2. Nesting(h, i) + n <= max + 1
    BY <1>1 DEF Nested
  <2>3. QED
    BY <1>1, <1>2, <2>1, <2>2
<1>7. Len(rest) <= max
  BY <1>1, <1>2, <1>5
<1>8. \A i : (\E k \in DOMAIN stack : stack[k].id = i)
                => i \in {stack[n].id} \/ \E k \in DOMAIN rest : rest[k].id = i
  BY <1>2, <1>3, <1>4
<1>9. QED
  BY <1>2, <1>3, <1>6, <1>7, <1>8 DEF Nested, rest, n

(* The open containers are roots, each another, and were made by the parse. *)
OpenRoots(h, count, stack) ==
    /\ stack \in Seq(Frames)
    /\ \A k \in DOMAIN stack :
          /\ stack[k].id \in Live(h) /\ h.parent[stack[k].id] = Nil
          /\ stack[k].id >= count
          /\ \A l \in DOMAIN stack : l # k => stack[l].id # stack[k].id

SameContainers(rest, stack) ==
    /\ Len(rest) = Len(stack) /\ DOMAIN rest = DOMAIN stack
    /\ \A k \in DOMAIN stack : rest[k].id = stack[k].id

(* What is new about what is above whom when id becomes a child of p.      *)
ChildOf(g, h, p, id) ==
    /\ Live(g) = Live(h) /\ g.type = h.type
    /\ \A i \in Ids : g.parent[i] = IF i = id THEN p ELSE h.parent[i]

(* A tree that is complete goes into the innermost open container: it is   *)
(* nested one deeper, and one container fewer is around its container.     *)
LEMMA NestedJoined ==
    ASSUME NEW h, HeapOK(h), NEW count \in Nat, NEW max \in Nat,
           NEW stack, OpenRoots(h, count, stack), stack # <<>>,
           NEW rest, SameContainers(rest, stack),
           NEW id \in Live(h), h.parent[id] = Nil,
           \A k \in DOMAIN stack : stack[k].id # id,
           NEW g, ChildOf(g, h, stack[Len(stack)].id, id),
           Nested(h, count, stack, {id}, max)
    PROVE  Nested(g, count, rest, {}, max)
<1> DEFINE n == Len(stack)
           p == stack[n].id
<1>0. stack \in Seq(Frames)
  BY DEF OpenRoots
<1>1. /\ n \in Nat /\ n \in DOMAIN stack
      /\ Live(h) \subseteq Ids /\ Nil \notin Ids
  BY <1>0, LinksStayLive, IdsBelowNil
<1>2. p \in Live(h) /\ h.parent[p] = Nil /\ p # id
  BY <1>1 DEF OpenRoots
<1>o. /\ \A k \in DOMAIN stack :
            /\ stack[k].id \in Live(h) /\ h.parent[stack[k].id] = Nil
            /\ stack[k].id >= count
            /\ \A l \in DOMAIN stack : l # k => stack[l].id # stack[k].id
  BY DEF OpenRoots
<1>p. /\ Live(g) = Live(h) /\ g.type = h.type
      /\ \A i \in Ids : g.parent[i] = IF i = id THEN p ELSE h.parent[i]
  BY DEF ChildOf
<1>r. /\ Len(rest) = Len(stack) /\ DOMAIN rest = DOMAIN stack
      /\ \A k \in DOMAIN stack : rest[k].id = stack[k].id
  BY DEF SameContainers
<1>3. Ancestors(h, p) \subseteq {p}
  BY <1>2, NothingAbove
<1>4. \A i \in Live(h) : Ancestors(h, i) \subseteq Live(h)
  BY AncestorsLive
<1>m. \A k \in DOMAIN stack : k \in Nat /\ k <= n
  BY <1>0
<1> HIDE DEF n, p
<1>5. ASSUME NEW i \in Live(h), id \notin Ancestors(h, i)
      PROVE  Ancestors(g, i) = Ancestors(h, i) /\ Nesting(g, i) = Nesting(h, i)
  <2>1. \A y \in Ancestors(h, i) : g.parent[y] = h.parent[y]
    BY <1>1, <1>4, <1>5, <1>p
  <2>2. Ancestors(g, i) = Ancestors(h, i)
    BY <2>1, SameAbove
  <2>3. QED
    BY <1>p, <2>2 DEF Nesting
<1>6. ASSUME NEW i \in Live(h), id \in Ancestors(h, i)
      PROVE  /\ Ancestors(g, i) \subseteq Ancestors(h, i) \cup {p}
             /\ Nesting(g, i) <= Nesting(h, i) + 1
  <2> DEFINE S == Ancestors(h, i) \cup {p}
             A == {a \in Ancestors(g, i) : g.type[a] \in Containers}
             B == {a \in Ancestors(h, i) : h.type[a] \in Containers}
  <2>1. i \in S /\ S \in SUBSET Ids
    BY <1>1, <1>2, <1>4, ReachStart DEF Ancestors
  <2>2. ASSUME NEW y \in S, g.parent[y] \in Ids PROVE g.parent[y] \in S
    <3>1. y \in Ids /\ h.parent[p] \notin Ids
      BY <1>1, <1>2, <2>1
    <3>2. CASE y = id
      BY <3>1, <3>2, <1>p
    <3>3. CASE y # id
      <4>1. g.parent[y] = h.parent[y] /\ y # p
        BY <2>2, <3>1, <3>3, <1>p
      <4>2. QED
        BY <2>2, <4>1, ReachStep DEF Ancestors
    <3>4. QED
      BY <3>2, <3>3
  <2> HIDE DEF S
  <2>3. Reach(g.parent, i) \subseteq S
    BY <2>1, <2>2, ReachLeast
  <2>4. Ancestors(g, i) \subseteq Ancestors(h, i) \cup {p}
    BY <2>3 DEF S, Ancestors
  <2>5. A \subseteq B \cup {p}
    BY <2>4, <1>p
  <2>6. IsFiniteSet(B) /\ Cardinality(B) \in Nat
    BY NestingCounts DEF Nesting
  <2> HIDE DEF A, B
  <2>7. IsFiniteSet(B \cup {p}) /\ Cardinality(B \cup {p}) <= Cardinality(B) + 1
    <3>1. /\ IsFiniteSet(B \cup {p})
          /\ Cardinality(B \cup {p})
                = IF p \in B THEN Cardinality(B) ELSE Cardinality(B) + 1
      BY <2>6, FS_AddElement
    <3>2. QED
      BY <2>6, <3>1
  <2>8. Cardinality(A) <= Cardinality(B \cup {p})
    BY <2>5, <2>7, FS_Subset
  <2>9. Cardinality(A) \in Nat /\ Cardinality(B \cup {p}) \in Nat
    BY <2>5, <2>7, FS_Subset, FS_CardinalityType
  <2>10. Cardinality(A) <= Cardinality(B) + 1
    BY <2>6, <2>7, <2>8, <2>9
  <2>11. QED
    BY <2>4, <2>10 DEF A, B, Nesting
<1>7. ASSUME NEW k \in DOMAIN stack, NEW i \in Below(g, stack[k].id)
      PROVE  Nesting(g, i) + k <= max + 1
  <2>1. i \in Live(h) /\ stack[k].id \in Ancestors(g, i)
    BY <1>7, <1>p DEF Below
  <2>2. CASE id \notin Ancestors(h, i)
    <3>1. i \in Below(h, stack[k].id) /\ Nesting(g, i) = Nesting(h, i)
      BY <1>5, <2>1, <2>2 DEF Below
    <3>2. QED
      BY <3>1 DEF Nested
  <2>3. CASE id \in Ancestors(h, i)
    <3>1. stack[k].id = p
      <4>1. stack[k].id \notin Ancestors(h, i)
        BY <2>1, <2>3, <1>o, OneRoot
      <4>2. QED
        BY <1>6, <2>1, <2>3, <4>1
    <3>2. k = n
      BY <1>1, <1>o, <3>1 DEF p
    <3>3. Nesting(h, i) + n <= max
      BY <2>1, <2>3 DEF Nested, Below, n
    <3>4. Nesting(g, i) <= Nesting(h, i) + 1
      BY <1>6, <2>1, <2>3
    <3>5. Nesting(h, i) \in Nat /\ Nesting(g, i) \in Nat
      BY NestingCounts
    <3>6. QED
      BY <1>1, <3>2, <3>3, <3>4, <3>5
  <2>4. QED
    BY <2>2, <2>3
<1>8. ASSUME NEW i \in Live(g), i >= count
      PROVE  IF g.parent[i] = Nil
             THEN i \in {} \/ \E k \in DOMAIN rest : rest[k].id = i
             ELSE g.parent[i] >= count
  <2>1. i \in Live(h) /\ i \in Ids
    BY <1>1, <1>p
  <2>2. CASE i = id
    BY <1>1, <1>2, <1>o, <1>p, <2>1, <2>2 DEF p
  <2>3. CASE i # id
    BY <1>8, <1>p, <1>r, <2>1, <2>3 DEF Nested
  <2>4. QED
    BY <2>2, <2>3
<1>9. QED
  BY <1>7, <1>8, <1>r DEF Nested

-----------------------------------------------------------------------------
(* The parser keeps within the depth it was given.                         *)

(* The node that is done, once the parser looks for the end of the text.   *)
Done(p) == IF p.at = "trailing" THEN {p.root} ELSE {}

NestInv ==
    parser.active =>
        /\ Nested(heap, parser.start.count, parser.stack, Done(parser),
                  parser.maxDepth)
        /\ parser.at = "trailing" =>
              /\ parser.stack = <<>>
              /\ parser.root \in Live(heap) /\ parser.root >= parser.start.count
              /\ heap.parent[parser.root] = Nil

(* What the parse has made comes after the checkpoint.                     *)
LEMMA LooseIsNew ==
    ASSUME NEW before, Checkpoint(before), NEW h, HeapOK(h), NEW id,
           Loose(h, before, id)
    PROVE  /\ id \in Live(h) /\ h.parent[id] = Nil /\ id \in Ids
           /\ id >= parser.start.count /\ parser.start.count \in Nat
<1>1. HeapOK(before) /\ before.count = parser.start.count
  BY DEF Checkpoint, DocumentOK
<1>2. id \in Ids /\ id \in Nat /\ before.count \in Nat
  BY <1>1, LinksStayLive, IdsBelowNil, Counters DEF Loose
<1>3. ~(id < before.count)
  BY <1>2 DEF Loose, Live
<1>4. QED
  BY <1>1, <1>2, <1>3 DEF Loose

(* The stack of a state the invariant allows.                              *)
LEMMA StackIsNew ==
    ASSUME NEW before, Checkpoint(before), NEW h, NEW stack, NEW at,
           ParsingOK(h, before, stack, at)
    PROVE  HeapOK(h) /\ OpenRoots(h, parser.start.count, stack)
BY LooseIsNew DEF ParsingOK, DocumentOK, OpenOK, OpenRoots

(* Going on somewhere in the text.                                         *)
LEMMA GoOnNested ==
    ASSUME ParserInv, NEW at, at # "trailing", NEW h, NEW stack,
           GoOnAt(at, h, stack),
           Nested(h, parser.start.count, stack, {}, parser.maxDepth)
    PROVE  NestInv'
<1>1. heap' = h
      /\ parser' = [parser EXCEPT !.at = at, !.stack = stack]
  BY DEF GoOnAt
<1>2. /\ parser'.at = at /\ parser'.stack = stack
      /\ parser'.start = parser.start /\ parser'.maxDepth = parser.maxDepth
  BY <1>1 DEF ParserInv, Parsers
<1>3. Done(parser') = {}
  BY <1>2 DEF Done
<1>4. QED
  BY <1>1, <1>2, <1>3 DEF NestInv

(* Delivering a value.                                                     *)
LEMMA DeliverNested ==
    ASSUME ParserInv, NEW before, Checkpoint(before),
           NEW h, NEW stack, ParsingOK(h, before, stack, "value"),
           NEW id, Loose(h, before, id),
           \A k \in DOMAIN stack : stack[k].id # id, Deliver(id, h, stack),
           Nested(h, parser.start.count, stack, {id}, parser.maxDepth)
    PROVE  NestInv'
<1>1. /\ stack \in Seq(Frames) /\ HeapOK(h) /\ DocumentOK(h)
      /\ OpenOK(h, before, stack, "value")
      /\ OpenRoots(h, parser.start.count, stack)
  BY StackIsNew DEF ParsingOK
<1>2. /\ id \in Live(h) /\ h.parent[id] = Nil /\ id \in Ids
      /\ id >= parser.start.count /\ parser.start.count \in Nat
      /\ parser.maxDepth \in Nat
  BY <1>1, LooseIsNew DEF ParserInv, Parsers
<1>3. CASE stack = <<>>
  <2>1. heap' = h
        /\ parser' = [parser EXCEPT !.at = "trailing", !.stack = stack,
                                    !.root = id]
    BY <1>3 DEF Deliver
  <2>2. /\ parser'.at = "trailing" /\ parser'.stack = <<>>
        /\ parser'.root = id /\ parser'.start = parser.start
        /\ parser'.maxDepth = parser.maxDepth
    BY <1>3, <2>1 DEF ParserInv, Parsers
  <2>3. Done(parser') = {id}
    BY <2>2 DEF Done
  <2>4. QED
    BY <1>2, <1>3, <2>1, <2>2, <2>3 DEF NestInv
<1>4. CASE stack # <<>>
  <2> DEFINE top == stack[Len(stack)]
             keyed == IF h.type[top.id] = "Object"
                      THEN SetKey(h, id, top.key, top.flags) ELSE h
             g == AppendChild(keyed, top.id, id)
             rest == [stack EXCEPT ![Len(stack)].key = NoRef]
  <2>1. /\ Len(stack) \in DOMAIN stack /\ Len(rest) = Len(stack)
        /\ DOMAIN rest = DOMAIN stack
        /\ \A k \in DOMAIN stack : rest[k].id = stack[k].id
    BY <1>1, <1>4, TopFrame
  <2>2. GoOnAt("next", g, rest)
    BY <1>4 DEF Deliver, Seqs!Last
  <2>3. top.id \in Ids /\ keyed \in Heaps /\ Live(keyed) = Live(h)
        /\ keyed.parent = h.parent /\ keyed.type = h.type
    <3>1. top.id \in Ids /\ top \in Frames /\ h \in Heaps
      BY <1>1, <2>1, LinksStayLive DEF HeapOK, OpenRoots
    <3>2. top.key \in StringRefs /\ top.flags \in BOOLEAN
          /\ RefOK(h, top.key)
      BY <1>1, <2>1, <3>1 DEF OpenOK, Waiting, Frames
    <3>3. HeapOK(SetKey(h, id, top.key, top.flags))
      BY <1>1, <1>2, <3>2, SetKeyKeepsForest
    <3>4. QED
      BY <3>1, <3>3 DEF HeapOK, SetKey, Live
  <2> HIDE DEF keyed, rest
  <2>4. Appended(g, keyed, top.id, id)
    BY <1>2, <2>3, AppendFields
  <2>5. /\ Live(g) = Live(h) /\ g.type = h.type
        /\ \A i \in Ids : g.parent[i] = IF i = id THEN top.id ELSE h.parent[i]
    BY <2>3, <2>4 DEF Appended, Live
  <2> HIDE DEF g
  <2>6. SameContainers(rest, stack) /\ ChildOf(g, h, stack[Len(stack)].id, id)
    BY <2>1, <2>5 DEF SameContainers, ChildOf
  <2>7. Nested(g, parser.start.count, rest, {}, parser.maxDepth)
    BY <1>1, <1>2, <1>4, <2>6, NestedJoined
  <2>8. QED
    BY <2>2, <2>7, GoOnNested
<1>5. QED
  BY <1>3, <1>4

(* Where a value may come nothing is done yet.                             *)
LEMMA NestedAt ==
    ASSUME NestInv, parser.active, parser.at # "trailing"
    PROVE  Nested(heap, parser.start.count, parser.stack, {}, parser.maxDepth)
BY DEF NestInv, Done

(* A parse that fails leaves nothing open.                                 *)
LEMMA FailedIsOver ==
    ASSUME NEW code, NEW h, Fail(code, h)
    PROVE  NestInv'
<1>1. ~parser'.active
  BY DEF Fail, Idle
<1>2. QED
  BY <1>1 DEF NestInv

(* The node that a lexeme adds, not too deep.                              *)
LEMMA AddedIsNested ==
    ASSUME ParserInv, NestInv, parser.active, NEW before, Checkpoint(before),
           ParsingOK(heap, before, parser.stack, "value"),
           parser.at # "trailing",
           NEW g, NEW type, Added(g, heap, type),
           type \in Containers => Len(parser.stack) < parser.maxDepth
    PROVE  Nested(g, parser.start.count, parser.stack, {heap.count},
                  parser.maxDepth)
<1>1. HeapOK(heap) /\ OpenRoots(heap, parser.start.count, parser.stack)
  BY StackIsNew
<1>2. Nested(heap, parser.start.count, parser.stack, {}, parser.maxDepth)
  BY NestedAt
<1>3. parser.start.count \in Nat /\ parser.maxDepth \in Nat
  BY DEF ParserInv, Parsers
<1>4. HeapOK(g) /\ Grown(g, heap, type)
  BY DEF Added, DocumentOK
<1>5. QED
  BY <1>1, <1>2, <1>3, <1>4, NestedGrown DEF OpenRoots

(* A value that has been added goes where values go.                       *)
LEMMA ValueNested ==
    ASSUME ParserInv, NestInv, parser.active, NEW before, Checkpoint(before),
           ParsingOK(heap, before, parser.stack, parser.at),
           parser.at \in {"value", "element"},
           NEW g, NEW type, type \notin Containers, Added(g, heap, type),
           Deliver(heap.count, g, parser.stack)
    PROVE  NestInv'
<1>1. HeapOK(before)
  BY DEF DocumentOK, Checkpoint
<1>2. ParsingOK(heap, before, parser.stack, "value")
  BY ValuePlace
<1>3. /\ ParsingOK(g, before, parser.stack, "value")
      /\ Loose(g, before, heap.count)
      /\ \A k \in DOMAIN parser.stack : parser.stack[k].id # heap.count
  BY <1>1, <1>2, GrownOK DEF Added
<1>4. Nested(g, parser.start.count, parser.stack, {heap.count},
             parser.maxDepth)
  BY <1>2, AddedIsNested
<1>5. QED
  BY <1>3, <1>4, DeliverNested

(* parse_null(), parse_bool(), parse_number().                             *)
LEMMA ScalarNested ==
    ASSUME ParserInv, NestInv, parser.active, NEW before, Checkpoint(before),
           ParsingOK(heap, before, parser.stack, parser.at),
           NEW lexeme, ParseScalar(lexeme)
    PROVE  NestInv'
<1> DEFINE item == [type |-> lexeme.kind, text |-> <<>>, finite |-> TRUE]
           made == Make(heap, item)
<1>1. DocumentOK(heap) /\ lexeme.kind \in Scalars
      /\ parser.at \in {"value", "element"}
  BY DEF ParsingOK, ParseScalar, AtValue
<1>2. made.code = "Ok" => Added(made.heap, heap, lexeme.kind)
  BY <1>1, ScalarMade
<1>3. lexeme.kind \notin Containers
  BY <1>1 DEF Scalars, Containers
<1> HIDE DEF made
<1>4. CASE made.code = "Ok" /\ Deliver(heap.count, made.heap, parser.stack)
  BY <1>1, <1>2, <1>3, <1>4, ValueNested
<1>5. QED
  BY <1>4, FailedIsOver DEF ParseScalar, made

(* parse_string() for a value.                                             *)
LEMMA StringNested ==
    ASSUME ParserInv, NestInv, parser.active, NEW before, Checkpoint(before),
           ParsingOK(heap, before, parser.stack, parser.at),
           NEW lexeme \in Lexemes, ParseString(lexeme)
    PROVE  NestInv'
<1> DEFINE id == heap.count
           text == lexeme.text
           node == AllocateNode(heap, "String")
           parsed == ParseText(node, lexeme)
           g == [parsed.heap EXCEPT !.value[id] = NextRef(node, Len(text)),
                                    !.valueFlags[id] = NeedsEscape(text)]
<1>1. DocumentOK(heap) /\ lexeme.kind = "String"
      /\ parser.at \in {"value", "element"}
  BY DEF ParsingOK, ParseString, AtValue
<1>2. parsed.code = "Ok" =>
         /\ HasRoom(node, text) /\ WellFormed(text)
         /\ parsed.heap = CopyString(node, text)
  BY <1>1, ParsedText
<1>3. CASE /\ AllocateNodeError(heap) = "Ok" /\ parsed.code = "Ok"
           /\ Deliver(id, g, parser.stack)
  <2>1. CanAllocateNode(heap)
    BY <1>3 DEF AllocateNodeError
  <2>2. Added(g, heap, "String")
    BY <1>1, <1>2, <1>3, <2>1, StringMade
  <2>3. "String" \notin Containers
    BY DEF Containers
  <2> HIDE DEF g
  <2>4. QED
    BY <1>1, <1>3, <2>2, <2>3, ValueNested
<1>4. QED
  BY <1>3, FailedIsOver DEF ParseString

(* parse_array() and parse_object() up to what they hold: one deeper only  *)
(* where there is depth left.                                              *)
LEMMA OpenNested ==
    ASSUME ParserInv, NestInv, parser.active, NEW before, Checkpoint(before),
           ParsingOK(heap, before, parser.stack, parser.at),
           NEW lexeme, ParseOpen(lexeme)
    PROVE  NestInv'
<1> DEFINE type == OpenedType(lexeme)
           at == IF type = "Array" THEN "element" ELSE "member"
           made == Make(heap, [type |-> type])
           longer == Append(parser.stack, OpenFrame(heap.count))
<1>1. DocumentOK(heap) /\ parser.at \in {"value", "element"}
      /\ parser.stack \in Seq(Frames) /\ parser.maxDepth \in Nat
  BY DEF ParsingOK, ParseOpen, AtValue, ParserInv, Parsers
<1>2. made.code = "Ok" => Added(made.heap, heap, type)
  BY <1>1, OpeningMade
<1> HIDE DEF made
<1>3. CASE /\ ~TooDeep /\ made.code = "Ok"
           /\ GoOnAt(at, made.heap, longer)
  <2>1. ParsingOK(heap, before, parser.stack, "value")
    BY <1>1, ValuePlace
  <2>2. Len(parser.stack) < parser.maxDepth
    BY <1>1, <1>3 DEF TooDeep
  <2>3. Nested(made.heap, parser.start.count, parser.stack, {heap.count},
               parser.maxDepth)
    BY <1>1, <1>2, <1>3, <2>1, <2>2, AddedIsNested
  <2>4. heap.count \in Ids
    BY <1>2, <1>3 DEF Added, Grown
  <2>5. Nested(made.heap, parser.start.count, longer, {}, parser.maxDepth)
    BY <1>1, <2>2, <2>3, <2>4, NestedOpened
  <2>6. at # "trailing"
    OBVIOUS
  <2> HIDE DEF at, longer
  <2>7. QED
    BY <1>3, <2>5, <2>6, GoOnNested
<1>4. QED
  BY <1>3, FailedIsOver DEF ParseOpen, OpenedType, made

(* The end of parse_array() and parse_object().                            *)
LEMMA CloseNested ==
    ASSUME ParserInv, NestInv, parser.active, NEW before, Checkpoint(before),
           ParsingOK(heap, before, parser.stack, parser.at),
           NEW lexeme, ParseClose(lexeme)
    PROVE  NestInv'
<1> DEFINE stack == parser.stack
           n == Len(stack)
           rest == SubSeq(stack, 1, n - 1)
           id == stack[n].id
<1>1. /\ stack # <<>> /\ parser.at # "trailing" /\ stack \in Seq(Frames)
      /\ parser.maxDepth \in Nat
  BY DEF ParsingOK, PlaceOK, ParseClose, ParserInv, Parsers
<1>2. /\ Deliver(id, heap, rest) /\ Loose(heap, before, id)
      /\ \A k \in DOMAIN rest : rest[k].id # id
      /\ ParsingOK(heap, before, rest, "value")
  BY ClosedOK
<1>3. Nested(heap, parser.start.count, stack, {}, parser.maxDepth)
  BY <1>1, NestedAt
<1>4. Nested(heap, parser.start.count, rest, {id}, parser.maxDepth)
  BY <1>1, <1>3, NestedClosed
<1> HIDE DEF rest, id
<1>5. QED
  BY <1>2, <1>4, DeliverNested

(* parse_string() for a key: no node is added.                             *)
LEMMA KeyNested ==
    ASSUME ParserInv, NestInv, parser.active, NEW before, Checkpoint(before),
           ParsingOK(heap, before, parser.stack, parser.at),
           NEW lexeme \in Lexemes, ParseKey(lexeme)
    PROVE  NestInv'
<1> DEFINE text == lexeme.text
           parsed == ParseText(heap, lexeme)
           g == CopyString(heap, text)
           stack == parser.stack
           n == Len(stack)
           rest == [stack EXCEPT ![n].key = NextRef(heap, Len(text)),
                                 ![n].flags = NeedsEscape(text)]
<1>1. /\ HeapOK(heap) /\ stack \in Seq(Frames) /\ stack # <<>>
      /\ lexeme.kind = "String" /\ parser.at \in {"member", "key"}
  BY DEF ParsingOK, DocumentOK, PlaceOK, ParseKey
<1>2. parsed.code = "Ok" =>
         /\ HasRoom(heap, text) /\ WellFormed(text) /\ parsed.heap = g
  BY <1>1, ParsedText
<1>3. Nested(heap, parser.start.count, stack, {}, parser.maxDepth)
  BY <1>1, NestedAt
<1>4. /\ Live(g) = Live(heap)
      /\ \A i \in Live(heap) : g.parent[i] = heap.parent[i]
                               /\ g.type[i] = heap.type[i]
  BY DEF CopyString, Live
<1> HIDE DEF parsed, g
<1>5. CASE parsed.code = "Ok" /\ GoOnAt("colon", parsed.heap, rest)
  <2>1. NextRef(heap, Len(text)) \in StringRefs /\ NeedsEscape(text) \in BOOLEAN
    BY <1>1, <1>2, <1>5, NextRefFits DEF HasRoom, NeedsEscape
  <2>2. /\ Len(rest) = Len(stack) /\ DOMAIN rest = DOMAIN stack
        /\ \A k \in DOMAIN stack : rest[k].id = stack[k].id
    BY <1>1, <2>1, KeyedFrame
  <2> HIDE DEF rest
  <2>3. Nested(g, parser.start.count, rest, {}, parser.maxDepth)
    BY <1>1, <1>3, <1>4, <2>2, NestedKept, SMTT(30)
  <2>4. QED
    BY <1>2, <1>5, <2>3, GoOnNested
<1>6. QED
  BY <1>5, FailedIsOver DEF ParseKey, parsed

(* The parser takes a "," or a ":".                                        *)
LEMMA MovedNested ==
    ASSUME ParserInv, NestInv, parser.active, NEW lexeme,
           ParseComma(lexeme) \/ ParseColon(lexeme)
    PROVE  NestInv'
<1>1. PICK at \in {"value", "key"} : GoOnAt(at, heap, parser.stack)
  BY DEF ParseComma, ParseColon
<1>2. parser.at # "trailing"
  BY DEF ParseComma, ParseColon
<1>3. Nested(heap, parser.start.count, parser.stack, {}, parser.maxDepth)
  BY <1>2, NestedAt
<1>4. QED
  BY <1>1, <1>3, GoOnNested

(* Every lexeme keeps to the depth allowed.                                *)
LEMMA LexemeNested ==
    ASSUME ParserInv, NestInv, NEW lexeme \in Lexemes, ParseStep(lexeme)
    PROVE  NestInv'
<1>1. parser.active
  BY DEF ParseStep
<1>2. PICK before : /\ Checkpoint(before)
                    /\ ParsingOK(heap, before, parser.stack, parser.at)
  BY <1>1 DEF ParserInv
<1>3. CASE ParseReturn(lexeme)
  <2>1. ~parser'.active
    BY <1>3 DEF ParseReturn, Idle
  <2>2. QED
    BY <2>1 DEF NestInv
<1>4. CASE ParseRefuse(lexeme)
  BY <1>4, FailedIsOver DEF ParseRefuse
<1>5. QED
  BY <1>1, <1>2, <1>3, <1>4, ScalarNested, StringNested, OpenNested,
     CloseNested, KeyNested, MovedNested DEF ParseStep

(* So does every call.                                                     *)
LEMMA NestInvSafe ==
    ASSUME ParserInv, NestInv, [ParserNext]_parserVars
    PROVE  NestInv'
<1>1. CASE Client \/ Rest
  <2>1. ~parser'.active
    BY <1>1 DEF Client, Rest, parserVars
  <2>2. QED
    BY <2>1 DEF NestInv
<1>2. CASE UNCHANGED parserVars
  BY <1>2 DEF parserVars, NestInv, Done
<1>3. ASSUME NEW maxDepth \in MaxDepths, NEW trailing \in BOOLEAN,
             NEW overlaps \in BOOLEAN, Parse(maxDepth, trailing, overlaps)
      PROVE  NestInv'
  <2> DEFINE start == [count |-> heap.count, bytes |-> heap.bytes]
             begun == [Idle EXCEPT !.active = TRUE, !.maxDepth = maxDepth,
                                   !.trailing = trailing, !.start = start]
  <2>1. heap' = heap /\ (UNCHANGED parser \/ parser' = begun)
    BY <1>3 DEF Parse
  <2>2. CASE UNCHANGED parser
    BY <2>1, <2>2 DEF NestInv
  <2>3. CASE parser' = begun
    <3>1. begun.stack = <<>> /\ begun.at = "value" /\ begun.maxDepth = maxDepth
          /\ begun.start = start
      BY DEF Idle
    <3>2. start.count = heap.count
      OBVIOUS
    <3>3. HeapOK(heap)
      BY IInvHeap DEF ParserInv
    <3>4. maxDepth \in Nat /\ \A i \in Live(heap) : ~(i >= heap.count)
      BY <3>3, ParserAssumption, Counters, LinksStayLive, IdsBelowNil DEF Live
    <3>5. Nested(heap, heap.count, <<>>, {}, maxDepth)
      BY <3>4 DEF Nested
    <3> HIDE DEF begun, start
    <3>6. Done(parser') = {} /\ parser'.at # "trailing"
      BY <2>3, <3>1 DEF Done
    <3>7. QED
      BY <2>1, <2>3, <3>1, <3>2, <3>5, <3>6 DEF NestInv
  <2>4. QED
    BY <2>1, <2>2, <2>3
<1>4. QED
  BY <1>1, <1>2, <1>3, LexemeNested DEF ParserNext

-----------------------------------------------------------------------------
(* What parse() returns.                                                   *)

(* A parse that goes on has not returned.                                  *)
LEMMA DeliverGoesOn ==
    ASSUME ParserInv, parser.active, NEW id, NEW h, NEW stack,
           Deliver(id, h, stack)
    PROVE  parser'.active
<1>1. parser \in Parsers
  BY DEF ParserInv
<1>2. CASE stack = <<>>
  <2>1. parser' = [parser EXCEPT !.at = "trailing", !.stack = stack,
                                 !.root = id]
    BY <1>2 DEF Deliver
  <2>2. QED
    BY <1>1, <2>1 DEF Parsers
<1>3. CASE stack # <<>>
  <2> DEFINE rest == [stack EXCEPT ![Len(stack)].key = NoRef]
  <2>1. parser' = [parser EXCEPT !.at = "next", !.stack = rest]
    BY <1>3 DEF Deliver, GoOnAt
  <2> HIDE DEF rest
  <2>2. QED
    BY <1>1, <2>1 DEF Parsers
<1>4. QED
  BY <1>2, <1>3

(* parse() succeeds at the end of the text and nowhere else.               *)
LEMMA OnlyReturnReturns ==
    ASSUME ParserInv, NEW lexeme \in Lexemes, ParseStep(lexeme), Returns("Ok")
    PROVE  ParseReturn(lexeme)
<1>1. parser.active /\ ~parser'.active /\ result' = "Ok"
  BY DEF Returns
<1>2. ASSUME NEW at, NEW h, NEW stack, GoOnAt(at, h, stack) PROVE FALSE
  BY <1>1, <1>2 DEF GoOnAt, ParserInv, Parsers
<1>3. ASSUME NEW code, NEW h, Fail(code, h) PROVE code = "Ok"
  BY <1>1, <1>3 DEF Fail
<1>4. ASSUME NEW id, NEW h, NEW stack, Deliver(id, h, stack) PROVE FALSE
  BY <1>1, <1>4, DeliverGoesOn
<1>5. ~ParseScalar(lexeme)
  BY <1>3, <1>4 DEF ParseScalar
<1>6. ~ParseString(lexeme)
  BY <1>3, <1>4 DEF ParseString
<1>7. ~ParseOpen(lexeme)
  BY <1>2, <1>3 DEF ParseOpen
<1>8. ~ParseClose(lexeme)
  BY <1>4 DEF ParseClose
<1>9. ~ParseKey(lexeme)
  BY <1>2, <1>3 DEF ParseKey
<1>10. ~ParseColon(lexeme) /\ ~ParseComma(lexeme)
  BY <1>2 DEF ParseColon, ParseComma
<1>11. ~ParseRefuse(lexeme)
  <2> DEFINE code == IF parser.at = "trailing" THEN "ParseTrailingCharacters"
                     ELSE IF lexeme.kind \in {"Space", "End"}
                     THEN "ParseUnexpectedEnd" ELSE "ParseUnexpectedToken"
  <2>1. code # "Ok"
    OBVIOUS
  <2> HIDE DEF code
  <2>2. ParseRefuse(lexeme) => Fail(code, heap)
    BY DEF ParseRefuse, code
  <2>3. QED
    BY <1>3, <2>1, <2>2
<1>12. QED
  BY <1>5, <1>6, <1>7, <1>8, <1>9, <1>10, <1>11 DEF ParseStep

(* The state that parse() returns in.                                      *)
LEMMA ReturnedTree ==
    ASSUME ParserInv, NestInv, ParserNext, Returns("Ok")
    PROVE  /\ heap' = heap
           /\ Nested(heap, parser.start.count, <<>>, {parser.root},
                     parser.maxDepth)
           /\ parser.root \in Live(heap) /\ parser.root >= parser.start.count
           /\ \E before : Checkpoint(before) /\ HeapOK(heap)
                          /\ Extends(heap, before)
<1>1. parser.active
  BY DEF Returns
<1>2. PICK lexeme \in Lexemes : ParseStep(lexeme)
  BY <1>1 DEF ParserNext, Client, Rest, Parse, Returns, parserVars
<1>3. ParseReturn(lexeme)
  BY <1>2, OnlyReturnReturns
<1>4. heap' = heap /\ parser.at = "trailing"
  BY <1>3 DEF ParseReturn
<1>5. \E before : Checkpoint(before) /\ HeapOK(heap) /\ Extends(heap, before)
  BY <1>1 DEF ParserInv, ParsingOK, DocumentOK
<1>6. QED
  BY <1>1, <1>4, <1>5 DEF NestInv, Done

(* What was there before hangs from nothing new, ...                       *)
LEMMA OldAboveOld ==
    ASSUME NEW before, HeapOK(before), NEW h, Extends(h, before),
           NEW i \in Live(before)
    PROVE  Ancestors(h, i) \subseteq Live(before)
<1>1. Live(before) \in SUBSET Ids /\ i \in Live(before)
  BY LinksStayLive
<1>2. \A y \in Live(before) :
         h.parent[y] \in Ids => h.parent[y] \in Live(before)
  BY LinksStayLive, IdsBelowNil DEF Extends, SameNodes
<1>3. QED
  BY <1>1, <1>2, ReachLeast DEF Ancestors

(* ... and what is new, once all is done, from the root.                   *)
LEMMA NewBelowRoot ==
    ASSUME NEW h, HeapOK(h), NEW count, NEW max, NEW root,
           Nested(h, count, <<>>, {root}, max),
           NEW i \in Live(h), i >= count
    PROVE  i \in Below(h, root)
<1> DEFINE S == {x \in Live(h) : x >= count}
<1>1. S \in SUBSET Ids /\ i \in S /\ Live(h) \subseteq Ids /\ Nil \notin Ids
  BY LinksStayLive, IdsBelowNil
<1>2. \A y \in S : h.parent[y] \in Ids => h.parent[y] \in S
  BY <1>1, LinksStayLive DEF Nested
<1> HIDE DEF S
<1>3. Reach(h.parent, i) \subseteq S
  BY <1>1, <1>2, ReachLeast
<1>4. PICK r \in Ancestors(h, i) : r \in Live(h) /\ h.parent[r] = Nil
  BY RootExists
<1>5. r >= count
  BY <1>3, <1>4 DEF S, Ancestors
<1>6. r = root
  BY <1>4, <1>5 DEF Nested
<1>7. QED
  BY <1>4, <1>6 DEF Below

(* The tree that is being read is in order at every lexeme.                *)
THEOREM NestInvariant == ParserSpec => []NestInv
<1>1. ParserInit => NestInv
  BY DEF ParserInit, Idle, NestInv
<1>2. ParserInv /\ NestInv /\ [ParserNext]_parserVars => NestInv'
  BY NestInvSafe
<1>3. QED
  BY <1>1, <1>2, ParserInvariant, PTL DEF ParserSpec

(* No document that parse() returns nests deeper than the caller allowed.  *)
THEOREM DepthIsBounded == ParserSpec => DepthBounded
<1>1. ASSUME ParserInv, NestInv, [ParserNext]_parserVars
      PROVE  [Returns("Ok") =>
                 \A i \in Below(heap', parser.root) :
                    Cardinality({a \in Ancestors(heap', i) :
                                    heap'.type[a] \in Containers})
                        <= parser.maxDepth]_parserVars
  <2> SUFFICES ASSUME ParserNext, Returns("Ok"),
                      NEW i \in Below(heap', parser.root)
               PROVE  Cardinality({a \in Ancestors(heap', i) :
                                      heap'.type[a] \in Containers})
                          <= parser.maxDepth
    BY <1>1
  <2>1. heap' = heap /\ i \in Below(heap, parser.root)
        /\ Nested(heap, parser.start.count, <<>>, {parser.root},
                  parser.maxDepth)
    BY <1>1, ReturnedTree
  <2>2. Nesting(heap, i) + 0 <= parser.maxDepth /\ Nesting(heap, i) \in Nat
    BY <2>1, NestingCounts DEF Nested
  <2>3. Nesting(heap, i) <= parser.maxDepth
    BY <2>2
  <2>4. QED
    BY <2>1, <2>3 DEF Nesting
<1>2. QED
  BY <1>1, ParserInvariant, NestInvariant, PTL DEF ParserSpec, DepthBounded

(* The nodes that parse() has taken are those of the document it returns:  *)
(* the half of NothingLost that is about nodes.                            *)
THEOREM NoNodeIsLost ==
    ParserSpec => [][Returns("Ok") => NodesReturned]_parserVars
<1>1. ASSUME ParserInv, NestInv, [ParserNext]_parserVars
      PROVE  [Returns("Ok") => NodesReturned]_parserVars
  <2> SUFFICES ASSUME ParserNext, Returns("Ok") PROVE NodesReturned
    BY <1>1
  <2> DEFINE count == parser.start.count
             root == parser.root
  <2>1. /\ heap' = heap /\ root \in Live(heap) /\ root >= count
        /\ Nested(heap, count, <<>>, {root}, parser.maxDepth)
    BY <1>1, ReturnedTree
  <2>2. PICK before : Checkpoint(before) /\ HeapOK(heap)
                      /\ Extends(heap, before)
    BY <1>1, ReturnedTree
  <2>3. HeapOK(before) /\ before.count = count /\ count \in Nat
    BY <2>2, Counters DEF Checkpoint, DocumentOK
  <2>4. Live(heap) \subseteq Nat
    BY <2>2, LinksStayLive, IdsBelowNil
  <2>5. \A i \in Live(heap) : i \in Below(heap, root) => i >= count
    <3> SUFFICES ASSUME NEW i \in Live(heap), i \in Below(heap, root), i < count
                 PROVE  FALSE
      BY <2>3, <2>4
    <3>1. i \in Live(before)
      BY <2>2, <2>3, LinksStayLive DEF Live
    <3>2. root \in Live(before)
      BY <2>2, <2>3, <3>1, OldAboveOld DEF Below
    <3>3. QED
      BY <2>1, <2>3, <2>4, <3>2 DEF Live
  <2> HIDE DEF count, root
  <2>6. \A i \in Live(heap) : i >= count => i \in Below(heap, root)
    BY <2>1, <2>2, NewBelowRoot
  <2>7. \A i \in Live(heap) : i \in 0 .. count - 1 <=> ~(i >= count)
    BY <2>3, <2>4
  <2>8. Below(heap, root) = Live(heap) \ 0 .. count - 1
    BY <2>5, <2>6, <2>7 DEF Below
  <2>9. QED
    BY <2>1, <2>8 DEF NodesReturned, count, root
<1>2. QED
  BY <1>1, ParserInvariant, NestInvariant, PTL DEF ParserSpec

-----------------------------------------------------------------------------
(* The text that has been read, up to where the parser is.                 *)

(* The key that the next member will have, as it was read, and its colon.  *)
NameText(h, frame) ==
    IF h.type[frame.id] = "Object"
    THEN Cat(Quoted(ViewString(h, frame.key)), Pair) ELSE <<>>

(* An open container, up to where its next child begins, ...               *)
Reached(h, frame) == Cat(Begun(h, frame.id), Between(h, frame.id))

(* ... and up to where the value of that child begins.                     *)
Lead(h, frame) == Cat(Reached(h, frame), NameText(h, frame))

(* The innermost open container, up to where the parser is.                *)
Latest(h, frame, at) ==
    IF at \in {"element", "member", "next"} THEN Begun(h, frame.id)
    ELSE IF at = "key" THEN Reached(h, frame)
    ELSE IF at = "colon"
    THEN Cat(Reached(h, frame), Quoted(ViewString(h, frame.key)))
    ELSE Lead(h, frame)

(* The outermost n open containers, each up to the one within it.          *)
Leads(h, stack, n) == [k \in 1 .. n |-> Lead(h, stack[k])]

Around(h, stack, n) == Seqs!FlattenSeq(Leads(h, stack, n))

(* All that has been read before the parser looks for the lexeme at at.    *)
TextTo(h, stack, at) ==
    IF stack = <<>> THEN <<>>
    ELSE Cat(Around(h, stack, Len(stack) - 1),
             Latest(h, stack[Len(stack)], at))

(* Whether the innermost open container has children yet.                  *)
FirstChildOK(h, stack, at) ==
    stack # <<>> =>
        /\ at \in {"element", "member"} => h.first[stack[Len(stack)].id] = Nil
        /\ at = "next" => h.first[stack[Len(stack)].id] # Nil

(* The open containers, as far as their text is concerned.                 *)
FramesOK(h, stack) ==
    /\ HeapOK(h) /\ stack \in Seq(Frames)
    /\ \A k \in DOMAIN stack :
          stack[k].id \in Live(h) /\ RefOK(h, stack[k].key)

(* They are what the parser keeps on its stack.                            *)
LEMMA ParsingFrames ==
    ASSUME NEW h, NEW before, NEW stack, NEW at, ParsingOK(h, before, stack, at)
    PROVE  FramesOK(h, stack)
BY DEF ParsingOK, DocumentOK, OpenOK, Loose, Waiting, FramesOK

(* All of it is text.                                                      *)
LEMMA LeadTyped ==
    ASSUME NEW h, HeapOK(h), NEW frame \in Frames, frame.id \in Live(h)
    PROVE  /\ AText(Begun(h, frame.id)) /\ AText(Reached(h, frame))
           /\ AText(Between(h, frame.id))
           /\ AText(Quoted(ViewString(h, frame.key)))
           /\ AText(NameText(h, frame)) /\ AText(Lead(h, frame))
           /\ \A at : AText(Latest(h, frame, at))
<1>1. frame.key \in StringRefs /\ h \in Heaps
  BY DEF Frames, HeapOK
<1>2. AText(Quoted(ViewString(h, frame.key)))
  BY <1>1, ViewIsString, QuotedTyped
<1>3. AText(Begun(h, frame.id)) /\ AText(Between(h, frame.id))
  BY BegunTyped
<1>4. AText(Reached(h, frame))
  BY <1>3, CatTyped DEF Reached
<1>5. AText(NameText(h, frame))
  BY <1>2, CatTyped, CatNothing, PunctuationTyped DEF NameText
<1>6. AText(Lead(h, frame))
  BY <1>4, <1>5, CatTyped DEF Lead
<1>7. AText(Cat(Reached(h, frame), Quoted(ViewString(h, frame.key))))
  BY <1>2, <1>4, CatTyped
<1>8. \A at : AText(Latest(h, frame, at))
  BY <1>3, <1>4, <1>6, <1>7 DEF Latest
<1>9. QED
  BY <1>2, <1>3, <1>4, <1>5, <1>6, <1>8

(* Nothing is around the outermost container, ...                          *)
LEMMA AroundNone ==
    ASSUME NEW h, NEW stack, NEW n, n = 0
    PROVE  Around(h, stack, n) = <<>>
<1>1. Leads(h, stack, n) = <<>>
  <2>1. 1 .. n = {}
    OBVIOUS
  <2>2. QED
    BY <2>1 DEF Leads
<1>2. QED
  BY <1>1, FlattenNone DEF Around

(* ... and a container adds its own lead to what is around it.             *)
LEMMA AroundMore ==
    ASSUME NEW h, NEW stack, FramesOK(h, stack), NEW n \in Nat,
           n <= Len(stack)
    PROVE  /\ AText(Around(h, stack, n))
           /\ n < Len(stack) => Around(h, stack, n + 1)
                                   = Cat(Around(h, stack, n),
                                         Lead(h, stack[n + 1]))
<1>1. \A k \in 1 .. Len(stack) : AText(Lead(h, stack[k]))
  <2>1. stack \in Seq(Frames) /\ DOMAIN stack = 1 .. Len(stack)
    BY DEF FramesOK
  <2>2. \A k \in 1 .. Len(stack) : stack[k] \in Frames
    BY <2>1
  <2>3. QED
    BY <2>1, <2>2, LeadTyped DEF FramesOK
<1>2. Len(stack) \in Nat
  BY DEF FramesOK
<1>3. ASSUME NEW m \in Nat, m <= Len(stack)
      PROVE  Leads(h, stack, m) \in Seq(Seq(Chars))
  <2> DEFINE f == [k \in 1 .. m |-> Lead(h, stack[k])]
  <2>1. \A k \in 1 .. m : Lead(h, stack[k]) \in Seq(Chars)
    BY <1>1, <1>2, <1>3 DEF AText
  <2>2. Maps(f, 1 .. m, Seq(Chars))
    BY <2>1 DEF Maps
  <2> HIDE DEF f
  <2>3. f \in Seq(Seq(Chars))
    BY <2>2, MapsIsSeq
  <2>4. QED
    BY <2>3 DEF Leads, f
<1>4. AText(Around(h, stack, n))
  BY <1>3, FlattenTyped DEF Around, AText
<1>5. ASSUME n < Len(stack)
      PROVE  Around(h, stack, n + 1) = Cat(Around(h, stack, n),
                                           Lead(h, stack[n + 1]))
  <2> DEFINE x == Lead(h, stack[n + 1])
             s == Leads(h, stack, n)
             t == Leads(h, stack, n + 1)
  <2>1. s \in Seq(Seq(Chars)) /\ t \in Seq(Seq(Chars)) /\ x \in Seq(Chars)
    BY <1>1, <1>2, <1>3, <1>5 DEF AText
  <2>2. t = Append(s, x)
    <3>1. /\ DOMAIN s = 1 .. n /\ DOMAIN t = 1 .. n + 1
          /\ \A k \in 1 .. n : s[k] = Lead(h, stack[k])
          /\ \A k \in 1 .. n + 1 : t[k] = Lead(h, stack[k])
      BY DEF Leads
    <3> HIDE DEF s, t
    <3>2. Len(s) = n /\ Len(t) = n + 1
      BY <2>1, <3>1, LenProperties
    <3>3. \A k \in 1 .. n : t[k] = s[k]
      BY <3>1
    <3>4. t[n + 1] = x
      BY <3>1
    <3> HIDE DEF x
    <3>5. QED
      BY <2>1, <3>1, <3>2, <3>3, <3>4
  <2> HIDE DEF s, t, x
  <2>3. Seqs!FlattenSeq(t) = Cat(Seqs!FlattenSeq(s), x)
    BY <2>1, <2>2, FlattenAppend DEF Cat
  <2>4. QED
    BY <2>3 DEF Around, s, t, x
<1>6. QED
  BY <1>4, <1>5

(* What is around does not depend on more than the leads.                  *)
LEMMA AroundSame ==
    ASSUME NEW h, NEW stack, NEW g, NEW rest, NEW n,
           \A k \in 1 .. n : Lead(g, rest[k]) = Lead(h, stack[k])
    PROVE  Around(g, rest, n) = Around(h, stack, n)
<1>1. Leads(g, rest, n) = Leads(h, stack, n)
  BY DEF Leads
<1>2. QED
  BY <1>1 DEF Around

(* The innermost container and those around it.                            *)
LEMMA Innermost ==
    ASSUME NEW stack \in Seq(Frames), stack # <<>>
    PROVE  \E m \in Nat : /\ Len(stack) = m + 1 /\ Len(stack) - 1 = m
                          /\ m < Len(stack) /\ m <= Len(stack)
                          /\ \A k \in 1 .. m : k \in DOMAIN stack
                                               /\ k < Len(stack)
                                               /\ k # Len(stack)
                          /\ \A k \in DOMAIN stack :
                                k # Len(stack) => k \in 1 .. m
<1>1. Len(stack) \in Nat /\ Len(stack) # 0 /\ DOMAIN stack = 1 .. Len(stack)
  OBVIOUS
<1>2. PICK m \in Nat : Len(stack) = m + 1
  <2>1. Len(stack) - 1 \in Nat /\ Len(stack) = (Len(stack) - 1) + 1
    BY <1>1
  <2>2. QED
    BY <2>1
<1>3. QED
  BY <1>1, <1>2

(* The text in front of a value.                                           *)
LEMMA TextToValue ==
    ASSUME NEW h, NEW stack, FramesOK(h, stack)
    PROVE  /\ AText(Around(h, stack, Len(stack)))
           /\ TextTo(h, stack, "value") = Around(h, stack, Len(stack))
<1>1. stack \in Seq(Frames) /\ Len(stack) \in Nat
  BY DEF FramesOK
<1>2. AText(Around(h, stack, Len(stack)))
  BY <1>1, AroundMore
<1>3. CASE stack = <<>>
  <2>1. Len(stack) = 0
    BY <1>3
  <2>2. Around(h, stack, Len(stack)) = <<>>
    BY <2>1, AroundNone
  <2>3. QED
    BY <1>2, <1>3, <2>2 DEF TextTo
<1>4. CASE stack # <<>>
  <2>1. PICK m \in Nat : Len(stack) = m + 1 /\ Len(stack) - 1 = m
                         /\ m < Len(stack) /\ m <= Len(stack)
    BY <1>1, <1>4, Innermost
  <2>2. Around(h, stack, m + 1) = Cat(Around(h, stack, m),
                                      Lead(h, stack[m + 1]))
    BY <2>1, AroundMore
  <2>3. Latest(h, stack[Len(stack)], "value") = Lead(h, stack[Len(stack)])
    BY DEF Latest
  <2>4. QED
    BY <1>2, <1>4, <2>1, <2>2, <2>3 DEF TextTo
<1>5. QED
  BY <1>3, <1>4

(* Where nothing has been put into a container yet, its first value is     *)
(* read like any other.                                                    *)
LEMMA ElementIsValue ==
    ASSUME NEW h, NEW before, NEW stack, NEW at,
           ParsingOK(h, before, stack, at), at \in {"value", "element"},
           FirstChildOK(h, stack, at)
    PROVE  TextTo(h, stack, at) = Around(h, stack, Len(stack))
<1>1. FramesOK(h, stack)
  BY ParsingFrames
<1>2. CASE at = "value"
  BY <1>1, <1>2, TextToValue
<1>3. CASE at = "element"
  <2> DEFINE top == stack[Len(stack)]
  <2>1. /\ stack # <<>> /\ stack \in Seq(Frames) /\ HeapOK(h)
        /\ h.type[top.id] = "Array"
    BY <1>1, <1>3 DEF ParsingOK, PlaceOK, FramesOK
  <2>2. top \in Frames /\ top.id \in Live(h)
    BY <1>1, <2>1, TopFrame DEF FramesOK
  <2>3. h.first[top.id] = Nil
    BY <1>3, <2>1 DEF FirstChildOK
  <2> HIDE DEF top
  <2>4. Between(h, top.id) = <<>> /\ NameText(h, top) = <<>>
    BY <2>1, <2>3 DEF Between, NameText
  <2>5. AText(Begun(h, top.id))
    BY <2>1, <2>2, LeadTyped
  <2>6. Lead(h, top) = Begun(h, top.id)
    BY <2>4, <2>5, CatNothing DEF Lead, Reached
  <2>7. Latest(h, top, "value") = Latest(h, top, "element")
    BY <2>6 DEF Latest
  <2>8. TextTo(h, stack, "value") = TextTo(h, stack, "element")
    BY <2>7 DEF TextTo, top
  <2>9. QED
    BY <1>1, <1>3, <2>8, TextToValue
<1>4. QED
  BY <1>2, <1>3

(* What changes no text changes none of it.                                *)
LEMMA ReachedKept ==
    ASSUME NEW h, NEW g, NEW frame, NEW other, other.id = frame.id,
           g.first[frame.id] = h.first[frame.id],
           Begun(g, frame.id) = Begun(h, frame.id)
    PROVE  Reached(g, other) = Reached(h, frame)
BY DEF Reached, Between

(* Nor does what changes no key that waits.                                *)
LEMMA LeadKept ==
    ASSUME NEW h, NEW g, NEW frame, NEW other, other.id = frame.id,
           g.type[frame.id] = h.type[frame.id],
           Reached(g, other) = Reached(h, frame),
           ViewString(g, other.key) = ViewString(h, frame.key)
    PROVE  Lead(g, other) = Lead(h, frame)
BY DEF NameText, Lead

(* Nodes and strings that are added change none.                           *)
LEMMA ExtendedLeads ==
    ASSUME NEW h, NEW stack, FramesOK(h, stack), NEW g, HeapOK(g),
           SameNodes(g, h), BytesKept(g, h), Live(h) \subseteq Live(g)
    PROVE  \A k \in DOMAIN stack :
              /\ Reached(g, stack[k]) = Reached(h, stack[k])
              /\ Lead(g, stack[k]) = Lead(h, stack[k])
<1> SUFFICES ASSUME NEW k \in DOMAIN stack
             PROVE  /\ Reached(g, stack[k]) = Reached(h, stack[k])
                    /\ Lead(g, stack[k]) = Lead(h, stack[k])
  OBVIOUS
<1> DEFINE frame == stack[k]
<1>1. /\ HeapOK(h) /\ frame \in Frames /\ frame.id \in Live(h)
      /\ RefOK(h, frame.key)
  BY DEF FramesOK
<1> HIDE DEF frame
<1>2. Begun(g, frame.id) = Begun(h, frame.id)
  BY <1>1, AddedText
<1>3. ViewString(g, frame.key) = ViewString(h, frame.key)
  BY <1>1, KeptView DEF Frames
<1>4. g.type[frame.id] = h.type[frame.id] /\ g.first[frame.id] = h.first[frame.id]
  BY <1>1 DEF SameNodes
<1>5. QED
  BY <1>2, <1>3, <1>4, ReachedKept, LeadKept DEF frame

(* The node that a lexeme adds does not.                                   *)
LEMMA AddedAround ==
    ASSUME NEW h, NEW stack, FramesOK(h, stack), NEW g, NEW type,
           Added(g, h, type)
    PROVE  /\ HeapOK(g)
           /\ Around(g, stack, Len(stack)) = Around(h, stack, Len(stack))
<1>1. HeapOK(g) /\ SameNodes(g, h) /\ BytesKept(g, h)
  BY DEF Added, DocumentOK, Grown, Extends
<1>2. Live(h) \subseteq Live(g)
  BY GrownLive DEF Added, Grown
<1>3. \A k \in DOMAIN stack : Lead(g, stack[k]) = Lead(h, stack[k])
  BY <1>1, <1>2, ExtendedLeads
<1>4. \A k \in 1 .. Len(stack) : k \in DOMAIN stack
  BY DEF FramesOK
<1>5. QED
  BY <1>1, <1>3, <1>4, AroundSame

-----------------------------------------------------------------------------
(* How a lexeme is answered.                                               *)

(* What has been read is the text of what has been made, up to where the   *)
(* parser is.                                                              *)
SoFar(h, stack, at, text) ==
    text = TextTo(h, stack, at) /\ FirstChildOK(h, stack, at)

ReadInv ==
    /\ ~parser.active => read = <<>>
    /\ parser.active =>
          IF parser.at = "trailing"
          THEN read = Render(heap, parser.root, Compact)
          ELSE SoFar(heap, parser.stack, parser.at, read)

(* The characters of the lexeme have been read, unless the parse is over.  *)
Takes(lexeme) ==
    read' = IF parser'.active THEN Cat(read, Characters(lexeme)) ELSE <<>>

(* After a parse that fails nothing is being read.                         *)
LEMMA FailedRead ==
    ASSUME NEW lexeme, Takes(lexeme), NEW code, NEW h, Fail(code, h)
    PROVE  ReadInv'
<1>1. ~parser'.active
  BY DEF Fail, Idle
<1>2. QED
  BY <1>1 DEF ReadInv, Takes

(* Going on somewhere in the text.                                         *)
LEMMA GoOnRead ==
    ASSUME ParserInv, parser.active, NEW lexeme, Takes(lexeme),
           NEW h, NEW stack, NEW at, at # "trailing", GoOnAt(at, h, stack),
           SoFar(h, stack, at, Cat(read, Characters(lexeme)))
    PROVE  ReadInv'
<1>1. heap' = h
      /\ parser' = [parser EXCEPT !.at = at, !.stack = stack]
  BY DEF GoOnAt
<1>2. parser'.at = at /\ parser'.stack = stack /\ parser'.active
  BY <1>1 DEF ParserInv, Parsers
<1>3. read' = Cat(read, Characters(lexeme))
  BY <1>2 DEF Takes
<1>4. QED
  BY <1>1, <1>2, <1>3 DEF ReadInv

(* A value has been read when it is delivered, and is in its container,    *)
(* under its key, when the parser goes on.                                 *)
LEMMA DeliveredText ==
    ASSUME NEW h, NEW before, NEW stack, ParsingOK(h, before, stack, "value"),
           stack # <<>>, NEW id, Loose(h, before, id),
           \A k \in DOMAIN stack : stack[k].id # id
    PROVE  LET top == stack[Len(stack)]
               keyed == IF h.type[top.id] = "Object"
                        THEN SetKey(h, id, top.key, top.flags) ELSE h
           IN SoFar(AppendChild(keyed, top.id, id),
                    [stack EXCEPT ![Len(stack)].key = NoRef], "next",
                    Cat(Around(h, stack, Len(stack)), Render(h, id, Compact)))
<1> DEFINE top == stack[Len(stack)]
           p == top.id
           keyed == IF h.type[p] = "Object"
                    THEN SetKey(h, id, top.key, top.flags) ELSE h
           g == AppendChild(keyed, p, id)
           rest == [stack EXCEPT ![Len(stack)].key = NoRef]
           value == Render(h, id, Compact)
<1>1. /\ stack \in Seq(Frames) /\ OpenOK(h, before, stack, "value")
      /\ DocumentOK(h) /\ HeapOK(h) /\ h \in Heaps /\ FramesOK(h, stack)
  BY ParsingFrames DEF ParsingOK, DocumentOK, HeapOK
<1>2. /\ Len(stack) \in DOMAIN stack
      /\ \A k \in DOMAIN stack : /\ stack[k] \in Frames
                                 /\ k # Len(stack) => k < Len(stack)
  BY <1>1, TopFrame
<1>3. /\ Len(rest) = Len(stack) /\ DOMAIN rest = DOMAIN stack
      /\ \A k \in DOMAIN stack :
            /\ rest[k].id = stack[k].id
            /\ k # Len(stack) => rest[k].key = stack[k].key
  BY <1>1, TopFrame
<1>4. rest # <<>>
  BY <1>2, <1>3
<1> HIDE DEF rest
<1>5. /\ Loose(h, before, p) /\ h.type[p] \in Containers
      /\ Waiting(h, top.key) /\ p # id /\ top \in Frames
      /\ h.type[p] = "Object" => GoodText(ViewString(h, top.key), top.flags)
  BY <1>1, <1>2 DEF OpenOK, Keyed
<1>6. top.flags \in BOOLEAN /\ top.key \in StringRefs /\ p \in Live(h)
      /\ h.parent[p] = Nil /\ id \in Live(h) /\ h.parent[id] = Nil
      /\ RefOK(h, top.key)
  BY <1>5 DEF Frames, Loose, Waiting
<1>k. \A k \in DOMAIN stack : k # Len(stack) =>
         stack[k].id # p /\ stack[k].id \in Live(h)
  BY <1>1, <1>2 DEF OpenOK, Loose
<1>7. keyed = IF h.type[p] = "Object"
              THEN SetKey(h, id, top.key, top.flags) ELSE h
  OBVIOUS
<1>8. p \in Ids /\ id \in Ids
  BY <1>1, <1>6, LinksStayLive
<1>9. keyed \in Heaps
      /\ (h.type[p] = "Object" => keyed.key[id] = top.key)
  <2>1. HeapOK(SetKey(h, id, top.key, top.flags))
    BY <1>1, <1>6, <1>8, SetKeyKeepsForest
  <2>2. SetKey(h, id, top.key, top.flags).key[id] = top.key
    BY <1>1, <1>8 DEF SetKey, Heaps
  <2>3. QED
    BY <1>1, <2>1, <2>2 DEF HeapOK
<1>t. Lead(h, top) = Cat(Reached(h, top), NameText(h, top))
      /\ Reached(h, top) = Cat(Begun(h, p), Between(h, p))
      /\ AText(Reached(h, top)) /\ AText(NameText(h, top))
      /\ AText(value)
  BY <1>1, <1>5, <1>6, LeadTyped, OnOneLine DEF Lead, Reached
<1> DEFINE n == Len(stack)
<1>n. stack[n] = top
  OBVIOUS
<1>v. /\ \E m \in Nat : n = m + 1 /\ n - 1 = m /\ m < n /\ m <= n
                        /\ \A k \in 1 .. m : k \in DOMAIN stack /\ k # n
  BY <1>1, Innermost
<1> HIDE DEF top, p, keyed, value, n
<1>a. /\ DocumentOK(g) /\ g.mem = h.mem
      /\ \E ref \in {top.key, NoRef}, flags \in BOOLEAN :
            Attached(g, h, p, id, ref, flags)
  BY <1>1, <1>5, <1>6, <1>7, DeliveredAttaches, SMTT(30)
<1>11. g.key[id] = keyed.key[id]
  BY <1>8, <1>9, AppendFields DEF Appended
<1> HIDE DEF g
<1>10. HeapOK(g) /\ g.mem = h.mem
  BY <1>a DEF DocumentOK
<1>12. PICK ref, flags : Attached(g, h, p, id, ref, flags)
  BY <1>a
<1>13. /\ \A i \in Live(h) : i # p => /\ Begun(g, i) = Begun(h, i)
                                      /\ g.first[i] = h.first[i]
       /\ g.first[p] # Nil
       /\ Begun(g, p) = Cat(Cat(Begun(h, p), Between(h, p)),
                            Cat(Label(g, Compact, p, id), value))
       /\ g.type = h.type
  BY <1>1, <1>6, <1>10, <1>12, AttachedText, AttachedLinks DEF value
<1>14. \A s : ViewString(g, s) = ViewString(h, s)
  BY <1>10 DEF ViewString
<1>15. Label(g, Compact, p, id) = NameText(h, top)
  BY <1>9, <1>11, <1>13, <1>14, CompactIsForm DEF Label, NameText, Cat, p
<1>16. PICK m \in Nat : n = m + 1 /\ n - 1 = m /\ m < n /\ m <= n
                        /\ \A k \in 1 .. m : k \in DOMAIN stack /\ k # n
  BY <1>v
<1>17. Around(g, rest, m) = Around(h, stack, m)
  <2>1. ASSUME NEW k \in 1 .. m PROVE Lead(g, rest[k]) = Lead(h, stack[k])
    <3>1. k \in DOMAIN stack /\ k # Len(stack)
      BY <1>16 DEF n
    <3>2. stack[k].id # p /\ stack[k].id \in Live(h)
          /\ rest[k].id = stack[k].id /\ rest[k].key = stack[k].key
      BY <1>3, <1>k, <3>1
    <3>3. Begun(g, stack[k].id) = Begun(h, stack[k].id)
          /\ g.first[stack[k].id] = h.first[stack[k].id]
          /\ g.type[stack[k].id] = h.type[stack[k].id]
      BY <1>13, <3>2
    <3>4. ViewString(g, rest[k].key) = ViewString(h, stack[k].key)
      BY <1>14, <3>2
    <3>5. PICK frame, other : frame = stack[k] /\ other = rest[k]
      OBVIOUS
    <3>6. /\ other.id = frame.id
          /\ g.type[frame.id] = h.type[frame.id]
          /\ g.first[frame.id] = h.first[frame.id]
          /\ Begun(g, frame.id) = Begun(h, frame.id)
          /\ ViewString(g, other.key) = ViewString(h, frame.key)
      BY <3>2, <3>3, <3>4, <3>5
    <3>7. Lead(g, other) = Lead(h, frame)
      BY <3>6, ReachedKept, LeadKept
    <3>8. QED
      BY <3>5, <3>7
  <2>2. QED
    BY <2>1, AroundSame
<1>18. Around(h, stack, n) = Cat(Around(h, stack, m), Lead(h, top))
       /\ AText(Around(h, stack, m))
  BY <1>1, <1>16, <1>n, AroundMore DEF n
<1>19. rest[n].id = p
  BY <1>2, <1>3 DEF n, top, p
<1>20. TextTo(g, rest, "next") = Cat(Around(g, rest, m), Begun(g, p))
  <2>1. Latest(g, rest[n], "next") = Begun(g, p)
    BY <1>19 DEF Latest
  <2>2. QED
    BY <1>3, <1>4, <1>16, <2>1 DEF TextTo, n
<1>21. FirstChildOK(g, rest, "next")
  BY <1>3, <1>13, <1>19 DEF FirstChildOK, n
<1>22. Cat(Around(h, stack, n), value) = TextTo(g, rest, "next")
  <2> DEFINE a == Around(h, stack, m)
             r == Reached(h, top)
             k == NameText(h, top)
  <2>1. AText(a) /\ AText(r) /\ AText(k) /\ AText(value)
    BY <1>t, <1>18
  <2>2. Begun(g, p) = Cat(r, Cat(k, value))
    BY <1>13, <1>15, <1>t
  <2>3. Around(h, stack, n) = Cat(a, Cat(r, k))
    BY <1>t, <1>18
  <2>4. TextTo(g, rest, "next") = Cat(a, Begun(g, p))
    BY <1>17, <1>20
  <2> HIDE DEF a, r, k
  <2>5. AText(Cat(r, k))
    BY <2>1, CatTyped
  <2>6. Cat(Cat(a, Cat(r, k)), value) = Cat(a, Cat(Cat(r, k), value))
    BY <2>1, <2>5, CatAssociative
  <2>7. Cat(Cat(r, k), value) = Cat(r, Cat(k, value))
    BY <2>1, CatAssociative
  <2>8. QED
    BY <2>2, <2>3, <2>4, <2>6, <2>7
<1>23. QED
  BY <1>21, <1>22 DEF SoFar, g, keyed, rest, p, top, value, n

(* The lexeme that completes a value has been read.                        *)
LEMMA DeliverRead ==
    ASSUME ParserInv, parser.active, NEW lexeme, Takes(lexeme),
           NEW h, NEW before, NEW stack, ParsingOK(h, before, stack, "value"),
           NEW id, Loose(h, before, id),
           \A k \in DOMAIN stack : stack[k].id # id, Deliver(id, h, stack),
           Cat(read, Characters(lexeme))
              = Cat(Around(h, stack, Len(stack)), Render(h, id, Compact))
    PROVE  ReadInv'
<1>1. CASE stack = <<>>
  <2>1. heap' = h
        /\ parser' = [parser EXCEPT !.at = "trailing", !.stack = stack,
                                    !.root = id]
    BY <1>1 DEF Deliver
  <2>2. parser'.at = "trailing" /\ parser'.root = id /\ parser'.active
    BY <2>1 DEF ParserInv, Parsers
  <2>3. read' = Cat(read, Characters(lexeme))
    BY <2>2 DEF Takes
  <2>4. Around(h, stack, Len(stack)) = <<>>
    <3>1. Len(stack) = 0
      BY <1>1
    <3>2. QED
      BY <3>1, AroundNone
  <2>5. AText(Render(h, id, Compact))
    BY OnOneLine DEF ParsingOK, DocumentOK, Loose
  <2>6. read' = Render(h, id, Compact)
    BY <2>3, <2>4, <2>5, CatNothing
  <2>7. QED
    BY <2>1, <2>2, <2>6 DEF ReadInv
<1>2. CASE stack # <<>>
  <2> DEFINE top == stack[Len(stack)]
             keyed == IF h.type[top.id] = "Object"
                      THEN SetKey(h, id, top.key, top.flags) ELSE h
             g == AppendChild(keyed, top.id, id)
             rest == [stack EXCEPT ![Len(stack)].key = NoRef]
  <2>1. SoFar(g, rest, "next", Cat(read, Characters(lexeme)))
    BY <1>2, DeliveredText
  <2>2. GoOnAt("next", g, rest)
    BY <1>2 DEF Deliver, Seqs!Last
  <2> HIDE DEF g, rest
  <2>3. QED
    BY <2>1, <2>2, GoOnRead
<1>3. QED
  BY <1>1, <1>2

-----------------------------------------------------------------------------
(* Lexemes.                                                                *)

(* What is read of a lexeme.                                               *)
LEMMA CharactersAre ==
    ASSUME NEW lexeme
    PROVE  /\ lexeme.kind = "String" =>
                 Characters(lexeme) = Quoted(lexeme.text)
           /\ lexeme.kind \in Scalars \cup Punctuation =>
                 Characters(lexeme) = One(lexeme.kind)
<1>1. lexeme.kind = "String" => Characters(lexeme) = Quoted(lexeme.text)
  BY DEF Characters
<1>2. ASSUME lexeme.kind \in Scalars \cup Punctuation
      PROVE  Characters(lexeme) = One(lexeme.kind)
  <2>1. PICK kind : kind = lexeme.kind
    OBVIOUS
  <2>2. kind \in Scalars \cup Punctuation
    BY <1>2, <2>1
  <2>3. kind # "String" /\ kind \notin {"Space", "End"}
    BY <2>2 DEF Scalars, Punctuation
  <2>4. Characters(lexeme) = One(kind)
    BY <2>1, <2>3, Zenon DEF Characters, One
  <2>5. QED
    BY <2>1, <2>4
<1>3. QED
  BY <1>1, <1>2

(* A value of a single lexeme.                                             *)
LEMMA ValueRead ==
    ASSUME ParserInv, ReadInv, parser.active, NEW before, Checkpoint(before),
           ParsingOK(heap, before, parser.stack, parser.at),
           parser.at \in {"value", "element"},
           NEW lexeme, Takes(lexeme),
           NEW g, NEW type, Added(g, heap, type),
           Render(g, heap.count, Compact) = Characters(lexeme),
           Deliver(heap.count, g, parser.stack)
    PROVE  ReadInv'
<1>1. HeapOK(before)
  BY DEF DocumentOK, Checkpoint
<1>2. ParsingOK(heap, before, parser.stack, "value")
  BY ValuePlace
<1>3. /\ ParsingOK(g, before, parser.stack, "value")
      /\ Loose(g, before, heap.count)
      /\ \A k \in DOMAIN parser.stack : parser.stack[k].id # heap.count
  BY <1>1, <1>2, GrownOK DEF Added
<1>4. SoFar(heap, parser.stack, parser.at, read)
  BY DEF ReadInv
<1>5. read = Around(heap, parser.stack, Len(parser.stack))
  BY <1>4, ElementIsValue DEF SoFar
<1>6. FramesOK(heap, parser.stack)
  BY ParsingFrames
<1>7. Around(g, parser.stack, Len(parser.stack))
         = Around(heap, parser.stack, Len(parser.stack))
  BY <1>6, AddedAround
<1>8. QED
  BY <1>3, <1>5, <1>7, DeliverRead

(* parse_null(), parse_bool(), parse_number().                             *)
LEMMA ScalarRead ==
    ASSUME ParserInv, ReadInv, parser.active, NEW before, Checkpoint(before),
           ParsingOK(heap, before, parser.stack, parser.at),
           NEW lexeme, Takes(lexeme), ParseScalar(lexeme)
    PROVE  ReadInv'
<1> DEFINE item == [type |-> lexeme.kind, text |-> <<>>, finite |-> TRUE]
           made == Make(heap, item)
<1>1. DocumentOK(heap) /\ lexeme.kind \in Scalars
      /\ parser.at \in {"value", "element"}
  BY DEF ParsingOK, ParseScalar, AtValue
<1>2. made.code = "Ok" => Added(made.heap, heap, lexeme.kind)
  BY <1>1, ScalarMade
<1> HIDE DEF made
<1>3. CASE made.code = "Ok" /\ Deliver(heap.count, made.heap, parser.stack)
  <2>1. PICK g : g = made.heap
    OBVIOUS
  <2>2. Added(g, heap, lexeme.kind) /\ Deliver(heap.count, g, parser.stack)
    BY <1>2, <1>3, <2>1
  <2>3. HeapOK(g) /\ heap.count \in Live(g)
        /\ g.type[heap.count] = lexeme.kind
    BY <2>2, GrownLive DEF Added, DocumentOK, Grown
  <2>4. g.type[heap.count] \notin Containers /\ g.type[heap.count] # "String"
    BY <1>1, <2>3 DEF Scalars, Containers
  <2>5. Render(g, heap.count, Compact) = One(lexeme.kind)
    BY <2>3, <2>4, OnOneLine
  <2>6. Characters(lexeme) = One(lexeme.kind)
    BY <1>1, CharactersAre
  <2>7. QED
    BY <1>1, <2>2, <2>5, <2>6, ValueRead
<1>4. QED
  BY <1>3, FailedRead DEF ParseScalar, made

(* parse_string() for a value.                                             *)
LEMMA StringRead ==
    ASSUME ParserInv, ReadInv, parser.active, NEW before, Checkpoint(before),
           ParsingOK(heap, before, parser.stack, parser.at),
           NEW lexeme \in Lexemes, Takes(lexeme), ParseString(lexeme)
    PROVE  ReadInv'
<1> DEFINE id == heap.count
           text == lexeme.text
           node == AllocateNode(heap, "String")
           parsed == ParseText(node, lexeme)
           g == [parsed.heap EXCEPT !.value[id] = NextRef(node, Len(text)),
                                    !.valueFlags[id] = NeedsEscape(text)]
<1>1. DocumentOK(heap) /\ lexeme.kind = "String"
      /\ parser.at \in {"value", "element"}
  BY DEF ParsingOK, ParseString, AtValue
<1>2. parsed.code = "Ok" =>
         /\ HasRoom(node, text) /\ WellFormed(text)
         /\ parsed.heap = CopyString(node, text)
  BY <1>1, ParsedText
<1>3. CASE /\ AllocateNodeError(heap) = "Ok" /\ parsed.code = "Ok"
           /\ Deliver(id, g, parser.stack)
  <2>1. CanAllocateNode(heap)
    BY <1>3 DEF AllocateNodeError
  <2>2. Added(g, heap, "String")
    BY <1>1, <1>2, <1>3, <2>1, StringMade
  <2>3. ViewString(g, g.value[id]) = text
    <3>1. HeapOK(heap) /\ HeapOK(node) /\ id \in Ids
      BY <1>1, <2>1, AllocateKeepsForest, AllocateGrows
         DEF DocumentOK, ValueTypes, Grown
    <3>2. HasRoom(node, text) /\ parsed.heap = CopyString(node, text)
      BY <1>2, <1>3
    <3> HIDE DEF node, text, id
    <3>3. ViewString(CopyString(node, text), NextRef(node, Len(text))) = text
      BY <3>1, <3>2, CopiedView
    <3>4. HeapOK(CopyString(node, text))
      BY <3>1, <3>2, CopyKeepsForest DEF HasRoom
    <3> HIDE DEF parsed
    <3>5. g.mem = CopyString(node, text).mem
          /\ g.value[id] = NextRef(node, Len(text))
      BY <3>1, <3>2, <3>4 DEF HeapOK, Heaps
    <3>6. QED
      BY <3>3, <3>5 DEF ViewString
  <2> HIDE DEF g
  <2>4. HeapOK(g) /\ heap.count \in Live(g) /\ g.type[heap.count] = "String"
    BY <2>2, GrownLive DEF Added, DocumentOK, Grown
  <2>5. Render(g, heap.count, Compact) = Quoted(text)
    BY <2>3, <2>4, OnOneLine
  <2>6. Characters(lexeme) = Quoted(text)
    BY <1>1, CharactersAre
  <2>7. QED
    BY <1>1, <1>3, <2>2, <2>5, <2>6, ValueRead
<1>4. QED
  BY <1>3, FailedRead DEF ParseString

(* parse_array() and parse_object() up to what they hold.                  *)
LEMMA OpenRead ==
    ASSUME ParserInv, ReadInv, parser.active, NEW before, Checkpoint(before),
           ParsingOK(heap, before, parser.stack, parser.at),
           NEW lexeme, Takes(lexeme), ParseOpen(lexeme)
    PROVE  ReadInv'
<1> DEFINE type == OpenedType(lexeme)
           at == IF type = "Array" THEN "element" ELSE "member"
           made == Make(heap, [type |-> type])
           stack == parser.stack
           id == heap.count
           longer == Append(stack, OpenFrame(id))
<1>1. /\ DocumentOK(heap) /\ parser.at \in {"value", "element"}
      /\ stack \in Seq(Frames) /\ FramesOK(heap, stack)
  BY ParsingFrames DEF ParsingOK, ParseOpen, AtValue
<1>2. made.code = "Ok" => Added(made.heap, heap, type)
  BY <1>1, OpeningMade
<1>c. Characters(lexeme) = One(Opening(type))
  <2>1. lexeme.kind \in {"[", "{"}
    BY DEF ParseOpen
  <2>2. lexeme.kind \in Scalars \cup Punctuation
    BY <2>1 DEF Punctuation
  <2>3. lexeme.kind = Opening(type)
    BY <2>1, Zenon DEF Opening, OpenedType
  <2>4. QED
    BY <2>2, <2>3, CharactersAre
<1>p. /\ at \in {"element", "member"} /\ at # "trailing" /\ at # "next"
  OBVIOUS
<1>r. read = Around(heap, stack, Len(stack))
  <2>1. SoFar(heap, stack, parser.at, read)
    BY <1>1 DEF ReadInv
  <2>2. QED
    BY <1>1, <2>1, ElementIsValue DEF SoFar
<1> HIDE DEF made, type
<1>3. CASE made.code = "Ok" /\ GoOnAt(at, made.heap, longer)
  <2>1. PICK g : g = made.heap
    OBVIOUS
  <2>2. Added(g, heap, type) /\ GoOnAt(at, g, longer)
    BY <1>2, <1>3, <2>1
  <2> HIDE DEF at
  <2>3. HeapOK(g) /\ Around(g, stack, Len(stack)) = read
    BY <1>1, <1>r, <2>2, AddedAround
  <2>4. id \in Ids /\ g.type[id] = type /\ g.first[id] = Nil
    BY <2>2 DEF Added, Grown
  <2> HIDE DEF id
  <2>5. Begun(g, id) = One(Opening(type))
    BY <2>4 DEF Begun
  <2> DEFINE frame == OpenFrame(id)
  <2>6. frame \in Frames /\ frame.id = id
    BY <2>4, NoRefTyped DEF OpenFrame, Frames
  <2> HIDE DEF frame
  <2>7. PICK n \in Nat : n = Len(stack)
    BY <1>1
  <2>8. /\ longer # <<>> /\ Len(longer) = n + 1 /\ longer[n + 1] = frame
        /\ \A k \in DOMAIN stack : longer[k] = stack[k]
    BY <1>1, <2>6, <2>7, Pushed DEF frame
  <2> HIDE DEF longer, stack
  <2>9. Len(longer) - 1 = n /\ longer[Len(longer)] = frame
    BY <2>8
  <2>10. Around(g, longer, n) = read
    <3>1. \A k \in 1 .. n : longer[k] = stack[k]
      BY <1>1, <2>7, <2>8
    <3>2. Around(g, longer, n) = Around(g, stack, n)
      BY <3>1, AroundSame
    <3>3. QED
      BY <2>3, <2>7, <3>2
  <2>11. TextTo(g, longer, at) = Cat(read, One(Opening(type)))
    <3>1. Latest(g, frame, at) = One(Opening(type))
      BY <1>p, <2>5, <2>6 DEF Latest
    <3>2. QED
      BY <2>8, <2>9, <2>10, <3>1 DEF TextTo
  <2>12. FirstChildOK(g, longer, at)
    BY <1>p, <2>4, <2>6, <2>9 DEF FirstChildOK
  <2>13. SoFar(g, longer, at, Cat(read, Characters(lexeme)))
    BY <1>c, <2>11, <2>12 DEF SoFar
  <2>14. QED
    BY <1>p, <2>2, <2>13, GoOnRead
<1>4. QED
  BY <1>3, FailedRead DEF ParseOpen, OpenedType, made, type

(* The end of parse_array() and parse_object().                            *)
LEMMA CloseRead ==
    ASSUME ParserInv, ReadInv, parser.active, NEW before, Checkpoint(before),
           ParsingOK(heap, before, parser.stack, parser.at),
           NEW lexeme, Takes(lexeme), ParseClose(lexeme)
    PROVE  ReadInv'
<1> DEFINE stack == parser.stack
           n == Len(stack)
           rest == SubSeq(stack, 1, n - 1)
           id == stack[n].id
<1>1. /\ stack # <<>> /\ parser.at \in {"element", "member", "next"}
      /\ stack \in Seq(Frames) /\ FramesOK(heap, stack) /\ HeapOK(heap)
      /\ OpenOK(heap, before, stack, parser.at)
  BY ParsingFrames DEF ParsingOK, DocumentOK, PlaceOK, ParseClose
<1>2. /\ Deliver(id, heap, rest) /\ Loose(heap, before, id)
      /\ \A k \in DOMAIN rest : rest[k].id # id
      /\ ParsingOK(heap, before, rest, "value")
  BY ClosedOK
<1>3. /\ n \in DOMAIN stack /\ stack[n].id \in Live(heap)
      /\ heap.type[stack[n].id] \in Containers
  BY <1>1, TopFrame DEF OpenOK, Loose
<1>4. PICK m \in Nat : /\ n = m + 1 /\ n - 1 = m /\ m < n /\ m <= n
                       /\ \A k \in 1 .. m : k \in DOMAIN stack
  BY <1>1, Innermost
<1>5. Len(rest) = m /\ \A k \in 1 .. m : rest[k] = stack[k]
  <2>1. Len(stack) = n /\ stack \in Seq(Frames) /\ DOMAIN stack = 1 .. n
    BY <1>1
  <2>2. rest = SubSeq(stack, 1, m)
    BY <1>4
  <2> HIDE DEF n, stack, rest
  <2>3. QED
    BY <1>4, <2>1, <2>2
<1>6. SoFar(heap, stack, parser.at, read)
  BY <1>1 DEF ReadInv
<1>c. Characters(lexeme) = One(Closing(heap.type[id]))
  <2>1. lexeme.kind = Closing(heap.type[id])
    BY DEF ParseClose, TopType, Top, Seqs!Last
  <2> HIDE DEF id
  <2>2. Closing(heap.type[id]) \in Punctuation
    BY Zenon DEF Closing, Punctuation
  <2>3. lexeme.kind \in Scalars \cup Punctuation
    BY <2>1, <2>2
  <2>4. QED
    BY <2>1, <2>3, CharactersAre
<1> HIDE DEF n
<1>7. read = Cat(Around(heap, stack, m), Begun(heap, id))
  <2>1. Latest(heap, stack[n], parser.at) = Begun(heap, id)
    BY <1>1 DEF Latest
  <2>2. QED
    BY <1>1, <1>4, <1>6, <2>1 DEF SoFar, TextTo, n
<1> HIDE DEF rest
<1>8. Around(heap, rest, Len(rest)) = Around(heap, stack, m)
      /\ AText(Around(heap, stack, m))
  <2>1. AText(Around(heap, stack, m))
    BY <1>1, <1>4, AroundMore DEF n
  <2>2. Around(heap, rest, m) = Around(heap, stack, m)
    BY <1>5, AroundSame
  <2>3. QED
    BY <1>5, <2>1, <2>2
<1>9. /\ Render(heap, id, Compact)
            = Cat(Begun(heap, id), One(Closing(heap.type[id])))
      /\ AText(Begun(heap, id)) /\ AText(One(Closing(heap.type[id])))
  <2>1. heap.type[id] # "String" /\ heap.type[id] \in Containers
    BY <1>3 DEF Containers
  <2>2. QED
    BY <1>1, <1>3, <2>1, OnOneLine, BegunTyped, PunctuationTyped
<1> HIDE DEF id, stack
<1>10. Cat(read, Characters(lexeme))
          = Cat(Around(heap, rest, Len(rest)), Render(heap, id, Compact))
  BY <1>c, <1>7, <1>8, <1>9, CatAssociative
<1>11. QED
  BY <1>2, <1>10, DeliverRead

(* parse_string() for a key.                                               *)
LEMMA KeyRead ==
    ASSUME ParserInv, ReadInv, parser.active, NEW before, Checkpoint(before),
           ParsingOK(heap, before, parser.stack, parser.at),
           NEW lexeme \in Lexemes, Takes(lexeme), ParseKey(lexeme)
    PROVE  ReadInv'
<1> DEFINE text == lexeme.text
           parsed == ParseText(heap, lexeme)
           g == CopyString(heap, text)
           stack == parser.stack
           n == Len(stack)
           ref == NextRef(heap, Len(text))
           escape == NeedsEscape(text)
           rest == [stack EXCEPT ![n].key = ref, ![n].flags = escape]
<1>1. /\ HeapOK(heap) /\ stack \in Seq(Frames) /\ stack # <<>>
      /\ lexeme.kind = "String" /\ parser.at \in {"member", "key"}
      /\ FramesOK(heap, stack)
  BY ParsingFrames DEF ParsingOK, DocumentOK, PlaceOK, ParseKey
<1>2. parsed.code = "Ok" =>
         /\ HasRoom(heap, text) /\ WellFormed(text) /\ parsed.heap = g
  BY <1>1, ParsedText
<1>3. SoFar(heap, stack, parser.at, read)
  BY <1>1 DEF ReadInv
<1>c. Characters(lexeme) = Quoted(text)
  BY <1>1, CharactersAre
<1>4. PICK m \in Nat : /\ Len(stack) = m + 1 /\ Len(stack) - 1 = m
                       /\ m <= Len(stack)
                       /\ \A k \in 1 .. m : k \in DOMAIN stack
                                            /\ k # Len(stack)
  BY <1>1, Innermost
<1>5. n \in DOMAIN stack
  BY <1>1, TopFrame
<1> DEFINE top == stack[n]
<1>6. top \in Frames /\ top.id \in Live(heap)
  BY <1>1, <1>5 DEF FramesOK
<1>7. read = Cat(Around(heap, stack, m), Reached(heap, top))
  <2>1. Latest(heap, top, parser.at) = Reached(heap, top)
    <3>1. CASE parser.at = "key"
      BY <3>1 DEF Latest
    <3>2. CASE parser.at = "member"
      <4>1. heap.first[top.id] = Nil
        BY <1>1, <1>3, <3>2 DEF SoFar, FirstChildOK
      <4>2. AText(Begun(heap, top.id))
        BY <1>1, <1>6, LeadTyped
      <4>3. Reached(heap, top) = Begun(heap, top.id)
        BY <4>1, <4>2, CatNothing DEF Reached, Between
      <4>4. QED
        BY <3>2, <4>3 DEF Latest
    <3>3. QED
      BY <1>1, <3>1, <3>2
  <2>2. QED
    BY <1>1, <1>3, <1>4, <2>1 DEF SoFar, TextTo
<1> HIDE DEF parsed
<1>8. CASE parsed.code = "Ok" /\ GoOnAt("colon", parsed.heap, rest)
  <2>1. HasRoom(heap, text) /\ GoOnAt("colon", g, rest)
    BY <1>2, <1>8
  <2>2. /\ HeapOK(g) /\ Agree(g, heap) /\ BytesKept(g, heap)
        /\ ViewString(g, ref) = text
    BY <1>1, <2>1, CopyKeepsForest, CopyKeepsBytes, CopiedView DEF HasRoom
  <2>r. ref \in StringRefs /\ escape \in BOOLEAN
    BY <1>1, <2>1, NextRefFits DEF HasRoom, NeedsEscape
  <2>s. stack \in Seq(Frames) /\ stack # <<>>
    BY <1>1
  <2> HIDE DEF g, ref, escape
  <2>3. /\ Len(rest) = Len(stack) /\ DOMAIN rest = DOMAIN stack
        /\ \A k \in DOMAIN stack :
              /\ rest[k].id = stack[k].id
              /\ rest[k].key = IF k = n THEN ref ELSE stack[k].key
              /\ rest[k].flags = IF k = n THEN escape ELSE stack[k].flags
        /\ rest \in Seq(Frames)
    <3> HIDE DEF stack
    <3>1. PICK s \in Seq(Frames), r \in StringRefs, e \in BOOLEAN :
             s = stack /\ r = ref /\ e = escape
      BY <2>r, <2>s
    <3> DEFINE q == [s EXCEPT ![Len(s)].key = r, ![Len(s)].flags = e]
    <3>2. /\ q \in Seq(Frames) /\ Len(q) = Len(s) /\ DOMAIN q = DOMAIN s
          /\ \A k \in DOMAIN s :
                /\ q[k].id = s[k].id
                /\ q[k].key = IF k = Len(s) THEN r ELSE s[k].key
                /\ q[k].flags = IF k = Len(s) THEN e ELSE s[k].flags
      BY <2>s, <3>1, KeyedFrame
    <3>3. q = rest
      BY <3>1
    <3> HIDE DEF q, rest
    <3>4. QED
      BY <3>1, <3>2, <3>3
  <2> HIDE DEF rest
  <2>4. SameNodes(g, heap) /\ Live(heap) \subseteq Live(g)
    BY <2>2 DEF Agree, Live
  <2>5. \A k \in DOMAIN stack : /\ Reached(g, stack[k]) = Reached(heap, stack[k])
                                /\ Lead(g, stack[k]) = Lead(heap, stack[k])
    BY <1>1, <2>2, <2>4, ExtendedLeads
  <2>6. Around(g, rest, m) = Around(heap, stack, m)
    <3>1. ASSUME NEW k \in 1 .. m PROVE Lead(g, rest[k]) = Lead(heap, stack[k])
      <4>1. /\ k \in DOMAIN stack /\ rest[k].id = stack[k].id
            /\ rest[k].key = stack[k].key
        BY <1>4, <2>3
      <4>2. Lead(g, rest[k]) = Lead(g, stack[k])
        BY <4>1 DEF Lead, Reached, NameText
      <4>3. QED
        BY <2>5, <4>1, <4>2
    <3>2. QED
      BY <3>1, AroundSame
  <2>7. rest[n].id = top.id /\ rest[n].key = ref /\ rest # <<>>
    BY <1>1, <1>5, <2>3
  <2>8. Reached(g, rest[n]) = Reached(heap, top)
    BY <1>5, <2>5, <2>7 DEF Reached
  <2>9. TextTo(g, rest, "colon")
           = Cat(Around(heap, stack, m), Cat(Reached(heap, top), Quoted(text)))
    <3>1. Latest(g, rest[n], "colon") = Cat(Reached(heap, top), Quoted(text))
      BY <2>2, <2>7, <2>8 DEF Latest
    <3>2. QED
      BY <1>4, <2>3, <2>6, <2>7, <3>1 DEF TextTo
  <2>10. /\ AText(Around(heap, stack, m)) /\ AText(Reached(heap, top))
         /\ AText(Quoted(text))
    <3>1. AText(Around(heap, stack, m))
      BY <1>1, <1>4, AroundMore
    <3>2. AText(Reached(heap, top))
      BY <1>1, <1>6, LeadTyped
    <3>3. AText(Quoted(text))
      BY <2>2, <2>r, ViewIsString, QuotedTyped DEF HeapOK
    <3>4. QED
      BY <3>1, <3>2, <3>3
  <2> HIDE DEF text, top
  <2>11. Cat(read, Characters(lexeme)) = TextTo(g, rest, "colon")
    BY <1>c, <1>7, <2>9, <2>10, CatAssociative
  <2>12. FirstChildOK(g, rest, "colon")
    BY DEF FirstChildOK
  <2>13. SoFar(g, rest, "colon", Cat(read, Characters(lexeme)))
    BY <2>11, <2>12 DEF SoFar
  <2>14. QED
    BY <2>1, <2>13, GoOnRead
<1>9. QED
  BY <1>8, FailedRead DEF ParseKey, parsed

(* A "," between the children of a container.                              *)
LEMMA CommaRead ==
    ASSUME ParserInv, ReadInv, parser.active, NEW before, Checkpoint(before),
           ParsingOK(heap, before, parser.stack, parser.at),
           NEW lexeme, Takes(lexeme), ParseComma(lexeme)
    PROVE  ReadInv'
<1> DEFINE stack == parser.stack
           n == Len(stack)
           top == stack[n]
           next == IF TopType = "Array" THEN "value" ELSE "key"
<1>1. /\ stack \in Seq(Frames) /\ stack # <<>> /\ parser.at = "next"
      /\ FramesOK(heap, stack) /\ HeapOK(heap)
      /\ GoOnAt(next, heap, stack)
  BY ParsingFrames DEF ParsingOK, DocumentOK, PlaceOK, ParseComma
<1>2. TopType = heap.type[top.id]
  BY DEF TopType, Top, Seqs!Last
<1>c. Characters(lexeme) = Comma
  <2>1. lexeme.kind = ","
    BY DEF ParseComma
  <2>2. lexeme.kind \in Scalars \cup Punctuation
    BY <2>1 DEF Punctuation
  <2>3. Characters(lexeme) = One(lexeme.kind)
    BY <2>2, CharactersAre
  <2>4. QED
    BY <2>1, <2>3, Zenon DEF Comma
<1>3. SoFar(heap, stack, parser.at, read)
  BY <1>1 DEF ReadInv
<1>4. PICK m \in Nat : Len(stack) = m + 1 /\ Len(stack) - 1 = m
                       /\ m <= Len(stack)
  BY <1>1, Innermost
<1>5. top \in Frames /\ top.id \in Live(heap)
  BY <1>1, TopFrame DEF FramesOK
<1>6. heap.first[top.id] # Nil
  BY <1>1, <1>3 DEF SoFar, FirstChildOK
<1>7. read = Cat(Around(heap, stack, m), Begun(heap, top.id))
  <2>1. Latest(heap, top, "next") = Begun(heap, top.id)
    BY DEF Latest
  <2>2. QED
    BY <1>1, <1>3, <1>4, <2>1 DEF SoFar, TextTo
<1>8. /\ AText(Around(heap, stack, m)) /\ AText(Begun(heap, top.id))
      /\ AText(Reached(heap, top)) /\ AText(Comma)
  BY <1>1, <1>4, <1>5, AroundMore, LeadTyped, PunctuationTyped
<1>9. Reached(heap, top) = Cat(Begun(heap, top.id), Comma)
  BY <1>6 DEF Reached, Between
<1>10. Latest(heap, top, next) = Reached(heap, top)
  <2>1. CASE TopType = "Array"
    <3>1. NameText(heap, top) = <<>>
      BY <1>2, <2>1 DEF NameText
    <3>2. Lead(heap, top) = Reached(heap, top)
      BY <1>8, <3>1, CatNothing DEF Lead
    <3>3. QED
      BY <2>1, <3>2 DEF Latest
  <2>2. CASE TopType # "Array"
    BY <2>2 DEF Latest
  <2>3. QED
    BY <2>1, <2>2
<1>11. next # "trailing" /\ next \notin {"element", "member", "next"}
  OBVIOUS
<1> HIDE DEF next, top
<1>12. TextTo(heap, stack, next)
          = Cat(Around(heap, stack, m), Cat(Begun(heap, top.id), Comma))
  BY <1>1, <1>4, <1>9, <1>10 DEF TextTo, top
<1>13. Cat(read, Characters(lexeme)) = TextTo(heap, stack, next)
  BY <1>c, <1>7, <1>8, <1>12, CatAssociative
<1>14. FirstChildOK(heap, stack, next)
  BY <1>11 DEF FirstChildOK
<1>15. SoFar(heap, stack, next, Cat(read, Characters(lexeme)))
  BY <1>13, <1>14 DEF SoFar
<1>16. QED
  BY <1>1, <1>11, <1>15, GoOnRead

(* The ":" after a key.                                                    *)
LEMMA ColonRead ==
    ASSUME ParserInv, ReadInv, parser.active, NEW before, Checkpoint(before),
           ParsingOK(heap, before, parser.stack, parser.at),
           NEW lexeme, Takes(lexeme), ParseColon(lexeme)
    PROVE  ReadInv'
<1> DEFINE stack == parser.stack
           n == Len(stack)
           top == stack[n]
           key == Quoted(ViewString(heap, top.key))
<1>1. /\ stack \in Seq(Frames) /\ stack # <<>> /\ parser.at = "colon"
      /\ FramesOK(heap, stack) /\ HeapOK(heap)
      /\ heap.type[top.id] = "Object"
      /\ GoOnAt("value", heap, stack)
  BY ParsingFrames DEF ParsingOK, DocumentOK, PlaceOK, ParseColon
<1>c. Characters(lexeme) = Pair
  <2>1. lexeme.kind = ":"
    BY DEF ParseColon
  <2>2. lexeme.kind \in Scalars \cup Punctuation
    BY <2>1 DEF Punctuation
  <2>3. Characters(lexeme) = One(lexeme.kind)
    BY <2>2, CharactersAre
  <2>4. QED
    BY <2>1, <2>3, Zenon DEF Pair
<1>3. SoFar(heap, stack, parser.at, read)
  BY <1>1 DEF ReadInv
<1>4. PICK m \in Nat : Len(stack) = m + 1 /\ Len(stack) - 1 = m
                       /\ m <= Len(stack)
  BY <1>1, Innermost
<1>5. top \in Frames /\ top.id \in Live(heap)
  BY <1>1, TopFrame DEF FramesOK
<1>6. /\ AText(Around(heap, stack, m)) /\ AText(Reached(heap, top))
      /\ AText(key) /\ AText(Pair) /\ AText(Cat(Reached(heap, top), key))
  BY <1>1, <1>4, <1>5, AroundMore, LeadTyped, PunctuationTyped, CatTyped
<1>7. read = Cat(Around(heap, stack, m), Cat(Reached(heap, top), key))
  <2>1. Latest(heap, top, "colon") = Cat(Reached(heap, top), key)
    BY DEF Latest
  <2>2. QED
    BY <1>1, <1>3, <1>4, <2>1 DEF SoFar, TextTo
<1>8. NameText(heap, top) = Cat(key, Pair)
  BY <1>1 DEF NameText
<1>9. TextTo(heap, stack, "value")
         = Cat(Around(heap, stack, m), Cat(Reached(heap, top), Cat(key, Pair)))
  <2>1. Latest(heap, top, "value") = Cat(Reached(heap, top), Cat(key, Pair))
    BY <1>8 DEF Latest, Lead
  <2>2. QED
    BY <1>1, <1>4, <2>1 DEF TextTo
<1> HIDE DEF key, top
<1>10. Cat(read, Characters(lexeme)) = TextTo(heap, stack, "value")
  <2> DEFINE a == Around(heap, stack, m)
             r == Reached(heap, top)
  <2>1. Cat(Cat(a, Cat(r, key)), Pair) = Cat(a, Cat(Cat(r, key), Pair))
    BY <1>6, CatAssociative
  <2>2. Cat(Cat(r, key), Pair) = Cat(r, Cat(key, Pair))
    BY <1>6, CatAssociative
  <2>3. QED
    BY <1>c, <1>7, <1>9, <2>1, <2>2
<1>11. FirstChildOK(heap, stack, "value")
  BY DEF FirstChildOK
<1>12. SoFar(heap, stack, "value", Cat(read, Characters(lexeme)))
  BY <1>10, <1>11 DEF SoFar
<1>13. QED
  BY <1>1, <1>12, GoOnRead

(* After every lexeme what has been read is the text of what there is.     *)
LEMMA LexemeRead ==
    ASSUME ParserInv, ReadInv, NEW lexeme \in Lexemes, ParseStep(lexeme)
    PROVE  ReadInv'
<1>1. parser.active /\ Takes(lexeme)
  BY DEF ParseStep, Takes, Cat
<1>2. PICK before : /\ Checkpoint(before)
                    /\ ParsingOK(heap, before, parser.stack, parser.at)
  BY <1>1 DEF ParserInv
<1>3. CASE ParseReturn(lexeme)
  <2>1. ~parser'.active
    BY <1>3 DEF ParseReturn, Idle
  <2>2. QED
    BY <1>1, <2>1 DEF ReadInv, Takes
<1>4. CASE ParseRefuse(lexeme)
  BY <1>1, <1>4, FailedRead DEF ParseRefuse
<1>5. QED
  BY <1>1, <1>2, <1>3, <1>4, ScalarRead, StringRead, OpenRead, CloseRead,
     KeyRead, CommaRead, ColonRead DEF ParseStep

(* So it is after every call.                                              *)
LEMMA ReadInvSafe ==
    ASSUME ParserInv, ReadInv, [ParserNext]_parserVars
    PROVE  ReadInv'
<1>1. CASE Client \/ Rest
  <2>1. ~parser'.active /\ read' = read /\ ~parser.active
    BY <1>1 DEF Client, Rest, parserVars
  <2>2. QED
    BY <2>1 DEF ReadInv
<1>2. CASE UNCHANGED parserVars
  BY <1>2 DEF parserVars, ReadInv
<1>3. ASSUME NEW maxDepth \in MaxDepths, NEW trailing \in BOOLEAN,
             NEW overlaps \in BOOLEAN, Parse(maxDepth, trailing, overlaps)
      PROVE  ReadInv'
  <2> DEFINE start == [count |-> heap.count, bytes |-> heap.bytes]
             begun == [Idle EXCEPT !.active = TRUE, !.maxDepth = maxDepth,
                                   !.trailing = trailing, !.start = start]
  <2>1. /\ UNCHANGED parser \/ parser' = begun
        /\ read' = <<>> /\ ~parser.active
    BY <1>3 DEF Parse, ReadInv
  <2>2. CASE UNCHANGED parser
    BY <2>1, <2>2 DEF ReadInv
  <2>3. CASE parser' = begun
    <3>1. begun.stack = <<>> /\ begun.at = "value" /\ begun.active
      BY DEF Idle
    <3> HIDE DEF begun, start
    <3>2. parser'.stack = <<>> /\ parser'.at = "value" /\ parser'.active
      BY <2>3, <3>1
    <3>3. SoFar(heap', <<>>, "value", <<>>)
      BY DEF SoFar, TextTo, FirstChildOK
    <3>4. QED
      BY <2>1, <3>2, <3>3 DEF ReadInv
  <2>4. QED
    BY <2>1, <2>2, <2>3
<1>4. QED
  BY <1>1, <1>2, <1>3, LexemeRead DEF ParserNext

(* At every lexeme, what has been read is the text of the document up to   *)
(* where the parser is: of the containers that are open, each up to the    *)
(* next, and of the key that waits.                                        *)
THEOREM ReadInvariant == ParserSpec => []ReadInv
<1>1. ParserInit => ReadInv
  BY DEF ParserInit, Idle, ReadInv
<1>2. ParserInv /\ ReadInv /\ [ParserNext]_parserVars => ReadInv'
  BY ReadInvSafe
<1>3. QED
  BY <1>1, <1>2, ParserInvariant, PTL DEF ParserSpec

(* What parse() returns, written out again on one line, is the text that   *)
(* was read, whatever the text, its depth and the document it came to.     *)
THEOREM ParsedIsRead == ParserSpec => ParsedAsRead
<1>1. ASSUME ParserInv, ReadInv, [ParserNext]_parserVars
      PROVE  [Returns("Ok") => Render(heap', parser.root, Compact) = read
             ]_parserVars
  <2> SUFFICES ASSUME ParserNext, Returns("Ok")
               PROVE  Render(heap', parser.root, Compact) = read
    BY <1>1
  <2>1. parser.active
    BY DEF Returns
  <2>2. PICK lexeme \in Lexemes : ParseStep(lexeme)
    BY <2>1 DEF ParserNext, Client, Rest, Parse, Returns, parserVars
  <2>3. ParseReturn(lexeme)
    BY <1>1, <2>2, OnlyReturnReturns
  <2>4. heap' = heap /\ parser.at = "trailing"
    BY <2>3 DEF ParseReturn
  <2>5. QED
    BY <1>1, <2>1, <2>4 DEF ReadInv
<1>2. QED
  BY <1>1, ParserInvariant, ReadInvariant, PTL DEF ParserSpec, ParsedAsRead

-----------------------------------------------------------------------------
(* Sums over a finite set.                                                 *)

SumOver(f, S) == Sets!MapThenSumSet(LAMBDA x : f[x], S)

(* The sums of f over the subsets of S, element by element.                *)
Some(s) == CHOOSE x \in s : TRUE

Summing(f, S, sum) ==
    sum = [s \in SUBSET S |->
              IF s = {} THEN 0 ELSE f[Some(s)] + sum[s \ {Some(s)}]]

Numbered(f, S) == IsFiniteSet(S) /\ \A x \in S : f[x] \in Nat

(* One element fewer.                                                      *)
LEMMA SubsetCounts ==
    ASSUME NEW S, IsFiniteSet(S), NEW s \in SUBSET S
    PROVE  /\ IsFiniteSet(s) /\ Cardinality(s) \in Nat
           /\ Cardinality(s) <= Cardinality(S) /\ Cardinality(S) \in Nat
           /\ \A x \in s : /\ s \ {x} \in SUBSET S
                           /\ Cardinality(s \ {x}) \in Nat
                           /\ Cardinality(s) = Cardinality(s \ {x}) + 1
           /\ s # {} => Some(s) \in s
<1>1. IsFiniteSet(s) /\ Cardinality(s) <= Cardinality(S)
  BY FS_Subset
<1>2. Cardinality(s) \in Nat /\ Cardinality(S) \in Nat
  BY <1>1, FS_CardinalityType
<1>3. ASSUME NEW x \in s
      PROVE  /\ s \ {x} \in SUBSET S /\ Cardinality(s \ {x}) \in Nat
             /\ Cardinality(s) = Cardinality(s \ {x}) + 1
  <2>1. IsFiniteSet(s \ {x}) /\ Cardinality(s \ {x}) = Cardinality(s) - 1
    BY <1>1, FS_RemoveElement
  <2>2. Cardinality(s \ {x}) \in Nat
    BY <2>1, FS_CardinalityType
  <2>3. QED
    BY <1>2, <2>1, <2>2
<1>4. s # {} => Some(s) \in s
  BY DEF Some
<1>5. QED
  BY <1>1, <1>2, <1>3, <1>4

(* What holds of a subset when it holds of it less any element holds of    *)
(* them all.                                                               *)
LEMMA SubsetInduction ==
    ASSUME NEW S, IsFiniteSet(S), NEW N,
           \A s \in SUBSET S : (\A x \in s : s \ {x} \in N) => s \in N
    PROVE  SUBSET S \subseteq N
<1> DEFINE D == SUBSET S
           rank == [s \in D |-> Cardinality(s)]
<1>1. rank \in [D -> Nat]
  BY SubsetCounts
<1>2. \A s \in D : \A x \in s : s \ {x} \in D /\ rank[s \ {x}] < rank[s]
  <2> SUFFICES ASSUME NEW s \in D, NEW x \in s
               PROVE  s \ {x} \in D /\ rank[s \ {x}] < rank[s]
    OBVIOUS
  <2>1. /\ s \ {x} \in D /\ Cardinality(s \ {x}) \in Nat
        /\ Cardinality(s) = Cardinality(s \ {x}) + 1
    BY SubsetCounts
  <2>2. rank[s] = Cardinality(s) /\ rank[s \ {x}] = Cardinality(s \ {x})
    BY <2>1
  <2> HIDE DEF rank
  <2>3. QED
    BY <2>1, <2>2
<1> HIDE DEF rank
<1>3. \A s \in D : (\A t \in D : rank[t] < rank[s] => t \in N) => s \in N
  BY <1>2
<1> HIDE DEF D
<1>4. D \subseteq N
  BY <1>1, <1>3, RankInduction
<1>5. QED
  BY <1>4 DEF D

(* Sums depend on nothing else.                                            *)
LEMMA SumsAgree ==
    ASSUME NEW S, IsFiniteSet(S), NEW T, S \subseteq T, NEW f, NEW g,
           \A x \in S : f[x] = g[x],
           NEW sum, Summing(f, S, sum), NEW tum, Summing(g, T, tum)
    PROVE  \A s \in SUBSET S : sum[s] = tum[s]
<1> DEFINE N == {s \in SUBSET S : sum[s] = tum[s]}
<1>1. ASSUME NEW s \in SUBSET S, \A x \in s : s \ {x} \in N
      PROVE  s \in N
  <2>1. /\ sum[s] = IF s = {} THEN 0 ELSE f[Some(s)] + sum[s \ {Some(s)}]
        /\ tum[s] = IF s = {} THEN 0 ELSE g[Some(s)] + tum[s \ {Some(s)}]
    BY DEF Summing
  <2>2. s # {} => Some(s) \in s
    BY SubsetCounts
  <2>3. s # {} => f[Some(s)] = g[Some(s)]
                  /\ sum[s \ {Some(s)}] = tum[s \ {Some(s)}]
    BY <1>1, <2>2
  <2>4. QED
    BY <2>1, <2>3
<1> HIDE DEF N
<1>2. SUBSET S \subseteq N
  BY <1>1, SubsetInduction
<1>3. QED
  BY <1>2 DEF N

(* There are such sums.                                                    *)
LEMMA SummingExists ==
    ASSUME NEW f, NEW S, Numbered(f, S)
    PROVE  \E sum \in [SUBSET S -> Nat] : Summing(f, S, sum)
<1> DEFINE D == SUBSET S
           F == [D -> Nat]
           rank == [s \in D |-> Cardinality(s)]
           Step(g, s) == IF s = {} THEN 0 ELSE f[Some(s)] + g[s \ {Some(s)}]
           B == [p \in F \X D |-> Step(p[1], p[2])]
<1>1. IsFiniteSet(S) /\ \A x \in S : f[x] \in Nat
  BY DEF Numbered
<1>2. rank \in [D -> Nat] /\ \A s \in D : rank[s] <= Cardinality(S)
      /\ Cardinality(S) \in Nat
  BY <1>1, SubsetCounts
<1>3. \A s \in D : s # {} => /\ Some(s) \in S /\ s \ {Some(s)} \in D
                             /\ rank[s \ {Some(s)}] < rank[s]
  <2> SUFFICES ASSUME NEW s \in D, s # {}
               PROVE  /\ Some(s) \in S /\ s \ {Some(s)} \in D
                      /\ rank[s \ {Some(s)}] < rank[s]
    OBVIOUS
  <2>1. Some(s) \in s /\ s \ {Some(s)} \in D
    BY <1>1, SubsetCounts
  <2>2. /\ Cardinality(s \ {Some(s)}) \in Nat
        /\ Cardinality(s) = Cardinality(s \ {Some(s)}) + 1
    BY <1>1, <2>1, SubsetCounts
  <2>3. rank[s] = Cardinality(s)
        /\ rank[s \ {Some(s)}] = Cardinality(s \ {Some(s)})
    BY <2>1
  <2> HIDE DEF rank
  <2>4. QED
    BY <2>1, <2>2, <2>3
<1>4. \A g \in F, s \in D : B[<<g, s>>] = Step(g, s)
  OBVIOUS
<1> HIDE DEF B, rank
<1>5. Recursion(B, D, Nat, rank)
  <2>1. ASSUME NEW g \in F, NEW s \in D PROVE B[<<g, s>>] \in Nat
    <3>1. s # {} => f[Some(s)] \in Nat /\ g[s \ {Some(s)}] \in Nat
      BY <1>1, <1>3, <2>1
    <3>2. Step(g, s) \in Nat
      <4>1. CASE s = {}
        BY <4>1
      <4>2. CASE s # {}
        <5>1. PICK a \in Nat, b \in Nat :
                 a = f[Some(s)] /\ b = g[s \ {Some(s)}]
          BY <3>1, <4>2
        <5>2. Step(g, s) = a + b
          BY <4>2, <5>1
        <5>3. QED
          BY <5>2
      <4>3. QED
        BY <4>1, <4>2
    <3> HIDE DEF Step
    <3>3. QED
      BY <1>4, <3>2
  <2>2. ASSUME NEW g \in F, NEW k \in F, NEW s \in D,
               \A t \in D : rank[t] < rank[s] => g[t] = k[t]
        PROVE  B[<<g, s>>] = B[<<k, s>>]
    <3>1. Step(g, s) = Step(k, s)
      BY <1>3, <2>2
    <3>2. QED
      BY <1>4, <3>1
  <2> HIDE DEF D
  <2>3. QED
    BY <1>2, <2>1, <2>2 DEF Recursion
<1>6. PICK sum \in [D -> Nat] : \A s \in D : sum[s] = B[<<sum, s>>]
  <2> HIDE DEF D
  <2>1. QED
    BY <1>5, RecursionExists
<1>7. sum = [s \in D |-> Step(sum, s)]
  BY <1>4, <1>6
<1>8. QED
  BY <1>6, <1>7 DEF Summing

(* A sum over all of S is one of them.                                     *)
LEMMA SumIs ==
    ASSUME NEW f, NEW S, Numbered(f, S)
    PROVE  \E sum \in [SUBSET S -> Nat] :
              Summing(f, S, sum) /\ SumOver(f, S) = sum[S]
<1>1. PICK made \in [SUBSET S -> Nat] : Summing(f, S, made)
  BY SummingExists
<1> DEFINE sum == CHOOSE sum : Summing(f, S, sum)
<1>2. SumOver(f, S) = sum[S]
  BY DEF SumOver, Sets!MapThenSumSet, Sets!MapThenFoldSet, Summing, Some
<1>3. Summing(f, S, sum)
  BY <1>1
<1> HIDE DEF sum
<1>4. \A s \in SUBSET S : made[s] = sum[s]
  BY <1>1, <1>3, SumsAgree DEF Numbered
<1>5. QED
  BY <1>1, <1>2, <1>4

(* They are numbers.                                                       *)
SummingUp(f, S, sum) == sum \in [SUBSET S -> Nat] /\ Summing(f, S, sum)

(* It does not matter which element comes first.                           *)
LEMMA SumAnyFirst ==
    ASSUME NEW f, NEW S, Numbered(f, S), NEW sum, SummingUp(f, S, sum)
    PROVE  \A x \in S : sum[S] = f[x] + sum[S \ {x}]
<1> DEFINE N == {s \in SUBSET S : \A x \in s : sum[s] = f[x] + sum[s \ {x}]}
<1>1. IsFiniteSet(S) /\ \A x \in S : f[x] \in Nat
  BY DEF Numbered
<1>s. Summing(f, S, sum) /\ \A s \in SUBSET S : sum[s] \in Nat
  BY DEF SummingUp
<1>2. ASSUME NEW s \in SUBSET S, \A x \in s : s \ {x} \in N
      PROVE  s \in N
  <2> SUFFICES ASSUME NEW x \in s PROVE sum[s] = f[x] + sum[s \ {x}]
    OBVIOUS
  <2> DEFINE y == Some(s)
  <2>1. y \in s /\ sum[s] = f[y] + sum[s \ {y}]
    BY SubsetCounts, <1>1, <1>s DEF Summing
  <2> HIDE DEF y
  <2>2. CASE x = y
    BY <2>1, <2>2
  <2>3. CASE x # y
    <3> DEFINE r == (s \ {x}) \ {y}
    <3>1. /\ s \ {x} \in N /\ y \in s \ {x}
          /\ s \ {y} \in N /\ x \in s \ {y}
          /\ (s \ {y}) \ {x} = r /\ r \in SUBSET S
      BY <1>2, <2>1, <2>3
    <3>2. sum[s \ {x}] = f[y] + sum[r] /\ sum[s \ {y}] = f[x] + sum[r]
      BY <3>1
    <3> HIDE DEF r
    <3>3. PICK a \in Nat, b \in Nat, c \in Nat :
             a = f[x] /\ b = f[y] /\ c = sum[r]
      BY <1>1, <1>s, <2>1, <3>1
    <3>4. sum[s] = b + (a + c) /\ sum[s \ {x}] = b + c
      BY <2>1, <3>2, <3>3
    <3>5. sum[s] = a + (b + c)
      BY <3>4
    <3>6. QED
      BY <3>3, <3>4, <3>5
  <2>4. QED
    BY <2>2, <2>3
<1> HIDE DEF N
<1>3. SUBSET S \subseteq N
  <2>1. \A s \in SUBSET S : (\A x \in s : s \ {x} \in N) => s \in N
    BY <1>2
  <2>2. IsFiniteSet(S)
    BY <1>1
  <2>3. QED
    BY <2>1, <2>2, SubsetInduction
<1>4. S \in N
  BY <1>3
<1>5. QED
  BY <1>4 DEF N

(* The sum over nothing.                                                   *)
LEMMA SumNone == ASSUME NEW f PROVE SumOver(f, {}) = 0
<1>1. Numbered(f, {})
  BY FS_EmptySet DEF Numbered
<1>2. PICK sum : Summing(f, {}, sum) /\ SumOver(f, {}) = sum[{}]
  BY <1>1, SumIs
<1>3. QED
  BY <1>2 DEF Summing

(* A sum of numbers is a number.                                           *)
LEMMA SumTyped ==
    ASSUME NEW f, NEW S, Numbered(f, S)
    PROVE  SumOver(f, S) \in Nat
<1>1. PICK sum \in [SUBSET S -> Nat] : SumOver(f, S) = sum[S]
  BY SumIs
<1>2. QED
  BY <1>1

(* Two sums of the same numbers.                                           *)
LEMMA SumSame ==
    ASSUME NEW f, NEW g, NEW S, Numbered(f, S), \A x \in S : g[x] = f[x]
    PROVE  SumOver(g, S) = SumOver(f, S)
<1>1. Numbered(g, S) /\ IsFiniteSet(S)
  BY DEF Numbered
<1>2. PICK sum : Summing(f, S, sum) /\ SumOver(f, S) = sum[S]
  BY SumIs
<1>3. PICK tum : Summing(g, S, tum) /\ SumOver(g, S) = tum[S]
  BY <1>1, SumIs
<1>4. S \in SUBSET S /\ S \subseteq S
  OBVIOUS
<1>5. sum[S] = tum[S]
  BY <1>1, <1>2, <1>3, <1>4, SumsAgree
<1>6. QED
  BY <1>2, <1>3, <1>5

(* One number more.                                                        *)
LEMMA SumMore ==
    ASSUME NEW f, NEW S, NEW x, x \notin S, Numbered(f, S), f[x] \in Nat
    PROVE  /\ Numbered(f, S \cup {x})
           /\ SumOver(f, S \cup {x}) = f[x] + SumOver(f, S)
<1> DEFINE T == S \cup {x}
<1>1. Numbered(f, T) /\ IsFiniteSet(S)
  BY FS_AddElement DEF Numbered
<1>2. S \subseteq T /\ T \in SUBSET T /\ x \in T /\ T \ {x} = S
      /\ S \in SUBSET S
  OBVIOUS
<1> HIDE DEF T
<1>3. PICK sum : SummingUp(f, T, sum) /\ SumOver(f, T) = sum[T]
  BY <1>1, SumIs DEF SummingUp
<1>4. PICK part : Summing(f, S, part) /\ SumOver(f, S) = part[S]
  BY SumIs
<1>5. sum[T] = f[x] + sum[S]
  <2>1. \A y \in T : sum[T] = f[y] + sum[T \ {y}]
    BY <1>1, <1>3, SumAnyFirst
  <2>2. QED
    BY <1>2, <2>1
<1>6. part[S] = sum[S]
  BY <1>1, <1>2, <1>3, <1>4, SumsAgree DEF SummingUp
<1>7. QED
  BY <1>1, <1>3, <1>4, <1>5, <1>6 DEF T

(* One number another.                                                     *)
LEMMA SumChanged ==
    ASSUME NEW f, NEW g, NEW S, Numbered(f, S), Numbered(g, S), NEW x \in S,
           \A y \in S : y # x => g[y] = f[y]
    PROVE  SumOver(g, S) + f[x] = SumOver(f, S) + g[x]
<1> DEFINE R == S \ {x}
<1>1. S = R \cup {x} /\ x \notin R /\ \A y \in R : g[y] = f[y]
  OBVIOUS
<1>2. Numbered(f, R) /\ Numbered(g, R) /\ f[x] \in Nat /\ g[x] \in Nat
  BY FS_RemoveElement DEF Numbered
<1> HIDE DEF R
<1>3. SumOver(g, R) = SumOver(f, R) /\ SumOver(f, R) \in Nat
  BY <1>1, <1>2, SumSame, SumTyped
<1>4. SumOver(f, S) = f[x] + SumOver(f, R)
  BY <1>1, <1>2, SumMore
<1>5. SumOver(g, S) = g[x] + SumOver(g, R)
  BY <1>1, <1>2, SumMore
<1>6. PICK a \in Nat, b \in Nat, c \in Nat :
         a = f[x] /\ b = g[x] /\ c = SumOver(f, R)
  BY <1>2, <1>3
<1>7. SumOver(g, S) = b + c /\ SumOver(f, S) = a + c
  BY <1>3, <1>4, <1>5, <1>6
<1>8. QED
  BY <1>6, <1>7

-----------------------------------------------------------------------------
(* The bytes that a parse has taken.                                       *)

(* The nodes that are new since there were count, and the bytes of their   *)
(* texts.                                                                  *)
Since(h, count) == Live(h) \ 0 .. count - 1

Lengths(h) == [i \in Ids |-> h.key[i].len + h.value[i].len]

Owned(h, count) == SumOver(Lengths(h), Since(h, count))

(* The bytes of the keys that wait for their nodes.                        *)
KeyLengths(stack) == [k \in DOMAIN stack |-> stack[k].key.len]

Owed(stack) == SumOver(KeyLengths(stack), DOMAIN stack)

(* These are numbers.                                                      *)
LEMMA OwnedTyped ==
    ASSUME NEW h, HeapOK(h), NEW count
    PROVE  /\ Numbered(Lengths(h), Since(h, count)) /\ Owned(h, count) \in Nat
           /\ \A i \in Ids : /\ h.key[i].len \in Nat /\ h.value[i].len \in Nat
                             /\ Lengths(h)[i] = h.key[i].len + h.value[i].len
                             /\ Lengths(h)[i] \in Nat
           /\ Since(h, count) \subseteq Ids
<1>1. \A i \in Ids : h.key[i].len \in Nat /\ h.value[i].len \in Nat
  <2>1. h \in Heaps /\ U16Max \in Nat
    BY IdsBelowNil DEF HeapOK
  <2>2. ASSUME NEW ref \in StringRefs PROVE ref.len \in Nat
    BY <2>1 DEF StringRefs
  <2>3. \A i \in Ids : h.key[i] \in StringRefs /\ h.value[i] \in StringRefs
    BY <2>1 DEF Heaps
  <2>4. QED
    BY <2>2, <2>3
<1>2. \A i \in Ids : Lengths(h)[i] = h.key[i].len + h.value[i].len
  BY DEF Lengths
<1>3. \A i \in Ids : Lengths(h)[i] \in Nat
  BY <1>1, <1>2
<1>4. Since(h, count) \subseteq Ids
  BY DEF Since, Live
<1>5. IsFiniteSet(Since(h, count))
  <2>1. IsFiniteSet(Addresses)
    BY FS_Interval, SizesAssumption DEF Addresses
  <2>2. Since(h, count) \in SUBSET Addresses
    BY <1>4 DEF Ids
  <2>3. QED
    BY <2>1, <2>2, FS_Subset
<1>6. Numbered(Lengths(h), Since(h, count))
  BY <1>3, <1>4, <1>5 DEF Numbered
<1>7. QED
  BY <1>1, <1>2, <1>3, <1>4, <1>6, SumTyped DEF Owned

(* A node that is added brings the bytes of its value.                     *)
LEMMA OwnedGrown ==
    ASSUME NEW h, HeapOK(h), NEW g, HeapOK(g), NEW type, Grown(g, h, type),
           NEW count \in Nat, count <= h.count
    PROVE  Owned(g, count) = g.value[h.count].len + Owned(h, count)
<1> DEFINE id == h.count
           S == Since(h, count)
<1>1. /\ id \in Ids /\ id \in Nat /\ g.count = h.count + 1
      /\ SameNodes(g, h) /\ g.key[id] = NoRef
  BY IdsBelowNil DEF Grown, Extends
<1>2. Live(g) = Live(h) \cup {id} /\ id \notin Live(h)
  BY <1>1, GrownLive
<1>3. Since(g, count) = S \cup {id} /\ id \notin S
  <2>1. id \notin 0 .. count - 1
    BY <1>1
  <2>2. QED
    BY <1>2, <2>1 DEF Since
<1>4. S \subseteq Live(h) /\ S \subseteq Ids /\ Numbered(Lengths(h), S)
  BY OwnedTyped DEF Since
<1>5. ASSUME NEW i \in S PROVE Lengths(g)[i] = Lengths(h)[i]
  <2>1. i \in Ids /\ g.key[i] = h.key[i] /\ g.value[i] = h.value[i]
    BY <1>1, <1>4 DEF SameNodes
  <2>2. QED
    BY <2>1 DEF Lengths
<1>6. Lengths(g)[id] = g.value[id].len /\ Lengths(g)[id] \in Nat
  <2>1. NoRef.len = 0
    BY DEF NoRef
  <2>2. Lengths(g)[id] = g.key[id].len + g.value[id].len
        /\ g.value[id].len \in Nat
    BY <1>1, OwnedTyped
  <2>3. QED
    BY <1>1, <2>1, <2>2
<1> HIDE DEF S, id
<1>7. SumOver(Lengths(g), S) = SumOver(Lengths(h), S)
      /\ Numbered(Lengths(g), S)
  BY <1>4, <1>5, SumSame DEF Numbered
<1>8. SumOver(Lengths(g), S \cup {id})
         = Lengths(g)[id] + SumOver(Lengths(g), S)
  BY <1>3, <1>6, <1>7, SumMore
<1>9. QED
  BY <1>3, <1>6, <1>7, <1>8 DEF Owned, S, id

(* A node that gets a key gets its bytes.                                  *)
LEMMA OwnedKeyed ==
    ASSUME NEW h, HeapOK(h), NEW g, HeapOK(g), Live(g) = Live(h),
           NEW count, NEW id \in Since(h, count),
           h.key[id].len = 0, g.value = h.value,
           \A i \in Ids : i # id => g.key[i] = h.key[i]
    PROVE  Owned(g, count) = g.key[id].len + Owned(h, count)
<1> DEFINE S == Since(h, count)
<1>1. /\ S \subseteq Ids /\ Numbered(Lengths(h), S) /\ Since(g, count) = S
      /\ Numbered(Lengths(g), S)
  <2>1. Since(g, count) = S
    BY DEF Since
  <2>2. QED
    BY <2>1, OwnedTyped
<1>2. ASSUME NEW i \in S, i # id PROVE Lengths(g)[i] = Lengths(h)[i]
  <2>1. i \in Ids /\ g.key[i] = h.key[i] /\ g.value[i] = h.value[i]
    BY <1>1, <1>2
  <2>2. QED
    BY <2>1 DEF Lengths
<1>3. SumOver(Lengths(g), S) + Lengths(h)[id]
         = SumOver(Lengths(h), S) + Lengths(g)[id]
  BY <1>1, <1>2, SumChanged
<1>4. PICK a \in Nat, b \in Nat, k \in Nat, v \in Nat :
         /\ a = Owned(h, count) /\ b = Owned(g, count)
         /\ k = g.key[id].len /\ v = h.value[id].len
  BY <1>1, OwnedTyped
<1>5. Lengths(h)[id] = v /\ Lengths(g)[id] = k + v
  <2>1. id \in Ids
    BY <1>1
  <2>2. Lengths(h)[id] = h.key[id].len + h.value[id].len
        /\ Lengths(g)[id] = g.key[id].len + g.value[id].len
    BY <2>1, OwnedTyped
  <2>3. QED
    BY <1>4, <2>2
<1>6. b + v = a + (k + v)
  BY <1>1, <1>3, <1>4, <1>5 DEF Owned
<1>7. b = k + a
  BY <1>6
<1>8. QED
  BY <1>4, <1>7

(* Nodes with the texts they had own the same bytes.                       *)
LEMMA OwnedSame ==
    ASSUME NEW h, HeapOK(h), NEW g, Live(g) = Live(h), NEW count,
           \A i \in Live(h) : g.key[i] = h.key[i] /\ g.value[i] = h.value[i]
    PROVE  Owned(g, count) = Owned(h, count)
<1> DEFINE S == Since(h, count)
<1>1. /\ S \subseteq Ids /\ S \subseteq Live(h) /\ Since(g, count) = S
      /\ Numbered(Lengths(h), S)
  BY OwnedTyped DEF Since
<1>2. \A i \in S : Lengths(g)[i] = Lengths(h)[i]
  BY <1>1 DEF Lengths
<1>3. SumOver(Lengths(g), S) = SumOver(Lengths(h), S)
  BY <1>1, <1>2, SumSame
<1>4. QED
  BY <1>1, <1>3 DEF Owned

(* Keys on the stack have lengths.                                         *)
LEMMA OwedTyped ==
    ASSUME NEW stack \in Seq(Frames)
    PROVE  /\ Numbered(KeyLengths(stack), DOMAIN stack) /\ Owed(stack) \in Nat
           /\ \A k \in DOMAIN stack :
                 /\ stack[k].key.len \in Nat
                 /\ KeyLengths(stack)[k] = stack[k].key.len
<1>1. ASSUME NEW k \in DOMAIN stack PROVE stack[k].key.len \in Nat
  <2>1. stack[k] \in Frames
    OBVIOUS
  <2>2. stack[k].key \in StringRefs
    BY <2>1 DEF Frames
  <2>3. QED
    BY <2>2, IdsBelowNil DEF StringRefs
<1>2. \A k \in DOMAIN stack : KeyLengths(stack)[k] = stack[k].key.len
  BY DEF KeyLengths
<1>3. IsFiniteSet(DOMAIN stack)
  <2>1. DOMAIN stack = 1 .. Len(stack) /\ Len(stack) \in Nat
    OBVIOUS
  <2>2. QED
    BY <2>1, FS_Interval
<1>4. Numbered(KeyLengths(stack), DOMAIN stack)
  BY <1>1, <1>2, <1>3 DEF Numbered
<1>5. QED
  BY <1>1, <1>2, <1>4, SumTyped DEF Owed

(* Outside of all containers no key waits.                                 *)
LEMMA OwedNone == ASSUME NEW stack, stack = <<>> PROVE Owed(stack) = 0
<1>1. DOMAIN stack = {}
  OBVIOUS
<1>2. QED
  BY <1>1, SumNone DEF Owed

(* A container without a key that waits adds nothing, ...                  *)
LEMMA OwedMore ==
    ASSUME NEW stack \in Seq(Frames), NEW longer \in Seq(Frames),
           NEW n, n \notin DOMAIN stack, DOMAIN longer = DOMAIN stack \cup {n},
           \A k \in DOMAIN stack : longer[k].key = stack[k].key,
           longer[n].key.len = 0
    PROVE  Owed(longer) = Owed(stack)
<1> DEFINE S == DOMAIN stack
<1>1. /\ Numbered(KeyLengths(stack), S) /\ Owed(stack) \in Nat
      /\ \A k \in S : KeyLengths(stack)[k] = stack[k].key.len
      /\ Numbered(KeyLengths(longer), S \cup {n})
      /\ \A k \in S \cup {n} : KeyLengths(longer)[k] = longer[k].key.len
  BY OwedTyped
<1>2. \A k \in S : KeyLengths(longer)[k] = KeyLengths(stack)[k]
  BY <1>1
<1>3. KeyLengths(longer)[n] = 0
  BY <1>1
<1> HIDE DEF S
<1>4. SumOver(KeyLengths(longer), S) = Owed(stack)
  BY <1>1, <1>2, SumSame DEF Owed, S
<1>5. n \notin S /\ Numbered(KeyLengths(longer), S)
  BY <1>1, <1>2 DEF S, Numbered
<1>6. Owed(longer) = KeyLengths(longer)[n] + SumOver(KeyLengths(longer), S)
  <2>1. KeyLengths(longer)[n] \in Nat
    BY <1>3
  <2>2. SumOver(KeyLengths(longer), S \cup {n})
           = KeyLengths(longer)[n] + SumOver(KeyLengths(longer), S)
    BY <1>5, <2>1, SumMore
  <2>3. QED
    BY <2>2 DEF Owed, S
<1>7. QED
  BY <1>1, <1>3, <1>4, <1>6

(* ... and one whose key changes adds what it is longer.                   *)
LEMMA OwedChanged ==
    ASSUME NEW stack \in Seq(Frames), NEW rest \in Seq(Frames),
           DOMAIN rest = DOMAIN stack, NEW n \in DOMAIN stack,
           \A k \in DOMAIN stack : k # n => rest[k].key = stack[k].key
    PROVE  Owed(rest) + stack[n].key.len = Owed(stack) + rest[n].key.len
<1> DEFINE S == DOMAIN stack
<1>1. /\ Numbered(KeyLengths(stack), S) /\ Numbered(KeyLengths(rest), S)
      /\ \A k \in S : /\ KeyLengths(stack)[k] = stack[k].key.len
                      /\ KeyLengths(rest)[k] = rest[k].key.len
  BY OwedTyped
<1>2. \A k \in S : k # n => KeyLengths(rest)[k] = KeyLengths(stack)[k]
  BY <1>1
<1>3. SumOver(KeyLengths(rest), S) + KeyLengths(stack)[n]
         = SumOver(KeyLengths(stack), S) + KeyLengths(rest)[n]
  BY <1>1, <1>2, SumChanged
<1>4. QED
  BY <1>1, <1>3 DEF Owed

-----------------------------------------------------------------------------
(* Every byte that a parse has taken is in a text that it has stored.      *)

(* The bytes since start are those of the new nodes and of the keys that   *)
(* wait; a container has no key that does not.                             *)
Spent(start, h, stack, at) ==
    /\ h.bytes = start.bytes + (Owned(h, start.count) + Owed(stack))
    /\ \A k \in DOMAIN stack :
          ~Keyed(h, stack, at, k) => stack[k].key.len = 0

SpentInv ==
    parser.active => Spent(parser.start, heap, parser.stack, parser.at)

(* After a parse that fails nothing is counted.                            *)
LEMMA FailedSpent ==
    ASSUME NEW code, NEW h, Fail(code, h)
    PROVE  SpentInv'
<1>1. ~parser'.active
  BY DEF Fail, Idle
<1>2. QED
  BY <1>1 DEF SpentInv

(* Going on somewhere in the text.                                         *)
LEMMA GoOnSpent ==
    ASSUME ParserInv, NEW at, NEW h, NEW stack, GoOnAt(at, h, stack),
           Spent(parser.start, h, stack, at)
    PROVE  SpentInv'
<1>1. heap' = h
      /\ parser' = [parser EXCEPT !.at = at, !.stack = stack]
  BY DEF GoOnAt
<1>2. /\ parser'.at = at /\ parser'.stack = stack
      /\ parser'.start = parser.start
  BY <1>1 DEF ParserInv, Parsers
<1>3. QED
  BY <1>1, <1>2 DEF SpentInv

(* Another place, where no container is waited for by fewer keys.          *)
LEMMA MovedSpent ==
    ASSUME NEW start, NEW h, NEW stack, NEW at, Spent(start, h, stack, at),
           NEW place, \A k \in DOMAIN stack :
                         Keyed(h, stack, at, k) => Keyed(h, stack, place, k)
    PROVE  Spent(start, h, stack, place)
BY DEF Spent

(* A value moves its key from the stack into its node.                     *)
LEMMA DeliveredSpent ==
    ASSUME NEW h, NEW before, NEW stack, ParsingOK(h, before, stack, "value"),
           stack # <<>>, NEW id, Loose(h, before, id), Checkpoint(before),
           \A k \in DOMAIN stack : stack[k].id # id,
           Spent(parser.start, h, stack, "value"),
           parser.start.bytes \in Nat
    PROVE  LET top == stack[Len(stack)]
               keyed == IF h.type[top.id] = "Object"
                        THEN SetKey(h, id, top.key, top.flags) ELSE h
           IN Spent(parser.start, AppendChild(keyed, top.id, id),
                    [stack EXCEPT ![Len(stack)].key = NoRef], "next")
<1> DEFINE n == Len(stack)
           top == stack[n]
           p == top.id
           object == h.type[p] = "Object"
           keyed == IF object THEN SetKey(h, id, top.key, top.flags) ELSE h
           g == AppendChild(keyed, p, id)
           rest == [stack EXCEPT ![n].key = NoRef]
           count == parser.start.count
<1>1. /\ stack \in Seq(Frames) /\ OpenOK(h, before, stack, "value")
      /\ DocumentOK(h) /\ HeapOK(h) /\ h \in Heaps
  BY DEF ParsingOK, DocumentOK, HeapOK
<1>2. /\ n \in DOMAIN stack /\ n \in Nat
      /\ \A k \in DOMAIN stack : /\ stack[k] \in Frames
                                 /\ k # n => k < n
  BY <1>1, TopFrame
<1>3. /\ Len(rest) = n /\ DOMAIN rest = DOMAIN stack
      /\ \A k \in DOMAIN stack :
            /\ rest[k].id = stack[k].id
            /\ k # n => rest[k].key = stack[k].key
      /\ rest \in Seq(Frames) /\ rest[n].key = NoRef
  <2>1. NoRef \in StringRefs
    BY NoRefTyped
  <2>2. \A k \in DOMAIN stack : stack[k] \in Frames
    BY <1>2
  <2>3. QED
    BY <1>1, <1>2, <2>1, <2>2, TopFrame DEF Frames
<1>4. /\ Loose(h, before, p) /\ h.type[p] \in Containers
      /\ Waiting(h, top.key) /\ top \in Frames
  BY <1>1, <1>2 DEF OpenOK
<1>5. /\ id \in Live(h) /\ id \in Ids /\ h.parent[id] = Nil
      /\ id >= count /\ count \in Nat
      /\ p \in Live(h) /\ p \in Ids /\ h.parent[p] = Nil
  BY <1>1, <1>4, LooseIsNew
<1>6. top.flags \in BOOLEAN /\ top.key \in StringRefs /\ RefOK(h, top.key)
  BY <1>4 DEF Frames, Waiting
<1>7. /\ keyed \in Heaps /\ Live(keyed) = Live(h) /\ keyed.type = h.type
      /\ keyed.value = h.value /\ keyed.bytes = h.bytes
      /\ keyed.key = IF object THEN [h.key EXCEPT ![id] = top.key] ELSE h.key
  <2>1. HeapOK(SetKey(h, id, top.key, top.flags))
    BY <1>1, <1>5, <1>6, SetKeyKeepsForest
  <2>2. CASE object
    <3>1. keyed = SetKey(h, id, top.key, top.flags)
      BY <2>2
    <3> HIDE DEF keyed
    <3>2. QED
      BY <1>1, <2>1, <2>2, <3>1 DEF SetKey, HeapOK, Heaps, Live
  <2>3. CASE ~object
    BY <1>1, <2>3
  <2>4. QED
    BY <2>2, <2>3
<1>8. DocumentOK(g)
  <2>1. p # id /\ id \in Live(h) /\ p \in Live(h)
    BY <1>2, <1>5
  <2>2. object => GoodText(ViewString(h, top.key), top.flags)
    BY <1>1, <1>2 DEF OpenOK, Keyed
  <2>3. keyed = IF h.type[p] = "Object"
                THEN SetKey(h, id, top.key, top.flags) ELSE h
    OBVIOUS
  <2> HIDE DEF keyed, top, p
  <2>4. QED
    BY <1>1, <1>4, <1>5, <1>6, <2>1, <2>2, <2>3, DeliveredAttaches
       DEF object
<1> HIDE DEF keyed, rest
<1>9. Appended(g, keyed, p, id)
  BY <1>5, <1>7, AppendFields
<1> HIDE DEF g
<1>10. /\ Live(g) = Live(h) /\ g.type = h.type /\ g.bytes = h.bytes
       /\ g.value = h.value /\ g.key = keyed.key
  BY <1>7, <1>9 DEF Appended, Live
<1>11. id \in Since(h, count)
  <2>1. id \in Nat /\ ~(id \in 0 .. count - 1)
    BY <1>5, IdsBelowNil
  <2>2. QED
    BY <1>5, <2>1 DEF Since
<1>12. Owned(h, count) \in Nat /\ Owed(stack) \in Nat /\ Owed(rest) \in Nat
       /\ top.key.len \in Nat
  BY <1>1, <1>2, <1>3, OwnedTyped, OwedTyped
<1>13. Owed(rest) + top.key.len = Owed(stack) + NoRef.len
  BY <1>1, <1>2, <1>3, OwedChanged
<1>14. NoRef.len = 0
  BY DEF NoRef
<1>15. Owned(g, count) = top.key.len + Owned(h, count)
  <2>1. CASE object
    <3>1. h.key[id].len = 0
      <4>1. ~Member(h, id)
        BY <1>5 DEF Member
      <4>2. h.key[id] = NoRef
        BY <1>1, <1>5, <4>1 DEF DocumentOK, KeysOK, KeysAtHome
      <4>3. QED
        BY <1>14, <4>2
    <3>2. /\ g.key[id] = top.key
          /\ \A i \in Ids : i # id => g.key[i] = h.key[i]
      BY <1>1, <1>5, <1>7, <1>10, <2>1 DEF Heaps
    <3>3. HeapOK(g)
      BY <1>8 DEF DocumentOK
    <3> HIDE DEF object, count
    <3>4. QED
      BY <1>1, <1>10, <1>11, <3>1, <3>2, <3>3, OwnedKeyed
  <2>2. CASE ~object
    <3>1. ~Keyed(h, stack, "value", n)
      BY <2>2 DEF Keyed
    <3>2. top.key.len = 0
      BY <1>2, <3>1 DEF Spent
    <3>3. Owned(g, count) = Owned(h, count)
      <4>1. g.key = h.key /\ g.value = h.value
        BY <1>7, <1>10, <2>2
      <4>2. QED
        BY <1>1, <1>10, <4>1, OwnedSame
    <3>4. QED
      BY <1>12, <3>2, <3>3
  <2>3. QED
    BY <2>1, <2>2
<1>16. g.bytes = parser.start.bytes + (Owned(g, count) + Owed(rest))
  <2>1. h.bytes = parser.start.bytes + (Owned(h, count) + Owed(stack))
    BY DEF Spent
  <2>2. PICK a \in Nat, b \in Nat, c \in Nat, l \in Nat, s \in Nat :
           /\ a = Owned(h, count) /\ b = Owed(stack) /\ c = Owed(rest)
           /\ l = top.key.len /\ s = parser.start.bytes
    BY <1>12
  <2>3. c + l = b + 0
    BY <1>13, <1>14, <2>2
  <2>4. s + (a + b) = s + ((l + a) + c)
    BY <2>3
  <2>5. QED
    BY <1>10, <1>15, <2>1, <2>2, <2>4
<1>17. ASSUME NEW k \in DOMAIN rest, ~Keyed(g, rest, "next", k)
       PROVE  rest[k].key.len = 0
  <2>1. CASE k = n
    BY <1>3, <1>14, <2>1
  <2>2. CASE k # n
    <3>1. k \in DOMAIN stack /\ k < n /\ rest[k].key = stack[k].key
          /\ rest[k].id = stack[k].id
      BY <1>2, <1>3, <2>2
    <3>2. g.type[rest[k].id] # "Object"
      BY <1>3, <1>17, <3>1 DEF Keyed
    <3>3. ~Keyed(h, stack, "value", k)
      BY <1>10, <3>1, <3>2 DEF Keyed
    <3>4. QED
      BY <3>1, <3>3 DEF Spent
  <2>3. QED
    BY <2>1, <2>2
<1>18. QED
  BY <1>16, <1>17 DEF Spent, g, rest, keyed

(* Delivering a value.                                                     *)
LEMMA DeliverSpent ==
    ASSUME ParserInv, NEW before, Checkpoint(before),
           NEW h, NEW stack, ParsingOK(h, before, stack, "value"),
           NEW id, Loose(h, before, id),
           \A k \in DOMAIN stack : stack[k].id # id, Deliver(id, h, stack),
           Spent(parser.start, h, stack, "value")
    PROVE  SpentInv'
<1>1. CASE stack = <<>>
  <2>1. heap' = h
        /\ parser' = [parser EXCEPT !.at = "trailing", !.stack = stack,
                                    !.root = id]
    BY <1>1 DEF Deliver
  <2>2. /\ parser'.at = "trailing" /\ parser'.stack = stack
        /\ parser'.start = parser.start
    BY <2>1 DEF ParserInv, Parsers
  <2>3. DOMAIN stack = {}
    BY <1>1
  <2>4. Spent(parser.start, h, stack, "trailing")
    BY <2>3, MovedSpent
  <2>5. QED
    BY <2>1, <2>2, <2>4 DEF SpentInv
<1>2. CASE stack # <<>>
  <2> DEFINE top == stack[Len(stack)]
             keyed == IF h.type[top.id] = "Object"
                      THEN SetKey(h, id, top.key, top.flags) ELSE h
             g == AppendChild(keyed, top.id, id)
             rest == [stack EXCEPT ![Len(stack)].key = NoRef]
  <2>1. parser.start.bytes \in Nat
    BY DEF ParserInv, Parsers
  <2>2. Spent(parser.start, g, rest, "next")
    BY <1>2, <2>1, DeliveredSpent
  <2>3. GoOnAt("next", g, rest)
    BY <1>2 DEF Deliver, Seqs!Last
  <2> HIDE DEF g, rest
  <2>4. QED
    BY <2>2, <2>3, GoOnSpent
<1>3. QED
  BY <1>1, <1>2

(* The node that a lexeme adds pays for its own text.                      *)
LEMMA AddedSpent ==
    ASSUME ParserInv, SpentInv, parser.active, NEW before, Checkpoint(before),
           ParsingOK(heap, before, parser.stack, parser.at),
           parser.at \in {"value", "element"},
           NEW g, NEW type, Added(g, heap, type),
           g.bytes = heap.bytes + g.value[heap.count].len
    PROVE  Spent(parser.start, g, parser.stack, "value")
<1> DEFINE stack == parser.stack
           count == parser.start.count
           id == heap.count
<1>1. /\ HeapOK(heap) /\ HeapOK(g) /\ Grown(g, heap, type)
      /\ stack \in Seq(Frames) /\ id \in Ids /\ SameNodes(g, heap)
      /\ OpenOK(heap, before, stack, parser.at)
  BY DEF ParsingOK, DocumentOK, Added, Grown, Extends
<1>2. count \in Nat /\ parser.start.bytes \in Nat /\ heap.count \in Nat
      /\ heap.bytes \in Nat
  BY <1>1, Counters DEF ParserInv, Parsers
<1>3. count <= heap.count
  BY DEF ParsingOK, Extends, Checkpoint
<1>4. Owned(g, count) = g.value[id].len + Owned(heap, count)
  BY <1>1, <1>2, <1>3, OwnedGrown
<1>5. Spent(parser.start, heap, stack, parser.at)
  BY DEF SpentInv
<1>6. g.bytes = parser.start.bytes + (Owned(g, count) + Owed(stack))
  <2>1. heap.bytes = parser.start.bytes + (Owned(heap, count) + Owed(stack))
    BY <1>5 DEF Spent
  <2>2. /\ Owned(heap, count) \in Nat /\ Owed(stack) \in Nat
        /\ g.value[id].len \in Nat
    BY <1>1, OwnedTyped, OwedTyped
  <2>3. PICK a \in Nat, b \in Nat, l \in Nat, s \in Nat :
           /\ a = Owned(heap, count) /\ b = Owed(stack)
           /\ l = g.value[id].len /\ s = parser.start.bytes
    BY <1>2, <2>2
  <2>4. (s + (a + b)) + l = s + ((l + a) + b)
    OBVIOUS
  <2>5. QED
    BY <1>4, <2>1, <2>3, <2>4
<1>7. ASSUME NEW k \in DOMAIN stack, ~Keyed(g, stack, "value", k)
      PROVE  stack[k].key.len = 0
  <2>1. g.type[stack[k].id] = heap.type[stack[k].id]
    BY <1>1 DEF SameNodes, OpenOK, Loose
  <2>2. heap.type[stack[k].id] # "Object"
    BY <1>7, <2>1 DEF Keyed
  <2>3. ~Keyed(heap, stack, parser.at, k)
    BY <2>2 DEF Keyed
  <2>4. QED
    BY <1>5, <2>3 DEF Spent
<1>8. QED
  BY <1>6, <1>7 DEF Spent

(* A value of a single lexeme.                                             *)
LEMMA ValueSpent ==
    ASSUME ParserInv, SpentInv, parser.active, NEW before, Checkpoint(before),
           ParsingOK(heap, before, parser.stack, parser.at),
           parser.at \in {"value", "element"},
           NEW g, NEW type, Added(g, heap, type),
           g.bytes = heap.bytes + g.value[heap.count].len,
           Deliver(heap.count, g, parser.stack)
    PROVE  SpentInv'
<1>1. HeapOK(before)
  BY DEF DocumentOK, Checkpoint
<1>2. ParsingOK(heap, before, parser.stack, "value")
  BY ValuePlace
<1>3. /\ ParsingOK(g, before, parser.stack, "value")
      /\ Loose(g, before, heap.count)
      /\ \A k \in DOMAIN parser.stack : parser.stack[k].id # heap.count
  BY <1>1, <1>2, GrownOK DEF Added
<1>4. Spent(parser.start, g, parser.stack, "value")
  BY AddedSpent
<1>5. QED
  BY <1>3, <1>4, DeliverSpent

(* A node without a text takes no byte of those for texts.                 *)
LEMMA MadeSpent ==
    ASSUME NEW h, HeapOK(h), NEW item, item.type \in ValueTypes,
           item.type # "String", Make(h, item).code = "Ok"
    PROVE  LET g == Make(h, item).heap
           IN g.bytes = h.bytes + g.value[h.count].len
<1> DEFINE made == Make(h, item)
           g == AllocateNode(h, item.type)
<1>1. AllocateNodeError(h) = "Ok" /\ made = Success(g)
  BY DEF Make, Failure
<1>2. CanAllocateNode(h) /\ made.heap = g
  BY <1>1 DEF AllocateNodeError, Success
<1>3. g.bytes = h.bytes /\ g.value[h.count] = NoRef
  BY <1>2, AllocateGrows
<1>4. h.bytes \in Nat
  BY Counters
<1> HIDE DEF g, made
<1>5. NoRef.len = 0
  BY DEF NoRef
<1>6. g.bytes = h.bytes + g.value[h.count].len
  BY <1>3, <1>4, <1>5
<1>7. QED
  BY <1>2, <1>6 DEF made

(* parse_null(), parse_bool(), parse_number().                             *)
LEMMA ScalarSpent ==
    ASSUME ParserInv, SpentInv, parser.active, NEW before, Checkpoint(before),
           ParsingOK(heap, before, parser.stack, parser.at),
           NEW lexeme, ParseScalar(lexeme)
    PROVE  SpentInv'
<1> DEFINE item == [type |-> lexeme.kind, text |-> <<>>, finite |-> TRUE]
           made == Make(heap, item)
<1>1. DocumentOK(heap) /\ HeapOK(heap) /\ lexeme.kind \in Scalars
      /\ parser.at \in {"value", "element"}
  BY DEF ParsingOK, DocumentOK, ParseScalar, AtValue
<1>2. made.code = "Ok" => Added(made.heap, heap, lexeme.kind)
  BY <1>1, ScalarMade
<1>3. item.type \in ValueTypes /\ item.type # "String"
  BY <1>1 DEF Scalars, ValueTypes
<1>4. made.code = "Ok" =>
         made.heap.bytes = heap.bytes + made.heap.value[heap.count].len
  <2> HIDE DEF item
  <2>1. QED
    BY <1>1, <1>3, MadeSpent
<1> HIDE DEF made
<1>5. CASE made.code = "Ok" /\ Deliver(heap.count, made.heap, parser.stack)
  <2>1. PICK g : g = made.heap
    OBVIOUS
  <2>2. QED
    BY <1>1, <1>2, <1>4, <1>5, <2>1, ValueSpent
<1>6. QED
  BY <1>5, FailedSpent DEF ParseScalar, made

(* parse_string() for a value.                                             *)
LEMMA StringSpent ==
    ASSUME ParserInv, SpentInv, parser.active, NEW before, Checkpoint(before),
           ParsingOK(heap, before, parser.stack, parser.at),
           NEW lexeme \in Lexemes, ParseString(lexeme)
    PROVE  SpentInv'
<1> DEFINE id == heap.count
           text == lexeme.text
           node == AllocateNode(heap, "String")
           parsed == ParseText(node, lexeme)
           g == [parsed.heap EXCEPT !.value[id] = NextRef(node, Len(text)),
                                    !.valueFlags[id] = NeedsEscape(text)]
<1>1. DocumentOK(heap) /\ lexeme.kind = "String"
      /\ parser.at \in {"value", "element"}
  BY DEF ParsingOK, ParseString, AtValue
<1>2. parsed.code = "Ok" =>
         /\ HasRoom(node, text) /\ WellFormed(text)
         /\ parsed.heap = CopyString(node, text)
  BY <1>1, ParsedText
<1>3. CASE /\ AllocateNodeError(heap) = "Ok" /\ parsed.code = "Ok"
           /\ Deliver(id, g, parser.stack)
  <2>1. CanAllocateNode(heap)
    BY <1>3 DEF AllocateNodeError
  <2>2. Added(g, heap, "String")
    BY <1>1, <1>2, <1>3, <2>1, StringMade
  <2>3. g.bytes = heap.bytes + g.value[id].len
    <3>1. HeapOK(heap) /\ HeapOK(node) /\ id \in Ids /\ node.bytes = heap.bytes
      BY <1>1, <2>1, AllocateKeepsForest, AllocateGrows
         DEF DocumentOK, ValueTypes, Grown
    <3>2. HasRoom(node, text) /\ parsed.heap = CopyString(node, text)
      BY <1>2, <1>3
    <3> HIDE DEF node, text, id
    <3>3. NextRef(node, Len(text)).len = Len(text)
      BY DEF NextRef
    <3>4. HeapOK(CopyString(node, text))
          /\ CopyString(node, text).bytes = node.bytes + Len(text)
      <4>1. HeapOK(CopyString(node, text))
        BY <3>1, <3>2, CopyKeepsForest DEF HasRoom
      <4>2. CopyString(node, text).bytes
               = node.bytes + NextRef(node, Len(text)).len
        BY <3>1 DEF CopyString, HeapOK, Heaps
      <4>3. QED
        BY <3>3, <4>1, <4>2
    <3> HIDE DEF parsed
    <3>5. g.bytes = CopyString(node, text).bytes
          /\ g.value[id] = NextRef(node, Len(text))
      BY <3>1, <3>2, <3>4 DEF HeapOK, Heaps
    <3>6. QED
      BY <3>1, <3>3, <3>4, <3>5
  <2> HIDE DEF g
  <2>4. QED
    BY <1>1, <1>3, <2>2, <2>3, ValueSpent
<1>4. QED
  BY <1>3, FailedSpent DEF ParseString

(* parse_array() and parse_object() up to what they hold.                  *)
LEMMA OpenSpent ==
    ASSUME ParserInv, SpentInv, parser.active, NEW before, Checkpoint(before),
           ParsingOK(heap, before, parser.stack, parser.at),
           NEW lexeme, ParseOpen(lexeme)
    PROVE  SpentInv'
<1> DEFINE type == OpenedType(lexeme)
           at == IF type = "Array" THEN "element" ELSE "member"
           item == [type |-> type]
           made == Make(heap, item)
           stack == parser.stack
           longer == Append(stack, OpenFrame(heap.count))
<1>1. /\ DocumentOK(heap) /\ HeapOK(heap)
      /\ parser.at \in {"value", "element"} /\ stack \in Seq(Frames)
  BY DEF ParsingOK, DocumentOK, ParseOpen, AtValue
<1>2. made.code = "Ok" => Added(made.heap, heap, type)
  BY <1>1, OpeningMade
<1>3. item.type \in ValueTypes /\ item.type # "String"
  BY DEF OpenedType, ValueTypes
<1>4. made.code = "Ok" =>
         made.heap.bytes = heap.bytes + made.heap.value[heap.count].len
  <2> HIDE DEF item
  <2>1. QED
    BY <1>1, <1>3, MadeSpent
<1> HIDE DEF made, type
<1>5. CASE made.code = "Ok" /\ GoOnAt(at, made.heap, longer)
  <2>1. PICK g : g = made.heap
    OBVIOUS
  <2>2. Spent(parser.start, g, stack, "value") /\ GoOnAt(at, g, longer)
    BY <1>1, <1>2, <1>4, <1>5, <2>1, AddedSpent
  <2>3. heap.count \in Ids
    BY <1>2, <1>5 DEF Added, Grown
  <2> DEFINE frame == OpenFrame(heap.count)
             n == Len(longer)
  <2>4. frame \in Frames /\ frame.key.len = 0
    BY <2>3, NoRefTyped DEF OpenFrame, Frames, NoRef
  <2> HIDE DEF frame
  <2>5. /\ longer \in Seq(Frames) /\ n \notin DOMAIN stack
        /\ DOMAIN longer = DOMAIN stack \cup {n} /\ longer[n] = frame
        /\ \A k \in DOMAIN stack : longer[k] = stack[k] /\ k < n
    BY <1>1, <2>4, Pushed DEF frame
  <2> HIDE DEF longer, at
  <2>6. Owed(longer) = Owed(stack)
    BY <1>1, <2>4, <2>5, OwedMore
  <2>7. ASSUME NEW k \in DOMAIN longer, ~Keyed(g, longer, at, k)
        PROVE  longer[k].key.len = 0
    <3>1. CASE k = n
      BY <2>4, <2>5, <3>1
    <3>2. CASE k # n
      <4>1. k \in DOMAIN stack /\ longer[k] = stack[k] /\ k < n
        BY <2>5, <3>2
      <4>2. g.type[stack[k].id] # "Object"
        BY <2>7, <4>1 DEF Keyed
      <4>3. ~Keyed(g, stack, "value", k)
        BY <4>2 DEF Keyed
      <4>4. QED
        BY <2>2, <4>1, <4>3 DEF Spent
    <3>3. QED
      BY <3>1, <3>2
  <2>8. Spent(parser.start, g, longer, at)
    BY <2>2, <2>6, <2>7 DEF Spent
  <2>9. QED
    BY <2>2, <2>8, GoOnSpent
<1>6. QED
  BY <1>5, FailedSpent DEF ParseOpen, OpenedType, made, type

(* The end of parse_array() and parse_object().                            *)
LEMMA CloseSpent ==
    ASSUME ParserInv, SpentInv, parser.active, NEW before, Checkpoint(before),
           ParsingOK(heap, before, parser.stack, parser.at),
           NEW lexeme, ParseClose(lexeme)
    PROVE  SpentInv'
<1> DEFINE stack == parser.stack
           n == Len(stack)
           rest == SubSeq(stack, 1, n - 1)
           id == stack[n].id
<1>1. /\ stack \in Seq(Frames) /\ stack # <<>>
      /\ parser.at \in {"element", "member", "next"}
  BY DEF ParsingOK, PlaceOK, ParseClose
<1>2. /\ Deliver(id, heap, rest) /\ Loose(heap, before, id)
      /\ \A k \in DOMAIN rest : rest[k].id # id
      /\ ParsingOK(heap, before, rest, "value")
  BY ClosedOK
<1>3. /\ rest \in Seq(Frames) /\ n \in DOMAIN stack /\ n \notin DOMAIN rest
      /\ \A k \in DOMAIN rest :
            k \in DOMAIN stack /\ rest[k] = stack[k] /\ k < n
  BY <1>1, Popped
<1>4. DOMAIN stack = DOMAIN rest \cup {n}
  BY <1>1
<1>5. Spent(parser.start, heap, stack, parser.at)
  BY DEF SpentInv
<1> HIDE DEF rest
<1>6. stack[n].key.len = 0
  <2>1. n \in Nat
    BY <1>1
  <2>2. ~Keyed(heap, stack, parser.at, n)
    BY <1>1, <2>1 DEF Keyed
  <2>3. QED
    BY <1>3, <1>5, <2>2 DEF Spent
<1>7. Owed(stack) = Owed(rest)
  BY <1>1, <1>3, <1>4, <1>6, OwedMore
<1>8. ASSUME NEW k \in DOMAIN rest, ~Keyed(heap, rest, "value", k)
      PROVE  rest[k].key.len = 0
  <2>1. k \in DOMAIN stack /\ rest[k] = stack[k]
    BY <1>3
  <2>2. ~Keyed(heap, stack, parser.at, k)
    BY <1>8, <2>1 DEF Keyed
  <2>3. QED
    BY <1>5, <2>1, <2>2 DEF Spent
<1>9. Spent(parser.start, heap, rest, "value")
  BY <1>5, <1>7, <1>8 DEF Spent
<1>10. QED
  BY <1>2, <1>9, DeliverSpent

(* parse_string() for a key.                                               *)
LEMMA KeySpent ==
    ASSUME ParserInv, SpentInv, parser.active, NEW before, Checkpoint(before),
           ParsingOK(heap, before, parser.stack, parser.at),
           NEW lexeme \in Lexemes, ParseKey(lexeme)
    PROVE  SpentInv'
<1> DEFINE text == lexeme.text
           parsed == ParseText(heap, lexeme)
           g == CopyString(heap, text)
           stack == parser.stack
           n == Len(stack)
           ref == NextRef(heap, Len(text))
           escape == NeedsEscape(text)
           rest == [stack EXCEPT ![n].key = ref, ![n].flags = escape]
           count == parser.start.count
<1>1. /\ HeapOK(heap) /\ stack \in Seq(Frames) /\ stack # <<>>
      /\ lexeme.kind = "String" /\ parser.at \in {"member", "key"}
      /\ heap.type[stack[n].id] = "Object"
      /\ \A k \in DOMAIN stack : stack[k].id \in Live(heap)
  BY DEF ParsingOK, DocumentOK, PlaceOK, OpenOK, Loose, ParseKey
<1>2. parsed.code = "Ok" =>
         /\ HasRoom(heap, text) /\ WellFormed(text) /\ parsed.heap = g
  BY <1>1, ParsedText
<1>3. Spent(parser.start, heap, stack, parser.at)
  BY DEF SpentInv
<1>4. /\ n \in DOMAIN stack /\ n \in Nat
      /\ \A k \in DOMAIN stack : k # n => k < n
  BY <1>1, TopFrame
<1>5. stack[n].key.len = 0
  <2>1. ~Keyed(heap, stack, parser.at, n)
    BY <1>1, <1>4 DEF Keyed
  <2>2. QED
    BY <1>3, <1>4, <2>1 DEF Spent
<1> HIDE DEF parsed
<1>6. CASE parsed.code = "Ok" /\ GoOnAt("colon", parsed.heap, rest)
  <2>1. HasRoom(heap, text) /\ GoOnAt("colon", g, rest)
    BY <1>2, <1>6
  <2>2. /\ HeapOK(g) /\ Agree(g, heap)
        /\ ref \in StringRefs /\ escape \in BOOLEAN
    BY <1>1, <2>1, CopyKeepsForest, NextRefFits DEF HasRoom, NeedsEscape
  <2>s. stack \in Seq(Frames) /\ stack # <<>>
    BY <1>1
  <2>3. ref.len = Len(text) /\ g.bytes = heap.bytes + ref.len
    <3>1. ref.len = Len(text)
      BY DEF NextRef
    <3>2. g.bytes = heap.bytes + NextRef(heap, Len(text)).len
      BY <1>1 DEF CopyString, HeapOK, Heaps
    <3>3. QED
      BY <3>1, <3>2
  <2> HIDE DEF g, ref, escape
  <2>4. /\ Len(rest) = Len(stack) /\ DOMAIN rest = DOMAIN stack
        /\ \A k \in DOMAIN stack :
              /\ rest[k].id = stack[k].id
              /\ rest[k].key = IF k = n THEN ref ELSE stack[k].key
        /\ rest \in Seq(Frames)
    <3> HIDE DEF stack
    <3>1. PICK s \in Seq(Frames), r \in StringRefs, e \in BOOLEAN :
             s = stack /\ r = ref /\ e = escape
      BY <2>2, <2>s
    <3> DEFINE q == [s EXCEPT ![Len(s)].key = r, ![Len(s)].flags = e]
    <3>2. /\ q \in Seq(Frames) /\ Len(q) = Len(s) /\ DOMAIN q = DOMAIN s
          /\ \A k \in DOMAIN s :
                /\ q[k].id = s[k].id
                /\ q[k].key = IF k = Len(s) THEN r ELSE s[k].key
                /\ q[k].flags = IF k = Len(s) THEN e ELSE s[k].flags
      BY <2>s, <3>1, KeyedFrame
    <3>3. q = rest
      BY <3>1
    <3> HIDE DEF q, rest
    <3>4. QED
      BY <3>1, <3>2, <3>3
  <2> HIDE DEF rest
  <2>5. Live(g) = Live(heap) /\ SameNodes(g, heap)
    BY <2>2 DEF Agree, Live
  <2>6. Owned(g, count) = Owned(heap, count)
    <3>1. \A i \in Live(heap) : g.key[i] = heap.key[i]
                                /\ g.value[i] = heap.value[i]
      BY <2>5 DEF SameNodes
    <3>2. QED
      BY <1>1, <2>5, <3>1, OwnedSame
  <2>7. Owed(rest) + stack[n].key.len = Owed(stack) + rest[n].key.len
    BY <1>1, <1>4, <2>4, OwedChanged
  <2>8. rest[n].key = ref
    BY <1>4, <2>4
  <2>9. g.bytes = parser.start.bytes + (Owned(g, count) + Owed(rest))
    <3>1. heap.bytes = parser.start.bytes + (Owned(heap, count) + Owed(stack))
      BY <1>3 DEF Spent
    <3>2. /\ Owned(heap, count) \in Nat /\ Owed(stack) \in Nat
          /\ Owed(rest) \in Nat /\ rest[n].key.len \in Nat
          /\ parser.start.bytes \in Nat
      BY <1>1, <1>4, <2>4, OwnedTyped, OwedTyped DEF ParserInv, Parsers
    <3>3. PICK a \in Nat, b \in Nat, c \in Nat, l \in Nat, s \in Nat :
             /\ a = Owned(heap, count) /\ b = Owed(stack) /\ c = Owed(rest)
             /\ l = rest[n].key.len /\ s = parser.start.bytes
      BY <3>2
    <3>4. c + 0 = b + l
      BY <1>5, <2>7, <3>3
    <3>5. (s + (a + b)) + l = s + (a + c)
      BY <3>4
    <3>6. QED
      BY <2>3, <2>6, <2>8, <3>1, <3>3, <3>5
  <2>10. ASSUME NEW k \in DOMAIN rest, ~Keyed(g, rest, "colon", k)
         PROVE  rest[k].key.len = 0
    <3>1. k \in DOMAIN stack /\ rest[k].id = stack[k].id
          /\ g.type[stack[k].id] = heap.type[stack[k].id]
      BY <1>1, <2>4, <2>5 DEF SameNodes
    <3>2. k # n
      BY <1>1, <2>10, <3>1 DEF Keyed
    <3>3. k < n /\ Len(rest) = n /\ rest[k].key = stack[k].key
      BY <1>4, <2>4, <3>1, <3>2
    <3>4. heap.type[stack[k].id] # "Object"
      BY <2>10, <3>1, <3>3 DEF Keyed
    <3>5. ~Keyed(heap, stack, parser.at, k)
      BY <3>4 DEF Keyed
    <3>6. QED
      BY <1>3, <3>1, <3>3, <3>5 DEF Spent
  <2>11. Spent(parser.start, g, rest, "colon")
    BY <2>9, <2>10 DEF Spent
  <2>12. QED
    BY <2>1, <2>11, GoOnSpent
<1>7. QED
  BY <1>6, FailedSpent DEF ParseKey, parsed

(* A "," or a ":" takes nothing.                                           *)
LEMMA MarkSpent ==
    ASSUME ParserInv, SpentInv, parser.active, NEW before, Checkpoint(before),
           ParsingOK(heap, before, parser.stack, parser.at),
           NEW lexeme, ParseComma(lexeme) \/ ParseColon(lexeme)
    PROVE  SpentInv'
<1> DEFINE stack == parser.stack
<1>1. Spent(parser.start, heap, stack, parser.at) /\ stack \in Seq(Frames)
  BY DEF SpentInv, ParsingOK
<1>2. CASE ParseComma(lexeme)
  <2> DEFINE next == IF TopType = "Array" THEN "value" ELSE "key"
  <2>1. parser.at = "next" /\ stack # <<>> /\ GoOnAt(next, heap, stack)
    BY <1>2 DEF ParseComma, ParsingOK, PlaceOK
  <2>2. \A k \in DOMAIN stack : k # Len(stack) => k < Len(stack)
    BY <1>1, <2>1, TopFrame
  <2>3. ASSUME NEW k \in DOMAIN stack, Keyed(heap, stack, parser.at, k)
        PROVE  Keyed(heap, stack, next, k)
    BY <2>1, <2>3 DEF Keyed
  <2> HIDE DEF next
  <2>4. Spent(parser.start, heap, stack, next)
    BY <1>1, <2>3, MovedSpent
  <2>5. QED
    BY <2>1, <2>4, GoOnSpent
<1>3. CASE ParseColon(lexeme)
  <2>1. GoOnAt("value", heap, stack)
    BY <1>3 DEF ParseColon
  <2>2. \A k \in DOMAIN stack :
           Keyed(heap, stack, parser.at, k) => Keyed(heap, stack, "value", k)
    BY DEF Keyed
  <2>3. Spent(parser.start, heap, stack, "value")
    BY <1>1, <2>2, MovedSpent
  <2>4. QED
    BY <2>1, <2>3, GoOnSpent
<1>4. QED
  BY <1>2, <1>3

(* After every lexeme the bytes are accounted for.                         *)
LEMMA LexemeSpent ==
    ASSUME ParserInv, SpentInv, NEW lexeme \in Lexemes, ParseStep(lexeme)
    PROVE  SpentInv'
<1>1. parser.active
  BY DEF ParseStep
<1>2. PICK before : /\ Checkpoint(before)
                    /\ ParsingOK(heap, before, parser.stack, parser.at)
  BY <1>1 DEF ParserInv
<1>3. CASE ParseReturn(lexeme)
  <2>1. ~parser'.active
    BY <1>3 DEF ParseReturn, Idle
  <2>2. QED
    BY <2>1 DEF SpentInv
<1>4. CASE ParseRefuse(lexeme)
  BY <1>4, FailedSpent DEF ParseRefuse
<1>5. QED
  BY <1>1, <1>2, <1>3, <1>4, ScalarSpent, StringSpent, OpenSpent, CloseSpent,
     KeySpent, MarkSpent DEF ParseStep

(* So they are after every call.                                           *)
LEMMA SpentInvSafe ==
    ASSUME ParserInv, SpentInv, [ParserNext]_parserVars
    PROVE  SpentInv'
<1>1. CASE Client \/ Rest
  <2>1. ~parser'.active
    BY <1>1 DEF Client, Rest, parserVars
  <2>2. QED
    BY <2>1 DEF SpentInv
<1>2. CASE UNCHANGED parserVars
  <2>1. heap' = heap /\ parser' = parser
    BY <1>2 DEF parserVars, vars
  <2>2. QED
    BY <2>1 DEF SpentInv
<1>3. ASSUME NEW maxDepth \in MaxDepths, NEW trailing \in BOOLEAN,
             NEW overlaps \in BOOLEAN, Parse(maxDepth, trailing, overlaps)
      PROVE  SpentInv'
  <2> DEFINE start == [count |-> heap.count, bytes |-> heap.bytes]
             begun == [Idle EXCEPT !.active = TRUE, !.maxDepth = maxDepth,
                                   !.trailing = trailing, !.start = start]
  <2>1. heap' = heap /\ (UNCHANGED parser \/ parser' = begun)
    BY <1>3 DEF Parse
  <2>2. CASE UNCHANGED parser
    BY <2>1, <2>2 DEF SpentInv
  <2>3. CASE parser' = begun
    <3>1. begun.stack = <<>> /\ begun.start = start
      BY DEF Idle
    <3>2. start.count = heap.count /\ start.bytes = heap.bytes
      OBVIOUS
    <3>3. HeapOK(heap)
      BY IInvHeap DEF ParserInv
    <3>4. heap.bytes \in Nat /\ Since(heap, heap.count) = {}
      <4>1. \A i \in Live(heap) : i \in 0 .. heap.count - 1
        BY <3>3, Counters, LinksStayLive, IdsBelowNil DEF Live
      <4>2. QED
        BY <3>3, <4>1, Counters DEF Since
    <3>5. Owned(heap, heap.count) = 0 /\ Owed(<<>>) = 0
      BY <3>4, SumNone, OwedNone DEF Owned
    <3> HIDE DEF begun, start
    <3>6. parser'.stack = <<>> /\ parser'.start = start
      BY <2>3, <3>1
    <3>7. Spent(start, heap, <<>>, parser'.at)
      BY <3>2, <3>4, <3>5 DEF Spent
    <3>8. QED
      BY <2>1, <3>6, <3>7 DEF SpentInv
  <2>4. QED
    BY <2>1, <2>2, <2>3
<1>4. QED
  BY <1>1, <1>2, <1>3, LexemeSpent DEF ParserNext

(* At every lexeme, each byte that this parse has taken is in the text of  *)
(* a new node or in a key that waits for one.                              *)
THEOREM SpentInvariant == ParserSpec => []SpentInv
<1>1. ParserInit => SpentInv
  BY DEF ParserInit, Idle, SpentInv
<1>2. ParserInv /\ SpentInv /\ [ParserNext]_parserVars => SpentInv'
  BY SpentInvSafe
<1>3. QED
  BY <1>1, <1>2, ParserInvariant, PTL DEF ParserSpec

(* The sum that BytesReturned is about.                                    *)
Stored(h, S) ==
    Sets!MapThenSumSet(LAMBDA i : h.key[i].len + h.value[i].len, S)

LEMMA OwnedIs ==
    ASSUME NEW h, HeapOK(h), NEW count
    PROVE  Stored(h, Since(h, count)) = Owned(h, count)
<1> DEFINE S == Since(h, count)
           f == [i \in S |-> h.key[i].len + h.value[i].len]
<1>1. Stored(h, S) = SumOver(f, S)
  <2> HIDE DEF S
  <2>1. QED
    BY DEF Stored, SumOver, Sets!MapThenSumSet, Sets!MapThenFoldSet
<1>2. \A i \in S : f[i] = Lengths(h)[i]
  BY OwnedTyped
<1>3. SumOver(f, S) = SumOver(Lengths(h), S)
  <2>1. Numbered(Lengths(h), S)
    BY OwnedTyped
  <2> HIDE DEF S, f
  <2>2. QED
    BY <1>2, <2>1, SumSame
<1>4. QED
  BY <1>1, <1>3 DEF Owned

(* The bytes that parse() has taken are in the texts of the document that  *)
(* it returns, whatever was thrown away on the way there.                  *)
THEOREM NoByteIsLost ==
    ParserSpec => [][Returns("Ok") => BytesReturned]_parserVars
<1>1. ASSUME ParserInv, NestInv, SpentInv, [ParserNext]_parserVars
      PROVE  [Returns("Ok") => BytesReturned]_parserVars
  <2> SUFFICES ASSUME ParserNext, Returns("Ok") PROVE BytesReturned
    BY <1>1
  <2> DEFINE count == parser.start.count
  <2>1. parser.active
    BY DEF Returns
  <2>2. PICK lexeme \in Lexemes : ParseStep(lexeme)
    BY <2>1 DEF ParserNext, Client, Rest, Parse, Returns, parserVars
  <2>3. ParseReturn(lexeme)
    BY <1>1, <2>2, OnlyReturnReturns
  <2>4. heap' = heap /\ parser.at = "trailing"
    BY <2>3 DEF ParseReturn
  <2>5. parser.stack = <<>> /\ HeapOK(heap) /\ parser.start.bytes \in Nat
    BY <1>1, <2>1, <2>4, IInvHeap DEF NestInv, ParserInv, Parsers
  <2>6. heap.bytes = parser.start.bytes + (Owned(heap, count) + Owed(<<>>))
    BY <1>1, <2>1, <2>5 DEF SpentInv, Spent
  <2>7. Owed(<<>>) = 0 /\ Owned(heap, count) \in Nat
    BY <2>5, OwedNone, OwnedTyped
  <2>8. heap.bytes - parser.start.bytes = Owned(heap, count)
    <3>1. PICK a \in Nat, s \in Nat :
             a = Owned(heap, count) /\ s = parser.start.bytes
      BY <2>5, <2>7
    <3>2. heap.bytes = s + (a + 0)
      BY <2>6, <2>7, <3>1
    <3>3. QED
      BY <3>1, <3>2
  <2>9. Stored(heap, Since(heap, count)) = Owned(heap, count)
    BY <2>5, OwnedIs
  <2>10. heap'.bytes - parser.start.bytes = Stored(heap', Since(heap', count))
    BY <2>4, <2>8, <2>9
  <2>11. QED
    BY <2>10 DEF Stored, Since, Sets!MapThenSumSet, Sets!MapThenFoldSet,
       BytesReturned
<1>2. QED
  BY <1>1, ParserInvariant, NestInvariant, SpentInvariant, PTL DEF ParserSpec

(* parse() takes room for what it returns and for nothing else: no node    *)
(* and no byte that it has taken is out of reach of the root.              *)
THEOREM NothingIsLost == ParserSpec => NothingLost
<1>1. [Returns("Ok") => NodesReturned]_parserVars
      /\ [Returns("Ok") => BytesReturned]_parserVars
         => [Returns("Ok") => NodesReturned /\ BytesReturned]_parserVars
  OBVIOUS
<1>2. QED
  BY <1>1, NoNodeIsLost, NoByteIsLost, PTL DEF NothingLost
=============================================================================

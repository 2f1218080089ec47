--------------------------- MODULE SlabDom_proofs ---------------------------
(***************************************************************************)
(* Theorems about SlabDom, for every storage size, node size, alphabet,    *)
(* choice of texts and number of resets, and that a slab implements Dom:   *)
(* each of the things that a call can do to a heap (Effect) is a step of   *)
(* the abstract document.                                                  *)
(***************************************************************************)
EXTENDS SlabImplementsDom, SlabTree_proofs

-----------------------------------------------------------------------------
(* The inductive invariant.  The types alone are not inductive: that a     *)
(* removal yields a node id rests on the forest (a list of siblings has a  *)
(* first match, and a child that is not first has a predecessor), and that *)
(* a string reference fits 16 bits rests on the layout.                    *)
IInv ==
    /\ TypeOK
    /\ LayoutSafe
    /\ ForestSafe
    /\ error # "InternalError"
    /\ NoInternalError

(* The inductive invariant gives what the lemmas on heaps ask for.         *)
LEMMA IInvHeap == IInv => HeapOK(heap)
BY DEF IInv, TypeOK, LayoutSafe, ForestSafe, HeapOK

(* Every handle the client can pass names a node slot.                     *)
LEMMA HeldTyped ==
    ASSUME TypeOK
    PROVE  /\ Held \subseteq HandleSet
           /\ \A v \in Values : v.id \in Nat
<1>1. \A i \in Live(heap) : Handle(i) \in HandleSet
  BY DEF TypeOK, Handle, HandleSet, Live, Heaps
<1>2. Held \subseteq HandleSet
  BY <1>1 DEF Held, Current, TypeOK
<1>3. \A v \in HandleSet : v.id \in Nat
  BY IdsBelowNil DEF HandleSet
<1>4. ForeignValue.id \in Nat /\ NullValue.id \in Nat
  BY DEF ForeignValue, NullValue
<1>5. QED
  BY <1>2, <1>3, <1>4 DEF Values

(* What the client asks the makers for is what they take.                  *)
LEMMA ItemsTyped ==
    \A item \in Items : item.type \in ValueTypes /\ item.text \in Seq(Bytes)
<1>1. <<>> \in Seq(Bytes)
  OBVIOUS
<1>2. QED
  BY <1>1, ClientAssumption DEF Items

(* Every text of the client is a sequence of bytes.                        *)
LEMMA TextsTyped == \A text \in Texts \cup {<<>>} : text \in Seq(Bytes)
<1>1. <<>> \in Seq(Bytes)
  OBVIOUS
<1>2. QED
  BY <1>1, ClientAssumption

-----------------------------------------------------------------------------
(* The ways a call returns.                                                *)

(* Returning an error that is not recorded keeps the invariant.            *)
LEMMA RefuseSafe ==
    ASSUME IInv, NEW code \in ErrorCodes \ {"InternalError"}, Refuse(code)
    PROVE  IInv'
BY DEF IInv, Refuse, TypeOK, LayoutSafe, ForestSafe, NoInternalError

(* Recording an error leaves an error code that is not InternalError.      *)
LEMMA RecordErrorSafe ==
    ASSUME IInv, NEW code \in ErrorCodes \ {"InternalError"},
           RecordError(code), UNCHANGED <<generation, epoch, stale>>,
           HeapOK(heap')
    PROVE  IInv'
<1>1. error' \in ErrorCodes \ {"InternalError"} /\ result' = error'
  BY DEF RecordError, IInv, TypeOK
<1>2. QED
  BY <1>1 DEF IInv, TypeOK, LayoutSafe, ForestSafe, NoInternalError, HeapOK

(* Returning a heap that is in order keeps the invariant.                  *)
LEMMA CommitSafe ==
    ASSUME IInv, NEW h, HeapOK(h), Commit(h)
    PROVE  IInv'
BY DEF IInv, Commit, TypeOK, LayoutSafe, ForestSafe, NoInternalError, HeapOK,
       ErrorCodes

-----------------------------------------------------------------------------
(* One lemma per action.                                                   *)

(* The makers of Slab and cjson create.                                    *)
LEMMA MakeItemSafe ==
    ASSUME IInv, NEW item \in Items, MakeItem(item)
    PROVE  IInv'
<1>1. /\ Make(heap, item).code \in ErrorCodes \ {"InternalError"}
      /\ HeapOK(Make(heap, item).heap)
  BY IInvHeap, ItemsTyped, MakeKeepsForest
<1>2. QED
  BY <1>1 DEF MakeItem, IInv, TypeOK, LayoutSafe, ForestSafe, NoInternalError,
              HeapOK

(* status() returns an error code, and never InternalError.                *)
LEMMA StatusTyped ==
    ASSUME IInv, NEW handle
    PROVE  Status(handle) \in ErrorCodes \ {"InternalError"}
BY DEF Status, IInv, TypeOK, ErrorCodes

(* Attaching to either container leaves a heap that is in order.           *)
LEMMA AttachIsSafe ==
    ASSUME NEW h, HeapOK(h), NEW key \in Seq(Bytes),
           NEW parent, parent.id \in Nat, NEW child, child.id \in Nat
    PROVE  AttachSafe(Attach(h, parent, key, child), h)
BY ArrayAttachSafe, ObjectAttachSafe DEF Attach

(* Object::add(key, Value) and Array::add(Value).                          *)
LEMMA AddSafe ==
    ASSUME IInv, NEW key \in Seq(Bytes), NEW parent, parent.id \in Nat,
           NEW child \in Values, Add(parent, key, child)
    PROVE  IInv'
<1> DEFINE attached == Attach(heap, parent, key, child)
<1>1. HeapOK(heap)
  BY IInvHeap
<1>2. AttachSafe(attached, heap)
  BY <1>1, HeldTyped, AttachIsSafe DEF IInv
<1>3. ASSUME NEW code \in ErrorCodes \ {"InternalError"}, Reject(code)
      PROVE  IInv'
  BY <1>1, <1>3, RecordErrorSafe DEF Reject
<1>4. CASE Status(parent) # "Ok" /\ Reject(Status(parent))
  BY <1>3, <1>4, StatusTyped
<1>5. CASE attached.code # "Ok" /\ Reject(attached.code)
  BY <1>2, <1>3, <1>5 DEF AttachSafe
<1>6. CASE attached.code = "Ok" /\ Commit(attached.heap)
  BY <1>2, <1>6, CommitSafe DEF AttachSafe
<1>7. QED
  BY <1>4, <1>5, <1>6 DEF Add

(* ContainerBuilder::add, with its rollback.                               *)
LEMMA BuildSafe ==
    ASSUME IInv, NEW key \in Seq(Bytes), NEW parent, parent.id \in Nat,
           NEW item \in Items, Build(parent, key, item)
    PROVE  IInv'
<1> DEFINE made == Make(heap, item)
           child == [slab |-> "this", id |-> heap.count, gen |-> generation,
                     type |-> item.type, epoch |-> epoch]
           attached == Attach(made.heap, parent, key, child)
<1>1. HeapOK(heap)
  BY IInvHeap
<1>2. /\ made.code \in ErrorCodes \ {"InternalError"}
      /\ HeapOK(made.heap)
      /\ made.code = "Ok" => SameNodes(made.heap, heap)
  BY <1>1, ItemsTyped, MakeKeepsForest DEF Made
<1>3. child.id \in Nat
  BY <1>1 DEF HeapOK, Heaps
<1> HIDE DEF made, child
<1>4. AttachSafe(attached, made.heap)
  BY <1>2, <1>3, AttachIsSafe
<1> HIDE DEF attached
<1>5. CASE Status(parent) # "Ok" /\ Reject(Status(parent))
  BY <1>1, <1>5, StatusTyped, RecordErrorSafe DEF Reject
<1>6. CASE /\ RecordError(made.code) /\ heap' = made.heap
           /\ UNCHANGED <<generation, epoch, stale>>
  BY <1>2, <1>6, RecordErrorSafe
<1>7. CASE /\ made.code = "Ok" /\ attached.code # "Ok"
           /\ RecordError(attached.code)
           /\ heap' = Rollback(attached.heap, heap)
           /\ UNCHANGED <<generation, epoch, stale>>
  <2>1. HeapOK(Rollback(made.heap, heap))
    BY <1>1, <1>2, <1>7, RollbackKeepsForest DEF HeapOK
  <2>2. HeapOK(heap')
    BY <2>1, <1>4, <1>7 DEF AttachSafe
  <2>3. QED
    BY <2>2, <1>4, <1>7, RecordErrorSafe DEF AttachSafe
<1>8. CASE Commit(attached.heap)
  BY <1>4, <1>8, CommitSafe DEF AttachSafe
<1>9. QED
  BY <1>5, <1>6, <1>7, <1>8 DEF Build, made, child, attached

(* add() of a null C string.                                               *)
LEMMA AddNullPointerSafe ==
    ASSUME IInv, NEW parent, AddNullPointer(parent)
    PROVE  IInv'
<1>1. PICK code \in ErrorCodes \ {"InternalError"} : Reject(code)
  BY StatusTyped DEF AddNullPointer, ErrorCodes
<1>2. HeapOK(heap')
  BY <1>1, IInvHeap DEF Reject
<1>3. QED
  BY <1>1, <1>2, RecordErrorSafe DEF Reject

(* An accepted handle names a live node.                                   *)
LEMMA AcceptedIsLive ==
    ASSUME IInv, NEW handle, handle.id \in Ids, Accepted(handle)
    PROVE  handle.id \in Live(heap)
BY DEF Accepted, NodeFor, Live

(* Detaching keeps the document a forest, whichever child is taken.        *)
LEMMA DetachSafe ==
    ASSUME IInv, NEW parent, parent.id \in Ids, NEW type, NEW child,
           parent.id \in Live(heap) =>
              child \in Siblings(heap, parent.id) \cup {Nil},
           Detach(parent, type, child)
    PROVE  IInv'
<1>1. HeapOK(heap)
  BY IInvHeap
<1>2. Accepted(parent) => parent.id \in Live(heap)
  BY AcceptedIsLive
<1>3. ParentError(parent, type) \in ErrorCodes \ {"InternalError"}
  <2>1. Accepted(parent) => Siblings(heap, parent.id) \subseteq Live(heap)
    BY <1>1, <1>2, SiblingsAreChildren
  <2>2. QED
    BY <2>1 DEF ParentError, ErrorCodes
<1>4. CASE Refuse(ParentError(parent, type))
  BY <1>3, <1>4, RefuseSafe
<1>5. CASE Refuse("NotFound")
  BY <1>5, RefuseSafe DEF ErrorCodes
<1>6. CASE /\ ParentError(parent, type) = "Ok"
           /\ child # Nil
           /\ Commit(TakeOut(heap, parent.id, child))
  <2>1. parent.id \in Live(heap)
    BY <1>2, <1>6 DEF ParentError
  <2>2. HeapOK(TakeOut(heap, parent.id, child))
    BY <1>1, <1>6, <2>1, UnlinkKeepsForest
  <2>3. QED
    BY <1>6, <2>2, CommitSafe
<1>7. QED
  BY <1>4, <1>5, <1>6 DEF Detach

(* A lookup yields a child of the container or nothing.                    *)
LEMMA LookupInSiblings ==
    ASSUME NEW h, HeapOK(h), NEW p \in Live(h),
           NEW S \in SUBSET Siblings(h, p)
    PROVE  FirstOf(h, S) \in Siblings(h, p) \cup {Nil}
BY FirstOfExists DEF FirstOf

(* Looking a member up yields a node slot or none.                         *)
LEMMA MemberByKeyTyped ==
    ASSUME IInv, NEW p \in Live(heap), NEW key, NEW fold
    PROVE  MemberByKey(heap, p, key, fold) \in Siblings(heap, p) \cup {Nil}
<1> DEFINE S == {c \in Siblings(heap, p) :
                   LET stored == ViewString(heap, heap.key[c])
                   IN /\ Len(stored) = Len(key)
                      /\ \A k \in DOMAIN key : fold[stored[k]] = fold[key[k]]}
<1>1. S \in SUBSET Siblings(heap, p)
  OBVIOUS
<1>2. MemberByKey(heap, p, key, fold) = FirstOf(heap, S)
  BY DEF MemberByKey
<1> HIDE DEF S
<1>3. QED
  BY <1>1, <1>2, IInvHeap, LookupInSiblings

(* Looking an element up yields a node slot or none.                       *)
LEMMA ElementAtTyped ==
    ASSUME IInv, NEW a \in Live(heap), NEW index
    PROVE  ElementAt(heap, a, index) \in Siblings(heap, a) \cup {Nil}
<1> DEFINE S == {c \in Siblings(heap, a) :
                   index = Cardinality({d \in Siblings(heap, a) :
                                           d # c /\ NotAfter(heap, d, c)})}
<1>1. S \in SUBSET Siblings(heap, a)
  OBVIOUS
<1>2. ElementAt(heap, a, index) = FirstOf(heap, S)
  BY DEF ElementAt
<1> HIDE DEF S
<1>3. QED
  BY <1>1, <1>2, IInvHeap, LookupInSiblings

(* add_item_to_array() and add_item_to_object().                           *)
LEMMA CjsonAddItemSafe ==
    ASSUME IInv, NEW key \in Seq(Bytes), NEW item, item.id \in Nat,
           NEW type, item.type \in ValueTypes,
           item \in HandleSet, NEW child \in Values,
           CjsonAddItem(item, type, key, child)
    PROVE  IInv'
<1>1. CASE Refuse("InvalidHandle") \/ Refuse("TypeMismatch")
  BY <1>1, RefuseSafe DEF ErrorCodes
<1>2. CASE Add([item EXCEPT !.type = type], key, child)
  <2>1. [item EXCEPT !.type = type].id \in Nat
    BY DEF HandleSet
  <2>2. QED
    BY <1>2, <2>1, AddSafe
<1>3. QED
  BY <1>1, <1>2 DEF CjsonAddItem

(* The generation counter skips zero and stays in its range.               *)
LEMMA NextGenerationTyped ==
    ASSUME NEW g \in 1 .. Generations - 1
    PROVE  NextGeneration(g) \in 1 .. Generations - 1
<1>1. g + 1 \in 0 .. Generations /\ Generations \in Nat /\ Generations > 1
  BY GenerationsAssumption
<1>2. CASE g + 1 < Generations
  <2>1. (g + 1) % Generations = g + 1
    BY <1>1, <1>2
  <2>2. QED
    BY <2>1, <1>1, <1>2 DEF NextGeneration
<1>3. CASE g + 1 = Generations
  <2>1. (g + 1) % Generations = 0
    BY <1>1, <1>3
  <2>2. QED
    BY <2>1, <1>1 DEF NextGeneration
<1>4. QED
  BY <1>1, <1>2, <1>3

(* After the counters are cleared no node is left.                         *)
LEMMA NothingLive == ASSUME NEW h, h.count = 0 PROVE Live(h) = {}
<1>1. \A i \in Nat : ~(i < 0)
  OBVIOUS
<1>2. QED
  BY <1>1, IdsBelowNil DEF Live

(* reset() leaves an empty document.                                       *)
LEMMA ResetSafe ==
    ASSUME IInv, Reset
    PROVE  IInv'
<1>1. heap' \in Heaps /\ heap'.count = 0 /\ heap'.bytes = 0
  BY DEF IInv, TypeOK, Reset, Heaps
<1>2. Live(heap') = {}
  BY <1>1, NothingLive
<1>3. LayoutOK(heap')
  BY <1>1, <1>2, SizesAssumption DEF LayoutOK, NodeBytes
<1>4. ForestOK(heap')
  BY <1>2 DEF ForestOK, LinksOK, ParentOK, EndsOK, NextOK, ParentAcyclic,
              NextAcyclic, EntryOK
<1>5. generation' \in 1 .. Generations - 1
  BY NextGenerationTyped DEF IInv, TypeOK, Reset
<1>6. epoch' \in 0 .. MaxResets
  BY ClientAssumption DEF IInv, TypeOK, Reset
<1>7. stale' \subseteq HandleSet
  BY HeldTyped DEF IInv, Reset
<1>8. QED
  BY <1>1, <1>3, <1>4, <1>5, <1>6, <1>7
     DEF Reset, IInv, TypeOK, LayoutSafe, ForestSafe, NoInternalError,
         ErrorCodes

(* A fresh slab satisfies the invariant.                                   *)
LEMMA InitSafe == Init => IInv
<1> SUFFICES ASSUME Init PROVE IInv
  OBVIOUS
<1>1. heap \in Heaps
  BY NoRefTyped DEF Init, EmptyHeap, Heaps, ValueTypes
<1>2. heap.count = 0 /\ heap.bytes = 0
  BY DEF Init, EmptyHeap
<1>3. Live(heap) = {}
  BY <1>2, NothingLive
<1>4. LayoutOK(heap)
  BY <1>2, <1>3, SizesAssumption DEF LayoutOK, NodeBytes
<1>5. ForestOK(heap)
  BY <1>3 DEF ForestOK, LinksOK, ParentOK, EndsOK, NextOK, ParentAcyclic,
              NextAcyclic, EntryOK
<1>6. generation \in 1 .. Generations - 1 /\ epoch \in 0 .. MaxResets
  BY GenerationsAssumption, ClientAssumption DEF Init
<1>7. QED
  BY <1>1, <1>4, <1>5, <1>6
     DEF Init, IInv, TypeOK, LayoutSafe, ForestSafe, NoInternalError,
         ErrorCodes

(* Every call keeps the invariant.                                         *)
LEMMA NextSafe ==
    ASSUME IInv, [Next]_vars
    PROVE  IInv'
<1>h. /\ \A v \in Held : v \in HandleSet /\ v.id \in Ids /\ v.id \in Nat
                         /\ v.type \in ValueTypes
      /\ <<>> \in Seq(Bytes) /\ \A key \in Texts : key \in Seq(Bytes)
  BY HeldTyped, TextsTyped, IdsBelowNil DEF IInv, HandleSet
<1>1. ASSUME NEW item \in Items, MakeItem(item) PROVE IInv'
  BY <1>1, MakeItemSafe
<1>2. ASSUME NEW array \in HeldAs("Array"), NEW child \in Values,
             Add(array, <<>>, child)
      PROVE  IInv'
  BY <1>2, <1>h, AddSafe DEF HeldAs
<1>3. ASSUME NEW object \in HeldAs("Object"), NEW key \in Texts,
             NEW child \in Values, Add(object, key, child)
      PROVE  IInv'
  BY <1>3, <1>h, AddSafe DEF HeldAs
<1>4. ASSUME NEW array \in HeldAs("Array"), NEW item \in Items,
             BuildElement(array, item)
      PROVE  IInv'
  BY <1>4, <1>h, BuildSafe DEF HeldAs, BuildElement
<1>5. ASSUME NEW object \in HeldAs("Object"), NEW key \in Texts,
             NEW item \in Items, BuildMember(object, key, item)
      PROVE  IInv'
  BY <1>5, <1>h, BuildSafe DEF HeldAs, BuildMember
<1>6. ASSUME NEW parent, AddNullPointer(parent) PROVE IInv'
  BY <1>6, AddNullPointerSafe
<1>7. ASSUME NEW object \in HeldAs("Object"), NEW key \in Texts,
             Remove(object, key)
      PROVE  IInv'
  <2>1. object.id \in Live(heap) =>
           MemberByKey(heap, object.id, key, Exact)
              \in Siblings(heap, object.id) \cup {Nil}
    BY MemberByKeyTyped
  <2>2. QED
    BY <1>7, <1>h, <2>1, DetachSafe DEF HeldAs, Remove
<1>8. ASSUME NEW item \in Held, NEW key \in Texts, NEW fold,
             CjsonDetachFromObject(item, key, fold)
      PROVE  IInv'
  <2>1. item.id \in Live(heap) =>
           MemberByKey(heap, item.id, key, fold)
              \in Siblings(heap, item.id) \cup {Nil}
    BY MemberByKeyTyped
  <2>2. QED
    BY <1>8, <1>h, <2>1, DetachSafe DEF CjsonDetachFromObject
<1>9. ASSUME NEW item \in Held, NEW index \in Ids,
             CjsonDetachFromArray(item, index)
      PROVE  IInv'
  <2>1. item.id \in Live(heap) =>
           ElementAt(heap, item.id, index)
              \in Siblings(heap, item.id) \cup {Nil}
    BY ElementAtTyped
  <2>2. QED
    BY <1>9, <1>h, <2>1, DetachSafe DEF CjsonDetachFromArray
<1>10. ASSUME NEW item \in Held, NEW child \in Values,
              CjsonAddItem(item, "Array", <<>>, child)
       PROVE  IInv'
  BY <1>10, <1>h, CjsonAddItemSafe
<1>11. ASSUME NEW item \in Held, NEW key \in Texts, NEW child \in Values,
              CjsonAddItem(item, "Object", key, child)
       PROVE  IInv'
  BY <1>11, <1>h, CjsonAddItemSafe
<1>12. CASE ClearError
  BY <1>12 DEF ClearError, IInv, TypeOK, LayoutSafe, ForestSafe,
               NoInternalError, ErrorCodes
<1>13. CASE Reset
  BY <1>13, ResetSafe
<1>14. CASE UNCHANGED vars
  BY <1>14 DEF vars, IInv, TypeOK, LayoutSafe, ForestSafe, NoInternalError
<1>15. QED
  BY <1>1, <1>2, <1>3, <1>4, <1>5, <1>6, <1>7, <1>8, <1>9, <1>10, <1>11,
     <1>12, <1>13, <1>14 DEF Next

-----------------------------------------------------------------------------
(* IInv holds in every reachable state.                                    *)
THEOREM InductiveInvariant == Spec => []IInv
<1>1. Init => IInv
  BY InitSafe
<1>2. IInv /\ [Next]_vars => IInv'
  BY NextSafe
<1>3. QED
  BY <1>1, <1>2, PTL DEF Spec

(* Every field keeps the width the code gives it: no id, offset or length  *)
(* is truncated to 16 bits.                                                *)
THEOREM TypeCorrect == Spec => []TypeOK
BY InductiveInvariant, PTL DEF IInv

(* Nodes and strings never meet, and no live node refers to bytes outside  *)
(* the strings that are allocated.                                         *)
THEOREM LayoutCorrect == Spec => []LayoutSafe
BY InductiveInvariant, PTL DEF IInv

(* The document is an acyclic forest with consistent links, after any      *)
(* sequence of adds, failures, removals, detachments and resets.           *)
THEOREM ForestCorrect == Spec => []ForestSafe
BY InductiveInvariant, PTL DEF IInv

(* Iterating a container yields exactly the nodes attached to it.          *)
THEOREM ChildrenCorrect == Spec => []ChildrenSafe
<1>1. IInv => ChildrenSafe
  BY IInvHeap, ForestHasChildren DEF ChildrenSafe
<1>2. QED
  BY <1>1, InductiveInvariant, PTL

(* ErrorCode::InternalError is never returned: what the code guards        *)
(* against in its walks and in make_string() cannot happen.                *)
THEOREM NeverInternalError == Spec => []NoInternalError
BY InductiveInvariant, PTL DEF IInv

-----------------------------------------------------------------------------
(* Handles over resets.  The generation counter cycles through             *)
(* 1 .. Generations - 1, so it and the number of resets determine each     *)
(* other up to whole cycles; the same holds for what a handle remembers.   *)
InStep(e, g) == \E k \in Nat : e = k * (Generations - 1) + g - 1

HandleInv ==
    /\ InStep(epoch, generation)
    /\ \A h \in stale : h.epoch < epoch /\ InStep(h.epoch, h.gen)

(* Equal generations of different epochs are a whole cycle apart.          *)
LEMMA CyclesApart ==
    ASSUME NEW e \in Nat, NEW f \in Nat, NEW g \in Nat, f < e,
           InStep(e, g), InStep(f, g)
    PROVE  e - f >= Generations - 1
<1> DEFINE m == Generations - 1
<1>1. m \in Nat /\ m >= 1
  BY GenerationsAssumption
<1>2. PICK k \in Nat : e = k * m + g - 1
  BY DEF InStep
<1>3. PICK j \in Nat : f = j * m + g - 1
  BY DEF InStep
<1> HIDE DEF m
<1>4. k * m \in Nat /\ j * m \in Nat
  BY <1>1
<1>5. j * m < k * m
  BY <1>2, <1>3, <1>4
<1>6. k >= j + 1
  <2> SUFFICES ASSUME k <= j PROVE FALSE
    OBVIOUS
  <2>1. k * m <= j * m
    BY <1>1
  <2>2. QED
    BY <2>1, <1>4, <1>5
<1>7. k * m >= (j + 1) * m
  BY <1>1, <1>6
<1>8. (j + 1) * m = j * m + m
  BY <1>1
<1>9. QED
  BY <1>1, <1>2, <1>3, <1>4, <1>7, <1>8 DEF m

(* One more reset moves both on by one.                                    *)
LEMMA NextInStep ==
    ASSUME NEW e \in Nat, NEW g \in 1 .. Generations - 1, InStep(e, g)
    PROVE  InStep(e + 1, NextGeneration(g))
<1> DEFINE m == Generations - 1
<1>1. Generations \in Nat /\ Generations > 1 /\ m \in Nat /\ g \in Nat
  BY GenerationsAssumption
<1>2. PICK k \in Nat : e = k * m + g - 1
  BY DEF InStep
<1>3. k * m \in Nat
  BY <1>1
<1>4. CASE g + 1 < Generations
  <2>1. (g + 1) % Generations = g + 1
    BY <1>1, <1>4
  <2>2. NextGeneration(g) = g + 1
    BY <2>1, <1>1 DEF NextGeneration
  <2>3. e + 1 = k * m + NextGeneration(g) - 1
    BY <2>2, <1>1, <1>2, <1>3
  <2>4. QED
    BY <2>3 DEF InStep
<1>5. CASE g + 1 = Generations
  <2>1. (g + 1) % Generations = 0
    BY <1>1, <1>5
  <2>2. NextGeneration(g) = 1
    BY <2>1 DEF NextGeneration
  <2>3. (k + 1) * m = k * m + m
    BY <1>1
  <2>4. e + 1 = (k + 1) * m + 1 - 1
    BY <2>3, <1>1, <1>2, <1>3, <1>5
  <2>5. QED
    BY <2>2, <2>4 DEF InStep
<1>6. QED
  BY <1>1, <1>4, <1>5

(* Every call keeps generations, epochs and kept handles in step.          *)
LEMMA HandleInvSafe ==
    ASSUME IInv, HandleInv, [Next]_vars
    PROVE  HandleInv'
<1>1. CASE Reset
  <2>1. epoch \in Nat /\ epoch' = epoch + 1
    BY <1>1, ClientAssumption DEF IInv, TypeOK, Reset
  <2>2. InStep(epoch', generation')
    BY <1>1, <2>1, NextInStep DEF IInv, TypeOK, Reset, HandleInv
  <2>3. ASSUME NEW h \in stale'
        PROVE  h.epoch < epoch' /\ InStep(h.epoch, h.gen)
    <3>1. h \in Current \/ h \in stale
      BY <1>1 DEF Reset, Held
    <3>2. CASE h \in Current
      <4>1. h.epoch = epoch /\ h.gen = generation
        BY <3>2 DEF Current, Handle
      <4>2. QED
        BY <4>1, <2>1 DEF HandleInv
    <3>3. CASE h \in stale
      <4>1. h.epoch \in Nat /\ h.epoch < epoch /\ InStep(h.epoch, h.gen)
        BY <3>3 DEF HandleInv, IInv, TypeOK, HandleSet
      <4>2. QED
        BY <4>1, <2>1
    <3>4. QED
      BY <3>1, <3>2, <3>3
  <2>4. QED
    BY <2>2, <2>3 DEF HandleInv
<1>2. CASE UNCHANGED <<generation, epoch, stale>>
  BY <1>2 DEF HandleInv, InStep
<1>3. QED
  BY <1>1, <1>2, ZenonT(30)
     DEF Next, vars, MakeItem, Add, BuildElement, BuildMember, Build,
         AddNullPointer, Remove, Detach, CjsonDetachFromObject, CjsonDetachFromArray, CjsonAddItem,
         ClearError, Reject, Refuse, Commit

(* A handle that a reset() has discarded is rejected until the generation  *)
(* counter has come round to it: 2^32 - 1 resets later.                    *)
THEOREM StaleHandlesRejected == Spec => []StaleRejected
<1>1. Init => HandleInv
  <2> SUFFICES ASSUME Init PROVE InStep(0, 1)
    BY DEF Init, HandleInv
  <2>1. 0 = 0 * (Generations - 1) + 1 - 1
    BY GenerationsAssumption
  <2>2. QED
    BY <2>1 DEF InStep
<1>2. IInv /\ HandleInv /\ [Next]_vars => HandleInv'
  BY HandleInvSafe
<1>3. IInv /\ HandleInv => StaleRejected
  <2> SUFFICES ASSUME IInv, HandleInv, NEW h \in stale, Accepted(h)
               PROVE  epoch - h.epoch >= Generations - 1
    BY DEF StaleRejected
  <2>1. h.gen = generation /\ generation \in Nat
    BY GenerationsAssumption DEF Accepted, NodeFor, IInv, TypeOK
  <2>2. epoch \in Nat /\ h.epoch \in Nat
    BY ClientAssumption DEF IInv, TypeOK, HandleSet
  <2>3. QED
    BY <2>1, <2>2, CyclesApart DEF HandleInv
<1>4. QED
  BY <1>1, <1>2, <1>3, InductiveInvariant, PTL DEF Spec

-----------------------------------------------------------------------------
(* What a call does to the document.  Every call but reset() does one of   *)
(* five things to the heap, and what it returns and records goes with it.  *)
(* The theorems below follow from this alone.                              *)

(* Nothing that a client can see.                                          *)
Kept(g, h) == Extends(g, h) /\ g.count = h.count /\ g.bytes = h.bytes

(* One detached node more, with a text of the client if it is a string.    *)
Created(g, h) ==
    \E type \in ValueTypes :
        /\ Grown(g, h, type)
        /\ ViewString(g, g.value[h.count])
              \in IF type = "String" THEN Texts ELSE {<<>>}

(* One detached node put into a container, under a key of the client if it *)
(* is an object.                                                           *)
Put(g, h, p, c) ==
    /\ \E ref, flags : Attached(g, h, p, c, ref, flags)
    /\ ViewString(g, g.key[c]) \in IF h.type[p] = "Object" THEN Texts ELSE {<<>>}

Joined(g, h) == \E p, c : Put(g, h, p, c)

(* One node more, in a container.                                          *)
Built(g, h) == \E m, p : HeapOK(m) /\ Created(m, h) /\ Put(g, m, p, h.count)

(* One child taken out, of an object the first that has its key.           *)
FirstWithKey(h, p, c) ==
    h.type[p] = "Object" =>
        \A d \in Live(h) : d # c /\ NotAfter(h, d, c) =>
            ViewString(h, h.key[d]) # ViewString(h, h.key[c])

Dropped(g, h) ==
    \E p, q, c : TakenOut(g, h, p, q, c) /\ FirstWithKey(h, p, c)

Effect ==
    /\ \/ Kept(heap', heap)
       \/ result' = "Ok" /\ (Created(heap', heap) \/ Dropped(heap', heap))
       \/ result' = "Ok" /\ error = "Ok"
             /\ (Joined(heap', heap) \/ Built(heap', heap))
    /\ error' = error \/ error = "Ok" \/ error' = "Ok"
    /\ StringsOK(heap) => StringsOK(heap')

(* A heap that is as it was shows nothing new.                             *)
LEMMA SameIsKept == ASSUME NEW h, HeapOK(h) PROVE Kept(h, h)
BY Counters DEF Kept, Extends, SameNodes, FlagsKept, BytesKept

(* A refused call has no effect, whether its error is recorded or not.     *)
LEMMA NoEffect ==
    ASSUME IInv, heap' = heap, error' = error \/ error = "Ok" \/ error' = "Ok"
    PROVE  Effect
BY IInvHeap, SameIsKept DEF Effect

(* A call refused with an error to record.                                  *)
LEMMA RejectEffect == ASSUME IInv, NEW code, Reject(code) PROVE Effect
BY NoEffect DEF Reject, RecordError

(* A call refused without recording its error.                             *)
LEMMA RefuseEffect == ASSUME IInv, NEW code, Refuse(code) PROVE Effect
BY NoEffect DEF Refuse

(* A maker makes what the client asks for.                                 *)
LEMMA MakeCreates ==
    ASSUME NEW h, HeapOK(h), NEW item \in Items, Make(h, item).code = "Ok"
    PROVE  LET g == Make(h, item).heap
           IN /\ Created(g, h) /\ g.count \in Nat /\ Extends(g, h)
              /\ StringsOK(h) => StringsOK(g)
<1> DEFINE g == Make(h, item).heap
<1>1. item.type \in ValueTypes /\ item.text \in Seq(Bytes)
  BY ItemsTyped
<1>2. item.type = "String" => item.text \in Texts
  BY DEF Items
<1>3. /\ Grown(g, h, item.type)
      /\ ViewString(g, g.value[h.count])
            = IF item.type = "String" THEN item.text ELSE <<>>
      /\ StringsOK(h) => StringsOK(g)
  BY <1>1, MakeGrows
<1>4. g.count \in Nat
  BY <1>1, MakeKeepsForest, Counters
<1> HIDE DEF g
<1>5. Created(g, h)
  BY <1>1, <1>2, <1>3 DEF Created
<1>6. QED
  BY <1>3, <1>4, <1>5 DEF g, Grown

(* The makers.                                                             *)
LEMMA MakeItemEffect ==
    ASSUME IInv, NEW item \in Items, MakeItem(item)
    PROVE  Effect
<1> DEFINE made == Make(heap, item)
<1>1. HeapOK(heap) /\ item.type \in ValueTypes /\ item.text \in Seq(Bytes)
  BY IInvHeap, ItemsTyped
<1>2. heap' = made.heap /\ result' = made.code /\ error' = error
  BY DEF MakeItem
<1>3. CASE made.code # "Ok"
  <2>1. made.heap = heap
    BY <1>1, <1>3, MakeKeepsForest
  <2>2. QED
    BY <2>1, <1>2, NoEffect
<1>4. CASE made.code = "Ok"
  <2>1. Created(made.heap, heap) /\ (StringsOK(heap) => StringsOK(made.heap))
    BY <1>1, <1>4, MakeCreates
  <2> HIDE DEF made
  <2>2. QED
    BY <2>1, <1>2, <1>4 DEF Effect
<1>5. QED
  BY <1>3, <1>4

(* Attaching to either container.                                          *)
LEMMA AttachEffect ==
    ASSUME NEW h, HeapOK(h), NEW key \in Seq(Bytes),
           NEW parent, parent.id \in Nat, parent.type = "Array" \/ key \in Texts,
           NEW child, child.id \in Nat, Attach(h, parent, key, child).code = "Ok"
    PROVE  LET g == Attach(h, parent, key, child).heap
           IN /\ Put(g, h, parent.id, child.id)
              /\ StringsOK(h) => StringsOK(g)
<1> DEFINE g == Attach(h, parent, key, child).heap
           flags == FALSE
           escape == NeedsEscape(key)
<1>1. CASE parent.type = "Array"
  <2>1. /\ Attached(g, h, parent.id, child.id, NoRef, flags)
        /\ h.type[parent.id] = "Array"
        /\ StringsOK(h) => StringsOK(g)
    BY <1>1, ArrayAttaches DEF Attach
  <2> HIDE DEF g, flags
  <2>2. g.key[child.id] = NoRef
    BY <2>1, LinksStayLive DEF Attached, OnlyKeySet
  <2>3. Put(g, h, parent.id, child.id)
    BY <2>1, <2>2, NoRefView DEF Put
  <2>4. QED
    BY <2>1, <2>3 DEF g
<1>2. CASE parent.type # "Array"
  <2>1. /\ Attached(g, h, parent.id, child.id, NextRef(h, Len(key)), escape)
        /\ h.type[parent.id] = "Object"
        /\ ViewString(g, g.key[child.id]) = key
        /\ StringsOK(h) => StringsOK(g)
    BY <1>2, ObjectAttaches DEF Attach
  <2> HIDE DEF g, escape
  <2>2. Put(g, h, parent.id, child.id)
    BY <1>2, <2>1 DEF Put
  <2>3. QED
    BY <2>1, <2>2 DEF g
<1>3. QED
  BY <1>1, <1>2

(* While an error is recorded, status() of any handle is that error.       *)
LEMMA StatusOk == ASSUME NEW handle, Status(handle) = "Ok" PROVE error = "Ok"
BY DEF Status

(* Object::add(key, Value) and Array::add(Value).                          *)
LEMMA AddEffect ==
    ASSUME IInv, NEW key \in Seq(Bytes), NEW parent, parent.id \in Nat,
           parent.type = "Array" \/ key \in Texts,
           NEW child \in Values, Add(parent, key, child)
    PROVE  Effect
<1> DEFINE attached == Attach(heap, parent, key, child)
<1>1. CASE Reject(Status(parent)) \/ Reject(attached.code)
  BY <1>1, RejectEffect
<1>2. CASE /\ Status(parent) = "Ok" /\ attached.code = "Ok"
           /\ Commit(attached.heap)
  <2>1. HeapOK(heap) /\ child.id \in Nat
    BY IInvHeap, HeldTyped DEF IInv
  <2>2. /\ Joined(attached.heap, heap)
        /\ StringsOK(heap) => StringsOK(attached.heap)
    BY <2>1, <1>2, AttachEffect DEF Joined
  <2> HIDE DEF attached
  <2>3. error = "Ok"
    BY <1>2, StatusOk
  <2>4. QED
    BY <2>2, <2>3, <1>2 DEF Commit, Effect
<1>3. QED
  BY <1>1, <1>2 DEF Add

(* ContainerBuilder::add.                                                  *)
LEMMA BuildEffect ==
    ASSUME IInv, NEW key \in Seq(Bytes), NEW parent, parent.id \in Nat,
           parent.type = "Array" \/ key \in Texts,
           NEW item \in Items, Build(parent, key, item)
    PROVE  Effect
<1> DEFINE made == Make(heap, item)
           child == [slab |-> "this", id |-> heap.count, gen |-> generation,
                     type |-> item.type, epoch |-> epoch]
           attached == Attach(made.heap, parent, key, child)
<1>1. /\ HeapOK(heap) /\ heap.count \in Nat
      /\ item.type \in ValueTypes /\ item.text \in Seq(Bytes)
  BY IInvHeap, ItemsTyped DEF HeapOK, Heaps
<1>2. /\ HeapOK(made.heap)
      /\ made.code # "Ok" => made.heap = heap
      /\ made.code = "Ok" =>
            /\ Created(made.heap, heap) /\ Extends(made.heap, heap)
            /\ StringsOK(heap) => StringsOK(made.heap)
  BY <1>1, MakeKeepsForest, MakeCreates
<1>3. child.id = heap.count
  OBVIOUS
<1> HIDE DEF made, child
<1>4. /\ AttachSafe(attached, made.heap)
      /\ attached.code = "Ok" =>
            /\ Put(attached.heap, made.heap, parent.id, child.id)
            /\ StringsOK(made.heap) => StringsOK(attached.heap)
  BY <1>1, <1>2, <1>3, AttachIsSafe, AttachEffect
<1> HIDE DEF attached
<1>5. CASE Reject(Status(parent))
  BY <1>5, RejectEffect
<1>6. CASE made.code # "Ok" /\ RecordError(made.code) /\ heap' = made.heap
  BY <1>2, <1>6, NoEffect DEF RecordError
<1>7. CASE /\ made.code = "Ok" /\ attached.code # "Ok"
           /\ RecordError(attached.code)
           /\ heap' = Rollback(attached.heap, heap)
  <2>1. heap' = Rollback(made.heap, heap)
    BY <1>4, <1>7 DEF AttachSafe
  <2>2. made.heap \in Heaps /\ Extends(made.heap, heap)
    BY <1>2, <1>7 DEF HeapOK
  <2>3. /\ heap'.count = heap.count /\ heap'.bytes = heap.bytes
        /\ Extends(heap', heap)
        /\ StringsOK(heap) => StringsOK(heap')
    BY <2>1, <2>2, <1>1, RollbackKeepsStrings
  <2>4. error' = error \/ error = "Ok" \/ error' = "Ok"
    BY <1>7 DEF RecordError
  <2>5. QED
    BY <2>3, <2>4 DEF Effect, Kept
<1>8. CASE /\ Status(parent) = "Ok"
           /\ made.code = "Ok" /\ attached.code = "Ok"
           /\ Commit(attached.heap)
  <2>1. heap' = attached.heap /\ result' = "Ok" /\ error' = error
    BY <1>8 DEF Commit
  <2>2. Built(attached.heap, heap)
    BY <1>2, <1>3, <1>4, <1>8 DEF Built
  <2>3. error = "Ok"
    BY <1>8, StatusOk
  <2>4. QED
    BY <2>1, <2>2, <2>3, <1>2, <1>4, <1>8 DEF Effect
<1>9. QED
  BY <1>5, <1>6, <1>7, <1>8 DEF Build, made, child, attached

(* A lookup by key, however it compares, finds the first with its key.     *)
LEMMA MemberIsFirst ==
    ASSUME NEW h, HeapOK(h), NEW p \in Live(h), NEW key, NEW fold,
           MemberByKey(h, p, key, fold) \in Siblings(h, p)
    PROVE  FirstWithKey(h, p, MemberByKey(h, p, key, fold))
<1> DEFINE Matches(text) == /\ Len(text) = Len(key)
                            /\ \A k \in DOMAIN key : fold[text[k]] = fold[key[k]]
           S == {c \in Siblings(h, p) : Matches(ViewString(h, h.key[c]))}
           m == MemberByKey(h, p, key, fold)
<1>1. m = FirstOf(h, S)
  BY DEF MemberByKey
<1>2. S \in SUBSET Siblings(h, p)
  OBVIOUS
<1>3. S # {}
  <2>1. Nil \notin Siblings(h, p)
    BY IdsBelowNil, ReachIds DEF Siblings
  <2> HIDE DEF S
  <2>2. QED
    BY <1>1, <2>1 DEF FirstOf
<1>4. m \in S /\ \A d \in S : NotAfter(h, m, d)
  <2> HIDE DEF S, m
  <2>1. QED
    BY <1>1, <1>2, <1>3, FirstOfExists
<1>5. m \in Live(h) /\ h.parent[m] = p
  BY <1>2, <1>4, SiblingsAreChildren
<1> SUFFICES ASSUME NEW d \in Live(h), d # m, NotAfter(h, d, m),
                    ViewString(h, h.key[d]) = ViewString(h, h.key[m])
             PROVE  FALSE
  BY DEF FirstWithKey
<1>6. Matches(ViewString(h, h.key[d]))
  BY <1>4
<1> HIDE DEF m, Matches
<1>7. h.parent[d] = p
  BY <1>5, ReachSameParent DEF NotAfter
<1>8. d \in S
  BY <1>6, <1>7, ChildrenAreSiblings
<1>9. NotAfter(h, m, d)
  BY <1>4, <1>8
<1>10. QED
  BY <1>5, <1>9, OrderAntisymmetric DEF NotAfter

(* What the lookups behind remove() and detach find.                       *)
Found(parent, type, child) ==
    parent.id \in Live(heap) =>
        /\ child \in Siblings(heap, parent.id) \cup {Nil}
        /\ \/ type = "Array"
           \/ \E key, fold : child = MemberByKey(heap, parent.id, key, fold)

(* Taking a child out.                                                     *)
LEMMA DetachEffect ==
    ASSUME IInv, NEW parent, parent.id \in Ids, NEW type, NEW child,
           Found(parent, type, child), Detach(parent, type, child)
    PROVE  Effect
<1>1. CASE Refuse(ParentError(parent, type)) \/ Refuse("NotFound")
  BY <1>1, RefuseEffect
<1>2. CASE /\ ParentError(parent, type) = "Ok"
           /\ child # Nil
           /\ Commit(TakeOut(heap, parent.id, child))
  <2>1. parent.id \in Live(heap) /\ heap.type[parent.id] = type
    BY <1>2, AcceptedIsLive DEF ParentError
  <2>2. child \in Siblings(heap, parent.id)
    BY <2>1, <1>2 DEF Found
  <2>3. FirstWithKey(heap, parent.id, child)
    <3>1. CASE type = "Array"
      BY <2>1, <3>1 DEF FirstWithKey
    <3>2. CASE \E key, fold : child = MemberByKey(heap, parent.id, key, fold)
      BY <2>1, <2>2, <3>2, IInvHeap, MemberIsFirst
    <3>3. QED
      BY <2>1, <3>1, <3>2 DEF Found
  <2>4. /\ Dropped(TakeOut(heap, parent.id, child), heap)
        /\ StringsOK(heap) => StringsOK(TakeOut(heap, parent.id, child))
    BY <2>1, <2>2, <2>3, IInvHeap, TakeOutUnlinks DEF Dropped
  <2>5. QED
    BY <2>4, <1>2 DEF Commit, Effect
<1>3. QED
  BY <1>1, <1>2 DEF Detach

(* add_item_to_array() and add_item_to_object().                           *)
LEMMA CjsonAddItemEffect ==
    ASSUME IInv, NEW key \in Seq(Bytes),
           NEW type, type = "Array" \/ key \in Texts,
           NEW item \in HandleSet, item.id \in Nat, NEW child \in Values,
           CjsonAddItem(item, type, key, child)
    PROVE  Effect
<1>1. CASE Refuse("InvalidHandle") \/ Refuse("TypeMismatch")
  BY <1>1, RefuseEffect
<1>2. CASE Add([item EXCEPT !.type = type], key, child)
  <2>1. /\ [item EXCEPT !.type = type].id \in Nat
        /\ [item EXCEPT !.type = type].type = type
    BY DEF HandleSet
  <2>2. QED
    BY <1>2, <2>1, AddEffect
<1>3. QED
  BY <1>1, <1>2 DEF CjsonAddItem

(* Every call but reset().                                                 *)
LEMMA NextEffect ==
    ASSUME IInv, [Next]_vars
    PROVE  Effect \/ Reset
<1>h. /\ \A v \in Held : v \in HandleSet /\ v.id \in Ids /\ v.id \in Nat
      /\ <<>> \in Seq(Bytes) /\ \A key \in Texts : key \in Seq(Bytes)
  BY HeldTyped, TextsTyped, IdsBelowNil DEF IInv, HandleSet
<1>1. ASSUME NEW item \in Items, MakeItem(item) PROVE Effect
  BY <1>1, MakeItemEffect
<1>2. ASSUME NEW array \in HeldAs("Array"), NEW child \in Values,
             Add(array, <<>>, child)
      PROVE  Effect
  BY <1>2, <1>h, AddEffect DEF HeldAs
<1>3. ASSUME NEW object \in HeldAs("Object"), NEW key \in Texts,
             NEW child \in Values, Add(object, key, child)
      PROVE  Effect
  BY <1>3, <1>h, AddEffect DEF HeldAs
<1>4. ASSUME NEW array \in HeldAs("Array"), NEW item \in Items,
             BuildElement(array, item)
      PROVE  Effect
  BY <1>4, <1>h, BuildEffect DEF HeldAs, BuildElement
<1>5. ASSUME NEW object \in HeldAs("Object"), NEW key \in Texts,
             NEW item \in Items, BuildMember(object, key, item)
      PROVE  Effect
  BY <1>5, <1>h, BuildEffect DEF HeldAs, BuildMember
<1>6. ASSUME NEW parent, AddNullPointer(parent) PROVE Effect
  BY <1>6, RejectEffect DEF AddNullPointer
<1>7. ASSUME NEW object \in HeldAs("Object"), NEW key \in Texts,
             Remove(object, key)
      PROVE  Effect
  <2>1. Found(object, "Object", MemberByKey(heap, object.id, key, Exact))
    BY MemberByKeyTyped DEF Found
  <2>2. QED
    BY <1>7, <1>h, <2>1, DetachEffect DEF HeldAs, Remove
<1>8. ASSUME NEW item \in Held, NEW key \in Texts, NEW fold,
             CjsonDetachFromObject(item, key, fold)
      PROVE  Effect
  <2>1. Found(item, "Object", MemberByKey(heap, item.id, key, fold))
    BY MemberByKeyTyped DEF Found
  <2>2. QED
    BY <1>8, <1>h, <2>1, DetachEffect DEF CjsonDetachFromObject
<1>9. ASSUME NEW item \in Held, NEW index \in Ids,
             CjsonDetachFromArray(item, index)
      PROVE  Effect
  <2>1. Found(item, "Array", ElementAt(heap, item.id, index))
    BY ElementAtTyped DEF Found
  <2>2. QED
    BY <1>9, <1>h, <2>1, DetachEffect DEF CjsonDetachFromArray
<1>10. ASSUME NEW item \in Held, NEW child \in Values,
              CjsonAddItem(item, "Array", <<>>, child)
       PROVE  Effect
  BY <1>10, <1>h, CjsonAddItemEffect
<1>11. ASSUME NEW item \in Held, NEW key \in Texts, NEW child \in Values,
              CjsonAddItem(item, "Object", key, child)
       PROVE  Effect
  BY <1>11, <1>h, CjsonAddItemEffect
<1>12. CASE ClearError
  BY <1>12, NoEffect DEF ClearError
<1>13. CASE UNCHANGED vars
  BY <1>13, NoEffect DEF vars
<1>14. QED
  BY <1>1, <1>2, <1>3, <1>4, <1>5, <1>6, <1>7, <1>8, <1>9, <1>10, <1>11,
     <1>12, <1>13 DEF Next

-----------------------------------------------------------------------------
(* The strings.  They need an invariant of their own on top of IInv: that  *)
(* the strings in use are apart is what lets a new one be written without  *)
(* spoiling the text of another, and where a new string goes is known from *)
(* the layout.                                                             *)
StringsInv == StringsOK(heap) /\ KeysOK(heap)

(* Every call leaves the keys where they belong, ...                       *)
LEMMA KeysSafe ==
    ASSUME IInv, [Next]_vars
    PROVE  /\ KeysAtHome(heap) => KeysAtHome(heap')
           /\ KeysOK(heap) => KeysOK(heap')
<1>1. HeapOK(heap)
  BY IInvHeap
<1>2. CASE Effect
  <2>1. CASE Kept(heap', heap)
    BY <1>1, <2>1, ExtendedKeys DEF Kept
  <2>2. CASE Created(heap', heap)
    BY <1>1, <2>2, GrownKeys DEF Created
  <2>3. CASE Dropped(heap', heap)
    BY <1>1, <2>3, TakenOutKeys DEF Dropped
  <2>4. CASE Joined(heap', heap)
    BY <1>1, <2>4, AttachedKeys DEF Joined, Put
  <2>5. CASE Built(heap', heap)
    <3>1. PICK m, p, ref, flags :
             /\ HeapOK(m) /\ Created(m, heap)
             /\ Attached(heap', m, p, heap.count, ref, flags)
      BY <2>5 DEF Built, Put
    <3>2. /\ KeysAtHome(heap) => KeysAtHome(m)
          /\ KeysOK(heap) => KeysOK(m)
      BY <1>1, <3>1, GrownKeys DEF Created
    <3>3. QED
      BY <3>1, <3>2, AttachedKeys
  <2>6. QED
    BY <1>2, <2>1, <2>2, <2>3, <2>4, <2>5 DEF Effect
<1>3. CASE Reset
  <2>1. heap'.count = 0
    BY <1>3 DEF Reset, IInv, TypeOK, Heaps
  <2>2. Live(heap') = {}
    BY <2>1, NothingLive
  <2>3. QED
    BY <2>2 DEF KeysAtHome, KeysOK
<1>4. QED
  BY <1>2, <1>3, NextEffect

(* ... the strings apart and their texts true.                             *)
LEMMA StringsSafe ==
    ASSUME IInv, StringsOK(heap), [Next]_vars
    PROVE  StringsOK(heap')
<1>1. CASE Effect
  BY <1>1 DEF Effect
<1>2. CASE Reset
  <2>1. heap'.count = 0
    BY <1>2 DEF Reset, IInv, TypeOK, Heaps
  <2>2. Live(heap') = {}
    BY <2>1, NothingLive
  <2>3. QED
    BY <2>2 DEF StringsOK, StringsDisjoint, TextsOK
<1>3. QED
  BY <1>1, <1>2, NextEffect

(* Together they are inductive, ...                                        *)
LEMMA StringsInvSafe ==
    ASSUME IInv, StringsInv, [Next]_vars
    PROVE  StringsInv'
BY KeysSafe, StringsSafe DEF StringsInv

(* ... and they are in order from the start.                               *)
LEMMA StringsInvInit == Init => StringsInv
<1> SUFFICES ASSUME Init PROVE StringsInv
  OBVIOUS
<1>1. heap.count = 0
  BY DEF Init, EmptyHeap
<1>2. Live(heap) = {}
  BY <1>1, NothingLive
<1>3. QED
  BY <1>2 DEF StringsInv, StringsOK, StringsDisjoint, TextsOK, KeysOK, KeysAtHome

(* They are in order in every state.                                       *)
LEMMA StringsInvHolds == Spec => []StringsInv
<1>1. IInv /\ StringsInv /\ [Next]_vars => StringsInv'
  BY StringsInvSafe
<1>2. QED
  BY <1>1, StringsInvInit, InductiveInvariant, PTL DEF Spec

(* No two keys or values in use share a byte, whatever was allocated,      *)
(* rolled back or dropped before.                                          *)
THEOREM StringsNeverOverlap == Spec => []StringsApart
<1>1. StringsInv => StringsApart
  BY DEF StringsInv, StringsOK, StringsApart
<1>2. QED
  BY <1>1, StringsInvHolds, PTL

(* A node that is not a member of an object has no key.                    *)
THEOREM KeysOnlyOnMembers == Spec => []KeysOnMembers
<1>1. StringsInv => KeysOnMembers
  BY DEF StringsInv, KeysOK, KeysAtHome, Member, KeysOnMembers
<1>2. QED
  BY <1>1, StringsInvHolds, PTL

(* Every text in order is well-formed and described by its flag.           *)
LEMMA GoodStrings == IInv /\ StringsInv => StoredTextOK
<1> SUFFICES ASSUME IInv, StringsInv, NEW i \in Live(heap),
                    NEW s \in {[ref |-> heap.key[i], flags |-> heap.keyFlags[i]],
                               [ref |-> heap.value[i], flags |-> heap.valueFlags[i]]}
             PROVE  GoodText(ViewString(heap, s.ref), s.flags)
  BY DEF StoredTextOK, GoodText
<1>v. GoodText(ViewString(heap, heap.value[i]), heap.valueFlags[i])
  BY DEF StringsInv, StringsOK, TextsOK, GoodValue
<1>k. GoodText(ViewString(heap, heap.key[i]), heap.keyFlags[i])
  <2>1. CASE heap.key[i] = NoRef
    <3>1. heap.keyFlags[i] = FALSE
      <4>1. heap.keyFlags[i] \in BOOLEAN
        BY DEF IInv, TypeOK, Heaps, Live
      <4>2. ~heap.keyFlags[i]
        BY <2>1 DEF StringsInv, KeysOK, KeysAtHome
      <4>3. QED
        BY <4>1, <4>2
    <3>2. ViewString(heap, heap.key[i]) = <<>>
      BY <2>1, NoRefView
    <3>3. GoodText(<<>>, heap.keyFlags[i])
      BY <3>1, EmptyIsGood
    <3>4. QED
      BY <3>2, <3>3
  <2>2. QED
    BY <2>1 DEF StringsInv, StringsOK, TextsOK, GoodKey
<1>1. /\ GoodText(ViewString(heap, heap.key[i]), heap.keyFlags[i])
      /\ GoodText(ViewString(heap, heap.value[i]), heap.valueFlags[i])
  BY <1>v, <1>k
<1>2. CASE s = [ref |-> heap.key[i], flags |-> heap.keyFlags[i]]
  BY <1>1, <1>2
<1>3. CASE s = [ref |-> heap.value[i], flags |-> heap.valueFlags[i]]
  BY <1>1, <1>3
<1>4. QED
  BY <1>2, <1>3

(* Every stored text is well-formed UTF-8, and its needs-escape flag is    *)
(* what a scan of the bytes that are there now would find.                 *)
THEOREM StoredTextCorrect == Spec => []StoredTextOK
BY GoodStrings, InductiveInvariant, StringsInvHolds, PTL

-----------------------------------------------------------------------------
(* What a client sees of the nodes over a call.                            *)

(* A node whose fields and bytes are kept looks the same.                  *)
LEMMA ExtendedView ==
    ASSUME NEW h, HeapOK(h), NEW g, Extends(g, h), NEW i \in Live(h)
    PROVE  NodeView(g, i) = NodeView(h, i)
<1>1. /\ g.type[i] = h.type[i] /\ g.parent[i] = h.parent[i]
      /\ g.first[i] = h.first[i] /\ g.last[i] = h.last[i]
      /\ g.next[i] = h.next[i]
      /\ g.key[i] = h.key[i] /\ g.value[i] = h.value[i]
  BY DEF Extends, SameNodes
<1>2. /\ ViewString(g, h.key[i]) = ViewString(h, h.key[i])
      /\ ViewString(g, h.value[i]) = ViewString(h, h.value[i])
  BY LiveRefs, KeptView DEF Extends
<1>3. QED
  BY <1>1, <1>2 DEF NodeView

(* A call that fails leaves the document as it was, not only well-formed:  *)
(* every node, text and byte of room, also after a rollback.               *)
THEOREM FailuresAreAtomic == Spec => FailureAtomic
<1>1. ASSUME IInv, [Next]_vars
      PROVE  [result' # "Ok" /\ heap' # heap
                => Document(heap') = Document(heap)]_vars
  <2> SUFFICES ASSUME result' # "Ok" PROVE Document(heap') = Document(heap)
    OBVIOUS
  <2>1. ~Reset
    BY DEF Reset
  <2>2. Kept(heap', heap) /\ HeapOK(heap)
    BY <1>1, <2>1, NextEffect, IInvHeap DEF Effect
  <2>3. Live(heap') = Live(heap)
    BY <2>2 DEF Kept, Live
  <2>4. \A i \in Live(heap) : NodeView(heap', i) = NodeView(heap, i)
    BY <2>2, ExtendedView DEF Kept
  <2>5. QED
    BY <2>2, <2>3, <2>4 DEF Kept, Document
<1>2. QED
  BY <1>1, InductiveInvariant, PTL DEF Spec, FailureAtomic

(* What is never taken from a node: its type, its text, and its key while  *)
(* it stays in its container.                                              *)
ContentKept(g, h) ==
    /\ Live(h) \subseteq Live(g)
    /\ \A i \in Live(h) :
          /\ g.type[i] = h.type[i]
          /\ ViewString(g, g.value[i]) = ViewString(h, h.value[i])
          /\ g.parent[i] = h.parent[i] =>
                ViewString(g, g.key[i]) = ViewString(h, h.key[i])

(* Adding nodes and strings keeps the content.                             *)
LEMMA ExtendedContent ==
    ASSUME NEW h, HeapOK(h), NEW g, g.count \in Nat, Extends(g, h)
    PROVE  ContentKept(g, h)
<1>1. Live(h) \subseteq Live(g)
  BY Counters, LiveGrows DEF Extends
<1>2. \A i \in Live(h) :
         /\ ViewString(g, h.key[i]) = ViewString(h, h.key[i])
         /\ ViewString(g, h.value[i]) = ViewString(h, h.value[i])
  BY LiveRefs, KeptView DEF Extends
<1>3. QED
  BY <1>1, <1>2 DEF Extends, SameNodes, ContentKept

(* So does setting the key of a node whose parent changes.                 *)
LEMMA RekeyedContent ==
    ASSUME NEW h, HeapOK(h), NEW g, NEW c, NEW ref, NEW flags,
           OnlyKeySet(g, h, c, ref, flags), g.parent[c] # h.parent[c]
    PROVE  ContentKept(g, h)
<1>1. Live(h) \subseteq Ids /\ Live(g) = Live(h)
  BY LinksStayLive DEF OnlyKeySet, Live
<1>2. \A i \in Live(h) :
         /\ ViewString(g, h.key[i]) = ViewString(h, h.key[i])
         /\ ViewString(g, h.value[i]) = ViewString(h, h.value[i])
  BY LiveRefs, KeptView DEF OnlyKeySet
<1>3. \A i \in Live(h) : g.parent[i] = h.parent[i] => g.key[i] = h.key[i]
  BY <1>1 DEF OnlyKeySet
<1>4. QED
  BY <1>1, <1>2, <1>3 DEF OnlyKeySet, ContentKept

(* Attaching gives the node a parent it had not, so it may give a key.     *)
LEMMA AttachedContent ==
    ASSUME NEW h, HeapOK(h), NEW g, NEW p, NEW c, NEW ref, NEW flags,
           Attached(g, h, p, c, ref, flags)
    PROVE  ContentKept(g, h)
<1>1. g.parent[c] = p /\ p # Nil /\ h.parent[c] = Nil
  BY LinksStayLive, IdsBelowNil DEF Attached, LinksAppended
<1>2. QED
  BY <1>1, RekeyedContent DEF Attached

(* Taking out takes the parent away, so it may take the key away.          *)
LEMMA TakenOutContent ==
    ASSUME NEW h, HeapOK(h), NEW g, NEW p, NEW q, NEW c,
           TakenOut(g, h, p, q, c)
    PROVE  ContentKept(g, h)
<1>1. g.parent[c] = Nil /\ p # Nil /\ h.parent[c] = p
  BY LinksStayLive, IdsBelowNil DEF TakenOut, LinksUnlinked
<1>2. OnlyKeySet(g, h, c, NoRef, FALSE)
  BY DEF TakenOut
<1> DEFINE flags == FALSE
<1>3. OnlyKeySet(g, h, c, NoRef, flags)
  BY <1>2
<1> HIDE DEF flags
<1>4. QED
  BY <1>1, <1>3, RekeyedContent

(* Until reset(), a stored text reads the same through every call that     *)
(* reuses, extends or gives back storage around it.                        *)
THEOREM ContentIsStable == Spec => ContentStable
<1>1. ASSUME IInv, [Next]_vars, epoch' = epoch
      PROVE  ContentKept(heap', heap)
  <2>1. ~Reset
    BY <1>1, ClientAssumption DEF Reset, IInv, TypeOK
  <2>2. Effect /\ HeapOK(heap) /\ HeapOK(heap') /\ heap'.count \in Nat
    <3>1. IInv'
      BY <1>1, NextSafe
    <3>2. HeapOK(heap')
      BY <3>1 DEF IInv, TypeOK, LayoutSafe, ForestSafe, HeapOK
    <3>3. QED
      BY <1>1, <2>1, <3>2, NextEffect, IInvHeap, Counters
  <2>3. CASE Kept(heap', heap)
    BY <2>2, <2>3, ExtendedContent DEF Kept
  <2>4. CASE Created(heap', heap)
    BY <2>2, <2>4, ExtendedContent DEF Created, Grown
  <2>5. CASE Dropped(heap', heap)
    BY <2>2, <2>5, TakenOutContent DEF Dropped
  <2>6. CASE Joined(heap', heap)
    BY <2>2, <2>6, AttachedContent DEF Joined, Put
  <2>7. CASE Built(heap', heap)
    <3>1. PICK m, p, ref, flags :
             /\ HeapOK(m) /\ Created(m, heap)
             /\ Attached(heap', m, p, heap.count, ref, flags)
      BY <2>7 DEF Built, Put
    <3>2. Extends(m, heap) /\ m.count \in Nat /\ heap.count \notin Live(heap)
      BY <3>1, Counters, GrownLive DEF Created, Grown
    <3>3. ContentKept(m, heap) /\ ContentKept(heap', m)
      BY <2>2, <3>1, <3>2, ExtendedContent, AttachedContent
    <3>4. \A i \in Live(heap) : m.parent[i] = heap.parent[i]
      BY <3>2 DEF Extends, SameNodes
    <3>5. QED
      BY <3>3, <3>4 DEF ContentKept
  <2>8. QED
    BY <2>2, <2>3, <2>4, <2>5, <2>6, <2>7 DEF Effect
<1>2. IInv /\ [Next]_vars =>
         [epoch' = epoch /\ heap' # heap =>
            /\ Live(heap) \subseteq Live(heap')
            /\ \A i \in Live(heap) :
                  LET old == NodeView(heap, i)
                      new == NodeView(heap', i)
                  IN /\ new.type = old.type
                     /\ new.value = old.value
                     /\ new.parent = old.parent => new.key = old.key]_vars
  <2> SUFFICES ASSUME IInv, [Next]_vars, epoch' = epoch
               PROVE  /\ Live(heap) \subseteq Live(heap')
                      /\ \A i \in Live(heap) :
                            LET old == NodeView(heap, i)
                                new == NodeView(heap', i)
                            IN /\ new.type = old.type
                               /\ new.value = old.value
                               /\ new.parent = old.parent => new.key = old.key
    OBVIOUS
  <2>1. ContentKept(heap', heap)
    BY <1>1
  <2>2. QED
    BY <2>1 DEF ContentKept, NodeView
<1>3. QED
  BY <1>2, InductiveInvariant, PTL DEF Spec, ContentStable

(* While an error is recorded, nothing is attached, through any handle, by *)
(* any adder; and the error that is recorded stays the first.              *)
THEOREM ErrorsAreSticky == Spec => StickyError
<1>1. IInv /\ [Next]_vars =>
         [error # "Ok" /\ error' # "Ok" =>
            /\ error' = error
            /\ \A i \in Live(heap) : heap.parent'[i] \in {heap.parent[i], Nil}
            /\ \A i \in Live(heap') \ Live(heap) : heap.parent'[i] = Nil]_vars
  <2> SUFFICES ASSUME IInv, [Next]_vars, error # "Ok", error' # "Ok"
               PROVE  /\ error' = error
                      /\ \A i \in Live(heap) :
                            heap'.parent[i] \in {heap.parent[i], Nil}
                      /\ \A i \in Live(heap') \ Live(heap) :
                            heap'.parent[i] = Nil
    OBVIOUS
  <2>1. Effect /\ HeapOK(heap)
    BY NextEffect, IInvHeap DEF Reset
  <2>2. CASE Kept(heap', heap)
    <3>1. Live(heap') = Live(heap)
      BY <2>2 DEF Kept, Live
    <3>2. QED
      BY <3>1, <2>1, <2>2 DEF Kept, Extends, SameNodes, Effect
  <2>3. CASE Created(heap', heap)
    <3>1. /\ Live(heap') = Live(heap) \cup {heap.count}
          /\ heap'.parent[heap.count] = Nil
          /\ \A i \in Live(heap) : heap'.parent[i] = heap.parent[i]
      BY <2>3, GrownLive DEF Created, Grown, Extends, SameNodes
    <3>2. QED
      BY <3>1, <2>1 DEF Effect
  <2>4. CASE Dropped(heap', heap)
    <3>1. PICK p, q, c : TakenOut(heap', heap, p, q, c)
      BY <2>4 DEF Dropped
    <3>2. Live(heap') = Live(heap) /\ Live(heap) \subseteq Ids
      BY <3>1, <2>1, LinksStayLive DEF TakenOut, OnlyKeySet, Live
    <3>3. \A i \in Live(heap) : heap'.parent[i] \in {heap.parent[i], Nil}
      BY <3>1, <3>2 DEF TakenOut, LinksUnlinked
    <3>4. QED
      BY <3>2, <3>3, <2>1 DEF Effect
  <2>5. QED
    BY <2>1, <2>2, <2>3, <2>4 DEF Effect
<1>2. QED
  BY <1>1, InductiveInvariant, PTL DEF Spec, StickyError

-----------------------------------------------------------------------------
(* The order of children over a call.                                      *)

(* At most one node of h has another parent in g, and it has only been     *)
(* attached or detached.                                                   *)
OneMoves(g, h) ==
    \A i, j \in Live(h) :
        /\ g.parent[i] # h.parent[i]
        /\ g.parent[j] # h.parent[j]
        => i = j /\ Nil \in {h.parent[i], g.parent[i]}

(* The children a container had keep their order, and new ones come last.  *)
OrderKept(g, h) ==
    \A p \in Live(h) : \A c, d \in Children(g, p) :
        IF c \in Children(h, p)
        THEN d \in Children(h, p) => (NotAfter(g, c, d) <=> NotAfter(h, c, d))
        ELSE NotAfter(g, d, c)

(* New nodes and strings change no list.                                   *)
LEMMA ExtendedOrder ==
    ASSUME NEW h, HeapOK(h), NEW g, Extends(g, h),
           \A i \in Live(g) \ Live(h) : g.parent[i] = Nil
    PROVE  OneMoves(g, h) /\ OrderKept(g, h)
<1>1. \A i \in Live(h) : g.parent[i] = h.parent[i] /\ g.next[i] = h.next[i]
  BY DEF Extends, SameNodes
<1>2. OneMoves(g, h)
  BY <1>1 DEF OneMoves
<1>3. \A p \in Live(h) : Children(g, p) \subseteq Children(h, p)
  BY <1>1, LinksStayLive, IdsBelowNil DEF Children
<1>4. \A c \in Live(h) : Reach(g.next, c) = Reach(h.next, c)
  BY <1>1, SameNextSameOrder
<1>5. ASSUME NEW p \in Live(h), NEW c \in Children(g, p),
             NEW d \in Children(g, p)
      PROVE  c \in Children(h, p) /\ (NotAfter(g, c, d) <=> NotAfter(h, c, d))
  BY <1>3, <1>4 DEF Children, NotAfter
<1>6. QED
  BY <1>2, <1>5 DEF OrderKept

(* Attaching puts one child last.                                          *)
LEMMA AttachedKeepsOrder ==
    ASSUME NEW h, HeapOK(h), NEW g, NEW p, NEW c, NEW ref, NEW flags,
           Attached(g, h, p, c, ref, flags)
    PROVE  OneMoves(g, h) /\ OrderKept(g, h)
<1>1. /\ Live(h) \subseteq Ids /\ Nil \notin Ids /\ h.parent[c] = Nil
      /\ c \in Live(h) /\ Live(g) = Live(h)
      /\ \A i \in Live(h) : g.parent[i] = IF i = c THEN p ELSE h.parent[i]
  BY LinksStayLive, IdsBelowNil DEF Attached, LinksAppended, OnlyKeySet, Live
<1>2. OneMoves(g, h)
  BY <1>1 DEF OneMoves
<1>3. /\ Reach(g.next, c) = {c}
      /\ \A a \in Live(h) \ {c} :
            Reach(g.next, a)
              = Reach(h.next, a) \cup (IF h.parent[a] = p THEN {c} ELSE {})
  BY AttachedOrder
<1>4. ASSUME NEW r \in Live(h), NEW a \in Children(g, r),
             NEW b \in Children(g, r)
      PROVE  IF a \in Children(h, r)
             THEN b \in Children(h, r) =>
                     (NotAfter(g, a, b) <=> NotAfter(h, a, b))
             ELSE NotAfter(g, b, a)
  <2>1. CASE a = c
    <3>1. a \notin Children(h, r)
      BY <2>1, <1>1 DEF Children
    <3>2. g.parent[b] = p /\ b \in Live(h)
      BY <2>1, <1>1 DEF Children
    <3>3. NotAfter(g, b, a)
      BY <2>1, <3>2, <1>1, <1>3 DEF NotAfter
    <3>4. QED
      BY <3>1, <3>3
  <2>2. CASE a # c
    <3>1. a \in Children(h, r) /\ a \in Live(h)
      BY <2>2, <1>1 DEF Children
    <3>2. b \in Children(h, r) => b # c
      BY <1>1 DEF Children
    <3>3. Reach(g.next, a)
            = Reach(h.next, a) \cup (IF h.parent[a] = p THEN {c} ELSE {})
      BY <2>2, <3>1, <1>3
    <3>4. b # c => (NotAfter(g, a, b) <=> NotAfter(h, a, b))
      BY <3>3 DEF NotAfter
    <3>5. QED
      BY <3>1, <3>2, <3>4
  <2>3. QED
    BY <2>1, <2>2
<1>5. QED
  BY <1>2, <1>4 DEF OrderKept

(* Taking a child out closes the gap and moves no other.                   *)
LEMMA TakenOutKeepsOrder ==
    ASSUME NEW h, HeapOK(h), NEW g, NEW p, NEW q, NEW c,
           TakenOut(g, h, p, q, c)
    PROVE  OneMoves(g, h) /\ OrderKept(g, h)
<1>1. /\ Live(h) \subseteq Ids /\ Nil \notin Ids
      /\ Live(g) = Live(h)
      /\ \A i \in Live(h) : g.parent[i] = IF i = c THEN Nil ELSE h.parent[i]
  BY LinksStayLive, IdsBelowNil DEF TakenOut, LinksUnlinked, OnlyKeySet, Live
<1>2. OneMoves(g, h)
  BY <1>1 DEF OneMoves
<1>3. \A a \in Live(h) \ {c} : Reach(g.next, a) = Reach(h.next, a) \ {c}
  BY TakenOutOrder
<1>4. ASSUME NEW r \in Live(h), NEW a \in Children(g, r),
             NEW b \in Children(g, r)
      PROVE  /\ a \in Children(h, r)
             /\ NotAfter(g, a, b) <=> NotAfter(h, a, b)
  <2>1. a # c /\ b # c /\ a \in Live(h) /\ a \in Children(h, r)
    BY <1>1 DEF Children
  <2>2. Reach(g.next, a) = Reach(h.next, a) \ {c}
    BY <2>1, <1>3
  <2>3. QED
    BY <2>1, <2>2 DEF NotAfter
<1>5. QED
  BY <1>2, <1>4 DEF OrderKept

(* A call moves at most one node and never from one container to another;  *)
(* siblings keep their order and a new child comes last.                   *)
THEOREM OrderIsStable == Spec => OrderStable
<1>1. ASSUME IInv, [Next]_vars, epoch' = epoch
      PROVE  OneMoves(heap', heap) /\ OrderKept(heap', heap)
  <2>1. Effect /\ HeapOK(heap)
    BY <1>1, NextEffect, IInvHeap, ClientAssumption DEF Reset, IInv, TypeOK
  <2>2. CASE Kept(heap', heap)
    <3>1. Live(heap') = Live(heap)
      BY <2>2 DEF Kept, Live
    <3>2. QED
      BY <3>1, <2>1, <2>2, ExtendedOrder DEF Kept
  <2>3. ASSUME NEW m, Created(m, heap)
        PROVE  /\ Extends(m, heap) /\ heap.count \notin Live(heap)
               /\ Live(m) = Live(heap) \cup {heap.count}
               /\ m.parent[heap.count] = Nil
               /\ OneMoves(m, heap) /\ OrderKept(m, heap)
    <3>1. PICK type : Grown(m, heap, type)
      BY <2>3 DEF Created
    <3>2. /\ Extends(m, heap) /\ heap.count \notin Live(heap)
          /\ Live(m) = Live(heap) \cup {heap.count}
          /\ m.parent[heap.count] = Nil
      BY <3>1, GrownLive DEF Grown
    <3>3. QED
      BY <3>2, <2>1, ExtendedOrder
  <2>4. CASE Dropped(heap', heap)
    BY <2>1, <2>4, TakenOutKeepsOrder DEF Dropped
  <2>5. CASE Joined(heap', heap)
    BY <2>1, <2>5, AttachedKeepsOrder DEF Joined, Put
  <2>6. CASE Built(heap', heap)
    <3>1. PICK m, p, ref, flags :
             /\ HeapOK(m) /\ Created(m, heap)
             /\ Attached(heap', m, p, heap.count, ref, flags)
      BY <2>6 DEF Built, Put
    <3>2. /\ Extends(m, heap) /\ heap.count \notin Live(heap)
          /\ Live(m) = Live(heap) \cup {heap.count}
          /\ m.parent[heap.count] = Nil
          /\ OneMoves(m, heap) /\ OrderKept(m, heap)
      BY <3>1, <2>3
    <3>3. OneMoves(heap', m) /\ OrderKept(heap', m)
      BY <3>1, AttachedKeepsOrder
    <3>4. \A i \in Live(heap) : /\ m.parent[i] = heap.parent[i]
                               /\ heap'.parent[i] = heap.parent[i]
      <4>1. \A i \in Live(m) : i # heap.count => heap'.parent[i] = m.parent[i]
        BY <3>1, LinksStayLive DEF Attached, LinksAppended
      <4>2. QED
        BY <3>2, <4>1 DEF Extends, SameNodes
    <3>5. OneMoves(heap', heap)
      BY <3>4 DEF OneMoves
    <3>6. \A r \in Live(heap) : /\ r \in Live(m)
                               /\ Children(heap, r) = Children(m, r)
      BY <3>2, <3>4, <2>1, LinksStayLive, IdsBelowNil DEF Children
    <3>7. \A a, b \in Live(heap) : NotAfter(m, a, b) <=> NotAfter(heap, a, b)
      <4>1. \A a \in Live(heap) : Reach(m.next, a) = Reach(heap.next, a)
        BY <3>2, <2>1, SameNextSameOrder DEF Extends, SameNodes
      <4>2. QED
        BY <4>1 DEF NotAfter
    <3>8. OrderKept(heap', heap)
      BY <3>3, <3>6, <3>7 DEF OrderKept, Children
    <3>9. QED
      BY <3>5, <3>8
  <2>7. QED
    BY <2>1, <2>2, <2>3, <2>4, <2>5, <2>6 DEF Effect
<1>2. IInv /\ [Next]_vars =>
         [epoch' = epoch /\ heap' # heap =>
            /\ \A i, j \in Live(heap) :
                  /\ heap.parent'[i] # heap.parent[i]
                  /\ heap.parent'[j] # heap.parent[j]
                  => i = j /\ Nil \in {heap.parent[i], heap.parent'[i]}
            /\ \A p \in Live(heap) : \A c, d \in Children(heap', p) :
                  IF c \in Children(heap, p)
                  THEN d \in Children(heap, p) =>
                          (NotAfter(heap', c, d) <=> NotAfter(heap, c, d))
                  ELSE NotAfter(heap', d, c)]_vars
  BY <1>1 DEF OneMoves, OrderKept
<1>3. QED
  BY <1>2, InductiveInvariant, PTL DEF Spec, OrderStable

-----------------------------------------------------------------------------
(* The document of a heap.                                                 *)

(* The nodes are numbered from 0 in the order in which they were created.  *)
LEMMA NodesNumbered ==
    ASSUME NEW h, HeapOK(h)
    PROVE  /\ Live(h) = 0 .. h.count - 1
           /\ h.count \in Nat
           /\ DOMAIN DocumentOf(h) = Live(h)
           /\ \A i \in Live(h) : DocumentOf(h)[i] = NodeOf(h, i)
<1>1. h.count \in Nat /\ NodeBytes(h.count) <= Capacity /\ h \in Heaps
  BY Counters
<1>2. \A i \in Nat : i < h.count => i \in Live(h)
  BY <1>1, LiveIsPrefix
<1>3. \A i \in Live(h) : i \in Nat /\ i < h.count
  BY IdsBelowNil DEF Live
<1>4. Live(h) = 0 .. h.count - 1
  <2> DEFINE n == h.count
             L == Live(h)
  <2>1. n \in Nat /\ (\A i \in Nat : i < n => i \in L)
        /\ (\A i \in L : i \in Nat /\ i < n)
    BY <1>1, <1>2, <1>3
  <2> HIDE DEF n, L
  <2>2. \A i : i \in L <=> i \in 0 .. n - 1
    BY <2>1
  <2>3. L = 0 .. n - 1
    BY <2>2
  <2>4. QED
    BY <2>3 DEF n, L
<1>5. DOMAIN DocumentOf(h) = Live(h) /\ \A i \in Live(h) : DocumentOf(h)[i] = NodeOf(h, i)
  BY DEF DocumentOf
<1>6. QED
  BY <1>1, <1>4, <1>5

(* A node has its type.                                                    *)
LEMMA NodeType ==
    ASSUME NEW h, HeapOK(h), NEW i \in Live(h)
    PROVE  DocumentOf(h)[i].type = h.type[i]
<1>1. DocumentOf(h)[i] = NodeOf(h, i)
  BY NodesNumbered
<1>2. QED
  BY <1>1 DEF NodeOf

(* A heap without nodes is the empty document.                             *)
LEMMA NoNodesNoDocument ==
    ASSUME NEW h, Live(h) = {}
    PROVE  DocumentOf(h) = <<>>
<1>1. DocumentOf(h) = [i \in {} |-> NodeOf(h, i)]
  BY DEF DocumentOf
<1>2. QED
  BY <1>1

(* A call that keeps everything a client can see of a node keeps the node. *)
LEMMA ExtendedNode ==
    ASSUME NEW h, HeapOK(h), NEW g, Extends(g, h), NEW i \in Live(h)
    PROVE  NodeOf(g, i) = NodeOf(h, i)
<1>1. /\ g.type[i] = h.type[i] /\ g.parent[i] = h.parent[i]
      /\ g.key[i] = h.key[i] /\ g.value[i] = h.value[i]
      /\ \A j \in Live(h) : g.next[j] = h.next[j]
  BY DEF Extends, SameNodes
<1>2. /\ ViewString(g, h.key[i]) = ViewString(h, h.key[i])
      /\ ViewString(g, h.value[i]) = ViewString(h, h.value[i])
  BY LiveRefs, KeptView DEF Extends
<1>3. Reach(g.next, i) = Reach(h.next, i)
  BY <1>1, SameNextSameOrder
<1>4. QED
  BY <1>1, <1>2, <1>3 DEF NodeOf

(* Nothing that a client can see: the document is the same.                *)
LEMMA KeptDocument ==
    ASSUME NEW h, HeapOK(h), NEW g, Kept(g, h)
    PROVE  DocumentOf(g) = DocumentOf(h)
<1>1. Live(g) = Live(h)
  BY DEF Kept, Live
<1>2. \A i \in Live(h) : NodeOf(g, i) = NodeOf(h, i)
  BY ExtendedNode DEF Kept
<1>3. QED
  BY <1>1, <1>2 DEF DocumentOf

-----------------------------------------------------------------------------
(* The steps.                                                              *)

(* A new node is the node the abstract document adds.                      *)
LEMMA CreatedDocument ==
    ASSUME NEW h, HeapOK(h), NEW g, HeapOK(g), Created(g, h)
    PROVE  \E type \in ValueTypes : \E text \in Doc!TextsOf(type) :
              DocumentOf(g) = Doc!WithNode(DocumentOf(h), h.count, type, text)
<1> DEFINE new == h.count
           text == ViewString(g, g.value[new])
<1>1. PICK type \in ValueTypes :
         /\ Grown(g, h, type)
         /\ text \in IF type = "String" THEN Texts ELSE {<<>>}
  BY DEF Created
<1>2. /\ Live(g) = Live(h) \cup {new} /\ new \notin Live(h) /\ new \in Live(g)
      /\ Extends(g, h) /\ g.parent[new] = Nil /\ g.type[new] = type
      /\ g.key[new] = NoRef
  BY <1>1, GrownLive DEF Grown
<1>3. Reach(g.next, new) \ {new} = {}
  BY <1>2, RootAlone
<1>4. ViewString(g, g.key[new]) = <<>>
  BY <1>2, NoRefView
<1> HIDE DEF new
<1>5. NodeOf(g, new) = Doc!NewNode(type, text)
  BY <1>2, <1>3, <1>4 DEF NodeOf, Doc!NewNode, Doc!None
<1> HIDE DEF text
<1>6. \A i \in Live(h) : NodeOf(g, i) = NodeOf(h, i)
  BY <1>2, ExtendedNode
<1>7. DocumentOf(g) = Doc!WithNode(DocumentOf(h), new, type, text)
  BY <1>2, <1>5, <1>6 DEF DocumentOf, Doc!WithNode
<1>8. text \in Doc!TextsOf(type)
  BY <1>1 DEF Doc!TextsOf
<1>9. QED
  BY <1>7, <1>8 DEF new

(* A node that is not above a container, in the links, is not above it in  *)
(* the document.                                                           *)
LEMMA NotAboveInDocument ==
    ASSUME NEW h, HeapOK(h), NEW p \in Live(h), NEW c, c \notin Ancestors(h, p)
    PROVE  ~Doc!IsAbove(DocumentOf(h), c, p)
<1> DEFINE S == Ancestors(h, p)
<1>1. p \in S /\ S \subseteq Live(h)
  BY LinksStayLive, ReachStart, AncestorsLive DEF Ancestors
<1>2. ASSUME NEW x \in S, DocumentOf(h)[x].parent \in Live(h)
      PROVE  DocumentOf(h)[x].parent \in S
  <2>1. DocumentOf(h)[x].parent = h.parent[x]
    <3>1. DocumentOf(h)[x] = NodeOf(h, x) /\ x \in Live(h)
      BY <1>1, NodesNumbered
    <3>2. -1 \notin Live(h)
      BY IdsBelowNil, LinksStayLive
    <3>3. QED
      BY <1>2, <3>1, <3>2 DEF NodeOf
  <2>2. h.parent[x] \in Ids
    BY <1>2, <2>1, LinksStayLive
  <2>3. QED
    BY <2>1, <2>2, ReachStep DEF Ancestors
<1>3. QED
  BY <1>1, <1>2, NodesNumbered DEF Doc!IsAbove

(* A node that is put into a container becomes its last child.             *)
LEMMA PutDocument ==
    ASSUME NEW h, HeapOK(h), KeysOK(h), NEW g, NEW p, NEW c, Put(g, h, p, c)
    PROVE  /\ p \in Live(h) /\ c \in Live(h) /\ c # p
           /\ Doc!CanTake(DocumentOf(h), p, c)
           /\ \E key \in Doc!KeysIn(h.type[p]) :
                 DocumentOf(g) = Doc!WithChild(DocumentOf(h), p, key, c)
<1> DEFINE key == ViewString(g, g.key[c])
           d == DocumentOf(h)
<1>1. PICK ref, flags : Attached(g, h, p, c, ref, flags)
  BY DEF Put
<1>2. /\ p \in Live(h) /\ c \in Live(h) /\ h.parent[c] = Nil
      /\ c \notin Ancestors(h, p) /\ h.type[p] \in {"Array", "Object"}
      /\ Live(h) \subseteq Ids /\ Nil \notin Ids /\ Ids \subseteq Nat
  BY <1>1, LinksStayLive, IdsBelowNil DEF Attached, KeyFits
<1>3. c # p
  BY <1>2, ReachStart DEF Ancestors
<1>4. DOMAIN d = Live(h) /\ \A i \in Live(h) : d[i] = NodeOf(h, i)
  BY NodesNumbered
<1>5. Doc!CanTake(d, p, c)
  <2>1. d[p].type = h.type[p] /\ d[c].parent = -1
    BY <1>2, <1>4 DEF NodeOf
  <2>2. ~Doc!IsAbove(d, c, p)
    BY <1>2, NotAboveInDocument
  <2>3. QED
    BY <1>2, <2>1, <2>2 DEF Doc!CanTake, Doc!None
<1>6. key \in Doc!KeysIn(h.type[p])
  BY DEF Put, Doc!KeysIn
<1>7. /\ Live(g) = Live(h) /\ g.type = h.type /\ g.value = h.value
      /\ BytesKept(g, h)
      /\ \A i \in Live(h) :
            /\ g.parent[i] = IF i = c THEN p ELSE h.parent[i]
            /\ i # c => g.key[i] = h.key[i]
  BY <1>1, <1>2 DEF Attached, LinksAppended, OnlyKeySet, Live
<1>8. \A i \in Live(h) :
         /\ ViewString(g, h.key[i]) = ViewString(h, h.key[i])
         /\ ViewString(g, h.value[i]) = ViewString(h, h.value[i])
  BY <1>7, LiveRefs, KeptView
<1>9. /\ Reach(g.next, c) = {c} /\ Reach(h.next, c) = {c}
      /\ \A i \in Live(h) \ {c} :
            Reach(g.next, i)
              = Reach(h.next, i) \cup (IF h.parent[i] = p THEN {c} ELSE {})
  BY <1>1, <1>2, AttachedOrder, RootAlone
<1> DEFINE e == Doc!WithChild(d, p, key, c)
<1>10. ASSUME NEW i \in Live(h) PROVE NodeOf(g, i) = e[i]
  <2>1. CASE i = c
    <3>1. e[i] = Doc!Placed(NodeOf(h, i), p, key, {})
      BY <1>4, <2>1 DEF Doc!WithChild
    <3>2. g.parent[i] = p /\ p # Nil /\ Reach(g.next, i) \ {i} = {}
      BY <1>2, <1>7, <1>9, <2>1
    <3>3. NodeOf(g, i) = Doc!Placed(NodeOf(h, i), p, key, {})
      BY <1>7, <1>8, <2>1, <3>2 DEF NodeOf, Doc!Placed
    <3>4. QED
      BY <3>1, <3>3
  <2>2. CASE i # c /\ h.parent[i] = p
    <3>1. e[i] = [NodeOf(h, i) EXCEPT !.after = @ \cup {c}]
      <4>1. d[i].parent = p
        BY <1>2, <1>4, <2>2 DEF NodeOf
      <4>2. QED
        BY <1>4, <2>2, <4>1 DEF Doc!WithChild
    <3>2. Reach(g.next, i) \ {i} = (Reach(h.next, i) \ {i}) \cup {c}
      BY <1>9, <2>2
    <3>3. QED
      BY <1>7, <1>8, <2>2, <3>1, <3>2, SMTT(30) DEF NodeOf
  <2>3. CASE i # c /\ h.parent[i] # p
    <3>1. e[i] = NodeOf(h, i)
      <4>1. d[i].parent # p
        BY <1>2, <1>4, <2>3 DEF NodeOf
      <4>2. QED
        BY <1>4, <2>3, <4>1 DEF Doc!WithChild
    <3>2. Reach(g.next, i) = Reach(h.next, i)
      BY <1>9, <2>3
    <3>3. QED
      BY <1>7, <1>8, <2>3, <3>1, <3>2 DEF NodeOf
  <2>4. QED
    BY <2>1, <2>2, <2>3
<1>11. DocumentOf(g) = e
  BY <1>4, <1>7, <1>10 DEF DocumentOf, Doc!WithChild
<1>12. QED
  BY <1>2, <1>3, <1>5, <1>6, <1>11

(* A child that is taken out is in no container any more, and it was the   *)
(* first with its key.                                                     *)
LEMMA DroppedDocument ==
    ASSUME NEW h, HeapOK(h), NEW g, HeapOK(g), Dropped(g, h)
    PROVE  Doc!Detach(DocumentOf(h), DocumentOf(g))
<1> DEFINE d == DocumentOf(h)
<1>1. PICK p, q, c : TakenOut(g, h, p, q, c) /\ FirstWithKey(h, p, c)
  BY DEF Dropped
<1>2. /\ p \in Live(h) /\ c \in Live(h) /\ h.parent[c] = p
      /\ Live(h) \subseteq Ids /\ Nil \notin Ids /\ Ids \subseteq Nat
  BY <1>1, LinksStayLive, IdsBelowNil DEF TakenOut
<1>3. DOMAIN d = Live(h) /\ \A i \in Live(h) : d[i] = NodeOf(h, i)
  BY NodesNumbered
<1>4. /\ Live(g) = Live(h) /\ g.type = h.type /\ g.value = h.value
      /\ BytesKept(g, h) /\ g.parent[c] = Nil /\ g.key[c] = NoRef
      /\ \A i \in Live(h) \ {c} :
            g.parent[i] = h.parent[i] /\ g.key[i] = h.key[i]
  BY <1>1, <1>2 DEF TakenOut, LinksUnlinked, OnlyKeySet, Live
<1>5. \A i \in Live(h) :
         /\ ViewString(g, h.key[i]) = ViewString(h, h.key[i])
         /\ ViewString(g, h.value[i]) = ViewString(h, h.value[i])
  BY <1>4, LiveRefs, KeptView
<1>6. /\ Reach(g.next, c) = {c}
      /\ \A i \in Live(h) \ {c} : Reach(g.next, i) = Reach(h.next, i) \ {c}
  BY <1>1, <1>2, <1>4, TakenOutOrder, RootAlone
<1> DEFINE e == Doc!WithoutChild(d, c)
<1>7. ASSUME NEW i \in Live(h) PROVE NodeOf(g, i) = e[i]
  <2>1. CASE i = c
    <3>1. e[i] = Doc!Placed(NodeOf(h, i), -1, <<>>, {})
      BY <1>3, <2>1 DEF Doc!WithoutChild, Doc!None
    <3>2. g.parent[i] = Nil /\ Reach(g.next, i) \ {i} = {}
          /\ ViewString(g, g.key[i]) = <<>>
      BY <1>4, <1>6, <2>1, NoRefView
    <3>3. NodeOf(g, i) = Doc!Placed(NodeOf(h, i), -1, <<>>, {})
      BY <1>4, <1>5, <2>1, <3>2 DEF NodeOf, Doc!Placed
    <3>4. QED
      BY <3>1, <3>3
  <2>2. CASE i # c
    <3>1. e[i] = [NodeOf(h, i) EXCEPT !.after = @ \ {c}]
      BY <1>3, <2>2 DEF Doc!WithoutChild
    <3>2. Reach(g.next, i) \ {i} = (Reach(h.next, i) \ {i}) \ {c}
      BY <1>6, <2>2
    <3>3. QED
      BY <1>4, <1>5, <2>2, <3>1, <3>2 DEF NodeOf
  <2>3. QED
    BY <2>1, <2>2
<1>8. DocumentOf(g) = e
  BY <1>3, <1>4, <1>7 DEF DocumentOf, Doc!WithoutChild
<1>9. d[c].parent = p /\ d[p].type = h.type[p]
  BY <1>2, <1>3 DEF NodeOf
<1>10. ASSUME h.type[p] = "Object", NEW j \in Live(h), c \in d[j].after
       PROVE  d[j].key # d[c].key
  <2>1. j # c /\ c \in Reach(h.next, j)
    BY <1>3, <1>10 DEF NodeOf
  <2>2. c # j /\ c \in Live(h)
    BY <2>1, <1>2
  <2>3. ViewString(h, h.key[j]) # ViewString(h, h.key[c])
    <3>1. h.parent[j] = h.parent[c]
      BY <2>1, ReachSameParent
    <3>2. NotAfter(h, j, c)
      BY <2>1 DEF NotAfter
    <3>3. QED
      BY <1>1, <1>10, <2>1, <3>2 DEF FirstWithKey
  <2>4. QED
    BY <1>2, <1>3, <2>3 DEF NodeOf
<1>11. QED
  BY <1>2, <1>3, <1>8, <1>9, <1>10 DEF Doc!Detach

(* A node that is created is the one that the new document has more.       *)
LEMMA CreatedNumber ==
    ASSUME NEW h, HeapOK(h), NEW g, HeapOK(g), Created(g, h)
    PROVE  /\ h.count \in Doc!Added(DocumentOf(h), DocumentOf(g))
           /\ DOMAIN DocumentOf(h) = 0 .. h.count - 1
           /\ Live(g) = Live(h) \cup {h.count}
<1>1. Live(g) = Live(h) \cup {h.count} /\ h.count \notin Live(h)
  BY GrownLive DEF Created, Grown
<1>2. DOMAIN DocumentOf(h) = Live(h) /\ DOMAIN DocumentOf(g) = Live(g)
      /\ Live(h) = 0 .. h.count - 1
  BY NodesNumbered
<1>3. QED
  BY <1>1, <1>2 DEF Doc!Added

(* One node more, in a container.                                          *)
LEMMA BuiltDocument ==
    ASSUME NEW h, HeapOK(h), KeysOK(h), NEW g, HeapOK(g), Built(g, h)
    PROVE  Doc!CreateAttached(DocumentOf(h), DocumentOf(g))
<1> DEFINE d == DocumentOf(h)
           e == DocumentOf(g)
           new == h.count
<1>1. PICK m, p : HeapOK(m) /\ Created(m, h) /\ Put(g, m, p, new)
  BY DEF Built
<1>2. PICK type \in ValueTypes : \E text \in Doc!TextsOf(type) :
         DocumentOf(m) = Doc!WithNode(d, new, type, text)
  BY <1>1, CreatedDocument
<1>3. PICK text \in Doc!TextsOf(type) :
         DocumentOf(m) = Doc!WithNode(d, new, type, text)
  BY <1>2
<1>4. KeysOK(m)
  BY <1>1, GrownKeys DEF Created
<1>5. /\ p \in Live(m) /\ p # new
      /\ Doc!CanTake(DocumentOf(m), p, new)
      /\ \E key \in Doc!KeysIn(m.type[p]) :
            e = Doc!WithChild(DocumentOf(m), p, key, new)
  BY <1>1, <1>4, PutDocument
<1>6. /\ new \in Doc!Added(d, DocumentOf(m)) /\ DOMAIN d = 0 .. new - 1
      /\ Live(m) = Live(h) \cup {new}
  BY <1>1, CreatedNumber
<1>7. p \in DOMAIN d /\ d[p].type = m.type[p]
  <2>1. p \in Live(h) /\ DOMAIN d = Live(h) /\ d[p] = NodeOf(h, p)
    BY <1>5, <1>6, NodesNumbered
  <2>2. m.type[p] = h.type[p]
    BY <1>1, <2>1 DEF Created, Grown, Extends, SameNodes
  <2>3. QED
    BY <2>1, <2>2 DEF NodeOf
<1>8. DocumentOf(m)[p].type = m.type[p]
  BY <1>1, <1>5, NodeType
<1>9. DOMAIN e = DOMAIN DocumentOf(m)
  BY <1>5 DEF Doc!WithChild
<1>10. new \in Doc!Added(d, e)
  BY <1>6, <1>9 DEF Doc!Added
<1> HIDE DEF d, e, new
<1>11. d[p].type \in {"Array", "Object"}
  BY <1>5, <1>7, <1>8 DEF Doc!CanTake
<1>12. \E key \in Doc!KeysIn(d[p].type) :
          e = Doc!WithChild(Doc!WithNode(d, new, type, text), p, key, new)
  BY <1>3, <1>5, <1>7
<1>13. Doc!CreateAttached(d, e)
  BY <1>6, <1>7, <1>10, <1>11, <1>12 DEF Doc!CreateAttached
<1>14. QED
  BY <1>13 DEF d, e

-----------------------------------------------------------------------------
(* The refinement.                                                         *)

(* Every call is a step of the abstract document, or leaves it as it is.   *)
LEMMA CallIsDocumentStep ==
    ASSUME IInv, StringsInv, [Next]_vars
    PROVE  [Doc!Next]_Abstraction
<1> DEFINE d == DocumentOf(heap)
           e == DocumentOf(heap')
<1>1. HeapOK(heap) /\ KeysOK(heap) /\ HeapOK(heap')
  <2>1. IInv'
    BY NextSafe
  <2>2. HeapOK(heap')
    BY <2>1 DEF IInv, TypeOK, LayoutSafe, ForestSafe, HeapOK
  <2>3. QED
    BY <2>2, IInvHeap DEF StringsInv
<1>2. \/ e = d
      \/ Doc!Create(d, e) \/ Doc!Attach(d, e) \/ Doc!CreateAttached(d, e)
      \/ Doc!Detach(d, e) \/ Doc!Discard(e)
  <2>1. CASE Reset
    <3>1. heap'.count = 0
      BY <2>1 DEF Reset, IInv, TypeOK, Heaps
    <3>2. e = <<>>
      BY <3>1, NothingLive, NoNodesNoDocument
    <3>3. QED
      BY <3>2 DEF Doc!Discard
  <2>2. CASE Kept(heap', heap)
    BY <1>1, <2>2, KeptDocument
  <2>3. CASE Created(heap', heap)
    <3>1. Doc!Create(d, e)
      BY <1>1, <2>3, CreatedDocument, CreatedNumber DEF Doc!Create
    <3>2. QED
      BY <3>1
  <2>4. CASE Dropped(heap', heap)
    BY <1>1, <2>4, DroppedDocument
  <2>5. CASE Joined(heap', heap)
    <3>1. PICK p, c : Put(heap', heap, p, c)
      BY <2>5 DEF Joined
    <3>2. /\ p \in Live(heap) /\ c \in Live(heap)
          /\ Doc!CanTake(d, p, c)
          /\ \E key \in Doc!KeysIn(heap.type[p]) : e = Doc!WithChild(d, p, key, c)
      BY <1>1, <3>1, PutDocument
    <3>3. DOMAIN d = Live(heap) /\ d[p].type = heap.type[p]
      BY <1>1, <3>2, NodesNumbered, NodeType
    <3> HIDE DEF d, e
    <3>4. Doc!Attach(d, e)
      BY <3>2, <3>3 DEF Doc!Attach
    <3>5. QED
      BY <3>4
  <2>6. CASE Built(heap', heap)
    BY <1>1, <2>6, BuiltDocument
  <2>7. QED
    BY <2>1, <2>2, <2>3, <2>4, <2>5, <2>6, NextEffect DEF Effect
<1>3. d = Abstraction /\ e = Abstraction'
  BY DEF Abstraction
<1>4. QED
  BY <1>2, <1>3 DEF Doc!Next

(* The empty slab is the empty document.                                   *)
LEMMA InitIsEmptyDocument == Init => Doc!Init
<1> SUFFICES ASSUME Init PROVE Doc!Init
  OBVIOUS
<1>1. heap.count = 0
  BY DEF Init, EmptyHeap
<1>2. QED
  BY <1>1, NothingLive, NoNodesNoDocument DEF Doc!Init, Abstraction

(* The slab is a document to its clients: what they see through any number *)
(* of calls, failed ones and resets among them, is a behaviour of Dom.     *)
THEOREM SlabIsADocument == Spec => Doc!Spec
<1>1. IInv /\ StringsInv /\ [Next]_vars => [Doc!Next]_Abstraction
  BY CallIsDocumentStep
<1>2. QED
  BY <1>1, InitIsEmptyDocument, InductiveInvariant, StringsInvHolds, PTL
     DEF Spec, Doc!Spec

(* The same, as TLC checks it.                                             *)
THEOREM SlabImplementsDocument == Spec => ImplementsDom
<1>1. IInv /\ StringsInv /\ [Next]_vars
         => [heap' # heap => [Doc!Next]_Abstraction]_heap
  BY CallIsDocumentStep
<1>2. QED
  BY <1>1, InitIsEmptyDocument, InductiveInvariant, StringsInvHolds, PTL
     DEF Spec, ImplementsDom

(* The children of every container are in one order: of two children one   *)
(* comes after the other, and not the other way round.                     *)
ChildrenOrdered ==
    LET d == Abstraction
    IN \A c, e \in DOMAIN d :
          c # e /\ d[c].parent = d[e].parent /\ d[c].parent # Doc!None =>
              (e \in d[c].after <=> c \notin d[e].after)

(* Iterating a container is in one order, whatever was added and removed.  *)
THEOREM ChildrenInOneOrder == Spec => []ChildrenOrdered
<1>1. IInv => ChildrenOrdered
  <2> DEFINE d == DocumentOf(heap)
  <2> SUFFICES ASSUME IInv, NEW a \in DOMAIN d, NEW b \in DOMAIN d, a # b,
                      d[a].parent = d[b].parent, d[a].parent # -1
               PROVE  b \in d[a].after <=> a \notin d[b].after
    BY DEF ChildrenOrdered, Abstraction, Doc!None
  <2>1. /\ a \in Live(heap) /\ b \in Live(heap) /\ HeapOK(heap)
        /\ d[a] = NodeOf(heap, a) /\ d[b] = NodeOf(heap, b)
    BY IInvHeap, NodesNumbered
  <2>2. heap.parent[a] # Nil /\ heap.parent[a] = heap.parent[b]
    <3>1. heap.parent[a] # Nil /\ heap.parent[a] = d[b].parent
      BY <2>1 DEF NodeOf
    <3>2. heap.parent[b] # Nil
      BY <2>1, <3>1, LinksStayLive, IdsBelowNil DEF NodeOf
    <3>3. QED
      BY <2>1, <3>1, <3>2 DEF NodeOf
  <2>3. /\ b \in Reach(heap.next, a) \/ a \in Reach(heap.next, b)
        /\ ~(b \in Reach(heap.next, a) /\ a \in Reach(heap.next, b))
    BY <2>1, <2>2, OrderTotal, OrderAntisymmetric
  <2>4. /\ d[a].after = Reach(heap.next, a) \ {a}
        /\ d[b].after = Reach(heap.next, b) \ {b}
    BY <2>1 DEF NodeOf
  <2> HIDE DEF d
  <2>5. QED
    BY <2>3, <2>4
<1>2. QED
  BY <1>1, InductiveInvariant, PTL
=============================================================================

------------------------------- MODULE SlabDom -------------------------------
(***************************************************************************)
(* A client building and editing a document in one slab: the makers of     *)
(* Slab, the adders of Object and Array with the sticky first error they   *)
(* record, Object::remove, the item operations of the cJSON layer,         *)
(* clear_error() and reset().  One action is one whole call.               *)
(*                                                                         *)
(* The client holds a handle to every node of the current document (each   *)
(* was returned by a call or can be fetched by at(), find() or an          *)
(* iterator) and to some nodes of documents that reset() has discarded.    *)
(***************************************************************************)
EXTENDS SlabTree

CONSTANTS
    Generations,    \* 2^32: the values of the generation counter
    Kinds,          \* the value types the client makes
    Texts,          \* the texts the client passes as strings and keys
    Fold,           \* fold_ascii: the lower-case form of every byte
    MaxResets,      \* bound: how often the client resets
    MaxKept         \* bound: how many handles it keeps over a reset

ASSUME GenerationsAssumption == Generations \in Nat /\ Generations > 1

ASSUME ClientAssumption ==
    /\ Kinds \subseteq ValueTypes
    /\ Texts \subseteq Seq(Bytes)
    /\ Fold \in [Bytes -> Bytes]
    /\ MaxResets \in Nat
    /\ MaxKept \in Nat

VARIABLES
    heap,           \* the storage, node_count_ and string_bytes_used_
    generation,     \* generation_
    error,          \* error_.code: the sticky first error
    result,         \* what the last call returned
    epoch,          \* how many resets there have been; no code reads it
    stale           \* handles the client keeps from before the last reset

vars == <<heap, generation, error, result, epoch, stale>>

(* A handle also remembers, for the properties only, the epoch it is from. *)
Handle(id) == [slab |-> "this", id |-> id, gen |-> generation,
               type |-> heap.type[id], epoch |-> epoch]
HandleSet == [slab : {"this"}, id : Ids, gen : 1 .. Generations - 1,
              type : ValueTypes, epoch : Nat]

(* A value of another slab, and the one that reading past an iterator gives. *)
ForeignValue == [slab |-> "other", id |-> 0, gen |-> 1,
                 type |-> "Null", epoch |-> 0]
NullValue == [slab |-> "none", id |-> 0, gen |-> 0,
              type |-> "Null", epoch |-> 0]

Current == {Handle(i) : i \in Live(heap)}
Held == Current \cup stale
HeldAs(type) == {h \in Held : h.type = type}
Values == Held \cup {ForeignValue, NullValue}

Items == [type : Kinds \ {"String"}, text : {<<>>}, finite : {TRUE}]
         \cup [type : Kinds \cap {"String"}, text : Texts, finite : {TRUE}]
         \cup [type : Kinds \cap {"Number"}, text : {<<>>}, finite : {FALSE}]

Accepted(h) == NodeFor(heap, generation, h)

(* Object::find(key) when the bytes of both keys are compared as they are. *)
Exact == [b \in Bytes |-> b]

-----------------------------------------------------------------------------
(* How a call returns.                                                     *)

(* The error is returned and leaves no trace.                              *)
Refuse(code) ==
    /\ result' = code
    /\ UNCHANGED <<heap, generation, error, epoch, stale>>

(* record_error(): the first error stays, and is what the call returns.    *)
RecordError(code) ==
    /\ error' = IF error = "Ok" THEN code ELSE error
    /\ result' = error'

Reject(code) ==
    /\ RecordError(code)
    /\ UNCHANGED <<heap, generation, epoch, stale>>

Commit(newHeap) ==
    /\ heap' = newHeap
    /\ result' = "Ok"
    /\ UNCHANGED <<generation, error, epoch, stale>>

-----------------------------------------------------------------------------
(* The makers of Slab and cjson create: the sticky error is not consulted.  *)

MakeItem(item) ==
    LET made == Make(heap, item)
    IN /\ heap' = made.heap
       /\ result' = made.code
       /\ UNCHANGED <<generation, error, epoch, stale>>

-----------------------------------------------------------------------------
(* Object and Array.                                                       *)

(* Mutated form of Status: the sticky error is forgotten.                  *)
StatusOfHandle(handle) ==
    IF ~Accepted(handle) THEN "InvalidHandle"
    ELSE IF heap.type[handle.id] # handle.type THEN "InvalidHandle"
    ELSE "Ok"

(* status() of a handle that was obtained as an Object or an Array.        *)
Status(handle) ==
    IF error # "Ok" THEN error
    ELSE IF ~Accepted(handle) THEN "InvalidHandle"
    ELSE IF heap.type[handle.id] # handle.type THEN "InvalidHandle"
    ELSE "Ok"

(* Attaching to a handle of either type; an array ignores the key.         *)
Attach(h, parent, key, child) ==
    IF parent.type = "Array"
    THEN ArrayAttach(h, generation, parent, child)
    ELSE ObjectAttach(h, generation, parent, key, child)

(* Array::add(Value), Object::add(key, Value): how the two go on from the  *)
(* status check is Attach.                                                 *)
Add(parent, key, child) ==
    LET attached == Attach(heap, parent, key, child)
    IN \/ /\ Status(parent) # "Ok"
          /\ Reject(Status(parent))
       \/ /\ Status(parent) = "Ok"
          /\ attached.code # "Ok"
          /\ Reject(attached.code)
       \/ /\ Status(parent) = "Ok"
          /\ attached.code = "Ok"
          /\ Commit(attached.heap)

(* ContainerBuilder::add, behind every adder that also makes the child:    *)
(* what a failing maker leaves stays, a failing attachment is rolled back. *)
Build(parent, key, item) ==
    LET made == Make(heap, item)
        child == [slab |-> "this", id |-> heap.count, gen |-> generation,
                  type |-> item.type, epoch |-> epoch]
        attached == Attach(made.heap, parent, key, child)
    IN \/ /\ Status(parent) # "Ok"
          /\ Reject(Status(parent))
       \/ /\ Status(parent) = "Ok"
          /\ made.code # "Ok"
          /\ RecordError(made.code)
          /\ heap' = made.heap
          /\ UNCHANGED <<generation, epoch, stale>>
       \/ /\ Status(parent) = "Ok"
          /\ made.code = "Ok"
          /\ attached.code # "Ok"
          /\ RecordError(attached.code)
          /\ heap' = Rollback(attached.heap, heap)
          /\ UNCHANGED <<generation, epoch, stale>>
       \/ /\ Status(parent) = "Ok"
          /\ made.code = "Ok"
          /\ attached.code = "Ok"
          /\ Commit(attached.heap)

(* Every adder of Array and of Object that makes its child.                *)
BuildElement(array, item) == Build(array, <<>>, item)
BuildMember(object, key, item) == Build(object, key, item)

(* The add() overloads that take a C string, given a null pointer.         *)
AddNullPointer(parent) ==
    Reject(IF Status(parent) # "Ok" THEN Status(parent) ELSE "InvalidArgument")

-----------------------------------------------------------------------------
(* Taking a child out: Object::remove and the detach and delete functions  *)
(* of the cJSON layer.  Their errors are not recorded.                     *)

ParentError(parent, type) ==
    IF ~Accepted(parent) THEN "InvalidHandle"
    ELSE IF heap.type[parent.id] # type THEN "TypeMismatch"
    ELSE IF ~(Siblings(heap, parent.id) \subseteq Live(heap))
         THEN "InternalError"
    ELSE "Ok"

Detach(parent, type, child) ==
    \/ /\ ParentError(parent, type) # "Ok"
       /\ Refuse(ParentError(parent, type))
    \/ /\ ParentError(parent, type) = "Ok"
       /\ child = Nil
       /\ Refuse("NotFound")
    \/ /\ ParentError(parent, type) = "Ok"
       /\ child # Nil
       /\ Commit(TakeOut(heap, parent.id, child))

Remove(object, key) ==
    Detach(object, "Object", MemberByKey(heap, object.id, key, Exact))

CjsonDetachFromObject(item, key, fold) ==
    Detach(item, "Object", MemberByKey(heap, item.id, key, fold))

CjsonDetachFromArray(item, index) ==
    Detach(item, "Array", ElementAt(heap, item.id, index))

(* add_item_to_array, add_item_to_object: as_array() or as_object() first, *)
(* whose failure is not recorded.                                          *)
CjsonAddItem(item, type, key, child) ==
    \/ /\ ~Accepted(item)
       /\ Refuse("InvalidHandle")
    \/ /\ Accepted(item)
       /\ heap.type[item.id] # type
       /\ Refuse("TypeMismatch")
    \/ /\ Accepted(item)
       /\ heap.type[item.id] = type
       /\ Add([item EXCEPT !.type = type], key, child)

-----------------------------------------------------------------------------
ClearError ==
    /\ error' = "Ok"
    /\ result' = "Ok"
    /\ UNCHANGED <<heap, generation, epoch, stale>>

(* Mutated form of NextGeneration: a reset keeps the generation.           *)
SameGeneration(g) == g

NextGeneration(g) ==
    IF (g + 1) % Generations = 0 THEN 1 ELSE (g + 1) % Generations

(* reset(), delete_all(): the bytes stay, the counters go back to zero.    *)
Reset ==
    /\ epoch < MaxResets
    /\ heap' = [heap EXCEPT !.count = 0, !.bytes = 0]
    /\ generation' = NextGeneration(generation)
    /\ error' = "Ok"
    /\ result' = "Ok"
    /\ epoch' = epoch + 1
    /\ \E kept \in SUBSET Held :
          /\ Cardinality(kept) <= MaxKept
          /\ stale' = kept

Init ==
    /\ heap = EmptyHeap
    /\ generation = 1
    /\ error = "Ok"
    /\ result = "Ok"
    /\ epoch = 0
    /\ stale = {}

Next ==
    \/ \E item \in Items : MakeItem(item)
    \/ \E array \in HeldAs("Array"), child \in Values : Add(array, <<>>, child)
    \/ \E object \in HeldAs("Object"), key \in Texts, child \in Values :
          Add(object, key, child)
    \/ \E array \in HeldAs("Array"), item \in Items :
          BuildElement(array, item)
    \/ \E object \in HeldAs("Object"), key \in Texts, item \in Items :
          BuildMember(object, key, item)
    \/ \E parent \in HeldAs("Array") \cup HeldAs("Object") :
          AddNullPointer(parent)
    \/ \E object \in HeldAs("Object"), key \in Texts : Remove(object, key)
    \/ \E item \in Held, key \in Texts, fold \in {Exact, Fold} :
          CjsonDetachFromObject(item, key, fold)
    \/ \E item \in Held, index \in Ids : CjsonDetachFromArray(item, index)
    \/ \E item \in Held, child \in Values :
          CjsonAddItem(item, "Array", <<>>, child)
    \/ \E item \in Held, key \in Texts, child \in Values :
          CjsonAddItem(item, "Object", key, child)
    \/ ClearError
    \/ Reset

Spec == Init /\ [][Next]_vars

-----------------------------------------------------------------------------
(* Invariants.                                                             *)

(* Every field stays within the width the code gives it: the casts to      *)
(* uint16_t in allocate_string() and of node ids lose nothing.             *)
TypeOK ==
    /\ heap \in Heaps
    /\ generation \in 1 .. Generations - 1
    /\ error \in ErrorCodes
    /\ result \in ErrorCodes
    /\ epoch \in 0 .. MaxResets
    /\ stale \subseteq HandleSet

(* Nodes and strings grow towards each other and never meet, and every     *)
(* string a live node refers to is where strings have been allocated: no   *)
(* rollback or failed call releases bytes that are still referred to.      *)
LayoutSafe == LayoutOK(heap)

(* No two strings in use share a byte.                                     *)
StringsApart == StringsDisjoint(heap)

(* The document is a forest and the four link fields agree on it, however  *)
(* adds, removals and detachments of any node alternate.                   *)
ForestSafe == ForestOK(heap)

(* Iterating, size() and at() see exactly the attached children.           *)
ChildrenSafe == ChildrenOK(heap)

(* The checks for impossible states in the walks, and the second capacity  *)
(* check of make_string(), never fail: the pre-checks are exact.           *)
NoInternalError == result # "InternalError"

(* Only a member of an object has a key: none is left from an earlier home *)
(* when a node has been taken out or moved to an array.                    *)
KeysOnMembers ==
    \A i \in Live(heap) :
        \/ heap.parent[i] # Nil /\ heap.type[heap.parent[i]] = "Object"
        \/ heap.key[i] = NoRef /\ ~heap.keyFlags[i]

(* What is stored is well-formed UTF-8, and the flag the serializer trusts *)
(* to copy a string without escaping tells the truth about its bytes.      *)
StoredTextOK ==
    \A i \in Live(heap) :
        \A s \in {[ref |-> heap.key[i], flags |-> heap.keyFlags[i]],
                  [ref |-> heap.value[i], flags |-> heap.valueFlags[i]]} :
            LET text == ViewString(heap, s.ref)
            IN /\ text \in Seq(Bytes)
               /\ WellFormed(text)
               /\ s.flags = NeedsEscape(text)

(* A handle from before a reset is rejected, as long as the generation     *)
(* counter has not come round to the value the handle carries.             *)
StaleRejected ==
    \A h \in stale : Accepted(h) => epoch - h.epoch >= Generations - 1

(* README.md:204: reset() "invalidates all existing `Value`, `Object`, and *)
(* `Array` handles from that slab".                                        *)
ResetInvalidatesHandles == \A h \in stale : ~Accepted(h)

-----------------------------------------------------------------------------
(* Action properties.                                                      *)

(* What the client can see of a node.                                      *)
NodeView(h, i) ==
    [type |-> h.type[i], parent |-> h.parent[i], first |-> h.first[i],
     last |-> h.last[i], next |-> h.next[i],
     key |-> ViewString(h, h.key[i]), value |-> ViewString(h, h.value[i])]
Document(h) == [bytes |-> h.bytes,
                nodes |-> [i \in Live(h) |-> NodeView(h, i)]]
Children(h, p) == {c \in Live(h) : h.parent[c] = p}

(* What a call that works for several steps owes to the nodes that were    *)
(* there when it took its checkpoint, and what it owes when it fails.      *)
KeepsBefore(before, h, g) ==
    \A i \in 0 .. before.count - 1 : NodeView(g, i) = NodeView(h, i)

GivesBack(before, g) == g.count = before.count /\ g.bytes = before.bytes

(* A call that returns an error has changed nothing of the document, not   *)
(* even the space left, however far it had got.                            *)
FailureAtomic ==
    [][result' # "Ok" /\ heap' # heap => Document(heap') = Document(heap)]_vars

(* While an error is recorded, no adder attaches anything through any      *)
(* handle, and the recorded error stays the first one.                     *)
StickyError ==
    [][error # "Ok" /\ error' # "Ok" =>
          /\ error' = error
          /\ \A i \in Live(heap) : heap.parent'[i] \in {heap.parent[i], Nil}
          /\ \A i \in Live(heap') \ Live(heap) : heap.parent'[i] = Nil]_vars

(* Until reset(), no call disturbs the type or the text of any node, nor   *)
(* the key of a node that stays where it is.                               *)
ContentStable ==
    [][epoch' = epoch /\ heap' # heap =>
          /\ Live(heap) \subseteq Live(heap')
          /\ \A i \in Live(heap) :
                LET old == NodeView(heap, i)
                    new == NodeView(heap', i)
                IN /\ new.type = old.type
                   /\ new.value = old.value
                   /\ new.parent = old.parent => new.key = old.key]_vars

(* Until reset(), a call attaches or detaches at most one node and never   *)
(* moves one between containers; the other children keep their order and a *)
(* new child comes last.                                                   *)
OrderStable ==
    [][epoch' = epoch /\ heap' # heap =>
          /\ \A i, j \in Live(heap) :
                /\ heap.parent'[i] # heap.parent[i]
                /\ heap.parent'[j] # heap.parent[j]
                => i = j /\ Nil \in {heap.parent[i], heap.parent'[i]}
          /\ \A p \in Live(heap) : \A c, d \in Children(heap', p) :
                IF c \in Children(heap, p)
                THEN d \in Children(heap, p) =>
                        (NotAfter(heap', c, d) <=> NotAfter(heap, c, d))
                ELSE NotAfter(heap', d, c)]_vars
=============================================================================

----------------------------- MODULE SlabCloner -----------------------------
(***************************************************************************)
(* detail::CjsonCloner::duplicate() (src/src/cjson_compat.cpp): copying a  *)
(* node, and on request all that is below it, into the same slab or into   *)
(* another one, without recursion: a cursor moves over the source in       *)
(* document order, a second one follows it over the copy.                  *)
(*                                                                         *)
(* The client of SlabDom builds and edits the source between the calls.    *)
(* duplicate() is one action for what precedes its loop and one step for   *)
(* every turn of the loop, so that the invariants also speak of the        *)
(* storage while the copy is half done.  Nothing else runs meanwhile: the  *)
(* library is single-threaded.                                             *)
(***************************************************************************)
EXTENDS SlabDom

CONSTANT MaxDuplicates      \* bound: how often the client duplicates

ASSUME DuplicatesAssumption == MaxDuplicates \in Nat

VARIABLES
    other,          \* the storage of the other slab
    cursor,         \* the local variables of duplicate()
    duplicates      \* how often it was called; no code reads it

clonerVars == <<heap, generation, error, result, epoch, stale,
                other, cursor, duplicates>>

(* active: the loop runs; target: the destination; root: source.id_;       *)
(* source, copy: where the cursors are; climbing: the inner loop, below    *)
(* source everything is copied; start: the checkpoint.                     *)
Cursors == [active : BOOLEAN, target : {"this", "other"},
            root : Ids \cup {Nil}, source : Ids \cup {Nil},
            copyRoot : Ids \cup {Nil}, copy : Ids \cup {Nil},
            climbing : BOOLEAN,
            start : [count : Nat, bytes : Nat]]

NoCursor == [active |-> FALSE, target |-> "this", root |-> Nil,
             source |-> Nil, copyRoot |-> Nil, copy |-> Nil,
             climbing |-> FALSE, start |-> [count |-> 0, bytes |-> 0]]

HeapOf(target) == IF target = "this" THEN heap ELSE other

SetHeap(target, h) ==
    /\ heap' = IF target = "this" THEN h ELSE heap
    /\ other' = IF target = "this" THEN other ELSE h

Destination == HeapOf(cursor.target)

-----------------------------------------------------------------------------
(* Copying one node.  A text is copied from the heap src, which is the     *)
(* destination itself when the slab duplicates into itself.                *)

CopyValue(dst, id, text) ==
    IF AllocateStringError(dst, Len(text)) # "Ok"
    THEN Failure(AllocateStringError(dst, Len(text)), dst)
    ELSE Success([CopyString(dst, text) EXCEPT
                     !.value[id] = NextRef(dst, Len(text))])

CopyKey(dst, id, text) ==
    IF AllocateStringError(dst, Len(text)) # "Ok"
    THEN Failure(AllocateStringError(dst, Len(text)), dst)
    ELSE Success([CopyString(dst, text) EXCEPT
                     !.key[id] = NextRef(dst, Len(text))])

(* Mutated forms of CloneNode: the flags of the value are not taken over,  *)
(* and keys are not copied.                                                *)
CloneNodeNoFlags(dst, src, i, copyKey) ==
    LET id == dst.count
        node == [AllocateNode(dst, src.type[i]) EXCEPT
                    !.keyFlags[id] = src.keyFlags[i]]
        valued == IF src.type[i] = "String"
                  THEN CopyValue(node, id, ViewString(src, src.value[i]))
                  ELSE Success(node)
    IN IF AllocateNodeError(dst) # "Ok"
       THEN Failure(AllocateNodeError(dst), dst)
       ELSE IF valued.code = "Ok" /\ copyKey
       THEN CopyKey(valued.heap, id, ViewString(src, src.key[i]))
       ELSE valued

CloneNodeNoKey(dst, src, i, copyKey) ==
    LET id == dst.count
        node == [AllocateNode(dst, src.type[i]) EXCEPT
                    !.keyFlags[id] = src.keyFlags[i],
                    !.valueFlags[id] = src.valueFlags[i]]
    IN IF AllocateNodeError(dst) # "Ok"
       THEN Failure(AllocateNodeError(dst), dst)
       ELSE IF src.type[i] = "String"
       THEN CopyValue(node, id, ViewString(src, src.value[i]))
       ELSE Success(node)

CloneNode(dst, src, i, copyKey) ==
    LET id == dst.count
        node == [AllocateNode(dst, src.type[i]) EXCEPT
                    !.keyFlags[id] = src.keyFlags[i],
                    !.valueFlags[id] = src.valueFlags[i]]
        valued == IF src.type[i] = "String"
                  THEN CopyValue(node, id, ViewString(src, src.value[i]))
                  ELSE Success(node)
    IN IF AllocateNodeError(dst) # "Ok"
       THEN Failure(AllocateNodeError(dst), dst)
       ELSE IF valued.code = "Ok" /\ copyKey
       THEN CopyKey(valued.heap, id, ViewString(src, src.key[i]))
       ELSE valued

LinkFirstChild(h, p, c) ==
    [h EXCEPT !.first[p] = c, !.last[p] = c, !.parent[c] = p]

(* Mutated forms of LinkNextSibling: the parent's list still ends at the   *)
(* previous node, and the new node does not know its parent.               *)
LinkAfterOnly(h, previous, c) ==
    [h EXCEPT !.next[previous] = c, !.parent[c] = h.parent[previous]]

LinkWithoutParent(h, previous, c) ==
    [h EXCEPT !.next[previous] = c, !.last[h.parent[previous]] = c]

LinkNextSibling(h, previous, c) ==
    [h EXCEPT !.next[previous] = c,
              !.last[h.parent[previous]] = c,
              !.parent[c] = h.parent[previous]]

-----------------------------------------------------------------------------
(* duplicate() up to its loop.                                             *)

Recurses(item, recurse) == recurse /\ heap.type[item.id] \in Containers

Duplicate(target, item, recurse) ==
    LET dst == HeapOf(target)
        cloned == CloneNode(dst, heap, item.id, FALSE)
        code == IF item.slab = "none" THEN "InvalidHandle"
                ELSE IF ~Valid THEN "InvalidArgument"
                ELSE IF ~Accepted(item) THEN "InvalidHandle"
                ELSE cloned.code
    IN /\ ~cursor.active
       /\ duplicates < MaxDuplicates
       /\ duplicates' = duplicates + 1
       /\ UNCHANGED <<generation, error, epoch, stale>>
       /\ \/ /\ code # "Ok"
             /\ ~Accepted(item)
             /\ result' = code
             /\ UNCHANGED <<heap, other, cursor>>
          \/ /\ code # "Ok"
             /\ Accepted(item)
             /\ SetHeap(target, Rollback(cloned.heap, dst))
             /\ result' = code
             /\ UNCHANGED cursor
          \/ /\ code = "Ok"
             /\ ~Recurses(item, recurse)
             /\ SetHeap(target, cloned.heap)
             /\ result' = "Ok"
             /\ UNCHANGED cursor
          \/ /\ code = "Ok"
             /\ Recurses(item, recurse)
             /\ SetHeap(target, cloned.heap)
             /\ cursor' = [active |-> TRUE, target |-> target,
                           root |-> item.id, source |-> item.id,
                           copyRoot |-> dst.count, copy |-> dst.count,
                           climbing |-> FALSE,
                           start |-> [count |-> dst.count,
                                      bytes |-> dst.bytes]]
             /\ UNCHANGED result

-----------------------------------------------------------------------------
(* The loop.                                                               *)

(* Mutated form of Abort: the destination is not rolled back.              *)
AbortAsIs(code, h) ==
    /\ SetHeap(cursor.target, h)
    /\ cursor' = NoCursor
    /\ result' = code

Abort(code, h) ==
    /\ SetHeap(cursor.target, Rollback(h, cursor.start))
    /\ cursor' = NoCursor
    /\ result' = code

(* Mutated form of GoOn: the cursor of the copy goes one node too far.     *)
GoOnPast(source, cloned, linked) ==
    \/ /\ cloned.code # "Ok"
       /\ Abort(cloned.code, cloned.heap)
    \/ /\ cloned.code = "Ok"
       /\ SetHeap(cursor.target, linked)
       /\ cursor' = [cursor EXCEPT !.source = source,
                                   !.copy = linked.count,
                                   !.climbing = FALSE]
       /\ UNCHANGED result

(* Both cursors go on to a node just copied and linked into linked.        *)
GoOn(source, cloned, linked) ==
    \/ /\ cloned.code # "Ok"
       /\ Abort(cloned.code, cloned.heap)
    \/ /\ cloned.code = "Ok"
       /\ SetHeap(cursor.target, linked)
       /\ cursor' = [cursor EXCEPT !.source = source,
                                   !.copy = Destination.count,
                                   !.climbing = FALSE]
       /\ UNCHANGED result

CloneFirstChild ==
    LET source == heap.first[cursor.source]
        cloned == CloneNode(Destination, heap, source,
                            heap.type[cursor.source] = "Object")
    IN /\ ~cursor.climbing
       /\ source # Nil
       /\ GoOn(source, cloned,
               LinkFirstChild(cloned.heap, cursor.copy, Destination.count))

(* Below cursor.source there is nothing left to copy.                      *)
Leaving == cursor.climbing \/ heap.first[cursor.source] = Nil

(* A node below the root without a parent, in the source or in the copy.   *)
Broken == \/ heap.parent[cursor.source] = Nil
          \/ Destination.parent[cursor.copy] = Nil

CloneNextSibling ==
    LET source == heap.next[cursor.source]
        parent == heap.parent[cursor.source]
        cloned == IF Broken
                  THEN Failure("InternalError", Destination)
                  ELSE CloneNode(Destination, heap, source,
                                 heap.type[parent] = "Object")
    IN /\ Leaving
       /\ cursor.source # cursor.root
       /\ source # Nil
       /\ GoOn(source, cloned,
               LinkNextSibling(cloned.heap, cursor.copy, Destination.count))

(* Mutated form of Up: the cursors stay where they are.                    *)
UpNowhere(c) == [c EXCEPT !.climbing = TRUE]

Up(c) == [c EXCEPT !.source = heap.parent[c.source],
                   !.copy = Destination.parent[c.copy],
                   !.climbing = TRUE]

CloneClimb ==
    /\ Leaving
    /\ cursor.source # cursor.root
    /\ heap.next[cursor.source] = Nil
    /\ IF Broken
       THEN Abort("InternalError", Destination)
       ELSE /\ cursor' = Up(cursor)
            /\ UNCHANGED <<heap, other, result>>

CloneReturn ==
    /\ Leaving
    /\ cursor.source = cursor.root
    /\ cursor' = NoCursor
    /\ result' = "Ok"
    /\ UNCHANGED <<heap, other>>

CloneStep ==
    /\ cursor.active
    /\ \/ CloneFirstChild
       \/ CloneNextSibling
       \/ CloneClimb
       \/ CloneReturn
    /\ UNCHANGED <<generation, error, epoch, stale, duplicates>>

-----------------------------------------------------------------------------
ClonerInit ==
    /\ Init
    /\ other = EmptyHeap
    /\ cursor = NoCursor
    /\ duplicates = 0

(* A call to the slab of the source, between two duplicates, that succeeds: *)
(* those that fail leave the document as it is (FailureAtomic of SlabDom). *)
Client ==
    /\ ~cursor.active
    /\ Next
    /\ result' = "Ok"
    /\ UNCHANGED <<other, cursor, duplicates>>

ClonerNext ==
    \/ Client
    \/ \E target \in {"this", "other"}, item \in Held \cup {NullValue},
          recurse \in BOOLEAN : Duplicate(target, item, recurse)
    \/ CloneStep

(* duplicate() is straight-line code: once called it is not left until it  *)
(* returns.  The client is under no obligation to call anything.           *)
ClonerSpec == ClonerInit /\ [][ClonerNext]_clonerVars
              /\ WF_clonerVars(CloneStep)

-----------------------------------------------------------------------------
(* Invariants, in the middle of a copy too.                                *)

(* The cursors, which the loop follows with node_at_unchecked(), are on    *)
(* nodes that are there.                                                   *)
ClonerTypeOK ==
    /\ TypeOK
    /\ other \in Heaps
    /\ cursor \in Cursors
    /\ cursor.active =>
          /\ {cursor.root, cursor.source} \subseteq Live(heap)
          /\ {cursor.copyRoot, cursor.copy} \subseteq Live(Destination)
    /\ duplicates \in 0 .. MaxDuplicates

(* After every turn of the loop both slabs hold a forest whose links agree *)
(* and whose strings are in bounds: the link functions of the cloner, which *)
(* write less than append_child_unchecked(), leave nothing to be repaired. *)
ClonedForestSafe ==
    \A h \in {heap, other} : ForestOK(h) /\ LayoutOK(h) /\ StringsDisjoint(h)

(* The text of every string and of every member's key is well-formed, and  *)
(* the flag the serializer trusts tells the truth about it.  The key flag  *)
(* of a copied root, which has no key, is of no consequence.               *)
TextFlagOK(h, ref, flags) ==
    LET text == ViewString(h, ref)
    IN WellFormed(text) /\ flags = NeedsEscape(text)

ClonedTextOK ==
    \A h \in {heap, other} : \A i \in Live(h) :
        /\ h.type[i] = "String" => TextFlagOK(h, h.value[i], h.valueFlags[i])
        /\ h.parent[i] # Nil /\ h.type[h.parent[i]] = "Object" =>
              TextFlagOK(h, h.key[i], h.keyFlags[i])

-----------------------------------------------------------------------------
(* Action properties and liveness.                                         *)

(* The part of g below copy is what the part of h below root is: the same  *)
(* types, texts and keys, in the same tree, in the same order.             *)
IsCopy(h, root, g, copy) ==
    \E f \in [Below(h, root) -> Below(g, copy)] :
        /\ f[root] = copy
        /\ {f[i] : i \in Below(h, root)} = Below(g, copy)
        /\ \A i, j \in Below(h, root) : f[i] = f[j] => i = j
        /\ \A i \in Below(h, root) :
              /\ g.type[f[i]] = h.type[i]
              /\ ViewString(g, g.value[f[i]]) = ViewString(h, h.value[i])
              /\ i # root =>
                    /\ g.parent[f[i]] = f[h.parent[i]]
                    /\ g.next[f[i]] = IF h.next[i] = Nil THEN Nil
                                      ELSE f[h.next[i]]
                    /\ ViewString(g, g.key[f[i]]) = ViewString(h, h.key[i])
        /\ g.parent[copy] = Nil
        /\ ViewString(g, g.key[copy]) = <<>>

(* When duplicate() returns a value, that is a detached copy of its source *)
(* as it is then, which is as it was at the call.                          *)
CopyFaithful ==
    [][cursor.active /\ ~cursor'.active /\ result' = "Ok" =>
          IsCopy(heap, cursor.root, Destination, cursor.copyRoot)]_clonerVars

(* No turn of the loop touches a node or a text that was there before the  *)
(* call, source or not, and a copy that fails gives back all it took.      *)
Before(target) == IF cursor.active /\ cursor.target = target
                  THEN cursor.start
                  ELSE [count |-> HeapOf(target).count,
                        bytes |-> HeapOf(target).bytes]

DuplicateKeepsDocument ==
    [][duplicates' # duplicates \/ cursor.active =>
          /\ KeepsBefore(Before("this"), heap, heap')
          /\ KeepsBefore(Before("other"), other, other')
          /\ ~cursor'.active /\ result' # "Ok" =>
                /\ GivesBack(Before("this"), heap')
                /\ GivesBack(Before("other"), other')]_clonerVars

(* duplicate() returns, whatever it copies.                                *)
DuplicateReturns == cursor.active ~> ~cursor.active
=============================================================================

------------------------------ MODULE SlabTree ------------------------------
(***************************************************************************)
(* The links between the nodes of a heap: the walks of the code along      *)
(* parent and next_sibling, attaching a child (Slab::validate_attachment,  *)
(* append_child_unchecked, Object::add, Array::add), looking a child up    *)
(* and unlinking it (Object::remove, cjson detach).                        *)
(*                                                                         *)
(* A walk is the set of nodes it visits: the smallest set that holds the   *)
(* start and is closed under the link.  It is defined whatever the links   *)
(* are; that the code's loops end is the acyclicity below.                 *)
(***************************************************************************)
EXTENDS SlabHeap

Reach(link, start) ==
    LET Closed == {S \in SUBSET Ids :
                      /\ start \in Ids => start \in S
                      /\ \A y \in S : link[y] \in Ids => link[y] \in S}
    IN {x \in Ids : \A S \in Closed : x \in S}

Ancestors(h, id) == Reach(h.parent, id)          \* id itself included
Siblings(h, parent) == Reach(h.next, h.first[parent])

(* The nodes of the tree below root, root included.                        *)
Below(h, root) == {i \in Live(h) : root \in Ancestors(h, i)}

(* c comes no later than d in the list they are both on.                   *)
NotAfter(h, c, d) == d \in Reach(h.next, c)

-----------------------------------------------------------------------------
(* Handles: what a Value, an Object or an Array carries.  A handle is      *)
(* accepted when node_for() returns a node for it.                         *)

NodeFor(h, generation, handle) ==
    /\ Valid
    /\ handle.slab = "this"
    /\ handle.gen = generation
    /\ handle.id < h.count

(* Mutated form of ValidateAttachment: no walk to the root.                *)
ValidateNoWalk(h, generation, parent, child, type) ==
    IF ~NodeFor(h, generation, parent) THEN "InvalidHandle"
    ELSE IF h.type[parent.id] # type THEN "TypeMismatch"
    ELSE IF child.slab = "other" THEN "CrossSlab"
    ELSE IF ~NodeFor(h, generation, child) THEN "InvalidHandle"
    ELSE IF h.parent[child.id] # Nil THEN "AlreadyAttached"
    ELSE IF child.id = parent.id THEN "CycleDetected"
    ELSE "Ok"

ValidateAttachment(h, generation, parent, child, type) ==
    IF ~NodeFor(h, generation, parent) THEN "InvalidHandle"
    ELSE IF h.type[parent.id] # type THEN "TypeMismatch"
    ELSE IF child.slab = "other" THEN "CrossSlab"
    ELSE IF ~NodeFor(h, generation, child) THEN "InvalidHandle"
    ELSE IF h.parent[child.id] # Nil THEN "AlreadyAttached"
    ELSE IF child.id \in Ancestors(h, parent.id) THEN "CycleDetected"
    ELSE IF \E a \in Ancestors(h, parent.id) : a \notin Live(h)
         THEN "InternalError"
    ELSE "Ok"

(* Mutated form of AppendChild: the child comes first.                     *)
PrependChild(h, p, c) ==
    [h EXCEPT !.parent[c] = p,
              !.next[c] = h.first[p],
              !.first[p] = c,
              !.last[p] = IF h.last[p] = Nil THEN c ELSE h.last[p]]

AppendChild(h, p, c) ==
    [h EXCEPT !.parent[c] = p,
              !.next = [i \in Ids |-> IF i = c THEN Nil
                                      ELSE IF i = h.last[p] THEN c
                                      ELSE h.next[i]],
              !.first[p] = IF h.last[p] = Nil THEN c ELSE h.first[p],
              !.last[p] = c]

SetKey(h, c, ref, flags) == [h EXCEPT !.key[c] = ref, !.keyFlags[c] = flags]

(* Array::add(Value) and Object::add(key, Value), after the status check.  *)
ArrayAttach(h, generation, parent, child) ==
    LET code == ValidateAttachment(h, generation, parent, child, "Array")
    IN IF code # "Ok" THEN Failure(code, h)
       ELSE Success(AppendChild(SetKey(h, child.id, NoRef, FALSE),
                                parent.id, child.id))

ObjectAttach(h, generation, parent, key, child) ==
    LET code == ValidateAttachment(h, generation, parent, child, "Object")
        ref == NextRef(h, Len(key))
    IN IF code # "Ok" THEN Failure(code, h)
       ELSE IF StoreStringError(h, key) # "Ok"
       THEN Failure(StoreStringError(h, key), h)
       ELSE Success(AppendChild(SetKey(CopyString(h, key), child.id, ref,
                                       NeedsEscape(key)),
                                parent.id, child.id))

-----------------------------------------------------------------------------
(* Looking up and unlinking.                                               *)

(* Mutated form of FirstOf: the last one.                                  *)
LastOf(h, S) ==
    IF S = {} THEN Nil ELSE CHOOSE c \in S : \A d \in S : NotAfter(h, d, c)

(* The first of the nodes in S, which all lie on one list; Nil for none.   *)
FirstOf(h, S) ==
    IF S = {} THEN Nil ELSE CHOOSE c \in S : \A d \in S : NotAfter(h, c, d)

(* The member whose key matches: Fold is the identity for an exact match   *)
(* and ASCII lower case for cJSON's default.                               *)
MemberByKey(h, p, key, Fold) ==
    FirstOf(h, {c \in Siblings(h, p) :
                   LET stored == ViewString(h, h.key[c])
                   IN /\ Len(stored) = Len(key)
                      /\ \A k \in DOMAIN key : Fold[stored[k]] = Fold[key[k]]})

ElementAt(h, a, index) ==
    FirstOf(h, {c \in Siblings(h, a) :
                   index = Cardinality({d \in Siblings(h, a) :
                                            d # c /\ NotAfter(h, d, c)})})

Previous(h, p, c) ==
    IF h.first[p] = c THEN Nil
    ELSE CHOOSE q \in Siblings(h, p) : h.next[q] = c

(* Mutated forms of UnlinkChild: last_child is not moved back, and the key *)
(* stays with the node.                                                    *)
UnlinkKeepsLast(h, p, previous, c) ==
    [h EXCEPT !.first[p] = IF previous = Nil THEN h.next[c] ELSE h.first[p],
              !.next = [i \in Ids |-> IF i = c THEN Nil
                                      ELSE IF i = previous THEN h.next[c]
                                      ELSE h.next[i]],
              !.parent[c] = Nil,
              !.key[c] = NoRef,
              !.keyFlags[c] = FALSE]

UnlinkKeepsKey(h, p, previous, c) ==
    [h EXCEPT !.first[p] = IF previous = Nil THEN h.next[c] ELSE h.first[p],
              !.next = [i \in Ids |-> IF i = c THEN Nil
                                      ELSE IF i = previous THEN h.next[c]
                                      ELSE h.next[i]],
              !.last[p] = IF h.last[p] = c THEN previous ELSE h.last[p],
              !.parent[c] = Nil]

UnlinkChild(h, p, previous, c) ==
    [h EXCEPT !.first[p] = IF previous = Nil THEN h.next[c] ELSE h.first[p],
              !.next = [i \in Ids |-> IF i = c THEN Nil
                                      ELSE IF i = previous THEN h.next[c]
                                      ELSE h.next[i]],
              !.last[p] = IF h.last[p] = c THEN previous ELSE h.last[p],
              !.parent[c] = Nil,
              !.key[c] = NoRef,
              !.keyFlags[c] = FALSE]

TakeOut(h, p, c) == UnlinkChild(h, p, Previous(h, p, c), c)

-----------------------------------------------------------------------------
(* What makes a heap a document.                                           *)

(* Strings and nodes do not meet, and the references of live nodes lie in  *)
(* the part of the storage that strings have been handed out from.         *)
RefOK(h, ref) ==
    ref = NoRef \/ ( /\ ref.off >= Capacity - h.bytes
                     /\ ref.off + ref.len <= Capacity )

LayoutOK(h) ==
    /\ NodeBytes(h.count) + h.bytes <= Capacity
    /\ \A i \in Live(h) : RefOK(h, h.key[i]) /\ RefOK(h, h.value[i])

(* No two strings in use share a byte.                                     *)
Disjoint(r, s) == r.off + r.len <= s.off \/ s.off + s.len <= r.off

StringsDisjoint(h) ==
    \A i, j \in Live(h) :
        /\ Disjoint(h.key[i], h.value[j])
        /\ i # j => /\ Disjoint(h.key[i], h.key[j])
                    /\ Disjoint(h.value[i], h.value[j])

(* The links of live nodes agree with each other, seen from the child      *)
(* (parent, next) and from the container (first, last).                    *)
ParentOK(h) ==
    \A i \in Live(h) :
        IF h.parent[i] = Nil
        THEN h.next[i] = Nil
        ELSE /\ h.parent[i] \in Live(h)
             /\ h.type[h.parent[i]] \in Containers

EndsOK(h) ==
    \A p \in Live(h) :
        \/ h.first[p] = Nil /\ h.last[p] = Nil
        \/ /\ h.first[p] \in Live(h) /\ h.parent[h.first[p]] = p
           /\ h.last[p] \in Live(h) /\ h.parent[h.last[p]] = p
           /\ h.next[h.last[p]] = Nil
           /\ \A i \in Live(h) : h.next[i] # h.first[p]

NextOK(h) ==
    \A i \in Live(h) :
        /\ h.next[i] # Nil =>
              /\ h.next[i] \in Live(h)
              /\ h.parent[h.next[i]] = h.parent[i]
              /\ \A j \in Live(h) : h.next[j] = h.next[i] => j = i
        /\ h.parent[i] # Nil =>
              /\ h.next[i] = Nil => h.last[h.parent[i]] = i
              /\ \/ h.first[h.parent[i]] = i
                 \/ \E j \in Live(h) : h.next[j] = i

LinksOK(h) == ParentOK(h) /\ EndsOK(h) /\ NextOK(h)

(* Every set of live nodes can be left upwards, and left along the sibling *)
(* links, and entered along them: no cycle, so every walk of the code ends. *)
ParentAcyclic(h) ==
    \A S \in (SUBSET Live(h)) \ {{}} : \E x \in S : h.parent[x] \notin S

NextAcyclic(h) ==
    \A S \in (SUBSET Live(h)) \ {{}} : \E x \in S : h.next[x] \notin S

EntryOK(h) ==
    \A S \in (SUBSET Live(h)) \ {{}} : \E x \in S : \A y \in S : h.next[y] # x

ForestOK(h) == LinksOK(h) /\ ParentAcyclic(h) /\ NextAcyclic(h) /\ EntryOK(h)

(* What the client relies on: iterating a container yields exactly the     *)
(* nodes attached to it.                                                   *)
ChildrenOK(h) ==
    \A p \in Live(h) : Siblings(h, p) = {c \in Live(h) : h.parent[c] = p}
=============================================================================

---------------------------- MODULE SlabIterator ----------------------------
(***************************************************************************)
(* An iterator over the children of an Array or an Object                  *)
(* (src/src/array.cpp, src/src/object.cpp), held while the client edits    *)
(* the document and resets the slab.  An iterator is a node id and a       *)
(* generation: it knows neither its container nor whether its node is      *)
(* still there, and looks the node up when it is used.                     *)
(***************************************************************************)
EXTENDS SlabDom

VARIABLES
    iterator,       \* [slab, id, gen]: slab_, id_ and generation_
    walk            \* for the properties only, see below

iteratorVars == <<iterator, walk>>

(* Of the walk that the iterator is on: home is the container, epoch when  *)
(* it began, passed the children it has passed that have not left since.   *)
(* It has strayed when the client has pulled the ground from under it: the *)
(* node it stands on has left home, the slab was reset, or the document    *)
(* was edited when the walk was over.                                      *)

(* Whether begin() finds the container: the handle may be stale, and after *)
(* 2^32 - 1 resets it may be accepted again, for a node of another type.   *)
Opens(container) ==
    Accepted(container) /\ heap.type[container.id] = container.type

(* begin() of a container.                                                 *)
BeginOf(container) ==
    [slab |-> container.slab, gen |-> container.gen,
     id |-> IF Opens(container) THEN heap.first[container.id] ELSE Nil]

(* Mutated form of Dereference: whether the node is of this document is    *)
(* not looked at.                                                          *)
DereferenceAny(it) ==
    IF it.id < heap.count
    THEN [slab |-> "this", id |-> it.id, gen |-> it.gen]
    ELSE [slab |-> "none", id |-> 0, gen |-> 0]

(* operator*; an object's iterator yields the key of the node as well.     *)
Dereference(it) ==
    IF Accepted(it)
    THEN [slab |-> "this", id |-> it.id, gen |-> it.gen]
    ELSE [slab |-> "none", id |-> 0, gen |-> 0]

(* operator++.                                                             *)
Successor(it) ==
    [it EXCEPT !.id = IF Accepted(it) THEN heap.next[it.id] ELSE Nil]

Ahead(h, it) == Reach(h.next, it.id)

-----------------------------------------------------------------------------
Begin(container) ==
    /\ iterator' = BeginOf(container)
    /\ walk' = [home |-> container.id, epoch |-> epoch, passed |-> {},
                strayed |-> ~Opens(container)]
    /\ UNCHANGED vars

(* A loop does not go past end().                                          *)
Advance ==
    /\ iterator.id # Nil
    /\ iterator' = Successor(iterator)
    /\ walk' = [walk EXCEPT !.passed = IF Accepted(iterator)
                                       THEN @ \cup {iterator.id} ELSE @]
    /\ UNCHANGED vars

Left(i) == i \notin Live(heap') \/ heap.parent'[i] # walk.home

(* The calls that change the document; which child a removal takes by its  *)
(* key or index is open.  A call that fails changes nothing an iterator    *)
(* could see (FailureAtomic of SlabDom), and is left out.                  *)
Edit ==
    \/ \E item \in Items : MakeItem(item)
    \/ \E parent \in HeldAs("Array") \cup HeldAs("Object"),
          key \in Texts, child \in Current :
          Add(parent, key, child)
    \/ \E parent \in HeldAs("Array") \cup HeldAs("Object") :
          \E child \in Children(heap, parent.id) :
             Detach(parent, parent.type, child)
    \/ Reset

Client ==
    /\ Edit
    /\ result' = "Ok"
    /\ walk' = [walk EXCEPT
                   !.passed = {i \in @ : ~Left(i)},
                   !.strayed = \/ @
                               \/ epoch' # epoch
                               \/ iterator.id = Nil /\ heap' # heap
                               \/ iterator.id # Nil /\ Left(iterator.id)]
    /\ UNCHANGED iterator

(* ArrayIterator() and ObjectIterator(): no slab.                          *)
IteratorInit ==
    /\ Init
    /\ iterator = [slab |-> "none", gen |-> 0, id |-> Nil]
    /\ walk = [home |-> 0, epoch |-> 0, passed |-> {}, strayed |-> TRUE]

IteratorNext ==
    \/ \E container \in HeldAs("Array") \cup HeldAs("Object") :
          Begin(container)
    \/ Advance
    \/ Client

IteratorSpec == IteratorInit /\ [][IteratorNext]_<<vars, iteratorVars>>

-----------------------------------------------------------------------------
(* Properties.                                                             *)

(* As long as the node it stands on stays in its container, an iterator    *)
(* passes every child that is there exactly once, in whatever way other    *)
(* children come, go and come back meanwhile, and what it yields is a      *)
(* child.  After a reset it yields the null value, as the iterator of      *)
(* tests/test_hardening.cpp:472 does.                                      *)
WalkExact ==
    /\ ~walk.strayed =>
          /\ walk.passed \cap Ahead(heap, iterator) = {}
          /\ walk.passed \cup Ahead(heap, iterator) =
                Children(heap, walk.home)
          /\ iterator.id # Nil => Accepted(Dereference(iterator))
    /\ epoch - walk.epoch \in 1 .. Generations - 2 =>
          Dereference(iterator).slab = "none"
=============================================================================

------------------------- MODULE SlabImplementsDom -------------------------
(***************************************************************************)
(* A slab keeps the promise of Dom: the children of a container are the    *)
(* nodes that name it as their parent, in the order in which a walk along  *)
(* next_sibling meets them, and texts and keys are the bytes that the      *)
(* references of a node lead to.                                           *)
(***************************************************************************)
EXTENDS SlabDom

NodeOf(h, i) ==
    [type |-> h.type[i],
     text |-> ViewString(h, h.value[i]),
     key |-> ViewString(h, h.key[i]),
     parent |-> IF h.parent[i] = Nil THEN -1 ELSE h.parent[i],
     after |-> Reach(h.next, i) \ {i}]

DocumentOf(h) == [i \in Live(h) |-> NodeOf(h, i)]

Abstraction == DocumentOf(heap)

Doc == INSTANCE Dom WITH Types <- ValueTypes, document <- Abstraction

(* Every call is a step of the abstract document, or leaves it as it is:   *)
(* adders append, a child has one parent and is never above itself, a      *)
(* removal takes one child, the first with the key, and nothing else of    *)
(* the document changes.  This is Doc!Spec: the document is a function of    *)
(* the heap, so that TLC need look only at the steps that change the heap. *)
ImplementsDom ==
    Doc!Init /\ [][heap' # heap => [Doc!Next]_Abstraction]_heap
=============================================================================

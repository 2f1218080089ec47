--------------------------------- MODULE Dom ---------------------------------
(***************************************************************************)
(* What a slab promises to its client: a document is a forest of nodes.  A *)
(* node has a type and, if it is a string, a text, both for good; it is a  *)
(* child of at most one container, whose children are in an order, and as  *)
(* a member of an object it has a key.  Nothing is said here of storage,   *)
(* links, handles, generations and errors: a call either does one of the   *)
(* following or nothing.                                                   *)
(***************************************************************************)
EXTENDS Integers, Sequences

CONSTANTS
    Types,          \* the types of values, "Array" and "Object" among them
    Texts           \* the texts of strings and keys

VARIABLE document   \* from the nodes, numbered from 0, to what they are

(* The parent of a node that is in no container.                           *)
None == -1

(* The text of a node, and the key of one in a container of a type.        *)
TextsOf(type) == IF type = "String" THEN Texts ELSE {<<>>}
KeysIn(type) == IF type = "Object" THEN Texts ELSE {<<>>}

(* A step leads from a document d to a document e.  The number of the node *)
(* that it adds is the only one that e has and d has not.                  *)
Added(d, e) == DOMAIN e \ DOMAIN d

(* c is p, or p is below it: every set that holds p, and the parents of    *)
(* its nodes, holds c.                                                     *)
IsAbove(d, c, p) ==
    \A S \in SUBSET DOMAIN d :
        p \in S /\ (\A x \in S : d[x].parent \in DOMAIN d => d[x].parent \in S)
            => c \in S

CanTake(d, p, c) ==
    /\ d[p].type \in {"Array", "Object"}
    /\ d[c].parent = None
    /\ ~IsAbove(d, c, p)

(* The order of the children of a container is kept with each of them, as  *)
(* the set of those that come after it.                                    *)
NewNode(type, text) ==
    [type |-> type, text |-> text, key |-> <<>>, parent |-> None, after |-> {}]

Placed(node, parent, key, after) ==
    [type |-> node.type, text |-> node.text,
     key |-> key, parent |-> parent, after |-> after]

WithNode(d, new, type, text) ==
    [i \in DOMAIN d \cup {new} |-> IF i = new THEN NewNode(type, text) ELSE d[i]]

WithChild(d, p, key, c) ==
    [i \in DOMAIN d |->
        IF i = c THEN Placed(d[i], p, key, {})
        ELSE IF d[i].parent = p THEN [d[i] EXCEPT !.after = @ \cup {c}]
        ELSE d[i]]

WithoutChild(d, c) ==
    [i \in DOMAIN d |->
        IF i = c THEN Placed(d[i], None, <<>>, {})
        ELSE [d[i] EXCEPT !.after = @ \ {c}]]

-----------------------------------------------------------------------------
(* Slab::make_*, cjson create_*.                                           *)
Create(d, e) ==
    \E new \in Added(d, e), type \in Types :
        \E text \in TextsOf(type) :
            /\ DOMAIN d = 0 .. new - 1
            /\ e = WithNode(d, new, type, text)

(* add() of a value that there is.                                         *)
Attach(d, e) ==
    \E p, c \in DOMAIN d :
        /\ CanTake(d, p, c)
        /\ \E key \in KeysIn(d[p].type) : e = WithChild(d, p, key, c)

(* The other adders: both at once.                                         *)
CreateAttached(d, e) ==
    \E new \in Added(d, e), p \in DOMAIN d, type \in Types :
        \E text \in TextsOf(type), key \in KeysIn(d[p].type) :
            /\ DOMAIN d = 0 .. new - 1
            /\ e = WithChild(WithNode(d, new, type, text), p, key, new)
            /\ d[p].type \in {"Array", "Object"}

(* remove(), detach and delete: of the members with one key the first, of  *)
(* an array any element.                                                   *)
Detach(d, e) ==
    \E c \in DOMAIN d :
        /\ d[c].parent \in DOMAIN d
        /\ e = WithoutChild(d, c)
        /\ d[d[c].parent].type = "Object" =>
              \A j \in DOMAIN d : c \in d[j].after => d[j].key # d[c].key

(* reset(), delete_all().                                                  *)
Discard(e) == e = <<>>

Init == document = <<>>

Next ==
    LET d == document
        e == document'
    IN /\ e # d
       /\ \/ Create(d, e)
          \/ Attach(d, e)
          \/ CreateAttached(d, e)
          \/ Detach(d, e)
          \/ Discard(e)

Spec == Init /\ [][Next]_document
=============================================================================

------------------------------ MODULE SlabHeap ------------------------------
(***************************************************************************)
(* The storage of a Slab (src/include/slabjson/slab.hpp, src/src/slab.cpp) *)
(* as a record, and the operations of the code on it as operators.  Nodes  *)
(* are allocated upwards from the start of the caller's bytes, strings     *)
(* downwards from their end; a document is a forest of nodes linked by     *)
(* parent, first_child, last_child and next_sibling.                       *)
(*                                                                         *)
(* A heap h has one function per field of Slab::Node, over every node slot *)
(* that fits the storage, and the two counters of the slab: h.count is     *)
(* node_count_ and h.bytes is string_bytes_used_.  h.mem holds the stored  *)
(* bytes; the bytes of a node are Junk, because no string may read them.   *)
(* Scalar payloads (the bool, the number and its kind) are left out.       *)
(***************************************************************************)
EXTENDS Integers, Sequences, FiniteSets

CONSTANTS
    NodeSize,   \* sizeof(Slab::Node)
    Capacity,   \* storage_.size(); 0 when initialize() found no room
    U16Max,     \* 65535: the largest size, and the id that means "none"
    Bytes,      \* the bytes texts are made of
    IllFormed,  \* bytes that no well-formed UTF-8 text contains
    Escaped,    \* bytes a JSON string must escape
    Junk        \* what a string would read from a byte a node lies on

ASSUME SizesAssumption ==
    /\ NodeSize \in Nat \ {0}
    /\ U16Max \in Nat
    /\ Capacity \in 0 .. U16Max
    /\ Capacity = 0 \/ Capacity >= NodeSize

ASSUME BytesAssumption == Junk \notin Bytes

-----------------------------------------------------------------------------
(* Nodes, references and heaps.                                            *)

Nil == U16Max                               \* kInvalidNodeId
Addresses == 0 .. Capacity - 1
Ids == {i \in Addresses : (i + 1) * NodeSize <= Capacity}

ValueTypes == {"Null", "Bool", "Number", "String", "Array", "Object"}
Containers == {"Array", "Object"}

StringRefs == [off : 0 .. U16Max, len : 0 .. U16Max]
NoRef == [off |-> Nil, len |-> 0]           \* StringRef{}

Heaps == [type : [Ids -> ValueTypes],
          parent : [Ids -> Ids \cup {Nil}],
          first : [Ids -> Ids \cup {Nil}],
          last : [Ids -> Ids \cup {Nil}],
          next : [Ids -> Ids \cup {Nil}],
          key : [Ids -> StringRefs],
          keyFlags : [Ids -> BOOLEAN],
          value : [Ids -> StringRefs],
          valueFlags : [Ids -> BOOLEAN],
          count : Nat,
          bytes : Nat,
          mem : [Addresses -> Bytes \cup {Junk}]]

(* Fresh storage: nothing is allocated, so nothing of it is ever read.     *)
EmptyHeap == [type |-> [i \in Ids |-> "Null"],
              parent |-> [i \in Ids |-> Nil],
              first |-> [i \in Ids |-> Nil],
              last |-> [i \in Ids |-> Nil],
              next |-> [i \in Ids |-> Nil],
              key |-> [i \in Ids |-> NoRef],
              keyFlags |-> [i \in Ids |-> FALSE],
              value |-> [i \in Ids |-> NoRef],
              valueFlags |-> [i \in Ids |-> FALSE],
              count |-> 0,
              bytes |-> 0,
              mem |-> [a \in Addresses |-> Junk]]

Valid == Capacity # 0
Live(h) == {i \in Ids : i < h.count}        \* what node_for() can return

ErrorCodes == {"Ok", "InvalidArgument", "InvalidHandle", "TypeMismatch",
               "NotFound", "AlreadyAttached", "CrossSlab", "CycleDetected",
               "InvalidUtf8", "NonFiniteNumber", "OutOfMemory",
               "StringCapacityExceeded", "ParserDepthExceeded",
               "OutputCapacityExceeded", "ParseUnexpectedEnd",
               "ParseUnexpectedToken", "ParseInvalidString",
               "ParseInvalidNumber", "ParseInvalidEscape",
               "ParseInvalidUnicodeEscape", "ParseTrailingCharacters",
               "InternalError"}

(* What an operation leaves behind: its error code and the heap.           *)
Success(h) == [code |-> "Ok", heap |-> h]
Failure(code, h) == [code |-> code, heap |-> h]

-----------------------------------------------------------------------------
(* Text.                                                                   *)

WellFormed(text) == \A k \in DOMAIN text : text[k] \notin IllFormed

NeedsEscape(text) == \E k \in DOMAIN text : text[k] \in Escaped

ViewString(h, ref) ==
    IF ref.off > Capacity \/ ref.len > Capacity - ref.off
    THEN <<>>
    ELSE [k \in 1 .. ref.len |-> h.mem[ref.off + k - 1]]

-----------------------------------------------------------------------------
(* Allocation.                                                             *)

NodeBytes(n) == n * NodeSize

(* Mutated form of CanAllocateNode: the new node is not counted.           *)
CanAllocateLate(h) == Valid /\ NodeBytes(h.count) <= Capacity - h.bytes

CanAllocateNode(h) == Valid /\ NodeBytes(h.count + 1) <= Capacity - h.bytes

AllocateNodeError(h) ==
    IF ~Valid THEN "InvalidArgument"
    ELSE IF ~CanAllocateNode(h) THEN "OutOfMemory"
    ELSE "Ok"

(* Placement-new of a Node{}: every field of the slot is written.          *)
AllocateNode(h, type) ==
    LET id == h.count
    IN [type |-> [h.type EXCEPT ![id] = type],
        parent |-> [h.parent EXCEPT ![id] = Nil],
        first |-> [h.first EXCEPT ![id] = Nil],
        last |-> [h.last EXCEPT ![id] = Nil],
        next |-> [h.next EXCEPT ![id] = Nil],
        key |-> [h.key EXCEPT ![id] = NoRef],
        keyFlags |-> [h.keyFlags EXCEPT ![id] = FALSE],
        value |-> [h.value EXCEPT ![id] = NoRef],
        valueFlags |-> [h.valueFlags EXCEPT ![id] = FALSE],
        count |-> id + 1,
        bytes |-> h.bytes,
        mem |-> [a \in Addresses |->
                   IF NodeBytes(id) <= a /\ a < NodeBytes(id + 1)
                   THEN Junk ELSE h.mem[a]]]

(* Mutated form of AllocateStringError: the free bytes are not looked at.  *)
AllocateStringUnbounded(h, len) ==
    IF ~Valid THEN "InvalidArgument"
    ELSE IF len > U16Max THEN "StringCapacityExceeded"
    ELSE "Ok"

AllocateStringError(h, len) ==
    IF ~Valid THEN "InvalidArgument"
    ELSE IF len > U16Max THEN "StringCapacityExceeded"
    ELSE IF len > Capacity - h.bytes - NodeBytes(h.count)
         THEN "StringCapacityExceeded"
    ELSE "Ok"

(* The reference allocate_string() hands out for len bytes.                *)
NextRef(h, len) == [off |-> Capacity - h.bytes - len, len |-> len]

(* Mutated form of CopyString: string_bytes_used_ is not advanced.         *)
CopyStringInPlace(h, text) ==
    LET ref == NextRef(h, Len(text))
    IN [h EXCEPT !.mem = [a \in Addresses |->
                            IF ref.off <= a /\ a < ref.off + ref.len
                            THEN text[a - ref.off + 1] ELSE h.mem[a]]]

CopyString(h, text) ==
    LET ref == NextRef(h, Len(text))
    IN [h EXCEPT !.bytes = h.bytes + ref.len,
                 !.mem = [a \in Addresses |->
                            IF ref.off <= a /\ a < ref.off + ref.len
                            THEN text[a - ref.off + 1] ELSE h.mem[a]]]

(* Mutated form of StoreStringError: the bytes are not validated.          *)
StoreUnvalidated(h, text) == AllocateStringError(h, Len(text))

StoreStringError(h, text) ==
    IF ~WellFormed(text) THEN "InvalidUtf8"
    ELSE AllocateStringError(h, Len(text))

-----------------------------------------------------------------------------
(* Makers.  An item is what the client asks a maker for: a ValueType, the  *)
(* text of a string, whether a number is finite.                           *)

(* Mutated form of MakeStringError: the room for the bytes is not checked. *)
MakeStringNodeOnly(h, text) ==
    IF ~Valid THEN "InvalidArgument"
    ELSE IF Len(text) > U16Max THEN "StringCapacityExceeded"
    ELSE IF ~WellFormed(text) THEN "InvalidUtf8"
    ELSE IF ~CanAllocateNode(h) THEN "OutOfMemory"
    ELSE "Ok"

MakeStringError(h, text) ==
    IF ~Valid THEN "InvalidArgument"
    ELSE IF Len(text) > U16Max THEN "StringCapacityExceeded"
    ELSE IF ~WellFormed(text) THEN "InvalidUtf8"
    ELSE IF ~CanAllocateNode(h) THEN "OutOfMemory"
    ELSE IF Len(text) > Capacity - h.bytes - NodeBytes(h.count + 1)
         THEN "StringCapacityExceeded"
    ELSE "Ok"

MakeString(h, text) ==
    LET id == h.count
        node == AllocateNode(h, "String")
    IN IF MakeStringError(h, text) # "Ok"
       THEN Failure(MakeStringError(h, text), h)
       ELSE IF AllocateStringError(node, Len(text)) # "Ok"
       THEN Failure("InternalError", node)
       ELSE Success([CopyString(node, text) EXCEPT
                        !.value[id] = NextRef(node, Len(text)),
                        !.valueFlags[id] = NeedsEscape(text)])

Make(h, item) ==
    IF item.type = "Number" /\ ~item.finite
    THEN Failure("NonFiniteNumber", h)
    ELSE IF item.type = "String"
    THEN MakeString(h, item.text)
    ELSE IF AllocateNodeError(h) # "Ok"
    THEN Failure(AllocateNodeError(h), h)
    ELSE Success(AllocateNode(h, item.type))

(* Mutated forms of Rollback: the string bytes stay taken, or all of them  *)
(* are given back.                                                         *)
RollbackNodes(h, checkpoint) == [h EXCEPT !.count = checkpoint.count]
RollbackStrings(h, checkpoint) ==
    [h EXCEPT !.count = checkpoint.count, !.bytes = 0]

(* Only the counters go back; the abandoned bytes keep their contents.     *)
Rollback(h, checkpoint) ==
    [h EXCEPT !.count = checkpoint.count, !.bytes = checkpoint.bytes]
=============================================================================

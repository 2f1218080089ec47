--------------------------- MODULE SlabSerializer ---------------------------
(***************************************************************************)
(* detail::Serializer (src/src/serialize.cpp), the functions that call it, *)
(* and the print functions of the cJSON layer on top of them.  The client  *)
(* of SlabDom builds and edits the document between the calls.             *)
(*                                                                         *)
(* The walk over the document has no stack: it goes down by first_child,   *)
(* on by next_sibling and back by parent, and counts its depth.  It is     *)
(* made with three writers: one that counts, one that checks the room left *)
(* before every piece, and one that checks nothing and trusts an earlier   *)
(* count.  One step is one turn of a loop of the walk.                     *)
(***************************************************************************)
EXTENDS SlabDom, SlabText

CONSTANTS
    Forms,          \* how the client wants its texts laid out
    Buffers,        \* the spans it offers, by address from the storage's
    MaxCalls        \* bound: how many other calls the client makes

ASSUME SerializerAssumption ==
    /\ Forms \subseteq [pretty : BOOLEAN, indent : Nat]
    /\ Buffers \subseteq [at : Int, size : Nat]
    /\ MaxCalls \in Nat

VARIABLES
    walker,         \* the call that is running, and its walk
    calls           \* how many other calls there were; no code reads it

serializerVars == <<heap, generation, error, result, epoch, stale,
                    walker, calls>>

(* "size" is serialized_size, "whole" serialize, "partial" serialize_partial, *)
(* "print" cjson::print_unformatted; all of them pretty or not.            *)
Calls == {"size", "whole", "partial", "print"}

NoBuffer == [at |-> 0, size |-> 0]

(* pass: the writer in use.  id, depth: where the walk is.  phase: enter   *)
(* the node, or leave it, everything below it being written; or return     *)
(* code.  count: what the first pass has counted.  room, out: what the     *)
(* second may write, and what it has written at the start of the buffer.   *)
Away == [active |-> FALSE, call |-> "size", form |-> Compact,
         buffer |-> NoBuffer, pass |-> "count",
         root |-> Nil, id |-> Nil, depth |-> 0,
         phase |-> "enter", code |-> "Ok",
         count |-> 0, room |-> 0, out |-> <<>>]

-----------------------------------------------------------------------------
(* Writers.  A turn of the walk appends its pieces one by one; a piece is  *)
(* written whole or not at all.                                            *)

Total(pieces) == Len(Seqs!FlattenSeq(pieces))

Fits(pieces) ==
    \/ walker.pass # "check"
    \/ Total(pieces) <= walker.room - Len(walker.out)

(* The pieces before the first that does not fit.                          *)
Fitting(pieces) ==
    LET n == CHOOSE n \in 0 .. Len(pieces) :
                /\ Fits(SubSeq(pieces, 1, n))
                /\ n < Len(pieces) => ~Fits(SubSeq(pieces, 1, n + 1))
    IN SubSeq(pieces, 1, n)

(* Mutated form of Written: the counting writer skips the indentation.     *)
WrittenUnindented(w, pieces) ==
    IF w.pass = "count"
    THEN [w EXCEPT !.count = w.count
             + Total(SelectSeq(pieces, LAMBDA p : p = <<>> \/ p[1] # " "))]
    ELSE [w EXCEPT !.out = w.out \o Seqs!FlattenSeq(pieces)]

Written(w, pieces) ==
    IF w.pass = "count"
    THEN [w EXCEPT !.count = w.count + Total(pieces)]
    ELSE [w EXCEPT !.out = w.out \o Seqs!FlattenSeq(pieces)]

Stop(w, code) == [w EXCEPT !.phase = "return", !.code = code]

(* A turn appends its pieces, then finds a fault or goes on as next.  They *)
(* are bound by a quantifier for TLC to evaluate them once.                *)
Turn(all, fault, next) ==
    \E pieces \in {all} :
        walker' = IF ~Fits(pieces)
                  THEN Stop(Written(walker, Fitting(pieces)),
                            "OutputCapacityExceeded")
                  ELSE IF fault # "Ok"
                  THEN Stop(Written(walker, pieces), fault)
                  ELSE Written(next, pieces)

-----------------------------------------------------------------------------
(* Pieces.                                                                 *)

(* A scan holds the pieces so far and the run of plain bytes since.        *)
Scan(scan, byte) ==
    IF byte \in Escaped
    THEN [pieces |-> scan.pieces \o <<scan.run, Escape(byte)>>, run |-> <<>>]
    ELSE [scan EXCEPT !.run = Append(scan.run, byte)]

Scanned(text) ==
    LET scan[k \in 0 .. Len(text)] ==
            IF k = 0 THEN [pieces |-> <<>>, run |-> <<>>]
            ELSE Scan(scan[k - 1], text[k])
    IN scan[Len(text)]

(* Mutated form of EscapedPieces: what follows the last escape is lost.    *)
EscapedPiecesNoTail(text) == Scanned(text).pieces

(* The runs of plain bytes, with the escapes between them.                 *)
EscapedPieces(text) ==
    LET scanned == Scanned(text)
    IN Append(scanned.pieces, scanned.run)

(* write_string(): the flags decide whether escapes are looked for.        *)
StringPieces(text, flags) ==
    <<<<"\"">>>> \o (IF flags THEN EscapedPieces(text) ELSE <<text>>)
        \o <<<<"\"">>>>

StringFault(text) ==
    IF walker.pass # "trust" /\ ~WellFormed(text) THEN "InvalidUtf8" ELSE "Ok"

(* The end of a line, and the indentation of the next.                     *)
LinePieces(depth) ==
    IF walker.form.pretty
    THEN <<<<"\n">>, Spaces(depth * walker.form.indent)>>
    ELSE <<>>

(* What a child in a container of this type starts with.                   *)
PrefixPieces(type, child) ==
    LET text == ViewString(heap, heap.key[child])
    IN IF type # "Object" THEN <<>>
       ELSE StringPieces(text, heap.keyFlags[child])
                \o <<<<":">>>>
                \o (IF walker.form.pretty THEN <<<<" ">>>> ELSE <<>>)

PrefixFault(type, child) ==
    IF type # "Object" THEN "Ok"
    ELSE StringFault(ViewString(heap, heap.key[child]))

-----------------------------------------------------------------------------
(* The walk.                                                               *)

Type == heap.type[walker.id]
Checked == walker.pass # "trust"
Leave == [walker EXCEPT !.phase = "leave"]

WriteLeaf ==
    LET text == ViewString(heap, heap.value[walker.id])
        fault == IF Type = "String" THEN StringFault(text) ELSE "Ok"
        pieces == IF Type = "String"
                  THEN StringPieces(text, heap.valueFlags[walker.id])
                  ELSE <<<<Type>>>>
    IN /\ walker.phase = "enter"
       /\ Type \notin Containers
       /\ Turn(IF fault # "Ok" THEN <<>> ELSE pieces, fault, Leave)

WriteEmpty ==
    /\ walker.phase = "enter"
    /\ Type \in Containers
    /\ heap.first[walker.id] = Nil
    /\ Turn(<<<<Opening(Type)>>, <<Closing(Type)>>>>, "Ok", Leave)

(* The separators before a child that is entered, and the child entered.   *)
EnterChild(child, broken, before, line, type, next) ==
    LET fault == IF Checked /\ broken THEN "InternalError"
                 ELSE PrefixFault(type, child)
    IN Turn(IF Checked /\ broken THEN before
            ELSE IF fault # "Ok" THEN before \o line
            ELSE before \o line \o PrefixPieces(type, child),
            fault, next)

WriteFirstChild ==
    LET child == heap.first[walker.id]
    IN /\ walker.phase = "enter"
       /\ Type \in Containers
       /\ child # Nil
       /\ EnterChild(child,
                     child \notin Live(heap) \/ heap.parent[child] # walker.id,
                     <<<<Opening(Type)>>>>, LinePieces(walker.depth + 1), Type,
                     [walker EXCEPT !.id = child, !.depth = walker.depth + 1])

Parent == heap.parent[walker.id]

(* A node below the root without a parent, or with a wrong one: only the   *)
(* passes that check see it.                                               *)
Orphaned ==
    /\ Checked
    /\ Parent \notin Live(heap) \/ heap.type[Parent] \notin Containers

WriteNextSibling ==
    LET sibling == heap.next[walker.id]
    IN /\ walker.phase = "leave"
       /\ walker.id # walker.root
       /\ sibling # Nil
       /\ IF Orphaned
          THEN Turn(<<>>, "InternalError", walker)
          ELSE EnterChild(sibling,
                          \/ sibling \notin Live(heap)
                          \/ heap.parent[sibling] # Parent,
                          <<>>, <<<<",">>>> \o LinePieces(walker.depth),
                          heap.type[Parent],
                          [walker EXCEPT !.id = sibling, !.phase = "enter"])

(* Mutated forms of Climbed: the depth stays what it was, and the parent   *)
(* is entered again.                                                       *)
ClimbedAsDeep(w) == [w EXCEPT !.id = Parent]

ClimbedToEnter(w) == [w EXCEPT !.id = Parent, !.depth = w.depth - 1,
                               !.phase = "enter"]

Climbed(w) == [w EXCEPT !.id = Parent, !.depth = w.depth - 1]

WriteEnd ==
    /\ walker.phase = "leave"
    /\ walker.id # walker.root
    /\ heap.next[walker.id] = Nil
    /\ IF Orphaned \/ (walker.form.pretty /\ walker.depth = 0)
       THEN Turn(<<>>, "InternalError", walker)
       ELSE Turn(LinePieces(walker.depth - 1)
                     \o <<<<Closing(heap.type[Parent])>>>>,
                 "Ok", Climbed(walker))

-----------------------------------------------------------------------------
(* The end of a pass.                                                      *)

StoreOverlaps(buffer, size) == Overlaps(buffer.at, size, 0, Capacity)

Return(code) == walker' = Stop(walker, code)

Start(w, item, pass, room) ==
    [w EXCEPT !.active = TRUE, !.pass = pass, !.root = item, !.id = item,
              !.depth = 0, !.phase = "enter", !.room = room]

AtRoot == walker.phase = "leave" /\ walker.id = walker.root

(* serialized_size(), and every pass that writes.                          *)
PassReturns ==
    /\ AtRoot
    /\ walker.pass # "count" \/ walker.call = "size"
    /\ Return("Ok")

WholeError(size, buffer) ==
    IF size > buffer.size THEN "OutputCapacityExceeded"
    ELSE IF StoreOverlaps(buffer, buffer.size) THEN "InvalidArgument"
    ELSE "Ok"

(* Mutated form of WriteWhole: the text is written as far as it goes.      *)
WriteWholeChecked ==
    /\ AtRoot
    /\ walker.pass = "count"
    /\ walker.call = "whole"
    /\ IF StoreOverlaps(walker.buffer, walker.buffer.size)
       THEN Return("InvalidArgument")
       ELSE walker' = Start(walker, walker.root, "check", walker.buffer.size)

(* serialize(): the measured text is written without checks.               *)
WriteWhole ==
    LET code == WholeError(walker.count, walker.buffer)
    IN /\ AtRoot
       /\ walker.pass = "count"
       /\ walker.call = "whole"
       /\ \/ /\ code # "Ok"
             /\ Return(code)
          \/ /\ code = "Ok"
             /\ walker' = Start(walker, walker.root, "trust",
                                walker.buffer.size)

PrintError(size, buffer) ==
    IF buffer.size <= size THEN "OutputCapacityExceeded"
    ELSE IF StoreOverlaps(buffer, size + 1) THEN "InvalidArgument"
    ELSE "Ok"

(* print_unformatted(): the text is written with checks, in as much of the *)
(* buffer as it takes with its terminator.                                 *)
WritePrint ==
    LET code == PrintError(walker.count, walker.buffer)
    IN /\ AtRoot
       /\ walker.pass = "count"
       /\ walker.call = "print"
       /\ \/ /\ code # "Ok"
             /\ Return(code)
          \/ /\ code = "Ok"
             /\ walker' = Start(walker, walker.root, "check",
                                walker.count + 1)

SerializeReturn ==
    /\ walker.phase = "return"
    /\ walker' = Away

SerializeStep ==
    /\ walker.active
    /\ \/ WriteLeaf
       \/ WriteEmpty
       \/ WriteFirstChild
       \/ WriteNextSibling
       \/ WriteEnd
       \/ PassReturns
       \/ WriteWhole
       \/ WritePrint
       \/ SerializeReturn
    /\ result' = IF walker'.active THEN "Ok" ELSE walker.code
    /\ UNCHANGED <<heap, generation, error, epoch, stale, calls>>

-----------------------------------------------------------------------------
(* The calls.                                                              *)

Serialize(call, item, form, buffer) ==
    LET refused == IF /\ call = "partial" /\ item.slab # "none"
                      /\ StoreOverlaps(buffer, buffer.size)
                   THEN "InvalidArgument"
                   ELSE IF ~Accepted(item) THEN "InvalidHandle"
                   ELSE "Ok"
        asked == [Away EXCEPT !.call = call, !.form = form, !.buffer = buffer]
    IN /\ ~walker.active
       /\ \/ /\ refused # "Ok"
             /\ result' = refused
             /\ UNCHANGED walker
          \/ /\ refused = "Ok"
             /\ walker' = IF call = "partial"
                          THEN Start(asked, item.id, "check", buffer.size)
                          ELSE Start(asked, item.id, "count", 0)
             /\ result' = "Ok"
       /\ UNCHANGED <<heap, generation, error, epoch, stale, calls>>

(* Another call of the client, as far as it succeeds: those that fail      *)
(* leave the document as it is (FailureAtomic of SlabDom).                 *)
Client ==
    /\ ~walker.active
    /\ calls < MaxCalls
    /\ calls' = calls + 1
    /\ Next
    /\ result' = "Ok"
    /\ UNCHANGED walker

SerializerInit ==
    /\ Init
    /\ walker = Away
    /\ calls = 0

SerializerNext ==
    \/ Client
    \/ \E item \in Held \cup {NullValue}, form \in Forms :
          Serialize("size", item, form, NoBuffer)
    \/ \E call \in Calls \ {"size"}, item \in Held \cup {NullValue},
          form \in Forms, buffer \in Buffers :
             Serialize(call, item, form, buffer)
    \/ SerializeStep

SerializerSpec == SerializerInit /\ [][SerializerNext]_serializerVars

-----------------------------------------------------------------------------
(* Invariants, in the middle of a walk too.                                *)

(* The walk stays on the nodes below its root, although two of its three   *)
(* links lead out of there, and counts its depth right, so that --depth    *)
(* does not wrap: the checks that the counting pass makes never fail, and  *)
(* the pass that makes none follows no link that is not there.             *)
WalkSafe ==
    walker.active =>
        /\ walker.id \in Below(heap, walker.root)
        /\ Cardinality(Ancestors(heap, walker.id))
               = Cardinality(Ancestors(heap, walker.root)) + walker.depth
        /\ walker.code # "InternalError"

(* The bytes written, with print's terminator, lie in the buffer, and none *)
(* of them in the storage: the writer that checks nothing needs no check.  *)
End == Len(walker.out) + (IF walker.call = "print" /\ walker.pass = "check"
                          THEN 1 ELSE 0)

WritesInBuffer ==
    /\ End > 0 => End <= walker.buffer.size
    /\ \A k \in 0 .. End - 1 : walker.buffer.at + k \notin Addresses

(* Whatever has been written is how the text of the document begins, and   *)
(* no more is counted than it has: a walk that goes round, or visits a     *)
(* node twice or not at all, is seen before it ends, if it ever does.      *)
Text == Render(heap, walker.root, walker.form)

TextSoFar ==
    walker.active =>
        /\ Seqs!IsPrefix(walker.out, Text)
        /\ walker.count <= Len(Text)

-----------------------------------------------------------------------------
(* Action properties.                                                      *)

Returns == walker.active /\ ~walker'.active

(* A call that succeeds has written the text of the document, or counted   *)
(* it; one that fails had no room for it or shared bytes with the slab.    *)
OutputIsText ==
    [][Returns =>
          IF walker.code = "Ok"
          THEN /\ walker.call # "partial" => walker.count = Len(Text)
               /\ walker.call # "size" => walker.out = Text
          ELSE \/ /\ walker.code = "OutputCapacityExceeded"
                  /\ walker.buffer.size < Len(Text)
                        + (IF walker.call = "print" THEN 1 ELSE 0)
               \/ /\ walker.code = "InvalidArgument"
                  /\ \E a \in Addresses :
                        a - walker.buffer.at \in 0 .. walker.buffer.size - 1
                           ]_serializerVars

(* README.md:159: serialize() "is transactional": when it or a print       *)
(* function fails, the buffer is as it was.                                *)
WholeOrNothing ==
    [][Returns /\ walker.code # "Ok" =>
          walker.call = "partial" \/ walker.out = <<>>]_serializerVars
=============================================================================

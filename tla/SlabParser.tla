----------------------------- MODULE SlabParser -----------------------------
(***************************************************************************)
(* detail::Parser (src/src/parse.cpp): recursive descent over a JSON text  *)
(* that puts a document into the slab as it reads.  The client of SlabDom  *)
(* calls parse() between its other calls.                                  *)
(*                                                                         *)
(* The recursion is a stack of the containers that are open.  One step is  *)
(* one lexeme: the parser looks at the next one and takes it, or fails.    *)
(* The text is not fixed beforehand: what comes next is chosen when it is  *)
(* looked at, so that every text is read.  White space between lexemes is  *)
(* skipped wherever the code looks at one, and is left out.                *)
(*                                                                         *)
(* A node is allocated before the string it holds and the key of a member  *)
(* before its value, and a container is linked to its parent only when it  *)
(* is closed: until parse() returns, the storage holds loose ends.         *)
(***************************************************************************)
EXTENDS SlabDom, SlabText

Sets == INSTANCE FiniteSetsExt

CONSTANTS
    MaxParserDepth, \* kMaxParserDepth
    MaxDepths,      \* the depths the client asks for
    MaxCalls        \* bound: how many calls the client makes

ASSUME ParserAssumption ==
    /\ MaxParserDepth \in Nat
    /\ MaxDepths \subseteq Nat
    /\ MaxCalls \in Nat

VARIABLES
    parser,         \* the state of the Parser object and of its recursion
    read,           \* the characters of the lexemes taken; no code reads it
    calls           \* how many calls there have been; no code reads it

parserVars == <<heap, generation, error, result, epoch, stale,
                parser, read, calls>>

(* Where the recursion is: what the parser is about to look at.            *)
Places == {"value",     \* parse_value() must find a value
           "element",   \* after "[": a value or "]"
           "member",    \* after "{": a key or "}"
           "key",       \* after "," in an object: a key
           "colon",     \* after a key
           "next",      \* after an element or a member: "," or the end
           "trailing"}  \* after the root

(* An open container, and the key just read if it is for its next member.  *)
Frames == [id : Ids, key : StringRefs, flags : BOOLEAN]

Idle == [active |-> FALSE, maxDepth |-> 0, trailing |-> TRUE,
         stack |-> <<>>, at |-> "value", root |-> Nil,
         start |-> [count |-> 0, bytes |-> 0]]

-----------------------------------------------------------------------------
(* Lexemes.  What is wrong with a literal, a number or a string is the     *)
(* error code that reading it fails with.                                  *)

Scalars == {"Null", "Bool", "Number"}
Punctuation == {"[", "]", "{", "}", ",", ":"}
StringFaults == {"ParseInvalidEscape", "ParseInvalidUnicodeEscape",
                 "ParseUnexpectedEnd"}
LiteralFaults == {"ParseUnexpectedToken", "ParseUnexpectedEnd"}

(* "?" is a character no value starts with; "Space" is white space, "End"  *)
(* nothing, up to the end of the text.                                     *)
Lexemes ==
    [kind : Punctuation \cup {"?", "Space", "End"}, text : {<<>>},
     fault : {"Ok"}]
    \cup [kind : Kinds \cap Scalars, text : {<<>>}, fault : {"Ok"}]
    \cup [kind : Kinds \cap {"Null", "Bool"}, text : {<<>>},
          fault : LiteralFaults]
    \cup [kind : Kinds \cap {"Number"}, text : {<<>>},
          fault : {"ParseInvalidNumber"}]
    \cup [kind : {"String"}, text : Texts, fault : {"Ok"}]
    \cup [kind : {"String"}, text : {<<>>}, fault : StringFaults]

Characters(lexeme) ==
    IF lexeme.kind = "String" THEN Quoted(lexeme.text)
    ELSE IF lexeme.kind \in {"Space", "End"} THEN <<>>
    ELSE <<lexeme.kind>>

-----------------------------------------------------------------------------
(* How a lexeme is answered.                                               *)

(* Mutated form of Fail: everything the slab holds is given back.          *)
FailToNothing(code, h) ==
    /\ heap' = [h EXCEPT !.count = 0, !.bytes = 0]
    /\ parser' = Idle
    /\ result' = code

(* Every error ends the recursion, and run() rolls back.                   *)
Fail(code, h) ==
    /\ heap' = Rollback(h, parser.start)
    /\ parser' = Idle
    /\ result' = code

GoOnAt(place, h, stack) ==
    /\ heap' = h
    /\ parser' = [parser EXCEPT !.at = place, !.stack = stack]
    /\ UNCHANGED result

(* Mutated form of Deliver: the key of a member stays unused.              *)
DeliverUnkeyed(id, h, stack) ==
    IF stack = <<>>
    THEN /\ heap' = h
         /\ parser' = [parser EXCEPT !.at = "trailing", !.stack = stack,
                                     !.root = id]
         /\ UNCHANGED result
    ELSE GoOnAt("next", AppendChild(h, Seqs!Last(stack).id, id),
                [stack EXCEPT ![Len(stack)].key = NoRef])

(* A value is complete: it is the root, or goes into the innermost open    *)
(* container, as a member under the key that was read before it.           *)
Deliver(id, h, stack) ==
    IF stack = <<>>
    THEN /\ heap' = h
         /\ parser' = [parser EXCEPT !.at = "trailing", !.stack = stack,
                                     !.root = id]
         /\ UNCHANGED result
    ELSE LET top == Seqs!Last(stack)
             keyed == IF h.type[top.id] = "Object"
                      THEN SetKey(h, id, top.key, top.flags)
                      ELSE h
         IN GoOnAt("next", AppendChild(keyed, top.id, id),
                   [stack EXCEPT ![Len(stack)].key = NoRef])

Top == Seqs!Last(parser.stack)
TopType == heap.type[Top.id]
AtValue == parser.at \in {"value", "element"}

-----------------------------------------------------------------------------
(* Values and keys.                                                        *)

ParseScalar(lexeme) ==
    LET made == Make(heap, [type |-> lexeme.kind, text |-> <<>>,
                            finite |-> TRUE])
    IN /\ AtValue
       /\ lexeme.kind \in Scalars
       /\ \/ /\ lexeme.fault # "Ok"
             /\ Fail(lexeme.fault, heap)
          \/ /\ lexeme.fault = "Ok"
             /\ made.code # "Ok"
             /\ Fail(made.code, made.heap)
          \/ /\ lexeme.fault = "Ok"
             /\ made.code = "Ok"
             /\ Deliver(heap.count, made.heap, parser.stack)

(* scan_string(): nothing is stored yet.                                   *)
ScanError(lexeme) ==
    IF lexeme.fault # "Ok" THEN lexeme.fault
    ELSE IF ~WellFormed(lexeme.text) THEN "ParseInvalidString"
    ELSE IF Len(lexeme.text) > U16Max THEN "StringCapacityExceeded"
    ELSE "Ok"

(* Mutated form of ParseText: bytes are taken for the text as it is        *)
(* written, and not as it is stored.                                       *)
ParseTextRaw(h, lexeme) ==
    LET raw == Len(Quoted(lexeme.text)) - 2
    IN IF ScanError(lexeme) # "Ok"
       THEN Failure(ScanError(lexeme), h)
       ELSE IF AllocateStringError(h, raw) # "Ok"
       THEN Failure(AllocateStringError(h, raw), h)
       ELSE Success([CopyString(h, lexeme.text) EXCEPT !.bytes = h.bytes + raw])

(* parse_string().                                                         *)
ParseText(h, lexeme) ==
    IF ScanError(lexeme) # "Ok"
    THEN Failure(ScanError(lexeme), h)
    ELSE IF AllocateStringError(h, Len(lexeme.text)) # "Ok"
    THEN Failure(AllocateStringError(h, Len(lexeme.text)), h)
    ELSE Success(CopyString(h, lexeme.text))

(* Mutated form of ParseString: the node does not learn its flags.         *)
ParseStringNoFlags(lexeme) ==
    LET id == heap.count
        node == AllocateNode(heap, "String")
        parsed == ParseText(node, lexeme)
    IN /\ AtValue
       /\ lexeme.kind = "String"
       /\ IF AllocateNodeError(heap) # "Ok"
          THEN Fail(AllocateNodeError(heap), heap)
          ELSE IF parsed.code # "Ok"
          THEN Fail(parsed.code, parsed.heap)
          ELSE Deliver(id, [parsed.heap EXCEPT
                               !.value[id] = NextRef(node, Len(lexeme.text))],
                       parser.stack)

ParseString(lexeme) ==
    LET id == heap.count
        node == AllocateNode(heap, "String")
        parsed == ParseText(node, lexeme)
    IN /\ AtValue
       /\ lexeme.kind = "String"
       /\ \/ /\ AllocateNodeError(heap) # "Ok"
             /\ Fail(AllocateNodeError(heap), heap)
          \/ /\ AllocateNodeError(heap) = "Ok"
             /\ parsed.code # "Ok"
             /\ Fail(parsed.code, parsed.heap)
          \/ /\ AllocateNodeError(heap) = "Ok"
             /\ parsed.code = "Ok"
             /\ Deliver(id,
                        [parsed.heap EXCEPT
                            !.value[id] = NextRef(node, Len(lexeme.text)),
                            !.valueFlags[id] = NeedsEscape(lexeme.text)],
                        parser.stack)

ParseKey(lexeme) ==
    LET parsed == ParseText(heap, lexeme)
    IN /\ parser.at \in {"member", "key"}
       /\ lexeme.kind = "String"
       /\ \/ /\ parsed.code # "Ok"
             /\ Fail(parsed.code, parsed.heap)
          \/ /\ parsed.code = "Ok"
             /\ GoOnAt("colon", parsed.heap,
                       [parser.stack EXCEPT
                           ![Len(parser.stack)].key =
                               NextRef(heap, Len(lexeme.text)),
                           ![Len(parser.stack)].flags =
                               NeedsEscape(lexeme.text)])

-----------------------------------------------------------------------------
(* Containers.                                                             *)

OpenFrame(id) == [id |-> id, key |-> NoRef, flags |-> FALSE]

(* Mutated form of TooDeep: the depth of the children is not counted.      *)
DeeperThanMax == Len(parser.stack) > parser.maxDepth

TooDeep == Len(parser.stack) >= parser.maxDepth

(* parse_array() and parse_object() up to what they hold.                  *)
ParseOpen(lexeme) ==
    LET type == IF lexeme.kind = "[" THEN "Array" ELSE "Object"
        made == Make(heap, [type |-> type])
    IN /\ AtValue
       /\ lexeme.kind \in {"[", "{"}
       /\ \/ /\ TooDeep
             /\ Fail("ParserDepthExceeded", heap)
          \/ /\ ~TooDeep
             /\ made.code # "Ok"
             /\ Fail(made.code, made.heap)
          \/ /\ ~TooDeep
             /\ made.code = "Ok"
             /\ GoOnAt(IF type = "Array" THEN "element" ELSE "member",
                       made.heap, Append(parser.stack, OpenFrame(heap.count)))

(* The container goes where it belongs.                                    *)
ParseClose(lexeme) ==
    /\ parser.at \in {"element", "member", "next"}
    /\ lexeme.kind = Closing(TopType)
    /\ Deliver(Top.id, heap, Seqs!Front(parser.stack))

ParseComma(lexeme) ==
    /\ parser.at = "next"
    /\ lexeme.kind = ","
    /\ GoOnAt(IF TopType = "Array" THEN "value" ELSE "key",
              heap, parser.stack)

ParseColon(lexeme) ==
    /\ parser.at = "colon"
    /\ lexeme.kind = ":"
    /\ GoOnAt("value", heap, parser.stack)

-----------------------------------------------------------------------------
(* The end, and what does not belong where it stands.                      *)

AtEnd(lexeme) ==
    lexeme.kind = "End" \/ (lexeme.kind = "Space" /\ parser.trailing)

ParseReturn(lexeme) ==
    /\ parser.at = "trailing"
    /\ AtEnd(lexeme)
    /\ heap' = heap
    /\ parser' = Idle
    /\ result' = "Ok"

Welcome(lexeme) ==
    CASE parser.at = "value" ->
             lexeme.kind \in Scalars \cup {"String", "[", "{"}
      [] parser.at = "element" ->
             lexeme.kind \in Scalars \cup {"String", "[", "{", "]"}
      [] parser.at = "member" -> lexeme.kind \in {"String", "}"}
      [] parser.at = "key" -> lexeme.kind = "String"
      [] parser.at = "colon" -> lexeme.kind = ":"
      [] parser.at = "next" -> lexeme.kind \in {",", Closing(TopType)}
      [] parser.at = "trailing" -> AtEnd(lexeme)

ParseRefuse(lexeme) ==
    /\ ~Welcome(lexeme)
    /\ Fail(IF parser.at = "trailing" THEN "ParseTrailingCharacters"
            ELSE IF lexeme.kind \in {"Space", "End"} THEN "ParseUnexpectedEnd"
            ELSE "ParseUnexpectedToken", heap)

ParseStep(lexeme) ==
    /\ parser.active
    /\ \/ ParseScalar(lexeme)
       \/ ParseString(lexeme)
       \/ ParseOpen(lexeme)
       \/ ParseClose(lexeme)
       \/ ParseKey(lexeme)
       \/ ParseColon(lexeme)
       \/ ParseComma(lexeme)
       \/ ParseReturn(lexeme)
       \/ ParseRefuse(lexeme)
    /\ read' = IF parser'.active THEN read \o Characters(lexeme) ELSE <<>>
    /\ UNCHANGED <<generation, error, epoch, stale, calls>>

-----------------------------------------------------------------------------
(* parse(), and the calls around it.                                       *)

Parse(maxDepth, trailing, overlaps) ==
    LET refused == ~Valid \/ maxDepth > MaxParserDepth \/ overlaps
    IN /\ ~parser.active
       /\ calls < MaxCalls
       /\ calls' = calls + 1
       /\ \/ /\ refused
             /\ result' = "InvalidArgument"
             /\ UNCHANGED parser
          \/ /\ ~refused
             /\ parser' = [Idle EXCEPT !.active = TRUE,
                                       !.maxDepth = maxDepth,
                                       !.trailing = trailing,
                                       !.start = [count |-> heap.count,
                                                  bytes |-> heap.bytes]]
             /\ result' = "Ok"
       /\ UNCHANGED <<heap, generation, error, epoch, stale, read>>

(* Another call of the client, as far as it succeeds: those that fail      *)
(* leave the document as it is (FailureAtomic of SlabDom).                 *)
Client ==
    /\ ~parser.active
    /\ calls < MaxCalls
    /\ calls' = calls + 1
    /\ Next
    /\ result' = "Ok"
    /\ UNCHANGED <<parser, read>>

(* The client has made its calls: it may stop, the parser may not.         *)
Rest ==
    /\ ~parser.active
    /\ calls = MaxCalls
    /\ UNCHANGED parserVars

ParserInit ==
    /\ Init
    /\ parser = Idle
    /\ read = <<>>
    /\ calls = 0

ParserNext ==
    \/ Client
    \/ Rest
    \/ \E maxDepth \in MaxDepths, trailing, overlaps \in BOOLEAN :
          Parse(maxDepth, trailing, overlaps)
    \/ \E lexeme \in Lexemes : ParseStep(lexeme)

ParserSpec == ParserInit /\ [][ParserNext]_parserVars

-----------------------------------------------------------------------------
(* Invariants, in the middle of a parse too.                               *)

(* The strings that are in use or about to be: the open containers hold    *)
(* the keys of members whose value is still being read.                    *)
Pending == {k \in DOMAIN parser.stack : parser.stack[k].key # NoRef}

(* After every lexeme the storage is laid out, the links agree, and the    *)
(* loose ends are loose: every open container is a node of its own that is *)
(* linked to nothing, and no key that waits for its value shares a byte    *)
(* with a string or with another such key.                                 *)
ParsingSafe ==
    /\ ForestOK(heap) /\ LayoutOK(heap) /\ StringsDisjoint(heap)
    /\ \A k \in DOMAIN parser.stack :
          /\ parser.stack[k].id \in Live(heap)
          /\ heap.type[parser.stack[k].id] \in Containers
          /\ heap.parent[parser.stack[k].id] = Nil
          /\ \A l \in DOMAIN parser.stack :
                parser.stack[l].id = parser.stack[k].id => l = k
    /\ \A k \in Pending :
          /\ RefOK(heap, parser.stack[k].key)
          /\ \A i \in Live(heap) :
                /\ Disjoint(parser.stack[k].key, heap.key[i])
                /\ Disjoint(parser.stack[k].key, heap.value[i])
          /\ \A l \in Pending \ {k} :
                Disjoint(parser.stack[k].key, parser.stack[l].key)

-----------------------------------------------------------------------------
(* Action properties.                                                      *)

Returns(code) == parser.active /\ ~parser'.active /\ result' = code

(* No lexeme touches a node or a text that was there before the call, and  *)
(* a parse that fails, wherever it does, gives back all that it took.      *)
ParseKeepsDocument ==
    [][parser.active =>
          /\ KeepsBefore(parser.start, heap, heap')
          /\ ~parser'.active /\ result' # "Ok" =>
                GivesBack(parser.start, heap')]_parserVars

(* What parse() returns has been read: written out again, it is the text.  *)
ParsedAsRead ==
    [][Returns("Ok") => Render(heap', parser.root, Compact) = read]_parserVars

(* The nodes that are new when parse() returns are those of the document.  *)
NodesReturned ==
    Below(heap', parser.root) = Live(heap') \ 0 .. parser.start.count - 1

(* Every new byte is in one of its texts.                                  *)
BytesReturned ==
    heap'.bytes - parser.start.bytes =
       Sets!MapThenSumSet(LAMBDA i : heap'.key[i].len + heap'.value[i].len,
                          Live(heap') \ 0 .. parser.start.count - 1)

(* parse() takes room for what it returns and for nothing else.            *)
NothingLost ==
    [][Returns("Ok") => NodesReturned /\ BytesReturned]_parserVars

(* No document nests deeper than the caller allowed, whatever is nested in *)
(* what: the recursion is at most one call deeper than its containers.     *)
DepthBounded ==
    [][Returns("Ok") =>
          \A i \in Below(heap', parser.root) :
              Cardinality({a \in Ancestors(heap', i) :
                              heap'.type[a] \in Containers})
                  <= parser.maxDepth]_parserVars
=============================================================================

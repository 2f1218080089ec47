# slabjson: a TLA+ verification project

slabjson is a C++20 JSON library that never allocates: a document lives in a
span of bytes the caller provides, the *slab*. Nodes are placed upwards from the
start of the bytes and strings downwards from their end; nodes refer to each
other and to their texts by 16-bit ids and offsets. The library is
single-threaded, so what is hard about it is not concurrency. It is that one
small piece of storage is shared by everything, that calls may fail half way and
must then leave no trace, that a document is edited by relinking nodes that
clients keep handles to, and that nothing is freed before `reset()`.

Everything here is translated from the sources (`src/src`, `src/include`);
`PROJECT.json` gives, for every definition that models code, the lines it
stands for.

## The system: inventory

| Component | State | Operations | Hard behaviours | What makes it correct | Here |
|---|---|---|---|---|---|
| Slab storage (`slab.cpp`) | the bytes, `node_count_`, `string_bytes_used_`, `generation_`, `error_` | `make_*`, `allocate_*`, `checkpoint`/`rollback`, `reset`, `clear_error` | running out of room between two allocations, 16-bit casts, wrap of the generation | nodes and strings never overlap; a failing call takes nothing | modelled |
| Document links and handles (`slab.cpp`, `value.cpp`) | `parent`, `first_child`, `last_child`, `next_sibling` of every node; a handle is (slab, id, generation) | `node_for`, `validate_attachment`, `append_child_unchecked` | cycles, re-attachment, stale and foreign handles | a forest whose four link fields agree; a stale handle is rejected | modelled |
| Object and Array (`object.cpp`, `array.cpp`, `container_builder.hpp`) | only handles | `add` in all its forms, `remove`, `find`, `at`, `size` | sticky first error, roll back of a child that was made but could not be attached, duplicate keys | atomic failure, order of children, first match wins | modelled |
| cJSON item operations (`cjson_compat.cpp`) | none | `create_*`, `add_item_*`, `detach_*`, `delete_*`, `delete_all` | errors that are not recorded, keys that match up to ASCII case | as for Object and Array | modelled |
| cJSON duplicate (`cjson_compat.cpp`) | two cursors and a checkpoint, while it runs | `duplicate` | a copy inside the slab it reads, failure in the middle, termination without a stack | the copy equals its source, or nothing has happened | modelled |
| Parser (`parse.cpp`) | position, the recursion, a checkpoint | `parse` | failure at any depth, keys and nodes that wait for what follows, decoded length against decoded bytes, depth limit | a failed parse takes nothing; a parsed document is its text | modelled |
| Serializer (`serialize.cpp`) | current node, depth, writer | `serialized_size*`, `serialize*` | a walk without a stack; a counting pass, then a pass that checks nothing | the passes agree; output is within bounds, and whole or absent | modelled |
| cJSON printing (`cjson_compat.cpp`) | none | `print_*` | terminator after the text | text and terminator fit | modelled |
| Iterators (`array.cpp`, `object.cpp`) | (slab, id, generation) | `++`, `*` | held over edits and a reset | every child once, no stale handle | modelled |
| UTF-8 (`utf8.hpp`) | none | `utf8_sequence_length`, `invalid_utf8_offset` | boundaries of the second byte | accepts exactly well-formed text | modelled |
| Value accessors (`value.cpp`) | none | `as_int64`, `as_uint64`, `as_number` | widths of integers | the exact value or none | modelled |
| StaticSlab, Result, Error | storage of the object; error code and offset | construction | C++ object lifetime | | not modelled, except the codes |

Calls go from the containers, the cJSON functions, the parser and the serializer
down to `Slab`; the slab calls nobody. All state is in the slab, so that two handles interact exactly
through it: through the links, through the free room, and through the recorded
error.

## Modules

**`SlabHeap`** is the storage as a record, a *heap*, and the operations of the
code on it as operators. `h.type`, `h.parent`, ... are the fields of
`Slab::Node`, one function per field over the node slots that fit; `h.count` and
`h.bytes` are `node_count_` and `string_bytes_used_`; `h.mem` holds the bytes of
the stored texts. The bytes of a node are `Junk`, so that a string which
overlaps a node is seen to read something that is no text. An operation that
can fail yields an error code and the heap it leaves, which is not always the
one it found: the code, too, sometimes returns an error after it has changed
something, and relies on its caller to roll back.

**`SlabTree`** adds the links: walks, `validate_attachment`,
`append_child_unchecked`, looking a child up, and unlinking it (`unlink_child`
of the cJSON layer and the identical code inside `Object::remove`). A walk is
the least set that holds its start and is closed under a link; that the loops of
the code end is a property of the links, stated as acyclicity. The module ends
with the predicates that make a heap a document.

**`SlabDom`** is the state machine: a client of one slab. One action is one
call, with everything it does: `MakeItem`, `Add` (`Object::add(key, Value)` and
`Array::add(Value)`), `BuildElement` and `BuildMember` (the adders that make
their child, all of them through `ContainerBuilder::add`), `AddNullPointer`,
`Remove`, `CjsonDetachFromObject`, `CjsonDetachFromArray`, `CjsonAddItem`,
`ClearError`, `Reset`. The client holds a handle to every node of the current
document, to some nodes of discarded ones, a handle of another slab, and the
null value that dereferencing an end iterator yields. Handles carry the number
of resets before they were made (`epoch`); no action reads it.

**`SlabCloner`** composes that client with `duplicate()`: one action for what
precedes the loop, and one step for every turn of it, `CloneFirstChild`,
`CloneNextSibling`, `CloneClimb` and `CloneReturn`. The destination is the slab
of the source or a second one, which successive duplicates fill.

**`Dom`** is the abstract document: a forest of nodes, each with a type, a text, a
key, a parent and the set of its siblings that come `after` it, and the five
things that can happen to it: `Create`, `Attach`, `CreateAttached`, `Detach`,
`Discard`. There is no storage in it, no links, handles or errors.
**`SlabImplementsDom`** reads such a document off a heap, `after` being what the
walk along `next_sibling` reaches, and texts through their references, and states
that `SlabDom` implements `Dom` under that mapping (`ImplementsDom`). The order is a
relation instead of a sequence of children so that no recursion is
needed to read it, and the refinement can be proved. The abstract document is a function of the
heap, so the property looks only at steps that change the heap; the others are
stutters.

**`SlabText`** says what the text of a document is (`Render`), from the tree
alone, as a sequence of characters: the bytes of strings, escapes, punctuation,
line ends and indentation, and one character for a whole null, bool or number.
The two following modules are held against it.

**`SlabParser`** composes the client of `SlabDom` with `parse()`. The recursion is
a stack of open containers, and a step takes one lexeme: `ParseScalar`,
`ParseString`, `ParseKey`, `ParseOpen`, `ParseClose`, `ParseComma`,
`ParseColon`, `ParseReturn`, and `ParseRefuse` for what does not belong where it
stands. The text is chosen lexeme by lexeme as the parser looks at it, so every
text is read. A lexeme of a string is the text it stands for or the error it
fails with; `read` collects the characters of what was taken, for the properties.

**`SlabSerializer`** composes the client with the serializer and the print
functions. One step is one turn of the walk: `WriteLeaf`, `WriteEmpty`,
`WriteFirstChild`, `WriteNextSibling`, `WriteEnd`; `PassReturns`, `WriteWhole`
and `WritePrint` are what follows a pass. The writer is the `pass`: `count`,
`check` or `trust`. What a turn appends is a list of pieces, each written whole
or not at all, as `append()` does. Storage and buffers are spans of one address
space.

**`SlabIterator`** composes the client with an iterator it holds: `Begin`,
`Advance`, and `Client`, which edits the document meanwhile. Only calls that
succeed are made; of the functions that remove a child only what they do to it
is kept (`Detach`).

**`StringCodec`** models what is inside a string lexeme, byte by byte:
`utf8_sequence_length`, `scan_string`, `decode_string`, `write_string`. The loops
are recursive functions of their local variables. What it is judged by is
defined from UTF-8 and JSON (`IsUtf8`, `Meaning`), not from the code.
**`JsonNumbers`** does the same for `parse_number`, `make_number`, the integer
accessors and `write_number`, judged by the grammar of RFC 8259. The conversions
between digits and numbers (`from_chars`, `to_chars`) are the standard library's;
they are modelled by what the code relies on, with doubles as decimal numbers
of a limited order of magnitude, which do not round.

The theorems are in **`SlabTree_proofs`** (lemmas on links and layout, and on
what one operation does to texts, keys and the order of children),
**`SlabText_proofs`** (induction over data, and lemmas on the text of a document),
**`SlabDom_proofs`** (`SlabDom`, and that it implements `Dom`),
**`SlabParser_proofs`**, **`SlabIterator_proofs`**, **`SlabSerializer_proofs`**,
**`SlabCloner_proofs`** and **`StringCodec_proofs`**.
The modules that begin with `MC` give the constants for TLC.

What is abstracted: outside `StringCodec` a text is a short sequence of bytes of
which some need a JSON escape and some occur in no well-formed UTF-8; outside
`JsonNumbers` numbers are finite or not; booleans have no value; error offsets and
white space between lexemes are left out. Failing calls are kept in `SlabDom` (a
failing call changes the recorded error and may leave bytes behind in the
unallocated part). Where its client is composed with something else it only
makes calls that succeed: `FailureAtomic` says the others do not change the
document. `duplicate()`, `parse()` and the serializer fail in every way they can.

## Runs

A node takes 2 bytes (24 in the code), in `serialize` 7, so that the
storage is larger than the buffers. That matters to none of the properties except
through how many nodes and bytes fit, and lets storage end in a byte no node
fits. Deadlock checking is on in all runs but `codec` and `numbers`, where the
only steps make a text longer and stop at the bound.

| Run | Instance | Checks |
|---|---|---|
| `tree` | 4 arrays, 8 bytes | `ForestSafe`, `ChildrenSafe`, `OrderStable`, `ImplementsDom` |
| `members` | 3 objects and arrays, 7 bytes, of which keys take what nodes leave; keys empty, `a`, `A`; storage of the largest size, equal to the id that means none | `KeysOnMembers`, `ImplementsDom` |
| `strings` | objects and strings in 7 bytes; texts empty, plain, needing an escape, ill-formed, too long for the length field | `TypeOK`, `LayoutSafe`, `StringsApart`, `StoredTextOK`, `NoInternalError`, `ContentStable`, `FailureAtomic` |
| `handles` | 2 nodes, a generation counter with 2 values, 3 resets, one handle kept over each | `StaleRejected`, `StickyError` |
| `generation_wrap` | the same | `ResetInvalidatesHandles`, violated |
| `clone_tree` | 4 arrays in either slab, 2 duplicates | `ClonedForestSafe`, `NoInternalError`, `DuplicateReturns` |
| `clone_text` | objects and strings in 10 bytes of either slab, one duplicate | `ClonerTypeOK`, `ClonedTextOK`, `CopyFaithful`, `DuplicateKeepsDocument` |
| `parse` | 10 bytes; nulls, which stand for all scalars, arrays, objects and strings; texts that need an escape, are ill-formed or too long; depths 0, 2 and one too many; 2 calls, of which any may be a parse | `ParsingSafe`, `StoredTextOK`, `ParseKeepsDocument`, `ParsedAsRead`, `NothingLost`, `DepthBounded` |
| `serialize` | up to 4 nodes and 3 texts made by 4 calls, every node as root; compact and pretty; three buffers | `WalkSafe`, `WritesInBuffer`, `TextSoFar`, `OutputIsText`, `WholeOrNothing` |
| `codec` | strings of 3 units out of 31, texts of 4 bytes out of 17, strings of at most 10 bytes | `Utf8Exact`, `StringMeans`, `ScanForetells`, `WrittenReads` |
| `numbers` | integers of 5 bits, doubles to 10^4; texts of 5 characters | `NumberExact`, `NumberSurvives` |
| `iterate` | 4 arrays, 8 bytes, one reset | `WalkExact` |

Why the bounds are enough. Four nodes show every position of a child in a list
(first, middle, last, only), a cycle over three generations, and moving a
subtree between containers. Seven bytes are too few for three nodes with keys
and values, so that both of the checks for room fail in every order, also between the
node of a child, its text and its key. Two values of the generation counter and
three resets let it come round once with a reset to spare. In the cloner's runs
the second slab starts empty and is filled by earlier copies, so that a copy
fails at its first node, in the middle and at its last text.
In `members` three nodes and the bytes of one key fit, so that there are
two members of one object with equal keys, and a member that moves to an array or
to the other object. In `parse` four scalars fit, or three nodes and the texts
of an object in an array, also beside a document that was there before; a parse fails
at its first node, its last text, and at every closing bracket. In `serialize`
the three buffers lie before the storage and end where it begins, begin before it
and share its first byte, and begin where it ends; the longest texts do not fit
any. The units of `codec` are the characters on either side of each comparison in
the code, raw and as escapes, with halves of surrogate pairs in both positions;
its bytes are the ends of each range of UTF-8, and four of them make the longest
sequence. In `numbers` five characters are enough for a sign, two digits next to
each limit of five bits, a fraction, and an exponent with a sign; widths are
assumptions of the module and the fixed form of `%g` begins at a smaller power of ten.
`ClonerTypeOK` also says that the cursors `duplicate()` follows with
`node_at_unchecked()`, which checks nothing, are nodes in use.

Bounds on unbounded things: `MaxResets`, `MaxKept` (handles kept over a reset),
`MaxDuplicates`, `MaxCalls` (calls of the client around a parse or a
serialization; `Rest` in `SlabParser` says that a client that has used them up may stop,
which a parser never does), and the lengths of texts in `codec` and `numbers`.
Nothing else needs one: nodes and strings run out of room, and so do lexemes,
because all but closing brackets and separators take some.

**Fairness.** `SlabDom` claims nothing of liveness and has none. `ClonerSpec`
has weak fairness of `CloneStep`: `duplicate()` is straight-line code that,
once called, goes on until it returns. Nothing is assumed of the client. The
parser and the serializer have no fairness and no liveness property. A parse takes a
lexeme of a finite text in every step. That the serializer's walk, which has no stack
and no count, does not go round is the safety property `TextSoFar`: it never counts
or writes more than the text of the document, and every turn but the last of a pass
adds to it or climbs.

**What the properties of the compositions say.** `ImplementsDom`: each call is a step of the
abstract document or none, which contains that a removal takes the first of
the members with equal keys and that nothing else of the document moves.
`ParsingSafe`: after every lexeme the storage is laid out and linked, open containers
are roots of their own, and keys that wait for their values share no byte with
anything. `ParseKeepsDocument`: a failing parse gives back all that it took and no
parse touches what was there before. `ParsedAsRead` and `NothingLost`: what a
successful one returns reads as its text, and it has taken no other node or byte. `DepthBounded`: it nests no deeper than the
caller allowed.
`WalkSafe`: the serializer's walk stays below its root and counts its depth right,
so that the checks of the counting pass never fail and the pass without checks
needs none. `WritesInBuffer`, `OutputIsText`, `WholeOrNothing`: what is written, with
print's terminator, is in the buffer and not in the storage, is the text of the
document if the call succeeds, and is nothing if a transactional call fails.
`ScanForetells`: `scan_string()` measures to the byte what `decode_string()` writes
without bounds, and its escape flag is the one `string_flags()` would compute.
`WalkExact`: while the node it stands on stays, an iterator passes each child exactly
once, whatever happens to the others.

**The violated run.** README.md:204 says that `reset()` invalidates all
existing handles. The generation is 32 bits wide and wraps to 1, so a handle
that is kept over 2^32 - 1 resets is valid again, for whatever node has its id
by then. `StaleRejected` is the exact statement: rejected until a whole cycle of
the counter is over. It is checked, and proved for every size of the counter.

## Proofs

All theorems are about every value of the constants that satisfies the
assumptions: `SizesAssumption` (what `initialize()` leaves: no storage, or
storage that holds at least one node and has at most the 16-bit maximum of
bytes), `BytesAssumption`, `GenerationsAssumption`, `ClientAssumption`, and, for
the compositions, `ParserAssumption`, `SerializerAssumption` and
`DuplicatesAssumption`, which say that bounds are numbers and that buffers and
forms have the fields they have. `MaxLengthAssumption` and `UnitsAssumption` say as
little of the codec: units are pairs of some bytes and a number, whatever they are.

| Theorem | Says |
|---|---|
| `InductiveInvariant` | `Spec => []IInv` |
| `TypeCorrect`, `LayoutCorrect`, `ForestCorrect`, `NeverInternalError` | the parts of `IInv` |
| `ChildrenCorrect` | iterating a container yields exactly what is attached to it |
| `StaleHandlesRejected` | `Spec => []StaleRejected` |
| `StringsNeverOverlap`, `StoredTextCorrect`, `KeysOnlyOnMembers` | no two strings share a byte; stored texts are well-formed and their flags true; only members have keys |
| `FailuresAreAtomic`, `ContentIsStable`, `ErrorsAreSticky`, `OrderIsStable` | the action properties of `SlabDom` |
| `SlabIsADocument` | `Spec => Doc!Spec`: the slab implements `Dom` |
| `SlabImplementsDocument` | the same, as TLC checks it |
| `ChildrenInOneOrder` | the order of `Dom` is a total one among the children of a container |
| `ParserInvariant` | `ParserSpec => []ParserInv` |
| `ParsingIsSafe`, `ParsedTextCorrect`, `ParsingNoInternalError` | `ParsingSafe`, `StoredTextOK`, `NoInternalError` in the middle of any parse |
| `ParsingKeepsDocument` | `ParserSpec => ParseKeepsDocument` |
| `NestInvariant` | `ParserSpec => []NestInv`: what has been read hangs together, at every lexeme |
| `DepthIsBounded` | `ParserSpec => DepthBounded` |
| `SpentInvariant`, `NoNodeIsLost`, `NothingIsLost` | `ParserSpec => []SpentInv`: the bytes are accounted for at every lexeme; the half of `NothingLost` about nodes; `ParserSpec => NothingLost` |
| `ReadInvariant`, `ParsedIsRead` | `ParserSpec => []ReadInv`: at every lexeme what has been read is the text of what there is; `ParserSpec => ParsedAsRead` |
| `IteratorInvariant`, `IteratorsAreExact` | `[]IteratorInv` and `[]WalkExact` |
| `SerializerInvariant`, `WalkIsSafe` | `[]SerializerInv` and `[]WalkSafe` |
| `WritesStayInBuffer`, `WritesTheText` | `[]WritesInBuffer` and `[]TextSoFar`: in the middle of any walk, with any writer |
| `SuccessIsTheText`, `FailureWritesNothing` | `SerializerSpec => OutputIsText` and `=> WholeOrNothing` |
| `ClonerInvariant` | `ClonerSpec => []ClonerInv` |
| `ClonerTypesCorrect`, `CloningIsSafe`, `ClonedTextCorrect`, `CloningNoInternalError` | `ClonerTypeOK`, `ClonedForestSafe`, `ClonedTextOK`, `NoInternalError` after every turn of `duplicate()` |
| `DuplicatingKeepsDocument`, `CopyIsFaithful` | the action properties of `SlabCloner` |
| `Utf8IsExact` | `CodecSpec => []Utf8Exact`: the check for UTF-8 accepts UTF-8 and nothing else |
| `ScanAlwaysForetells` | `[]ScanForetells`: what the two passes of `parse_string()` agree on |
| `WrittenIsRead` | `[]WrittenReads`: `parse_string()` undoes `write_string()` |

### The storage and its links

`IInv` is `TypeOK /\ LayoutSafe /\ ForestSafe /\ NoInternalError`. None of the
parts is inductive alone. That attaching keeps the forest acyclic needs the
links to agree (a detached node is nobody's child); that the links agree after
unlinking needs the list to have no cycle (the predecessor is found, and is the
only one); that no call returns `InternalError` needs the walk to the root to
stay among live nodes; that `TypeOK` survives an allocation needs the layout (the
next slot exists because nodes and strings do not meet). Acyclicity is stated
over sets, *every nonempty set of live nodes has a member whose link leaves
it*, which needs no induction to use: to show that a set is left after a step,
take away the node that moved and apply the old statement to what remains.
`ChildrenSafe` follows from the invariant by the same argument along sibling
links.

The lemmas go by operation (`AppendKeepsForest`, `UnlinkKeepsForest`,
`AllocateKeepsForest`, `CopyKeepsForest`, `RollbackKeepsForest`,
`MakeKeepsForest`), then by way of returning (`RefuseSafe`, `CommitSafe`,
`RecordErrorSafe`), then by action. `ValidateIsEnough` is the link between the
two halves: what `validate_attachment()` lets through is what
`AppendKeepsForest` asks for.

`StaleHandlesRejected` needs a second invariant, `HandleInv`: the generation and
the number of resets determine each other up to whole cycles of the counter, for
the slab and for every handle. Equal generations of different epochs are then a
whole cycle apart.

### What one call does

Everything else about the client rests on one lemma by action, `Effect`: a call
other than `reset()` leaves the heap as one of five relations allows.
`Kept` (only bytes that are not allocated have changed), `Created` (one node
more, with its text), `Joined` (one root is now the last child of one container,
with its key), `Built` (both), `Dropped` (one child has become a root, of an
object the first one with its key). None of the relations mentions operators
of the code. `FailureAtomic`, `ContentStable`, `StickyError`,
`OrderStable` and the refinement follow from `Effect` without looking at an action again.

`StringsInv` (`StringsOK(heap) /\ KeysOK(heap)`) is a third invariant. It
needs the layout, because a new string lies below all allocated ones and
above all nodes; and that a key is set only on a node that has none, because
otherwise the texts of two nodes could be the same bytes.

`SlabIsADocument` maps initial state to initial state and every step to a step
of `Dom` or a stutter: the five relations are its five actions (`Discard` is `reset()`, `Kept` a stutter).
That `validate_attachment()` excludes what `CanTake` excludes uses that the walk
along parents, a least set, and `IsAbove`, a statement about all closed sets,
are the same. `after` changes as `WithChild` and `WithoutChild` say, by the
lemmas of `SlabTree_proofs` on what a walk along siblings reaches after the list has changed
at one place.

### The parser

A parse works on the client's document while open containers and keys exist only
on its stack. `ParserInv` says of every moment of it that there is a heap
`before`, the one at the checkpoint, which the present heap `Extends`: nodes and
strings before it are as they were. The containers on the stack are roots and
made after the checkpoint (`Loose`), all different; the keys that wait on the stack are
allocated, well-formed, and share no byte with one another or with what nodes
refer to (`Waiting`). That is enough for every delivery to be a legal attachment, so that
`InternalError` is not returned, and for the roll back to be exact.

What a successful parse has made needs more, `NestInv`. Every new node hangs from an
open container, or from the value that is complete and goes into one (`Nested`): when the
stack is empty, what is left for all of them to hang from is the root
(`NoNodeIsLost`). Nesting is the number of containers from a node up, a
cardinality. With `k` containers open, what hangs from the `k`th may nest by what
`max_depth` leaves below it, and not by more: closing a container adds its nesting to the one around
it and takes one container off the stack, so that the sum stays (`NestedClosed`,
`NestedJoined`). `parse()` checks the length of the stack only, when a container is opened;
`DepthBounded` says of the document that this is enough.

The bytes have a book of their own, `SpentInv`: what has been taken since the checkpoint is the
lengths of the texts and keys of the new nodes (`Owned`) and of the keys that wait on the stack
(`Owed`), and only a container that has read a key holds one. Delivering a value moves a
length from one sum to the other; at the end the stack is empty and the second sum is nothing.
The code adds the lengths up in the order of the text and `NothingLost` over a set, in
whatever order `CHOOSE` takes; that it makes no difference is `SumAnyFirst`, by an induction on
subsets of a finite set (`SubsetInduction`).

`ReadInv` says what the characters read so far are: for each open container,
from the outside in, its text up to the child that is being read (`Lead`: the opening bracket, the
children that are complete, the comma if there are any, and the key of the next), and for the innermost one
as much of that as the place of the parser says (`Latest`). A value that is delivered is followed by
nothing, so that its container's text goes on after it (`DeliveredText`, by
`AttachedText`: the text of a container with one child more). A closed container
turns into a value of the one around it. Since only the last child of a list is ever written, the texts of the
other nodes do not change (`AddedText`).

### Iterators

`IteratorInv` relates a standing iterator to what it has passed (`WalkOn`):
exactly the children that cannot be reached from where it stands. Every edit is a `Change` of
lists at one place, which keeps this unless the edit takes the very node away.
The proof showed that one more case leaves the walk: after the generation has
come round, a handle kept from before can be accepted again, for a node of
another type. The ghost `strayed`, which marks walks of which nothing is claimed, therefore asks
what the code asks of a handle at that moment (`Opens`), including the type.

### The serializer

The walk counts its depth instead of keeping a stack. `SerializerInv` has
that the root is on the way up from the current node, and that the depth is the number of nodes between
them (`At`; `Depth` is the cardinality of a set of ancestors, so that
going down is adding one element and going up is taking it away). It also has
what each pass can find (`PassOK`): counting writes nothing, only the pass that
checks finds too little room, and the pass that trusts finds no fault at all, because no
link is broken.

What is counted and written rests on a second invariant, `TextInv`. `Left` says, from the tree
and the place of the walk alone, which part of the text is still to come: what is left of
the current node, then the siblings after it, then the end of its container, and so on up to the
root (`More`, `Ending`). At the root it is the whole text, at the end nothing, and every turn
splits off what it appends (`LeftDown`, `LeftOnwards`, `LeftUp`). `Told` is then one
equation: in a pass that writes, what is written followed by what is left *is* the text; in a pass
that counts, the count and the length of what is left add up to its length. That
equation makes the first pass a measure for the second, whose writer does
not look: what is written is never longer than the text, the text is as long as the count, and
the count was compared with the buffer (`Roomy`). A turn appends pieces, not characters, and
the pass that checks stops between two of them; `Spells` says what a list of pieces spells, `EscapedPieces`
(a loop over bytes that cuts a string at its escapes) included, and `FittingIs` that the pieces which
fit spell a beginning of it. `OverlapsIsExact` is about `overlaps_slab()`: two unsigned subtractions find
every shared byte.

### Text, and induction over data

`Render` is defined by recursion over a tree, the children of a container by
recursion along its links, and pieces are flattened by recursion over a sequence. The induction theorems of the
library take an operator as a parameter, which none of the installed provers can
instantiate. Two things make up for it in `SlabText_proofs`. Induction is stated of a *set* of numbers
(`SetInduction`), which follows from `WFMin`, whose parameters are sets. And a recursive
function is first shown to exist (`RecursionExists`: by induction on a rank that decreases along the
recursion, there is for each rank a function that satisfies the equation up to it) and then used through its
equation alone. The rank of a node is the number of nodes below it. That is why the text of a
node takes the texts of its children as an argument (`NodeText`). `KidsInduction` and
`ListInduction` are induction along the links: a set that holds every node all of whose children it holds, or
whose next sibling it holds if there is one, holds every node. On one line a text does not depend on how deep it stands (`OnOneLine`), which is
why the parser, which knows no indent, can be compared with it.

### The cloner

The slabs of a cloner do not satisfy `KeysOK` while it runs: a copied root keeps the flag of
the key it did not copy. `SlabOK` is what remains true, with `ValuesAtHome` added (only strings
have a text), because the cloner copies the escape flag of every value, but the bytes
only of strings. `ClonerInv` then has three layers. As for the parser, the destination
`Extends` the heap at the checkpoint (`before`), and what the source was then it still is
where the copy reads it, also if both are one slab (`Copying`). `Visited` says how far the traversal is: the set `D` of
copied nodes is closed under parents up to the root and under earlier siblings, and what is
still missing hangs below or after nodes that the cursor has yet to leave. `Mirrors` says that a
one-to-one map `f` from `D` onto the new nodes carries over type, text, key, parent and order.

The links are the difficult part: the cloner sets three of the four fields itself in
each of its two branches, without `append_child_unchecked()`. In a heap that mirrors what has been
visited, the copy of the next node (`Due`) belongs at the end of its parent's
list, where both branches do what `AppendChild` does.
`ClosedIsAllBelow` gives the end: a set that holds the root and all children of its
members is everything below the root, so that when the cursor is back at the root `f` is onto a copy of
all of it. That is `CopyFaithful`.

### The codec

No state machine is at work here: the client chooses a text and everything else is loops over its
bytes, so that `CodecInv` says only that what has been chosen are bytes and units, and the
theorems are about functions of every sequence of bytes. Each loop is a recursive function; it is
shown to exist (`ScanExists`, `DecodeExists`, `ValidExists`, by `BackwardInduction` from the
last byte) and then used through its equation, one turn at a time.

`Utf8IsExact` is about one sequence first. `IsUtf8` asks what a code point needs: that the
bytes denote a scalar value which no shorter encoding has. The code asks for ranges of the first
two bytes. For two, three and four bytes the two are compared as arithmetic over the bytes; where
the check goes on, exactly one encoding stands (`EncodedAsValid`).

`ScanAlwaysForetells` puts the two passes side by side. A turn of `scan_string()` that
goes on and the turn of `decode_string()` at the same place take the same bytes (surrogate pairs
are taken whole by both); the text that the second writes is as long as the first has counted, needs an escape
exactly if the first has set its flag, and is UTF-8 by itself. The end follows by adding up
turns, since UTF-8, lengths and flags of two texts are those of the texts put together.
`utf8_length()` and `encode_utf8()` decide on a length each on its own, and the second pass takes a
low half on trust: that what it writes is UTF-8 needs that the scan has refused lone halves.

`WrittenIsRead` is by turns of the scan over what was written: a byte that was escaped is one
turn that yields this byte, a sequence of UTF-8 one turn that yields the sequence. That a
byte of a sequence is never escaped, and that a sequence has neither a quote nor a
backslash in it, is what makes the concatenation of escapes a concatenation of turns. That every meaning of units is
UTF-8 (`MeaningIsUtf8`) is proved, not assumed of the units; the lemma behind the theorem, `WrittenText`, is
about all UTF-8.

### Model-checked only

- `DuplicateReturns`. Liveness under fairness is beyond the prover.
- `StringMeans`. It relates the bytes of a unit to the number it stands for, which is an
  assumption on the constant `Units` that only its instance meets; as a theorem it would need
  the grammar of units as an assumption.
- `NumberExact`, `NumberSurvives`. They rest on the conversions between digits and doubles, which
  are modelled by what the code relies on and enumerated at a small width.

## Not modelled

Left out for good: typed getters and predicates, which read one node, and
`used_bytes()` and the other counters; the mechanics of `Result<T>`, which are C++
object lifetime; `StaticSlab`, which is storage inside an object; the alignment of the
storage in `initialize()`, of which `SizesAssumption` keeps the result; error offsets;
benchmarks, build and packaging. Of the serializer, a size that exceeds `size_t`
and numbers that are not finite, which no maker stores, are left out; its branches
for `InternalError` and `InvalidUtf8` are kept, and `WalkSafe`, `OutputIsText` and
`StoredTextOK` show that no document reaches them. Of numbers, the rounding of
doubles and of `as_number()` on wide integers is left out.

## Plan

What is left is `JsonNumbers`: its grammar can be proved as the strings are, by the induction of
`StringCodec_proofs`; the conversions cannot be said more of than their assumptions.

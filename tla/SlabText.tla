------------------------------ MODULE SlabText ------------------------------
(***************************************************************************)
(* The text of a document: what the serializer is to write for a node, and *)
(* what the parser has read when it has made one.  Render says it from the *)
(* tree alone, without a cursor, a buffer or a stack; SlabSerializer and   *)
(* SlabParser are held against it.                                         *)
(*                                                                         *)
(* A text is a sequence of characters: the bytes of strings, the JSON      *)
(* punctuation, and one character for the whole of a null, a bool or a     *)
(* number.  An escaped byte is two characters.                             *)
(*                                                                         *)
(* Characters are written to and read from spans of the address space the  *)
(* storage is part of.                                                     *)
(***************************************************************************)
EXTENDS SlabTree

Seqs == INSTANCE SequencesExt

-----------------------------------------------------------------------------
(* Spans.                                                                  *)

(* overlaps_slab(), by unsigned subtraction of two addresses, in the order *)
(* in which it does not wrap.                                              *)
Overlaps(start, size, slabStart, slabSize) ==
    /\ size # 0 /\ slabSize # 0
    /\ IF start <= slabStart
       THEN slabStart - start < size
       ELSE start - slabStart < slabSize

-----------------------------------------------------------------------------
(* Pieces of text: what is appended in one go.                             *)

Opening(type) == IF type = "Object" THEN "{" ELSE "["
Closing(type) == IF type = "Object" THEN "}" ELSE "]"

Escape(byte) == IF byte \in Escaped THEN <<"\\", byte>> ELSE <<byte>>

Quoted(text) ==
    <<"\"">> \o Seqs!FlattenSeq([k \in DOMAIN text |-> Escape(text[k])]) \o <<"\"">>

(* A form is how a text is laid out: on one line, or a line for every      *)
(* child, indented by so many spaces a level.                              *)
Compact == [pretty |-> FALSE, indent |-> 0]

Spaces(n) == [k \in 1 .. n |-> " "]

NewLine(form, depth) ==
    IF form.pretty THEN <<"\n">> \o Spaces(depth * form.indent) ELSE <<>>

Colon(form) == IF form.pretty THEN <<":", " ">> ELSE <<":">>

-----------------------------------------------------------------------------
(* The text of the tree below root.                                        *)

(* The children of a container from i on, in order.                        *)
ChildrenFrom(h, i) ==
    LET chain[c \in Live(h) \cup {Nil}] ==
            IF c = Nil THEN <<>> ELSE <<c>> \o chain[h.next[c]]
    IN chain[i]

Separated(parts, separator) ==
    Seqs!FlattenSeq([k \in DOMAIN parts |->
                   IF k = 1 THEN parts[k] ELSE separator \o parts[k]])

Label(h, form, i, c) ==
    IF h.type[i] = "Object"
    THEN Quoted(ViewString(h, h.key[c])) \o Colon(form)
    ELSE <<>>

(* The text of node at[1] in the depth at[2], by those of its children.    *)
NodeText(h, form, text, at) ==
    LET i == at[1]
        children == ChildrenFrom(h, h.first[i])
        Line(c) == NewLine(form, at[2] + 1) \o Label(h, form, i, c)
                       \o text[<<c, at[2] + 1>>]
    IN IF h.type[i] = "String"
       THEN Quoted(ViewString(h, h.value[i]))
       ELSE IF h.type[i] \notin Containers
       THEN <<h.type[i]>>
       ELSE <<Opening(h.type[i])>>
                \o Separated([k \in DOMAIN children |-> Line(children[k])],
                             <<",">>)
                \o (IF children = <<>> THEN <<>> ELSE NewLine(form, at[2]))
                \o <<Closing(h.type[i])>>

Render(h, root, form) ==
    LET text[at \in Live(h) \X Nat] == NodeText(h, form, text, at)
    IN text[<<root, 0>>]
=============================================================================

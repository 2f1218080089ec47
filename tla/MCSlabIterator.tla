--------------------------- MODULE MCSlabIterator ---------------------------
(***************************************************************************)
(* An instance of SlabIterator for TLC: every document of up to four       *)
(* arrays.                                                                 *)
(***************************************************************************)
EXTENDS SlabIterator

MCTexts == {<<>>}
MCFold == [b \in {"a"} |-> b]
=============================================================================

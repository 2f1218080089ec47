---------------------------- MODULE MCSlabCloner ----------------------------
(***************************************************************************)
(* Instances of SlabCloner for TLC, with the bytes of MCSlabDom: "q" needs *)
(* a JSON escape, "x" is in no well-formed UTF-8 text.                     *)
(***************************************************************************)
EXTENDS SlabCloner

MCBytes == {"a", "q", "x"}
MCIllFormed == {"x"}
MCEscaped == {"q"}
MCFold == [b \in MCBytes |-> b]

MCOneText == {<<"q">>}
MCNoTexts == {<<>>}
=============================================================================

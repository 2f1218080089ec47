---------------------------- MODULE MCSlabParser ----------------------------
(***************************************************************************)
(* Instances of SlabParser for TLC, with the bytes of MCSlabDom: "q" needs *)
(* a JSON escape, "x" is in no well-formed UTF-8 text.                     *)
(***************************************************************************)
EXTENDS SlabParser

MCBytes == {"a", "q", "x"}
MCIllFormed == {"x"}
MCEscaped == {"q"}
MCFold == [b \in MCBytes |-> b]

MCTexts == {<<"q">>, <<"x">>,
            <<"a", "a", "a", "a", "a", "a", "a", "a", "a", "a", "a">>}
=============================================================================

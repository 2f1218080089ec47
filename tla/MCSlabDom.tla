------------------------------ MODULE MCSlabDom ------------------------------
(***************************************************************************)
(* Instances of SlabDom for TLC.  A node takes two bytes, so that the      *)
(* storage can end in a byte that no node fits and strings can fill it.    *)
(* "a" and "A" differ only in case, "q" needs a JSON escape and "x" is a   *)
(* byte that no well-formed UTF-8 text contains.                           *)
(***************************************************************************)
EXTENDS SlabImplementsDom

MCBytes == {"a", "A", "q", "x"}
MCIllFormed == {"x"}
MCEscaped == {"q"}
MCFold == [b \in MCBytes |-> IF b = "A" THEN "a" ELSE b]

MCOneKey == {<<"q">>}
MCNoTexts == {<<>>}
MCKeys == {<<>>, <<"a">>, <<"A">>}
MCTexts == {<<>>, <<"a">>, <<"q", "A">>, <<"a", "x">>,
            <<"a", "a", "a", "a", "a", "a", "a", "a", "a", "a">>}
=============================================================================

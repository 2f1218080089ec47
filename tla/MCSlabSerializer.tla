-------------------------- MODULE MCSlabSerializer --------------------------
(***************************************************************************)
(* Instances of SlabSerializer for TLC, with the bytes of MCSlabDom: "q"   *)
(* needs a JSON escape.  The storage is at the addresses from 0 to         *)
(* Capacity - 1; one buffer ends where it begins, one shares a byte with   *)
(* it, which a short text does not reach, and one begins where it ends.    *)
(***************************************************************************)
EXTENDS SlabSerializer

MCBytes == {"a", "q"}
MCIllFormed == {}
MCEscaped == {"q"}
MCFold == [b \in MCBytes |-> b]

MCTexts == {<<"q", "a">>}
MCForms == {Compact, [pretty |-> TRUE, indent |-> 2]}
MCBuffers == {[at |-> -8, size |-> 8], [at |-> -29, size |-> 30],
              [at |-> Capacity, size |-> 30]}
=============================================================================

--------------------------- MODULE MCJsonNumbers ---------------------------
(***************************************************************************)
(* An instance of JsonNumbers for TLC: integers of five bits, -16 to 15    *)
(* and 0 to 31, and every text of up to five of the characters below.      *)
(***************************************************************************)
EXTENDS JsonNumbers

MCCharacters == {"0", "1", "2", "3", "5", "6", "+", "-", ".", "e", "E"}

MCSomeDoubles ==
    {Double(negative, m, e) : negative \in BOOLEAN,
                              m \in {0, 1, 5, 12, 305}, e \in -3 .. 1}
=============================================================================

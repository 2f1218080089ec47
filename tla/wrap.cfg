\* As handles.cfg: three resets bring a generation counter of two values round.
CONSTANTS
    NodeSize = 2
    Capacity = 5
    U16Max = 6
    Bytes <- MCBytes
    IllFormed <- MCIllFormed
    Escaped <- MCEscaped
    Junk = Junk
    Generations = 3
    Kinds = {"Array", "Object"}
    Texts <- MCOneKey
    Fold <- MCFold
    MaxResets = 3
    MaxKept = 1
SPECIFICATION Spec
INVARIANTS ResetInvalidatesHandles

\* Four nodes in either slab, two duplicates: every shape of array.
CONSTANTS
    NodeSize = 2
    Capacity = 8
    U16Max = 9
    Bytes <- MCBytes
    IllFormed <- MCIllFormed
    Escaped <- MCEscaped
    Junk = Junk
    Generations = 4
    Kinds = {"Array"}
    Texts <- MCNoTexts
    Fold <- MCFold
    MaxResets = 0
    MaxKept = 0
    MaxDuplicates = 2
SPECIFICATION ClonerSpec
INVARIANTS ClonedForestSafe NoInternalError
PROPERTIES DuplicateReturns

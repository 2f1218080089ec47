\* Four nodes and no string bytes: every shape of array.
CONSTANTS
    NodeSize = 2
    Capacity = 8
    U16Max = 9
    Bytes <- MCBytes
    IllFormed <- MCIllFormed
    Escaped <- MCEscaped
    Junk = Junk
    Generations = 4
    Kinds = {"Array"}
    Texts <- MCNoTexts
    Fold <- MCFold
    MaxResets = 0
    MaxKept = 0
SPECIFICATION Spec
INVARIANTS ForestSafe ChildrenSafe
PROPERTIES OrderStable ImplementsDom

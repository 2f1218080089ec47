\* Three objects and arrays, keys that differ in case only, and the empty key.
CONSTANTS
    NodeSize = 2
    Capacity = 7
    U16Max = 7
    Bytes <- MCBytes
    IllFormed <- MCIllFormed
    Escaped <- MCEscaped
    Junk = Junk
    Generations = 4
    Kinds = {"Array", "Object"}
    Texts <- MCKeys
    Fold <- MCFold
    MaxResets = 0
    MaxKept = 0
SPECIFICATION Spec
INVARIANTS KeysOnMembers
PROPERTIES ImplementsDom

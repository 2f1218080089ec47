\* Two nodes, three resets: the generation counter comes round once.
CONSTANTS
    NodeSize = 2
    Capacity = 5
    U16Max = 6
    Bytes <- MCBytes
    IllFormed <- MCIllFormed
    Escaped <- MCEscaped
    Junk = Junk
    Generations = 3
    Kinds = {"Array", "Object", "Number"}
    Texts <- MCOneKey
    Fold <- MCFold
    MaxResets = 3
    MaxKept = 1
SPECIFICATION Spec
INVARIANTS StaleRejected
PROPERTIES StickyError

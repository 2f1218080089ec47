\* Objects and strings: nodes, keys and values compete for ten bytes.
CONSTANTS
    NodeSize = 2
    Capacity = 10
    U16Max = 11
    Bytes <- MCBytes
    IllFormed <- MCIllFormed
    Escaped <- MCEscaped
    Junk = Junk
    Generations = 4
    Kinds = {"Object", "String"}
    Texts <- MCOneText
    Fold <- MCFold
    MaxResets = 0
    MaxKept = 0
    MaxDuplicates = 1
SPECIFICATION ClonerSpec
INVARIANTS ClonerTypeOK ClonedTextOK
PROPERTIES CopyFaithful DuplicateKeepsDocument

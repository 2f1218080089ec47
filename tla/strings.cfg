\* Three nodes and strings of every kind: nodes and strings meet.
CONSTANTS
    NodeSize = 2
    Capacity = 7
    U16Max = 9
    Bytes <- MCBytes
    IllFormed <- MCIllFormed
    Escaped <- MCEscaped
    Junk = Junk
    Generations = 4
    Kinds = {"Object", "String"}
    Texts <- MCTexts
    Fold <- MCFold
    MaxResets = 0
    MaxKept = 0
SPECIFICATION Spec
INVARIANTS TypeOK LayoutSafe StringsApart StoredTextOK NoInternalError
PROPERTIES ContentStable FailureAtomic

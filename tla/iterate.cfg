\* Four arrays, and resets; no text has any bytes.
CONSTANTS
    NodeSize = 2
    Capacity = 8
    U16Max = 8
    Bytes = {"a"}
    IllFormed = {}
    Escaped = {}
    Junk = Junk
    Generations = 3
    Kinds = {"Array"}
    Texts <- MCTexts
    Fold <- MCFold
    MaxResets = 1
    MaxKept = 0
SPECIFICATION IteratorSpec
INVARIANTS WalkExact

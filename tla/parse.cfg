\* Four nodes, or three and their texts; depth two; two calls.
CONSTANTS
    NodeSize = 2
    Capacity = 10
    U16Max = 10
    Bytes <- MCBytes
    IllFormed <- MCIllFormed
    Escaped <- MCEscaped
    Junk = Junk
    Generations = 4
    Kinds = {"Null"}
    Texts <- MCTexts
    Fold <- MCFold
    MaxResets = 1
    MaxKept = 0
    MaxParserDepth = 2
    MaxDepths = {0, 2, 3}
    MaxCalls = 2
SPECIFICATION ParserSpec
INVARIANTS ParsingSafe StoredTextOK
PROPERTIES ParseKeepsDocument ParsedAsRead NothingLost DepthBounded

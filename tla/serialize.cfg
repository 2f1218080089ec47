\* Up to four nodes and three texts, made by four calls.
CONSTANTS
    NodeSize = 7
    Capacity = 34
    U16Max = 35
    Bytes <- MCBytes
    IllFormed <- MCIllFormed
    Escaped <- MCEscaped
    Junk = Junk
    Generations = 4
    Kinds = {"Array", "Object", "String"}
    Texts <- MCTexts
    Fold <- MCFold
    MaxResets = 0
    MaxKept = 0
    Forms <- MCForms
    Buffers <- MCBuffers
    MaxCalls = 4
SPECIFICATION SerializerSpec
INVARIANTS WalkSafe WritesInBuffer TextSoFar
PROPERTIES OutputIsText WholeOrNothing

\* Integers of five bits; every text of up to five characters.
CONSTANTS
    Int64Max = 15
    Uint64Max = 31
    MaxOrder = 4
    MaxFixedOrder = 0
    Characters <- MCCharacters
    MaxCharacters = 5
    SomeDoubles <- MCSomeDoubles
SPECIFICATION NumbersSpec
INVARIANTS NumberExact NumberSurvives
CHECK_DEADLOCK FALSE

\* Three units, or four bytes; the longest string has ten bytes.
CONSTANTS
    MaxLength = 10
    Units <- MCUnits
    SomeBytes <- MCSomeBytes
    MaxUnits = 3
    MaxBytes = 4
SPECIFICATION CodecSpec
INVARIANTS Utf8Exact StringMeans ScanForetells WrittenReads
CHECK_DEADLOCK FALSE

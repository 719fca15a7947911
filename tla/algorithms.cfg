\* Arrays of every type, expressions, enums and flags, and coloured dumps.
SPECIFICATION MCSpec
CONSTANTS
    TypeSize <- MCTypeSize
    Counts <- MCCounts
    Data <- MCData
    LittleEndian = TRUE
    Operands <- MCOperands
    Context <- MCContext
    Consts <- MCConsts
    SignBit = 10
    MemberNames = {1, 2, 3}
    Explicit = {0, 3, 6}
    MaxMembers = 3
    Width = 3
    Automatic = Automatic
    MaxOperations = 1
    RowWidth = 3
    MaxListed = 4
    Colours = 2
    FieldSizes = {0, 1, 2, 4, Unsized}
    MaxDumped = 7
    Unsized = Unsized
    Normal = Normal
INVARIANTS
    AlgorithmsTypeOK
    GeneratedReadsAsTypes
    ShortStreamsAreRefused
    ArraysAreRestored
    DefaultsAreWritten
    ValueIsExact
    AutomaticIsFresh
    DecomposeIsWhole
    ShownApart
    BytesHaveTheirColour
    RowsEndNormal
\* All of them end.
CHECK_DEADLOCK FALSE

\* Structures of up to four fields, big-endian, on a long stream and on one that ends early.
SPECIFICATION ReadSpec
CONSTANTS
    BYTE = 2
    MCByte = 2
    Top = 5
    U1 = U1
    U2 = U2
    I1 = I1
    B2 = B2
    C1 = C1
    D1 = D1
    N1 = N1
    ND = ND
    None = None
    MCTypes = {U1, U2, I1, B2, C1, D1}
    Types = {U1, U2, I1, B2, C1, D1}
    Size <- MCSize
    Integer <- MCInteger
    Signed <- MCSigned
    Lenient <- MCLenient
    Dynamic <- MCDynamic
    Nested <- MCNested
    BigEndian = TRUE
    Definitions <- MCDefinitions
    MaxFields = 4
    Streams <- MCStreams
    Starts = {1}
    Lengths = {4, 9}
INVARIANTS
    ReadTypeOK
    ReadInv
    SeekIsNoOp
    LengthIsConsumed
    NoBitReadTwice
PROPERTIES
    ReadsAsPlaced
\* A read that has ended stops.
CHECK_DEADLOCK FALSE

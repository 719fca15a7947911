\* Structures of up to four fields, nested ones with a length and without, in both byte orders, interpreted and compiled, on a long stream and on one that ends early.
SPECIFICATION MCSpec
CONSTANTS
    BYTE = 2
    MCByte = 2
    Top = 5
    U1 = U1
    U2 = U2
    I1 = I1
    B2 = B2
    C1 = C1
    D1 = D1
    N1 = N1
    ND = ND
    None = None
    MCTypes = {U1, I1, B2, D1, N1, ND}
    Types = {U1, I1, B2, D1, N1, ND}
    Size <- MCSize
    Integer <- MCInteger
    Signed <- MCSigned
    Lenient <- MCLenient
    Dynamic <- MCDynamic
    Nested <- MCNested
    BigEndian = FALSE
    Definitions <- MCDefinitions
    MaxFields = 4
    Streams <- MCStreams
    Starts = {1}
    Lengths = {3, 9}
INVARIANTS
    CompiledTypeOK
    CompiledAgrees
    NoBitReadTwice
PROPERTIES
    PlacedInBothOrders
\* Both readers stop.
CHECK_DEADLOCK FALSE

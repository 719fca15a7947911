\* Regular structures, with any runs of bit fields, are written and read again.
SPECIFICATION TripSpec
CONSTANTS
    BYTE = 2
    MCByte = 2
    Top = 9
    U1 = U1
    U2 = U2
    I1 = I1
    B2 = B2
    C1 = C1
    D1 = D1
    N1 = N1
    ND = ND
    None = None
    MCTypes = {U1, U2, I1}
    Types = {U1, U2, I1}
    Size <- MCSize
    Integer <- MCInteger
    Signed <- MCSigned
    Lenient <- MCLenient
    Dynamic <- MCDynamic
    Nested <- MCNested
    BigEndian = FALSE
    Definitions <- MCDefinitions
    MaxFields = 3
    Streams = {}
    Starts = {}
INVARIANT
    DumpsRestores
\* The last read stops, and so does a write that fails.
CHECK_DEADLOCK FALSE

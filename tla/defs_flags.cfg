\* Structures with #[nocompile].
SPECIFICATION LoadsSpec
CONSTANTS
    U8 = U8
    E = E
    A = A
    B = B
    N = N
    X = X
    Words <- MCWords
    InitTypedefs <- MCTypedefs
    InitObjects <- MCObjects
    NoneType = NoneType
    Unresolved = Unresolved
    Hops = 2
    MaxReferences = 0
    Texts <- MCTexts
    LegacyTexts <- MCLegacyTexts
    CallerWords = {N, A}
    MaxLoads = 1
INVARIANTS
    FlagsAreHonoured
\* A caller stops loading.
CHECK_DEADLOCK FALSE

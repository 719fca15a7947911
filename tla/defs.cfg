\* Two loads, whole and cut off, and up to two references of the caller before, between and after.
SPECIFICATION LoadsSpec
CONSTANTS
    U8 = U8
    E = E
    A = A
    B = B
    N = N
    X = X
    Words <- MCWords
    InitTypedefs <- MCTypedefs
    InitObjects <- MCObjects
    NoneType = NoneType
    Unresolved = Unresolved
    Hops = 2
    MaxReferences = 2
    Texts <- MCTexts
    LegacyTexts <- MCLegacyTexts
    CallerWords = {N, A}
    MaxLoads = 2
INVARIANTS
    LoadsTypeOK
    CompiledSeesItsTypes
    AnonymousFieldsApart
    EolIsThere
    DeclaredNamesAreDirect
PROPERTIES
    NamesKeepTheirMeaning
    LoadsEnd
\* A caller stops loading.
CHECK_DEADLOCK FALSE

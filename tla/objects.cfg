\* Two types of three fields between them, and one field added to either at any time.
SPECIFICATION ObjectsSpec
CONSTANTS
    FieldTypes = {"byte", "short", "pointer", "inner"}
    AddedTypes = {"byte", "inner"}
    MaxFields = 3
    MaxAdded = 1
    Offsets = {NoOffset, 0, 3}
    Memory <- MCMemory
    Places = {1}
    New = New
    NoOffset = NoOffset
    NoSize = NoSize
    NoStart = NoStart
INVARIANTS
    ObjectsTypeOK
    LengthIsCurrent
    ReadsStayWithin
    LengthIsDumped
    DumpIsOverlay
    DumpSucceeds
    StreamIsWhereLeft
    FollowedIsTarget
CHECK_DEADLOCK FALSE

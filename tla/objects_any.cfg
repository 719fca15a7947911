\* Unions and structures in each other, as they are defined.
SPECIFICATION ObjectsSpec
CONSTANTS
    FieldTypes = {"byte", "short", "inner"}
    AddedTypes = {"byte", "inner"}
    MaxFields = 3
    MaxAdded = 0
    Offsets = {NoOffset, 0, 3}
    Memory <- MCMemory
    Places = {1}
    New = New
    NoOffset = NoOffset
    NoSize = NoSize
    NoStart = NoStart
INVARIANT
    NestedAreDumped
CHECK_DEADLOCK FALSE

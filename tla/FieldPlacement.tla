--------------------------- MODULE FieldPlacement ---------------------------
(***************************************************************************)
(* What reading a structure promises, said without offsets, seeks or bit   *)
(* buffers: fields follow each other in the stream; a bit field continues  *)
(* the unit of the bit fields just before it if the type is the same and   *)
(* there is room, and otherwise starts a unit of its own, at the next      *)
(* byte; in a unit the fields are laid out from the least significant bit  *)
(* of a little-endian number, from the most significant of a big-endian.   *)
(***************************************************************************)
EXTENDS CStructTypes

CONSTANTS Definitions, Streams, Starts

VARIABLES
    def,        \* the fields of the structure
    stream,     \* the bytes of the stream
    cursor,     \* the bytes that belong to the fields so far
    unit,       \* the unit a next bit field may continue, or None
    placed      \* the values of the fields so far

placementVars == <<def, stream, cursor, unit, placed>>

\* A stream may be read from beyond its end: nothing is left of it there.
AtStart ==
    /\ \E s \in Starts : cursor = IF s <= Len(stream) THEN s ELSE Len(stream)
    /\ unit = None
    /\ placed = <<>>

PlacementInit == def \in Definitions /\ stream \in Streams /\ AtStart

Current == def[Len(placed) + 1]

Complete == Len(placed) = Len(def)

\* The stream has n more bytes.
OnTime(n) == cursor + n <= Len(stream)

\* `bits` bits of a number of type t, after the first `used` bits
FieldOf(number, t, used, bits) ==
    LET lo == IF BigEndian THEN Width(t) - used - bits ELSE used
    IN Slice(number, lo, lo + bits)

\* The unit at byte `at` of the stream
UnitNumber(at, t) == Decode(SubSeq(stream, at + 1, at + Size[t]), t)

HasRoom(f) ==
    /\ unit # None
    /\ unit.type = f.type
    /\ unit.used + f.bits <= Width(f.type)

\* A unit with no room left is no unit.
UnitOrNone(at, t, used) ==
    IF used = Width(t) THEN None ELSE [at |-> at, type |-> t, used |-> used]

ContinueUnit ==
    /\ ~Complete
    /\ IsBits(Current)
    /\ HasRoom(Current)
    /\ placed' = Append(placed, FieldOf(UnitNumber(unit.at, unit.type), unit.type,
                                        unit.used, Current.bits))
    /\ unit' = UnitOrNone(unit.at, unit.type, unit.used + Current.bits)
    /\ UNCHANGED <<def, stream, cursor>>

StartUnit ==
    /\ ~Complete
    /\ IsBits(Current)
    /\ ~HasRoom(Current)
    /\ OnTime(Size[Current.type])
    /\ placed' = Append(placed, FieldOf(UnitNumber(cursor, Current.type), Current.type,
                                        0, Current.bits))
    /\ unit' = UnitOrNone(cursor, Current.type, Current.bits)
    /\ cursor' = cursor + Size[Current.type]
    /\ UNCHANGED <<def, stream>>

PlacePlain ==
    /\ ~Complete
    /\ ~IsBits(Current)
    /\ OnTime(Size[Current.type]) \/ Current.type \in Lenient
    /\ LET bytes == Available(stream, cursor, Size[Current.type]) IN
       /\ placed' = Append(placed, Value(bytes, Current.type))
       /\ cursor' = cursor + Len(bytes)
    /\ unit' = None
    /\ UNCHANGED <<def, stream>>

\* The stream ends before the field, which takes what is left of it.
RunOut ==
    /\ ~Complete
    /\ ~OnTime(Size[Current.type])
    /\ IF IsBits(Current) THEN ~HasRoom(Current) ELSE Current.type \notin Lenient
    /\ cursor' = Len(stream)
    /\ unit' = None
    /\ UNCHANGED <<def, stream, placed>>

\* A next structure begins where this one ended.
NextRecord ==
    /\ Complete
    /\ placed' = <<>>
    /\ unit' = None
    /\ UNCHANGED <<def, stream, cursor>>

PlacementNext == ContinueUnit \/ StartUnit \/ PlacePlain \/ RunOut \/ NextRecord

PlacementSpec == PlacementInit /\ [][PlacementNext]_placementVars

=============================================================================

----------------------------- MODULE StructRead -----------------------------
(***************************************************************************)
(* Structure._read: the interpreted reader.  It is given a stream at any   *)
(* position, seeks to the offset of a field when the layout knows one,     *)
(* takes bit fields from a BitBuffer and reads the rest with the _read of  *)
(* their types.  The same stream may be read again where the last read     *)
(* left it, as an array of structures is.                                  *)
(***************************************************************************)
EXTENDS StructLayout

CONSTANT
    Streams,        \* the streams to read: sequences of bytes
    Starts          \* the positions the first read may begin at

ASSUME StreamsAssumption == /\ Streams \subseteq Seq(Bytes)
                            /\ Starts \subseteq Nat

VARIABLES
    stream,     \* the bytes of the stream
    start,      \* struct_start
    pos,        \* stream.tell()
    bb,         \* bit_buffer
    vals,       \* result: the values of the fields read so far
    sizes,      \* sizes of the fields read so far, None for a bit field
    outcome     \* how the read stands, or ended

readVars == <<def, lay, offs, stream, start, pos, bb, vals, sizes, outcome>>

Outcomes == {"reading", "done", "EOFError", "ValueError"}

\* The values of a field: a number, or the bytes of an array or a structure.
Values == Numbers \cup Seq(Bytes)

\* Structure._read has a value and a size for each field it has gone through.
ReadTypeOK ==
    /\ LayoutTypeOK
    /\ stream \in Seq(Bytes)
    /\ start \in Nat
    /\ pos \in Nat
    /\ bb \in BitBuffers
    /\ vals \in Seq(Values)
    /\ sizes \in Seq(Nat \cup {None})
    /\ Len(vals) \in 0 .. Len(def)
    /\ Len(sizes) = Len(vals)
    /\ outcome \in Outcomes

-----------------------------------------------------------------------------

ReadInit ==
    /\ LayoutInit
    /\ stream \in Streams
    /\ start \in Starts
    /\ pos = start
    /\ bb = Empty
    /\ vals = <<>>
    /\ sizes = <<>>
    /\ outcome = "reading"

Define ==
    /\ LayoutNext
    /\ UNCHANGED <<stream, start, pos, bb, vals, sizes, outcome>>

\* The field to read next
Next1 == Len(vals) + 1

Reading == Laid /\ outcome = "reading" /\ Len(vals) < Len(def)

(***************************************************************************)
(* Where field k is read: an offset other than None and 0 is sought.       *)
(***************************************************************************)
Sought(k) == IF offs[k] \notin {None, 0} THEN start + offs[k] ELSE pos

\* The _read of type t accepts the bytes.
Accepts(t, bytes) == Len(bytes) = Size[t] \/ t \in Lenient

ReadBitsOfUnit ==
    /\ Reading
    /\ LET f == def[Next1] IN
       /\ IsBits(f)
       /\ ~NeedsUnit(bb, f.type)
       /\ CanTake(bb, f.bits)
       /\ vals' = Append(vals, Taken(bb, f.bits))
       /\ bb' = AfterTake(bb, f.bits)
    /\ pos' = Sought(Next1)
    /\ sizes' = Append(sizes, None)
    /\ UNCHANGED <<def, lay, offs, stream, start, outcome>>

ReadBitsOfNewUnit ==
    /\ Reading
    /\ LET f == def[Next1]
           bytes == Available(stream, Sought(Next1), Size[f.type])
           new == Loaded(f.type, bytes)
       IN /\ IsBits(f)
          /\ NeedsUnit(bb, f.type)
          /\ Accepts(f.type, bytes)
          /\ CanTake(new, f.bits)
          /\ vals' = Append(vals, Taken(new, f.bits))
          /\ bb' = AfterTake(new, f.bits)
          /\ pos' = Sought(Next1) + Len(bytes)
    /\ sizes' = Append(sizes, None)
    /\ UNCHANGED <<def, lay, offs, stream, start, outcome>>

\* The shift count of a big-endian unit is negative: the read is abandoned.
ReadBitsBeyondUnit ==
    /\ Reading
    /\ LET f == def[Next1]
           bytes == Available(stream, Sought(Next1), Size[f.type])
           new == IF NeedsUnit(bb, f.type) THEN Loaded(f.type, bytes) ELSE bb
       IN /\ IsBits(f)
          /\ NeedsUnit(bb, f.type) => Accepts(f.type, bytes)
          /\ ~CanTake(new, f.bits)
          /\ bb' = new
          /\ pos' = Sought(Next1) + IF NeedsUnit(bb, f.type) THEN Len(bytes) ELSE 0
    /\ outcome' = "ValueError"
    /\ UNCHANGED <<def, lay, offs, stream, start, vals, sizes>>

\* A field that is no bit field ends the unit.
ReadPlain ==
    /\ Reading
    /\ LET f == def[Next1]
           bytes == Available(stream, Sought(Next1), Size[f.type])
       IN /\ ~IsBits(f)
          /\ Accepts(f.type, bytes)
          /\ vals' = Append(vals, Value(bytes, f.type))
          /\ sizes' = Append(sizes, Len(bytes))
          /\ pos' = Sought(Next1) + Len(bytes)
    /\ bb' = Empty
    /\ UNCHANGED <<def, lay, offs, stream, start, outcome>>

\* The stream ends within a field, or within a unit; what is left is consumed.
ReadShort ==
    /\ Reading
    /\ LET f == def[Next1]
           bytes == Available(stream, Sought(Next1), Size[f.type])
       IN /\ IsBits(f) => NeedsUnit(bb, f.type)
          /\ ~Accepts(f.type, bytes)
          /\ bb' = IF IsBits(f)
                   THEN [type |-> f.type, buffer |-> bb.buffer, remaining |-> Width(f.type)]
                   ELSE Empty
          /\ pos' = Sought(Next1) + Len(bytes)
    /\ outcome' = "EOFError"
    /\ UNCHANGED <<def, lay, offs, stream, start, vals, sizes>>

Finish ==
    /\ Laid
    /\ outcome = "reading"
    /\ Len(vals) = Len(def)
    /\ outcome' = "done"
    /\ UNCHANGED <<def, lay, offs, stream, start, pos, bb, vals, sizes>>

\* ReadAgain, if the dictionary of the sizes were not a new one
ReadAgainKeepingSizes ==
    /\ outcome = "done"
    /\ pos < Len(stream)
    /\ start' = pos
    /\ bb' = Empty
    /\ vals' = <<>>
    /\ outcome' = "reading"
    /\ UNCHANGED <<def, lay, offs, stream, pos, sizes>>

\* The next structure of the stream, with a BitBuffer of its own
ReadAgain ==
    /\ outcome = "done"
    /\ pos < Len(stream)
    /\ start' = pos
    /\ bb' = Empty
    /\ vals' = <<>>
    /\ sizes' = <<>>
    /\ outcome' = "reading"
    /\ UNCHANGED <<def, lay, offs, stream, pos>>

ReadField ==
    \/ ReadBitsOfUnit \/ ReadBitsOfNewUnit \/ ReadBitsBeyondUnit
    \/ ReadPlain \/ ReadShort

ReadNext == Define \/ ReadField \/ Finish \/ ReadAgain

ReadSpec == ReadInit /\ [][ReadNext]_readVars

-----------------------------------------------------------------------------
(***************************************************************************)
(* How far the layout's knowledge before field k is that of the reader:    *)
(* the position (the stream may have ended before), and the bits that      *)
(* remain in the unit, if a bit field came just before.                    *)
(***************************************************************************)
PositionKnown(k) ==
    LET known == start + lay[k].offset IN
    lay[k].offset # None =>
       pos = known \/ (Len(stream) <= pos /\ pos <= known)

BufferKnown(k) ==
    IF FollowsBits(k)
    THEN /\ bb.remaining = lay[k].bits_remaining
         /\ bb.remaining >= 0
         /\ bb.remaining > 0 => Size[bb.type] = Size[lay[k].bits_type]
    ELSE bb.remaining = 0

(***************************************************************************)
(* The inductive invariant: while a regular structure is read, and when it *)
(* has been, the layout knows where the reader is.                         *)
(***************************************************************************)
ReadInv ==
    /\ LayoutInv
    /\ ~Laid => outcome = "reading" /\ vals = <<>> /\ pos = start /\ bb = Empty
    /\ outcome = "done" => Len(vals) = Len(def)
    /\ Regular /\ outcome \in {"reading", "done"} =>
         PositionKnown(Next1) /\ BufferKnown(Next1)

(***************************************************************************)
(* The layout and the stream agree: in a regular structure every seek goes *)
(* to where the stream is already, so that offsets computed from the types *)
(* and positions reached by reading never contradict each other.  Only a   *)
(* stream that has ended may be sought beyond its end.                     *)
(***************************************************************************)
SeekIsNoOp ==
    Reading /\ Regular =>
       \/ Sought(Next1) = pos
       \/ Len(stream) <= pos /\ pos <= Sought(Next1)

(***************************************************************************)
(* len() of a regular structure without dynamic fields is the number of    *)
(* bytes that reading it consumes (unless the stream ends before), which   *)
(* is what arrays of structures, unions and offsets after a nested         *)
(* structure rely on.                                                      *)
(***************************************************************************)
LengthIsConsumed ==
    outcome = "done" /\ Regular /\ lay[Len(lay)].offset # None =>
       \/ pos = start + lay[Len(lay)].offset
       \/ Len(stream) <= pos /\ pos <= start + lay[Len(lay)].offset

\* The source bits a value is made of
NumberBits(v) == UNION {v[p] : p \in Pos}
SequenceBits(v) == UNION {v[i][b] : i \in DOMAIN v, b \in 0 .. BYTE - 1}
ValueBits(k) ==
    IF def[k].type \in Integer THEN NumberBits(vals[k]) ELSE SequenceBits(vals[k])

FieldsDisjoint ==
    \A j, k \in DOMAIN vals : j < k => ValueBits(j) \cap ValueBits(k) = {}

(***************************************************************************)
(* No bit of the stream is a bit of two fields of a regular structure: the *)
(* seeks, the bit buffer and the plain reads never go back over each other.*)
(***************************************************************************)
NoBitReadTwice == Regular => FieldsDisjoint

\* No bit field has more bits than its unit has left.
FitsUnits == \A k \in 1 .. Len(lay) - 1 : IsBits(def[k]) => lay[k + 1].bits_remaining >= 0

(***************************************************************************)
(* The README says of bit fields that "They are properly aligned to their  *)
(* boundaries", and of the field after them that it "is properly aligned", *)
(* with no condition on the structure.  A structure whose fields fit their *)
(* units is read without reading any bit twice.                            *)
(***************************************************************************)
AlwaysAligned == FitsUnits => FieldsDisjoint

-----------------------------------------------------------------------------
(***************************************************************************)
(* The unit a bit field may continue is the one the buffer holds, as long  *)
(* as bits of it remain.                                                   *)
(***************************************************************************)
HeldUnit ==
    IF bb.remaining > 0 /\ outcome # "EOFError"
    THEN [at |-> pos - Size[bb.type], type |-> bb.type,
          used |-> Width(bb.type) - bb.remaining]
    ELSE None

Placement == INSTANCE FieldPlacement WITH
    cursor <- IF pos <= Len(stream) THEN pos ELSE Len(stream),
    unit <- HeldUnit,
    placed <- vals

\* A BytesInteger that the end of the stream cuts short is no unit of FieldPlacement.
UnitsAreWhole ==
    \A k \in DOMAIN def : IsBits(def[k]) /\ def[k].type \in Lenient => pos < Len(stream)

(***************************************************************************)
(* In a regular structure the layout, the seeks and the bit buffer place   *)
(* the fields as FieldPlacement says: each step is one of that             *)
(* specification, or a stutter.                                            *)
(***************************************************************************)
ReadsAsPlaced ==
    /\ Placement!AtStart
    /\ [][Regular' /\ UnitsAreWhole' => [Placement!PlacementNext]_(Placement!placementVars)]_readVars

=============================================================================

---------------------------- MODULE StructWrite ----------------------------
(***************************************************************************)
(* Structure._write, for interpreted and compiled structures alike.  The   *)
(* writer does not look at the layout: where a unit ends is decided by its *)
(* own BitBuffer, which is flushed before a field that is no bit field and *)
(* at the end.                                                             *)
(***************************************************************************)
EXTENDS StructLayout

VARIABLES
    out,        \* the bytes written
    written,    \* the number of fields handed to the stream or to the buffer
    wbb,        \* bit_buffer
    num,        \* the byte count _write returns
    woutcome,   \* how the write stands, or ended
    wide        \* the field whose value may be out of its range, or 0

writeVars == <<out, written, wbb, num, woutcome, wide>>

WriteOutcomes == {"writing", "done", "ValueError", "struct.error"}

\* A write that is done has handed on every field, and keeps nothing in its buffer.
WriteTypeOK ==
    /\ LayoutTypeOK
    /\ out \in Seq(Bytes)
    /\ written \in 0 .. Len(def)
    /\ wbb \in BitBuffers
    /\ num \in Nat
    /\ woutcome \in WriteOutcomes
    /\ wide \in 0 .. Len(def)
    /\ woutcome = "done" => written = Len(def) /\ wbb = Empty

-----------------------------------------------------------------------------
(***************************************************************************)
(* The data to write: bit b of the value of field k is the source bit      *)
(* <<k, b>>.  Values are in the range of their type, or of the bits of      *)
(* their field, but for one, which is any number that is not negative.     *)
(***************************************************************************)
DataBytes(k) ==
    [i \in 1 .. Size[def[k].type] |->
        [b \in 0 .. BYTE - 1 |-> {<<k, (i - 1) * BYTE + b>>}]]

Data(k) ==
    IF k = wide THEN [p \in Pos |-> IF p < Top THEN {<<k, p>>} ELSE {}]
    ELSE IF IsBits(def[k])
    THEN [p \in Pos |-> IF p < def[k].bits THEN {<<k, p>>} ELSE {}]
    ELSE Value(DataBytes(k), def[k].type)

\* The bytes the _write of the field's type hands to the stream
PlainBytes(k) ==
    IF def[k].type \in Integer THEN Encode(Data(k), def[k].type) ELSE Data(k)

WriteInit ==
    /\ out = <<>>
    /\ written = 0
    /\ wbb = Empty
    /\ num = 0
    /\ woutcome = "writing"
    /\ wide \in {0} \cup {k \in DOMAIN def : def[k].type \in Integer}

Writing == Laid /\ woutcome = "writing"

NextOut == written + 1

\* `if bit_buffer._type: bit_buffer.flush()`
Pending == wbb.type # None
FlushedBytes == IF Pending THEN Encode(wbb.buffer, wbb.type) ELSE <<>>

WriteBits ==
    /\ Writing
    /\ written < Len(def)
    /\ LET f == def[NextOut] IN
       /\ IsBits(f)
       /\ CanPut(wbb, f.type, f.bits)
       /\ wbb' = Put(wbb, f.type, Data(NextOut), f.bits)
    /\ written' = NextOut
    /\ UNCHANGED <<out, num, woutcome, wide>>

\* A big-endian unit has too few bits left for the field.
WriteBitsBeyondUnit ==
    /\ Writing
    /\ written < Len(def)
    /\ LET f == def[NextOut] IN
       /\ IsBits(f)
       /\ ~CanPut(wbb, f.type, f.bits)
       /\ wbb' = Opened(wbb, f.type)
    /\ woutcome' = "ValueError"
    /\ UNCHANGED <<out, written, num, wide>>

WritePlain ==
    /\ Writing
    /\ written < Len(def)
    /\ ~IsBits(def[NextOut])
    /\ LET bytes == FlushedBytes \o PlainBytes(NextOut) IN
       /\ out' = out \o bytes
       /\ num' = num + Len(bytes)
    /\ wbb' = Empty
    /\ written' = NextOut
    /\ UNCHANGED <<woutcome, wide>>

\* WriteEnd, without the last flush
WriteEndUnflushed ==
    /\ Writing
    /\ written = Len(def)
    /\ woutcome' = "done"
    /\ UNCHANGED <<out, wbb, written, num, wide>>

\* The unit that ends the structure is not counted.
WriteEnd ==
    /\ Writing
    /\ written = Len(def)
    /\ out' = out \o FlushedBytes
    /\ wbb' = Empty
    /\ woutcome' = "done"
    /\ UNCHANGED <<written, num, wide>>

\* Some data make a number that struct.pack refuses.
FlushFails ==
    /\ Writing
    /\ written < Len(def) => ~IsBits(def[NextOut])
    /\ Pending
    /\ wbb.type \in Packed
    /\ ~Fits(wbb.buffer, wbb.type)
    /\ woutcome' = "struct.error"
    /\ UNCHANGED <<out, written, wbb, num, wide>>

\* So do some values of a field that is no bit field, after the flush.
PlainFails ==
    /\ Writing
    /\ written < Len(def)
    /\ ~IsBits(def[NextOut])
    /\ def[NextOut].type \in Packed
    /\ ~Fits(Data(NextOut), def[NextOut].type)
    /\ out' = out \o FlushedBytes
    /\ wbb' = Empty
    /\ woutcome' = "struct.error"
    /\ UNCHANGED <<written, num, wide>>

WriteField ==
    \/ WriteBits \/ WriteBitsBeyondUnit \/ WritePlain \/ WriteEnd
    \/ FlushFails \/ PlainFails

WriteNext ==
    \/ LayoutNext /\ UNCHANGED writeVars
    \/ WriteField /\ UNCHANGED layoutVars

WriteSpec == LayoutInit /\ WriteInit /\ [][WriteNext]_<<layoutVars, writeVars>>

-----------------------------------------------------------------------------
(***************************************************************************)
(* The bytes of a structure are as many as its layout says, if each run of *)
(* bit fields is one unit and the layout knows every length: a structure   *)
(* written into an array, a union or a file does not shift what follows.   *)
(***************************************************************************)
LengthIsWritten ==
    woutcome = "done" /\ Regular /\ OneUnitRuns /\ lay[Len(lay)].offset # None =>
       Len(out) = lay[Len(lay)].offset

(***************************************************************************)
(* A unit of an unsigned type is refused by struct.pack for no data at     *)
(* all: bit fields in the range of their bits make a number in the range   *)
(* of the type, whatever the order and the sizes of the fields.            *)
(***************************************************************************)
UnsignedUnitsFit ==
    woutcome = "struct.error" /\ wide = 0 /\ Regular /\ OneUnitRuns => wbb.type \in Signed

(***************************************************************************)
(* BaseType.write is documented to return "The amount of bytes written."   *)
(***************************************************************************)
WriteReportsBytes == woutcome = "done" => num = Len(out)

=============================================================================

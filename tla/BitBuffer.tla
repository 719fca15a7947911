------------------------------ MODULE BitBuffer ------------------------------
(***************************************************************************)
(* bitbuffer.py: the unit a run of bit fields is taken from, or put into.  *)
(* A buffer is a record; the stream it reads and writes belongs to the     *)
(* modules that own one (StructRead, CompiledRead, StructWrite).           *)
(***************************************************************************)
EXTENDS CStructTypes

BitBuffers == [type : Types \cup {None}, buffer : Numbers, remaining : Int]

\* BitBuffer.__init__ and reset
Empty == [type |-> None, buffer |-> Zero, remaining |-> 0]

-----------------------------------------------------------------------------
(* read *)

\* NeedsUnit, if the test of the size were dropped
NeedsUnitIfUsedUp(bb, t) == bb.remaining < 1

(***************************************************************************)
(* read takes a new unit from the stream when the old one is used up, or   *)
(* when the SIZE of the type differs: two types of the same size share.    *)
(***************************************************************************)
NeedsUnit(bb, t) == bb.remaining >= 1 => Size[bb.type] # Size[t]

Loaded(t, bytes) ==
    [type |-> t, buffer |-> Decode(bytes, t), remaining |-> Width(t)]

\* A big-endian read of more bits than remain shifts by a negative count.
CanTake(bb, bits) == BigEndian => bits <= bb.remaining

\* Taken, if the byte order were not looked at
TakenLow(bb, bits) == Slice(bb.buffer, 0, bits)

Taken(bb, bits) ==
    IF BigEndian
    THEN Slice(bb.buffer, bb.remaining - bits, bb.remaining)
    ELSE Slice(bb.buffer, 0, bits)

\* AfterTake, without `self._buffer >>= bits`
AfterTakeUnshifted(bb, bits) == [bb EXCEPT !.remaining = @ - bits]

AfterTake(bb, bits) ==
    [type |-> bb.type,
     buffer |-> IF BigEndian THEN bb.buffer ELSE ShiftRight(bb.buffer, bits),
     remaining |-> bb.remaining - bits]

-----------------------------------------------------------------------------
(* write *)

\* A full unit is not flushed here: its bits stay in the buffer.
Opened(bb, t) ==
    IF bb.remaining = 0
    THEN [type |-> t, buffer |-> bb.buffer, remaining |-> Width(t)]
    ELSE bb

\* A big-endian write of more bits than remain shifts by a negative count.
CanPut(bb, t, bits) == BigEndian => bits <= Opened(bb, t).remaining

\* Put, without the shift
PutUnshifted(bb, t, data, bits) ==
    LET o == Opened(bb, t)
    IN [type |-> o.type,
        buffer |-> BitOr(o.buffer, data),
        remaining |-> o.remaining - bits]

\* Put, without room for the field below the bits that are used
PutTooHigh(bb, t, data, bits) ==
    LET o == Opened(bb, t)
    IN [type |-> o.type,
        buffer |-> BitOr(o.buffer, ShiftLeft(data, o.remaining)),
        remaining |-> o.remaining - bits]

\* The data are not masked, and the unit is that of the type that opened it.
Put(bb, t, data, bits) ==
    LET o == Opened(bb, t)
        shift == IF BigEndian THEN o.remaining - bits ELSE Width(o.type) - o.remaining
    IN [type |-> o.type,
        buffer |-> BitOr(o.buffer, ShiftLeft(data, shift)),
        remaining |-> o.remaining - bits]

=============================================================================

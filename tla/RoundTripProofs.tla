--------------------------- MODULE RoundTripProofs ---------------------------
(***************************************************************************)
(* Theorems about StructWrite, and about RoundTrip, for every structure,   *)
(* every size of the types and both byte orders: what is in the writer's   *)
(* buffer and on its stream, and that what it leaves in the stream for a   *)
(* field is what the reader finds there.                                   *)
(***************************************************************************)
EXTENDS RoundTrip, StructReadProofs

-----------------------------------------------------------------------------
(* The writer *)

(***************************************************************************)
(* What the writer's buffer is for any structure: a unit of an integer     *)
(* type with no more room than the type has bits, or empty.                *)
(***************************************************************************)
BufferInv ==
    /\ wbb.type = None => wbb = Empty
    /\ wbb.type # None => wbb.type \in Integer /\ wbb.remaining <= Width(wbb.type)
    /\ wide # 0 => def[wide].type \in Integer

\* The bytes a flush would write now
PendingSize == IF Pending THEN Size[wbb.type] ELSE 0

(***************************************************************************)
(* How far the layout's knowledge before field k is that of the writer, if *)
(* each run of bit fields is one unit: the bytes written and to be flushed *)
(* are those before the field, and the unit is the one the layout has open.*)
(***************************************************************************)
WriterKnown(k) ==
    /\ lay[k].offset # None => Len(out) + PendingSize = lay[k].offset
    /\ IF FollowsBits(k)
       THEN /\ Pending
            /\ wbb.type = lay[k].bits_type
            /\ wbb.remaining = lay[k].bits_remaining
            /\ wbb.remaining >= 0
       ELSE ~Pending
    /\ wide = 0 /\ Pending => \A p \in Width(wbb.type) .. Top : wbb.buffer[p] = {}

(***************************************************************************)
(* The inductive invariant of the writer.                                  *)
(***************************************************************************)
WriteInv ==
    /\ LayoutInv
    /\ BufferInv
    /\ ~Laid => woutcome = "writing" /\ out = <<>> /\ written = 0 /\ wbb = Empty
    /\ Regular /\ OneUnitRuns =>
         /\ woutcome = "writing" => WriterKnown(NextOut)
         /\ LengthIsWritten
         /\ UnsignedUnitsFit

-----------------------------------------------------------------------------
(* Numbers and bytes *)

\* Place b of byte i of a number of n bytes is a place below n bytes.
LEMMA PlaceInNumber ==
    ASSUME NEW n \in Nat, NEW i \in 1 .. n, NEW b \in 0 .. BYTE - 1
    PROVE  Significance(n, i) * BYTE + b \in 0 .. n * BYTE - 1
  <1>1. BYTE \in Nat \ {0}
    BY ByteAssumption
  <1>2. PICK s \in 0 .. n - 1 : s = Significance(n, i)
    BY DEF Significance
  <1>3. s * BYTE \in Nat /\ (n - 1) * BYTE = n * BYTE - BYTE
    BY <1>1, <1>2
  <1>4. s * BYTE <= (n - 1) * BYTE
    BY <1>1, <1>2
  <1>5. n * BYTE \in Nat
    BY <1>1
  <1>6. QED
    BY <1>1, <1>2, <1>3, <1>4, <1>5

LEMMA ConcatBytes ==
    \A a, b \in Seq(Bytes) : a \o b \in Seq(Bytes) /\ Len(a \o b) = Len(a) + Len(b)
  OBVIOUS

\* Writing a number of an integer type writes the bytes of the type.
LEMMA EncodeBytes ==
    ASSUME NEW t \in Integer, NEW i \in Numbers
    PROVE  Encode(i, t) \in Seq(Bytes) /\ Len(Encode(i, t)) = Size[t]
  <1>1. Size[t] \in Nat /\ Width(t) \in 1 .. Top /\ Top \in Nat
    BY KindAssumption, WidthType, TopAssumption
  <1> DEFINE Byte(j) == [b \in 0 .. BYTE - 1 |-> i[Significance(Size[t], j) * BYTE + b]]
  <1>2. ASSUME NEW j \in 1 .. Size[t]
        PROVE  Byte(j) \in Bytes
    <2>1. ASSUME NEW b \in 0 .. BYTE - 1
          PROVE  i[Significance(Size[t], j) * BYTE + b] \subseteq Source
      <3>1. Significance(Size[t], j) * BYTE + b \in Pos
        BY <1>1, PlaceInNumber DEF Width, Pos
      <3>2. QED
        BY <3>1 DEF Numbers
    <2>2. QED
      BY <2>1 DEF Bytes
  <1>3. Encode(i, t) = [j \in 1 .. Size[t] |-> Byte(j)]
    BY DEF Encode
  <1> HIDE DEF Byte
  <1>4. QED
    BY <1>1, <1>2, <1>3

\* Shifted and joined numbers are numbers.
LEMMA NumberJoins ==
    /\ \A i \in Numbers, n \in Nat : ShiftLeft(i, n) \in Numbers
    /\ \A i, j \in Numbers : BitOr(i, j) \in Numbers
  <1>1. Top \in Nat
    BY TopAssumption
  <1>2. QED
    BY <1>1 DEF ShiftLeft, BitOr, Numbers, Pos

\* The number that a unit of bytes encodes has no bits above its type, or the sign.
LEMMA DecodedFits ==
    ASSUME NEW t \in Integer, NEW bytes \in Seq(Bytes), Len(bytes) = Size[t]
    PROVE  Fits(Decode(bytes, t), t)
  <1> DEFINE u == Unsigned(bytes)
  <1>1. Size[t] \in Nat /\ Width(t) \in 1 .. Top /\ Top \in Nat
    BY KindAssumption, WidthType, TopAssumption
  <1>2. ASSUME NEW p \in Width(t) .. Top
        PROVE  u[p] = {}
    <2>1. p \in Pos
      BY <1>1 DEF Pos
    <2>2. ~ \E y \in (1 .. Len(bytes)) \X (0 .. BYTE - 1) :
               p = Significance(Len(bytes), y[1]) * BYTE + y[2]
      <3> SUFFICES ASSUME NEW i \in 1 .. Len(bytes), NEW b \in 0 .. BYTE - 1,
                          p = Significance(Len(bytes), i) * BYTE + b
                   PROVE  FALSE
        OBVIOUS
      <3>1. p \in 0 .. Size[t] * BYTE - 1
        BY <1>1, PlaceInNumber
      <3>2. Size[t] * BYTE \in Nat /\ p >= Size[t] * BYTE
        BY <1>1 DEF Width
      <3>3. QED
        BY <3>1, <3>2
    <2>3. {y \in (1 .. Len(bytes)) \X (0 .. BYTE - 1) :
             p = Significance(Len(bytes), y[1]) * BYTE + y[2]} = {}
      BY <2>2
    <2>4. UNION {bytes[x[1]][x[2]] : x \in {}} = {}
      OBVIOUS
    <2>5. QED
      BY <2>1, <2>3, <2>4 DEF Unsigned
  <1> HIDE DEF u
  <1>3. CASE t \in Signed
    <2>1. Decode(bytes, t) = [p \in Pos |-> IF p >= Width(t) THEN u[Width(t) - 1] ELSE u[p]]
      BY <1>3 DEF Decode, u
    <2>2. QED
      BY <1>1, <1>3, <2>1 DEF Fits, Pos
  <1>4. CASE t \notin Signed
    BY <1>2, <1>4 DEF Decode, Fits, u
  <1>5. QED
    BY <1>3, <1>4

-----------------------------------------------------------------------------
(* The data *)

LEMMA DataTypes ==
    ASSUME WriteTypeOK, BufferInv, NEW k \in 1 .. Len(def)
    PROVE  /\ DataBytes(k) \in Seq(Bytes) /\ Len(DataBytes(k)) = Size[def[k].type]
           /\ def[k].type \in Integer => Data(k) \in Numbers
           /\ PlainBytes(k) \in Seq(Bytes) \/ IsBits(def[k])
           /\ Len(PlainBytes(k)) = Size[def[k].type] \/ IsBits(def[k])
           /\ IsBits(def[k]) => def[k].type \in Integer
           /\ IsBits(def[k]) /\ wide = 0 =>
                 \A p \in def[k].bits .. Top : Data(k)[p] = {}
           /\ ~IsBits(def[k]) /\ wide = 0 /\ def[k].type \in Integer =>
                 Fits(Data(k), def[k].type)
  <1> DEFINE t == def[k].type
  <1>1. /\ t \in Types /\ def[k].bits \in Nat /\ Size[t] \in Nat /\ Top \in Nat
        /\ IsBits(def[k]) => t \in Integer
        /\ BYTE \in Nat
    BY FieldType, TopAssumption, ByteAssumption DEF WriteTypeOK, LayoutTypeOK
  <1>2. k \in Nat
    OBVIOUS
  <1>3. DataBytes(k) \in Seq(Bytes) /\ Len(DataBytes(k)) = Size[t]
    <2> DEFINE Bits(i, b) == {<<k, (i - 1) * BYTE + b>>}
               Byte(i) == [b \in 0 .. BYTE - 1 |-> Bits(i, b)]
    <2>1. ASSUME NEW i \in 1 .. Size[t], NEW b \in 0 .. BYTE - 1
          PROVE  Bits(i, b) \subseteq Source
      <3>1. (i - 1) * BYTE \in Nat
        BY <1>1
      <3>2. (i - 1) * BYTE + b \in Nat
        BY <1>1, <3>1
      <3>3. QED
        BY <1>2, <3>2 DEF Source
    <2>2. DataBytes(k) = [i \in 1 .. Size[t] |-> Byte(i)]
      BY DEF DataBytes
    <2>3. \A i \in 1 .. Size[t] : Byte(i) \in Bytes
      <3> HIDE DEF Bits
      <3> QED BY <2>1 DEF Bytes
    <2> HIDE DEF Byte
    <2>4. QED
      BY <1>1, <2>2, <2>3
  <1>4. ASSUME t \in Integer
        PROVE  Data(k) \in Numbers
    <2>1. [p \in Pos |-> IF p < Top THEN {<<k, p>>} ELSE {}] \in Numbers
      BY <1>1, <1>2 DEF Numbers, Pos, Source
    <2>2. [p \in Pos |-> IF p < def[k].bits THEN {<<k, p>>} ELSE {}] \in Numbers
      BY <1>1, <1>2 DEF Numbers, Pos, Source
    <2>3. Value(DataBytes(k), t) \in Numbers
      BY <1>3, <1>4, DecodeNumber DEF Value
    <2>4. QED
      BY <2>1, <2>2, <2>3 DEF Data
  <1>5. CASE ~IsBits(def[k]) /\ t \notin Integer
    <2>1. k # wide
      BY <1>2, <1>5 DEF BufferInv
    <2>2. Data(k) = DataBytes(k)
      BY <1>5, <2>1 DEF Data, Value
    <2>3. PlainBytes(k) = DataBytes(k)
      BY <1>5, <2>2 DEF PlainBytes
    <2>4. QED
      BY <1>3, <1>5, <2>3
  <1>6. CASE t \in Integer
    <2>1. Data(k) \in Numbers
      BY <1>4, <1>6
    <2>2. PlainBytes(k) \in Seq(Bytes) /\ Len(PlainBytes(k)) = Size[t]
      BY <1>6, <2>1, EncodeBytes DEF PlainBytes
    <2>3. ASSUME IsBits(def[k]), wide = 0, NEW p \in def[k].bits .. Top
          PROVE  Data(k)[p] = {}
      <3>1. Data(k) = [q \in Pos |-> IF q < def[k].bits THEN {<<k, q>>} ELSE {}]
        BY <2>3 DEF Data
      <3>2. p \in Pos /\ ~(p < def[k].bits)
        BY <1>1 DEF Pos
      <3>3. QED
        BY <3>1, <3>2
    <2>4. ASSUME ~IsBits(def[k]), wide = 0
          PROVE  Fits(Data(k), t)
      <3>1. Data(k) = Decode(DataBytes(k), t)
        BY <1>6, <2>4 DEF Data, Value
      <3>2. QED
        BY <1>3, <1>6, <3>1, DecodedFits
    <2>5. QED
      BY <1>1, <1>3, <2>1, <2>2, <2>3, <2>4
  <1>7. QED
    BY <1>1, <1>5, <1>6

\* A flush writes the bytes of the unit's type, or nothing.
LEMMA FlushTypes ==
    ASSUME WriteTypeOK, BufferInv
    PROVE  FlushedBytes \in Seq(Bytes) /\ Len(FlushedBytes) = PendingSize /\ PendingSize \in Nat
  <1>1. CASE Pending
    <2>1. wbb.type \in Integer /\ wbb.buffer \in Numbers
      BY <1>1 DEF Pending, BufferInv, WriteTypeOK, BitBuffers
    <2>2. QED
      BY <1>1, <2>1, EncodeBytes, KindAssumption, WidthType DEF FlushedBytes, PendingSize
  <1>2. CASE ~Pending
    BY <1>2 DEF FlushedBytes, PendingSize
  <1>3. QED
    BY <1>1, <1>2

\* The unit a field is put into is one of an integer type, with room in its type.
LEMMA OpenedTypes ==
    ASSUME WriteTypeOK, BufferInv, NEW t \in Integer
    PROVE  LET o == Opened(wbb, t) IN
           /\ o \in BitBuffers /\ o.type \in Integer
           /\ o.remaining <= Width(o.type) /\ Width(o.type) \in 1 .. Top
           /\ o.buffer = wbb.buffer
  <1> DEFINE o == Opened(wbb, t)
  <1>1. /\ wbb.buffer \in Numbers /\ wbb.remaining \in Int /\ wbb \in BitBuffers
        /\ t \in Types /\ Width(t) \in 1 .. Top /\ Top \in Nat
    BY KindAssumption, WidthType, TopAssumption DEF WriteTypeOK, BitBuffers
  <1>2. CASE wbb.remaining = 0
    BY <1>1, <1>2 DEF Opened, BitBuffers
  <1>3. CASE wbb.remaining # 0
    <2>1. wbb.type # None
      BY <1>3 DEF BufferInv, Empty
    <2>2. wbb.type \in Integer /\ wbb.remaining <= Width(wbb.type)
      BY <2>1 DEF BufferInv
    <2>3. Width(wbb.type) \in 1 .. Top
      BY <2>2, KindAssumption, WidthType
    <2>4. QED
      BY <1>1, <1>3, <2>2, <2>3 DEF Opened
  <1>4. QED
    BY <1>2, <1>3

LEMMA PutTypes ==
    ASSUME WriteTypeOK, BufferInv, NEW k \in 1 .. Len(def), IsBits(def[k]),
           CanPut(wbb, def[k].type, def[k].bits)
    PROVE  LET f == def[k]
               o == Opened(wbb, f.type)
               n == Put(wbb, f.type, Data(k), f.bits)
           IN /\ n \in BitBuffers
              /\ n.type = o.type /\ n.type \in Integer /\ n.type # None
              /\ n.remaining = o.remaining - f.bits
              /\ n.remaining <= Width(n.type)
              /\ f.bits \in Nat
  <1> DEFINE f == def[k]
             o == Opened(wbb, f.type)
             n == Put(wbb, f.type, Data(k), f.bits)
             shift == IF BigEndian THEN o.remaining - f.bits ELSE Width(o.type) - o.remaining
  <1>1. f.type \in Integer /\ f.bits \in Nat /\ Data(k) \in Numbers
    BY DataTypes, FieldType DEF WriteTypeOK, LayoutTypeOK
  <1>2. /\ o \in BitBuffers /\ o.type \in Integer
        /\ o.remaining <= Width(o.type) /\ Width(o.type) \in 1 .. Top
    BY <1>1, OpenedTypes
  <1>3. o.remaining \in Int /\ o.buffer \in Numbers /\ o.type \in Types \cup {None}
    BY <1>2 DEF BitBuffers
  <1>4. BigEndian => f.bits <= o.remaining
    BY DEF CanPut
  <1>5. shift \in Nat
    BY <1>1, <1>2, <1>3, <1>4, TopAssumption
  <1>6. n = [type |-> o.type, buffer |-> BitOr(o.buffer, ShiftLeft(Data(k), shift)),
             remaining |-> o.remaining - f.bits]
    BY DEF Put
  <1> HIDE DEF shift, o, n
  <1>7. BitOr(o.buffer, ShiftLeft(Data(k), shift)) \in Numbers
    BY <1>1, <1>3, <1>5, NumberJoins
  <1>8. n \in BitBuffers
    BY <1>1, <1>3, <1>6, <1>7 DEF BitBuffers
  <1>9. n.type # None
    BY <1>2, <1>6, NoneAssumption, KindAssumption
  <1>10. QED
    BY <1>1, <1>2, <1>3, <1>6, <1>8, <1>9, TopAssumption DEF n, o

-----------------------------------------------------------------------------
(* Type correctness of the writer *)

writerVars == <<layoutVars, writeVars>>

LEMMA WriteInitTypes == LayoutInit /\ WriteInit => WriteTypeOK /\ BufferInv
  <1> SUFFICES ASSUME LayoutInit, WriteInit
               PROVE  WriteTypeOK /\ BufferInv
    OBVIOUS
  <1>1. LayoutTypeOK
    BY LayoutInitTypes
  <1>2. Empty \in BitBuffers /\ Empty.type = None
    BY BufferOperators DEF Empty
  <1>3. /\ wide \in 0 .. Len(def)
        /\ wide # 0 => def[wide].type \in Integer
    BY <1>1 DEF WriteInit, LayoutTypeOK
  <1>4. QED
    BY <1>1, <1>2, <1>3 DEF WriteInit, WriteTypeOK, BufferInv, WriteOutcomes

LEMMA WriteTypes ==
    WriteTypeOK /\ BufferInv /\ [WriteNext]_writerVars => WriteTypeOK' /\ BufferInv'
  <1> SUFFICES ASSUME WriteTypeOK, BufferInv, [WriteNext]_writerVars
               PROVE  WriteTypeOK' /\ BufferInv'
    OBVIOUS
  <1> DEFINE k == NextOut
  <1>1. /\ Empty \in BitBuffers /\ Empty.type = None
        /\ FlushedBytes \in Seq(Bytes)
        /\ written \in Nat /\ Len(def) \in Nat /\ num \in Nat /\ out \in Seq(Bytes)
    BY BufferOperators, FlushTypes DEF Empty, WriteTypeOK, LayoutTypeOK
  <1>2. CASE LayoutNext /\ UNCHANGED writeVars
    <2>1. LayoutTypeOK' /\ def' = def
      BY <1>2, LayoutTypes DEF LayoutNext, BitFieldOpens, BitFieldJoins, PlainField, WriteTypeOK
    <2>2. QED
      BY <1>2, <2>1 DEF writeVars, WriteTypeOK, BufferInv
  <1>3. ASSUME UNCHANGED <<layoutVars, wide>>
        PROVE  /\ LayoutTypeOK' /\ wide' \in 0 .. Len(def')
               /\ wide' # 0 => def'[wide'].type \in Integer
    BY <1>3 DEF layoutVars, WriteTypeOK, LayoutTypeOK, BufferInv
  <1>4. ASSUME written < Len(def)
        PROVE  k \in 1 .. Len(def)
    BY <1>1, <1>4 DEF NextOut
  <1>5. CASE WriteBits /\ UNCHANGED layoutVars
    <2>1. /\ k \in 1 .. Len(def) /\ IsBits(def[k])
          /\ CanPut(wbb, def[k].type, def[k].bits)
          /\ wbb' = Put(wbb, def[k].type, Data(k), def[k].bits)
          /\ written' = k
          /\ UNCHANGED <<out, num, woutcome, wide>>
          /\ woutcome = "writing"
      BY <1>4, <1>5 DEF WriteBits, Writing
    <2>2. /\ wbb' \in BitBuffers /\ wbb'.type \in Integer /\ wbb'.type # None
          /\ wbb'.remaining <= Width(wbb'.type)
      BY <2>1, PutTypes
    <2>3. QED
      BY <1>1, <1>3, <1>5, <2>1, <2>2 DEF WriteTypeOK, BufferInv, layoutVars
  <1>6. CASE WriteBitsBeyondUnit /\ UNCHANGED layoutVars
    <2>1. /\ k \in 1 .. Len(def) /\ IsBits(def[k])
          /\ wbb' = Opened(wbb, def[k].type)
          /\ UNCHANGED <<out, written, num, wide>>
          /\ woutcome' = "ValueError"
      BY <1>4, <1>6 DEF WriteBitsBeyondUnit
    <2>2. def[k].type \in Integer
      BY <2>1, DataTypes
    <2>3. /\ wbb' \in BitBuffers /\ wbb'.type \in Integer
          /\ wbb'.remaining <= Width(wbb'.type)
      BY <2>1, <2>2, OpenedTypes
    <2>4. wbb'.type # None
      BY <2>3, NoneAssumption, KindAssumption
    <2>5. QED
      BY <1>1, <1>3, <1>6, <2>1, <2>3, <2>4 DEF WriteTypeOK, BufferInv, layoutVars, WriteOutcomes
  <1>7. CASE WritePlain /\ UNCHANGED layoutVars
    <2> DEFINE bytes == FlushedBytes \o PlainBytes(k)
    <2>1. /\ k \in 1 .. Len(def) /\ ~IsBits(def[k])
          /\ out' = out \o bytes /\ num' = num + Len(bytes)
          /\ wbb' = Empty /\ written' = k /\ woutcome = "writing"
          /\ UNCHANGED <<woutcome, wide>>
      BY <1>4, <1>7 DEF WritePlain, Writing
    <2>2. PlainBytes(k) \in Seq(Bytes)
      BY <2>1, DataTypes
    <2>3. bytes \in Seq(Bytes)
      BY <1>1, <2>2
    <2> HIDE DEF bytes
    <2>4. out' \in Seq(Bytes) /\ num' \in Nat
      BY <1>1, <2>1, <2>3
    <2>5. QED
      BY <1>1, <1>3, <1>7, <2>1, <2>4 DEF WriteTypeOK, BufferInv, layoutVars
  <1>8. CASE WriteEnd /\ UNCHANGED layoutVars
    <2>1. out' \in Seq(Bytes)
      BY <1>1, <1>8 DEF WriteEnd
    <2>2. QED
      BY <1>1, <1>3, <1>8, <2>1 DEF WriteEnd, WriteTypeOK, BufferInv, layoutVars, WriteOutcomes
  <1>9. CASE FlushFails /\ UNCHANGED layoutVars
    BY <1>3, <1>9 DEF FlushFails, WriteTypeOK, BufferInv, layoutVars, WriteOutcomes
  <1>10. CASE PlainFails /\ UNCHANGED layoutVars
    <2>1. out' \in Seq(Bytes)
      BY <1>1, <1>10 DEF PlainFails
    <2>2. QED
      BY <1>1, <1>3, <1>10, <2>1 DEF PlainFails, WriteTypeOK, BufferInv, layoutVars, WriteOutcomes
  <1>11. CASE UNCHANGED writerVars
    BY <1>3, <1>11 DEF writerVars, writeVars, WriteTypeOK, BufferInv, layoutVars
  <1>12. QED
    BY <1>2, <1>5, <1>6, <1>7, <1>8, <1>9, <1>10, <1>11 DEF WriteNext, WriteField

(***************************************************************************)
(* The variables of the writer keep their types, and a write that is done  *)
(* has handed on every field and flushed its buffer.                       *)
(***************************************************************************)
THEOREM WriteTypeCorrect == WriteSpec => []WriteTypeOK
  <1>1. QED
    BY WriteInitTypes, WriteTypes, PTL DEF WriteSpec, writerVars

-----------------------------------------------------------------------------
(* The layout and the writer *)

\* Data in the range of its bits does not reach above the room it is put into.
LEMMA PutStaysBelow ==
    ASSUME NEW buffer \in Numbers, NEW data \in Numbers,
           NEW w \in Nat, NEW bits \in Nat, NEW shift \in Nat, shift + bits <= w,
           \A p \in w .. Top : buffer[p] = {},
           \A p \in bits .. Top : data[p] = {}
    PROVE  \A p \in w .. Top : BitOr(buffer, ShiftLeft(data, shift))[p] = {}
  <1> SUFFICES ASSUME NEW p \in w .. Top
               PROVE  BitOr(buffer, ShiftLeft(data, shift))[p] = {}
    OBVIOUS
  <1>1. Top \in Nat /\ p \in Pos /\ p >= shift /\ p - shift \in bits .. Top
    BY TopAssumption DEF Pos
  <1>2. ShiftLeft(data, shift)[p] = data[p - shift]
    BY <1>1 DEF ShiftLeft
  <1>3. BitOr(buffer, ShiftLeft(data, shift))[p] = buffer[p] \cup ShiftLeft(data, shift)[p]
    BY <1>1 DEF BitOr
  <1>4. QED
    BY <1>1, <1>2, <1>3

\* The next field, and what the layout says of it
LEMMA NextWritten ==
    ASSUME WriteTypeOK, WriteInv, Laid, written < Len(def), Regular, OneUnitRuns
    PROVE  LET k == NextOut
               f == def[k]
               s == lay[k]
           IN /\ k \in 1 .. Len(def) /\ s \in LayoutState
              /\ lay[k + 1] = After(s, f)
              /\ FollowsBits(k + 1) <=> IsBits(f)
              /\ IsBits(f) /\ Opens(s, f) => ~FollowsBits(k) /\ f.bits <= Width(f.type)
              /\ IsBits(f) /\ ~Opens(s, f) =>
                    FollowsBits(k) /\ f.bits <= s.bits_remaining /\ f.type = s.bits_type
              /\ f.type \in Types /\ f.bits \in Nat /\ Size[f.type] \in Nat
              /\ Width(f.type) \in Nat
  <1> DEFINE k == NextOut
  <1>1. k \in 1 .. Len(def) /\ Len(def) = Len(lay) - 1
    BY DEF WriteTypeOK, LayoutTypeOK, NextOut, Laid
  <1>2. /\ lay[k] \in LayoutState /\ lay[k + 1] = After(lay[k], def[k]) /\ RegularField(k)
    BY <1>1, LayoutOfField DEF WriteTypeOK, WriteInv
  <1>3. /\ def[k].type \in Types /\ def[k].bits \in Nat /\ Size[def[k].type] \in Nat
        /\ Width(def[k].type) \in Nat
    BY <1>1, FieldType DEF WriteTypeOK, LayoutTypeOK
  <1>4. FollowsBits(k + 1) <=> IsBits(def[k])
    BY <1>1 DEF FollowsBits
  <1>5. IsBits(def[k]) /\ Opens(lay[k], def[k]) => ~FollowsBits(k)
    BY <1>1 DEF OneUnitRuns
  <1>6. QED
    BY <1>1, <1>2, <1>3, <1>4, <1>5 DEF RegularField, Opens

\* Advancing a known offset
LEMMA Advances ==
    ASSUME NEW offset \in Nat \cup {None}, NEW n \in Nat, Advance(offset, n) # None
    PROVE  offset # None /\ offset \in Nat /\ Advance(offset, n) = offset + n
  BY DEF Advance

LEMMA BitsKeepKnown ==
    ASSUME WriteTypeOK, WriteInv, Regular, OneUnitRuns, WriteBits, UNCHANGED layoutVars
    PROVE  WriterKnown(NextOut)'
  <1> DEFINE k == NextOut
             f == def[k]
             s == lay[k]
             o == Opened(wbb, f.type)
             shift == IF BigEndian THEN o.remaining - f.bits ELSE Width(o.type) - o.remaining
  <1>1. /\ Laid /\ woutcome = "writing" /\ written < Len(def)
        /\ IsBits(f) /\ CanPut(wbb, f.type, f.bits)
        /\ wbb' = Put(wbb, f.type, Data(k), f.bits)
        /\ written' = k
        /\ UNCHANGED <<out, wide, def, lay>>
    BY DEF WriteBits, Writing, layoutVars
  <1>2. BufferInv /\ WriterKnown(k)
    BY <1>1 DEF WriteInv
  <1>3. /\ k \in 1 .. Len(def) /\ s \in LayoutState
        /\ lay[k + 1] = After(s, f)
        /\ FollowsBits(k + 1)
        /\ Opens(s, f) => ~FollowsBits(k) /\ f.bits <= Width(f.type)
        /\ ~Opens(s, f) => FollowsBits(k) /\ f.bits <= s.bits_remaining /\ f.type = s.bits_type
        /\ f.type \in Types /\ f.bits \in Nat /\ Size[f.type] \in Nat
        /\ Width(f.type) \in Nat
    BY <1>1, NextWritten
  <1>4. /\ f.bits >= 1 /\ f.type \in Integer
        /\ s.offset \in Nat \cup {None} /\ s.bits_remaining \in Int
        /\ Len(out) \in Nat /\ wbb.remaining \in Int /\ wbb.buffer \in Numbers
        /\ Data(k) \in Numbers
        /\ wide = 0 => \A p \in f.bits .. Top : Data(k)[p] = {}
    BY <1>1, <1>2, <1>3, DataTypes DEF IsBits, LayoutState, WriteTypeOK, BitBuffers
  <1>5. NextOut' = k + 1 /\ FollowsBits(NextOut)'
    BY <1>1, <1>3 DEF NextOut, FollowsBits
  <1>6. /\ wbb'.type = o.type /\ wbb'.type # None
        /\ wbb'.remaining = o.remaining - f.bits
        /\ wbb'.buffer = BitOr(o.buffer, ShiftLeft(Data(k), shift))
    BY <1>1, <1>2, <1>3, PutTypes DEF Put
  <1>7. Pending' /\ PendingSize' = Size[o.type]
    BY <1>6 DEF Pending, PendingSize
  <1>8. CASE Opens(s, f)
    <2>1. wbb = Empty
      BY <1>2, <1>3, <1>8 DEF WriterKnown, BufferInv, Pending
    <2>2. o.type = f.type /\ o.remaining = Width(f.type) /\ o.buffer = Zero
      BY <2>1 DEF Opened, Empty
    <2>3. /\ lay[k + 1].offset = Advance(s.offset, Size[f.type])
          /\ lay[k + 1].bits_type = f.type
          /\ lay[k + 1].bits_remaining = Width(f.type) - f.bits
      BY <1>1, <1>3, <1>8 DEF After, AfterOpening
    <2>4. PendingSize = 0
      BY <2>1 DEF PendingSize, Pending, Empty
    <2>5. ASSUME lay[k + 1].offset # None
          PROVE  Len(out) + Size[f.type] = lay[k + 1].offset
      <3>1. s.offset # None /\ lay[k + 1].offset = s.offset + Size[f.type]
        BY <1>3, <1>4, <2>3, <2>5, Advances
      <3>2. Len(out) + 0 = s.offset
        BY <1>2, <2>4, <3>1 DEF WriterKnown
      <3>3. QED
        BY <1>3, <1>4, <3>1, <3>2
    <2>6. shift \in Nat /\ shift + f.bits <= Width(f.type)
      BY <1>3, <1>4, <1>8, <2>2
    <2>7. Zero \in Numbers /\ \A p \in Width(f.type) .. Top : Zero[p] = {}
      BY <1>3, NumberOperators, TopAssumption DEF Zero, Pos
    <2> HIDE DEF o, shift
    <2>8. ASSUME wide = 0
          PROVE  \A p \in Width(f.type) .. Top : wbb'.buffer[p] = {}
      <3>1. \A p \in f.bits .. Top : Data(k)[p] = {}
        BY <1>4, <2>8
      <3>2. \A p \in Width(f.type) .. Top :
               BitOr(Zero, ShiftLeft(Data(k), shift))[p] = {}
        BY <1>3, <1>4, <2>6, <2>7, <3>1, PutStaysBelow
      <3>3. QED
        BY <1>6, <2>2, <3>2
    <2>9. wbb'.remaining >= 0
      BY <1>3, <1>4, <1>6, <1>8, <2>2
    <2>10. QED
      BY <1>1, <1>5, <1>6, <1>7, <2>2, <2>3, <2>5, <2>8, <2>9 DEF WriterKnown
  <1>9. CASE ~Opens(s, f)
    <2>1. /\ Pending /\ wbb.type = s.bits_type /\ wbb.remaining = s.bits_remaining
          /\ f.bits <= wbb.remaining
      BY <1>2, <1>3, <1>9 DEF WriterKnown
    <2>2. o = wbb
      BY <1>3, <1>4, <2>1 DEF Opened
    <2>3. /\ lay[k + 1].offset = s.offset
          /\ lay[k + 1].bits_type = s.bits_type
          /\ lay[k + 1].bits_remaining = s.bits_remaining - f.bits
      BY <1>1, <1>3, <1>9 DEF After, AfterJoining
    <2>4. PendingSize = Size[wbb.type]
      BY <2>1 DEF PendingSize
    <2>5. lay[k + 1].offset # None => Len(out) + Size[wbb.type] = lay[k + 1].offset
      BY <1>2, <2>3, <2>4 DEF WriterKnown
    <2>6. /\ wbb.type = f.type /\ wbb.remaining <= Width(f.type)
      BY <1>2, <1>3, <1>9, <2>1 DEF BufferInv, Pending
    <2>7. shift \in Nat /\ shift + f.bits <= Width(f.type)
      BY <1>3, <1>4, <2>1, <2>2, <2>6
    <2>8. wide = 0 => \A p \in Width(f.type) .. Top : wbb.buffer[p] = {}
      BY <1>2, <2>1, <2>6 DEF WriterKnown
    <2> HIDE DEF o, shift
    <2>9. ASSUME wide = 0
          PROVE  \A p \in Width(f.type) .. Top : wbb'.buffer[p] = {}
      <3>1. \A p \in f.bits .. Top : Data(k)[p] = {}
        BY <1>4, <2>9
      <3>2. \A p \in Width(f.type) .. Top :
               BitOr(wbb.buffer, ShiftLeft(Data(k), shift))[p] = {}
        BY <1>3, <1>4, <2>7, <2>8, <2>9, <3>1, PutStaysBelow
      <3>3. QED
        BY <1>6, <2>2, <3>2
    <2>10. wbb'.remaining >= 0
      BY <1>3, <1>4, <1>6, <2>1, <2>2
    <2>11. QED
      BY <1>1, <1>5, <1>6, <1>7, <2>1, <2>2, <2>3, <2>5, <2>6, <2>9, <2>10 DEF WriterKnown
  <1>10. QED
    BY <1>8, <1>9

LEMMA PlainKeepsKnown ==
    ASSUME WriteTypeOK, WriteInv, Regular, OneUnitRuns, WritePlain, UNCHANGED layoutVars
    PROVE  WriterKnown(NextOut)'
  <1> DEFINE k == NextOut
             f == def[k]
             s == lay[k]
             bytes == FlushedBytes \o PlainBytes(k)
  <1>1. /\ Laid /\ woutcome = "writing" /\ written < Len(def)
        /\ ~IsBits(f)
        /\ out' = out \o bytes
        /\ wbb' = Empty
        /\ written' = k
        /\ UNCHANGED <<wide, def, lay>>
    BY DEF WritePlain, Writing, layoutVars
  <1>2. BufferInv /\ WriterKnown(k)
    BY <1>1 DEF WriteInv
  <1>3. /\ k \in 1 .. Len(def) /\ s \in LayoutState
        /\ lay[k + 1] = After(s, f)
        /\ ~FollowsBits(k + 1)
        /\ Size[f.type] \in Nat
    BY <1>1, NextWritten
  <1>4. /\ PlainBytes(k) \in Seq(Bytes) /\ Len(PlainBytes(k)) = Size[f.type]
        /\ FlushedBytes \in Seq(Bytes) /\ Len(FlushedBytes) = PendingSize
        /\ PendingSize \in Nat /\ out \in Seq(Bytes)
        /\ s.offset \in Nat \cup {None}
    BY <1>1, <1>2, <1>3, DataTypes, FlushTypes DEF WriteTypeOK, LayoutState
  <1>5. Len(out') = Len(out) + PendingSize + Size[f.type] /\ Len(out) \in Nat
    <2>1. bytes \in Seq(Bytes) /\ Len(bytes) = PendingSize + Size[f.type]
      BY <1>4, ConcatBytes
    <2>2. Len(out') = Len(out) + Len(bytes) /\ Len(out) \in Nat
      <3>1. out' = out \o bytes /\ out \in Seq(Bytes)
        BY <1>1, <1>4
      <3> HIDE DEF bytes
      <3>2. QED
        BY <2>1, <3>1, ConcatBytes
    <2>3. QED
      BY <1>3, <1>4, <2>1, <2>2
  <1>6. NextOut' = k + 1 /\ ~FollowsBits(NextOut)' /\ ~Pending' /\ PendingSize' = 0
    BY <1>1, <1>3 DEF NextOut, FollowsBits, Pending, PendingSize, Empty
  <1>7. lay[k + 1].offset # None => Len(out') = lay[k + 1].offset
    <2> SUFFICES ASSUME lay[k + 1].offset # None
                 PROVE  Len(out') = lay[k + 1].offset
      OBVIOUS
    <2>1. lay[k + 1].offset = Advance(s.offset, Size[f.type])
      BY <1>1, <1>3 DEF After, AfterPlain
    <2>2. s.offset # None /\ lay[k + 1].offset = s.offset + Size[f.type]
      BY <1>3, <1>4, <2>1, Advances
    <2>3. Len(out) + PendingSize = s.offset
      BY <1>2, <2>2 DEF WriterKnown
    <2>4. QED
      BY <1>5, <2>2, <2>3
  <1>8. Len(out') + 0 = Len(out')
    BY <1>3, <1>4, <1>5
  <1>9. QED
    BY <1>1, <1>6, <1>7, <1>8 DEF WriterKnown

\* Nothing has been written.
LEMMA WriteInvInit == LayoutInit /\ WriteInit => WriteInv
  <1> SUFFICES ASSUME LayoutInit, WriteInit
               PROVE  WriteInv
    OBVIOUS
  <1>1. def \in Seq(Fields)
    BY DefinitionsAssumption DEF LayoutInit
  <1>2. LayoutInv
    BY <1>1 DEF LayoutInit, LayoutInv
  <1>3. BufferInv
    BY WriteInitTypes
  <1>4. lay[1].offset = 0 /\ NextOut = 1 /\ ~FollowsBits(1) /\ ~Pending
    BY <1>2 DEF LayoutInv, WriteInit, NextOut, FollowsBits, Pending, Empty
  <1>5. WriterKnown(NextOut)
    BY <1>4 DEF WriterKnown, PendingSize, WriteInit
  <1>6. LengthIsWritten /\ UnsignedUnitsFit
    BY DEF LengthIsWritten, UnsignedUnitsFit, WriteInit
  <1>7. QED
    BY <1>2, <1>3, <1>5, <1>6 DEF WriteInv, WriteInit

LEMMA WriteInvStep == WriteTypeOK /\ WriteInv /\ [WriteNext]_writerVars => WriteInv'
  <1> SUFFICES ASSUME WriteTypeOK, WriteInv, [WriteNext]_writerVars
               PROVE  WriteInv'
    OBVIOUS
  <1> DEFINE k == NextOut
  <1>1. BufferInv' /\ WriteTypeOK' /\ BufferInv
    BY WriteTypes DEF WriteInv
  <1>2. CASE LayoutNext /\ UNCHANGED writeVars
    <2>1. LayoutInv' /\ ~Laid
      BY <1>2, LayoutChain DEF WriteInv, WriteTypeOK, LayoutNext, BitFieldOpens, BitFieldJoins,
         PlainField
    <2>2. /\ woutcome' = "writing" /\ out' = <<>> /\ written' = 0 /\ wbb' = Empty
      BY <1>2, <2>1 DEF WriteInv, writeVars
    <2>3. lay'[1].offset = 0 /\ NextOut' = 1 /\ ~FollowsBits(NextOut)' /\ ~Pending'
      BY <2>1, <2>2 DEF LayoutInv, NextOut, FollowsBits, Pending, Empty
    <2>4. WriterKnown(NextOut)'
      BY <2>2, <2>3 DEF WriterKnown, PendingSize
    <2>5. QED
      BY <1>1, <2>1, <2>2, <2>4 DEF WriteInv, LengthIsWritten, UnsignedUnitsFit, Empty
  <1>3. ASSUME UNCHANGED layoutVars
        PROVE  /\ LayoutInv' /\ (Laid' <=> Laid) /\ (Regular' <=> Regular)
               /\ (OneUnitRuns' <=> OneUnitRuns)
    <2>1. UNCHANGED <<def, lay, offs>>
      BY <1>3 DEF layoutVars
    <2>2. LayoutInv'
      BY <2>1 DEF WriteInv, LayoutInv
    <2>3. Laid' <=> Laid
      BY <2>1 DEF Laid
    <2>4. /\ Regular' <=> Regular
          /\ OneUnitRuns' <=> OneUnitRuns
      BY <2>1 DEF Regular, RegularField, OneUnitRuns, FollowsBits
    <2>5. QED
      BY <2>2, <2>3, <2>4
  <1>4. ASSUME UNCHANGED layoutVars, Laid,
               Regular /\ OneUnitRuns =>
                  /\ woutcome' = "writing" => WriterKnown(NextOut)'
                  /\ LengthIsWritten'
                  /\ UnsignedUnitsFit'
        PROVE  WriteInv'
    BY <1>1, <1>3, <1>4 DEF WriteInv
  <1>5. CASE WriteBits /\ UNCHANGED layoutVars
    <2>1. Laid /\ woutcome' = "writing"
      BY <1>5 DEF WriteBits, Writing
    <2>2. QED
      BY <1>4, <1>5, <2>1, BitsKeepKnown DEF LengthIsWritten, UnsignedUnitsFit
  <1>6. CASE WritePlain /\ UNCHANGED layoutVars
    <2>1. Laid /\ woutcome' = "writing"
      BY <1>6 DEF WritePlain, Writing
    <2>2. QED
      BY <1>4, <1>6, <2>1, PlainKeepsKnown DEF LengthIsWritten, UnsignedUnitsFit
  <1>7. CASE WriteBitsBeyondUnit /\ UNCHANGED layoutVars
    <2>1. Laid /\ woutcome' = "ValueError"
      BY <1>7 DEF WriteBitsBeyondUnit, Writing
    <2>2. QED
      BY <1>4, <1>7, <2>1 DEF LengthIsWritten, UnsignedUnitsFit
  <1>8. CASE WriteEnd /\ UNCHANGED layoutVars
    <2>1. /\ Laid /\ woutcome = "writing" /\ woutcome' = "done"
          /\ written = Len(def) /\ out' = out \o FlushedBytes
          /\ UNCHANGED <<def, lay>>
      BY <1>8 DEF WriteEnd, Writing, layoutVars
    <2>2. ASSUME Regular, OneUnitRuns, lay[Len(lay)].offset # None
          PROVE  Len(out') = lay[Len(lay)].offset
      <3>1. k = Len(lay)
        BY <2>1 DEF NextOut, Laid
      <3>2. Len(out) + PendingSize = lay[Len(lay)].offset
        BY <2>1, <2>2, <3>1 DEF WriteInv, WriterKnown
      <3>3. Len(out') = Len(out) + PendingSize
        BY <1>1, <2>1, FlushTypes, ConcatBytes DEF WriteTypeOK
      <3>4. QED
        BY <3>2, <3>3
    <2>3. Regular /\ OneUnitRuns => LengthIsWritten'
      BY <2>1, <2>2 DEF LengthIsWritten
    <2>4. QED
      BY <1>4, <1>8, <2>1, <2>3 DEF UnsignedUnitsFit
  <1>9. CASE FlushFails /\ UNCHANGED layoutVars
    <2>1. /\ Laid /\ woutcome = "writing" /\ woutcome' = "struct.error"
          /\ Pending /\ ~Fits(wbb.buffer, wbb.type)
          /\ UNCHANGED <<def, lay, wbb, wide>>
      BY <1>9 DEF FlushFails, Writing, layoutVars
    <2>2. ASSUME Regular, OneUnitRuns, wide = 0
          PROVE  wbb.type \in Signed
      <3>1. \A p \in Width(wbb.type) .. Top : wbb.buffer[p] = {}
        BY <2>1, <2>2 DEF WriteInv, WriterKnown
      <3>2. QED
        BY <2>1, <3>1 DEF Fits
    <2>3. Regular /\ OneUnitRuns => UnsignedUnitsFit'
      BY <2>1, <2>2 DEF UnsignedUnitsFit
    <2>4. QED
      BY <1>4, <1>9, <2>1, <2>3 DEF LengthIsWritten
  <1>10. CASE PlainFails /\ UNCHANGED layoutVars
    <2>1. /\ Laid /\ woutcome' = "struct.error" /\ written < Len(def)
          /\ ~IsBits(def[k]) /\ def[k].type \in Packed
          /\ ~Fits(Data(k), def[k].type)
          /\ UNCHANGED wide
      BY <1>10 DEF PlainFails, Writing
    <2>2. k \in 1 .. Len(def)
      BY <2>1 DEF NextOut, WriteTypeOK, LayoutTypeOK
    <2>3. wide # 0
      BY <1>1, <2>1, <2>2, DataTypes DEF Packed
    <2>4. QED
      BY <1>4, <1>10, <2>1, <2>3 DEF LengthIsWritten, UnsignedUnitsFit
  <1>11. CASE UNCHANGED writerVars
    <2>1. /\ UNCHANGED <<layoutVars, out, written, wbb, woutcome, wide>>
          /\ UNCHANGED <<def, lay>>
      BY <1>11 DEF writerVars, writeVars, layoutVars
    <2>2. /\ WriterKnown(NextOut)' <=> WriterKnown(NextOut)
          /\ LengthIsWritten' <=> LengthIsWritten
          /\ UnsignedUnitsFit' <=> UnsignedUnitsFit
      <3>1. NextOut' = NextOut /\ (Pending' <=> Pending) /\ PendingSize' = PendingSize
        BY <2>1 DEF NextOut, Pending, PendingSize
      <3>2. FollowsBits(NextOut)' <=> FollowsBits(NextOut)
        BY <2>1, <3>1 DEF FollowsBits
      <3>3. QED
        BY <1>3, <2>1, <3>1, <3>2 DEF WriterKnown, LengthIsWritten, UnsignedUnitsFit
    <2>3. QED
      BY <1>1, <1>3, <2>1, <2>2 DEF WriteInv
  <1>12. QED
    BY <1>2, <1>5, <1>6, <1>7, <1>8, <1>9, <1>10, <1>11 DEF WriteNext, WriteField

THEOREM WriteInvariant == WriteSpec => []WriteInv
  <1>1. QED
    BY WriteInvInit, WriteInvStep, WriteTypeCorrect, PTL DEF WriteSpec, writerVars

(***************************************************************************)
(* The writer, which does not look at the layout, writes as many bytes as  *)
(* the layout counts, if each run of bit fields is one unit.               *)
(***************************************************************************)
THEOREM LengthsAreWritten == WriteSpec => []LengthIsWritten
  <1>1. WriteInv => LengthIsWritten
    BY DEF WriteInv, LengthIsWritten
  <1>2. QED
    BY <1>1, WriteInvariant, PTL

(***************************************************************************)
(* Bit fields in the range of their bits make a number that an unsigned    *)
(* unit can hold: only flushing a signed unit fails.                       *)
(***************************************************************************)
THEOREM UnsignedUnitsAreFlushed == WriteSpec => []UnsignedUnitsFit
  <1>1. WriteInv => UnsignedUnitsFit
    BY DEF WriteInv, UnsignedUnitsFit
  <1>2. QED
    BY <1>1, WriteInvariant, PTL

-----------------------------------------------------------------------------
(* The round trip *)

(***************************************************************************)
(* The place of a bit field in its unit, which is the layout's: the bits   *)
(* of the fields before it are below it, or above it when big-endian.      *)
(***************************************************************************)
Used(k) == IF FollowsBits(k) THEN Width(def[k].type) - lay[k].bits_remaining ELSE 0

Place(k) == IF BigEndian THEN Width(def[k].type) - Used(k) - def[k].bits ELSE Used(k)

\* Number n has the bits of the value of bit field k at the place of the field.
Held(n, k) == \A b \in 0 .. def[k].bits - 1 : n[Place(k) + b] = {<<k, b>>}

\* Stream s has field k at position p, in a unit or in bytes of its own.
OnStream(s, p, k) ==
    LET bytes == SubSeq(s, p + 1, p + Size[def[k].type]) IN
    /\ p + Size[def[k].type] <= Len(s)
    /\ IF IsBits(def[k]) THEN k \notin Above => Held(Unsigned(bytes), k)
                         ELSE bytes = PlainBytes(k)

(***************************************************************************)
(* at[k] is the position of field k, or that of its unit: the fields and   *)
(* the units follow one another, where the layout says they are.           *)
(***************************************************************************)
EndOf(at, n) == IF n = 0 THEN 0 ELSE at[n] + Size[def[n].type]

Chained(at) ==
    \A k \in 1 .. Len(at) :
       IF IsBits(def[k]) /\ FollowsBits(k)
       THEN at[k] = at[k - 1] /\ def[k].type = def[k - 1].type
       ELSE /\ at[k] = EndOf(at, k - 1)
            /\ lay[k].offset # None => at[k] = lay[k].offset

(***************************************************************************)
(* The bits of the buffer that no field has been put into are zero, but    *)
(* for those above a value that is too large, when little-endian.          *)
(***************************************************************************)
RestIsZero ==
    IF BigEndian
    THEN \A p \in 0 .. wbb.remaining - 1 : wbb.buffer[p] = {}
    ELSE (wide \notin 1 .. written \/ ~SameRun(wide, written)) =>
            \A p \in Width(wbb.type) - wbb.remaining .. Top : wbb.buffer[p] = {}

\* Each field is in the buffer, if its unit has not been flushed, or on the stream.
FieldsHandedOn(at) ==
    /\ Len(at) = written
    /\ Len(out) + PendingSize = EndOf(at, written)
    /\ \A k \in 1 .. written :
          IF SameRun(k, written)
          THEN /\ at[k] = Len(out)
               /\ wbb.type = def[k].type
               /\ Used(k) \in Nat
               /\ Used(k) + def[k].bits <= Width(wbb.type) - wbb.remaining
               /\ k \notin Above => Held(wbb.buffer, k)
          ELSE OnStream(out, at[k], k)
    /\ Pending => RestIsZero

\* Every field of the structure is on stream s, and nothing is after it.
AllOnStream(s, at) ==
    /\ Len(at) = Len(def)
    /\ Len(s) = EndOf(at, Len(def))
    /\ \A k \in 1 .. Len(def) : OnStream(s, at[k], k)

\* The buffer holds what is left of the unit of the field that was read last.
UnitIsHeld(at) ==
    LET k == Len(vals)
        t == def[k].type
        number == Decode(SubSeq(stream, at[k] + 1, at[k] + Size[t]), t)
    IN /\ bb.type = t
       /\ bb.remaining <= Width(t)
       /\ bb.buffer = IF BigEndian THEN number ELSE ShiftRight(number, Width(t) - bb.remaining)

ReadsBack(at) ==
    /\ outcome \in {"reading", "done"}
    /\ pos = EndOf(at, Len(vals))
    /\ FollowsBits(Next1) => UnitIsHeld(at)
    /\ \A k \in 1 .. Len(vals) \ Above : vals[k] = Kept(k) \/ (k = wide /\ ~IsBits(def[k]))

(***************************************************************************)
(* The inductive invariant: one chain of positions explains what has been  *)
(* written, and then what has been read.                                   *)
(***************************************************************************)
AtRest == /\ vals = <<>> /\ sizes = <<>> /\ bb = Empty /\ pos = start
          /\ outcome = "reading"

TripHolds(at) ==
    /\ Chained(at)
    /\ woutcome = "writing" => FieldsHandedOn(at)
    /\ woutcome = "done" => AllOnStream(out, at)
    /\ phase = "read" => ReadsBack(at)

Phases ==
    /\ phase \in {"write", "read"}
    /\ start = 0
    /\ phase = "write" => stream = <<>> /\ AtRest
    /\ phase = "read" => Laid /\ woutcome = "done" /\ stream = out

TripInv ==
    /\ Phases
    /\ Laid /\ Regular /\ OneUnitRuns => \E at \in Seq(Nat) : TripHolds(at)

-----------------------------------------------------------------------------
(* Numbers and bytes *)

\* Different places of different bytes are different places of the number.
LEMMA PlacesDiffer ==
    ASSUME NEW n \in Nat, NEW i \in 1 .. n, NEW j \in 1 .. n,
           NEW b \in 0 .. BYTE - 1, NEW c \in 0 .. BYTE - 1,
           Significance(n, i) * BYTE + b = Significance(n, j) * BYTE + c
    PROVE  i = j /\ b = c
  <1>1. BYTE \in Nat \ {0}
    BY ByteAssumption
  <1>2. ASSUME NEW q \in Nat, NEW s \in Nat, NEW x \in 0 .. BYTE - 1, NEW y \in 0 .. BYTE - 1,
               q < s
        PROVE  q * BYTE + x < s * BYTE + y
    <2>1. (q + 1) * BYTE = q * BYTE + BYTE /\ q * BYTE \in Nat /\ s * BYTE \in Nat
      BY <1>1
    <2>2. PICK d \in Nat : s = (q + 1) + d
      <3>1. s - (q + 1) \in Nat /\ s = (q + 1) + (s - (q + 1))
        BY <1>2
      <3>2. QED
        BY <3>1
    <2>3. s * BYTE = (q + 1) * BYTE + d * BYTE /\ d * BYTE \in Nat
      BY <1>1, <2>2
    <2>4. QED
      BY <1>1, <2>1, <2>3
  <1> DEFINE q == Significance(n, i)
             s == Significance(n, j)
  <1>3. q \in Nat
    BY EndianAssumption DEF Significance
  <1>4. s \in Nat
    BY EndianAssumption DEF Significance
  <1>5. ~(q < s)
    <2> SUFFICES ASSUME q < s PROVE FALSE
      OBVIOUS
    <2>1. q * BYTE + b < s * BYTE + c
      <3> HIDE DEF q, s
      <3> QED BY <1>2, <1>3, <1>4
    <2>2. q * BYTE \in Int /\ s * BYTE \in Int
      <3> HIDE DEF q, s
      <3> QED BY <1>1, <1>3, <1>4
    <2>3. QED
      BY <2>1, <2>2
  <1>6. ~(s < q)
    <2> SUFFICES ASSUME s < q PROVE FALSE
      OBVIOUS
    <2>1. s * BYTE + c < q * BYTE + b
      <3> HIDE DEF q, s
      <3> QED BY <1>2, <1>3, <1>4
    <2>2. q * BYTE \in Int /\ s * BYTE \in Int
      <3> HIDE DEF q, s
      <3> QED BY <1>1, <1>3, <1>4
    <2>3. QED
      BY <2>1, <2>2
  <1>7. q = s
    <2> HIDE DEF q, s
    <2> QED BY <1>3, <1>4, <1>5, <1>6
  <1>8. i = j
    BY <1>7, EndianAssumption DEF Significance
  <1>9. q * BYTE \in Int
    <2> HIDE DEF q
    <2> QED BY <1>1, <1>3
  <1>10. QED
    BY <1>7, <1>8, <1>9

\* A bit of the bytes is the bit of the number at its place.
LEMMA BitOfBytes ==
    ASSUME NEW bytes \in Seq(Bytes), NEW i \in 1 .. Len(bytes), NEW b \in 0 .. BYTE - 1,
           Significance(Len(bytes), i) * BYTE + b \in Pos
    PROVE  Unsigned(bytes)[Significance(Len(bytes), i) * BYTE + b] = bytes[i][b]
  <1> DEFINE p == Significance(Len(bytes), i) * BYTE + b
             At == {y \in (1 .. Len(bytes)) \X (0 .. BYTE - 1) :
                      p = Significance(Len(bytes), y[1]) * BYTE + y[2]}
  <1>1. ASSUME NEW y \in At
        PROVE  y = <<i, b>>
    <2>1. y[1] \in 1 .. Len(bytes) /\ y[2] \in 0 .. BYTE - 1 /\ y = <<y[1], y[2]>>
      OBVIOUS
    <2>2. y[1] = i /\ y[2] = b
      BY <2>1, PlacesDiffer
    <2>3. QED
      BY <2>1, <2>2
  <1>2. <<i, b>> \in At
    OBVIOUS
  <1>3. At = {<<i, b>>}
    BY <1>1, <1>2
  <1>4. Unsigned(bytes)[p] = UNION {bytes[x[1]][x[2]] : x \in At}
    BY DEF Unsigned
  <1> HIDE DEF At
  <1>5. UNION {bytes[x[1]][x[2]] : x \in {<<i, b>>}} = bytes[i][b]
    OBVIOUS
  <1>6. QED
    BY <1>3, <1>4, <1>5

\* Every place of a number of n bytes is one of a byte.
LEMMA PlaceOfNumber ==
    ASSUME NEW n \in Nat, NEW p \in 0 .. n * BYTE - 1
    PROVE  \E i \in 1 .. n, b \in 0 .. BYTE - 1 : p = Significance(n, i) * BYTE + b
  <1>1. BYTE \in Nat \ {0} /\ n * BYTE \in Nat
    BY ByteAssumption
  <1>2. PICK q \in Int, b \in 0 .. BYTE - 1 : p = q * BYTE + b
    <2>1. p = (p \div BYTE) * BYTE + (p % BYTE)
      BY <1>1
    <2>2. p \div BYTE \in Int /\ p % BYTE \in 0 .. BYTE - 1
      BY <1>1
    <2>3. QED
      BY <2>1, <2>2
  <1>3. q \in 0 .. n - 1
    <2>1. CASE q < 0
      <3>1. PICK d \in Nat : q = -1 - d
        <4>1. -1 - q \in Nat /\ q = -1 - (-1 - q)
          BY <2>1
        <4>2. QED
          BY <4>1
      <3>2. q * BYTE = -BYTE - d * BYTE /\ d * BYTE \in Nat
        BY <1>1, <3>1
      <3>3. QED
        BY <1>1, <1>2, <3>2
    <2>2. CASE q >= n
      <3>1. PICK d \in Nat : q = n + d
        <4>1. q - n \in Nat /\ q = n + (q - n)
          BY <2>2
        <4>2. QED
          BY <4>1
      <3>2. q * BYTE = n * BYTE + d * BYTE /\ d * BYTE \in Nat
        BY <1>1, <3>1
      <3>3. QED
        BY <1>1, <1>2, <3>2
    <2>3. QED
      BY <2>1, <2>2
  <1>4. CASE BigEndian
    <2>1. n - q \in 1 .. n /\ Significance(n, n - q) = q
      BY <1>3, <1>4 DEF Significance
    <2>2. QED
      BY <1>2, <2>1
  <1>5. CASE ~BigEndian
    <2>1. q + 1 \in 1 .. n /\ Significance(n, q + 1) = q
      BY <1>3, <1>5 DEF Significance
    <2>2. QED
      BY <1>2, <2>1
  <1>6. QED
    BY <1>4, <1>5

\* A number that is written has its bits in the bytes, those that the type has room for.
LEMMA EncodedBits ==
    ASSUME NEW t \in Integer, NEW n \in Numbers, NEW p \in 0 .. Width(t) - 1
    PROVE  Unsigned(Encode(n, t))[p] = n[p]
  <1>1. Size[t] \in Nat /\ Width(t) \in 1 .. Top /\ Top \in Nat /\ Width(t) = Size[t] * BYTE
    BY KindAssumption, WidthType, TopAssumption DEF Width
  <1>2. Encode(n, t) \in Seq(Bytes) /\ Len(Encode(n, t)) = Size[t]
    BY EncodeBytes
  <1>3. PICK i \in 1 .. Size[t], b \in 0 .. BYTE - 1 : p = Significance(Size[t], i) * BYTE + b
    BY <1>1, PlaceOfNumber
  <1>4. p \in Pos
    BY <1>1 DEF Pos
  <1>5. Unsigned(Encode(n, t))[p] = Encode(n, t)[i][b]
    BY <1>2, <1>3, <1>4, BitOfBytes
  <1>6. Encode(n, t)[i][b] = n[p]
    BY <1>3 DEF Encode
  <1>7. QED
    BY <1>5, <1>6

\* The bits of a number below its sign are those of its bytes.
LEMMA DecodedBits ==
    ASSUME NEW t \in Integer, NEW bytes \in Seq(Bytes), NEW p \in 0 .. Width(t) - 1
    PROVE  Decode(bytes, t)[p] = Unsigned(bytes)[p]
  <1>1. Width(t) \in 1 .. Top /\ Top \in Nat
    BY KindAssumption, WidthType, TopAssumption
  <1>2. QED
    BY <1>1 DEF Decode, Pos

\* A number in the range of its type is written and read again.
LEMMA RestoredNumber ==
    ASSUME NEW t \in Integer, NEW n \in Numbers, Fits(n, t)
    PROVE  Decode(Encode(n, t), t) = n
  <1> DEFINE bytes == Encode(n, t)
             d == Decode(bytes, t)
  <1>1. Width(t) \in 1 .. Top /\ Top \in Nat
    BY KindAssumption, WidthType, TopAssumption
  <1>2. bytes \in Seq(Bytes) /\ Len(bytes) = Size[t]
    BY EncodeBytes
  <1>3. d \in Numbers /\ Fits(d, t)
    BY <1>2, DecodeNumber, DecodedFits
  <1>4. ASSUME NEW p \in 0 .. Width(t) - 1
        PROVE  d[p] = n[p]
    BY <1>2, EncodedBits, DecodedBits
  <1>5. ASSUME NEW p \in Pos
        PROVE  d[p] = n[p]
    <2>1. CASE p < Width(t)
      <3>1. p \in 0 .. Width(t) - 1
        BY <1>1, <2>1 DEF Pos
      <3>2. QED
        BY <3>1, <1>4
    <2>2. CASE p >= Width(t)
      <3> HIDE DEF d
      <3>1. Width(t) - 1 \in 0 .. Width(t) - 1 /\ p \in Width(t) .. Top
        BY <1>1, <2>2 DEF Pos
      <3>2. CASE t \in Signed
        <4>1. d[p] = d[Top] /\ d[Width(t) - 1] = d[Top]
          BY <1>1, <1>3, <3>1, <3>2 DEF Fits
        <4>2. n[p] = n[Top] /\ n[Width(t) - 1] = n[Top]
          BY <1>1, <3>1, <3>2 DEF Fits
        <4>3. QED
          BY <1>4, <3>1, <4>1, <4>2
      <3>3. CASE t \notin Signed
        BY <1>3, <3>1, <3>3 DEF Fits
      <3>4. QED
        BY <3>2, <3>3
    <2>3. QED
      BY <1>1, <2>1, <2>2 DEF Pos
  <1>6. QED
    <2> HIDE DEF d
    <2>1. d = n
      BY <1>3, <1>5 DEF Numbers
    <2>2. QED
      BY <2>1 DEF d

-----------------------------------------------------------------------------
(* Streams and chains of positions *)

\* What is in a stream stays there when more is written.
LEMMA PartsOfStream ==
    ASSUME NEW s \in Seq(Bytes), NEW more \in Seq(Bytes)
    PROVE  /\ \A p, n \in Nat : p + n <= Len(s) =>
                 SubSeq(s \o more, p + 1, p + n) = SubSeq(s, p + 1, p + n)
           /\ SubSeq(s \o more, Len(s) + 1, Len(s) + Len(more)) = more
  OBVIOUS

LEMMA StaysOnStream ==
    ASSUME LayoutTypeOK, NEW s \in Seq(Bytes), NEW more \in Seq(Bytes),
           NEW k \in 1 .. Len(def), NEW p \in Nat, OnStream(s, p, k)
    PROVE  OnStream(s \o more, p, k)
  <1> DEFINE n == Size[def[k].type]
  <1>1. n \in Nat /\ p + n <= Len(s)
    BY FieldType DEF LayoutTypeOK, OnStream
  <1>2. SubSeq(s \o more, p + 1, p + n) = SubSeq(s, p + 1, p + n)
    BY <1>1, PartsOfStream
  <1>3. p + n <= Len(s \o more)
    BY <1>1, ConcatBytes
  <1>4. QED
    BY <1>2, <1>3 DEF OnStream

\* The next field continues the unit before it, or comes after what is before it.
LEMMA ChainGrows ==
    ASSUME LayoutTypeOK, NEW at \in Seq(Nat), Chained(at), Len(at) < Len(def),
           NEW x \in Nat,
           LET k == Len(at) + 1 IN
           IF IsBits(def[k]) /\ FollowsBits(k)
           THEN x = at[k - 1] /\ def[k].type = def[k - 1].type
           ELSE x = EndOf(at, k - 1) /\ (lay[k].offset # None => x = lay[k].offset)
    PROVE  LET n == Append(at, x) IN
           /\ n \in Seq(Nat) /\ Len(n) = Len(at) + 1
           /\ Chained(n)
           /\ \A k \in 1 .. Len(at) : n[k] = at[k]
           /\ n[Len(at) + 1] = x
           /\ EndOf(n, Len(at) + 1) = x + Size[def[Len(at) + 1].type]
  <1> DEFINE n == Append(at, x)
             l == Len(at)
  <1>1. /\ n \in Seq(Nat) /\ Len(n) = l + 1 /\ l \in Nat
        /\ \A k \in 1 .. l : n[k] = at[k]
        /\ n[l + 1] = x
    OBVIOUS
  <1>2. \A k \in 1 .. l + 1 : EndOf(n, k - 1) = EndOf(at, k - 1)
    BY <1>1 DEF EndOf
  <1>3. EndOf(n, l + 1) = x + Size[def[l + 1].type]
    BY <1>1 DEF EndOf
  <1> HIDE DEF n
  <1>4. ASSUME NEW k \in 1 .. l + 1
        PROVE  IF IsBits(def[k]) /\ FollowsBits(k)
               THEN n[k] = n[k - 1] /\ def[k].type = def[k - 1].type
               ELSE /\ n[k] = EndOf(n, k - 1)
                    /\ lay[k].offset # None => n[k] = lay[k].offset
    <2>1. FollowsBits(k) => k - 1 \in 1 .. l
      BY <1>1 DEF FollowsBits
    <2>2. CASE k = l + 1
      BY <1>1, <1>2, <2>1, <2>2
    <2>3. CASE k # l + 1
      <3>1. k \in 1 .. l
        BY <1>1, <2>3
      <3>2. n[k] = at[k] /\ (FollowsBits(k) => n[k - 1] = at[k - 1])
        BY <1>1, <2>1, <3>1
      <3>3. EndOf(n, k - 1) = EndOf(at, k - 1)
        BY <1>2
      <3>4. QED
        BY <3>1, <3>2, <3>3 DEF Chained
    <2>4. QED
      BY <2>2, <2>3
  <1>5. Chained(n)
    BY <1>1, <1>4 DEF Chained
  <1>6. QED
    BY <1>1, <1>3, <1>5 DEF n

-----------------------------------------------------------------------------
(* Writing bit fields *)

\* The low bits of the data of a bit field are its own, and the others zero.
LEMMA DataBits ==
    ASSUME WriteTypeOK, BufferInv, NEW k \in 1 .. Len(def), IsBits(def[k]),
           def[k].bits <= Width(def[k].type)
    PROVE  /\ Data(k) \in Numbers
           /\ \A b \in 0 .. def[k].bits - 1 : Data(k)[b] = {<<k, b>>}
           /\ k # wide => \A p \in def[k].bits .. Top : Data(k)[p] = {}
  <1>1. def[k].type \in Integer /\ Data(k) \in Numbers
    BY DataTypes
  <1>2. def[k].bits \in Nat /\ def[k].bits <= Top /\ Top \in Nat
    <2>1. def[k].type \in Types /\ def[k].bits \in Nat
      BY FieldType DEF WriteTypeOK, LayoutTypeOK
    <2>2. Width(def[k].type) \in 1 .. Top /\ Top \in Nat
      BY <1>1, <2>1, WidthType, TopAssumption
    <2>3. QED
      BY <2>1, <2>2
  <1>3. QED
    BY <1>1, <1>2 DEF Data, Pos

\* A bit field is put at its place into the unit the layout has it in.
LEMMA PutInPlace ==
    ASSUME WriteTypeOK, WriteInv, Regular, OneUnitRuns, WriteBits, UNCHANGED layoutVars
    PROVE  LET k == NextOut
               f == def[k]
           IN /\ k \in 1 .. Len(def) /\ k = written + 1 /\ IsBits(f)
              /\ f.type \in Integer /\ f.bits \in Nat /\ f.bits >= 1
              /\ Width(f.type) \in 1 .. Top /\ Size[f.type] \in Nat
              /\ Used(k) \in Nat /\ Used(k) + f.bits <= Width(f.type)
              /\ wbb.buffer \in Numbers /\ Data(k) \in Numbers
              /\ wbb'.type = f.type
              /\ wbb'.remaining = Width(f.type) - Used(k) - f.bits
              /\ wbb'.buffer = BitOr(wbb.buffer, ShiftLeft(Data(k), Place(k)))
              /\ IF FollowsBits(k)
                 THEN /\ Pending /\ wbb.type = f.type
                      /\ wbb.remaining = Width(f.type) - Used(k)
                 ELSE wbb = Empty /\ Used(k) = 0
              /\ written' = k
              /\ UNCHANGED <<out, woutcome, wide, def, lay>>
  <1> DEFINE k == NextOut
             f == def[k]
             s == lay[k]
             o == Opened(wbb, f.type)
             shift == IF BigEndian THEN o.remaining - f.bits ELSE Width(o.type) - o.remaining
  <1>1. /\ Laid /\ woutcome = "writing" /\ written < Len(def)
        /\ IsBits(f) /\ CanPut(wbb, f.type, f.bits)
        /\ wbb' = Put(wbb, f.type, Data(k), f.bits)
        /\ written' = k
        /\ UNCHANGED <<out, woutcome, wide, def, lay>>
    BY DEF WriteBits, Writing, layoutVars
  <1>2. BufferInv /\ WriterKnown(k)
    BY <1>1 DEF WriteInv
  <1>3. /\ k \in 1 .. Len(def) /\ s \in LayoutState
        /\ Opens(s, f) => ~FollowsBits(k) /\ f.bits <= Width(f.type)
        /\ ~Opens(s, f) => FollowsBits(k) /\ f.bits <= s.bits_remaining /\ f.type = s.bits_type
        /\ f.type \in Types /\ f.bits \in Nat /\ Size[f.type] \in Nat
    BY <1>1, NextWritten
  <1>4. /\ f.bits >= 1 /\ f.type \in Integer /\ Width(f.type) \in 1 .. Top
        /\ s.bits_remaining \in Int
        /\ wbb.remaining \in Int /\ wbb.buffer \in Numbers
        /\ Data(k) \in Numbers
    BY <1>1, <1>2, <1>3, DataTypes, WidthType
       DEF IsBits, LayoutState, WriteTypeOK, BitBuffers
  <1>5. /\ wbb'.type = o.type
        /\ wbb'.remaining = o.remaining - f.bits
        /\ wbb'.buffer = BitOr(o.buffer, ShiftLeft(Data(k), shift))
    BY <1>1 DEF Put
  <1>6. k = written + 1 /\ IsBits(f)
    BY <1>1 DEF NextOut
  <1>7. CASE ~FollowsBits(k)
    <2>1. wbb = Empty
      BY <1>2, <1>7 DEF WriterKnown, BufferInv, Pending
    <2>2. o.type = f.type /\ o.remaining = Width(f.type) /\ o.buffer = wbb.buffer
      BY <2>1 DEF Opened, Empty
    <2>3. Used(k) = 0 /\ f.bits <= Width(f.type)
      BY <1>3, <1>7 DEF Used
    <2>4. shift = Place(k)
      BY <1>4, <2>2, <2>3 DEF Place
    <2> HIDE DEF o, shift
    <2>5. QED
      BY <1>1, <1>3, <1>4, <1>5, <1>6, <1>7, <2>1, <2>2, <2>3, <2>4
  <1>8. CASE FollowsBits(k)
    <2>1. /\ Pending /\ wbb.type = s.bits_type /\ wbb.remaining = s.bits_remaining
          /\ f.bits <= wbb.remaining /\ f.type = wbb.type
      BY <1>2, <1>3, <1>8 DEF WriterKnown
    <2>2. wbb.remaining <= Width(f.type)
      BY <1>2, <2>1 DEF BufferInv, Pending
    <2>3. o = wbb
      BY <1>3, <1>4, <2>1 DEF Opened
    <2>4. Used(k) = Width(f.type) - wbb.remaining
      BY <1>8, <2>1 DEF Used
    <2>5. shift = Place(k)
      BY <1>3, <1>4, <2>1, <2>3, <2>4 DEF Place
    <2> HIDE DEF o, shift
    <2>6. wbb'.remaining = Width(f.type) - Used(k) - f.bits
      BY <1>3, <1>4, <1>5, <2>3, <2>4
    <2>7. Used(k) \in Nat /\ Used(k) + f.bits <= Width(f.type)
          /\ wbb.remaining = Width(f.type) - Used(k)
      BY <1>3, <1>4, <2>1, <2>2, <2>4
    <2>8. QED
      BY <1>1, <1>3, <1>4, <1>5, <1>6, <1>8, <2>1, <2>3, <2>5, <2>6, <2>7
  <1>9. QED
    BY <1>7, <1>8

\* The places and the data of the fields do not change.
LEMMA SamePlaces ==
    ASSUME UNCHANGED <<def, lay, wide>>
    PROVE  /\ Above' = Above
           /\ \A j : Place(j)' = Place(j) /\ Used(j)' = Used(j)
           /\ \A j, k : SameRun(j, k)' = SameRun(j, k)
           /\ \A j : PlainBytes(j)' = PlainBytes(j)
           /\ \A j : Data(j)' = Data(j) /\ Kept(j)' = Kept(j)
           /\ \A at : Chained(at)' = Chained(at)
           /\ \A at, n : EndOf(at, n)' = EndOf(at, n)
  <1>1. \A j, k : SameRun(j, k)' = SameRun(j, k)
    BY DEF SameRun
  <1>2. Above' = Above
    BY DEF Above, SameRun
  <1>3. \A j : Place(j)' = Place(j) /\ Used(j)' = Used(j)
    BY DEF Place, Used, FollowsBits
  <1>4. \A j : DataBytes(j)' = DataBytes(j)
    BY DEF DataBytes
  <1>5. \A j : Data(j)' = Data(j)
    BY <1>4 DEF Data
  <1>6. \A j : PlainBytes(j)' = PlainBytes(j) /\ Kept(j)' = Kept(j)
    BY <1>5 DEF PlainBytes, Kept
  <1>7. \A at, n : EndOf(at, n)' = EndOf(at, n)
    BY DEF EndOf
  <1>8. \A at : Chained(at)' = Chained(at)
    BY DEF Chained, EndOf, FollowsBits
  <1>9. QED
    BY <1>1, <1>2, <1>3, <1>5, <1>6, <1>7, <1>8

LEMMA SameOnStream ==
    ASSUME UNCHANGED <<def, lay, wide>>, NEW p, NEW k,
           OnStream(out', p, k)
    PROVE  OnStream(out, p, k)'
  <1>1. Above' = Above /\ Place(k)' = Place(k) /\ PlainBytes(k)' = PlainBytes(k)
    BY SamePlaces
  <1>2. QED
    BY <1>1 DEF OnStream, Held

\* A bit field makes a run with the bit fields directly before it.
LEMMA RunGrows ==
    ASSUME NEW n \in Nat, IsBits(def[n + 1]), NEW j \in 1 .. n
    PROVE  SameRun(j, n + 1) <=> SameRun(j, n)
  BY DEF SameRun

LEMMA RunOfBits ==
    ASSUME NEW j \in Nat, NEW k \in Nat, j <= k, SameRun(j, k)
    PROVE  IsBits(def[j]) /\ IsBits(def[k])
  BY DEF SameRun

\* The bit field has its bits in the buffer, and the others keep theirs.
LEMMA BitsAreHeld ==
    ASSUME WriteTypeOK, WriteInv, Regular, OneUnitRuns, WriteBits, UNCHANGED layoutVars,
           Pending => RestIsZero
    PROVE  /\ NextOut \notin Above => Held(wbb'.buffer, NextOut)
           /\ \A j \in 1 .. written :
                 /\ SameRun(j, written) /\ j \notin Above
                 /\ def[j].type = def[NextOut].type
                 /\ Used(j) \in Nat /\ def[j].bits \in Nat
                 /\ Used(j) + def[j].bits <= Used(NextOut)
                 /\ Held(wbb.buffer, j)
                 => Held(wbb'.buffer, j)
           /\ RestIsZero'
  <1> DEFINE k == NextOut
             f == def[k]
             w == Width(f.type)
             u == Used(k)
             data == Data(k)
             old == wbb.buffer
             new == wbb'.buffer
             shift == Place(k)
  <1>1. /\ k \in 1 .. Len(def) /\ k = written + 1 /\ IsBits(f)
        /\ f.bits \in Nat /\ f.bits >= 1
        /\ w \in 1 .. Top
        /\ u \in Nat /\ u + f.bits <= w
        /\ old \in Numbers /\ data \in Numbers
        /\ wbb'.type = f.type
        /\ wbb'.remaining = w - u - f.bits
        /\ new = BitOr(old, ShiftLeft(data, shift))
        /\ IF FollowsBits(k) THEN Pending /\ wbb.type = f.type /\ wbb.remaining = w - u
                             ELSE wbb = Empty /\ u = 0
        /\ written' = k
        /\ UNCHANGED <<out, wide, def, lay>>
    BY PutInPlace
  <1>2. BufferInv /\ Laid /\ written \in Nat /\ wide \in Nat
    BY DEF WriteInv, WriteBits, Writing, WriteTypeOK
  <1>3. /\ \A b \in 0 .. f.bits - 1 : data[b] = {<<k, b>>}
        /\ k # wide => \A p \in f.bits .. Top : data[p] = {}
    <2>1. f.bits <= w
      BY <1>1
    <2>2. QED
      BY <1>1, <1>2, <2>1, DataBits
  <1>4. Top \in Nat /\ shift \in Nat
        /\ shift = IF BigEndian THEN w - u - f.bits ELSE u
    BY <1>1, TopAssumption DEF Place
  <1>5. \A p \in Pos : new[p] = old[p] \cup (IF p >= shift THEN data[p - shift] ELSE {})
    BY <1>1 DEF BitOr, ShiftLeft
  <1>6. \A j \in 1 .. written : SameRun(j, k) <=> SameRun(j, written)
    BY <1>1, <1>2, RunGrows
  <1>7. SameRun(k, k)
    BY <1>1 DEF SameRun
  \* The room the field is put into is zero.
  <1>8. ASSUME ~BigEndian => (wide \notin 1 .. written \/ ~SameRun(wide, written)),
               NEW p \in Pos, IF BigEndian THEN p < w - u ELSE p >= u
        PROVE  old[p] = {}
    <2>1. CASE FollowsBits(k)
      <3>1. RestIsZero
        BY <1>1, <2>1
      <3>2. CASE BigEndian
        BY <1>1, <1>8, <2>1, <3>1, <3>2 DEF RestIsZero, Pos
      <3>3. CASE ~BigEndian
        BY <1>1, <1>4, <1>8, <2>1, <3>1, <3>3 DEF RestIsZero, Pos
      <3>4. QED
        BY <3>2, <3>3
    <2>2. CASE ~FollowsBits(k)
      BY <1>1, <1>8, <2>2 DEF Empty, Zero
    <2>3. QED
      BY <2>1, <2>2
  <1>9. ASSUME k \notin Above
        PROVE  Held(new, k)
    <2>1. ~BigEndian => (wide \notin 1 .. written \/ ~SameRun(wide, written))
      <3> SUFFICES ASSUME ~BigEndian, wide \in 1 .. written, SameRun(wide, written)
                   PROVE  FALSE
        OBVIOUS
      <3>1. SameRun(wide, k) /\ wide # 0 /\ k > wide /\ k # wide
        BY <1>1, <1>2, <1>6
      <3>2. QED
        BY <1>1, <1>9, <3>1 DEF Above
    <2>2. ASSUME NEW b \in 0 .. f.bits - 1
          PROVE  new[shift + b] = {<<k, b>>}
      <3>1. /\ shift + b \in Pos
            /\ IF BigEndian THEN shift + b < w - u ELSE shift + b >= u
        BY <1>1, <1>4 DEF Pos
      <3>2. old[shift + b] = {}
        BY <1>8, <2>1, <3>1
      <3>3. shift + b >= shift /\ (shift + b) - shift = b
        BY <1>4
      <3>4. QED
        BY <1>3, <1>5, <3>1, <3>2, <3>3
    <2>3. QED
      BY <2>2 DEF Held
  <1>10. ASSUME NEW j \in 1 .. written, SameRun(j, written), j \notin Above,
                def[j].type = f.type, Used(j) \in Nat, def[j].bits \in Nat,
                Used(j) + def[j].bits <= u, Held(old, j)
         PROVE  Held(new, j)
    <2>1. Place(j) = IF BigEndian THEN w - Used(j) - def[j].bits ELSE Used(j)
      BY <1>10 DEF Place
    <2>2. BigEndian => k # wide
      <3> SUFFICES ASSUME BigEndian, k = wide
                   PROVE  FALSE
        OBVIOUS
      <3>1. SameRun(j, wide) /\ wide # 0 /\ j < wide /\ j \in 1 .. Len(def) \ {wide}
        BY <1>1, <1>2, <1>6, <1>10
      <3>2. QED
        BY <1>10, <3>1 DEF Above
    <2>3. ASSUME NEW b \in 0 .. def[j].bits - 1
          PROVE  new[Place(j) + b] = {<<j, b>>}
      <3> DEFINE p == Place(j) + b
      <3>1. p \in Pos /\ (BigEndian => p - shift \in f.bits .. Top)
        <4>1. /\ Used(j) \in Nat /\ def[j].bits \in Nat /\ b \in 0 .. def[j].bits - 1
              /\ Used(j) + def[j].bits <= u
          BY <1>10
        <4>2. p = IF BigEndian THEN w - Used(j) - def[j].bits + b ELSE Used(j) + b
          BY <2>1
        <4>3. w \in Nat /\ w <= Top /\ Top \in Nat /\ u \in Nat /\ u + f.bits <= w /\ f.bits \in Nat
          BY <1>1, <1>4
        <4>4. BigEndian => shift = w - u - f.bits
          BY <1>4
        <4> HIDE DEF w, u, shift, p, f
        <4>5. QED
          BY <4>1, <4>2, <4>3, <4>4 DEF Pos
      <3>2. old[p] = {<<j, b>>}
        BY <1>10 DEF Held
      <3>3. p >= shift => data[p - shift] = {}
        <4>1. CASE BigEndian
          BY <1>3, <2>2, <3>1, <4>1
        <4>2. CASE ~BigEndian
          BY <1>1, <1>4, <1>10, <2>1, <4>2
        <4>3. QED
          BY <4>1, <4>2
      <3> HIDE DEF p
      <3>4. new[p] = {<<j, b>>}
        BY <1>5, <3>1, <3>2, <3>3
      <3>5. QED
        BY <3>4 DEF p
    <2>4. QED
      BY <2>3 DEF Held
  <1>11. RestIsZero'
    <2>1. CASE BigEndian
      <3>1. ASSUME NEW p \in 0 .. wbb'.remaining - 1
            PROVE  new[p] = {}
        <4>1. p \in Pos /\ p < w - u /\ ~(p >= shift)
          BY <1>1, <1>4, <2>1 DEF Pos
        <4>2. QED
          BY <1>5, <1>8, <2>1, <4>1
      <3>2. QED
        BY <2>1, <3>1 DEF RestIsZero
    <2>2. CASE ~BigEndian
      <3>1. ASSUME wide \notin 1 .. k \/ ~SameRun(wide, k),
                   NEW p \in w - wbb'.remaining .. Top
            PROVE  new[p] = {}
        <4>1. k # wide
          BY <1>1, <1>7, <3>1
        <4>2. wide \notin 1 .. written \/ ~SameRun(wide, written)
          BY <1>1, <1>2, <1>6, <3>1
        <4>3. p \in Pos /\ p >= u /\ p - shift \in f.bits .. Top /\ p >= shift
          BY <1>1, <1>4, <2>2 DEF Pos
        <4>4. old[p] = {}
          BY <1>8, <2>2, <4>2, <4>3
        <4>5. data[p - shift] = {}
          BY <1>3, <4>1, <4>3
        <4>6. QED
          BY <1>5, <4>3, <4>4, <4>5
      <3>2. (wide \notin 1 .. written \/ ~SameRun(wide, written))' <=>
              (wide \notin 1 .. k \/ ~SameRun(wide, k))
        BY <1>1 DEF SameRun
      <3>3. (\A p \in Width(wbb.type) - wbb.remaining .. Top : wbb.buffer[p] = {})' <=>
              (\A p \in w - wbb'.remaining .. Top : new[p] = {})
        BY <1>1
      <3>4. QED
        BY <2>2, <3>1, <3>2, <3>3 DEF RestIsZero
    <2>3. QED
      BY <2>1, <2>2
  <1>12. QED
    BY <1>9, <1>10, <1>11

\* A bit field is handed to the buffer.
LEMMA BitsHandedOn ==
    ASSUME WriteTypeOK, WriteInv, Regular, OneUnitRuns, WriteBits, UNCHANGED layoutVars,
           NEW at \in Seq(Nat), Chained(at), FieldsHandedOn(at),
           NEW l \in Nat, l = Len(out)
    PROVE  LET next == Append(at, l) IN
           next \in Seq(Nat) /\ Chained(next)' /\ FieldsHandedOn(next)'
  <1> DEFINE k == NextOut
             f == def[k]
             w == Width(f.type)
             next == Append(at, l)
  <1>1. /\ k \in 1 .. Len(def) /\ k = written + 1 /\ IsBits(f)
        /\ f.bits \in Nat /\ f.bits >= 1 /\ f.type \in Integer
        /\ w \in 1 .. Top /\ Size[f.type] \in Nat
        /\ Used(k) \in Nat /\ Used(k) + f.bits <= w
        /\ wbb'.type = f.type
        /\ wbb'.remaining = w - Used(k) - f.bits
        /\ IF FollowsBits(k) THEN Pending /\ wbb.type = f.type /\ wbb.remaining = w - Used(k)
                             ELSE wbb = Empty /\ Used(k) = 0
        /\ written' = k
        /\ UNCHANGED <<out, woutcome, wide, def, lay>>
    BY PutInPlace
  <1>2. /\ LayoutTypeOK /\ WriterKnown(k) /\ written \in Nat /\ Len(out) \in Nat /\ Len(def) \in Nat
        /\ out \in Seq(Bytes)
        /\ Len(at) = written
        /\ Len(out) + PendingSize = EndOf(at, written)
    BY DEF WriteInv, WriteBits, Writing, WriteTypeOK, FieldsHandedOn
  <1>3. \A j \in 1 .. written : SameRun(j, k) <=> SameRun(j, written)
    BY <1>1, <1>2, RunGrows
  <1>4. /\ \A j \in 1 .. k : j = k \/ j \in 1 .. written
        /\ \A j \in 1 .. written : j \in 1 .. Len(def) /\ j # k
    <2> HIDE DEF k
    <2> QED BY <1>1, <1>2
  <1>5. IF IsBits(def[k]) /\ FollowsBits(k)
        THEN l = at[k - 1] /\ def[k].type = def[k - 1].type
        ELSE l = EndOf(at, k - 1) /\ (lay[k].offset # None => l = lay[k].offset)
    <2>1. CASE FollowsBits(k)
      <3>1. written \in 1 .. written /\ IsBits(def[written]) /\ k - 1 = written
        BY <1>1, <1>2, <2>1 DEF FollowsBits
      <3>2. SameRun(written, written)
        BY <3>1 DEF SameRun
      <3>3. at[written] = Len(out) /\ wbb.type = def[written].type
        BY <3>1, <3>2 DEF FieldsHandedOn
      <3>4. QED
        BY <1>1, <2>1, <3>1, <3>3
    <2>2. CASE ~FollowsBits(k)
      <3>1. PendingSize = 0
        BY <1>1, <2>2 DEF PendingSize, Pending, Empty
      <3>2. QED
        BY <1>1, <1>2, <2>2, <3>1 DEF WriterKnown
    <2>3. QED
      BY <2>1, <2>2
  <1>6. /\ next \in Seq(Nat) /\ Len(next) = k
        /\ Chained(next)
        /\ \A j \in 1 .. written : next[j] = at[j]
        /\ next[k] = l
        /\ EndOf(next, k) = l + Size[f.type]
    <2>1. Len(at) + 1 = k /\ Len(at) < Len(def)
      BY <1>1, <1>2
    <2> HIDE DEF k, next
    <2>2. QED
      BY <1>2, <1>5, <2>1, ChainGrows DEF next
  <1> HIDE DEF next
  <1>7. Chained(next)'
    BY <1>1, <1>6, SamePlaces
  <1>8. Pending => RestIsZero
    BY DEF FieldsHandedOn
  <1>9. /\ k \notin Above => Held(wbb'.buffer, k)
        /\ \A j \in 1 .. written :
              /\ SameRun(j, written) /\ j \notin Above
              /\ def[j].type = f.type
              /\ Used(j) \in Nat /\ def[j].bits \in Nat
              /\ Used(j) + def[j].bits <= Used(k)
              /\ Held(wbb.buffer, j)
              => Held(wbb'.buffer, j)
        /\ RestIsZero'
    BY <1>8, BitsAreHeld
  <1>10. /\ Len(next) = written'
         /\ (Len(out) + PendingSize)' = EndOf(next, k)
    <2>1. wbb'.type # None
      BY <1>1, KindAssumption, NoneAssumption
    <2>2. QED
      BY <1>1, <1>6, <2>1 DEF PendingSize, Pending
  <1>11. ASSUME NEW j \in 1 .. k, SameRun(j, k)
         PROVE  /\ next[j] = l
                /\ Used(j) \in Nat
                /\ f.type = def[j].type
                /\ Used(j) + def[j].bits <= w - wbb'.remaining
                /\ j \notin Above => Held(wbb'.buffer, j)
    <2>1. CASE j = k
      BY <1>1, <1>6, <1>9, <2>1
    <2>2. CASE j # k
      <3>1. j \in 1 .. written /\ SameRun(j, written) /\ j \in 1 .. Len(def)
        BY <1>3, <1>4, <1>11, <2>2
      <3>2. FollowsBits(k)
        BY <1>1, <1>2, <3>1, RunOfBits DEF FollowsBits
      <3>3. /\ at[j] = Len(out)
            /\ wbb.type = def[j].type
            /\ Used(j) + def[j].bits <= Width(wbb.type) - wbb.remaining
            /\ j \notin Above => Held(wbb.buffer, j)
        BY <3>1 DEF FieldsHandedOn
      <3>4. def[j].type = f.type /\ Used(j) + def[j].bits <= Used(k)
        BY <1>1, <3>2, <3>3
      <3>5. Used(j) \in Nat /\ def[j].bits \in Nat
        <4>1. def[j].bits \in Nat
          BY <1>2, <3>1, FieldType DEF LayoutTypeOK
        <4>2. Used(j) \in Nat
          BY <3>1 DEF FieldsHandedOn
        <4>3. QED
          BY <4>1, <4>2
      <3>6. Used(j) + def[j].bits <= w - wbb'.remaining
        <4>1. wbb'.remaining = w - Used(k) - f.bits /\ w \in Nat /\ Used(k) \in Nat /\ f.bits \in Nat
          BY <1>1
        <4> HIDE DEF w, k, f
        <4>2. QED
          BY <3>4, <3>5, <4>1
      <3>7. next[j] = l
        BY <1>6, <3>1, <3>3
      <3>8. j \notin Above => Held(wbb'.buffer, j)
        BY <1>9, <3>1, <3>3, <3>4, <3>5
      <3>9. QED
        BY <3>4, <3>5, <3>6, <3>7, <3>8
    <2>3. QED
      BY <2>1, <2>2
  <1>12. ASSUME NEW j \in 1 .. k, ~SameRun(j, k)
         PROVE  OnStream(out, next[j], j)
    <2>1. j # k
      BY <1>1, <1>12 DEF SameRun
    <2>2. j \in 1 .. written /\ ~SameRun(j, written)
      BY <1>3, <1>4, <1>12, <2>1
    <2>3. OnStream(out, at[j], j)
      BY <2>2 DEF FieldsHandedOn
    <2>4. QED
      BY <1>6, <2>2, <2>3
  <1>13. FieldsHandedOn(next)'
    <2>1. /\ Above' = Above
          /\ \A j : Place(j)' = Place(j) /\ Used(j)' = Used(j)
          /\ \A i, j : SameRun(i, j)' = SameRun(i, j)
          /\ \A i, n : EndOf(i, n)' = EndOf(i, n)
      BY <1>1, SamePlaces
    <2>2. ASSUME NEW j \in 1 .. k, ~SameRun(j, k)
          PROVE  OnStream(out, next[j], j)'
      <3>1. OnStream(out', next[j], j)
        BY <1>1, <1>12, <2>2
      <3>2. QED
        BY <1>1, <3>1, SameOnStream
    <2>3. ASSUME NEW j \in 1 .. k, Held(wbb'.buffer, j)
          PROVE  Held(wbb.buffer, j)'
      BY <1>1, <2>1, <2>3 DEF Held
    <2>4. ASSUME NEW j \in 1 .. k, SameRun(j, k)
          PROVE  /\ next[j] = Len(out')
                 /\ Used(j)' \in Nat
                 /\ wbb'.type = def'[j].type
                 /\ (Used(j) + def[j].bits <= Width(wbb.type) - wbb.remaining)'
                 /\ j \notin Above' => Held(wbb.buffer, j)'
      BY <1>1, <1>11, <2>1, <2>3, <2>4
    <2>5. EndOf(next, written)' = EndOf(next, k)
      BY <1>1, <2>1
    <2>6. QED
      BY <1>1, <1>9, <1>10, <2>1, <2>2, <2>4, <2>5 DEF FieldsHandedOn
  <1>14. QED
    BY <1>6, <1>7, <1>13 DEF next

-----------------------------------------------------------------------------
(* Writing to the stream *)

\* When the buffer is flushed, every field that was written is on the stream.
LEMMA FlushedOnStream ==
    ASSUME WriteTypeOK, WriteInv, Writing, Regular, OneUnitRuns,
           NEW at \in Seq(Nat), FieldsHandedOn(at)
    PROVE  LET s == out \o FlushedBytes IN
           /\ s \in Seq(Bytes)
           /\ Len(s) = EndOf(at, written)
           /\ \A k \in 1 .. written : OnStream(s, at[k], k)
  <1> DEFINE s == out \o FlushedBytes
  <1>1. /\ BufferInv /\ WriterKnown(NextOut) /\ LayoutTypeOK /\ Laid
        /\ out \in Seq(Bytes) /\ Len(out) \in Nat
        /\ written \in 0 .. Len(def) /\ written \in Nat /\ Len(def) \in Nat
        /\ Len(at) = written /\ Len(out) + PendingSize = EndOf(at, written)
    BY DEF WriteInv, Writing, WriteTypeOK, FieldsHandedOn
  <1>2. FlushedBytes \in Seq(Bytes) /\ Len(FlushedBytes) = PendingSize /\ PendingSize \in Nat
    BY <1>1, FlushTypes
  <1>3. s \in Seq(Bytes) /\ Len(s) = EndOf(at, written)
    BY <1>1, <1>2, ConcatBytes
  <1>4. ASSUME NEW k \in 1 .. written
        PROVE  OnStream(s, at[k], k)
    <2>1. k \in 1 .. Len(def) /\ at[k] \in Nat
      BY <1>1
    <2>2. CASE ~SameRun(k, written)
      <3>1. OnStream(out, at[k], k)
        BY <2>2 DEF FieldsHandedOn
      <3>2. QED
        BY <1>1, <1>2, <2>1, <3>1, StaysOnStream
    <2>3. CASE SameRun(k, written)
      <3> DEFINE t == wbb.type
      <3>1. /\ at[k] = Len(out) /\ t = def[k].type
            /\ Used(k) \in Nat
            /\ Used(k) + def[k].bits <= Width(t) - wbb.remaining
            /\ k \notin Above => Held(wbb.buffer, k)
        BY <2>3 DEF FieldsHandedOn
      <3>2. IsBits(def[k]) /\ IsBits(def[written])
        BY <1>1, <2>3, RunOfBits
      <3>3. t \in Integer /\ def[k].bits \in Nat /\ Width(t) \in Nat /\ Size[t] \in Nat
        BY <2>1, <3>1, <3>2, <1>1, FieldType DEF LayoutTypeOK
      <3>4. Pending /\ wbb.remaining >= 0 /\ wbb.remaining \in Int
        <4>1. FollowsBits(NextOut)
          BY <1>1, <3>2 DEF FollowsBits, NextOut
        <4>2. QED
          BY <1>1, <4>1 DEF WriterKnown, WriteTypeOK, BitBuffers
      <3>5. FlushedBytes = Encode(wbb.buffer, t) /\ PendingSize = Size[t]
        BY <3>4 DEF FlushedBytes, PendingSize
      <3>6. SubSeq(s, at[k] + 1, at[k] + Size[t]) = Encode(wbb.buffer, t)
        <4>1. Len(FlushedBytes) = Size[t]
          BY <1>2, <3>5
        <4>2. SubSeq(s, Len(out) + 1, Len(out) + Len(FlushedBytes)) = FlushedBytes
          BY <1>1, <1>2, PartsOfStream
        <4>3. QED
          BY <3>1, <3>5, <4>1, <4>2
      <3>7. wbb.buffer \in Numbers
        BY DEF WriteTypeOK, BitBuffers
      <3>8. ASSUME k \notin Above
            PROVE  Held(Unsigned(Encode(wbb.buffer, t)), k)
        <4>1. ASSUME NEW b \in 0 .. def[k].bits - 1
              PROVE  Unsigned(Encode(wbb.buffer, t))[Place(k) + b] = {<<k, b>>}
          <5>1. Place(k) = IF BigEndian THEN Width(t) - Used(k) - def[k].bits ELSE Used(k)
            BY <3>1 DEF Place
          <5>2. Place(k) + b \in 0 .. Width(t) - 1
            <6> DEFINE w == Width(t)
                       u == Used(k)
                       r == wbb.remaining
                       n == def[k].bits
            <6>1. w \in Nat /\ u \in Nat /\ r \in Int /\ n \in Nat /\ r >= 0 /\ u + n <= w - r
                  /\ b \in 0 .. n - 1
              BY <3>1, <3>3, <3>4, <4>1
            <6>2. Place(k) = IF BigEndian THEN w - u - n ELSE u
              BY <5>1
            <6> HIDE DEF w, u, r, n
            <6>3. Place(k) + b \in 0 .. w - 1
              BY <6>1, <6>2
            <6>4. QED
              BY <6>3 DEF w
          <5>3. Unsigned(Encode(wbb.buffer, t))[Place(k) + b] = wbb.buffer[Place(k) + b]
            BY <3>3, <3>7, <5>2, EncodedBits
          <5>4. wbb.buffer[Place(k) + b] = {<<k, b>>}
            BY <3>1, <3>8 DEF Held
          <5>5. QED
            BY <5>3, <5>4
        <4>2. QED
          BY <4>1 DEF Held
      <3>9. at[k] + Size[t] <= Len(s)
        <4>1. Len(s) = Len(out) + Size[t]
          BY <1>1, <1>2, <3>5, ConcatBytes
        <4>2. QED
          BY <1>1, <3>1, <3>3, <4>1
      <3> HIDE DEF s
      <3>10. QED
        BY <3>1, <3>2, <3>6, <3>8, <3>9 DEF OnStream
    <2>4. QED
      BY <2>2, <2>3
  <1>5. QED
    BY <1>3, <1>4

\* A field that is no bit field is handed to the stream, after the unit before it.
LEMMA PlainHandedOn ==
    ASSUME WriteTypeOK, WriteInv, Regular, OneUnitRuns, WritePlain, UNCHANGED layoutVars,
           NEW at \in Seq(Nat), Chained(at), FieldsHandedOn(at),
           NEW l \in Nat, l = EndOf(at, written)
    PROVE  LET next == Append(at, l) IN
           next \in Seq(Nat) /\ Chained(next)' /\ FieldsHandedOn(next)'
  <1> DEFINE k == NextOut
             f == def[k]
             n == Size[f.type]
             next == Append(at, l)
             s == out \o FlushedBytes
             bytes == PlainBytes(k)
  <1>1. /\ Writing /\ written < Len(def) /\ ~IsBits(f)
        /\ out' = out \o (FlushedBytes \o bytes)
        /\ wbb' = Empty
        /\ written' = k
        /\ UNCHANGED <<woutcome, wide, def, lay>>
    BY DEF WritePlain, layoutVars
  <1>2. /\ LayoutTypeOK /\ BufferInv /\ WriterKnown(k)
        /\ written \in Nat /\ Len(def) \in Nat /\ k = written + 1 /\ k \in 1 .. Len(def)
        /\ out \in Seq(Bytes) /\ FlushedBytes \in Seq(Bytes)
        /\ Len(at) = written
        /\ Len(out) + PendingSize = EndOf(at, written)
    BY <1>1, FlushTypes DEF WriteInv, Writing, WriteTypeOK, FieldsHandedOn, NextOut
  <1>3. bytes \in Seq(Bytes) /\ Len(bytes) = n /\ n \in Nat
    BY <1>1, <1>2, DataTypes, FieldType DEF LayoutTypeOK
  <1>4. /\ s \in Seq(Bytes) /\ Len(s) = l
        /\ \A j \in 1 .. written : OnStream(s, at[j], j)
    BY <1>1, FlushedOnStream
  <1>5. out' = s \o bytes
    BY <1>1, <1>2, <1>3
  <1> HIDE DEF s, bytes
  <1>6. l = EndOf(at, k - 1) /\ (lay[k].offset # None => l = lay[k].offset)
    BY <1>2 DEF WriterKnown
  <1>7. /\ next \in Seq(Nat) /\ Len(next) = k
        /\ Chained(next)
        /\ \A j \in 1 .. written : next[j] = at[j]
        /\ next[k] = l
        /\ EndOf(next, k) = l + n
    <2>1. Len(at) + 1 = k /\ Len(at) < Len(def)
      BY <1>1, <1>2
    <2> HIDE DEF k, next
    <2>2. QED
      BY <1>1, <1>2, <1>6, <2>1, ChainGrows DEF next
  <1> HIDE DEF next
  <1>8. Chained(next)'
    BY <1>1, <1>7, SamePlaces
  <1>9. Len(out') = l + n
    BY <1>3, <1>4, <1>5, ConcatBytes
  <1>10. OnStream(out', l, k)
    <2>1. SubSeq(out', l + 1, l + n) = bytes
      BY <1>3, <1>4, <1>5, PartsOfStream
    <2>2. l + n <= Len(out')
      BY <1>3, <1>9
    <2>3. QED
      BY <1>1, <2>1, <2>2 DEF OnStream, bytes
  <1>11. ASSUME NEW j \in 1 .. k
         PROVE  OnStream(out, next[j], j)'
    <2>1. CASE j = k
      BY <1>1, <1>7, <1>10, <2>1, SameOnStream
    <2>2. CASE j # k
      <3>1. j \in 1 .. written /\ j \in 1 .. Len(def)
        BY <1>2, <2>2
      <3>2. OnStream(s, at[j], j) /\ at[j] \in Nat
        BY <1>2, <1>4, <3>1
      <3>3. OnStream(out', next[j], j)
        BY <1>2, <1>3, <1>4, <1>5, <1>7, <3>1, <3>2, StaysOnStream
      <3>4. QED
        BY <1>1, <3>3, SameOnStream
    <2>3. QED
      BY <2>1, <2>2
  <1>12. ~Pending' /\ PendingSize' = 0
    BY <1>1 DEF Pending, PendingSize, Empty
  <1>13. \A j \in 1 .. k : ~SameRun(j, written)'
    <2>1. ASSUME NEW j \in 1 .. k
          PROVE  ~SameRun(j, k)
      BY <1>1, <1>2 DEF SameRun
    <2>2. QED
      BY <1>1, <2>1 DEF SameRun
  <1>14. EndOf(next, written)' = l + n
    <2>1. k # 0
      BY <1>2
    <2>2. QED
      BY <1>1, <1>7, <2>1 DEF EndOf
  <1>15. (Len(out) + PendingSize)' = EndOf(next, written)'
    BY <1>3, <1>9, <1>12, <1>14
  <1>16. FieldsHandedOn(next)'
    BY <1>1, <1>7, <1>11, <1>12, <1>13, <1>15 DEF FieldsHandedOn
  <1>17. QED
    BY <1>7, <1>8, <1>16 DEF next

\* The end of the structure flushes the last unit.
LEMMA EndHandedOn ==
    ASSUME WriteTypeOK, WriteInv, Regular, OneUnitRuns, WriteEnd, UNCHANGED layoutVars,
           NEW at \in Seq(Nat), FieldsHandedOn(at)
    PROVE  AllOnStream(out, at)'
  <1> DEFINE s == out \o FlushedBytes
  <1>1. /\ Writing /\ written = Len(def) /\ out' = s
        /\ UNCHANGED <<wide, def, lay>>
    BY DEF WriteEnd, layoutVars
  <1>2. /\ Len(s) = EndOf(at, written)
        /\ \A k \in 1 .. written : OnStream(s, at[k], k)
    BY <1>1, FlushedOnStream
  <1> HIDE DEF s
  <1>3. \A k \in 1 .. Len(def) : OnStream(out, at[k], k)'
    <2>1. ASSUME NEW k \in 1 .. Len(def)
          PROVE  OnStream(out, at[k], k)'
      <3>1. OnStream(out', at[k], k)
        BY <1>1, <1>2
      <3>2. QED
        BY <1>1, <3>1, SameOnStream
    <2>2. QED
      BY <2>1
  <1>4. EndOf(at, Len(def))' = EndOf(at, Len(def)) /\ Len(at) = Len(def)
    BY <1>1, SamePlaces DEF FieldsHandedOn, EndOf
  <1>5. QED
    BY <1>1, <1>2, <1>3, <1>4 DEF AllOnStream

-----------------------------------------------------------------------------
(* Reading what was written *)

\* The data of a plain field, in its bytes
LEMMA PlainRestored ==
    ASSUME WriteTypeOK, BufferInv, NEW k \in 1 .. Len(def), ~IsBits(def[k]), k # wide
    PROVE  Value(PlainBytes(k), def[k].type) = Kept(k)
  <1> DEFINE t == def[k].type
  <1>1. Data(k) = Value(DataBytes(k), t) /\ Kept(k) = Data(k)
    BY DEF Data, Kept
  <1>2. CASE t \in Integer
    <2>1. DataBytes(k) \in Seq(Bytes) /\ Len(DataBytes(k)) = Size[t]
      BY DataTypes
    <2>2. Data(k) = Decode(DataBytes(k), t)
      BY <1>1, <1>2 DEF Value
    <2>3. Data(k) \in Numbers /\ Fits(Data(k), t)
      BY <1>2, <2>1, <2>2, DecodeNumber, DecodedFits
    <2>4. PlainBytes(k) = Encode(Data(k), t)
      BY <1>2 DEF PlainBytes
    <2>5. Decode(Encode(Data(k), t), t) = Data(k)
      BY <1>2, <2>3, RestoredNumber
    <2>6. QED
      BY <1>1, <1>2, <2>4, <2>5 DEF Value
  <1>3. CASE t \notin Integer
    BY <1>1, <1>3 DEF PlainBytes, Value
  <1>4. QED
    BY <1>2, <1>3

\* The data of a bit field, at its place in its unit
LEMMA BitsRestored ==
    ASSUME WriteTypeOK, BufferInv, NEW k \in 1 .. Len(def), IsBits(def[k]),
           Used(k) \in Nat, Used(k) + def[k].bits <= Width(def[k].type),
           NEW bytes \in Seq(Bytes), Held(Unsigned(bytes), k)
    PROVE  Slice(Decode(bytes, def[k].type), Place(k), Place(k) + def[k].bits) = Kept(k)
  <1> DEFINE t == def[k].type
             w == Width(t)
             n == def[k].bits
             number == Decode(bytes, t)
             place == Place(k)
  <1>1. t \in Integer /\ n \in Nat /\ w \in 1 .. Top /\ Top \in Nat
    <2>1. t \in Types /\ n \in Nat /\ t \in Integer
      BY FieldType DEF WriteTypeOK, LayoutTypeOK
    <2>2. QED
      BY <2>1, WidthType, TopAssumption
  <1>2. place \in Nat /\ place + n <= w
    <2>1. place = IF BigEndian THEN w - Used(k) - n ELSE Used(k)
      BY DEF Place
    <2>2. Used(k) \in Nat /\ Used(k) + n <= w
      OBVIOUS
    <2> HIDE DEF place, w, n
    <2>3. QED
      BY <1>1, <2>1, <2>2
  <1>3. n <= w
    BY <1>1, <1>2
  <1>4. ASSUME NEW b \in 0 .. n - 1
        PROVE  number[b + place] = {<<k, b>>} /\ Data(k)[b] = {<<k, b>>}
    <2>1. place + b \in 0 .. w - 1 /\ b + place = place + b
      <3> HIDE DEF place, w, n
      <3> QED BY <1>1, <1>2, <1>4
    <2>2. number[place + b] = Unsigned(bytes)[place + b]
      BY <1>1, <2>1, DecodedBits
    <2>3. Unsigned(bytes)[place + b] = {<<k, b>>}
      BY <1>4 DEF Held
    <2>4. Data(k)[b] = {<<k, b>>}
      BY <1>3, <1>4, DataBits
    <2>5. QED
      BY <2>1, <2>2, <2>3, <2>4
  <1>5. Kept(k) = Slice(Data(k), 0, n)
    BY DEF Kept
  <1> HIDE DEF number, place, w, n
  <1>6. ASSUME NEW p \in Pos
        PROVE  Slice(number, place, place + n)[p] = Slice(Data(k), 0, n)[p]
    <2>1. CASE p < n
      <3>1. p \in 0 .. n - 1 /\ p + place < place + n /\ p + place <= Top /\ p + 0 < n
        /\ p + 0 <= Top /\ p + 0 = p
        BY <1>1, <1>2, <1>6, <2>1 DEF Pos
      <3>2. QED
        BY <1>4, <3>1 DEF Slice
    <2>2. CASE ~(p < n)
      <3>1. ~(p + place < place + n) /\ ~(p + 0 < n)
        BY <1>1, <1>2, <1>6, <2>2 DEF Pos
      <3>2. QED
        BY <3>1 DEF Slice
    <2>3. QED
      BY <2>1, <2>2
  <1>7. Slice(number, place, place + n) = Slice(Data(k), 0, n)
    <2> DEFINE a == Slice(number, place, place + n)
               b == Slice(Data(k), 0, n)
    <2>1. a = [p \in Pos |-> a[p]] /\ b = [p \in Pos |-> b[p]]
      BY DEF Slice
    <2>2. \A p \in Pos : a[p] = b[p]
      BY <1>6
    <2> HIDE DEF a, b
    <2>3. a = b
      BY <2>1, <2>2
    <2>4. QED
      BY <2>3 DEF a, b
  <1>8. QED
    BY <1>5, <1>7 DEF number, place, n

\* The stream and the buffer when a field of a stream that holds them all is read
Found(at) ==
    /\ Chained(at)
    /\ AllOnStream(stream, at)
    /\ start = 0
    /\ ReadsBack(at)

\* The field is where the reader looks for it.
LEMMA FieldFound ==
    ASSUME ReadTypeOK, ReadInv, Reading, Regular, OneUnitRuns,
           NEW at \in Seq(Nat), Found(at)
    PROVE  LET k == Next1
               f == def[k]
               n == Size[f.type]
               unit == SubSeq(stream, at[k] + 1, at[k] + n)
           IN /\ k \in 1 .. Len(def) /\ k = Len(vals) + 1 /\ Len(vals) \in Nat
              /\ f.type \in Types /\ f.bits \in Nat /\ n \in Nat /\ Width(f.type) \in Nat
              /\ at[k] \in Nat /\ OnStream(stream, at[k], k)
              /\ unit \in Seq(Bytes) /\ Len(unit) = n
              /\ IsBits(f) =>
                    /\ f.type \in Integer
                    /\ NeedsUnit(bb, f.type) <=> ~FollowsBits(k)
                    /\ Used(k) \in Nat
                    /\ Used(k) + f.bits <= Width(f.type)
                    /\ bb.remaining \in Int
                    /\ FollowsBits(k) => Used(k) = Width(f.type) - bb.remaining
              /\ IF IsBits(f) /\ FollowsBits(k)
                 THEN /\ Sought(k) = pos /\ pos = at[k] + n
                      /\ at[k] = at[Len(vals)] /\ f.type = def[Len(vals)].type
                 ELSE Sought(k) = at[k] /\ Available(stream, Sought(k), n) = unit
  <1> DEFINE k == Next1
             f == def[k]
             n == Size[f.type]
             s == lay[k]
             unit == SubSeq(stream, at[k] + 1, at[k] + n)
  <1>1. /\ k \in 1 .. Len(def) /\ k = Len(vals) + 1 /\ Len(vals) \in Nat
        /\ f.type \in Types /\ f.bits \in Nat /\ n \in Nat /\ Width(f.type) \in Nat
        /\ IsBits(f) => f.type \in Integer
        /\ Laid /\ LayoutTypeOK /\ LayoutInv /\ stream \in Seq(Bytes) /\ pos \in Nat
        /\ bb.remaining \in Int
    BY FieldRead DEF Next1, Reading, ReadTypeOK, ReadInv, BitBuffers
  <1>2. RegularField(k) /\ BufferKnown(k) /\ s \in LayoutState
        /\ offs[k] = IF IsBits(f) /\ ~Opens(s, f) THEN None ELSE s.offset
    BY <1>1, LayoutOfField DEF ReadInv, Reading
  <1>3. /\ Chained(at) /\ start = 0 /\ pos = EndOf(at, k - 1)
        /\ Len(at) = Len(def) /\ OnStream(stream, at[k], k)
        /\ FollowsBits(k) => UnitIsHeld(at)
    BY <1>1 DEF Found, AllOnStream, ReadsBack
  <1>4. at[k] \in Nat /\ at[k] + n <= Len(stream)
    BY <1>1, <1>3 DEF OnStream
  <1>5. unit \in Seq(Bytes) /\ Len(unit) = n
    <2>1. \A s1 \in Seq(Bytes) : \A p, m \in Nat : p + m <= Len(s1) =>
             SubSeq(s1, p + 1, p + m) \in Seq(Bytes) /\ Len(SubSeq(s1, p + 1, p + m)) = m
      OBVIOUS
    <2> HIDE DEF n
    <2>2. QED
      BY <1>1, <1>4, <2>1
  <1>6. IsBits(f) => (Opens(s, f) <=> ~FollowsBits(k))
    BY <1>1, <1>2 DEF RegularField, OneUnitRuns, Laid, LayoutTypeOK
  <1>7. IsBits(f) => (NeedsUnit(bb, f.type) <=> ~FollowsBits(k))
    BY <1>2, <1>6, UnitsAgree
  <1>8. IF IsBits(f) /\ FollowsBits(k)
        THEN at[k] = at[k - 1] /\ f.type = def[k - 1].type
        ELSE at[k] = EndOf(at, k - 1) /\ (s.offset # None => at[k] = s.offset)
    BY <1>1, <1>3 DEF Chained
  <1>9. CASE IsBits(f) /\ FollowsBits(k)
    <2>1. offs[k] = None
      BY <1>2, <1>6, <1>9
    <2>2. Sought(k) = pos
      BY <2>1 DEF Sought
    <2>3. k - 1 = Len(vals) /\ k - 1 # 0
      BY <1>1, <1>9 DEF FollowsBits
    <2>4. pos = at[k] + n
      BY <1>3, <1>8, <1>9, <2>3 DEF EndOf
    <2>5. bb.type = f.type /\ bb.remaining <= Width(f.type)
      BY <1>3, <1>8, <1>9, <2>3 DEF UnitIsHeld
    <2>6. Used(k) = Width(f.type) - bb.remaining
      BY <1>2, <1>9 DEF Used, BufferKnown
    <2>7. f.bits <= bb.remaining
      BY <1>7, <1>9, FieldFits
    <2>8. Used(k) \in Nat /\ Used(k) + f.bits <= Width(f.type)
      <3> DEFINE w == Width(f.type)
                 u == Used(k)
                 r == bb.remaining
      <3>1. w \in Nat /\ r \in Int /\ u = w - r /\ f.bits <= r /\ f.bits \in Nat /\ r <= w
        BY <1>1, <2>5, <2>6, <2>7
      <3> HIDE DEF w, u, r, f
      <3>2. u \in Nat /\ u + f.bits <= w
        BY <3>1
      <3>3. QED
        BY <3>2 DEF w, u
    <2>9. QED
      BY <1>1, <1>3, <1>4, <1>5, <1>7, <1>8, <1>9, <2>2, <2>3, <2>4, <2>6, <2>8
  <1>10. CASE ~(IsBits(f) /\ FollowsBits(k))
    <2>1. offs[k] = s.offset /\ at[k] = pos
      BY <1>2, <1>3, <1>6, <1>8, <1>10
    <2>2. Sought(k) = at[k]
      <3>1. CASE offs[k] \in {None, 0}
        BY <2>1, <3>1 DEF Sought
      <3>2. CASE offs[k] \notin {None, 0}
        <4>1. Sought(k) = 0 + offs[k] /\ offs[k] = at[k]
          BY <1>3, <1>8, <1>10, <2>1, <3>2 DEF Sought
        <4>2. QED
          BY <1>4, <4>1
      <3>3. QED
        BY <3>1, <3>2
    <2>3. Available(stream, Sought(k), n) = unit
      BY <1>4, <2>2 DEF Available
    <2>4. IsBits(f) => Used(k) = 0 /\ f.bits <= Width(f.type)
      BY <1>7, <1>10, FieldFits DEF Used
    <2>5. IsBits(f) => Used(k) \in Nat /\ Used(k) + f.bits <= Width(f.type)
      BY <1>1, <2>4
    <2>6. QED
      BY <1>1, <1>3, <1>4, <1>5, <1>7, <1>10, <2>2, <2>3, <2>5
  <1>11. QED
    BY <1>9, <1>10

\* A value is read, and the stream is after its field.
LEMMA ValueReadBack ==
    ASSUME ReadTypeOK, NEW at \in Seq(Nat), ReadsBack(at), Reading,
           UNCHANGED <<def, lay, wide>>, outcome' = outcome,
           NEW v, vals' = Append(vals, v),
           Next1 \notin Above => v = Kept(Next1) \/ (Next1 = wide /\ ~IsBits(def[Next1])),
           pos' = at[Next1] + Size[def[Next1].type],
           FollowsBits(Next1)' => UnitIsHeld(at)'
    PROVE  ReadsBack(at)'
  <1>1. /\ vals \in Seq(Values) /\ Len(vals) \in Nat /\ Next1 = Len(vals) + 1
        /\ Len(vals') = Next1
        /\ vals'[Next1] = v
        /\ \A k \in 1 .. Len(vals) : vals'[k] = vals[k]
    <2>1. vals \in Seq(Values)
      BY DEF ReadTypeOK
    <2>2. v \in {v} /\ vals \in Seq(Values \cup {v})
      BY <2>1
    <2>3. QED
      BY <2>1, <2>2 DEF Next1
  <1>2. Above' = Above /\ (\A k : Kept(k)' = Kept(k)) /\ \A n : EndOf(at, n)' = EndOf(at, n)
    BY SamePlaces
  <1>3. pos' = EndOf(at, Len(vals))'
    BY <1>1, <1>2 DEF EndOf
  <1>4. ASSUME NEW k \in 1 .. Len(vals'), k \notin Above
        PROVE  vals'[k] = Kept(k) \/ (k = wide /\ ~IsBits(def[k]))
    <2>1. CASE k = Next1
      BY <1>1, <1>4, <2>1
    <2>2. CASE k # Next1
      <3>1. k \in 1 .. Len(vals)
        BY <1>1, <2>2
      <3>2. QED
        BY <1>1, <1>4, <3>1 DEF ReadsBack
    <2>3. QED
      BY <2>1, <2>2
  <1>5. outcome' \in {"reading", "done"}
    BY DEF ReadsBack
  <1>6. QED
    BY <1>2, <1>3, <1>4, <1>5 DEF ReadsBack

\* A plain field is read back.
LEMMA PlainReadBack ==
    ASSUME ReadTypeOK, ReadInv, WriteTypeOK, BufferInv, Regular, OneUnitRuns,
           ReadPlain, UNCHANGED wide, NEW at \in Seq(Nat), Found(at)
    PROVE  ReadsBack(at)'
  <1> DEFINE k == Next1
             f == def[k]
             n == Size[f.type]
             unit == SubSeq(stream, at[k] + 1, at[k] + n)
  <1>1. /\ Reading /\ ~IsBits(f)
        /\ vals' = Append(vals, Value(Available(stream, Sought(k), n), f.type))
        /\ pos' = Sought(k) + Len(Available(stream, Sought(k), n))
        /\ UNCHANGED <<def, lay, wide>> /\ outcome' = outcome
    BY DEF ReadPlain
  <1>2. /\ k \in 1 .. Len(def) /\ k = Len(vals) + 1 /\ Len(vals) \in Nat
        /\ OnStream(stream, at[k], k)
        /\ Sought(k) = at[k] /\ Available(stream, Sought(k), n) = unit /\ Len(unit) = n
    BY <1>1, FieldFound
  <1>3. unit = PlainBytes(k)
    BY <1>1, <1>2 DEF OnStream
  <1>4. vals' = Append(vals, Value(unit, f.type)) /\ pos' = at[k] + n
    BY <1>1, <1>2
  <1>5. Value(unit, f.type) = Kept(k) \/ k = wide
    BY <1>1, <1>2, <1>3, PlainRestored
  <1>6. ~FollowsBits(Next1)'
    <2>1. Len(vals') = k /\ def' = def
      BY <1>1, <1>2, <1>4 DEF ReadTypeOK
    <2>2. Next1' = k + 1
      BY <2>1 DEF Next1
    <2>3. QED
      BY <1>1, <1>2, <2>1, <2>2 DEF FollowsBits
  <1> HIDE DEF unit
  <1>7. QED
    BY <1>1, <1>4, <1>5, <1>6, ValueReadBack DEF Found

\* The buffer after a bit field of a unit of the stream
LEMMA BitsReadBack ==
    ASSUME ReadTypeOK, ReadInv, WriteTypeOK, BufferInv, Regular, OneUnitRuns,
           ReadBitsOfUnit \/ ReadBitsOfNewUnit, UNCHANGED wide,
           NEW at \in Seq(Nat), Found(at)
    PROVE  ReadsBack(at)'
  <1> DEFINE k == Next1
             f == def[k]
             t == f.type
             n == Size[t]
             w == Width(t)
             u == Used(k)
             m == f.bits
             place == Place(k)
             unit == SubSeq(stream, at[k] + 1, at[k] + n)
             number == Decode(unit, t)
             old == IF FollowsBits(k) THEN bb ELSE Loaded(t, unit)
  <1>1. /\ Reading /\ IsBits(f)
        /\ UNCHANGED <<def, lay, stream, wide>> /\ outcome' = outcome
    BY DEF ReadBitsOfUnit, ReadBitsOfNewUnit
  <1>2. /\ k \in 1 .. Len(def) /\ k = Len(vals) + 1 /\ Len(vals) \in Nat
        /\ f.type \in Types /\ f.bits \in Nat /\ n \in Nat /\ w \in Nat
        /\ at[k] \in Nat /\ OnStream(stream, at[k], k)
        /\ unit \in Seq(Bytes) /\ Len(unit) = n
        /\ t \in Integer
        /\ NeedsUnit(bb, t) <=> ~FollowsBits(k)
        /\ u \in Nat /\ u + f.bits <= w /\ bb.remaining \in Int
        /\ FollowsBits(k) => u = w - bb.remaining
        /\ IF FollowsBits(k)
           THEN /\ Sought(k) = pos /\ pos = at[k] + n
                /\ at[k] = at[Len(vals)] /\ t = def[Len(vals)].type
           ELSE Sought(k) = at[k] /\ Available(stream, Sought(k), n) = unit
    BY <1>1, FieldFound
  <1>3. w \in 1 .. Top /\ Top \in Nat
    BY <1>2, WidthType, TopAssumption
  <1> DEFINE Sizes == /\ w \in Nat /\ w <= Top /\ Top \in Nat
                      /\ u \in Nat /\ m \in Nat /\ u + m <= w
  <1>4. /\ vals' = Append(vals, Taken(old, f.bits))
        /\ bb' = AfterTake(old, f.bits)
        /\ pos' = at[k] + n
    <2>1. CASE ReadBitsOfUnit
      <3>1. ~NeedsUnit(bb, t) /\ vals' = Append(vals, Taken(bb, f.bits))
            /\ bb' = AfterTake(bb, f.bits) /\ pos' = Sought(k)
        BY <2>1 DEF ReadBitsOfUnit
      <3>2. FollowsBits(k)
        BY <1>2, <3>1
      <3>3. QED
        BY <1>2, <3>1, <3>2
    <2>2. CASE ReadBitsOfNewUnit
      <3> DEFINE bytes == Available(stream, Sought(k), n)
      <3>1. NeedsUnit(bb, t) /\ vals' = Append(vals, Taken(Loaded(t, bytes), f.bits))
            /\ bb' = AfterTake(Loaded(t, bytes), f.bits)
            /\ pos' = Sought(k) + Len(bytes)
        BY <2>2 DEF ReadBitsOfNewUnit
      <3>2. ~FollowsBits(k) /\ bytes = unit /\ Sought(k) = at[k]
        BY <1>2, <3>1
      <3>3. QED
        BY <1>2, <3>1, <3>2
    <2>3. QED
      BY <2>1, <2>2
  <1>5. number \in Numbers /\ Sizes
    <2>1. number \in Numbers
      BY <1>2, DecodeNumber
    <2>2. u \in Nat /\ m \in Nat /\ u + m <= w
      BY <1>2
    <2>3. w \in 1 .. Top /\ Top \in Nat
      BY <1>3
    <2> HIDE DEF w, u, m, number
    <2>4. QED
      BY <2>1, <2>2, <2>3
  <1>6. /\ old.type = t
        /\ old.remaining = w - u
        /\ old.buffer = IF BigEndian THEN number ELSE ShiftRight(number, u)
    <2>1. CASE FollowsBits(k)
      <3>1. UnitIsHeld(at) /\ bb.remaining = w - u
        BY <1>2, <2>1 DEF Found, ReadsBack
      <3>2. w - bb.remaining = u
        BY <1>2, <2>1
      <3>3. QED
        BY <1>2, <2>1, <3>1, <3>2 DEF UnitIsHeld
    <2>2. CASE ~FollowsBits(k)
      <3>1. u = 0 /\ w - 0 = w
        BY <1>2, <2>2 DEF Used
      <3>2. ShiftRight(number, 0) = number
        BY <1>5, SlicesOfUnit
      <3>3. QED
        BY <2>2, <3>1, <3>2 DEF Loaded
    <2>3. QED
      BY <2>1, <2>2
  <1>7. Taken(old, f.bits) = Slice(number, place, place + f.bits)
    <2>1. CASE BigEndian
      <3>1. place = w - u - f.bits
        BY <2>1 DEF Place
      <3>2. old.remaining - m = place /\ place + m = old.remaining
        <4>1. Sizes /\ old.remaining = w - u /\ place = w - u - m
          BY <1>5, <1>6, <3>1
        <4> HIDE DEF w, u, m, place, old
        <4>2. QED
          BY <4>1
      <3>3. QED
        BY <1>6, <2>1, <3>2 DEF Taken
    <2>2. CASE ~BigEndian
      <3>1. place = u
        BY <2>2 DEF Place
      <3>2. ~(u + m > Top + 1)
        <4>1. Sizes
          BY <1>5
        <4> HIDE DEF w, u, m
        <4>2. QED
          BY <4>1
      <3>3. Slice(ShiftRight(number, u), 0, f.bits) = Slice(number, u, u + f.bits)
        <4>1. u \in Nat /\ m \in Nat /\ number \in Numbers
          BY <1>5
        <4> HIDE DEF u, m, number
        <4>2. Slice(ShiftRight(number, u), 0, m) = Slice(number, u, u + m)
          BY <3>2, <4>1, SlicesOfUnit
        <4>3. QED
          BY <4>2 DEF m
      <3>4. QED
        BY <1>6, <2>2, <3>1, <3>3 DEF Taken
    <2>3. QED
      BY <2>1, <2>2
  <1>8. k \notin Above => Taken(old, f.bits) = Kept(k)
    <2>1. ASSUME k \notin Above
          PROVE  Taken(old, f.bits) = Kept(k)
      <3>1. Held(Unsigned(unit), k)
        BY <1>1, <1>2, <2>1 DEF OnStream
      <3> HIDE DEF unit, old, k
      <3>2. QED
        BY <1>1, <1>2, <1>7, <3>1, BitsRestored
    <2>2. QED
      BY <2>1
  <1>9. UnitIsHeld(at)'
    <2> DEFINE new == AfterTake(old, f.bits)
    <2>1. /\ new.type = t
          /\ new.remaining = w - u - m
          /\ new.buffer = IF BigEndian THEN number ELSE ShiftRight(number, u + m)
      <3>1. u \in Nat /\ m \in Nat /\ number \in Numbers
        BY <1>5
      <3> HIDE DEF old, number, w, u, m
      <3>2. ShiftRight(ShiftRight(number, u), m) = ShiftRight(number, u + m)
        BY <3>1, SlicesOfUnit
      <3>3. QED
        BY <1>6, <3>2 DEF AfterTake, m
    <2>2. w - new.remaining = u + m /\ new.remaining <= w
      <3>1. Sizes /\ new.remaining = w - u - m
        BY <1>5, <2>1
      <3> HIDE DEF new, w, u, m
      <3>2. QED
        BY <3>1
    <2>3. Len(vals') = k
      <3>1. vals \in Seq(Values) /\ vals' = Append(vals, Taken(old, f.bits))
        BY <1>4 DEF ReadTypeOK
      <3> HIDE DEF old
      <3>2. QED
        BY <1>2, <3>1
    <2>4. bb' = new /\ stream' = stream /\ def' = def
      BY <1>1, <1>4
    <2> HIDE DEF new, old
    <2>5. QED
      BY <2>1, <2>2, <2>3, <2>4 DEF UnitIsHeld
  <1> HIDE DEF old, unit
  <1>10. QED
    BY <1>1, <1>4, <1>8, <1>9, ValueReadBack DEF Found

\* Nothing is missing in the stream, and nothing is too large for its unit.
LEMMA NoReadFails ==
    ASSUME ReadTypeOK, ReadInv, Regular, OneUnitRuns,
           NEW at \in Seq(Nat), Found(at)
    PROVE  ~ReadShort /\ ~ReadBitsBeyondUnit
  <1> DEFINE k == Next1
             f == def[k]
             n == Size[f.type]
             bytes == Available(stream, Sought(k), n)
  <1>1. ASSUME ReadShort
        PROVE  FALSE
    <2>1. /\ Reading /\ (IsBits(f) => NeedsUnit(bb, f.type)) /\ ~Accepts(f.type, bytes)
      BY <1>1 DEF ReadShort
    <2>2. Len(bytes) = n
      BY <2>1, FieldFound
    <2>3. QED
      BY <2>1, <2>2 DEF Accepts
  <1>2. ASSUME ReadBitsBeyondUnit
        PROVE  FALSE
    <2>1. /\ Reading /\ IsBits(f)
          /\ ~CanTake(IF NeedsUnit(bb, f.type) THEN Loaded(f.type, bytes) ELSE bb, f.bits)
      BY <1>2 DEF ReadBitsBeyondUnit
    <2>2. /\ NeedsUnit(bb, f.type) => f.bits <= Width(f.type)
          /\ ~NeedsUnit(bb, f.type) => f.bits <= bb.remaining
      BY <2>1, FieldFits
    <2>3. QED
      BY <2>1, <2>2 DEF CanTake, Loaded
  <1>3. QED
    BY <1>1, <1>2

-----------------------------------------------------------------------------
(* The round trip *)

Typed == ReadTypeOK /\ ReadInv /\ WriteTypeOK /\ WriteInv

\* Nothing has been written.
LEMMA NothingHandedOn ==
    ASSUME written = 0, out = <<>>, wbb = Empty, woutcome = "writing", phase = "write"
    PROVE  TripHolds(<<>>)
  BY DEF TripHolds, Chained, FieldsHandedOn, EndOf, PendingSize, Pending, Empty

LEMMA TripInvInit == TripInit => Typed /\ TripInv
  <1> SUFFICES ASSUME TripInit
               PROVE  Typed /\ TripInv
    OBVIOUS
  <1>1. /\ LayoutInit /\ WriteInit /\ phase = "write"
        /\ stream = <<>> /\ start = 0 /\ pos = 0 /\ bb = Empty /\ vals = <<>> /\ sizes = <<>>
        /\ outcome = "reading"
    BY DEF TripInit
  <1>2. WriteTypeOK /\ WriteInv
    BY <1>1, WriteInitTypes, WriteInvInit
  <1>3. LayoutTypeOK /\ LayoutInv
    BY <1>2 DEF WriteTypeOK, WriteInv
  <1>4. ReadTypeOK
    <2>1. bb \in BitBuffers
      BY <1>1, BufferOperators
    <2>2. QED
      BY <1>1, <1>3, <2>1 DEF ReadTypeOK, LayoutTypeOK, Outcomes
  <1>5. ReadInv
    BY <1>1, <1>3, KnownAtStart DEF ReadInv
  <1>6. written = 0 /\ out = <<>> /\ wbb = Empty /\ woutcome = "writing"
    BY <1>1 DEF WriteInit
  <1>7. TripHolds(<<>>)
    BY <1>1, <1>6, NothingHandedOn
  <1>8. TripInv
    <2>1. <<>> \in Seq(Nat)
      OBVIOUS
    <2>2. \E at \in Seq(Nat) : TripHolds(at)
      BY <1>7, <2>1
    <2>3. QED
      BY <1>1, <2>2 DEF TripInv, Phases, AtRest
  <1>9. QED
    BY <1>2, <1>4, <1>5, <1>8 DEF Typed

\* A step of the trip is one of the reader and one of the writer.
LEMMA TripTypes == Typed /\ TripInv /\ [TripNext]_tripVars => Typed'
  <1> SUFFICES ASSUME Typed, TripInv, [TripNext]_tripVars
               PROVE  Typed'
    OBVIOUS
  <1>1. ReadTypeOK /\ ReadInv /\ WriteTypeOK /\ WriteInv
    BY DEF Typed
  <1>2. [WriteNext]_writerVars
    BY DEF TripNext, tripVars, readVars, layoutVars, writerVars, writeVars, WriteNext,
       ReadBack, Define, ReadField, Finish, ReadBitsOfUnit, ReadBitsOfNewUnit,
       ReadBitsBeyondUnit, ReadPlain, ReadShort
  <1>3. WriteTypeOK' /\ WriteInv'
    BY <1>1, <1>2, WriteTypes, WriteInvStep DEF WriteInv
  <1>4. CASE ReadBack
    <2>1. /\ stream' = out /\ phase = "write"
          /\ UNCHANGED <<def, lay, offs, start, pos, bb, vals, sizes, outcome>>
      BY <1>4 DEF ReadBack
    <2>2. AtRest /\ start = 0
      BY <2>1 DEF TripInv, Phases
    <2>3. out \in Seq(Bytes) /\ LayoutTypeOK' /\ LayoutInv'
      BY <1>1, <1>3 DEF WriteTypeOK, WriteInv
    <2>4. ReadTypeOK'
      BY <1>1, <2>1, <2>3 DEF ReadTypeOK
    <2>5. (vals = <<>> /\ pos = start /\ bb = Empty /\ start \in Nat /\ outcome = "reading")'
      BY <2>1, <2>2 DEF AtRest
    <2>6. (PositionKnown(Next1) /\ BufferKnown(Next1))'
      BY <2>3, <2>5, KnownAtStart, PTL
    <2>7. ReadInv'
      BY <2>3, <2>5, <2>6 DEF ReadInv
    <2>8. QED
      BY <1>3, <2>4, <2>7 DEF Typed
  <1>5. CASE ~ReadBack
    <2>1. [ReadNext]_readVars
      BY <1>5 DEF TripNext, tripVars, ReadNext
    <2>2. QED
      BY <1>1, <1>3, <2>1, ReadTypes, ReadInvStep DEF Typed
  <1>6. QED
    BY <1>4, <1>5

\* The layout of a structure is regular, or is not, once it is laid out.
LEMMA SameStructure ==
    ASSUME UNCHANGED <<def, lay>>
    PROVE  /\ Laid' <=> Laid
           /\ Regular' <=> Regular
           /\ OneUnitRuns' <=> OneUnitRuns
  BY DEF Laid, Regular, RegularField, OneUnitRuns, FollowsBits, Opens

\* What has been written, or read, stays.
LEMMA HandedOnStays ==
    ASSUME UNCHANGED <<def, lay, wide>>, UNCHANGED <<out, written, wbb>>,
           NEW at, FieldsHandedOn(at)
    PROVE  FieldsHandedOn(at)'
  <1>1. /\ Above' = Above
        /\ \A j : Place(j)' = Place(j) /\ Used(j)' = Used(j)
        /\ \A j, k : SameRun(j, k)' = SameRun(j, k)
        /\ \A i, n : EndOf(i, n)' = EndOf(i, n)
    BY SamePlaces
  <1>2. PendingSize' = PendingSize /\ Pending' = Pending /\ (RestIsZero <=> RestIsZero')
    BY <1>1 DEF PendingSize, Pending, RestIsZero
  <1>3. EndOf(at, written)' = EndOf(at, written)
    BY <1>1 DEF EndOf
  <1>4. \A k \in 1 .. written : SameRun(k, written)' <=> SameRun(k, written)
    BY DEF SameRun
  <1>5. ASSUME NEW k \in 1 .. written, OnStream(out, at[k], k)
        PROVE  OnStream(out, at[k], k)'
    <2>1. OnStream(out', at[k], k)
      BY <1>5
    <2>2. QED
      BY <2>1, SameOnStream
  <1>6. ASSUME NEW k \in 1 .. written, Held(wbb.buffer, k)
        PROVE  Held(wbb.buffer, k)'
    BY <1>1, <1>6 DEF Held
  <1>7. QED
    BY <1>1, <1>2, <1>3, <1>4, <1>5, <1>6 DEF FieldsHandedOn

LEMMA AllStays ==
    ASSUME UNCHANGED <<def, lay, wide>>, UNCHANGED out, NEW at, AllOnStream(out, at)
    PROVE  AllOnStream(out, at)'
  <1>1. EndOf(at, Len(def))' = EndOf(at, Len(def))
    BY DEF EndOf
  <1>2. ASSUME NEW k \in 1 .. Len(def)
        PROVE  OnStream(out, at[k], k)'
    <2>1. OnStream(out', at[k], k)
      BY DEF AllOnStream
    <2>2. QED
      BY <2>1, SameOnStream
  <1>3. QED
    BY <1>1, <1>2 DEF AllOnStream

LEMMA ReadStays ==
    ASSUME UNCHANGED <<def, lay, wide>>, UNCHANGED <<stream, bb, vals, pos>>,
           outcome' \in {"reading", "done"}, NEW at, ReadsBack(at)
    PROVE  ReadsBack(at)'
  <1>1. Above' = Above /\ \A k : Kept(k)' = Kept(k)
    BY SamePlaces
  <1>2. EndOf(at, Len(vals))' = EndOf(at, Len(vals))
    BY DEF EndOf
  <1>3. FollowsBits(Next1)' <=> FollowsBits(Next1)
    BY DEF FollowsBits, Next1
  <1>4. UnitIsHeld(at) => UnitIsHeld(at)'
    BY DEF UnitIsHeld
  <1>5. QED
    BY <1>1, <1>2, <1>3, <1>4 DEF ReadsBack

\* A step of the writer
LEMMA WriteHolds ==
    ASSUME Typed, Regular, OneUnitRuns, WriteField, UNCHANGED <<readVars, phase>>,
           phase = "write", NEW at \in Seq(Nat), TripHolds(at)
    PROVE  \E next \in Seq(Nat) : TripHolds(next)'
  <1>1. /\ WriteTypeOK /\ WriteInv /\ Chained(at) /\ Writing /\ phase' = "write"
        /\ UNCHANGED layoutVars /\ UNCHANGED wide
    BY DEF Typed, TripHolds, readVars, layoutVars, WriteField, WriteBits, WriteBitsBeyondUnit,
       WritePlain, WriteEnd, FlushFails, PlainFails
  <1>2. /\ FieldsHandedOn(at) /\ UNCHANGED <<def, lay, wide>>
        /\ LayoutTypeOK /\ out \in Seq(Bytes)
    BY <1>1 DEF TripHolds, Writing, layoutVars, WriteTypeOK
  <1>3. Chained(at)'
    BY <1>1, <1>2, SamePlaces
  <1>4. CASE WriteBits
    <2>1. PICK l \in Nat : l = Len(out)
      BY <1>2
    <2>2. PICK next \in Seq(Nat) : Chained(next)' /\ FieldsHandedOn(next)'
      BY <1>1, <1>2, <1>4, <2>1, BitsHandedOn DEF Typed
    <2>3. woutcome' = "writing"
      BY <1>1, <1>4 DEF WriteBits, Writing
    <2>4. TripHolds(next)'
      BY <1>1, <2>2, <2>3 DEF TripHolds
    <2>5. QED
      BY <2>4
  <1>5. CASE WritePlain
    <2>1. PICK l \in Nat : l = EndOf(at, written)
      <3>1. Len(out) \in Nat /\ PendingSize \in Nat
        BY <1>1, <1>2, FlushTypes DEF WriteInv
      <3>2. Len(out) + PendingSize = EndOf(at, written)
        BY <1>2 DEF FieldsHandedOn
      <3>3. QED
        BY <3>1, <3>2
    <2>2. PICK next \in Seq(Nat) : Chained(next)' /\ FieldsHandedOn(next)'
      BY <1>1, <1>2, <1>5, <2>1, PlainHandedOn
    <2>3. woutcome' = "writing"
      BY <1>1, <1>5 DEF WritePlain, Writing
    <2>4. TripHolds(next)'
      BY <1>1, <2>2, <2>3 DEF TripHolds
    <2>5. QED
      BY <2>4
  <1>6. CASE WriteEnd
    <2>1. AllOnStream(out, at)' /\ woutcome' = "done"
      BY <1>1, <1>2, <1>6, EndHandedOn DEF WriteEnd
    <2>2. TripHolds(at)'
      BY <1>1, <1>3, <2>1 DEF TripHolds
    <2>3. QED
      BY <2>2
  <1>7. CASE WriteBitsBeyondUnit \/ FlushFails \/ PlainFails
    <2>1. woutcome' \notin {"writing", "done"}
      BY <1>7 DEF WriteBitsBeyondUnit, FlushFails, PlainFails
    <2>2. TripHolds(at)'
      BY <1>1, <1>3, <2>1 DEF TripHolds
    <2>3. QED
      BY <2>2
  <1>8. QED
    BY <1>4, <1>5, <1>6, <1>7 DEF WriteField

\* A step of the reader
LEMMA ReadHolds ==
    ASSUME Typed, TripInv, Regular, OneUnitRuns, phase = "read", UNCHANGED <<writeVars, phase>>,
           ReadField \/ Finish, NEW at \in Seq(Nat), TripHolds(at)
    PROVE  TripHolds(at)'
  <1>1. /\ ReadTypeOK /\ ReadInv /\ WriteTypeOK /\ BufferInv
        /\ UNCHANGED <<def, lay, wide>> /\ UNCHANGED <<out, stream, woutcome, start>>
        /\ phase' = "read"
    BY DEF Typed, WriteInv, writeVars, ReadField, Finish, ReadBitsOfUnit, ReadBitsOfNewUnit,
       ReadBitsBeyondUnit, ReadPlain, ReadShort
  <1>2. /\ Chained(at) /\ AllOnStream(out, at) /\ ReadsBack(at)
        /\ stream = out /\ start = 0 /\ woutcome = "done"
    BY DEF TripInv, Phases, TripHolds
  <1>3. Found(at)
    BY <1>2 DEF Found
  <1>4. Chained(at)' /\ AllOnStream(out, at)'
    BY <1>1, <1>2, SamePlaces, AllStays
  <1>5. ReadsBack(at)'
    <2>1. CASE ReadPlain
      BY <1>1, <1>3, <2>1, PlainReadBack
    <2>2. CASE ReadBitsOfUnit \/ ReadBitsOfNewUnit
      BY <1>1, <1>3, <2>2, BitsReadBack
    <2>3. ~ReadShort /\ ~ReadBitsBeyondUnit
      BY <1>1, <1>3, NoReadFails
    <2>4. CASE Finish
      <3>1. UNCHANGED <<stream, bb, vals, pos>> /\ outcome' \in {"reading", "done"}
        BY <2>4 DEF Finish
      <3>2. QED
        BY <1>1, <1>2, <3>1, ReadStays
    <2>5. QED
      BY <2>1, <2>2, <2>3, <2>4 DEF ReadField
  <1>6. woutcome' # "writing"
    BY <1>1, <1>2
  <1>7. QED
    BY <1>4, <1>5, <1>6 DEF TripHolds

\* The trip goes from writing to reading, and changes the stream in between.
LEMMA PhasesStep == Typed /\ Phases /\ [TripNext]_tripVars => Phases'
  <1> SUFFICES ASSUME Typed, Phases, [TripNext]_tripVars
               PROVE  Phases'
    OBVIOUS
  <1>1. /\ phase \in {"write", "read"} /\ start = 0
        /\ phase = "write" => stream = <<>> /\ AtRest
        /\ phase = "read" => Laid /\ woutcome = "done" /\ stream = out
    BY DEF Phases
  <1>2. CASE Define /\ UNCHANGED <<writeVars, phase>>
    <2>1. /\ ~Laid /\ UNCHANGED <<writeVars, phase, stream, start, pos, bb, vals, sizes, outcome>>
      BY <1>2 DEF Define, LayoutNext, BitFieldOpens, BitFieldJoins, PlainField
    <2>2. QED
      BY <1>1, <2>1 DEF Phases, AtRest
  <1>3. CASE phase = "write" /\ WriteField /\ UNCHANGED <<readVars, phase>>
    BY <1>1, <1>3 DEF Phases, AtRest, readVars
  <1>4. CASE ReadBack
    <2>1. /\ phase' = "read" /\ stream' = out /\ woutcome = "done"
          /\ UNCHANGED <<def, lay, start, writeVars>>
      BY <1>4 DEF ReadBack
    <2>2. Laid
      <3>1. written = Len(def) /\ WriteInv /\ WriteTypeOK
        BY <2>1 DEF Typed, WriteTypeOK
      <3>2. QED
        BY <2>1, <3>1 DEF WriteInv
    <2>3. Laid' /\ woutcome' = "done" /\ out' = out
      BY <2>1, <2>2, SameStructure DEF writeVars
    <2>4. QED
      BY <1>1, <2>1, <2>3 DEF Phases
  <1>5. CASE phase = "read" /\ (ReadField \/ Finish) /\ UNCHANGED <<writeVars, phase>>
    <2>1. /\ UNCHANGED <<def, lay, stream, start>> /\ UNCHANGED <<out, woutcome, phase>>
      BY <1>5 DEF writeVars, ReadField, Finish, ReadBitsOfUnit, ReadBitsOfNewUnit,
         ReadBitsBeyondUnit, ReadPlain, ReadShort
    <2>2. QED
      BY <1>1, <1>5, <2>1, SameStructure DEF Phases
  <1>6. CASE UNCHANGED tripVars
    <2>1. /\ UNCHANGED <<def, lay, stream, start, pos, bb, vals, sizes, outcome>>
          /\ UNCHANGED <<out, woutcome, phase>>
      BY <1>6 DEF tripVars, readVars, writeVars
    <2>2. QED
      BY <1>1, <2>1, SameStructure DEF Phases, AtRest
  <1>7. QED
    BY <1>2, <1>3, <1>4, <1>5, <1>6 DEF TripNext

LEMMA TripInvStep == Typed /\ TripInv /\ [TripNext]_tripVars => TripInv'
  <1> SUFFICES ASSUME Typed, TripInv, [TripNext]_tripVars
               PROVE  TripInv'
    OBVIOUS
  <1>1. Phases'
    BY PhasesStep DEF TripInv
  <1>2. CASE Define /\ UNCHANGED <<writeVars, phase>>
    <2>1. ~Laid /\ UNCHANGED <<writeVars, phase>>
      BY <1>2 DEF Define, LayoutNext, BitFieldOpens, BitFieldJoins, PlainField
    <2>2. phase = "write" /\ written = 0 /\ out = <<>> /\ wbb = Empty /\ woutcome = "writing"
      BY <2>1 DEF Typed, WriteInv, TripInv, Phases
    <2>3. (written = 0 /\ out = <<>> /\ wbb = Empty /\ woutcome = "writing" /\ phase = "write")'
      BY <2>1, <2>2 DEF writeVars
    <2>4. TripHolds(<<>>)'
      BY <2>3, NothingHandedOn, PTL
    <2>5. <<>> \in Seq(Nat)
      OBVIOUS
    <2>6. QED
      BY <1>1, <2>4, <2>5 DEF TripInv
  <1>3. CASE \/ phase = "write" /\ WriteField /\ UNCHANGED <<readVars, phase>>
             \/ phase = "read" /\ (ReadField \/ Finish) /\ UNCHANGED <<writeVars, phase>>
             \/ ReadBack
             \/ UNCHANGED tripVars
    <2>1. UNCHANGED <<def, lay>>
      BY <1>3 DEF tripVars, readVars, writeVars, ReadBack, ReadField, Finish,
         ReadBitsOfUnit, ReadBitsOfNewUnit, ReadBitsBeyondUnit, ReadPlain, ReadShort
    <2>2. CASE ~(Laid /\ Regular /\ OneUnitRuns)
      <3>1. ~(Laid' /\ Regular' /\ OneUnitRuns')
        BY <2>1, <2>2, SameStructure
      <3>2. QED
        BY <1>1, <3>1 DEF TripInv
    <2>3. CASE Laid /\ Regular /\ OneUnitRuns
      <3>1. PICK at \in Seq(Nat) : TripHolds(at)
        BY <2>3 DEF TripInv
      <3>2. \E next \in Seq(Nat) : TripHolds(next)'
        <4>1. CASE phase = "write" /\ WriteField /\ UNCHANGED <<readVars, phase>>
          BY <2>3, <3>1, <4>1, WriteHolds
        <4>2. CASE phase = "read" /\ (ReadField \/ Finish) /\ UNCHANGED <<writeVars, phase>>
          BY <2>3, <3>1, <4>2, ReadHolds
        <4>3. CASE ReadBack
          <5>1. /\ phase = "write" /\ woutcome = "done"
                /\ UNCHANGED <<def, lay, pos, vals, outcome, out, wide, woutcome>>
            BY <4>3 DEF ReadBack, writeVars
          <5>2. /\ AllOnStream(out, at) /\ Chained(at)
                /\ vals = <<>> /\ pos = 0 /\ outcome = "reading"
            BY <3>1, <5>1 DEF TripHolds, TripInv, Phases, AtRest
          <5>3. AllOnStream(out, at)' /\ Chained(at)'
            BY <5>1, <5>2, AllStays, SamePlaces
          <5>4. ReadsBack(at)'
            <6>1. vals' = <<>> /\ pos' = 0 /\ outcome' = "reading"
              BY <5>1, <5>2
            <6>2. ~FollowsBits(Next1)'
              BY <6>1 DEF FollowsBits, Next1
            <6>3. QED
              BY <6>1, <6>2 DEF ReadsBack, EndOf
          <5>5. TripHolds(at)'
            BY <5>1, <5>3, <5>4 DEF TripHolds
          <5>6. QED
            BY <3>1, <5>5
        <4>4. CASE UNCHANGED tripVars
          <5>1. /\ UNCHANGED <<def, lay, wide>> /\ UNCHANGED <<out, written, wbb>>
                /\ UNCHANGED <<stream, bb, vals, pos>> /\ UNCHANGED <<outcome, woutcome, phase>>
            BY <4>4 DEF tripVars, readVars, writeVars
          <5>2. Chained(at)' /\ (woutcome = "writing" => FieldsHandedOn(at)')
                /\ (woutcome = "done" => AllOnStream(out, at)')
            BY <3>1, <5>1, SamePlaces, HandedOnStays, AllStays DEF TripHolds
          <5>3. phase = "read" => ReadsBack(at)'
            <6>1. ASSUME ReadsBack(at)
                  PROVE  ReadsBack(at)'
              <7>1. outcome' \in {"reading", "done"}
                BY <5>1, <6>1 DEF ReadsBack
              <7>2. QED
                BY <5>1, <6>1, <7>1, ReadStays
            <6>2. QED
              BY <3>1, <6>1 DEF TripHolds
          <5>4. TripHolds(at)'
            BY <5>1, <5>2, <5>3 DEF TripHolds
          <5>5. QED
            BY <3>1, <5>4
        <4>5. QED
          BY <1>3, <4>1, <4>2, <4>3, <4>4
      <3>3. QED
        BY <1>1, <3>2 DEF TripInv
    <2>4. QED
      BY <2>2, <2>3
  <1>4. QED
    BY <1>2, <1>3 DEF TripNext

(***************************************************************************)
(* A regular structure whose runs of bit fields are one unit survives the  *)
(* trip through its bytes, for every value of every field, every size of   *)
(* its types and both byte orders; what one value that is too large for    *)
(* its bits can change are the bits above its own in the unit.             *)
(***************************************************************************)
THEOREM WhatIsWrittenIsRead == TripSpec => []RoundTripRestores
  <1>1. Typed /\ TripInv => RoundTripRestores
    <2> SUFFICES ASSUME Typed, TripInv, phase = "read", Regular, OneUnitRuns
                 PROVE  Restores
      BY DEF RoundTripRestores
    <2>1. Laid /\ woutcome = "done" /\ stream = out
      BY DEF TripInv, Phases
    <2>2. PICK at \in Seq(Nat) : AllOnStream(out, at) /\ ReadsBack(at)
      BY <2>1 DEF TripInv, TripHolds
    <2>3. outcome = "done" => Len(vals) = Len(def)
      BY DEF Typed, ReadInv
    <2>4. ASSUME outcome = "done"
          PROVE  pos = Len(stream)
      BY <2>1, <2>2, <2>3, <2>4 DEF AllOnStream, ReadsBack
    <2>5. QED
      BY <2>2, <2>3, <2>4 DEF Restores, ReadsBack
  <1>2. QED
    BY <1>1, TripInvInit, TripTypes, TripInvStep, PTL DEF TripSpec

=============================================================================

-------------------------- MODULE StructReadProofs --------------------------
(***************************************************************************)
(* Theorems about StructLayout and StructRead, for every structure, every  *)
(* stream and every size of the types: the buffer follows the structure,   *)
(* every field is read at its own bits, no bit is read twice, and reading  *)
(* implements FieldPlacement.                                              *)
(***************************************************************************)
EXTENDS StructRead, TLAPS

-----------------------------------------------------------------------------
(* Numbers *)

\* Widths are natural numbers, and an integer type has a bit at least.
LEMMA WidthType ==
    ASSUME NEW t \in Types
    PROVE  /\ Size[t] \in Nat
           /\ Width(t) \in Nat
           /\ t \in Integer => Width(t) \in 1 .. Top
  <1>1. Size[t] \in Nat
    BY SizeAssumption
  <1>2. BYTE \in Nat
    BY ByteAssumption
  <1>3. Size[t] * BYTE \in Nat
    BY <1>1, <1>2
  <1>4. t \in Integer => Size[t] * BYTE \in 1 .. Top
    BY TopAssumption
  <1>5. QED
    BY <1>1, <1>3, <1>4 DEF Width

\* Shifts and slices of a number are numbers.
LEMMA NumberOperators ==
    /\ Zero \in Numbers
    /\ \A i \in Numbers, n \in Nat : ShiftRight(i, n) \in Numbers
    /\ \A i \in Numbers, lo \in Nat, hi \in Int : Slice(i, lo, hi) \in Numbers
  <1>1. Top \in Nat
    BY TopAssumption
  <1>2. QED
    BY <1>1 DEF Zero, ShiftRight, Slice, Numbers, Pos

\* What the bytes of a stream encode is a number.
LEMMA UnsignedNumber ==
    ASSUME NEW bytes \in Seq(Bytes)
    PROVE  Unsigned(bytes) \in Numbers
  <1> DEFINE At(p) == {y \in (1 .. Len(bytes)) \X (0 .. BYTE - 1) :
                         p = Significance(Len(bytes), y[1]) * BYTE + y[2]}
             Held(p) == UNION {bytes[x[1]][x[2]] : x \in At(p)}
  <1>1. ASSUME NEW p \in Pos, NEW x \in At(p)
        PROVE  bytes[x[1]][x[2]] \subseteq Source
    <2>1. x[1] \in 1 .. Len(bytes) /\ x[2] \in 0 .. BYTE - 1
      OBVIOUS
    <2>2. bytes[x[1]] \in Bytes
      BY <2>1
    <2>3. QED
      BY <2>1, <2>2 DEF Bytes
  <1>2. ASSUME NEW p \in Pos
        PROVE  Held(p) \subseteq Source
    BY <1>1, Zenon
  <1>3. [p \in Pos |-> Held(p)] \in Numbers
    <2> HIDE DEF Held
    <2> QED BY <1>2 DEF Numbers
  <1>4. QED
    BY <1>3 DEF Unsigned

LEMMA DecodeNumber ==
    ASSUME NEW bytes \in Seq(Bytes), NEW t \in Integer
    PROVE  Decode(bytes, t) \in Numbers
  <1>1. t \in Types
    BY KindAssumption
  <1>2. Width(t) \in 1 .. Top /\ Top \in Nat
    BY <1>1, WidthType, TopAssumption
  <1> DEFINE u == Unsigned(bytes)
  <1>3. u \in Numbers
    BY UnsignedNumber
  <1> HIDE DEF u
  <1>4. [p \in Pos |-> IF p >= Width(t) THEN u[Width(t) - 1] ELSE u[p]] \in Numbers
    BY <1>2, <1>3 DEF Numbers, Pos
  <1>5. QED
    BY <1>3, <1>4 DEF Decode, u

\* stream.read returns bytes of the stream, no more than it was asked for, and
\* fewer only at the end of the stream.
LEMMA AvailableBytes ==
    ASSUME NEW s \in Seq(Bytes), NEW p \in Nat, NEW n \in Nat
    PROVE  /\ Available(s, p, n) \in Seq(Bytes)
           /\ Len(Available(s, p, n)) \in 0 .. n
           /\ p + n <= Len(s) => Len(Available(s, p, n)) = n
           /\ ~(p + n <= Len(s)) => /\ p + Len(Available(s, p, n)) >= Len(s)
                                    /\ p >= Len(s) => Available(s, p, n) = <<>>
                                    /\ p <= Len(s) => p + Len(Available(s, p, n)) = Len(s)
  BY DEF Available

-----------------------------------------------------------------------------
(* The bit buffer *)

LEMMA BufferOperators ==
    /\ Empty \in BitBuffers
    /\ \A t \in Integer, bytes \in Seq(Bytes) : Loaded(t, bytes) \in BitBuffers
    /\ \A bb1 \in BitBuffers, bits \in Nat :
          CanTake(bb1, bits) =>
             /\ Taken(bb1, bits) \in Numbers
             /\ AfterTake(bb1, bits) \in BitBuffers
  <1>1. Empty \in BitBuffers
    BY NumberOperators DEF Empty, BitBuffers
  <1>2. ASSUME NEW t \in Integer, NEW bytes \in Seq(Bytes)
        PROVE  Loaded(t, bytes) \in BitBuffers
    <2>1. t \in Types /\ Width(t) \in Int
      BY KindAssumption, WidthType
    <2>2. QED
      BY <2>1, DecodeNumber DEF Loaded, BitBuffers
  <1>3. ASSUME NEW bb1 \in BitBuffers, NEW bits \in Nat, CanTake(bb1, bits)
        PROVE  /\ Taken(bb1, bits) \in Numbers
               /\ AfterTake(bb1, bits) \in BitBuffers
    <2>1. bb1.buffer \in Numbers /\ bb1.remaining \in Int
      BY DEF BitBuffers
    <2>2. BigEndian => bb1.remaining - bits \in Nat
      BY <1>3, <2>1 DEF CanTake
    <2>3. Taken(bb1, bits) \in Numbers
      BY <2>1, <2>2, NumberOperators DEF Taken
    <2>4. ShiftRight(bb1.buffer, bits) \in Numbers
      BY <2>1, NumberOperators
    <2>5. AfterTake(bb1, bits) \in BitBuffers
      BY <2>1, <2>4 DEF AfterTake, BitBuffers
    <2>6. QED
      BY <2>3, <2>5
  <1>4. QED
    BY <1>1, <1>2, <1>3

-----------------------------------------------------------------------------
(* Types *)

\* The next field of the layout is a field, of a type with a size.
LEMMA FieldType ==
    ASSUME def \in Seq(Fields), WellFormed(def), NEW k \in 1 .. Len(def)
    PROVE  /\ def[k].type \in Types
           /\ def[k].bits \in Nat
           /\ Size[def[k].type] \in Nat
           /\ Width(def[k].type) \in Nat
           /\ IsBits(def[k]) => def[k].type \in Integer
  <1>1. def[k] \in Fields
    OBVIOUS
  <1>2. QED
    BY <1>1, WidthType DEF Fields, WellFormed

\* The loop of _calc_offsets keeps its types.
LEMMA LayoutTypes == LayoutTypeOK /\ LayoutNext => LayoutTypeOK'
  <1> SUFFICES ASSUME LayoutTypeOK, LayoutNext
               PROVE  LayoutTypeOK'
    OBVIOUS
  <1> DEFINE k == Len(lay)
  <1>1. k \in 1 .. Len(def) /\ ~Laid
    BY DEF LayoutNext, BitFieldOpens, BitFieldJoins, PlainField, LayoutTypeOK, Laid
  <1>2. lay[k] \in LayoutState
    BY <1>1 DEF LayoutTypeOK
  <1>3. /\ def[k].type \in Types
        /\ def[k].bits \in Nat
        /\ Size[def[k].type] \in Nat
        /\ Width(def[k].type) \in Nat
    BY <1>1, FieldType DEF LayoutTypeOK
  <1>4. lay[k].offset \in Nat \cup {None} /\ lay[k].bits_remaining \in Int
    BY <1>2 DEF LayoutState
  <1>5. Advance(lay[k].offset, Size[def[k].type]) \in Nat \cup {None}
    BY <1>3, <1>4 DEF Advance
  <1>6. ASSUME NEW s \in LayoutState, lay' = Append(lay, s), UNCHANGED def,
               offs' \in [DOMAIN def -> Nat \cup {None}]
        PROVE  LayoutTypeOK'
    BY <1>1, <1>6 DEF LayoutTypeOK
  <1>7. CASE BitFieldOpens
    <2>1. AfterOpening(lay[k], def[k]) \in LayoutState
      BY <1>3, <1>5 DEF AfterOpening, LayoutState
    <2>2. offs' \in [DOMAIN def -> Nat \cup {None}]
      BY <1>1, <1>4, <1>7 DEF BitFieldOpens, LayoutTypeOK
    <2>3. QED
      BY <1>6, <1>7, <2>1, <2>2 DEF BitFieldOpens
  <1>8. CASE BitFieldJoins
    <2>1. AfterJoining(lay[k], def[k]) \in LayoutState
      BY <1>2, <1>3, <1>4 DEF AfterJoining, LayoutState
    <2>2. offs' \in [DOMAIN def -> Nat \cup {None}]
      BY <1>1, <1>8 DEF BitFieldJoins, LayoutTypeOK
    <2>3. QED
      BY <1>6, <1>8, <2>1, <2>2 DEF BitFieldJoins
  <1>9. CASE PlainField
    <2>1. AfterPlain(lay[k], def[k]) \in LayoutState
      BY <1>2, <1>5 DEF AfterPlain, LayoutState
    <2>2. offs' \in [DOMAIN def -> Nat \cup {None}]
      BY <1>1, <1>4, <1>9 DEF PlainField, LayoutTypeOK
    <2>3. QED
      BY <1>6, <1>9, <2>1, <2>2 DEF PlainField
  <1>10. QED
    BY <1>7, <1>8, <1>9 DEF LayoutNext

LEMMA LayoutInitTypes == LayoutInit => LayoutTypeOK
  <1> SUFFICES ASSUME LayoutInit
               PROVE  LayoutTypeOK
    OBVIOUS
  <1>1. def \in Seq(Fields) /\ WellFormed(def)
    BY DefinitionsAssumption DEF LayoutInit
  <1>2. [offset |-> 0, bits_type |-> None, bits_remaining |-> 0] \in LayoutState
    BY DEF LayoutState
  <1>3. QED
    BY <1>1, <1>2 DEF LayoutInit, LayoutTypeOK

-----------------------------------------------------------------------------
(* Type correctness of the reader *)

\* What is read for a field: bytes, and the position and the value they make.
LEMMA FieldRead ==
    ASSUME ReadTypeOK, Reading
    PROVE  LET f == def[Next1]
               bytes == Available(stream, Sought(Next1), Size[f.type])
           IN /\ Next1 \in 1 .. Len(def)
              /\ f.type \in Types /\ f.bits \in Nat
              /\ IsBits(f) => f.type \in Integer
              /\ Size[f.type] \in Nat /\ Width(f.type) \in Nat
              /\ Sought(Next1) \in Nat
              /\ bytes \in Seq(Bytes)
              /\ Value(bytes, f.type) \in Values
  <1> DEFINE f == def[Next1]
             bytes == Available(stream, Sought(Next1), Size[f.type])
  <1>1. Next1 \in 1 .. Len(def)
    BY DEF Reading, Next1, ReadTypeOK, LayoutTypeOK
  <1>2. /\ f.type \in Types /\ f.bits \in Nat
        /\ IsBits(f) => f.type \in Integer
        /\ Size[f.type] \in Nat /\ Width(f.type) \in Nat
    BY <1>1, FieldType DEF ReadTypeOK, LayoutTypeOK
  <1>3. Sought(Next1) \in Nat
    <2>1. offs[Next1] \in Nat \cup {None}
      BY <1>1 DEF ReadTypeOK, LayoutTypeOK
    <2>2. QED
      BY <2>1 DEF Sought, ReadTypeOK
  <1>4. bytes \in Seq(Bytes)
    BY <1>2, <1>3, AvailableBytes DEF ReadTypeOK
  <1>5. Value(bytes, f.type) \in Values
    BY <1>4, DecodeNumber DEF Value, Values
  <1>6. QED
    BY <1>1, <1>2, <1>3, <1>4, <1>5

\* A read position stays a position, and the buffer a buffer.
LEMMA ReadTypes == ReadTypeOK /\ [ReadNext]_readVars => ReadTypeOK'
  <1> SUFFICES ASSUME ReadTypeOK, [ReadNext]_readVars
               PROVE  ReadTypeOK'
    OBVIOUS
  <1> DEFINE k == Next1
             f == def[k]
             bytes == Available(stream, Sought(k), Size[f.type])
             new == Loaded(f.type, bytes)
  <1>1. CASE Define
    BY <1>1, LayoutTypes DEF Define, ReadTypeOK, LayoutNext, BitFieldOpens,
       BitFieldJoins, PlainField
  <1>2. ASSUME Reading
        PROVE  /\ k \in 1 .. Len(def)
               /\ f.type \in Types /\ f.bits \in Nat
               /\ IsBits(f) => f.type \in Integer
               /\ Size[f.type] \in Nat /\ Width(f.type) \in Nat
               /\ Sought(k) \in Nat
               /\ bytes \in Seq(Bytes)
               /\ Value(bytes, f.type) \in Values
               /\ Sought(k) + Len(bytes) \in Nat
    <2>1. /\ k \in 1 .. Len(def)
          /\ f.type \in Types /\ f.bits \in Nat
          /\ IsBits(f) => f.type \in Integer
          /\ Size[f.type] \in Nat /\ Width(f.type) \in Nat
          /\ Sought(k) \in Nat
          /\ bytes \in Seq(Bytes)
          /\ Value(bytes, f.type) \in Values
      BY <1>2, FieldRead
    <2>2. Len(bytes) \in Nat
      BY <2>1
    <2>3. QED
      BY <2>1, <2>2
  <1>3. ASSUME Reading, UNCHANGED <<def, lay, offs, stream, start>>,
               NEW v \in Values, NEW z \in Nat \cup {None},
               vals' = Append(vals, v), sizes' = Append(sizes, z),
               bb' \in BitBuffers, pos' \in Nat, UNCHANGED outcome
        PROVE  ReadTypeOK'
    BY <1>2, <1>3 DEF ReadTypeOK, LayoutTypeOK, Reading, Next1
  <1>4. CASE ReadBitsOfUnit
    <2>1. Reading
      BY <1>4 DEF ReadBitsOfUnit
    <2>2. /\ Taken(bb, f.bits) \in Values
          /\ AfterTake(bb, f.bits) \in BitBuffers
      BY <1>2, <1>4, <2>1, BufferOperators DEF ReadBitsOfUnit, ReadTypeOK, Values
    <2>3. QED
      BY <1>2, <1>3, <1>4, <2>1, <2>2 DEF ReadBitsOfUnit
  <1>5. CASE ReadBitsOfNewUnit
    <2>1. Reading /\ IsBits(f) /\ CanTake(new, f.bits)
      BY <1>5 DEF ReadBitsOfNewUnit
    <2>2. new \in BitBuffers
      BY <1>2, <2>1, BufferOperators
    <2>3. /\ Taken(new, f.bits) \in Values
          /\ AfterTake(new, f.bits) \in BitBuffers
      BY <1>2, <2>1, <2>2, BufferOperators DEF Values
    <2>4. QED
      BY <1>2, <1>3, <1>5, <2>1, <2>3 DEF ReadBitsOfNewUnit
  <1>6. CASE ReadBitsBeyondUnit
    <2>1. Reading /\ IsBits(f)
      BY <1>6 DEF ReadBitsBeyondUnit
    <2>2. new \in BitBuffers
      BY <1>2, <2>1, BufferOperators
    <2>3. bb' \in BitBuffers /\ pos' \in Nat
      BY <1>2, <1>6, <2>1, <2>2 DEF ReadBitsBeyondUnit, ReadTypeOK
    <2>4. QED
      BY <1>6, <2>3 DEF ReadBitsBeyondUnit, ReadTypeOK, LayoutTypeOK, Outcomes
  <1>7. CASE ReadPlain
    <2>1. Reading
      BY <1>7 DEF ReadPlain
    <2>2. bb' \in BitBuffers /\ Len(bytes) \in Nat
      BY <1>2, <1>7, <2>1, BufferOperators DEF ReadPlain
    <2>3. QED
      BY <1>2, <1>3, <1>7, <2>1, <2>2 DEF ReadPlain
  <1>8. CASE ReadShort
    <2>1. Reading
      BY <1>8 DEF ReadShort
    <2>2. [type |-> f.type, buffer |-> bb.buffer, remaining |-> Width(f.type)] \in BitBuffers
      BY <1>2, <2>1 DEF ReadTypeOK, BitBuffers
    <2>3. bb' \in BitBuffers /\ pos' \in Nat
      BY <1>2, <1>8, <2>1, <2>2, BufferOperators DEF ReadShort
    <2>4. QED
      BY <1>8, <2>3 DEF ReadShort, ReadTypeOK, LayoutTypeOK, Outcomes
  <1>9. CASE Finish
    BY <1>9 DEF Finish, ReadTypeOK, LayoutTypeOK, Outcomes
  <1>10. CASE ReadAgain
    BY <1>10, BufferOperators DEF ReadAgain, ReadTypeOK, LayoutTypeOK, Outcomes
  <1>11. CASE UNCHANGED readVars
    BY <1>11 DEF readVars, ReadTypeOK, LayoutTypeOK
  <1>12. QED
    BY <1>1, <1>4, <1>5, <1>6, <1>7, <1>8, <1>9, <1>10, <1>11
       DEF ReadNext, ReadField

(***************************************************************************)
(* The variables of the reader keep their types: every value is a number   *)
(* or bytes, every position a natural number, whatever the structure and   *)
(* wherever the stream ends.                                               *)
(***************************************************************************)
THEOREM ReadTypeCorrect == ReadSpec => []ReadTypeOK
  <1>1. ReadInit => ReadTypeOK
    <2> SUFFICES ASSUME ReadInit
                 PROVE  ReadTypeOK
      OBVIOUS
    <2>1. LayoutTypeOK
      BY LayoutInitTypes DEF ReadInit
    <2>2. stream \in Seq(Bytes) /\ start \in Nat
      BY StreamsAssumption DEF ReadInit
    <2>3. QED
      BY <2>1, <2>2, BufferOperators DEF ReadInit, ReadTypeOK, Outcomes, LayoutTypeOK
  <1>2. QED
    BY <1>1, ReadTypes, PTL DEF ReadSpec

-----------------------------------------------------------------------------
(* The layout and the reader *)

\* The loop of _calc_offsets appends to its chain, and changes nothing before.
LEMMA LayoutChain == LayoutTypeOK /\ LayoutInv /\ LayoutNext => LayoutInv'
  <1> SUFFICES ASSUME LayoutTypeOK, LayoutInv, LayoutNext
               PROVE  LayoutInv'
    OBVIOUS
  <1> DEFINE n == Len(lay)
             Given(k) == IF IsBits(def[k]) /\ ~Opens(lay[k], def[k])
                         THEN None ELSE lay[k].offset
  <1>1. n \in 1 .. Len(def) /\ UNCHANGED def
    BY DEF LayoutNext, BitFieldOpens, BitFieldJoins, PlainField, LayoutTypeOK, Laid
  <1>2. lay' = Append(lay, After(lay[n], def[n]))
    BY DEF LayoutNext, BitFieldOpens, BitFieldJoins, PlainField, After
  <1>3. offs[n] = None
    BY <1>1 DEF LayoutInv
  <1>4. offs' = [offs EXCEPT ![n] = Given(n)]
    <2>1. n \in DOMAIN offs
      BY <1>1 DEF LayoutTypeOK
    <2>2. CASE BitFieldOpens
      BY <1>3, <2>1, <2>2 DEF BitFieldOpens, LayoutTypeOK
    <2>3. CASE BitFieldJoins
      BY <2>3 DEF BitFieldJoins
    <2>4. CASE PlainField
      BY <2>4 DEF PlainField
    <2>5. QED
      BY <2>2, <2>3, <2>4 DEF LayoutNext
  <1>5. /\ Len(lay') = n + 1
        /\ \A k \in 1 .. n : lay'[k] = lay[k]
        /\ lay'[n + 1] = After(lay[n], def[n])
    BY <1>1, <1>2 DEF LayoutTypeOK
  <1>6. /\ offs'[n] = Given(n)
        /\ \A k \in 1 .. Len(def) : k # n => offs'[k] = offs[k]
    <2>1. offs \in [1 .. Len(def) -> Nat \cup {None}]
      BY DEF LayoutTypeOK
    <2>2. QED
      BY <1>1, <1>4, <2>1
  <1>7. lay'[1] = [offset |-> 0, bits_type |-> None, bits_remaining |-> 0]
    BY <1>1, <1>5 DEF LayoutInv
  <1>8. ASSUME NEW k \in 1 .. n
        PROVE  /\ lay'[k + 1] = After(lay'[k], def'[k])
               /\ offs'[k] = IF IsBits(def'[k]) /\ ~Opens(lay'[k], def'[k])
                             THEN None ELSE lay'[k].offset
    <2>1. CASE k = n
      BY <1>1, <1>5, <1>6, <2>1
    <2>2. CASE k \in 1 .. n - 1
      BY <1>1, <1>5, <1>6, <2>2 DEF LayoutInv
    <2>3. QED
      BY <1>1, <2>1, <2>2
  <1>9. ASSUME NEW k \in n + 1 .. Len(def)
        PROVE  offs'[k] = None
    BY <1>1, <1>6 DEF LayoutInv
  <1>10. QED
    BY <1>1, <1>5, <1>7, <1>8, <1>9 DEF LayoutInv

(***************************************************************************)
(* What the layout says of field k, once it has been computed, and of the  *)
(* loop variables after it.                                                *)
(***************************************************************************)
LEMMA LayoutOfField ==
    ASSUME LayoutTypeOK, LayoutInv, Laid, NEW k \in 1 .. Len(def)
    PROVE  /\ lay[k] \in LayoutState
           /\ lay[k + 1] = After(lay[k], def[k])
           /\ offs[k] = IF IsBits(def[k]) /\ ~Opens(lay[k], def[k])
                        THEN None ELSE lay[k].offset
           /\ Regular => RegularField(k)
  BY DEF LayoutTypeOK, LayoutInv, Laid, Regular

(***************************************************************************)
(* Bytes read for a field at the offset the layout knows leave the reader  *)
(* where the layout is after the field.                                    *)
(***************************************************************************)
LEMMA PositionAfterBytes ==
    ASSUME ReadTypeOK, ReadInv, Reading, PositionKnown(Next1),
           offs[Next1] = lay[Next1].offset,
           NEW bytes,
           bytes = Available(stream, Sought(Next1), Size[def[Next1].type]),
           NEW next,
           next = Advance(lay[Next1].offset, Size[def[Next1].type]),
           next # None
    PROVE  \/ Sought(Next1) + Len(bytes) = start + next
           \/ /\ Len(stream) <= Sought(Next1) + Len(bytes)
              /\ Sought(Next1) + Len(bytes) <= start + next
  <1> DEFINE k == Next1
             n == Size[def[k].type]
             off == lay[k].offset
             p == Sought(k)
  <1>1. /\ k \in 1 .. Len(def) /\ n \in Nat /\ p \in Nat
        /\ bytes \in Seq(Bytes)
    BY FieldRead
  <1>2. off \in Nat /\ next = off + n
    <2>1. off \in Nat \cup {None}
      BY <1>1, LayoutOfField DEF ReadTypeOK, ReadInv, Reading, LayoutState
    <2>2. QED
      BY <2>1 DEF Advance
  <1>3. start \in Nat /\ pos \in Nat /\ Len(stream) \in Nat /\ stream \in Seq(Bytes)
    BY DEF ReadTypeOK
  <1>4. /\ Len(bytes) \in 0 .. n
        /\ p + n <= Len(stream) => Len(bytes) = n
        /\ ~(p + n <= Len(stream)) => p + Len(bytes) >= Len(stream)
    BY <1>1, <1>3, AvailableBytes
  <1>5. p = start + off \/ (Len(stream) <= p /\ p <= start + off)
    BY <1>2, <1>3, NoneAssumption DEF Sought, PositionKnown
  <1> DEFINE l == Len(bytes)
             e == Len(stream)
  <1>6. /\ p \in Nat /\ n \in Nat /\ off \in Nat /\ start \in Nat /\ e \in Nat /\ l \in Nat
        /\ l <= n
        /\ p + n <= e => l = n
        /\ ~(p + n <= e) => p + l >= e
        /\ p = start + off \/ (e <= p /\ p <= start + off)
        /\ next = off + n
    BY <1>1, <1>2, <1>3, <1>4, <1>5
  <1>7. \/ p + l = start + next
        \/ e <= p + l /\ p + l <= start + next
    <2> HIDE DEF p, n, off, l, e
    <2> QED
      BY <1>6
  <1>8. QED
    BY <1>7

\* A field that is read where it is sought for leaves the position known.
LEMMA PositionStaysKnown ==
    ASSUME ReadTypeOK, ReadInv, Reading, Regular, PositionKnown(Next1),
           UNCHANGED <<lay, start, stream>>,
           Len(vals') = Len(vals) + 1,
           LET f == def[Next1]
               bytes == Available(stream, Sought(Next1), Size[f.type])
           IN \/ /\ ~IsBits(f) \/ Opens(lay[Next1], f)
                 /\ pos' = Sought(Next1) + Len(bytes)
              \/ /\ IsBits(f) /\ ~Opens(lay[Next1], f)
                 /\ pos' = Sought(Next1)
    PROVE  PositionKnown(Next1)'
  <1> DEFINE k == Next1
             f == def[k]
             bytes == Available(stream, Sought(k), Size[f.type])
             next == lay[k + 1].offset
  <1>1. k \in 1 .. Len(def) /\ Next1' = k + 1
    BY FieldRead DEF Next1
  <1>2. /\ lay[k] \in LayoutState
        /\ lay[k + 1] = After(lay[k], f)
        /\ offs[k] = IF IsBits(f) /\ ~Opens(lay[k], f) THEN None ELSE lay[k].offset
    BY <1>1, LayoutOfField DEF ReadTypeOK, ReadInv, Reading
  <1>3. SUFFICES ASSUME next # None
                 PROVE  \/ pos' = start + next
                        \/ Len(stream) <= pos' /\ pos' <= start + next
    BY <1>1 DEF PositionKnown
  <1>4. CASE /\ ~IsBits(f) \/ Opens(lay[k], f)
             /\ pos' = Sought(k) + Len(bytes)
    <2>1. offs[k] = lay[k].offset
      BY <1>2, <1>4
    <2>2. next = Advance(lay[k].offset, Size[f.type])
      BY <1>2, <1>3, <1>4 DEF After, AfterPlain, AfterOpening
    <2>3. QED
      BY <1>3, <1>4, <2>1, <2>2, PositionAfterBytes
  <1>5. CASE IsBits(f) /\ ~Opens(lay[k], f) /\ pos' = Sought(k)
    <2>1. next = lay[k].offset
      BY <1>2, <1>5 DEF After, AfterJoining
    <2>2. pos' = pos
      BY <1>2, <1>5 DEF Sought
    <2>3. QED
      BY <1>3, <2>1, <2>2 DEF PositionKnown
  <1>6. QED
    BY <1>4, <1>5

(***************************************************************************)
(* In a regular structure the reader takes a new unit exactly when the     *)
(* layout opened one, although the reader looks at the size of the type    *)
(* and the layout at its identity.                                         *)
(***************************************************************************)
LEMMA UnitsAgree ==
    ASSUME ReadTypeOK, ReadInv, Reading, Regular, BufferKnown(Next1),
           IsBits(def[Next1])
    PROVE  NeedsUnit(bb, def[Next1].type) <=> Opens(lay[Next1], def[Next1])
  <1> DEFINE k == Next1
             f == def[k]
             s == lay[k]
  <1>1. k \in 1 .. Len(def) /\ f.bits \in Nat
    BY FieldRead
  <1>2. s \in LayoutState /\ RegularField(k)
    BY <1>1, LayoutOfField DEF ReadTypeOK, ReadInv, Reading
  <1>3. s.bits_remaining \in Int /\ bb.remaining \in Int
    BY <1>2 DEF LayoutState, ReadTypeOK, BitBuffers
  <1>4. CASE Opens(s, f)
    <2>1. FollowsBits(k) /\ s.bits_remaining # 0 => Size[f.type] # Size[s.bits_type]
      BY <1>2, <1>4 DEF RegularField
    <2>2. QED
      BY <1>3, <1>4, <2>1 DEF NeedsUnit, BufferKnown
  <1>5. CASE ~Opens(s, f)
    <2>1. /\ FollowsBits(k) /\ f.bits <= s.bits_remaining
          /\ f.type = s.bits_type
      BY <1>2, <1>5 DEF RegularField, Opens
    <2>2. bb.remaining >= 1 /\ Size[bb.type] = Size[f.type]
      BY <1>1, <1>3, <2>1 DEF BufferKnown, IsBits
    <2>3. QED
      BY <1>5, <2>2 DEF NeedsUnit
  <1>6. QED
    BY <1>4, <1>5

\* In a regular structure a bit field has no more bits than there are for it.
LEMMA FieldFits ==
    ASSUME ReadTypeOK, ReadInv, Reading, Regular, IsBits(def[Next1])
    PROVE  LET f == def[Next1] IN
           /\ f.bits \in Nat /\ bb.remaining \in Int
           /\ NeedsUnit(bb, f.type) => f.bits <= Width(f.type)
           /\ ~NeedsUnit(bb, f.type) => f.bits <= bb.remaining
  <1> DEFINE k == Next1
             f == def[k]
  <1>1. k \in 1 .. Len(def) /\ f.bits \in Nat
    BY FieldRead
  <1>2. RegularField(k) /\ BufferKnown(k)
    BY <1>1, LayoutOfField DEF ReadTypeOK, ReadInv, Reading
  <1>3. NeedsUnit(bb, f.type) <=> Opens(lay[k], f)
    BY <1>2, UnitsAgree
  <1>4. QED
    BY <1>1, <1>2, <1>3 DEF RegularField, BufferKnown, ReadTypeOK, BitBuffers

\* After a bit field the buffer holds as many bits as the layout counts.
LEMMA BufferStaysKnown ==
    ASSUME ReadTypeOK, ReadInv, Reading, Regular, BufferKnown(Next1),
           UNCHANGED <<def, lay>>,
           Len(vals') = Len(vals) + 1,
           LET f == def[Next1]
               bytes == Available(stream, Sought(Next1), Size[f.type])
           IN \/ ~IsBits(f) /\ bb' = Empty
              \/ /\ IsBits(f)
                 /\ NeedsUnit(bb, f.type)
                 /\ bb' = AfterTake(Loaded(f.type, bytes), f.bits)
              \/ /\ IsBits(f)
                 /\ ~NeedsUnit(bb, f.type)
                 /\ bb' = AfterTake(bb, f.bits)
    PROVE  BufferKnown(Next1)'
  <1> DEFINE k == Next1
             f == def[k]
             s == lay[k]
             bytes == Available(stream, Sought(k), Size[f.type])
  <1>1. /\ k \in 1 .. Len(def) /\ Next1' = k + 1
        /\ f.bits \in Nat /\ Width(f.type) \in Nat
    BY FieldRead DEF Next1
  <1>2. /\ s \in LayoutState /\ RegularField(k)
        /\ lay[k + 1] = After(s, f)
    BY <1>1, LayoutOfField DEF ReadTypeOK, ReadInv, Reading
  <1>3. s.bits_remaining \in Int /\ bb.remaining \in Int
    BY <1>2 DEF LayoutState, ReadTypeOK, BitBuffers
  <1>4. FollowsBits(Next1)' <=> IsBits(f)
    BY <1>1 DEF FollowsBits
  <1>5. CASE ~IsBits(f) /\ bb' = Empty
    BY <1>1, <1>4, <1>5 DEF BufferKnown, Empty
  <1>6. CASE /\ IsBits(f)
             /\ NeedsUnit(bb, f.type)
             /\ bb' = AfterTake(Loaded(f.type, bytes), f.bits)
    <2>1. Opens(s, f)
      BY <1>6, UnitsAgree
    <2>2. /\ lay[k + 1].bits_remaining = Width(f.type) - f.bits
          /\ lay[k + 1].bits_type = f.type
      BY <1>2, <1>6, <2>1 DEF After, AfterOpening
    <2>3. bb'.remaining = Width(f.type) - f.bits /\ bb'.type = f.type
      BY <1>6 DEF AfterTake, Loaded
    <2>4. f.bits <= Width(f.type)
      BY <1>2, <1>6, <2>1 DEF RegularField
    <2>5. QED
      BY <1>1, <1>4, <1>6, <2>2, <2>3, <2>4 DEF BufferKnown
  <1>7. CASE /\ IsBits(f)
             /\ ~NeedsUnit(bb, f.type)
             /\ bb' = AfterTake(bb, f.bits)
    <2>1. ~Opens(s, f)
      BY <1>7, UnitsAgree
    <2>2. /\ lay[k + 1].bits_remaining = s.bits_remaining - f.bits
          /\ lay[k + 1].bits_type = s.bits_type
      BY <1>2, <1>7, <2>1 DEF After, AfterJoining
    <2>3. bb'.remaining = bb.remaining - f.bits /\ bb'.type = bb.type
      BY <1>7 DEF AfterTake
    <2>4. FollowsBits(k) /\ f.bits <= s.bits_remaining
      BY <1>2, <1>7, <2>1 DEF RegularField
    <2>5. /\ bb.remaining = s.bits_remaining
          /\ bb.remaining > 0 => Size[bb.type] = Size[s.bits_type]
      BY <2>4 DEF BufferKnown
    <2>6. QED
      BY <1>1, <1>3, <1>4, <1>7, <2>2, <2>3, <2>4, <2>5 DEF BufferKnown
  <1>8. QED
    BY <1>5, <1>6, <1>7

\* At the beginning of a structure nothing is to be known but the start.
LEMMA KnownAtStart ==
    ASSUME LayoutInv, vals = <<>>, pos = start, bb = Empty, start \in Nat
    PROVE  PositionKnown(Next1) /\ BufferKnown(Next1)
  <1>1. Next1 = 1
    BY DEF Next1
  <1>2. lay[1].offset = 0
    BY DEF LayoutInv
  <1>3. QED
    BY <1>1, <1>2 DEF PositionKnown, BufferKnown, FollowsBits, Empty

LEMMA ReadInvInit == ReadInit => ReadInv
  <1> SUFFICES ASSUME ReadInit
               PROVE  ReadInv
    OBVIOUS
  <1>1. def \in Seq(Fields)
    BY DefinitionsAssumption DEF ReadInit, LayoutInit
  <1>2. LayoutInv
    BY <1>1 DEF ReadInit, LayoutInit, LayoutInv
  <1>3. start \in Nat
    BY StreamsAssumption DEF ReadInit
  <1>4. PositionKnown(Next1) /\ BufferKnown(Next1)
    BY <1>2, <1>3, KnownAtStart DEF ReadInit
  <1>5. QED
    BY <1>2, <1>4 DEF ReadInv, ReadInit

LEMMA ReadInvStep == ReadTypeOK /\ ReadInv /\ [ReadNext]_readVars => ReadInv'
  <1> SUFFICES ASSUME ReadTypeOK, ReadInv, [ReadNext]_readVars
               PROVE  ReadInv'
    OBVIOUS
  <1>1. ReadTypeOK'
    BY ReadTypes
  <1>2. CASE Define
    <2>1. LayoutNext /\ UNCHANGED <<stream, start, pos, bb, vals, sizes, outcome>>
      BY <1>2 DEF Define
    <2>2. LayoutInv'
      BY <2>1, LayoutChain DEF ReadInv, ReadTypeOK
    <2>3. ~Laid
      BY <2>1 DEF LayoutNext, BitFieldOpens, BitFieldJoins, PlainField
    <2>4. /\ outcome' = "reading" /\ vals' = <<>> /\ pos' = start'
          /\ bb' = Empty /\ start' \in Nat
      BY <2>1, <2>3 DEF ReadInv, ReadTypeOK
    <2>5. (PositionKnown(Next1) /\ BufferKnown(Next1))'
      <3>1. Next1' = 1
        BY <2>4 DEF Next1
      <3>2. lay'[1].offset = 0
        BY <2>2 DEF LayoutInv
      <3>3. QED
        BY <2>1, <2>4, <3>1, <3>2 DEF PositionKnown, BufferKnown, FollowsBits, Empty
    <2>6. QED
      BY <2>2, <2>4, <2>5 DEF ReadInv, Empty
  <1>3. ASSUME ReadField
        PROVE  Reading /\ UNCHANGED <<def, lay, offs, stream, start>>
    BY <1>3 DEF ReadField, ReadBitsOfUnit, ReadBitsOfNewUnit, ReadBitsBeyondUnit,
       ReadPlain, ReadShort
  <1>4. ASSUME UNCHANGED <<def, lay, offs>>
        PROVE  LayoutInv' /\ (Laid' <=> Laid) /\ (Regular' <=> Regular)
    <2>1. LayoutInv'
      BY <1>4 DEF ReadInv, LayoutInv
    <2>2. Laid' <=> Laid
      BY <1>4 DEF Laid
    <2>3. Regular' <=> Regular
      BY <1>4 DEF Regular, RegularField, FollowsBits
    <2>4. QED
      BY <2>1, <2>2, <2>3
  <1>5. ASSUME Reading, UNCHANGED <<def, lay, offs, stream, start, outcome>>,
               Regular => (PositionKnown(Next1) /\ BufferKnown(Next1))'
        PROVE  ReadInv'
    BY <1>4, <1>5 DEF ReadInv, Reading
  <1>6. ASSUME Reading, Regular
        PROVE  PositionKnown(Next1) /\ BufferKnown(Next1)
    BY <1>6 DEF ReadInv, Reading
  <1>7. CASE ReadBitsOfUnit
    <2>1. Reading /\ UNCHANGED <<def, lay, offs, stream, start, outcome>>
      BY <1>7 DEF ReadBitsOfUnit
    <2>2. ASSUME Regular
          PROVE  (PositionKnown(Next1) /\ BufferKnown(Next1))'
      <3>1. Len(vals') = Len(vals) + 1
        BY <1>7 DEF ReadBitsOfUnit, ReadTypeOK
      <3>2. /\ IsBits(def[Next1])
            /\ ~NeedsUnit(bb, def[Next1].type)
            /\ bb' = AfterTake(bb, def[Next1].bits)
            /\ pos' = Sought(Next1)
        BY <1>7 DEF ReadBitsOfUnit
      <3>3. ~Opens(lay[Next1], def[Next1])
        BY <1>6, <2>1, <2>2, <3>2, UnitsAgree
      <3>4. PositionKnown(Next1)'
        BY <1>6, <2>1, <2>2, <3>1, <3>2, <3>3, PositionStaysKnown
      <3>5. BufferKnown(Next1)'
        BY <1>6, <2>1, <2>2, <3>1, <3>2, BufferStaysKnown
      <3>6. QED
        BY <3>4, <3>5
    <2>3. QED
      BY <1>5, <2>1, <2>2
  <1>8. CASE ReadBitsOfNewUnit
    <2> DEFINE f == def[Next1]
               bytes == Available(stream, Sought(Next1), Size[f.type])
    <2>1. Reading /\ UNCHANGED <<def, lay, offs, stream, start, outcome>>
      BY <1>8 DEF ReadBitsOfNewUnit
    <2>2. ASSUME Regular
          PROVE  (PositionKnown(Next1) /\ BufferKnown(Next1))'
      <3>1. Len(vals') = Len(vals) + 1
        BY <1>8 DEF ReadBitsOfNewUnit, ReadTypeOK
      <3>2. /\ IsBits(f)
            /\ NeedsUnit(bb, f.type)
            /\ bb' = AfterTake(Loaded(f.type, bytes), f.bits)
            /\ pos' = Sought(Next1) + Len(bytes)
        BY <1>8 DEF ReadBitsOfNewUnit
      <3>3. Opens(lay[Next1], f)
        BY <1>6, <2>1, <2>2, <3>2, UnitsAgree
      <3>4. PositionKnown(Next1)'
        BY <1>6, <2>1, <2>2, <3>1, <3>2, <3>3, PositionStaysKnown
      <3>5. BufferKnown(Next1)'
        BY <1>6, <2>1, <2>2, <3>1, <3>2, BufferStaysKnown
      <3>6. QED
        BY <3>4, <3>5
    <2>3. QED
      BY <1>5, <2>1, <2>2
  <1>9. CASE ReadPlain
    <2>1. Reading /\ UNCHANGED <<def, lay, offs, stream, start, outcome>>
      BY <1>9 DEF ReadPlain
    <2>2. ASSUME Regular
          PROVE  (PositionKnown(Next1) /\ BufferKnown(Next1))'
      <3>1. Len(vals') = Len(vals) + 1
        BY <1>9 DEF ReadPlain, ReadTypeOK
      <3>2. /\ ~IsBits(def[Next1])
            /\ bb' = Empty
            /\ pos' = Sought(Next1)
                      + Len(Available(stream, Sought(Next1), Size[def[Next1].type]))
        BY <1>9 DEF ReadPlain
      <3>3. PositionKnown(Next1)'
        BY <1>6, <2>1, <2>2, <3>1, <3>2, PositionStaysKnown
      <3>4. BufferKnown(Next1)'
        BY <1>6, <2>1, <2>2, <3>1, <3>2, BufferStaysKnown
      <3>5. QED
        BY <3>3, <3>4
    <2>3. QED
      BY <1>5, <2>1, <2>2
  <1>10. CASE ReadBitsBeyondUnit \/ ReadShort
    <2>1. outcome' \in {"EOFError", "ValueError"} /\ UNCHANGED vals
      BY <1>10 DEF ReadBitsBeyondUnit, ReadShort
    <2>2. Reading /\ UNCHANGED <<def, lay, offs, stream, start>>
      BY <1>3, <1>10 DEF ReadField
    <2>3. QED
      BY <1>4, <2>1, <2>2 DEF ReadInv, Reading
  <1>11. CASE Finish
    <2>1. /\ Laid /\ outcome = "reading" /\ Len(vals) = Len(def) /\ outcome' = "done"
          /\ UNCHANGED <<def, lay, offs, stream, start, pos, bb, vals>>
      BY <1>11 DEF Finish
    <2>2. (PositionKnown(Next1) <=> PositionKnown(Next1)')
          /\ (BufferKnown(Next1) <=> BufferKnown(Next1)')
      BY <2>1 DEF PositionKnown, BufferKnown, FollowsBits, Next1
    <2>3. QED
      BY <1>4, <2>1, <2>2 DEF ReadInv
  <1>12. CASE ReadAgain
    <2>1. /\ outcome = "done" /\ start' = pos /\ bb' = Empty /\ vals' = <<>>
          /\ outcome' = "reading" /\ UNCHANGED <<def, lay, offs, pos>>
      BY <1>12 DEF ReadAgain
    <2>2. Laid
      BY <2>1 DEF ReadInv
    <2>3. LayoutInv'
      BY <1>4, <2>1
    <2>4. start' \in Nat
      BY <1>1 DEF ReadTypeOK
    <2>5. (PositionKnown(Next1) /\ BufferKnown(Next1))'
      <3>1. Next1' = 1
        BY <2>1 DEF Next1
      <3>2. lay'[1].offset = 0
        BY <2>3 DEF LayoutInv
      <3>3. QED
        BY <2>1, <2>4, <3>1, <3>2 DEF PositionKnown, BufferKnown, FollowsBits, Empty
    <2>6. QED
      BY <1>4, <2>1, <2>2, <2>3, <2>5 DEF ReadInv
  <1>13. CASE UNCHANGED readVars
    <2>1. UNCHANGED <<def, lay, offs, stream, start, pos, bb, vals, outcome>>
      BY <1>13 DEF readVars
    <2>2. (PositionKnown(Next1) <=> PositionKnown(Next1)')
          /\ (BufferKnown(Next1) <=> BufferKnown(Next1)')
      BY <2>1 DEF PositionKnown, BufferKnown, FollowsBits, Next1
    <2>3. QED
      BY <1>4, <2>1, <2>2 DEF ReadInv
  <1>14. QED
    BY <1>2, <1>7, <1>8, <1>9, <1>10, <1>11, <1>12, <1>13 DEF ReadNext, ReadField

(***************************************************************************)
(* The inductive invariant of the reader, for every structure and every    *)
(* stream: the layout knows where the reader of a regular structure is.    *)
(***************************************************************************)
THEOREM ReadInvariant == ReadSpec => []ReadInv
  <1>1. QED
    BY ReadInvInit, ReadInvStep, ReadTypeCorrect, PTL DEF ReadSpec

\* An offset of the layout is where the reader is, or beyond the end of the stream.
LEMMA SeekStays == ReadTypeOK /\ ReadInv => SeekIsNoOp
  <1> SUFFICES ASSUME ReadTypeOK, ReadInv, Reading, Regular
               PROVE  \/ Sought(Next1) = pos
                      \/ Len(stream) <= pos /\ pos <= Sought(Next1)
    BY DEF SeekIsNoOp
  <1>1. Next1 \in 1 .. Len(def)
    BY FieldRead
  <1>2. offs[Next1] = None \/ offs[Next1] = lay[Next1].offset
    BY <1>1, LayoutOfField DEF ReadTypeOK, ReadInv, Reading
  <1>3. PositionKnown(Next1)
    BY DEF ReadInv, Reading
  <1>4. QED
    BY <1>2, <1>3 DEF Sought, PositionKnown

(***************************************************************************)
(* No seek moves the stream in a regular structure, unless it has ended:   *)
(* the offsets _calc_offsets computes from the types are the positions     *)
(* reading the fields one after the other reaches.                         *)
(***************************************************************************)
THEOREM SeeksAreNoOps == ReadSpec => []SeekIsNoOp
  <1>1. QED
    BY SeekStays, ReadTypeCorrect, ReadInvariant, PTL

(***************************************************************************)
(* Reading a regular structure whose length is known consumes len() bytes. *)
(***************************************************************************)
THEOREM LengthsAreConsumed == ReadSpec => []LengthIsConsumed
  <1>1. ReadTypeOK /\ ReadInv => LengthIsConsumed
    <2> SUFFICES ASSUME ReadTypeOK, ReadInv, outcome = "done", Regular,
                        lay[Len(lay)].offset # None
                 PROVE  \/ pos = start + lay[Len(lay)].offset
                        \/ Len(stream) <= pos /\ pos <= start + lay[Len(lay)].offset
      BY DEF LengthIsConsumed
    <2>1. Next1 = Len(lay)
      BY DEF ReadInv, Laid, Next1
    <2>2. PositionKnown(Next1)
      BY DEF ReadInv
    <2>3. QED
      BY <2>1, <2>2 DEF PositionKnown
  <1>2. QED
    BY <1>1, ReadTypeCorrect, ReadInvariant, PTL

-----------------------------------------------------------------------------
(***************************************************************************)
(* Where the bits of the values come from: no bit of the stream is read    *)
(* twice in a regular structure.                                           *)
(***************************************************************************)
(***************************************************************************)
(* Each bit of a stream is told apart from the others.  This is no         *)
(* restriction of the streams of the code: a source bit is a name for a    *)
(* place, whatever the value there.                                        *)
(***************************************************************************)
BitsHaveNames ==
    \A s \in Streams : \A i, j \in 1 .. Len(s), b, c \in 0 .. BYTE - 1 :
       i # j \/ b # c => s[i][b] \cap s[j][c] = {}

\* The bits of the stream before position p
BitsBefore(p) == {x \in Source : \E i \in 1 .. Len(stream), b \in 0 .. BYTE - 1 :
                                    i <= p /\ x \in stream[i][b]}

\* The bits of a buffer that are still to be taken, and that they are all different
Unread(buf) == {x \in Source : \E p \in Pos : p < buf.remaining /\ x \in buf.buffer[p]}

Unmixed(buf) ==
    \A p, q \in Pos : p < q /\ q < buf.remaining => buf.buffer[p] \cap buf.buffer[q] = {}

(***************************************************************************)
(* The inductive invariant: the bits of the values read so far, and those  *)
(* that the bit buffer holds for the fields to come, are different bits of *)
(* the stream before its position.                                         *)
(***************************************************************************)
BitsInv ==
    /\ stream \in Streams
    /\ NoBitReadTwice
    /\ Regular /\ outcome \in {"reading", "done"} =>
         /\ bb.remaining <= Top
         /\ Unmixed(bb)
         /\ Unread(bb) \subseteq BitsBefore(pos)
         /\ \A k \in DOMAIN vals : /\ ValueBits(k) \subseteq BitsBefore(pos)
                                   /\ ValueBits(k) \cap Unread(bb) = {}

-----------------------------------------------------------------------------
(* The bits of numbers and bytes *)

LEMMA BitsOfValues ==
    /\ \A v \in Numbers : \A x : x \in NumberBits(v) <=> \E p \in Pos : x \in v[p]
    /\ \A v \in Seq(Bytes) : \A x :
          x \in SequenceBits(v) <=> \E i \in 1 .. Len(v), b \in 0 .. BYTE - 1 : x \in v[i][b]
  <1>1. ASSUME NEW v \in Seq(Bytes), NEW x
        PROVE  x \in SequenceBits(v) <=>
                 \E i \in 1 .. Len(v), b \in 0 .. BYTE - 1 : x \in v[i][b]
    <2>1. DOMAIN v = 1 .. Len(v)
      OBVIOUS
    <2>2. QED
      BY <2>1 DEF SequenceBits
  <1>2. ASSUME NEW v \in Numbers, NEW x
        PROVE  x \in NumberBits(v) <=> \E p \in Pos : x \in v[p]
    BY Zenon DEF NumberBits
  <1>3. QED
    BY <1>1, <1>2

\* A bit of the number that bytes encode is a bit of the bytes.
LEMMA BitsOfDecoded ==
    ASSUME NEW bytes \in Seq(Bytes), NEW t \in Integer, NEW p \in Pos,
           NEW x \in Decode(bytes, t)[p]
    PROVE  \E i \in 1 .. Len(bytes), b \in 0 .. BYTE - 1 :
              /\ x \in bytes[i][b]
              /\ p < Width(t) => p = Significance(Len(bytes), i) * BYTE + b
  <1>1. Width(t) \in 1 .. Top /\ Top \in Nat
    BY WidthType, KindAssumption, TopAssumption
  <1>2. PICK q \in Pos : /\ x \in Unsigned(bytes)[q]
                         /\ p < Width(t) => q = p
    BY <1>1 DEF Decode, Pos
  <1>3. \E y \in (1 .. Len(bytes)) \X (0 .. BYTE - 1) :
           /\ q = Significance(Len(bytes), y[1]) * BYTE + y[2]
           /\ x \in bytes[y[1]][y[2]]
    BY <1>2, Zenon DEF Unsigned
  <1>4. QED
    BY <1>2, <1>3

\* A bit of a number of the bytes is one of the bits of the bytes.
LEMMA DecodedFromBytes ==
    ASSUME NEW bytes \in Seq(Bytes), NEW t \in Integer
    PROVE  NumberBits(Decode(bytes, t)) \subseteq SequenceBits(bytes)
  <1>1. ASSUME NEW x \in NumberBits(Decode(bytes, t))
        PROVE  x \in SequenceBits(bytes)
    <2>1. PICK p \in Pos : x \in Decode(bytes, t)[p]
      BY DecodeNumber, BitsOfValues
    <2>2. QED
      BY <2>1, BitsOfDecoded, BitsOfValues
  <1>2. QED
    BY <1>1

-----------------------------------------------------------------------------
(* The bit buffer *)

\* Taking a field splits what is unread into the field and the rest.
LEMMA TakeSplits ==
    ASSUME NEW buf \in BitBuffers, NEW bits \in Nat,
           bits <= buf.remaining, buf.remaining <= Top, Unmixed(buf)
    PROVE  /\ Taken(buf, bits) \in Numbers
           /\ NumberBits(Taken(buf, bits)) \subseteq Unread(buf)
           /\ Unread(AfterTake(buf, bits)) \subseteq Unread(buf)
           /\ NumberBits(Taken(buf, bits)) \cap Unread(AfterTake(buf, bits)) = {}
           /\ Unmixed(AfterTake(buf, bits))
           /\ AfterTake(buf, bits).remaining <= Top
  <1> DEFINE r == buf.remaining
             i == buf.buffer
             n == AfterTake(buf, bits)
             From(p) == IF BigEndian THEN p ELSE p + bits
  <1>1. /\ r \in Nat /\ i \in Numbers /\ Top \in Nat
        /\ n.remaining = r - bits
    BY TopAssumption DEF BitBuffers, AfterTake
  <1>2. Taken(buf, bits) \in Numbers
    BY BufferOperators DEF CanTake
  <1>3. ASSUME NEW p \in Pos, NEW x \in Taken(buf, bits)[p]
        PROVE  \E q \in Pos : /\ q < r /\ x \in i[q]
                              /\ IF BigEndian THEN q >= r - bits ELSE q < bits
    <2>1. CASE BigEndian
      <3>1. p + (r - bits) < r /\ p + (r - bits) \in Pos /\ x \in i[p + (r - bits)]
        BY <1>1, <1>3, <2>1 DEF Taken, Slice, Pos
      <3>2. QED
        BY <1>1, <2>1, <3>1 DEF Pos
    <2>2. CASE ~BigEndian
      <3>1. p < bits /\ x \in i[p]
        BY <1>1, <1>3, <2>2 DEF Taken, Slice, Pos
      <3>2. QED
        BY <1>1, <2>2, <3>1 DEF Pos
    <2>3. QED
      BY <2>1, <2>2
  <1>4. ASSUME NEW p \in Pos, p < r - bits
        PROVE  /\ From(p) \in Pos /\ From(p) < r
               /\ n.buffer[p] = i[From(p)]
               /\ ~ IF BigEndian THEN From(p) >= r - bits ELSE From(p) < bits
    BY <1>1, <1>4 DEF AfterTake, ShiftRight, Pos
  <1>5. \A q \in Pos : i[q] \subseteq Source
    BY <1>1 DEF Numbers
  <1>6. ASSUME NEW x \in NumberBits(Taken(buf, bits))
        PROVE  x \in Unread(buf) /\ x \notin Unread(n)
    <2>1. PICK q \in Pos : /\ q < r /\ x \in i[q]
                           /\ IF BigEndian THEN q >= r - bits ELSE q < bits
      BY <1>2, <1>3, BitsOfValues
    <2>2. x \in Unread(buf)
      BY <1>5, <2>1 DEF Unread
    <2>3. ASSUME NEW p \in Pos, p < r - bits, x \in n.buffer[p]
          PROVE  FALSE
      <3>1. /\ From(p) \in Pos /\ From(p) < r /\ x \in i[From(p)]
            /\ From(p) # q
        BY <1>1, <1>4, <2>1, <2>3 DEF Pos
      <3> HIDE DEF From
      <3>2. From(p) < q \/ q < From(p)
        BY <1>1, <2>1, <3>1 DEF Pos
      <3>3. QED
        BY <2>1, <3>1, <3>2 DEF Unmixed
    <2>4. x \notin Unread(n)
      BY <1>1, <2>3 DEF Unread
    <2>5. QED
      BY <2>2, <2>4
  <1>7. ASSUME NEW x \in Unread(n)
        PROVE  x \in Unread(buf)
    <2>1. PICK p \in Pos : p < r - bits /\ x \in n.buffer[p]
      BY <1>1, <1>7 DEF Unread
    <2>2. From(p) \in Pos /\ From(p) < r /\ x \in i[From(p)]
      BY <1>4, <2>1
    <2> HIDE DEF From
    <2>3. QED
      BY <1>5, <2>2 DEF Unread
  <1>8. Unmixed(n)
    <2> SUFFICES ASSUME NEW p \in Pos, NEW q \in Pos, p < q, q < r - bits
                 PROVE  n.buffer[p] \cap n.buffer[q] = {}
      BY <1>1 DEF Unmixed
    <2>1. p < r - bits
      BY <1>1 DEF Pos
    <2>2. /\ From(p) \in Pos /\ From(p) < r /\ n.buffer[p] = i[From(p)]
          /\ From(q) \in Pos /\ From(q) < r /\ n.buffer[q] = i[From(q)]
      BY <1>4, <2>1
    <2>3. From(p) < From(q)
      BY <1>1 DEF Pos
    <2> HIDE DEF From
    <2>4. QED
      BY <2>2, <2>3 DEF Unmixed
  <1>9. n.remaining <= Top
    BY <1>1
  <1>10. QED
    BY <1>2, <1>6, <1>7, <1>8, <1>9

\* A new unit holds the bits of the bytes it was loaded from, each once.
LEMMA LoadedUnmixed ==
    ASSUME NEW bytes \in Seq(Bytes), NEW t \in Integer,
           \A i, j \in 1 .. Len(bytes), b, c \in 0 .. BYTE - 1 :
              i # j \/ b # c => bytes[i][b] \cap bytes[j][c] = {}
    PROVE  /\ Loaded(t, bytes) \in BitBuffers
           /\ Loaded(t, bytes).remaining = Width(t)
           /\ Width(t) \in 1 .. Top
           /\ Unmixed(Loaded(t, bytes))
           /\ Unread(Loaded(t, bytes)) \subseteq SequenceBits(bytes)
  <1> DEFINE u == Loaded(t, bytes)
             d == Decode(bytes, t)
  <1>1. u \in BitBuffers
    BY BufferOperators
  <1>2. u.remaining = Width(t) /\ u.buffer = d
    BY DEF Loaded
  <1>3. Width(t) \in 1 .. Top
    BY WidthType, KindAssumption
  <1>4. ASSUME NEW p \in Pos, NEW q \in Pos, p < q, q < Width(t),
               NEW x \in d[p], x \in d[q]
        PROVE  FALSE
    <2>1. p < Width(t)
      BY <1>3, <1>4, TopAssumption DEF Pos
    <2>2. PICK i \in 1 .. Len(bytes), b \in 0 .. BYTE - 1 :
             x \in bytes[i][b] /\ p = Significance(Len(bytes), i) * BYTE + b
      BY <2>1, BitsOfDecoded
    <2>3. PICK j \in 1 .. Len(bytes), c \in 0 .. BYTE - 1 :
             x \in bytes[j][c] /\ q = Significance(Len(bytes), j) * BYTE + c
      BY <1>4, BitsOfDecoded
    <2>4. i = j /\ b = c
      BY <2>2, <2>3
    <2>5. p = q
      BY <2>2, <2>3, <2>4
    <2>6. QED
      BY <1>4, <2>5 DEF Pos
  <1>5. Unmixed(u)
    BY <1>2, <1>4 DEF Unmixed
  <1>6. ASSUME NEW x \in Unread(u)
        PROVE  x \in SequenceBits(bytes)
    <2>1. PICK p \in Pos : x \in d[p]
      BY <1>2, <1>6 DEF Unread
    <2>2. QED
      BY <2>1, BitsOfDecoded, BitsOfValues
  <1>7. QED
    BY <1>1, <1>2, <1>3, <1>5, <1>6

-----------------------------------------------------------------------------
(* The stream *)

\* What is read at or after the position are new bits, each once.
LEMMA NewBits ==
    ASSUME BitsHaveNames, stream \in Streams, pos \in Nat,
           NEW p \in Nat, p >= pos, NEW n \in Nat,
           NEW bytes, bytes = Available(stream, p, n)
    PROVE  /\ bytes \in Seq(Bytes)
           /\ \A i, j \in 1 .. Len(bytes), b, c \in 0 .. BYTE - 1 :
                 i # j \/ b # c => bytes[i][b] \cap bytes[j][c] = {}
           /\ SequenceBits(bytes) \cap BitsBefore(pos) = {}
           /\ SequenceBits(bytes) \subseteq BitsBefore(p + Len(bytes))
  <1>1. stream \in Seq(Bytes) /\ Len(stream) \in Nat
    BY StreamsAssumption
  <1>2. bytes \in Seq(Bytes) /\ Len(bytes) \in Nat
    BY <1>1, AvailableBytes
  <1>3. ASSUME NEW i \in 1 .. Len(bytes)
        PROVE  p + i \in 1 .. Len(stream) /\ bytes[i] = stream[p + i]
    BY <1>1, <1>3 DEF Available
  <1>4. ASSUME NEW i \in 1 .. Len(bytes), NEW j \in 1 .. Len(bytes),
               NEW b \in 0 .. BYTE - 1, NEW c \in 0 .. BYTE - 1, i # j \/ b # c
        PROVE  bytes[i][b] \cap bytes[j][c] = {}
    <2>1. p + i # p + j \/ b # c
      BY <1>4
    <2>2. QED
      BY <1>3, <2>1 DEF BitsHaveNames
  <1>5. ASSUME NEW i \in 1 .. Len(bytes), NEW b \in 0 .. BYTE - 1, NEW x \in bytes[i][b]
        PROVE  x \notin BitsBefore(pos) /\ x \in BitsBefore(p + Len(bytes))
    <2>1. p + i \in 1 .. Len(stream) /\ x \in stream[p + i][b]
      BY <1>3, <1>5
    <2>2. bytes[i] \in Bytes
      BY <1>2
    <2>3. x \in Source
      BY <1>5, <2>2 DEF Bytes
    <2>4. ASSUME NEW j \in 1 .. Len(stream), NEW c \in 0 .. BYTE - 1,
                 j <= pos, x \in stream[j][c]
          PROVE  FALSE
      <3>1. j # p + i
        BY <2>4
      <3>2. QED
        BY <2>1, <2>4, <3>1 DEF BitsHaveNames
    <2>5. p + i <= p + Len(bytes)
      BY <1>2
    <2>6. QED
      BY <2>1, <2>3, <2>4, <2>5 DEF BitsBefore
  <1>6. ASSUME NEW x \in SequenceBits(bytes)
        PROVE  x \notin BitsBefore(pos) /\ x \in BitsBefore(p + Len(bytes))
    BY <1>2, <1>5, <1>6, BitsOfValues
  <1>7. QED
    BY <1>2, <1>4, <1>6

-----------------------------------------------------------------------------
(* The invariant *)

\* A field takes its bits out of a set of bits that no earlier field has.
LEMMA FieldKeepsBits ==
    ASSUME ReadTypeOK, BitsInv, Reading, Regular,
           UNCHANGED <<def, stream>>,
           NEW v, vals' = Append(vals, v),
           NEW X,
           X \subseteq BitsBefore(pos'),
           \A k \in DOMAIN vals : ValueBits(k) \cap X = {},
           pos' \in Nat, pos <= pos',
           IF def[Next1].type \in Integer THEN NumberBits(v) \subseteq X
                                          ELSE SequenceBits(v) \subseteq X,
           Unread(bb') \subseteq X,
           (IF def[Next1].type \in Integer THEN NumberBits(v) ELSE SequenceBits(v))
              \cap Unread(bb') = {},
           Unmixed(bb'), bb'.remaining <= Top
    PROVE  BitsInv'
  <1>0. PICK m : m = Next1
    OBVIOUS
  <1>1. /\ vals \in Seq(Values) /\ m = Len(vals) + 1 /\ DOMAIN vals = 1 .. Len(vals)
        /\ DOMAIN vals' = 1 .. m /\ pos \in Nat
    BY <1>0 DEF ReadTypeOK, Next1
  <1>2. ASSUME NEW k \in DOMAIN vals
        PROVE  ValueBits(k)' = ValueBits(k) /\ k # m
    <2>1. vals'[k] = vals[k] /\ k # m
      BY <1>1
    <2>2. QED
      BY <2>1 DEF ValueBits, NumberBits, SequenceBits
  <1>3. ValueBits(m)' = IF def[m].type \in Integer THEN NumberBits(v) ELSE SequenceBits(v)
    <2>1. vals'[m] = v /\ def' = def
      BY <1>1
    <2>2. /\ NumberBits(vals[m])' = NumberBits(vals'[m])
          /\ SequenceBits(vals[m])' = SequenceBits(vals'[m])
      BY DEF NumberBits, SequenceBits
    <2>3. ValueBits(m)' = IF def'[m].type \in Integer THEN NumberBits(vals[m])'
                                                      ELSE SequenceBits(vals[m])'
      BY DEF ValueBits
    <2>4. QED
      BY <2>1, <2>2, <2>3
  <1>4. BitsBefore(pos)' = BitsBefore(pos')
    BY DEF BitsBefore
  <1>5. BitsBefore(pos) \subseteq BitsBefore(pos')
    BY <1>1 DEF BitsBefore
  <1>6. /\ \A k \in DOMAIN vals : ValueBits(k) \subseteq BitsBefore(pos)
        /\ FieldsDisjoint
    BY DEF BitsInv, Reading, NoBitReadTwice
  <1>7. ASSUME NEW k \in DOMAIN vals'
        PROVE  /\ ValueBits(k)' \subseteq BitsBefore(pos')
               /\ ValueBits(k)' \cap Unread(bb') = {}
    <2>1. CASE k = m
      BY <1>0, <1>3, <2>1
    <2>2. CASE k # m
      <3>1. k \in DOMAIN vals
        BY <1>1, <2>2
      <3>2. QED
        BY <1>2, <1>5, <1>6, <3>1
    <2>3. QED
      BY <2>1, <2>2
  <1>8. FieldsDisjoint'
    <2> SUFFICES ASSUME NEW j \in DOMAIN vals', NEW k \in DOMAIN vals', j < k
                 PROVE  ValueBits(j)' \cap ValueBits(k)' = {}
      BY DEF FieldsDisjoint
    <2>1. j \in DOMAIN vals
      BY <1>1
    <2>2. CASE k = m
      BY <1>0, <1>2, <1>3, <2>1, <2>2
    <2>3. CASE k # m
      <3>1. k \in DOMAIN vals
        BY <1>1, <2>3
      <3>2. QED
        BY <1>2, <1>6, <2>1, <3>1 DEF FieldsDisjoint
    <2>4. QED
      BY <2>2, <2>3
  <1>9. Unread(bb)' = Unread(bb') /\ (Unmixed(bb)' <=> Unmixed(bb'))
    BY DEF Unread, Unmixed
  <1>10. QED
    BY <1>4, <1>7, <1>8, <1>9 DEF BitsInv, NoBitReadTwice

\* A structure none of whose fields has been read has read no bit.
LEMMA NoBitsYet ==
    stream \in Streams /\ vals = <<>> /\ bb = Empty => BitsInv
  <1> SUFFICES ASSUME stream \in Streams, vals = <<>>, bb = Empty
               PROVE  BitsInv
    OBVIOUS
  <1>1. DOMAIN vals = {} /\ bb.remaining = 0 /\ Top \in Nat
    BY TopAssumption DEF Empty
  <1>2. FieldsDisjoint
    BY <1>1 DEF FieldsDisjoint
  <1>3. Unread(bb) = {} /\ Unmixed(bb)
    BY <1>1 DEF Unread, Unmixed, Pos
  <1>4. QED
    BY <1>1, <1>2, <1>3 DEF BitsInv, NoBitReadTwice

\* Taking a field out of the unit that the buffer holds
LEMMA UnitKeepsBits ==
    ASSUME ReadTypeOK, ReadInv, BitsInv, Regular, ReadBitsOfUnit
    PROVE  BitsInv'
  <1> DEFINE f == def[Next1]
             v == Taken(bb, f.bits)
  <1>1. /\ Reading /\ IsBits(f) /\ ~NeedsUnit(bb, f.type)
        /\ vals' = Append(vals, v) /\ bb' = AfterTake(bb, f.bits)
        /\ pos' = Sought(Next1)
        /\ UNCHANGED <<def, stream>>
    BY DEF ReadBitsOfUnit
  <1>2. /\ f.type \in Integer /\ f.bits \in Nat /\ f.bits <= bb.remaining
        /\ pos' \in Nat /\ pos \in Nat
    BY <1>1, FieldRead, FieldFits DEF ReadTypeOK
  <1>3. pos <= pos'
    BY <1>1, <1>2, SeekStays DEF SeekIsNoOp
  <1>4. /\ bb \in BitBuffers /\ bb.remaining <= Top /\ Unmixed(bb)
        /\ Unread(bb) \subseteq BitsBefore(pos)
        /\ \A k \in DOMAIN vals : ValueBits(k) \cap Unread(bb) = {}
    BY <1>1 DEF BitsInv, Reading, ReadTypeOK
  <1>5. /\ NumberBits(v) \subseteq Unread(bb)
        /\ Unread(bb') \subseteq Unread(bb)
        /\ NumberBits(v) \cap Unread(bb') = {}
        /\ Unmixed(bb') /\ bb'.remaining <= Top
    BY <1>1, <1>2, <1>4, TakeSplits
  <1>6. BitsBefore(pos) \subseteq BitsBefore(pos')
    BY <1>2, <1>3 DEF BitsBefore
  <1> HIDE DEF v
  <1>7. QED
    BY <1>1, <1>2, <1>3, <1>4, <1>5, <1>6, FieldKeepsBits

\* Taking a field out of a new unit
LEMMA NewUnitKeepsBits ==
    ASSUME BitsHaveNames, ReadTypeOK, ReadInv, BitsInv, Regular, ReadBitsOfNewUnit
    PROVE  BitsInv'
  <1> DEFINE f == def[Next1]
             p == Sought(Next1)
             bytes == Available(stream, p, Size[f.type])
             new == Loaded(f.type, bytes)
             v == Taken(new, f.bits)
             X == SequenceBits(bytes)
  <1>1. /\ Reading /\ IsBits(f) /\ NeedsUnit(bb, f.type)
        /\ vals' = Append(vals, v) /\ bb' = AfterTake(new, f.bits)
        /\ pos' = p + Len(bytes)
        /\ UNCHANGED <<def, stream>>
    BY DEF ReadBitsOfNewUnit
  <1>2. /\ f.type \in Integer /\ f.bits \in Nat /\ f.bits <= Width(f.type)
        /\ p \in Nat /\ pos \in Nat /\ Size[f.type] \in Nat /\ stream \in Streams
    BY <1>1, FieldRead, FieldFits DEF ReadTypeOK, BitsInv
  <1>3. pos <= p
    BY <1>1, <1>2, SeekStays DEF SeekIsNoOp
  <1>4. /\ bytes \in Seq(Bytes)
        /\ \A i, j \in 1 .. Len(bytes), b, c \in 0 .. BYTE - 1 :
              i # j \/ b # c => bytes[i][b] \cap bytes[j][c] = {}
        /\ X \cap BitsBefore(pos) = {}
        /\ X \subseteq BitsBefore(pos')
    BY <1>1, <1>2, <1>3, NewBits
  <1>5. pos' \in Nat /\ pos <= pos'
    BY <1>1, <1>2, <1>3, <1>4
  <1>6. /\ new \in BitBuffers /\ new.remaining = Width(f.type)
        /\ Width(f.type) \in 1 .. Top
        /\ Unmixed(new) /\ Unread(new) \subseteq X
    BY <1>2, <1>4, LoadedUnmixed
  <1>7. /\ NumberBits(v) \subseteq X
        /\ Unread(bb') \subseteq X
        /\ NumberBits(v) \cap Unread(bb') = {}
        /\ Unmixed(bb') /\ bb'.remaining <= Top
    <2> HIDE DEF new
    <2>1. /\ NumberBits(v) \subseteq Unread(new)
          /\ Unread(bb') \subseteq Unread(new)
          /\ NumberBits(v) \cap Unread(bb') = {}
          /\ Unmixed(bb') /\ bb'.remaining <= Top
      BY <1>1, <1>2, <1>6, TakeSplits, TopAssumption
    <2>2. QED
      BY <1>6, <2>1
  <1>8. \A k \in DOMAIN vals : ValueBits(k) \cap X = {}
    <2>1. \A k \in DOMAIN vals : ValueBits(k) \subseteq BitsBefore(pos)
      BY <1>1 DEF BitsInv, Reading
    <2>2. QED
      BY <1>4, <2>1
  <1> HIDE DEF v, X
  <1>9. QED
    BY <1>1, <1>2, <1>4, <1>5, <1>7, <1>8, FieldKeepsBits

\* Reading a field that is no bit field
LEMMA PlainKeepsBits ==
    ASSUME BitsHaveNames, ReadTypeOK, ReadInv, BitsInv, Regular, ReadPlain
    PROVE  BitsInv'
  <1> DEFINE f == def[Next1]
             p == Sought(Next1)
             bytes == Available(stream, p, Size[f.type])
             v == Value(bytes, f.type)
             X == SequenceBits(bytes)
  <1>1. /\ Reading /\ ~IsBits(f)
        /\ vals' = Append(vals, v) /\ bb' = Empty
        /\ pos' = p + Len(bytes)
        /\ UNCHANGED <<def, stream>>
    BY DEF ReadPlain
  <1>2. /\ p \in Nat /\ pos \in Nat /\ Size[f.type] \in Nat /\ stream \in Streams
    BY <1>1, FieldRead DEF ReadTypeOK, BitsInv
  <1>3. pos <= p
    BY <1>1, <1>2, SeekStays DEF SeekIsNoOp
  <1>4. /\ bytes \in Seq(Bytes)
        /\ X \cap BitsBefore(pos) = {}
        /\ X \subseteq BitsBefore(pos')
    BY <1>1, <1>2, <1>3, NewBits
  <1>5. pos' \in Nat /\ pos <= pos'
    BY <1>1, <1>2, <1>3, <1>4
  <1>6. IF f.type \in Integer THEN NumberBits(v) \subseteq X ELSE SequenceBits(v) \subseteq X
    BY <1>4, DecodedFromBytes DEF Value
  <1>7. Unread(bb') = {} /\ Unmixed(bb') /\ bb'.remaining <= Top
    BY <1>1, TopAssumption DEF Unread, Unmixed, Pos, Empty
  <1>8. \A k \in DOMAIN vals : ValueBits(k) \cap X = {}
    <2>1. \A k \in DOMAIN vals : ValueBits(k) \subseteq BitsBefore(pos)
      BY <1>1 DEF BitsInv, Reading
    <2>2. QED
      BY <1>4, <2>1
  <1> HIDE DEF v, X
  <1>9. QED
    BY <1>1, <1>4, <1>5, <1>6, <1>7, <1>8, FieldKeepsBits

LEMMA BitsStep ==
    BitsHaveNames /\ ReadTypeOK /\ ReadInv /\ BitsInv /\ [ReadNext]_readVars => BitsInv'
  <1> SUFFICES ASSUME BitsHaveNames, ReadTypeOK, ReadInv, BitsInv, [ReadNext]_readVars
               PROVE  BitsInv'
    OBVIOUS
  <1>1. ASSUME vals' = <<>>, bb' = Empty, UNCHANGED stream
        PROVE  BitsInv'
    <2>1. stream' \in Streams
      BY <1>1 DEF BitsInv
    <2>2. (stream \in Streams /\ vals = <<>> /\ bb = Empty)' => BitsInv'
      BY NoBitsYet, PTL
    <2>3. QED
      BY <1>1, <2>1, <2>2
  <1>2. ASSUME UNCHANGED <<def, lay>>
        PROVE  Regular' <=> Regular
    BY <1>2 DEF Regular, RegularField, FollowsBits
  <1>3. ASSUME UNCHANGED <<def, lay, stream, vals>>, 
               \/ UNCHANGED <<pos, bb>> /\ outcome \in {"reading", "done"}
               \/ outcome' \notin {"reading", "done"}
               \/ UNCHANGED <<pos, bb, outcome>>
        PROVE  BitsInv'
    <2>1. \A k \in DOMAIN vals' : ValueBits(k)' = ValueBits(k)
      BY <1>3 DEF ValueBits, NumberBits, SequenceBits
    <2>2. FieldsDisjoint' <=> FieldsDisjoint
      BY <1>3, <2>1 DEF FieldsDisjoint
    <2>3. UNCHANGED <<pos, bb>> => /\ BitsBefore(pos)' = BitsBefore(pos)
                                   /\ Unread(bb)' = Unread(bb)
                                   /\ Unmixed(bb)' <=> Unmixed(bb)
      BY <1>3 DEF BitsBefore, Unread, Unmixed
    <2>4. QED
      BY <1>2, <1>3, <2>1, <2>2, <2>3 DEF BitsInv, NoBitReadTwice
  <1>4. CASE Define
    <2>1. ~Laid
      BY <1>4 DEF Define, LayoutNext, BitFieldOpens, BitFieldJoins, PlainField
    <2>2. vals' = <<>> /\ bb' = Empty /\ UNCHANGED stream
      BY <1>4, <2>1 DEF Define, ReadInv, Empty
    <2>3. QED
      BY <1>1, <2>2
  <1>5. ASSUME ~Regular, UNCHANGED <<def, lay, stream>>
        PROVE  BitsInv'
    BY <1>2, <1>5 DEF BitsInv, NoBitReadTwice
  <1>6. CASE ReadBitsOfUnit \/ ReadBitsOfNewUnit \/ ReadPlain
    <2>1. UNCHANGED <<def, lay, stream>>
      BY <1>6 DEF ReadBitsOfUnit, ReadBitsOfNewUnit, ReadPlain
    <2>2. QED
      BY <1>5, <1>6, <2>1, UnitKeepsBits, NewUnitKeepsBits, PlainKeepsBits
  <1>7. CASE ReadBitsBeyondUnit \/ ReadShort
    <2>1. /\ UNCHANGED <<def, lay, stream, vals>>
          /\ outcome' \notin {"reading", "done"}
      BY <1>7 DEF ReadBitsBeyondUnit, ReadShort
    <2>2. QED
      BY <1>3, <2>1
  <1>8. CASE Finish
    BY <1>3, <1>8 DEF Finish
  <1>9. CASE ReadAgain
    BY <1>1, <1>9 DEF ReadAgain
  <1>10. CASE UNCHANGED readVars
    BY <1>3, <1>10 DEF readVars
  <1>11. QED
    BY <1>4, <1>6, <1>7, <1>8, <1>9, <1>10 DEF ReadNext, ReadField

(***************************************************************************)
(* No bit of a stream is a bit of two fields of a regular structure: the   *)
(* seeks, the bit buffer and the plain reads never go back over each other.*)
(***************************************************************************)
THEOREM NoBitIsReadTwice ==
    ASSUME BitsHaveNames
    PROVE  ReadSpec => []NoBitReadTwice
  <1>1. ReadInit => BitsInv
    BY NoBitsYet DEF ReadInit
  <1>2. BitsInv => NoBitReadTwice
    BY DEF BitsInv
  <1>3. BitsHaveNames /\ ReadTypeOK /\ ReadInv /\ BitsInv /\ [ReadNext]_readVars => BitsInv'
    BY BitsStep
  <1>4. BitsHaveNames => []BitsHaveNames
    BY PTL DEF BitsHaveNames
  <1>5. QED
    BY <1>1, <1>2, <1>3, <1>4, ReadTypeCorrect, ReadInvariant, PTL DEF ReadSpec

-----------------------------------------------------------------------------
(***************************************************************************)
(* The refinement: reading a structure by offsets, seeks and a bit buffer  *)
(* places the fields as FieldPlacement says, step by step.                 *)
(***************************************************************************)
(* The operators of the instance are those of this module. *)

LEMMA PlacementOperators ==
    /\ \A bytes, t : Placement!Decode(bytes, t) = Decode(bytes, t)
    /\ \A t : Placement!Width(t) = Width(t)
    /\ \A i, lo, hi : Placement!Slice(i, lo, hi) = Slice(i, lo, hi)
    /\ \A s, p, n : Placement!Available(s, p, n) = Available(s, p, n)
    /\ \A bytes, t : Placement!Value(bytes, t) = Value(bytes, t)
    /\ \A f : Placement!IsBits(f) <=> IsBits(f)
  <1>1. \A bytes, t : Placement!Decode(bytes, t) = Decode(bytes, t)
    BY DEF Placement!Decode, Decode, Placement!Unsigned, Unsigned, Placement!Significance,
       Significance, Placement!Pos, Pos, Placement!Width, Width
  <1>2. \A i, lo, hi : Placement!Slice(i, lo, hi) = Slice(i, lo, hi)
    BY DEF Placement!Slice, Slice, Placement!Pos, Pos
  <1>3. QED
    BY <1>1, <1>2 DEF Placement!Width, Width, Placement!Available, Available,
       Placement!Value, Value, Placement!IsBits, IsBits

(***************************************************************************)
(* The inductive invariant: the bit buffer of a regular structure holds    *)
(* what is left of the number that the bytes just before the position      *)
(* encode, in the type of the unit that the layout has open.  Only a       *)
(* BytesInteger may have been read from fewer bytes.                       *)
(***************************************************************************)
UnitKnown ==
    LET t == bb.type
        number == Decode(SubSeq(stream, pos - Size[t] + 1, pos), t)
    IN bb.remaining > 0 =>
         /\ FollowsBits(Next1)
         /\ t = lay[Next1].bits_type
         /\ t \in Integer
         /\ bb.remaining <= Width(t)
         /\ \/ /\ Size[t] <= pos /\ pos <= Len(stream)
               /\ bb.buffer = IF BigEndian THEN number
                                           ELSE ShiftRight(number, Width(t) - bb.remaining)
            \/ t \in Lenient /\ Len(stream) <= pos

PlaceInv == Regular /\ outcome \in {"reading", "done"} => UnitKnown

-----------------------------------------------------------------------------
(* Numbers and streams *)

\* Taking a field out of what is left of a number is taking it out of the number.
LEMMA SlicesOfUnit ==
    ASSUME NEW number \in Numbers, NEW n \in Nat, NEW bits \in Nat
    PROVE  /\ ShiftRight(number, 0) = number
           /\ Slice(ShiftRight(number, n), 0, bits) = Slice(number, n, n + bits)
              \/ n + bits > Top + 1
           /\ ShiftRight(ShiftRight(number, n), bits) = ShiftRight(number, n + bits)
  <1>1. Top \in Nat
    BY TopAssumption
  <1>2. ShiftRight(number, 0) = number
    BY <1>1 DEF ShiftRight, Numbers, Pos
  <1>3. ASSUME n + bits <= Top + 1
        PROVE  Slice(ShiftRight(number, n), 0, bits) = Slice(number, n, n + bits)
    BY <1>1, <1>3 DEF Slice, ShiftRight, Pos
  <1>4. ShiftRight(ShiftRight(number, n), bits) = ShiftRight(number, n + bits)
    BY <1>1 DEF ShiftRight, Pos
  <1>5. QED
    BY <1>1, <1>2, <1>3, <1>4

\* Beyond the end of the stream there is nothing to read.
LEMMA NothingBeyond ==
    ASSUME NEW s \in Seq(Bytes), NEW p \in Nat, NEW n \in Nat, p >= Len(s)
    PROVE  Available(s, p, n) = <<>>
  <1> DEFINE b == Available(s, p, n)
  <1>1. /\ b \in Seq(Bytes) /\ Len(b) \in 0 .. n
        /\ ~(p + n <= Len(s)) => b = <<>>
    BY AvailableBytes
  <1>2. CASE p + n <= Len(s)
    <2>1. n = 0
      BY <1>2
    <2>2. Len(b) = 0
      BY <1>1, <2>1
    <2>3. b = <<>>
      <3> HIDE DEF b
      <3> QED BY <1>1, <2>2
    <2>4. QED
      BY <2>3
  <1>3. QED
    BY <1>1, <1>2

\* What is read at the end of the stream, or before it
LEMMA ReadsOfStream ==
    ASSUME ReadTypeOK, ReadInv, Reading, Regular
    PROVE  LET f == def[Next1]
               p == Sought(Next1)
               n == Size[f.type]
               bytes == Available(stream, p, n)
               e == Len(stream)
               c == IF pos <= e THEN pos ELSE e
           IN /\ p \in Nat /\ n \in Nat /\ pos \in Nat /\ e \in Nat /\ c \in Nat
              /\ bytes \in Seq(Bytes) /\ Len(bytes) \in 0 .. n
              /\ bytes = Available(stream, c, n)
              /\ p = pos \/ (e <= pos /\ pos <= p)
              /\ (IF p + Len(bytes) <= e THEN p + Len(bytes) ELSE e) = c + Len(bytes)
              /\ c + n <= e <=> Len(bytes) = n
              /\ ~(c + n <= e) => e <= p + Len(bytes)
              /\ c + n <= e /\ n > 0 => p = pos /\ c = pos
  <1> DEFINE f == def[Next1]
             p == Sought(Next1)
             n == Size[f.type]
             bytes == Available(stream, p, n)
             e == Len(stream)
             c == IF pos <= e THEN pos ELSE e
  <1>1. /\ p \in Nat /\ n \in Nat /\ pos \in Nat /\ e \in Nat
        /\ bytes \in Seq(Bytes) /\ stream \in Seq(Bytes)
    BY FieldRead DEF ReadTypeOK
  <1>2. p = pos \/ (e <= pos /\ pos <= p)
    BY SeekStays DEF SeekIsNoOp
  <1>3. c \in Nat /\ c <= e
    BY <1>1
  <1>4. /\ Len(bytes) \in 0 .. n
        /\ p + n <= e => Len(bytes) = n
        /\ ~(p + n <= e) => /\ p + Len(bytes) >= e
                            /\ p >= e => bytes = <<>>
                            /\ p <= e => p + Len(bytes) = e
    BY <1>1, AvailableBytes
  <1>5. bytes = Available(stream, c, n)
    <2>1. CASE p = c
      BY <2>1
    <2>2. CASE p # c
      <3>1. p >= e /\ c = e
        BY <1>1, <1>2, <2>2
      <3>2. Available(stream, e, n) = <<>>
        BY <1>1, NothingBeyond
      <3>3. bytes = <<>>
        BY <1>1, <3>1, NothingBeyond
      <3>4. QED
        BY <3>1, <3>2, <3>3
    <2>3. QED
      BY <2>1, <2>2
  <1> DEFINE l == Len(bytes)
  <1>6. l \in Nat /\ l <= n /\ (p >= e => l = 0)
    BY <1>1, <1>4 DEF Available
  <1>7. /\ (IF p + l <= e THEN p + l ELSE e) = c + l
        /\ c + n <= e <=> l = n
        /\ ~(c + n <= e) => e <= p + l
        /\ c + n <= e /\ n > 0 => p = pos /\ c = pos
    <2>1. /\ p + n <= e => l = n
          /\ ~(p + n <= e) => p + l >= e /\ (p <= e => p + l = e)
      BY <1>4
    <2> HIDE DEF l, p, n
    <2>2. QED
      BY <1>1, <1>2, <1>3, <1>6, <2>1
  <1>8. QED
    BY <1>1, <1>2, <1>3, <1>4, <1>5, <1>7

-----------------------------------------------------------------------------
(* The bit buffer and the unit *)

\* What a new unit leaves in the buffer
LEMMA UnitOpens ==
    ASSUME ReadTypeOK, ReadInv, Regular, ReadBitsOfNewUnit
    PROVE  LET f == def[Next1]
               number == Decode(SubSeq(stream, pos + 1, pos + Size[f.type]), f.type)
           IN /\ f.type \in Integer /\ f.bits \in 1 .. Width(f.type)
              /\ Opens(lay[Next1], f)
              /\ bb'.type = f.type
              /\ bb'.remaining = Width(f.type) - f.bits
              /\ \/ /\ pos + Size[f.type] <= Len(stream)
                    /\ pos' = pos + Size[f.type]
                    /\ vals' = Append(vals, IF BigEndian
                                            THEN Slice(number, Width(f.type) - f.bits, Width(f.type))
                                            ELSE Slice(number, 0, f.bits))
                    /\ bb'.buffer = IF BigEndian THEN number ELSE ShiftRight(number, f.bits)
                 \/ f.type \in Lenient /\ Len(stream) <= pos'
  <1> DEFINE f == def[Next1]
             p == Sought(Next1)
             n == Size[f.type]
             bytes == Available(stream, p, n)
             e == Len(stream)
  <1>1. /\ Reading /\ IsBits(f) /\ NeedsUnit(bb, f.type)
        /\ Accepts(f.type, bytes)
        /\ vals' = Append(vals, Taken(Loaded(f.type, bytes), f.bits))
        /\ bb' = AfterTake(Loaded(f.type, bytes), f.bits)
        /\ pos' = p + Len(bytes)
    BY DEF ReadBitsOfNewUnit
  <1>2. /\ f.type \in Integer /\ f.bits \in Nat /\ f.bits <= Width(f.type)
        /\ Width(f.type) \in Nat
    BY <1>1, FieldRead, FieldFits
  <1>3. Opens(lay[Next1], f)
    BY <1>1, UnitsAgree DEF ReadInv, Reading
  <1>4. bb'.type = f.type /\ bb'.remaining = Width(f.type) - f.bits
    BY <1>1 DEF AfterTake, Loaded
  <1>5. f.bits \in 1 .. Width(f.type)
    BY <1>1, <1>2 DEF IsBits
  <1>6. n > 0
    BY <1>2, KindAssumption
  <1>7. CASE Len(bytes) = n
    <2>1. p = pos /\ pos + n <= e /\ pos \in Nat /\ n \in Nat
      BY <1>1, <1>6, <1>7, ReadsOfStream
    <2>2. bytes = SubSeq(stream, pos + 1, pos + n)
      BY <2>1 DEF Available
    <2>3. /\ Taken(Loaded(f.type, bytes), f.bits) =
               IF BigEndian THEN Slice(Decode(bytes, f.type), Width(f.type) - f.bits, Width(f.type))
                            ELSE Slice(Decode(bytes, f.type), 0, f.bits)
          /\ bb'.buffer = IF BigEndian THEN Decode(bytes, f.type)
                                       ELSE ShiftRight(Decode(bytes, f.type), f.bits)
      BY <1>1 DEF Taken, AfterTake, Loaded
    <2>4. QED
      BY <1>1, <1>2, <1>3, <1>4, <1>5, <1>7, <2>1, <2>2, <2>3
  <1>8. CASE Len(bytes) # n
    <2>1. f.type \in Lenient
      BY <1>1, <1>8 DEF Accepts
    <2>2. e <= p + Len(bytes)
      BY <1>1, <1>8, ReadsOfStream
    <2>3. QED
      BY <1>1, <1>2, <1>3, <1>4, <1>5, <2>1, <2>2
  <1>9. QED
    BY <1>7, <1>8

\* What a field takes out of the unit that the buffer holds, and leaves there
LEMMA UnitContinues ==
    ASSUME ReadTypeOK, ReadInv, PlaceInv, Regular, ReadBitsOfUnit
    PROVE  LET f == def[Next1]
               t == bb.type
               r == bb.remaining
               used == Width(t) - r
               number == Decode(SubSeq(stream, pos - Size[t] + 1, pos), t)
           IN /\ t = f.type /\ t \in Integer /\ f.bits \in 1 .. r
              /\ r \in Int /\ r <= Width(t)
              /\ ~Opens(lay[Next1], f)
              /\ pos' = pos
              /\ bb'.type = t
              /\ bb'.remaining = r - f.bits
              /\ \/ /\ Size[t] <= pos /\ pos <= Len(stream)
                    /\ vals' = Append(vals, IF BigEndian
                                            THEN Slice(number, r - f.bits, r)
                                            ELSE Slice(number, used, used + f.bits))
                    /\ bb'.buffer = IF BigEndian THEN number
                                                 ELSE ShiftRight(number, used + f.bits)
                 \/ t \in Lenient /\ Len(stream) <= pos
  <1> DEFINE f == def[Next1]
             t == bb.type
             r == bb.remaining
             used == Width(t) - r
             number == Decode(SubSeq(stream, pos - Size[t] + 1, pos), t)
  <1>1. /\ Reading /\ IsBits(f) /\ ~NeedsUnit(bb, f.type)
        /\ vals' = Append(vals, Taken(bb, f.bits))
        /\ bb' = AfterTake(bb, f.bits)
        /\ pos' = Sought(Next1)
    BY DEF ReadBitsOfUnit
  <1>2. /\ f.bits \in Nat /\ r \in Int /\ f.bits <= r
        /\ Next1 \in 1 .. Len(def)
    BY <1>1, FieldRead, FieldFits
  <1>3. r > 0 /\ f.bits \in 1 .. r
    BY <1>1, <1>2 DEF IsBits
  <1>4. UnitKnown
    BY <1>1 DEF PlaceInv, Reading
  <1>5. t \in Integer /\ r <= Width(t) /\ t = lay[Next1].bits_type
    BY <1>3, <1>4 DEF UnitKnown
  <1>6. ~Opens(lay[Next1], f)
    BY <1>1, UnitsAgree DEF ReadInv, Reading
  <1>7. t = f.type
    BY <1>5, <1>6 DEF Opens
  <1>8. pos' = pos
    BY <1>1, <1>2, <1>6, LayoutOfField DEF Sought, ReadTypeOK, ReadInv, Reading
  <1>9. bb'.type = t /\ bb'.remaining = r - f.bits
    BY <1>1 DEF AfterTake
  <1>10. CASE /\ Size[t] <= pos /\ pos <= Len(stream)
              /\ bb.buffer = IF BigEndian THEN number ELSE ShiftRight(number, used)
    <2>1. /\ Size[t] \in Nat /\ Width(t) \in 1 .. Top /\ Top \in Nat
          /\ pos \in Nat /\ stream \in Seq(Bytes)
      BY <1>5, KindAssumption, WidthType, TopAssumption DEF ReadTypeOK
    <2>2. number \in Numbers
      <3>1. SubSeq(stream, pos - Size[t] + 1, pos) \in Seq(Bytes)
        BY <1>10, <2>1
      <3>2. QED
        BY <1>5, <3>1, DecodeNumber
    <2>3. used \in Nat /\ used + f.bits <= Top
      BY <1>2, <1>3, <1>5, <2>1
    <2> HIDE DEF number, used
    <2>4. Taken(bb, f.bits) = IF BigEndian THEN Slice(number, r - f.bits, r)
                                           ELSE Slice(number, used, used + f.bits)
      <3>1. CASE BigEndian
        BY <1>10, <3>1 DEF Taken
      <3>2. CASE ~BigEndian
        <4>1. Taken(bb, f.bits) = Slice(ShiftRight(number, used), 0, f.bits)
          BY <1>10, <3>2 DEF Taken
        <4>2. ~(used + f.bits > Top + 1)
          BY <1>2, <2>1, <2>3
        <4>3. \/ Slice(ShiftRight(number, used), 0, f.bits) = Slice(number, used, used + f.bits)
              \/ used + f.bits > Top + 1
          BY <1>2, <2>2, <2>3, SlicesOfUnit
        <4>4. QED
          BY <3>2, <4>1, <4>2, <4>3
      <3>3. QED
        BY <3>1, <3>2
    <2>5. bb'.buffer = IF BigEndian THEN number ELSE ShiftRight(number, used + f.bits)
      <3>1. CASE BigEndian
        BY <1>1, <1>10, <3>1 DEF AfterTake
      <3>2. CASE ~BigEndian
        <4>1. bb'.buffer = ShiftRight(ShiftRight(number, used), f.bits)
          BY <1>1, <1>10, <3>2 DEF AfterTake
        <4>2. QED
          BY <1>2, <2>2, <2>3, <3>2, <4>1, SlicesOfUnit
      <3>3. QED
        BY <3>1, <3>2
    <2>6. QED
      BY <1>1, <1>2, <1>3, <1>5, <1>6, <1>7, <1>8, <1>9, <1>10, <2>4, <2>5 DEF number, used
  <1>11. CASE t \in Lenient /\ Len(stream) <= pos
    BY <1>2, <1>3, <1>5, <1>6, <1>7, <1>8, <1>9, <1>11
  <1>12. QED
    BY <1>3, <1>4, <1>10, <1>11 DEF UnitKnown

-----------------------------------------------------------------------------
(* The invariant *)

LEMMA PlaceStep ==
    ReadTypeOK /\ ReadInv /\ PlaceInv /\ [ReadNext]_readVars => PlaceInv'
  <1> SUFFICES ASSUME ReadTypeOK, ReadInv, PlaceInv, [ReadNext]_readVars
               PROVE  PlaceInv'
    OBVIOUS
  <1>1. ASSUME bb' = Empty
        PROVE  PlaceInv'
    BY <1>1 DEF PlaceInv, UnitKnown, Empty
  <1>2. ASSUME UNCHANGED <<def, lay>>
        PROVE  Regular' <=> Regular
    BY <1>2 DEF Regular, RegularField, FollowsBits
  <1>3. ASSUME UNCHANGED <<def, lay, stream, pos, bb, vals>>,
               outcome \in {"reading", "done"}
        PROVE  PlaceInv'
    BY <1>2, <1>3 DEF PlaceInv, UnitKnown, FollowsBits, Next1
  <1>4. CASE Define
    <2>1. ~Laid
      BY <1>4 DEF Define, LayoutNext, BitFieldOpens, BitFieldJoins, PlainField
    <2>2. QED
      BY <1>1, <1>4, <2>1 DEF Define, ReadInv, Empty
  <1>5. ASSUME Reading, Len(vals') = Len(vals) + 1, UNCHANGED <<def, lay>>
        PROVE  /\ Next1 \in 1 .. Len(def) /\ Next1' = Next1 + 1
               /\ FollowsBits(Next1)' <=> IsBits(def[Next1])
               /\ lay'[Next1'] = After(lay[Next1], def[Next1])
    <2>1. Next1 \in 1 .. Len(def) /\ Next1' = Next1 + 1
      BY <1>5, FieldRead DEF Next1
    <2>2. lay[Next1 + 1] = After(lay[Next1], def[Next1])
      BY <1>5, <2>1, LayoutOfField DEF ReadTypeOK, ReadInv, Reading
    <2>3. QED
      BY <1>5, <2>1, <2>2 DEF FollowsBits
  <1>6. CASE ReadBitsOfUnit
    <2>1. /\ Reading /\ IsBits(def[Next1]) /\ UNCHANGED <<def, lay, stream>>
          /\ Len(vals') = Len(vals) + 1
      BY <1>6 DEF ReadBitsOfUnit, ReadTypeOK
    <2>2. SUFFICES ASSUME Regular
                   PROVE  UnitKnown'
      BY <1>2, <2>1 DEF PlaceInv
    <2> DEFINE f == def[Next1]
               t == bb.type
               r == bb.remaining
               used == Width(t) - r
               number == Decode(SubSeq(stream, pos - Size[t] + 1, pos), t)
    <2>3. /\ t = f.type /\ t \in Integer /\ f.bits \in 1 .. r
          /\ r \in Int /\ r <= Width(t)
          /\ ~Opens(lay[Next1], f)
          /\ pos' = pos
          /\ bb'.type = t
          /\ bb'.remaining = r - f.bits
          /\ \/ /\ Size[t] <= pos /\ pos <= Len(stream)
                /\ bb'.buffer = IF BigEndian THEN number ELSE ShiftRight(number, used + f.bits)
             \/ t \in Lenient /\ Len(stream) <= pos
      BY <1>6, <2>2, UnitContinues
    <2>4. lay'[Next1'].bits_type = t /\ FollowsBits(Next1)'
      BY <1>5, <2>1, <2>3 DEF After, AfterJoining, Opens
    <2>5. Width(t) \in Nat
      BY <2>3, KindAssumption, WidthType
    <2>6. bb'.remaining <= Width(t) /\ used + f.bits = Width(t) - bb'.remaining
      BY <2>3, <2>5
    <2>7. QED
      BY <2>1, <2>3, <2>4, <2>6 DEF UnitKnown
  <1>7. CASE ReadBitsOfNewUnit
    <2>1. /\ Reading /\ IsBits(def[Next1]) /\ UNCHANGED <<def, lay, stream>>
          /\ Len(vals') = Len(vals) + 1
      BY <1>7 DEF ReadBitsOfNewUnit, ReadTypeOK
    <2>2. SUFFICES ASSUME Regular
                   PROVE  UnitKnown'
      BY <1>2, <2>1 DEF PlaceInv
    <2> DEFINE f == def[Next1]
               t == f.type
               number == Decode(SubSeq(stream, pos + 1, pos + Size[t]), t)
    <2>3. /\ t \in Integer /\ f.bits \in 1 .. Width(t)
          /\ Opens(lay[Next1], f)
          /\ bb'.type = t
          /\ bb'.remaining = Width(t) - f.bits
          /\ \/ /\ pos + Size[t] <= Len(stream)
                /\ pos' = pos + Size[t]
                /\ bb'.buffer = IF BigEndian THEN number ELSE ShiftRight(number, f.bits)
             \/ t \in Lenient /\ Len(stream) <= pos'
      BY <1>7, <2>2, UnitOpens
    <2>4. lay'[Next1'].bits_type = t /\ FollowsBits(Next1)'
      BY <1>5, <2>1, <2>3 DEF After, AfterOpening
    <2>5. Width(t) \in Nat /\ Size[t] \in Nat /\ pos \in Nat
      BY <2>3, KindAssumption, WidthType DEF ReadTypeOK
    <2>6. bb'.remaining <= Width(t) /\ f.bits = Width(t) - bb'.remaining
      BY <2>3, <2>5
    <2>7. pos' = pos + Size[t] => pos' - Size[t] + 1 = pos + 1 /\ Size[t] <= pos'
      BY <2>5
    <2>8. QED
      BY <2>1, <2>3, <2>4, <2>6, <2>7 DEF UnitKnown
  <1>8. CASE ReadPlain
    BY <1>1, <1>8 DEF ReadPlain
  <1>9. CASE ReadBitsBeyondUnit \/ ReadShort
    BY <1>9 DEF ReadBitsBeyondUnit, ReadShort, PlaceInv
  <1>10. CASE Finish
    BY <1>3, <1>10 DEF Finish
  <1>11. CASE ReadAgain
    BY <1>1, <1>11 DEF ReadAgain
  <1>12. CASE UNCHANGED readVars
    BY <1>12, <1>2 DEF readVars, PlaceInv, UnitKnown, FollowsBits, Next1
  <1>13. QED
    BY <1>4, <1>6, <1>7, <1>8, <1>9, <1>10, <1>11, <1>12 DEF ReadNext, ReadField

-----------------------------------------------------------------------------
(* The steps *)

\* A unit is no None.
LEMMA UnitsAreRecords ==
    ASSUME NEW at \in Int, NEW t \in Types, NEW used \in Int
    PROVE  [at |-> at, type |-> t, used |-> used] # None
  BY NoneAssumption

\* The bit field of a new unit had no room in the one before.
LEMMA NoRoom ==
    ASSUME ReadTypeOK, ReadInv, PlaceInv, Reading, Regular,
           IsBits(def[Next1]), NeedsUnit(bb, def[Next1].type)
    PROVE  ~Placement!HasRoom(def[Next1])
  <1> DEFINE f == def[Next1]
  <1>1. CASE bb.remaining > 0
    <2>1. bb.remaining \in Int
      BY DEF ReadTypeOK, BitBuffers
    <2>2. Size[bb.type] # Size[f.type]
      BY <1>1, <2>1 DEF NeedsUnit
    <2>3. HeldUnit.type = bb.type
      BY <1>1 DEF HeldUnit, Reading
    <2>4. QED
      BY <2>2, <2>3 DEF Placement!HasRoom
  <1>2. CASE ~(bb.remaining > 0)
    BY <1>2 DEF HeldUnit, Placement!HasRoom
  <1>3. QED
    BY <1>1, <1>2

Cursor == IF pos <= Len(stream) THEN pos ELSE Len(stream)

LEMMA ContinuesAsPlaced ==
    ASSUME ReadTypeOK, ReadInv, PlaceInv, Regular, ReadBitsOfUnit, UnitsAreWhole'
    PROVE  Placement!ContinueUnit
  <1> DEFINE f == def[Next1]
             t == bb.type
             r == bb.remaining
             used == Width(t) - r
             number == Decode(SubSeq(stream, pos - Size[t] + 1, pos), t)
  <1>1. /\ Reading /\ IsBits(f) /\ UNCHANGED <<def, stream, outcome>>
        /\ Len(vals) # Len(def) /\ Next1 = Len(vals) + 1 /\ Next1 \in DOMAIN def
    BY FieldRead DEF ReadBitsOfUnit, Reading, Next1, ReadTypeOK, LayoutTypeOK
  <1>2. /\ t = f.type /\ t \in Integer /\ f.bits \in 1 .. r
        /\ r \in Int /\ r <= Width(t)
        /\ pos' = pos
        /\ bb'.type = t
        /\ bb'.remaining = r - f.bits
        /\ \/ /\ Size[t] <= pos /\ pos <= Len(stream)
              /\ vals' = Append(vals, IF BigEndian
                                      THEN Slice(number, r - f.bits, r)
                                      ELSE Slice(number, used, used + f.bits))
           \/ t \in Lenient /\ Len(stream) <= pos
    BY UnitContinues
  <1>3. /\ Size[t] \in Nat /\ Width(t) \in Nat /\ t \in Types /\ pos \in Nat
        /\ Len(stream) \in Nat
    BY <1>2, KindAssumption, WidthType DEF ReadTypeOK
  <1>4. ~(t \in Lenient /\ Len(stream) <= pos)
    BY <1>1, <1>2, <1>3 DEF UnitsAreWhole
  <1>5. /\ HeldUnit = [at |-> pos - Size[t], type |-> t, used |-> used]
        /\ HeldUnit # None
    BY <1>1, <1>2, <1>3, UnitsAreRecords DEF HeldUnit, Reading
  <1>6. Placement!HasRoom(f)
    BY <1>2, <1>3, <1>5, PlacementOperators DEF Placement!HasRoom
  <1>7. HeldUnit' = Placement!UnitOrNone(pos - Size[t], t, used + f.bits)
    <2>1. Placement!Width(t) = Width(t)
      BY PlacementOperators
    <2>2. outcome' # "EOFError"
      BY <1>1 DEF Reading
    <2>3. bb'.remaining = Width(t) - (used + f.bits)
      BY <1>2, <1>3
    <2>4. HeldUnit' = IF bb'.remaining > 0
                      THEN [at |-> pos - Size[t], type |-> t, used |-> Width(t) - bb'.remaining]
                      ELSE None
      BY <1>2, <2>2 DEF HeldUnit, Width
    <2>5. Width(t) - bb'.remaining = used + f.bits
      BY <1>2, <1>3, <2>3
    <2>6. bb'.remaining > 0 <=> used + f.bits # Width(t)
      BY <1>2, <1>3, <2>3
    <2>7. QED
      BY <2>1, <2>4, <2>5, <2>6 DEF Placement!UnitOrNone
  <1>8. vals' = Append(vals, Placement!FieldOf(Placement!UnitNumber(pos - Size[t], t), t,
                                               used, f.bits))
    <2>1. Placement!UnitNumber(pos - Size[t], t) = number
      <3>1. pos - Size[t] + Size[t] = pos
        BY <1>3
      <3>2. QED
        BY <3>1, PlacementOperators DEF Placement!UnitNumber
    <2>2. /\ Width(t) - used - f.bits = r - f.bits
          /\ (r - f.bits) + f.bits = r
      BY <1>2, <1>3
    <2>3. Placement!FieldOf(number, t, used, f.bits) =
             IF BigEndian THEN Slice(number, r - f.bits, r)
                          ELSE Slice(number, used, used + f.bits)
      BY <2>2, PlacementOperators DEF Placement!FieldOf
    <2>4. QED
      BY <1>2, <1>4, <2>1, <2>3
  <1>9. Cursor' = Cursor
    BY <1>1, <1>2 DEF Cursor
  <1>10. Placement!Current = f /\ Placement!IsBits(f) /\ ~Placement!Complete
    BY <1>1, PlacementOperators DEF Placement!Current, Placement!Complete
  <1>11. QED
    BY <1>1, <1>5, <1>6, <1>7, <1>8, <1>9, <1>10 DEF Placement!ContinueUnit, Cursor

LEMMA StartsAsPlaced ==
    ASSUME ReadTypeOK, ReadInv, PlaceInv, Regular, ReadBitsOfNewUnit, UnitsAreWhole'
    PROVE  Placement!StartUnit
  <1> DEFINE f == def[Next1]
             t == f.type
             number == Decode(SubSeq(stream, pos + 1, pos + Size[t]), t)
  <1>1. /\ Reading /\ IsBits(f) /\ NeedsUnit(bb, t) /\ UNCHANGED <<def, stream, outcome>>
        /\ Len(vals) # Len(def) /\ Next1 = Len(vals) + 1 /\ Next1 \in DOMAIN def
    BY FieldRead DEF ReadBitsOfNewUnit, Reading, Next1, ReadTypeOK, LayoutTypeOK
  <1>2. /\ t \in Integer /\ f.bits \in 1 .. Width(t)
        /\ bb'.type = t
        /\ bb'.remaining = Width(t) - f.bits
        /\ \/ /\ pos + Size[t] <= Len(stream)
              /\ pos' = pos + Size[t]
              /\ vals' = Append(vals, IF BigEndian
                                      THEN Slice(number, Width(t) - f.bits, Width(t))
                                      ELSE Slice(number, 0, f.bits))
           \/ t \in Lenient /\ Len(stream) <= pos'
    BY UnitOpens
  <1>3. /\ Size[t] \in Nat /\ Width(t) \in Nat /\ pos \in Nat /\ Len(stream) \in Nat
        /\ pos' \in Nat
    BY <1>1, <1>2, KindAssumption, WidthType, ReadTypes DEF ReadNext, ReadField, ReadTypeOK
  <1>4. ~(t \in Lenient /\ Len(stream) <= pos')
    BY <1>1, <1>3 DEF UnitsAreWhole
  <1>5. /\ Cursor = pos /\ Cursor' = pos + Size[t]
        /\ pos + Size[t] <= Len(stream)
    BY <1>1, <1>2, <1>3, <1>4 DEF Cursor
  <1>6. ~Placement!HasRoom(f)
    BY <1>1, NoRoom
  <1>7. HeldUnit' = Placement!UnitOrNone(pos, t, f.bits)
    <2>1. Placement!Width(t) = Width(t)
      BY PlacementOperators
    <2>2. outcome' # "EOFError"
      BY <1>1 DEF Reading
    <2>3. pos' - Size[t] = pos /\ Width(t) - bb'.remaining = f.bits
      BY <1>2, <1>3, <1>4
    <2>4. HeldUnit' = IF bb'.remaining > 0
                      THEN [at |-> pos, type |-> t, used |-> f.bits]
                      ELSE None
      BY <1>2, <2>2, <2>3 DEF HeldUnit, Width
    <2>5. bb'.remaining > 0 <=> f.bits # Width(t)
      BY <1>2, <1>3
    <2>6. QED
      BY <2>1, <2>4, <2>5 DEF Placement!UnitOrNone
  <1>8. vals' = Append(vals, Placement!FieldOf(Placement!UnitNumber(pos, t), t, 0, f.bits))
    <2>1. Placement!UnitNumber(pos, t) = number
      BY PlacementOperators DEF Placement!UnitNumber
    <2>2. /\ Width(t) - 0 - f.bits = Width(t) - f.bits
          /\ (Width(t) - f.bits) + f.bits = Width(t)
          /\ 0 + f.bits = f.bits
      BY <1>2, <1>3
    <2>3. Placement!FieldOf(number, t, 0, f.bits) =
             IF BigEndian THEN Slice(number, Width(t) - f.bits, Width(t))
                          ELSE Slice(number, 0, f.bits)
      BY <2>2, PlacementOperators DEF Placement!FieldOf
    <2>4. QED
      BY <1>2, <1>4, <2>1, <2>3
  <1>9. /\ Placement!Current = f /\ Placement!IsBits(f) /\ ~Placement!Complete
        /\ Placement!OnTime(Size[t])
    BY <1>1, <1>5, PlacementOperators
       DEF Placement!Current, Placement!Complete, Placement!OnTime, Cursor
  <1>10. QED
    BY <1>1, <1>5, <1>6, <1>7, <1>8, <1>9 DEF Placement!StartUnit, Cursor

LEMMA PlainAsPlaced ==
    ASSUME ReadTypeOK, ReadInv, PlaceInv, Regular, ReadPlain
    PROVE  Placement!PlacePlain
  <1> DEFINE f == def[Next1]
             p == Sought(Next1)
             n == Size[f.type]
             bytes == Available(stream, p, n)
  <1>1. /\ Reading /\ ~IsBits(f) /\ UNCHANGED <<def, stream>>
        /\ Len(vals) # Len(def) /\ Next1 = Len(vals) + 1
        /\ Accepts(f.type, bytes)
        /\ vals' = Append(vals, Value(bytes, f.type))
        /\ pos' = p + Len(bytes)
        /\ bb' = Empty
    BY DEF ReadPlain, Reading, Next1
  <1>2. /\ bytes = Available(stream, Cursor, n)
        /\ Cursor + n <= Len(stream) <=> Len(bytes) = n
        /\ (IF p + Len(bytes) <= Len(stream) THEN p + Len(bytes) ELSE Len(stream))
              = Cursor + Len(bytes)
    BY <1>1, ReadsOfStream DEF Cursor
  <1>3. Cursor' = Cursor + Len(bytes)
    BY <1>1, <1>2 DEF Cursor
  <1>4. Cursor + n <= Len(stream) \/ f.type \in Lenient
    BY <1>1, <1>2 DEF Accepts
  <1>5. HeldUnit' = None
    BY <1>1 DEF HeldUnit, Empty
  <1>6. /\ Placement!Current = f /\ ~Placement!IsBits(f) /\ ~Placement!Complete
        /\ Placement!OnTime(n) \/ f.type \in Lenient
    BY <1>1, <1>4, PlacementOperators
       DEF Placement!Current, Placement!Complete, Placement!OnTime, Cursor
  <1>7. /\ Placement!Available(stream, Cursor, n) = bytes
        /\ Placement!Value(bytes, f.type) = Value(bytes, f.type)
    BY <1>2, PlacementOperators
  <1> HIDE DEF bytes
  <1>8. QED
    BY <1>1, <1>3, <1>5, <1>6, <1>7 DEF Placement!PlacePlain, Cursor

LEMMA ShortAsPlaced ==
    ASSUME ReadTypeOK, ReadInv, PlaceInv, Regular, ReadShort
    PROVE  Placement!RunOut
  <1> DEFINE f == def[Next1]
             p == Sought(Next1)
             n == Size[f.type]
             bytes == Available(stream, p, n)
  <1>1. /\ Reading /\ UNCHANGED <<def, stream, vals>>
        /\ Len(vals) # Len(def) /\ Next1 = Len(vals) + 1
        /\ IsBits(f) => NeedsUnit(bb, f.type)
        /\ Len(bytes) # n /\ f.type \notin Lenient
        /\ pos' = p + Len(bytes)
        /\ outcome' = "EOFError"
    BY DEF ReadShort, Reading, Next1, Accepts
  <1>2. /\ ~(Cursor + n <= Len(stream))
        /\ Len(stream) <= p + Len(bytes)
        /\ p + Len(bytes) \in Nat /\ Len(stream) \in Nat
    <2>1. /\ p \in Nat /\ bytes \in Seq(Bytes) /\ Len(stream) \in Nat
          /\ Cursor + n <= Len(stream) <=> Len(bytes) = n
          /\ ~(Cursor + n <= Len(stream)) => Len(stream) <= p + Len(bytes)
      BY <1>1, ReadsOfStream DEF Cursor
    <2>2. QED
      BY <1>1, <2>1
  <1>3. Cursor' = Len(stream)
    BY <1>1, <1>2 DEF Cursor
  <1>4. HeldUnit' = None
    BY <1>1 DEF HeldUnit
  <1>5. IsBits(f) => ~Placement!HasRoom(f)
    BY <1>1, NoRoom
  <1>6. /\ Placement!Current = f /\ (Placement!IsBits(f) <=> IsBits(f))
        /\ ~Placement!Complete /\ ~Placement!OnTime(n)
    BY <1>1, <1>2, PlacementOperators
       DEF Placement!Current, Placement!Complete, Placement!OnTime, Cursor
  <1>7. QED
    BY <1>1, <1>3, <1>4, <1>5, <1>6 DEF Placement!RunOut, Cursor

(***************************************************************************)
(* The reader implements FieldPlacement: every step that reads a field of  *)
(* a regular structure is the step of FieldPlacement that places it, the   *)
(* end of the stream is that of FieldPlacement, and the loop that computes *)
(* the offsets is a stutter.                                               *)
(***************************************************************************)
THEOREM ReadingPlacesFields == ReadSpec => ReadsAsPlaced
  <1>1. ReadInit => PlaceInv
    BY DEF ReadInit, PlaceInv, UnitKnown, Empty
  <1>2. ReadSpec => []PlaceInv
    BY <1>1, PlaceStep, ReadTypeCorrect, ReadInvariant, PTL DEF ReadSpec
  <1>3. ReadInit => Placement!AtStart
    BY DEF ReadInit, Placement!AtStart, HeldUnit, Empty
  <1>4. ASSUME ReadTypeOK, ReadInv, PlaceInv, [ReadNext]_readVars, Regular', UnitsAreWhole'
        PROVE  [Placement!PlacementNext]_(Placement!placementVars)
    <2>1. ASSUME UNCHANGED <<def, stream, pos, bb, vals>>,
                 outcome = "EOFError" <=> outcome' = "EOFError"
          PROVE  UNCHANGED Placement!placementVars
      BY <2>1 DEF Placement!placementVars, HeldUnit
    <2>2. CASE Define
      BY <2>1, <2>2 DEF Define, LayoutNext, BitFieldOpens, BitFieldJoins, PlainField
    <2>3. ASSUME ReadField
          PROVE  Regular
      <3>1. UNCHANGED <<def, lay>>
        BY <2>3 DEF ReadField, ReadBitsOfUnit, ReadBitsOfNewUnit, ReadBitsBeyondUnit,
           ReadPlain, ReadShort
      <3>2. QED
        BY <1>4, <3>1 DEF Regular, RegularField, FollowsBits
    <2>4. CASE ReadBitsOfUnit
      BY <1>4, <2>3, <2>4, ContinuesAsPlaced DEF ReadField, Placement!PlacementNext
    <2>5. CASE ReadBitsOfNewUnit
      BY <1>4, <2>3, <2>5, StartsAsPlaced DEF ReadField, Placement!PlacementNext
    <2>6. CASE ReadBitsBeyondUnit
      <3>1. /\ Reading /\ IsBits(def[Next1])
            /\ ~NeedsUnit(bb, def[Next1].type) => ~CanTake(bb, def[Next1].bits)
            /\ NeedsUnit(bb, def[Next1].type) => ~(def[Next1].bits <= Width(def[Next1].type))
        BY <2>6 DEF ReadBitsBeyondUnit, CanTake, Loaded
      <3>2. FALSE
        BY <1>4, <2>3, <2>6, <3>1, FieldFits DEF ReadField, CanTake
      <3>3. QED
        BY <3>2
    <2>7. CASE ReadPlain
      BY <1>4, <2>3, <2>7, PlainAsPlaced DEF ReadField, Placement!PlacementNext
    <2>8. CASE ReadShort
      BY <1>4, <2>3, <2>8, ShortAsPlaced DEF ReadField, Placement!PlacementNext
    <2>9. CASE Finish
      BY <2>1, <2>9 DEF Finish
    <2>10. CASE ReadAgain
      <3>1. /\ outcome = "done" /\ outcome' = "reading" /\ vals' = <<>> /\ bb' = Empty
            /\ UNCHANGED <<def, stream, pos>> /\ Len(vals) = Len(def)
        BY <1>4, <2>10 DEF ReadAgain, ReadInv
      <3>2. Placement!NextRecord
        BY <3>1 DEF Placement!NextRecord, Placement!Complete, HeldUnit, Empty
      <3>3. QED
        BY <3>2 DEF Placement!PlacementNext
    <2>11. CASE UNCHANGED readVars
      BY <2>1, <2>11 DEF readVars
    <2>12. QED
      BY <1>4, <2>2, <2>4, <2>5, <2>6, <2>7, <2>8, <2>9, <2>10, <2>11 DEF ReadNext, ReadField
  <1>5. ReadSpec => [][Regular' /\ UnitsAreWhole' =>
                         [Placement!PlacementNext]_(Placement!placementVars)]_readVars
    <2>1. ReadTypeOK /\ ReadInv /\ PlaceInv /\ [ReadNext]_readVars =>
             [Regular' /\ UnitsAreWhole' =>
                [Placement!PlacementNext]_(Placement!placementVars)]_readVars
      BY <1>4
    <2>2. QED
      BY <1>2, <2>1, ReadTypeCorrect, ReadInvariant, PTL DEF ReadSpec
  <1>6. QED
    BY <1>3, <1>5, PTL DEF ReadSpec, ReadsAsPlaced

=============================================================================

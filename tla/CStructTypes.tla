---------------------------- MODULE CStructTypes ----------------------------
(***************************************************************************)
(* The values and the types the other modules are built from.              *)
(*                                                                         *)
(* A Python integer is modelled bit by bit and symbolically: at each        *)
(* position it holds the SET of source bits (bits of the input stream, or  *)
(* bits of the data being written) that are OR-ed there.  The empty set is *)
(* a constant 0.  `Top` is the sign position: it stands for itself and for *)
(* every position above it, as in two's complement, so a right shift       *)
(* repeats it.  One behaviour of a model thus covers every value of the    *)
(* data, and two integers are equal only if they are for all data.         *)
(***************************************************************************)
EXTENDS Integers, Sequences

CONSTANTS
    BYTE,           \* bits in a byte: the literal 8 of the code
    Top,            \* the sign position of an integer
    Types,          \* the types a field can have
    Size,           \* [Types -> Nat]: bytes a value of the type takes
    Integer,        \* types whose _read yields a number: PackedType, BytesInteger
    Signed,         \* the signed ones among them
    Lenient,        \* types whose interpreted _read accepts a short read
    Dynamic,        \* types whose len() raises TypeError: an array of computed size, or
                    \* a structure that has one
    Nested,         \* structures, and arrays of them, used as the type of a field
    BigEndian,      \* cstruct.endian = '>'
    None            \* Python's None

ASSUME ByteAssumption == BYTE \in Nat \ {0}

ASSUME SizeAssumption == Size \in [Types -> Nat]

(***************************************************************************)
(* Integers have a byte at least, and are no arrays and no structures; the *)
(* model's integers are wide enough for them.  A structure may have a      *)
(* length or none, and so may an array of structures: Nested and Dynamic   *)
(* may have types in common.                                               *)
(***************************************************************************)
ASSUME KindAssumption ==
    /\ Integer \subseteq Types
    /\ Signed \subseteq Integer
    /\ Lenient \subseteq Types
    /\ Dynamic \subseteq Types \ Integer
    /\ Nested \subseteq Types \ Integer
    /\ \A t \in Integer : Size[t] > 0

ASSUME TopAssumption ==
    /\ Top \in Nat
    /\ \A t \in Integer : Size[t] * BYTE \in 1 .. Top

ASSUME NoneAssumption == /\ None \notin Types
                         /\ None \notin Int
                         /\ None \notin [at : Int, type : Types, used : Int]

ASSUME EndianAssumption == BigEndian \in BOOLEAN

-----------------------------------------------------------------------------
(* Integers and bytes *)

\* A source bit: bit <<i, b>> of a stream, or of the value of a field.
Source == Nat \X Nat

Pos == 0 .. Top

Numbers == [Pos -> SUBSET Source]

Bytes == [0 .. BYTE - 1 -> SUBSET Source]

Zero == [p \in Pos |-> {}]

\* i >> n
ShiftRight(i, n) == [p \in Pos |-> IF p + n <= Top THEN i[p + n] ELSE i[Top]]

\* i << n, on as many bits as the model keeps
ShiftLeft(i, n) == [p \in Pos |-> IF p >= n THEN i[p - n] ELSE {}]

\* i | j
BitOr(i, j) == [p \in Pos |-> i[p] \cup j[p]]

\* The bits of i at the positions lo .. hi - 1, shifted down to position 0.
Slice(i, lo, hi) ==
    [p \in Pos |-> IF p + lo < hi /\ p + lo <= Top THEN i[p + lo] ELSE {}]

\* stream.read(n) at position p: what is left of stream s if that is less
Available(s, p, n) == SubSeq(s, p + 1, IF p + n <= Len(s) THEN p + n ELSE Len(s))

-----------------------------------------------------------------------------
(* Types *)

\* The number of bits in a value of type t
Width(t) == Size[t] * BYTE

\* A PackedType refuses what does not fit its struct format.
Packed == Integer \ Lenient

(***************************************************************************)
(* The number the bytes of a stream encode, in the byte order of the       *)
(* cstruct.  Fewer bytes than the type has are a smaller number: only a    *)
(* BytesInteger accepts them.                                              *)
(***************************************************************************)
Significance(n, i) == IF BigEndian THEN n - i ELSE i - 1

Unsigned(bytes) ==
    [p \in Pos |->
        UNION {bytes[x[1]][x[2]] :
                 x \in {y \in (1 .. Len(bytes)) \X (0 .. BYTE - 1) :
                          p = Significance(Len(bytes), y[1]) * BYTE + y[2]}}]

Decode(bytes, t) ==
    LET u == Unsigned(bytes) IN
    IF t \in Signed /\ Len(bytes) = Size[t]
    THEN [p \in Pos |-> IF p >= Width(t) THEN u[Width(t) - 1] ELSE u[p]]
    ELSE u

\* The bytes a number of type t is written as; the bits above them are lost.
Encode(i, t) ==
    [j \in 1 .. Size[t] |->
        [b \in 0 .. BYTE - 1 |-> i[Significance(Size[t], j) * BYTE + b]]]

(***************************************************************************)
(* The number is in the range of type t whatever the source bits are.      *)
(* struct.pack raises an error for a number out of range.                  *)
(***************************************************************************)
Fits(i, t) ==
    IF t \in Signed
    THEN \A p \in Width(t) - 1 .. Top : i[p] = i[Top]
    ELSE \A p \in Width(t) .. Top : i[p] = {}

\* What _read of a type that is no array or structure returns for the bytes.
Value(bytes, t) == IF t \in Integer THEN Decode(bytes, t) ELSE bytes

-----------------------------------------------------------------------------
(* Fields *)

Fields == [type : Types, bits : Nat]

\* `if field.bits:`
IsBits(f) == f.bits > 0

\* The type of a bit field is an integer type.
WellFormed(def) == \A k \in DOMAIN def : IsBits(def[k]) => def[k].type \in Integer

=============================================================================

-------------------------------- MODULE Arrays --------------------------------
(***************************************************************************)
(* One field of a structure, single or array, for every class of type:     *)
(* read by the types of types/, read by the code that compiler.py          *)
(* generates for it, made by default, and written.  Bytes have their       *)
(* values; a result keeps apart what Python does: a number, a list, a text *)
(* (bytes or str), an exception.                                           *)
(***************************************************************************)
EXTENDS Integers, SequencesExt

CONSTANTS
    TypeSize,       \* [Classes -> Nat]: bytes of a value of the class
    Counts,         \* what a count may be, or evaluate to
    Data,           \* the bytes that streams hold
    LittleEndian    \* cstruct.endian is '<', and not '>'

\* "array*" is a pointer to an array.
Classes == {"packed", "bytes", "char", "wchar", "struct", "pointer", "array*"}

ASSUME TypeSizeAssumption ==
    /\ TypeSize \in [Classes -> Nat \ {0}]
    /\ TypeSize["char"] = 1
    /\ TypeSize["wchar"] = 2

ASSUME CountsAssumption == /\ Counts \subseteq Int
                           /\ Data \subseteq Seq(0 .. 255)
                           /\ LittleEndian \in BOOLEAN

VARIABLES
    field,          \* the field
    stream,         \* the bytes from the field on
    value,          \* what the interpreted reader, or default, returned
    defaulted,      \* it was default
    generated,      \* what the generated reader returned
    dumped          \* what writing value gave

arraysVars == <<field, stream, value, defaulted, generated, dumped>>

Texts == {"char", "wchar"}
Numeric == {"packed", "bytes"}
Pointers == {"pointer", "array*"}

(***************************************************************************)
(* form "one": no array; "fixed": a count of the definition; "expression": *)
(* a count that evaluates to `count`; "null": null-terminated.  An enum is *)
(* made of numbers, and its arrays are arrays of them.                     *)
(***************************************************************************)
FieldsOf ==
    {f \in [class : Classes, enum : BOOLEAN,
            form : {"one", "fixed", "expression", "null"}, count : Counts \cup {1}] :
       /\ f.enum => f.class \in Numeric
       /\ f.form \in {"one", "null"} => f.count = 1
       /\ f.class = "array*" => f.form = "one"
       /\ f.form = "fixed" => f.count >= 0}

-----------------------------------------------------------------------------
(* Results *)

Ok(kind, items, used) ==
    [outcome |-> "ok", kind |-> kind, items |-> items, enum |-> FALSE, used |-> used]

Raised(error) ==
    [outcome |-> error, kind |-> "none", items |-> <<>>, enum |-> FALSE, used |-> 0]

NotDone == Raised("not done")

Succeeded(r) == r.outcome = "ok"

\* stream.read(n) at position p
Bytes(p, n) == SubSeq(stream, p + 1, Min({p + n, Len(stream)}))

\* The k-th piece of n bytes, which may be short or empty
Piece(n, k) == Bytes((k - 1) * n, n)

\* The byte that is the k-th in significance
Significant(bytes, k) == bytes[IF LittleEndian THEN Len(bytes) - k + 1 ELSE k]

\* Bytes as a number; those a BytesInteger does not get count as nothing.
Number(bytes) ==
    LET leading[k \in 0 .. Len(bytes)] ==
            IF k = 0 THEN 0 ELSE 256 * leading[k - 1] + Significant(bytes, k)
    IN leading[Len(bytes)]

Numbers(n, count) == [k \in 1 .. count |-> Number(Piece(n, k))]

NonNegative(n) == IF n < 0 THEN 0 ELSE n

Size(f) == TypeSize[f.class]

Count(f) == NonNegative(f.count)

-----------------------------------------------------------------------------
(* The interpreted readers *)

\* _read_array; the value of a pointer is its address
ReadArray(f, n) ==
    LET need == Size(f) * n
        got == Bytes(0, need)
    IN CASE f.class \in {"packed", "struct"} \cup Pointers /\ Len(got) < need ->
              Raised("EOFError")
         [] f.class = "char" -> Ok("text", got, Len(got))
         [] f.class = "wchar" ->
              IF Len(got) % 2 = 1 THEN Raised("UnicodeDecodeError")
              ELSE Ok("text", Numbers(2, Len(got) \div 2), Len(got))
         [] OTHER -> Ok("list", Numbers(Size(f), n), Len(got))

\* _read
ReadOne(f) ==
    LET r == ReadArray(f, 1)
    IN IF r.kind = "list" THEN [r EXCEPT !.kind = "number"] ELSE r

\* The pieces that _read_0 takes for the end; BytesInteger reads short ones too
Terminators(f) ==
    {k \in 1 .. (Len(stream) \div Size(f)) + 2 :
       /\ \A i \in DOMAIN Piece(Size(f), k) : Piece(Size(f), k)[i] = 0
       /\ f.class # "bytes" => Len(Piece(Size(f), k)) = Size(f)}

ReadNull(f) ==
    IF f.class \in {"struct", "pointer"} THEN Raised("NotImplementedError")
    ELSE IF Terminators(f) = {}
    THEN Raised(IF f.class = "packed" THEN "struct.error" ELSE "EOFError")
    ELSE LET end == Min(Terminators(f))
         IN Ok(IF f.class \in Texts THEN "text" ELSE "list",
               Numbers(Size(f), end - 1), Len(Bytes(0, end * Size(f))))

\* BaseType._read_array calls _read, which for a Pointer lacks an argument.
ReadElements(f) ==
    IF f.class = "pointer" /\ Count(f) > 0 THEN Raised("TypeError")
    ELSE ReadArray(f, Count(f))

\* Enum: map(self, ...) over the values
Mapped(f, r) == IF f.enum /\ Succeeded(r) THEN [r EXCEPT !.enum = TRUE] ELSE r

Interpreted(f) ==
    Mapped(f, CASE f.form = "one" -> ReadOne(f)
                [] f.form = "null" -> ReadNull(f)
                [] OTHER -> ReadElements(f))

-----------------------------------------------------------------------------
(* The generated readers *)

\* Unpacked, if it were any number
UnpackedNumber(f, count) == f.class \in Numeric /\ count = 1

\* A list of one BytesInteger is replaced by its element: the data_slice [0].
Unpacked(f, count) == f.class = "bytes" /\ count = 1

\* IsShort, if only an empty buffer were
IsEmpty(need) == need > 0 /\ stream = <<>>

\* if len(buf) != need: raise EOFError
IsShort(need) == Len(stream) < need

\* gen_read_block: one `stream.read`, its length is checked, then slices of it
BlockRead(f) ==
    LET count == IF f.form = "one" THEN 1 ELSE f.count
        need == Size(f) * count
        items == Numbers(Size(f), count)
    IN IF f.class = "array*" THEN Raised("AttributeError")      \* by load: no .name
       ELSE IF f.class = "pointer" /\ f.form = "fixed" THEN Raised("SyntaxError")
       ELSE IF IsShort(need) THEN Raised("EOFError")
       ELSE IF f.class \in Texts THEN Ok("text", items, need)
       ELSE IF f.form = "fixed" /\ Unpacked(f, count) /\ f.enum THEN Raised("TypeError")
       ELSE Mapped(f, Ok(IF f.form = "one" \/ Unpacked(f, count) THEN "number" ELSE "list",
                         items, need))

\* An array of structures: a loop over range(count)
LoopRead(f) ==
    IF f.form = "null" THEN Raised("TypeError") ELSE ReadArray(f, Count(f))

\* gen_dynamic_block, null-terminated: BytesInteger.parse is a list, never 0
NullRead(f) ==
    IF f.class \in Numeric \cup Texts /\ (f.class = "bytes" \/ Terminators(f) = {})
    THEN Raised("EOFError")
    ELSE ReadNull(f)            \* a pointer: the structure is not compiled

\* gen_dynamic_block with an expression; no reader is generated for pointers
DynamicRead(f) ==
    LET need == Size(f) * Count(f)
    IN IF f.class = "pointer" THEN Ok("none", <<>>, 0)
       ELSE IF IsShort(need) THEN Raised("EOFError")
       ELSE Ok(IF f.class \in Texts THEN "text" ELSE "list",
               Numbers(Size(f), Count(f)), need)

Generated(f) ==
    IF f.class = "struct" THEN IF f.form = "one" THEN ReadOne(f) ELSE LoopRead(f)
    ELSE CASE f.form \in {"one", "fixed"} -> BlockRead(f)
           [] f.form = "null" -> NullRead(f)
           [] f.form = "expression" -> DynamicRead(f)

-----------------------------------------------------------------------------
(* Defaults and writers *)

\* DefaultItems, if the count of an array were not used
DefaultItem(f) == <<0>>

DefaultItems(f) == [k \in 1 .. f.count |-> 0]

\* An array without a fixed count is [], whatever its type.
Default(f) ==
    IF f.form \in {"expression", "null"} THEN Ok("list", <<>>, 0)
    ELSE IF f.class \in Pointers /\ f.count > 0 THEN Raised("NotImplementedError")
    ELSE Mapped(f, Ok(IF f.class \in Texts THEN "text"
                      ELSE IF f.form = "one" THEN "number" ELSE "list",
                      DefaultItems(f), 0))

\* The place of byte j of n in a number, if the byte order were the other
OtherPlace(j, n) == IF LittleEndian THEN n - 1 - j ELSE j

Place(j, n) == IF LittleEndian THEN j ELSE n - 1 - j

\* What the bytes of a number of n bytes are worth
PowersOf256(n) ==
    LET power[k \in 0 .. n] == IF k = 0 THEN 1 ELSE 256 * power[k - 1] IN power

\* Values as bytes, in the byte order of the cstruct
Packed(items, n) ==
    [i \in 1 .. Len(items) * n |->
       LET k == (i - 1) \div n
           j == (i - 1) % n
       IN (items[k + 1] \div PowersOf256(n)[Place(j, n)]) % 256]

(***************************************************************************)
(* _write, _write_array and _write_0 of the type.  A text is written whole *)
(* and a list is none; for other arrays the elements are iterated over.    *)
(***************************************************************************)
Written(f, v) ==
    LET items == IF f.form = "null" THEN Append(v.items, 0) ELSE v.items
        unsupported == \/ f.class \in Pointers /\ Len(items) > 0
                       \/ f.class = "struct" /\ f.form = "null"
        expected == IF f.class \in Texts THEN "text"
                    ELSE IF f.form = "one" THEN "number" ELSE "list"
    IN IF unsupported THEN Raised("NotImplementedError")
       ELSE IF v.kind # expected
       THEN Raised(IF f.class = "wchar" /\ f.form = "expression" THEN "AttributeError"
                   ELSE "TypeError")
       ELSE Ok("text", Packed(items, Size(f)), 0)

-----------------------------------------------------------------------------
(* Actions *)

ArraysInit ==
    /\ field \in FieldsOf
    /\ stream \in Data
    /\ value = NotDone
    /\ defaulted = FALSE
    /\ generated = NotDone
    /\ dumped = NotDone

ReadInterpreted ==
    /\ value = NotDone
    /\ value' = Interpreted(field)
    /\ UNCHANGED <<field, stream, defaulted, generated, dumped>>

MakeDefault ==
    /\ value = NotDone
    /\ value' = Default(field)
    /\ defaulted' = TRUE
    /\ UNCHANGED <<field, stream, generated, dumped>>

ReadGenerated ==
    /\ generated = NotDone
    /\ generated' = Generated(field)
    /\ UNCHANGED <<field, stream, value, defaulted, dumped>>

\* dumps of a structure that holds the value
Dump ==
    /\ Succeeded(value)
    /\ dumped = NotDone
    /\ dumped' = Written(field, value)
    /\ UNCHANGED <<field, stream, value, defaulted, generated>>

ArraysNext == ReadInterpreted \/ MakeDefault \/ ReadGenerated \/ Dump

ArraysSpec == ArraysInit /\ [][ArraysNext]_arraysVars

-----------------------------------------------------------------------------
(* Properties *)

\* Every byte the field takes, its terminator included, is in the stream.
Whole(f) ==
    IF f.form = "null" THEN \E k \in Terminators(f) : k * Size(f) <= Len(stream)
    ELSE Size(f) * Count(f) <= Len(stream)

Results ==
    [outcome : {"not done", "ok", "EOFError", "struct.error", "UnicodeDecodeError",
                "TypeError", "AttributeError", "SyntaxError", "NotImplementedError"},
     kind : {"none", "number", "list", "text"}, items : Seq(Nat),
     enum : BOOLEAN, used : Nat]

(***************************************************************************)
(* The fields and the results of reading, writing and default are what the *)
(* methods of types/ can return.                                           *)
(***************************************************************************)
ArraysTypeOK ==
    /\ field \in FieldsOf
    /\ stream \in Seq(0 .. 255)
    /\ {value, generated, dumped} \subseteq Results
    /\ defaulted \in BOOLEAN

(***************************************************************************)
(* Where the generated code is not that of the types: arrays of one        *)
(* BytesInteger, which are read as a number; null-terminated arrays of     *)
(* BytesInteger, which never end; arrays of enums without a fixed count,   *)
(* which are read as plain numbers; pointers to arrays and arrays of       *)
(* pointers, which make the generated code invalid or leave None.          *)
(***************************************************************************)
KnownDifference(f) ==
    \/ f.class = "bytes" /\ f.form = "fixed" /\ f.count = 1
    \/ f.class = "bytes" /\ f.form = "null"
    \/ f.enum /\ f.form \in {"expression", "null"}
    \/ f.class = "pointer" /\ f.form \in {"fixed", "expression"}
    \/ f.class = "array*"

BothRead == NotDone \notin {value, generated} /\ ~defaulted

SameResult(r, s) ==
    \/ r = s
    \/ ~Succeeded(r) /\ ~Succeeded(s)

(***************************************************************************)
(* Apart from these, a field that is wholly in the stream has the same     *)
(* value, takes the same bytes, and is refused or not, whether the         *)
(* structure is compiled (gen_read_block, gen_dynamic_block) or not.       *)
(***************************************************************************)
GeneratedReadsAsTypes ==
    BothRead /\ Whole(field) /\ ~KnownDifference(field)
        => SameResult(value, generated)

(***************************************************************************)
(* A stream that ends within a field is an error of every generated        *)
(* reader (`if len(buf) != ...`), and of the interpreted one for all but   *)
(* the types that use what there is.                                       *)
(***************************************************************************)
ShortStreamsAreRefused ==
    ~Whole(field) =>
        /\ Succeeded(generated) => field.class = "pointer"
        /\ Succeeded(value) /\ ~defaulted => field.class \in Texts \cup {"bytes"}

(***************************************************************************)
(* What was read from a stream that holds it is written as the bytes it    *)
(* was read from, whatever array it is; only pointers cannot be written.   *)
(***************************************************************************)
ArraysAreRestored ==
    Succeeded(value) /\ ~defaulted /\ Whole(field) /\ dumped # NotDone =>
        \/ Succeeded(dumped) /\ dumped.items = SubSeq(stream, 1, value.used)
        \/ field.class \in Pointers

(***************************************************************************)
(* A default value can be written, and a field reads it back: all of it,   *)
(* and it is zero.  Texts without a fixed count are the exception, their   *)
(* default is a list; null-terminated pointers and structures cannot be    *)
(* written at all.                                                         *)
(***************************************************************************)
DefaultsAreWritten ==
    defaulted /\ dumped # NotDone =>
        \/ /\ Succeeded(dumped)
           /\ \A i \in DOMAIN dumped.items : dumped.items[i] = 0
           /\ Len(dumped.items) =
                Size(field) * CASE field.form = "null" -> 1
                                [] field.form = "expression" -> 0
                                [] OTHER -> field.count
        \/ field.class \in Texts /\ field.form \in {"expression", "null"}
        \/ field.class \in {"pointer", "struct"} /\ field.form = "null"

=============================================================================

----------------------------- MODULE StructObjects -----------------------------
(***************************************************************************)
(* types/structure.py, types/instance.py, types/pointer.py: a structure or *)
(* union with another one nested in it, the instances read from a stream   *)
(* or made by default, and what a program does with them: it adds fields,  *)
(* asks for lengths, sets members, dumps, follows pointers and seeks, in   *)
(* any order.  The structures are not compiled: a compiled one refuses     *)
(* add_field.                                                              *)
(*                                                                         *)
(* A byte of the stream is its position, from 1 on; New is a byte of a     *)
(* value that was set, and 0 one of a default.  The name of a field is that *)
(* of its structure and its place there.                                   *)
(***************************************************************************)
EXTENDS Integers, SequencesExt

CONSTANTS
    FieldTypes,     \* the types of fields, some of those in TypeSizes or "inner"
    AddedTypes,     \* those of the fields that are added
    MaxFields,      \* bound on the fields of both types, as they are defined
    MaxAdded,       \* bound on the fields that are added
    Offsets,        \* what add_field is given, NoOffset among them
    Memory,         \* what the bytes of the stream are, as pointers
    Places,         \* where the program seeks to
    New, NoOffset, NoSize, NoStart

\* The size of each type; the length of "inner" is that of the nested structure.
TypeSizes == [byte |-> 1, short |-> 2, pointer |-> 1]

\* A pointer points to a short.
Target == "short"

ASSUME ObjectsAssumption ==
    /\ FieldTypes \subseteq DOMAIN TypeSizes \cup {"inner"}
    /\ AddedTypes \subseteq FieldTypes
    /\ MaxFields \in Nat
    /\ Memory \in Seq(Nat)
    /\ Places \subseteq Nat
    /\ Offsets \subseteq Nat \cup {NoOffset}
    /\ {New, NoOffset, NoSize, NoStart} \cap Nat = {}

VARIABLES
    types,          \* the two types: [union, anonymous, fields, size]
    pos,            \* of the stream
    instance,       \* [made, start, values] of the last instance
    result,         \* what the last call gave: [call, ok, bytes]
    replaced,       \* the bytes of members that were set (history)
    left,           \* where the last read or seek left the stream (history)
    added           \* how many fields were added to each type (history)

objectVars == <<types, pos, instance, result, replaced, left, added>>

Objects == {"outer", "inner"}

Field(n, t, offset) == [name |-> n, type |-> t, offset |-> offset]

FieldsOf(o) == ToSet(types[o].fields)

UsesInner == \E f \in FieldsOf("outer") : f.type = "inner"

-----------------------------------------------------------------------------
(* Lengths.  __len__ caches what _calc_size computes, of nested types too. *)

\* The length of a field, given that of the inner type
SizeOf(t, inner) == IF t = "inner" THEN inner ELSE TypeSizes[t]

\* SizeOfFields, if offsets did not count
SizeOfFieldsInOrder(type, inner) ==
    IF type.union THEN Max({SizeOf(f.type, inner) : f \in ToSet(type.fields)})
    ELSE FoldLeft(LAMBDA size, f : size + SizeOf(f.type, inner), 0, type.fields)

\* A structure of this size with one more field
Extent(size, f, inner) ==
    LET end == size + SizeOf(f.type, inner)
    IN IF f.offset = NoOffset THEN end
       ELSE Max({end, f.offset + SizeOf(f.type, inner)})

\* Structure._calc_size, Union._calc_size
SizeOfFields(type, inner) ==
    IF type.union THEN Max({SizeOf(f.type, inner) : f \in ToSet(type.fields)})
    ELSE LET size[k \in 0 .. Len(type.fields)] ==
                 IF k = 0 THEN 0 ELSE Extent(size[k - 1], type.fields[k], inner)
         IN size[Len(type.fields)]

InnerLength ==
    IF types.inner.size = NoSize THEN SizeOfFields(types.inner, 0) ELSE types.inner.size

CalcSize(o) == SizeOfFields(types[o], InnerLength)

Length(o) == IF types[o].size = NoSize THEN CalcSize(o) ELSE types[o].size

\* The types after len() of those in `asked`
Measured(asked) ==
    LET all == asked \cup IF "outer" \in asked /\ types.outer.size = NoSize /\ UsesInner
                          THEN {"inner"} ELSE {}
    IN [o \in Objects |-> IF o \in all THEN [types[o] EXCEPT !.size = Length(o)]
                          ELSE types[o]]

-----------------------------------------------------------------------------
(* Values and reading.  A view is the stream, or the buffer of a union: its *)
(* bytes are those after position `base`, up to `limit`, and `shared` says  *)
(* that it is the stream, which the program reads and seeks too.           *)

Value(kind, bytes, members, view) ==
    [kind |-> kind, bytes |-> bytes, members |-> members, view |-> view]

Nothing == [n \in {} |-> <<>>]

Only(n, v) == [m \in {n} |-> v]

\* f @@ g, which the provers do not know
Over(f, g) ==
    [n \in DOMAIN f \cup DOMAIN g |-> IF n \in DOMAIN f THEN f[n] ELSE g[n]]

Stream == [base |-> 0, limit |-> Len(Memory), shared |-> TRUE]

Leaf(bytes) == Value("leaf", bytes, Nothing, Stream)

Compound(values) == Value("nested", <<>>, values, Stream)

Ahead(view, p, n) == [i \in 1 .. Min({n, Max({0, view.limit - p})}) |-> p + i]

\* The state of a loop over fields that reads
Loop(p) == [ok |-> TRUE, pos |-> p, values |-> Nothing, asked |-> {}]

\* PackedType._read, Pointer._read: a short read is an error.
ReadLeaf(t, view, p) ==
    LET got == Ahead(view, p, TypeSizes[t])
    IN [ok |-> Len(got) = TypeSizes[t], pos |-> p + Len(got), asked |-> {},
        value |-> IF t = "pointer" THEN Value(t, got, Nothing, view) ELSE Leaf(got)]

\* What a field with this value puts in the instance: an anonymous structure
\* is no member of it, its members are.
Put(f, value) ==
    IF f.type = "inner" /\ types.inner.anonymous THEN value.members
    ELSE Only(f.name, value)

\* Begin, if offsets were counted from the start of the stream
BeginAbsolute(f, start, from) == IF f.offset \notin {NoOffset, 0} THEN f.offset ELSE from

\* A field is sought if its offset is neither None nor 0.
Begin(f, start, from) == IF f.offset \notin {NoOffset, 0} THEN start + f.offset ELSE from

\* Where the readers are before a field: Union._read goes back to the beginning.
From(o, start, acc) == IF types[o].union THEN start ELSE acc.pos

\* An iteration of the loop over the fields; r is what the type of the field read.
ReadField(f, acc, r) ==
    IF ~acc.ok THEN acc
    ELSE [ok |-> r.ok, pos |-> r.pos, asked |-> acc.asked \cup r.asked,
          values |-> IF r.ok THEN Over(Put(f, r.value), acc.values) ELSE acc.values]

\* Structure._read; nested[p] is what reading the inner type at p gives.
ReadStructure(o, view, start, nested) ==
    LET read(t, p) == IF t = "inner" THEN nested[p] ELSE ReadLeaf(t, view, p)
        fields == types[o].fields
        acc[k \in 0 .. Len(fields)] ==
            IF k = 0 THEN Loop(start)
            ELSE ReadField(fields[k], acc[k - 1],
                           read(fields[k].type,
                                Begin(fields[k], start, From(o, start, acc[k - 1]))))
    IN acc[Len(fields)]

\* Buffer, if it had the length of the union also where the stream ends
BufferPadded(o, view, start) ==
    [base |-> start, limit |-> start + Length(o), shared |-> FALSE]

Buffer(o, view, start) ==
    [base |-> start, limit |-> start + Len(Ahead(view, start, Length(o))), shared |-> FALSE]

\* Union._read: the same from a buffer, whose length the union has to know
ReadUnion(o, view, start, nested) ==
    LET buffer == Buffer(o, view, start)
        r == ReadStructure(o, buffer, start, nested)
    IN [ok |-> r.ok, pos |-> buffer.limit, values |-> r.values, asked |-> r.asked \cup {o}]

ReadObject(o, view, start, nested) ==
    IF types[o].union THEN ReadUnion(o, view, start, nested)
    ELSE ReadStructure(o, view, start, nested)

ReadInner(view, start) ==
    LET r == ReadObject("inner", view, start, Nothing)
    IN [ok |-> r.ok, pos |-> r.pos, asked |-> r.asked, value |-> Compound(r.values)]

ReadOuter(start) ==
    LET view == IF types.outer.union THEN Buffer("outer", Stream, start) ELSE Stream
    IN ReadObject("outer", Stream, start, [p \in Nat |-> ReadInner(view, p)])

-----------------------------------------------------------------------------
(* Defaults and dumps *)

\* Pointer.default raises an error.
HasDefault(o) == \A f \in FieldsOf(o) : f.type # "pointer"

DefaultLeaves(o) ==
    [n \in {f.name : f \in {g \in FieldsOf(o) : g.type # "inner"}} |->
        Leaf([i \in 1 .. TypeSizes[(CHOOSE f \in FieldsOf(o) : f.name = n).type] |-> 0])]

\* Structure.default: an anonymous structure has its own name here.
Default ==
    Over(DefaultLeaves("outer"),
         [n \in {f.name : f \in {g \in FieldsOf("outer") : g.type = "inner"}} |->
             Compound(DefaultLeaves("inner"))])

Error == [ok |-> FALSE, bytes |-> <<>>]

Joined(a, b) == IF a.ok /\ b.ok THEN [ok |-> TRUE, bytes |-> a.bytes \o b.bytes] ELSE Error

\* A pointer cannot be written.
DumpLeaf(f, values) ==
    IF f.name \in DOMAIN values /\ f.type # "pointer"
    THEN [ok |-> TRUE, bytes |-> values[f.name].bytes] ELSE Error

\* Largest, if it were the first
LargestOrFirst(o) == 1

(***************************************************************************)
(* Structure._write goes over the fields and does not look at offsets;     *)
(* Union._write takes the first of the largest fields.                     *)
(***************************************************************************)
Largest(o) ==
    LET sizeOf(k) == SizeOf(types[o].fields[k].type, InnerLength)
        indices == DOMAIN types[o].fields
    IN CHOOSE k \in indices : /\ \A j \in indices : sizeOf(k) >= sizeOf(j)
                              /\ \A j \in 1 .. k - 1 : sizeOf(k) > sizeOf(j)

DumpObject(o, parts) ==
    LET joined[k \in 0 .. Len(parts)] ==
            IF k = 0 THEN [ok |-> TRUE, bytes |-> <<>>] ELSE Joined(joined[k - 1], parts[k])
    IN IF types[o].union THEN parts[Largest(o)] ELSE joined[Len(parts)]

DumpInner(values) ==
    DumpObject("inner", [k \in DOMAIN types.inner.fields |->
                           DumpLeaf(types.inner.fields[k], values)])

\* DumpField, if Structure._write did not know either
DumpFieldByName(f, values) ==
    IF f.type # "inner" THEN DumpLeaf(f, values)
    ELSE IF f.name \in DOMAIN values THEN DumpInner(values[f.name].members)
    ELSE Error

\* Only Structure._write knows that an anonymous structure has no name.
DumpField(f, values) ==
    IF f.type # "inner" THEN DumpLeaf(f, values)
    ELSE IF types.inner.anonymous /\ ~types.outer.union THEN DumpInner(values)
    ELSE IF f.name \in DOMAIN values THEN DumpInner(values[f.name].members)
    ELSE Error

DumpOuter ==
    DumpObject("outer", [k \in DOMAIN types.outer.fields |->
                           DumpField(types.outer.fields[k], instance.values)])

-----------------------------------------------------------------------------

Outcome(call, r) == [call |-> call, ok |-> r.ok, bytes |-> r.bytes]

\* Of a call that gives no bytes, only whether it raised an error is kept.
Quiet(ok) == [call |-> "other", ok |-> ok, bytes |-> <<>>]

\* Structures as they are defined: _calc_offsets is called once, and by then
\* the inner type knows its length if the outer one is no union.
Defined(o, union, anonymous, ts, inner) ==
    LET offset[k \in DOMAIN ts] ==
            IF k = 1 THEN 0 ELSE offset[k - 1] + SizeOf(ts[k - 1], inner)
    IN [union |-> union, anonymous |-> anonymous, size |-> NoSize,
        fields |-> [k \in DOMAIN ts |->
                      Field(<<o, k>>, ts[k], IF union THEN NoOffset ELSE offset[k])]]

ObjectsInit ==
    /\ \E outer \in UNION {[1 .. n -> FieldTypes] : n \in 1 .. MaxFields - 1},
          inner \in UNION {[1 .. n -> FieldTypes \ {"inner"}] : n \in 1 .. MaxFields - 1},
          unions \in [Objects -> BOOLEAN],
          anonymous \in BOOLEAN :
         LET innerType == Defined("inner", unions.inner, anonymous, inner, 0)
             length == SizeOfFields(innerType, 0)
             uses == "inner" \in ToSet(outer)
         IN /\ Len(outer) + Len(inner) <= MaxFields
            /\ Cardinality({k \in DOMAIN outer : outer[k] = "inner"}) <= 1
            \* one inner type is enough for outer types that do not use it
            /\ uses \/ (inner = <<Target>> /\ ~unions.inner)
            /\ types =
                 [outer |-> Defined("outer", unions.outer, FALSE, outer, length),
                  inner |-> IF uses /\ ~unions.outer
                            THEN [innerType EXCEPT !.size = length] ELSE innerType]
    /\ pos = 0
    /\ instance = [made |-> "nothing", start |-> NoStart, values |-> Nothing]
    /\ result = Quiet(TRUE)
    /\ replaced = {}
    /\ left = 0
    /\ added = [o \in Objects |-> 0]

\* outer(stream): an error is raised where the stream was when it happened
Read ==
    LET r == ReadOuter(pos)
    IN /\ types' = Measured(r.asked)
       /\ pos' = r.pos
       /\ left' = r.pos
       /\ IF r.ok
          THEN /\ instance' = [made |-> "read", start |-> pos, values |-> r.values]
               /\ replaced' = {}
               /\ result' = Quiet(TRUE)
          ELSE /\ UNCHANGED <<instance, replaced>>
               /\ result' = Quiet(FALSE)
       /\ UNCHANGED added

\* outer()
MakeDefault ==
    LET able == HasDefault("outer") /\ (UsesInner => HasDefault("inner"))
    IN /\ IF able
          THEN /\ instance' = [made |-> "default", start |-> NoStart, values |-> Default]
               /\ replaced' = {}
               /\ result' = Quiet(TRUE)
          ELSE /\ UNCHANGED <<instance, replaced>>
               /\ result' = Quiet(FALSE)
       /\ UNCHANGED <<types, pos, left, added>>

\* The bytes a member loses when it is set; New if there was no such member
Lost(values, n) == IF n \in DOMAIN values THEN ToSet(values[n].bytes) \ {New} ELSE {New}

NewLeaf(t) == Leaf([i \in 1 .. TypeSizes[t] |-> New])

(***************************************************************************)
(* instance.f = v, and instance.n.f = v for a nested instance.  A name has *)
(* to be in the lookup of the type; it need not be in the instance, and    *)
(* the members of an anonymous structure are not in the lookup.            *)
(***************************************************************************)
SetMember ==
    /\ instance.made # "nothing"
    /\ \E f \in FieldsOf("outer") :
         /\ f.type \in {"byte", "short"}
         /\ instance' = [instance EXCEPT !.values = Over(Only(f.name, NewLeaf(f.type)), @)]
         /\ replaced' = replaced \cup Lost(instance.values, f.name)
         /\ result' = Quiet(TRUE)
    /\ UNCHANGED <<types, pos, left, added>>

SetNested ==
    /\ \E n \in DOMAIN instance.values : \E f \in FieldsOf("inner") :
         /\ instance.values[n].kind = "nested"
         /\ f.type \in {"byte", "short"}
         /\ instance' = [instance EXCEPT !.values[n].members =
                            Over(Only(f.name, NewLeaf(f.type)), @)]
         /\ replaced' = replaced \cup Lost(instance.values[n].members, f.name)
         /\ result' = Quiet(TRUE)
    /\ UNCHANGED <<types, pos, left, added>>

SetAnonymous ==
    /\ \E n \in DOMAIN instance.values :
         /\ n \notin {f.name : f \in FieldsOf("outer")}
         /\ result' = Quiet(FALSE)
    /\ UNCHANGED <<types, pos, instance, replaced, left, added>>

\* instance.dumps(): a union compares the lengths of its fields
Dump ==
    /\ instance.made # "nothing"
    /\ result' = Outcome("dump", DumpOuter)
    /\ types' = IF types.outer.union /\ UsesInner THEN Measured({"inner"}) ELSE types
    /\ UNCHANGED <<pos, instance, replaced, left, added>>

\* Extended, if the length were kept
ExtendedInPlace(type, f) == [type EXCEPT !.fields = Append(@, f)]

Extended(type, f) == [type EXCEPT !.fields = Append(@, f), !.size = NoSize]

AddField ==
    /\ FoldFunction(+, 0, added) < MaxAdded
    /\ \E o \in Objects, t \in AddedTypes, offset \in Offsets :
         /\ o = "inner" => UsesInner
         /\ t = "inner" => o = "outer" /\ ~UsesInner
         /\ types' = [types EXCEPT ![o] =
                         Extended(@, Field(<<o, Len(@.fields) + 1>>, t, offset))]
         /\ added' = [added EXCEPT ![o] = @ + 1]
    /\ result' = Quiet(TRUE)
    /\ UNCHANGED <<pos, instance, replaced, left>>

\* len(outer), len(inner)
Measure ==
    /\ \E o \in Objects :
         /\ types' = Measured({o})
         /\ result' = Quiet(TRUE)
    /\ UNCHANGED <<pos, instance, replaced, left, added>>

Seek ==
    /\ pos' \in Places
    /\ left' = pos'
    /\ result' = Quiet(TRUE)
    /\ UNCHANGED <<types, instance, replaced, added>>

Pointers ==
    {v \in Range(instance.values)
           \cup UNION {Range(w.members) : w \in Range(instance.values)} : v.kind = "pointer"}

\* _stream.seek(_addr): the stream of a pointer in a union is the union's buffer.
AddressOf(v) == Memory[v.bytes[1]]

\* TargetOf, if the address were counted from where the stream is
TargetFromHere(v) == ReadLeaf(Target, v.view, pos + AddressOf(v))

TargetOf(v) == ReadLeaf(Target, v.view, v.view.base + AddressOf(v))

\* Follow, if it did not go back to where the stream was
FollowOnly ==
    /\ \E v \in Pointers :
         /\ AddressOf(v) # 0
         /\ LET r == TargetOf(v)
            IN /\ result' = Outcome("follow", IF r.ok
                                              THEN [ok |-> TRUE, bytes |-> r.value.bytes]
                                              ELSE Error)
               /\ pos' = IF v.view.shared THEN r.pos ELSE pos
               /\ left' = IF ~r.ok THEN NoStart ELSE left
    /\ UNCHANGED <<types, instance, replaced, added>>

(***************************************************************************)
(* PointerInstance._get, the first time: go to the target, read it and go  *)
(* back.  When the read raises an error nobody goes back.  The value is    *)
(* kept; as the stream does not change, reading it again gives the same.   *)
(***************************************************************************)
FollowNull ==
    /\ \E v \in Pointers : AddressOf(v) = 0
    /\ result' = Outcome("follow", Error)
    /\ UNCHANGED <<types, pos, instance, replaced, left, added>>

Follow ==
    /\ \E v \in Pointers :
         /\ AddressOf(v) # 0
         /\ LET r == TargetOf(v)
                moves == ~r.ok /\ v.view.shared
            IN /\ result' = Outcome("follow", IF r.ok
                                              THEN [ok |-> TRUE, bytes |-> r.value.bytes]
                                              ELSE Error)
               /\ pos' = IF moves THEN r.pos ELSE pos
               /\ left' = IF moves THEN NoStart ELSE left
    /\ UNCHANGED <<types, instance, replaced, added>>

ObjectsNext ==
    \/ Read \/ MakeDefault
    \/ SetMember \/ SetNested \/ SetAnonymous
    \/ Dump \/ AddField \/ Measure \/ Seek
    \/ FollowNull \/ Follow

ObjectsSpec == ObjectsInit /\ [][ObjectsNext]_objectVars

-----------------------------------------------------------------------------
ObjectBytes == 0 .. Len(Memory) \cup {New}

\* The shape of the state: offsets, lengths and bytes are what they should be.
ObjectsTypeOK ==
    /\ \A o \in Objects :
         /\ types[o].size \in Nat \cup {NoSize}
         /\ \A k \in DOMAIN types[o].fields :
              /\ types[o].fields[k].name = <<o, k>>
              /\ types[o].fields[k].type \in FieldTypes
              /\ types[o].fields[k].offset \in Nat \cup {NoOffset}
    /\ pos \in Nat
    /\ left \in Nat \cup {NoStart}
    /\ instance.made \in {"nothing", "read", "default"}
    /\ \A v \in Range(instance.values) : ToSet(v.bytes) \subseteq ObjectBytes
    /\ ToSet(result.bytes) \subseteq ObjectBytes
    /\ replaced \subseteq ObjectBytes

-----------------------------------------------------------------------------
(* Properties *)

Plain == \A o \in Objects : \A k \in DOMAIN types[o].fields :
           k > Len(types[o].fields) - added[o] => types[o].fields[k].offset = NoOffset

Untouched == \A o \in Objects : added[o] = 0

HasPointers == ~HasDefault("outer") \/ (UsesInner /\ ~HasDefault("inner"))

(***************************************************************************)
(* The length a structure remembers is the one its fields have now,        *)
(* although nested types change: add_field forgets the length of its own   *)
(* structure (structure.py, add_field), so this holds for every structure  *)
(* whose nested type was not extended behind its back.                     *)
(***************************************************************************)
LengthIsCurrent ==
    \A o \in Objects :
       types[o].size = NoSize \/ types[o].size = CalcSize(o)
       \/ (o = "outer" /\ UsesInner /\ added.inner > 0)

(***************************************************************************)
(* Wherever offsets lead the readers, a structure is read from the bytes   *)
(* its length says it takes: no member, nested or not, has a byte before   *)
(* its start or after its end, whatever was added in which order.          *)
(***************************************************************************)
ReadsStayWithin ==
    instance.made = "read" =>
       \A v \in Range(instance.values)
                \cup UNION {Range(w.members) : w \in Range(instance.values)} :
          ToSet(v.bytes) \subseteq
             {New} \cup instance.start + 1 .. instance.start + CalcSize("outer")

(***************************************************************************)
(* A dump, when there is one, is as long as len() of the type, for read    *)
(* and default instances, before and after fields were added: the writers  *)
(* and _calc_size go over the same fields.  Not so with offsets given to   *)
(* add_field, which the writers do not look at.                            *)
(***************************************************************************)
LengthIsDumped ==
    result.call = "dump" /\ result.ok /\ Plain => Len(result.bytes) = CalcSize("outer")

(***************************************************************************)
(* What was read and dumped is the bytes it was read from, but for the     *)
(* members that were set since; what was made by default is zeros.  A      *)
(* member of a union is lost in the dump unless it is the largest.         *)
(***************************************************************************)
DumpIsOverlay ==
    result.call = "dump" /\ result.ok /\ Plain /\ New \notin replaced
      /\ added.inner = 0
      /\ (replaced = {}
          \/ (instance.made = "read" /\ \A o \in Objects : ~types[o].union)) =>
       \A i \in DOMAIN result.bytes :
          result.bytes[i] = CASE instance.made = "default" -> 0
                              [] instance.start + i \in replaced -> New
                              [] OTHER -> instance.start + i

(***************************************************************************)
(* An instance whose types were not extended can be dumped, however it was *)
(* made and set, unless it holds a pointer or its anonymous structure is   *)
(* where the writer does not look: under its name after reading a union,   *)
(* and by its members after the default of a structure.                    *)
(***************************************************************************)
DumpSucceeds ==
    result.call = "dump" /\ Untouched /\ ~HasPointers
      /\ ~(UsesInner /\ types.inner.anonymous
           /\ types.outer.union = (instance.made = "read")) =>
       result.ok

(***************************************************************************)
(* The stream is where the last read or seek left it, although pointers    *)
(* that share it are followed in between, unless following one failed.     *)
(***************************************************************************)
StreamIsWhereLeft == left = NoStart \/ pos = left

(***************************************************************************)
(* A pointer of a structure leads to the bytes of the stream at its        *)
(* address whenever it is followed, wherever the stream has been moved.    *)
(***************************************************************************)
FollowedIsTarget ==
    result.call = "follow" /\ result.ok
      /\ (\A o \in Objects : ~types[o].union) =>
       \E v \in Pointers :
          result.bytes = [i \in 1 .. TypeSizes[Target] |-> Memory[v.bytes[1]] + i]

(***************************************************************************)
(* Unions and nested structures work, both anonymous and named (README):   *)
(* what was read without pointers can be dumped.                           *)
(***************************************************************************)
NestedAreDumped ==
    result.call = "dump" /\ instance.made = "read" /\ Untouched /\ ~HasPointers =>
       result.ok

=============================================================================

# dissect.cstruct in TLA+

A model of `dissect.cstruct`, the library that reads and writes binary data
with C structure definitions: TLA+ modules translated from
`src/dissect/cstruct/`, TLC configurations that check them on small instances,
and proofs, checked by TLAPS, of what holds for every structure, stream and
type. Paths below are relative to `src/dissect/cstruct/`.

## 1. The system

| Component | Source | State | Operations |
|---|---|---|---|
| Bit buffer | `bitbuffer.py` | unit type, buffer, bits remaining | read, write, flush, reset |
| Structure | `types/structure.py` | fields and their offsets, cached length | `_calc_offsets`, `_read`, `_write`, `add_field`, `__len__`, `default` |
| Union | `types/structure.py` | as a structure, fields from one buffer | `_read`, `_write`, `__len__` |
| Instance | `types/instance.py` | values, sizes | attribute access (into anonymous structures too), `write`, `dumps` |
| Raw types | `types/{base,packedtype,bytesinteger,chartype,wchartype,voidtype}.py` | none | `_read`, `_write`, array and null-terminated forms |
| Pointer | `types/pointer.py` | address, shared stream, cached target | `_read`; `_get` on first attribute use |
| Enum, Flag | `types/enum.py`, `types/flag.py` | values, reverse map | call, attribute, compare, decompose |
| Compiler | `compiler.py` | the loop variables of the generator | `gen_struct_class`; the generated `_read` |
| Registry | `cstruct.py` | typedefs, constants, lookups | `addtype`, `resolve`, `load`, `loadfile` |
| Token parser | `parser.py` | token stream, flags, anonymous counter | `parse` and one method per declaration |
| C-style parser | `parser.py` | none | the legacy parser: four passes of regular expressions |
| Expression | `expression.py` | tokens, stack | `evaluate` |
| Utilities | `utils.py` | palette | `hexdump`, `dumpstruct` |

How they interact. `cstruct.load` runs the token parser, which asks the registry
for types, evaluates array sizes with `Expression`, builds `Structure`s (which
compute their offsets at once) and hands each to the `Compiler`, whose class
replaces it in the registry. Reading a structure shares one stream between the
structure, the types of its fields and a `BitBuffer` made for that read; the
structure seeks in that stream to the offsets it computed when it was defined.
The generated reader uses the same stream and the same `BitBuffer`, but decides
when the code is generated where the buffer is reset. A `PointerInstance` keeps
the stream and moves it later, whenever an attribute of it is first used.
Nothing runs concurrently and nothing is persisted.

What is hard here is agreement: four pieces of code each decide where a unit of
bit fields begins and ends, with four different tests.

| | a unit ends when | a plain field |
|---|---|---|
| layout, `types/structure.py:54` | no bits remain, or the type differs | does **not** end it |
| reader, `bitbuffer.py:13` | no bits remain, or the size differs | ends it (`reset`) |
| writer, `bitbuffer.py:30` | no bits remain, but the unit is **not flushed** | ends it (`flush`) |
| generated reader, `compiler.py:108-171` | as the reader | ends it, **except a nested structure** |

The second thing that is hard is what a program may do with the objects once
they exist: types grow after they were measured or nested (`add_field`), an
instance is read, made by default, changed and dumped in any order, members of
unions overlap, and pointers move a stream that others read.

The properties that make the components correct:

* layout and reader: the offsets agree with the positions that reading reaches,
  `len()` is what is consumed, no bit belongs to two fields;
* writer: `len()` bytes are written, no unit is refused for its data, what is
  written is read again, a value that is too large spoils only what it must;
* compiler: the generated reader has the results of the interpreted one;
* structures, unions and instances: a length that is remembered is the length
  now, reads stay within it, a dump is what was read but for what was set;
* pointers: a dereference leaves the shared stream where it was, and finds its
  target wherever the stream is;
* registry and parsers: names that resolve keep their meaning whatever is loaded
  and however loads fail; flags belong to their own structure; loads end;
* arrays: what is read is written, defaults can be written, short streams are
  refused; expressions: the value the brackets give; enums and flags: fresh
  numbers, no bit lost in decomposition; dumps: each byte has its field's colour.

`PROJECT.json` lists the hazards, each at its line, with the properties that
cover it.

## 2. Modules

```
CStructTypes                    symbolic values, bytes, types, byte order
  BitBuffer                     bitbuffer.py
    StructLayout                Structure._calc_offsets
      StructRead                Structure._read        --> FieldPlacement (abstract)
        StructReadProofs        theorems: types, offsets, lengths, bits, and
                                the refinement of FieldPlacement
        CompiledRead            compiler.py: generator and generated _read
          Agreement             StructRead and CompiledRead on one stream
            AgreementProofs     theorems: both readers, field by field
      StructWrite               Structure._write
        RoundTrip               StructWrite, and then StructRead on its bytes
          RoundTripProofs       theorems: types, what is written, units, and
                                that it is read again
MCStructs                       the structures and streams of the instances
  MCRead  MCTrip  MCWrite  MCAgreement

StructObjects                   structures, unions, instances, pointers, add_field
  ObjectsProofs                 theorems: lengths, reads, the stream, pointers
    DumpProofs                  dumps
  MCObjects

TypeRegistry                    cstruct.py: typedefs, addtype, resolve
  TokenParser                   parser.py: TokenParser, cstruct.load
    LegacyParser                parser.py: CStyleParser; loads of both parsers
      ParserProofs              theorems: names, types, and what loads leave
      MCParser                  definitions

PythonInt                       division and bits of Python's integers
  Expression                    expression.py
  EnumFlag                      types/enum.py, types/flag.py, numbering in parser.py
Arrays                          types/*.py and generated code, one field of each form
Hexdump                         utils.py
AlgorithmsProofs                theorems: Arrays, EnumFlag and Hexdump
  ExpressionProofs              theorem: the value of an expression
MCExpression  MCAlgorithms      instances of these four
```

**CStructTypes.** A Python integer is symbolic: at each bit position it holds
the *set of source bits* that are OR-ed there. A source bit is a bit of the
stream or of the data written. Shifts, masks, `|`, byte order and sign extension
act on these sets, so that one behaviour covers every value of the data, and a
bit that is read twice, lost or OR-ed onto another is seen as such. `Top` is the
sign position, which stands for all positions above it. A type is a model value
with a size and membership in the kinds the code distinguishes: `Integer`
(`PackedType`, `BytesInteger`), `Signed`, `Lenient` (a short read is accepted:
`CharType._read`, `BytesInteger._read`), `Dynamic` (no `len()`), `Nested`
(structures and arrays of them). A type may be both of the last two: a structure
with a member of no length, or an array of structures of a computed count. The
size of a dynamic type is the number of bytes its field takes in the stream at hand;
nested structures fail on short reads.

**BitBuffer.** `read` is the test for a new unit (`NeedsUnit`), loading it
(`Loaded`), the value (`Taken`) and the state left (`AfterTake`); `CanTake` is
FALSE where the big-endian shift count would be negative (ValueError).
`write` is `CanPut` and `Put`, `flush` is in `StructWrite`.

**StructLayout.** One action per iteration of `_calc_offsets`, by the kind of
field: `BitFieldOpens`, `BitFieldJoins`, `PlainField`. `lay[k]` keeps the loop
variables before field k; the last one is what `__len__` returns.
`Regular` is the class of definitions on which layout and reader agree (below).

**StructRead.** One action per way through the loop body of `Structure._read`:
a bit field from the unit held, from a new unit, or beyond its unit
(ValueError); any other field; a stream that ends within a field (EOFError,
which also stands for the `struct.error` of `PackedType._read_0`). `Sought` is
the seek of lines 107-108, with its test for `None` and 0. `ReadAgain` reads
the next structure where the last ended, as an array of structures does.

**FieldPlacement** says what reading promises, without offsets, seeks or
buffers: fields follow each other, a bit field continues the unit of the bit
fields *just before it* if the type is the same and there is room, and the bits
of a unit are used from one end. `StructRead` refines it on regular structures:
`cursor` is the position (at most the end of the stream), `unit` the unit the
buffer holds while bits of it remain, `placed` the values. The refinement is
stated step by step, as `ReadsAsPlaced`.

**StructWrite**, **RoundTrip.** Bit b of the value of field k is the source bit
`<<k, b>>`. The values are in range, but for at most one field, `wide`, whose
value is any number that is not negative. `FlushFails` and `PlainFails` are
`struct.pack` refusing a number that is out of range for some data, a unit's or a
field's. `RoundTrip` reads what was written. `Above` are the fields whose bits
are above those of `wide` in its unit: those after it in a little-endian unit,
those before it in a big-endian one.

**CompiledRead**, **Agreement.** The generator is a loop with a state of its own
(`gen`), one action per kind of field, whose result is a sequence of statements;
the generated `_read` is the machine that runs them. `Agreement` reads one
stream with the interpreted reader, and then with the generated one.

**TypeRegistry**, **TokenParser.** A type is an object with an identity; `typedefs`
maps names to types, to other names, or to None. A definition is a sequence of
tokens; of the scanner's regular expressions only what they look ahead for is
kept (`Scannable`). `stack` holds the calls of `_struct` that are under way. The
actions are the parser's methods, split where `_struct` calls itself: a
structure opens (`OpenStruct`), a field is complete (`ParseField`,
`ParseUntypedField`, `ReferToStruct`), a structure closes, as a field
(`CloseNested`) or as a declaration (`CloseDeclared`, which names, makes,
compiles and registers it and resets the flags), and every way to fail
(`StructFails`, `EnumFails`, `NoField`, `UnexpectedToken`, a name that is taken,
...). The words of an enum are its name, its type and the constants in its values,
which is what `EnumError` goes by. A failed load keeps what it has registered.
Between loads the caller adds and
replaces references among the names `CallerWords`. `asked` in an object and
`references` are history: that #[nocompile] was given, and that a name was given a
reference, by the caller or by a typedef of the legacy parser.

**LegacyParser.** `CStyleParser` goes over the text once for each kind of
declaration, so a definition is the sequence of what its expressions match, and
`InPhases` its order; there is one action per loop body, and what raises an
exception ends the load with what it has registered. `LoadsSpec` lets loads of
either parser follow each other in one cstruct.

**StructObjects.** Two types, one of which may be nested in the other, each a
structure or a union, the nested one anonymous or not; the last instance; and
one stream. A byte of a value is the position it was read from, `New` if it was
set, 0 if it is a default, so that values say where they come from. The actions
are the calls of a program: `Read`, `MakeDefault`, `SetMember` (and in nested and
anonymous instances), `Dump`, `AddField`, `Measure` (`len()`), `Seek`, `Follow`. Lengths
are remembered where the code does (`Measured`), by reads and dumps of unions
too. A union is read from a buffer, which is also the stream of the pointers in
it (`view`, where `shared` tells the stream from a buffer). Bit fields are left to
the modules above.

**Arrays.** One field of each class of type and form: single, of a fixed count,
of a computed count, null-terminated. `Interpreted` is what the methods of
`types/` do with it, `Generated` what the code generated for it does, `Default` and
`Written` the rest. A number in a value is the integer that its bytes make in the
stream's order (`Number`), and is taken apart again where it is written. A result
keeps apart a number, a list and a text, and which exception was raised. `KnownDifference` names the five cases where the generated
reader does not do what the types do.

**Expression.** `evaluate` is a loop over tokens with a stack of texts; a bracket
is replaced by the text of its value (`Str`), which is how a sign becomes an
operator. `EvaluatePart` is `evaluate_part`. The expressions are all of three
operands, with brackets around two, three or none of them, or with one missing;
`Text` are their tokens. The operands are numbers, which have no sign in a text, and
names of integers (`OperandsAssumption`).

**EnumFlag.** A definition is numbered member by member (`NumberMember`), an
instance is made of any value of the type and combined with members
(`Combine`); `Decomposed` and `Shown` are `decompose` and `__str__`. Names are
numbers, because `decompose` sorts them. The members' values are not negative and
those given explicitly fit the type (`RoomAssumption`), as they do wherever the
type can hold them; `PowerOf2` is a function, because the provers know nothing of
`2 ^ k`.

**Hexdump.** `ListField` is the loop of `dumpstruct` that makes the palette, the
other actions the cells of a row; `terminal` is the colour the text has switched
to, which is what the next character comes out in. `Ends` is where each field ends,
`OwnColour` the colour that a byte should have by it, which the code never computes.

### Regular structures

`Regular` is stated on the definition and its layout alone. Every bit field that
joins a unit follows a bit field directly and has room; one that opens a unit
while the last one still has bits has a type of another size; no bit field is
wider than its type. `OneUnitRuns` adds, for the writer, that a run of adjacent
bit fields is a single unit. The code accepts other definitions too: what it
does with them is what the runs that expect a violation show.

## 3. Runs

`BYTE` is 2 in all runs: bits of a byte are all treated alike, and two are
enough to split a byte between fields, to fill it exactly and to exceed it.
Types are of one and two bytes, so that sizes are equal for different types, and
units straddle bytes. Bit fields have every width up to their type's, and one bit
more for `U1`. All structures of up to `MaxFields` fields are checked: with four
fields a bit field, a plain field, a bit field that wrongly joins and a field
after it fit in (three fields show most of it, which `trip` uses). Streams are long enough for every structure, and short.

| Run | Checks | Shows |
|---|---|---|
| `read` | `ReadTypeOK`, `ReadInv`, `SeekIsNoOp`, `LengthIsConsumed`, `NoBitReadTwice`, `ReadsAsPlaced` | layout and reader agree on regular structures, over repeated reads and on short streams, and implement `FieldPlacement`, values included; the inductive invariant of the proofs |
| `agree` | `CompiledTypeOK`, `CompiledAgrees`, `NoBitReadTwice`, `PlacedInBothOrders` | the generated reader agrees with the interpreted one in both byte orders, but for short reads and bit fields around a nested structure; the interpreted one implements `FieldPlacement` in both |
| `trip` | `WriteTypeOK`, `LengthIsWritten`, `UnsignedUnitsFit`, `RoundTripRestores` | what is written has the right length and is read again; a value out of range changes only the fields above it |
| `defs` | `LoadsTypeOK`, `CompiledSeesItsTypes`, `AnonymousFieldsApart`, `EolIsThere`, `DeclaredNamesAreDirect`, `NamesKeepTheirMeaning`, `LoadsEnd` | two loads, of either parser, that may fail halfway, and references of the caller before, between and after them, leave every name, and every compiled structure that looks types up by name, as it was; malformed and truncated definitions are parsed to an end as well |
| `objects` | `ObjectsTypeOK`, `LengthIsCurrent`, `ReadsStayWithin`, `LengthIsDumped`, `DumpIsOverlay`, `DumpSucceeds`, `StreamIsWhereLeft`, `FollowedIsTarget` | structures, unions, instances and pointers stay consistent in any order of calls, with the exceptions the properties name |
| `algorithms` | `AlgorithmsTypeOK`; of `Arrays`: `GeneratedReadsAsTypes`, `ShortStreamsAreRefused`, `ArraysAreRestored`, `DefaultsAreWritten`; `ValueIsExact`; of `EnumFlag`: `AutomaticIsFresh`, `DecomposeIsWhole`, `ShownApart`; of `Hexdump`: `BytesHaveTheirColour`, `RowsEndNormal` | each algorithm computes what it should, for all small inputs |
| `read_any` | `AlwaysAligned` *violated* | a bit field after a plain field joins the unit before it: later fields are sought too early and bits are read twice |
| `trip_any` | `DumpsRestores` *violated* | two units in a row are written into one |
| `write_count` | `WriteReportsBytes` *violated* | the last unit is not in the count `write` returns |
| `defs_flags` | `FlagsAreHonoured` *violated* | a nested structure resets the flags of the one around it |
| `objects_any` | `NestedAreDumped` *violated* | a union whose largest member is an anonymous structure cannot be dumped after it was read |
| `expr_any` | `NegativesInBrackets` *violated* | a negative value in brackets next to an operator like `-` or `&` raises ValueError |

`read` and `trip` are big-endian: there a bit field may exceed its unit, and its
position in the unit depends on the type of the unit, so that units taken for each
other show in the values. `trip_any` is little-endian. In `agree` the byte order is
a variable: one instance of `Agreement` is little-endian, the other big-endian, and
`PlacedInBothOrders` is `ReadsAsPlaced` of the one that runs; the other properties are
the same formulas in both. `trip` passes little-endian as well, and
`WhatIsWrittenIsRead` is proved for both orders.

In `agree` one of the nested structures has a length and one has none: the layout
has no offsets after the second, and the generator treats both alike.
A nested structure is the one place where the two readers differ on a stream
that is long enough: the generated code does not reset the buffer for it
(`compiler.py:108`), and `CompiledAgrees` leaves it out where bit fields surround it.

`ReadsAsPlaced` asks of every step of a reading that is regular after it to be a
step of `FieldPlacement`. It leaves out one case, `UnitsAreWhole`: a
`BytesInteger` bit field whose unit is cut short by the end of the stream is
accepted by the code, with a value of the bytes that are left.

In `objects` the two types have three fields between them and one more is added,
to either, at any time: two fields that overlap or differ in size and a nested
structure fit in. The stream has four bytes, so that reads and pointers end within
it, at its end and beyond; read as pointers, they are null, and lead into the
stream, to its last byte and to its end. An instance is changed, types grow and
pointers are followed any number of times.

In `algorithms` a behaviour is one of one of the four modules. Arrays have up to
two elements, streams up to seven bytes, one more than the largest array of
`BytesInteger` takes; a count may also be negative, as an expression's may.
Expressions have three operands, which is enough for an operator on each side of
a bracket. Flags have three members of three bits, with names that repeat and
values that overlap or go down. Rows of a dump have three bytes, and fields up to
four, so that they end within a row, at its end and beyond.

In the `defs` runs `Hops`, 10 in the code, is 2, and the caller sets up to two
references among the names `N` and `A` (`CallerWords`): a reference to a
reference is still resolved, and two that form a cycle are not. The definitions
are of the forms the parser tells apart, with names that collide across and
within declarations, some cut off after a few tokens or before the last. Two
loads are enough for a second definition to collide with, refer to or redefine
what the first left behind, whether it succeeded or not.

The violations are disagreements between the code and its documentation, listed
with the quotes under `findings`; what else differs from what one would expect is
named in the properties that leave it out (`KnownDifference`, `Misread`, `Ascending`,
`Exact`, the conditions of `DumpSucceeds`). The README's own bit-field example has the
first one: its `len()` is 6 while it dumps 8 bytes.

Deadlock is not checked: a read, a write or a caller that has ended stops.
`LoadsSpec` assumes weak fairness of a parser's step, because `load` runs to
its end in the thread that called it; `LoadsEnd` is the one liveness property.
Reading and writing are loops over the fields, which end with them: no liveness
is stated there, and no fairness assumed.

### How the translation was checked

Apart from the review of each definition against its lines, the modules that
compute with small data were compared with the library itself, over all of the
inputs of the instances: 301,290 results of reads, writes and defaults (`Arrays`),
38,400 expressions, 65,769 enums, flags and their texts, 10,920 coloured dumps,
1.09 million transitions of `StructObjects` and 33,824 sequences of up to three
loads with the legacy parser. They agree.

## 4. Proofs

The theorems hold for every value of the constants under the assumptions that
the modules name (`ASSUME` in `CStructTypes`, `StructLayout`, `StructRead`,
`TypeRegistry`, `TokenParser`, `LegacyParser`, `StructObjects`, `Arrays`, `PythonInt`,
`Expression`, `EnumFlag`, `Hexdump`), which TLC evaluates on every run that extends
them: any types and sizes, byte width, definitions of any length,
streams and starts; any definitions to load, any number of loads and of hops;
any memory, number of fields and number of additions; any bytes, sizes of types
and counts; any numbers and names; any width, members and values that fit; any
sizes of fields and rows. `NoBitIsReadTwice` has one
hypothesis more, `BitsHaveNames`: the source bits of a stream have different
names, which is what makes "read twice" mean something.

### Reading

| Theorem | Property | Module |
|---|---|---|
| `ReadTypeCorrect` | `[]ReadTypeOK` | `StructReadProofs` |
| `ReadInvariant` | `[]ReadInv`, inductive | |
| `SeeksAreNoOps` | `[]SeekIsNoOp` | |
| `LengthsAreConsumed` | `[]LengthIsConsumed` | |
| `NoBitIsReadTwice` | `[]NoBitReadTwice` | |
| `ReadingPlacesFields` | `ReadsAsPlaced`, the refinement of `FieldPlacement` | |

`SeekIsNoOp` is not inductive: whether a seek goes anywhere depends on whether a
bit field opened a unit in the layout and in the reader alike, so the invariant
has to relate the two buffers too. `ReadInv` says that (a) the layout is the chain
of its loop iterations (`LayoutInv`), (b) nothing is read before the layout is
complete, and (c) before each field of a regular structure, the offset of the
layout is the position of the reader (`PositionKnown`) and the bits the layout
thinks remain are those in the buffer, of a type of the same size (`BufferKnown`).
The step lemma `UnitsAgree` derives from (c) that a field opens a unit in the
layout exactly if it needs one in the buffer; with that `PositionStaysKnown` and
`BufferStaysKnown` carry (c) over one field.

For `NoBitReadTwice` one has to know which bits are still to be taken: `BitsInv`
says that the places of the buffer that remain hold different source bits, all
from before the position, and none of them in a value that was read. For the
refinement, `UnitKnown` says what number is in the buffer: that of the bytes just
before the position, shifted by the bits that were taken if the order is little-endian.
The abstract specification has no buffer, so each reading action is shown to be
the abstract one that starts a unit, continues it or reads a plain field.

### Writing and reading again

| Theorem | Property | Module |
|---|---|---|
| `WriteTypeCorrect` | `[]WriteTypeOK` | `RoundTripProofs` |
| `WriteInvariant` | `[]WriteInv`, inductive | |
| `LengthsAreWritten` | `[]LengthIsWritten` | |
| `UnsignedUnitsAreFlushed` | `[]UnsignedUnitsFit` | |
| `WhatIsWrittenIsRead` | `[]RoundTripRestores` | |

The length of what was written says nothing while a unit is pending: `WriteInv`
counts the bytes that the next flush will write as well (`WriterKnown`), and knows
the unit pending as the one that the layout has open. It also says that the
number in that unit has no bit above the width of its type if all values are in
range, which is why `struct.pack` accepts it.

That the data are read again relates a value, which is gone once it is in a unit,
to the unit in the writer's buffer, to its bytes on the stream and to the reader's
buffer. `TripInv` says that there is one chain of positions `at`, where the layout
says (`Chained`), which explains all of them. While the structure is written, each
field is on the stream at its position (`OnStream`) or in the buffer, at the place
of its unit that `Place` computes from the layout (`Held`), and the rest of the
buffer is zero (`RestIsZero`), since what is there will be OR-ed to the next field.
When the writer is done all fields are on the stream (`AllOnStream`). While it is read, the
reader's buffer is the number of the unit at `at`, shifted by what was taken if
the order is little-endian (`UnitIsHeld`), so that it has the next field where it
is taken from. A value that is too large spills over the places above its own:
`Above` is exactly the fields at which the invariant says nothing.

### Registry and parsers

| Theorem | Property | Module |
|---|---|---|
| `ParsersKeepInv` | `[]ParseInv`, inductive | `ParserProofs` |
| `LoadsTypeCorrect` | `[]LoadsTypeOK` | |
| `EolIsFound` | `[]EolIsThere` | |
| `DeclaredNamesStandForTypes` | `[]DeclaredNamesAreDirect` | |
| `CompiledFindsItsTypes` | `[]CompiledSeesItsTypes` | |
| `AnonymousFieldsKeepApart` | `[]AnonymousFieldsApart` | |
| `MeaningsAreKept` | `NamesKeepTheirMeaning`, an action property | |

`ParseInv` adds to the registry's properties that a type is found by the name it
was made with (`NamesAreFirst`), unless the caller made that name a reference:
without it a compiled structure could find another type by that name, and
`DeclaredNamesAreDirect` alone does not exclude that. Of the parsers it says
that what is left of a text still has, after each token, what the scanner saw
there (`LooksAhead`), and that the anonymous structures of the calls under way
are numbered below the counter (`AllApart`). Each action of either parser is first
shown to change the registry in one of a few ways (`NothingNamed`, `TypeNamed`,
`MoreNames`, `NamesReferred`, `ReferenceAdded`, `ReferenceReplaced`), and what a name
resolves to is followed along chains of references of any length through each
of these.

### Structures, unions, instances and pointers

| Theorem | Property | Module |
|---|---|---|
| `ObjectsInvariant` | `[]ObjectsInv`, inductive | `ObjectsProofs` |
| `ObjectsTypeCorrect` | `[]ObjectsTypeOK` | |
| `LengthStaysCurrent` | `[]LengthIsCurrent` | |
| `ReadsAreWithin` | `[]ReadsStayWithin` | |
| `DumpsHaveTheLength` | `[]LengthIsDumped` | |
| `StreamStaysWhereLeft` | `[]StreamIsWhereLeft` | |
| `PointersLeadToTargets` | `[]FollowedIsTarget` | |
| `DumpInvariant` | `[]DumpInv`, inductive | `DumpProofs` |
| `DumpsAreOverlays` | `[]DumpIsOverlay` | |
| `DumpsSucceed` | `[]DumpSucceeds` | |

The lengths, the offsets and the values depend on each other: a length is
remembered while its type, or the one nested in it, grows. `ObjectsInv` keeps for
both types that a remembered length is the present one, or at most that if the
nested type grew behind the outer one (`LengthInv`), that the offsets a structure
was defined with do not lead beyond the fields before them (`OffsetsInv`), and
that each value is of a field that the type has, in the shape of its type, within the
length that the type counts now (`IsInstance`).
`DumpInv` adds where each value was read: every member has the bytes of its place
in the stream, `New` where it was set (`ReadOverlay`), zeros if it is a default
(`DefaultZeros`), and the members are where the writers look for them
(`Present`). From these a byte of a dump is traced back through one or two levels
of `Structure._write` or `Union._write` to the member that it comes from.

### The compiler

| Theorem | Property | Module |
|---|---|---|
| `AgreementInvariant` | `[]AgreementInv`, inductive | `AgreementProofs` |
| `CompiledTypeCorrect` | `[]CompiledTypeOK` | |
| `CompiledAgreesWithInterpreted` | `[]CompiledAgrees`: whatever the types, nested structures without a length among them | |

The readers do not run in step: a statement of the generated code reads several
fields at once, and a reader that has ended must still be known field by field.
`Trace` keeps the states of the interpreted reader before each field as those
of a reader that never seeks; that the real one is there, or beyond the end of
the stream, is where `ReadInv` and with it `SeeksAreNoOps` are needed.
`Generation` says which fields the statements made so far stand for: consecutive
ones, at consecutive places of their bytes, with a reset exactly where a plain
field follows a bit field with at most nested structures between (`Dirty`).
`Follows` puts the two together: before statement `ip` the generated reader is
where the interpreted one was before the first field of that statement, with the
same values so far. About the bit buffers it says less, since the
interpreted reader empties its buffer after each plain field and the generated
one only at a reset: they are the same after a bit field, and empty where no bit
field is pending. The one place where that is too little is a bit
field after a nested structure that follows a bit field, which is what
`NoBitsAroundNested` excludes. A block that is short must contain a field that
the interpreted reader refuses or accepts short: `ShortIsLenient` takes the first
field of the block that reaches the end of the stream. `AgreementInv` claims that
such sequences of states and fields exist, among all sequences, so that TLC checks
its consequences (the run `agree`) but not the invariant itself.

### Arrays, enums, flags and dumps

| Theorem | Property | Module |
|---|---|---|
| `ArraysInvariant` | `[]ArraysInv`, inductive | `AlgorithmsProofs` |
| `GeneratedIsInterpreted` | `[]GeneratedReadsAsTypes` | |
| `ShortStreamsFail` | `[]ShortStreamsAreRefused` | |
| `ReadArraysAreRestored` | `[]ArraysAreRestored` | |
| `DefaultsAreZeros` | `[]DefaultsAreWritten`, where texts without a fixed count are the exception | |
| `EnumInvariant` | `[]EnumInv`, inductive | |
| `EnumTypes` | `[]EnumTypeOK` | |
| `NextIsFresh` | `[]AutomaticIsFresh` | |
| `NoBitIsLost` | `[]DecomposeIsWhole` | |
| `ShownIsKnown` | `[]ShownApart` | |
| `HexdumpInvariant` | `[](HexdumpTyped /\ HexdumpInv)`, inductive | |
| `BytesAreColoured` | `[]BytesHaveTheirColour` | |
| `RowsEndUncoloured` | `[]RowsEndNormal`, for fields that have a byte at least and lie in the data (`Exact`) | |

`Arrays` and `EnumFlag` are small state machines around large computations: their
invariants only say which computation each variable is the result of, and the
theorems are about the computations. For `Arrays` they go by the form of the field,
and in `ReadArraysAreRestored` down to the bytes of a number, which are those that
`Number` was made of because division by the powers of 256 finds them. For flags the
numbers in two's complement are the sets of their bits: `BitsOf` a sum of different
powers of two are those powers, which is what `decompose` and `__str__` take apart.
`EnumInv` has two facts that are not in the properties: a number to come is below
`2 ^ (Width + numbered + 1)`, which is why the parser never runs out of room, and it
is the one that follows the last member as long as no name came twice, from which
it follows that it is above all of them if their values did not go down.

A dump is not so: the colour of a byte depends on the palette, which `dumpstruct` made
from sizes long before, and on what the rows before have left active.
`PaletteInStep` keeps these together: the palette is the fields whose turn has not
come, each with its size and colour, and the active entry is the field that the cell is in,
with as many bytes remaining as `Ends` says, or there is none and the cell is at the end of a
field. `terminal` is what is active, but in the first cell of a row.

### Expressions

| Theorem | Property | Module |
|---|---|---|
| `BracketsAreExact` | `[]ValueIsExact` | `ExpressionProofs` |

`ExpressionInv` says what the text and the stack are before the bracket, within
the brackets and after them (`Before`, `Within`, `After`): within, the stack has the text
before the bracket; after, the value's text is in the place of the brackets
(`Outer`). It is inductive whatever the operators are. `Outcome` is what follows of
the result. The rest is about `evaluate_part`: its recursion is followed for each text it
can be given, of one operand, two or three, and of a negative number to the left or the
right of an operator (`OfOne`, `OfTwo`, `OfThree`, `NegativeLeft`, `NegativeRight`). `SplitRange` says
where a text is split: at the last of the operators of least `Rank`. The two lemmas on
negative numbers show which operators the sign is taken for, and no other: these are the
`Misread` expressions.

### Recursive definitions

What a recursive function (a loop over fields, a chain of references) computes is
proved without the induction theorems of the library, which take an operator as a
parameter: `Least` derives from `WFMin` that a set of numbers that is not empty has
a least one, and the least counterexample to a claim about `g[n]` is refuted by the
one before it. `EndsExist`, `RunsExist`, `JoinsExist`, `Chains`, `FindsExist`, `LeadsExist`,
`PowersExist`, `SumsExist` and `ValuesExist` show in this way that the functions exist, the
last by the length of a text.

### What stays with TLC

* Liveness: `LoadsEnd` needs fairness and `ENABLED`, which are beyond the provers.
* `AlgorithmsTypeOK`, which joins the types of four modules in one instance; those
  of `EnumFlag` are proved (`EnumTypes`), and the invariants of the others say what
  their properties need of the types.
* `AgreementInv` itself, and `TripInv`, which claim that a sequence exists, are
  proved but not checked by a run, only their consequences are. `ExpressionInv`
  was checked on the instance of `expr_any` before it was proved.
* `PlacedInBothOrders` is `ReadsAsPlaced` of two instances in one state space, which
  `ReadingPlacesFields` proves for either order.
* Expressions of more than three operands, or with brackets within brackets, which
  are neither checked nor proved.

## 5. Not modelled

Left out of the modelled components: bit fields of char or enum type and data
that are negative, endian values other than '<' and '>', pointers to structures
and to pointers (the targets are plain values), structures nested more than one
deep and bit fields in `StructObjects`; of the token parser, pointers to or
bit fields of a name without a type, constants that are no numbers, and enums of
a structure without a length. Arrays of structures up to a terminator are read by
neither reader, both of which raise an error, and are no types of `StructRead`. A
`show` prints.

Not modelled at all: the regular expressions of the scanner and of the legacy
parser (what they match is an input; some texts they pass over in silence, such
as a structure on the line after a `#define`), the text of generated code, the layout
of a dump and of the output of `dumpstruct`, the conversion to ctypes, and the
scripts in `examples/`.

What could be proved next: the types of `Arrays` and `Expression`; and `BracketsAreExact`
for any text with balanced brackets, by induction on its length, where what
`evaluate` returns has to be defined by the tree of the brackets first.

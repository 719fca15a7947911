------------------------------ MODULE DumpProofs ------------------------------
(***************************************************************************)
(* Theorems about dumps (StructObjects): the bytes of a dump are those the *)
(* instance was read from, but for the members that were set, and a dump   *)
(* is refused only where the writers do not find what the readers put.     *)
(***************************************************************************)
EXTENDS ObjectsProofs

-----------------------------------------------------------------------------
(* Places *)

\* Where fields of the structure and of the nested one begin
PlaceOf(k) == Place(types["outer"], InnerLength, k)

PlaceIn(j) == Place(types["inner"], InnerLength, j)

\* A field more moves no field before it.
LEMMA PlaceKept ==
    ASSUME NEW type, IsType(type), NEW longer, IsType(longer), NEW inner \in Nat,
           longer.union = type.union, Len(type.fields) <= Len(longer.fields),
           \A k \in 1 .. Len(type.fields) : longer.fields[k] = type.fields[k],
           NEW k \in 1 .. Len(type.fields)
    PROVE  Place(longer, inner, k) = Place(type, inner, k)
  <1>1. CASE type.union
    BY <1>1 DEF Place
  <1>2. CASE ~type.union
    <2>1. PICK g : g = EndsOf(type, inner)
      OBVIOUS
    <2>2. PICK h : h = EndsOf(longer, inner)
      OBVIOUS
    <2>3. Ends(g, type, inner) /\ Ends(h, longer, inner)
      BY <1>2, <2>1, <2>2, EndsOfIs
    <2>4. Len(type.fields) \in Nat /\ Len(longer.fields) \in Nat
      BY DEF IsType
    <2>5. Ends(h, type, inner)
      <3>1. \A i \in 1 .. Len(type.fields) : i \in 1 .. Len(longer.fields)
        BY <2>4
      <3> QED BY <2>3, <3>1 DEF Ends
    <2>6. h[k - 1] = g[k - 1]
      <3>1. k - 1 \in 0 .. Len(type.fields)
        BY <2>4
      <3> QED BY <2>3, <2>5, <3>1, EndsUnique
    <2> QED BY <1>2, <2>1, <2>2, <2>6 DEF Place
  <1> QED BY <1>1, <1>2

\* Two fields of a structure have no byte in common, and none outside it.
LEMMA FieldsApart ==
    ASSUME NEW type, IsType(type), ~type.union, NEW inner \in Nat, Packed(type, inner),
           NEW j \in 1 .. Len(type.fields)
    PROVE  /\ Place(type, inner, j) \in Nat
           /\ Place(type, inner, j) + SizeOf(type.fields[j].type, inner)
                <= SizeOfFields(type, inner)
           /\ \A k \in 1 .. Len(type.fields) :
                 \/ k = j
                 \/ Place(type, inner, k) + SizeOf(type.fields[k].type, inner)
                      <= Place(type, inner, j)
                 \/ Place(type, inner, j) + SizeOf(type.fields[j].type, inner)
                      <= Place(type, inner, k)
  <1>1. PICK g : g = EndsOf(type, inner)
    OBVIOUS
  <1>2. /\ \A k \in 0 .. Len(type.fields) : g[k] \in Nat
        /\ \A k \in 1 .. Len(type.fields) : g[k] = g[k - 1] + SizeOf(type.fields[k].type, inner)
        /\ SizeOfFields(type, inner) = g[Len(type.fields)]
    BY <1>1, PackedEnds
  <1>3. \A i, k \in 0 .. Len(type.fields) : i <= k => g[i] <= g[k]
    BY <1>1, EndsOfIs, EndsAscend
  <1>4. Len(type.fields) \in Nat
    BY DEF IsType
  <1>5. \A k \in 1 .. Len(type.fields) : Place(type, inner, k) = g[k - 1]
    BY <1>1 DEF Place
  <1>6. \A k \in 1 .. Len(type.fields) : k - 1 \in 0 .. Len(type.fields)
                                         /\ k \in 0 .. Len(type.fields)
    BY <1>4
  <1>7. Len(type.fields) \in 0 .. Len(type.fields)
    BY <1>4
  <1>8. g[j] <= g[Len(type.fields)]
    BY <1>3, <1>4, <1>6, <1>7
  <1>9. ASSUME NEW k \in 1 .. Len(type.fields), k # j
        PROVE  g[k] <= g[j - 1] \/ g[j] <= g[k - 1]
    <2>1. k <= j - 1 \/ j <= k - 1
      BY <1>4, <1>9
    <2> QED BY <1>3, <1>6, <2>1
  <1> QED BY <1>2, <1>5, <1>6, <1>8, <1>9

\* The types of a step: a field more, or those that were
LEMMA StepTypes ==
    ASSUME TypesInv, LengthInv, [ObjectsNext]_objectVars
    PROVE  AddField \/ SameTypes
  <1>1. CASE \E asked : types' = Measured(asked) /\ added' = added
    BY <1>1, MeasuredSafe
  <1>2. CASE types' = types /\ added' = added
    BY <1>2 DEF SameTypes
  <1>3. CASE Read
    BY <1>1, <1>3 DEF Read
  <1>4. CASE Dump
    BY <1>1, <1>2, <1>4 DEF Dump
  <1>5. CASE Measure
    BY <1>1, <1>5 DEF Measure
  <1>6. CASE MakeDefault \/ SetMember \/ SetNested \/ SetAnonymous \/ Seek \/ FollowNull \/ Follow
    BY <1>2, <1>6 DEF MakeDefault, SetMember, SetNested, SetAnonymous, Seek, FollowNull, Follow
  <1>7. CASE UNCHANGED objectVars
    BY <1>2, <1>7 DEF objectVars
  <1> QED BY <1>3, <1>4, <1>5, <1>6, <1>7 DEF ObjectsNext

\* A type to which no offset was added had none before, and what has no more fields
\* is as long as it was.
LEMMA StillPlain ==
    ASSUME TypesInv, LengthInv, OffsetsInv, TypesInv', LengthInv', AddField \/ SameTypes,
           Plain', added'["inner"] = 0
    PROVE  /\ Plain /\ added["inner"] = 0
           /\ types'["inner"].fields = types["inner"].fields
           /\ InnerLength' = InnerLength
  <1>1. types'["inner"].fields = types["inner"].fields /\ Plain /\ added["inner"] = 0
    <2>1. CASE SameTypes
      BY <2>1 DEF SameTypes, Plain, Objects
    <2>2. CASE AddField
      <3>1. PICK o \in Objects, t \in AddedTypes, offset \in Offsets :
               /\ types' = [types EXCEPT ![o] =
                               Extended(@, Field(<<o, Len(@.fields) + 1>>, t, offset))]
               /\ added' = [added EXCEPT ![o] = @ + 1]
        BY <2>2 DEF AddField
      <3>2. PICK f : f = Field(<<o, Len(types[o].fields) + 1>>, t, offset)
        OBVIOUS
      <3>3. \A p \in Objects : /\ types[p].fields \in Seq(Fields)
                               /\ Len(types[p].fields) \in Nat
                               /\ DOMAIN types[p].fields = 1 .. Len(types[p].fields)
                               /\ added[p] \in Nat
        BY DEF TypesInv, Types
      <3>4. types'[o].fields = Append(types[o].fields, f)
        BY <3>1, <3>2 DEF TypesInv, Types, Extended
      <3>5. \A p \in Objects : p # o => types'[p] = types[p] /\ added'[p] = added[p]
        BY <3>1 DEF TypesInv
      <3>6. added'[o] = added[o] + 1
        BY <3>1 DEF TypesInv
      <3>7. o # "inner"
        <4>1. added[o] \in Nat
          BY <3>3
        <4> QED BY <3>6, <4>1
      <3>8. types'["inner"] = types["inner"] /\ added["inner"] = 0
        BY <3>5, <3>7 DEF Objects
      <3>9. ASSUME NEW p \in Objects, NEW k \in DOMAIN types[p].fields,
                   k > Len(types[p].fields) - added[p]
            PROVE  types[p].fields[k].offset = NoOffset
        <4>1. CASE p # o
          BY <3>5, <3>9, <4>1 DEF Plain
        <4>2. CASE p = o
          <5>1. PICK fields \in Seq(Fields) : fields = types[o].fields
            BY <3>3
          <5>2. /\ Len(Append(fields, f)) = Len(fields) + 1 /\ Len(fields) \in Nat
                /\ DOMAIN Append(fields, f) = 1 .. Len(fields) + 1
                /\ DOMAIN fields = 1 .. Len(fields)
                /\ \A i \in 1 .. Len(fields) : Append(fields, f)[i] = fields[i]
            BY <5>1
          <5>3. k \in DOMAIN Append(fields, f) /\ Append(fields, f)[k] = fields[k]
                /\ k \in Nat
            BY <4>2, <5>1, <5>2
          <5>4. added[o] \in Nat /\ k > Len(fields) - added[o]
            BY <3>3, <3>9, <4>2, <5>1
          <5>5. Len(Append(fields, f)) - added'[o] = Len(fields) - added[o]
            BY <3>6, <5>2, <5>4
          <5> QED BY <3>4, <4>2, <5>1, <5>3, <5>4, <5>5 DEF Plain
        <4> QED BY <4>1, <4>2
      <3> QED BY <3>8, <3>9 DEF Plain
    <2> QED BY <2>1, <2>2
  <1>2. InnerLength' = InnerLength
    <2>1. (InnerLength = SizeOfFields(types["inner"], 0))'
      <3>1. InnerLengthInv'
        BY DEF LengthInv
      <3> QED BY <3>1, InnerLengthIs, PTL
    <2>2. InnerLength = SizeOfFields(types["inner"], 0)
      BY InnerLengthIs DEF LengthInv
    <2>3. types'["inner"].union = types["inner"].union
      <3>1. CASE SameTypes
        BY <3>1 DEF SameTypes, Objects
      <3>2. CASE AddField
        BY <3>2, AddedSafe DEF MoreTypes, Objects
      <3> QED BY <3>1, <3>2
    <2>4. PICK a : a = types["inner"]
      OBVIOUS
    <2>5. PICK b : b = types'["inner"]
      OBVIOUS
    <2>6. SizeOfFields(b, 0) = SizeOfFields(a, 0)
      <3>1. b.union = a.union /\ b.fields = a.fields
        BY <1>1, <2>3, <2>4, <2>5
      <3> QED BY <3>1, SameSize
    <2> QED BY <2>1, <2>2, <2>4, <2>5, <2>6
  <1> QED BY <1>1, <1>2

-----------------------------------------------------------------------------
(* What is read and what was set since *)

\* Each byte of v is that of the stream after position p, or New if that one was replaced.
OverlayAt(v, p, set) ==
    \A i \in 1 .. Len(v.bytes) : v.bytes[i] = IF p + i \in set THEN New ELSE p + i

\* The members of a nested structure that begins after position p
MembersOverlay(values, p, set) ==
    \A j \in 1 .. Len(types["inner"].fields) :
       <<"inner", j>> \in DOMAIN values => OverlayAt(values[<<"inner", j>>], p + PlaceIn(j), set)

FieldOverlay(inst, k, set) ==
    IF types["outer"].fields[k].type = "inner" /\ Anonymous
    THEN MembersOverlay(inst.values, inst.start + PlaceOf(k), set)
    ELSE <<"outer", k>> \in DOMAIN inst.values =>
           IF types["outer"].fields[k].type = "inner"
           THEN MembersOverlay(inst.values[<<"outer", k>>].members, inst.start + PlaceOf(k), set)
           ELSE OverlayAt(inst.values[<<"outer", k>>], inst.start + PlaceOf(k), set)

\* No offset was added, the nested type is as it was defined, and no member of a union
\* was set, nor one that had not been read.
Kept(set) == Plain /\ added["inner"] = 0 /\ New \notin set /\ (NoUnions \/ set = {})

\* An instance that was read has the members of an anonymous structure among its own;
\* what its fields have is what was read and set.
ReadOverlay(inst, set) ==
    inst.made = "read" =>
       /\ \A k \in 1 .. Len(types["outer"].fields) :
             types["outer"].fields[k].type = "inner" /\ Anonymous =>
                <<"outer", k>> \notin DOMAIN inst.values
       /\ \A j \in Nat : <<"inner", j>> \in DOMAIN inst.values => Anonymous /\ UsesInner
       /\ Kept(set) => \A k \in 1 .. Len(types["outer"].fields) : FieldOverlay(inst, k, set)

\* What is replaced elsewhere changes nothing here.
LEMMA OverlayElsewhere ==
    ASSUME NEW v, NEW p \in Nat, NEW set, NEW lost, NEW n \in Nat, Len(v.bytes) = n,
           OverlayAt(v, p, set), \A i \in 1 .. n : p + i \notin lost
    PROVE  OverlayAt(v, p, set \cup lost)
  <1> QED BY DEF OverlayAt

\* What a member loses when it is set is what lies where it was read.
LEMMA OverlaySet ==
    ASSUME NEW t \in {"byte", "short"}, NEW old, IsLeaf(old, t), NEW p \in Nat, NEW set,
           New \notin set, OverlayAt(old, p, set),
           NEW lost, lost = ToSet(old.bytes) \ {New}, NEW v, v = NewLeaf(t)
    PROVE  /\ OverlayAt(v, p, set \cup lost)
           /\ lost \subseteq p + 1 .. p + TypeSizes[t]
           /\ set = {} => lost # {}
  <1>1. t \in LeafTypes /\ TypeSizes[t] \in Nat /\ TypeSizes[t] > 0
    BY LeafSizes
  <1>2. Len(old.bytes) = TypeSizes[t] /\ old.bytes \in Seq(ObjectBytes)
    BY DEF IsLeaf
  <1>3. ToSet(old.bytes) = {old.bytes[i] : i \in 1 .. TypeSizes[t]}
    BY <1>2 DEF ToSet
  <1>4. \A i \in 1 .. TypeSizes[t] : p + i \in Nat /\ p + i # New
    <2>1. New \notin Nat
      BY ObjectsAssumption
    <2>2. \A i \in 1 .. TypeSizes[t] : p + i \in Nat
      BY <1>1
    <2> QED BY <2>1, <2>2
  <1>5. \A i \in 1 .. TypeSizes[t] : old.bytes[i] = IF p + i \in set THEN New ELSE p + i
    BY <1>2 DEF OverlayAt
  <1>6. \A i \in 1 .. TypeSizes[t] : p + i \in set \cup lost
    BY <1>3, <1>4, <1>5
  <1>7. Len(v.bytes) = TypeSizes[t] /\ \A i \in 1 .. TypeSizes[t] : v.bytes[i] = New
    <2>1. PICK bytes : bytes = [i \in 1 .. TypeSizes[t] |-> New]
      OBVIOUS
    <2>2. bytes \in [1 .. TypeSizes[t] -> {New}] /\ v = Leaf(bytes)
      BY <2>1 DEF NewLeaf
    <2>3. IsLeaf(v, t) /\ \A i \in 1 .. Len(v.bytes) : v.bytes[i] = New
      BY <1>1, <2>2, Zero, LeafOf
    <2> QED BY <2>3 DEF IsLeaf
  <1>8. OverlayAt(v, p, set \cup lost)
    BY <1>6, <1>7 DEF OverlayAt
  <1>9. lost \subseteq p + 1 .. p + TypeSizes[t]
    <2>1. \A i \in 1 .. TypeSizes[t] : p + i \in p + 1 .. p + TypeSizes[t]
      BY <1>1
    <2> QED BY <1>3, <1>5, <2>1
  <1>10. set = {} => lost # {}
    <2>1. 1 \in 1 .. TypeSizes[t]
      BY <1>1
    <2> QED BY <1>3, <1>4, <1>5, <2>1
  <1> QED BY <1>8, <1>9, <1>10

\* The fields of a type, one by one
LEMMA FieldsAre ==
    ASSUME TypesInv, NEW o \in Objects
    PROVE  FieldsOf(o) = {types[o].fields[k] : k \in 1 .. Len(types[o].fields)}
  <1>1. PICK fields \in Seq(Fields) : fields = types[o].fields
    BY DEF TypesInv, Types
  <1>2. ToSet(fields) = {fields[k] : k \in 1 .. Len(fields)}
    BY <1>1 DEF ToSet
  <1> QED BY <1>1, <1>2 DEF FieldsOf

\* The nested type is used by a field.
LEMMA UsesIs ==
    ASSUME TypesInv
    PROVE  UsesInner <=> \E k \in 1 .. Len(types["outer"].fields) :
                            types["outer"].fields[k].type = "inner"
  <1>1. FieldsOf("outer") = {types["outer"].fields[i] : i \in 1 .. Len(types["outer"].fields)}
    BY FieldsAre DEF Objects
  <1> QED BY <1>1 DEF UsesInner

\* What an instance has right after it was read
LEMMA ReadGives ==
    ASSUME TypesInv, LengthInv, OffsetsInv, OneInner, NEW start \in Nat,
           NEW r, r = ReadOuter(start), r.ok,
           NEW inst, inst = [made |-> "read", start |-> start, values |-> r.values]
    PROVE  ReadOverlay(inst, {})
  <1> DEFINE n == Len(types["outer"].fields)
             t(k) == types["outer"].fields[k].type
  <1>1. PICK exact \in BOOLEAN : exact = (Plain /\ added["inner"] = 0)
    OBVIOUS
  <1>2. PICK values : values = r.values
    OBVIOUS
  <1>3. inst.made = "read" /\ inst.start = start /\ inst.values = values
    BY <1>2
  <1>4. InstanceAt(values, start, exact)
    <2>1. exact => InPlace(types["inner"], InnerLength) /\ InPlace(types["outer"], InnerLength)
      BY <1>1, PlainIsPacked DEF Objects
    <2> QED BY <1>2, <2>1, OuterReads
  <1>5. ASSUME NEW k \in 1 .. n, <<"outer", k>> \in DOMAIN values
        PROVE  \E p \in Nat : /\ exact => p = start + PlaceOf(k)
                              /\ GivesAt(values[<<"outer", k>>], k, <<"outer", k>>, start, p, exact)
    <2>1. PICK m : m = <<"outer", k>>
      OBVIOUS
    <2>2. PICK i \in 1 .. n, p \in Nat :
               /\ exact => p = start + Place(types["outer"], InnerLength, i)
               /\ GivesAt(values[m], i, m, start, p, exact)
      BY <1>4, <1>5, <2>1 DEF InstanceAt
    <2>3. Gives(i, m)
      BY <2>2 DEF GivesAt
    <2>4. i = k
      BY <2>1, <2>3 DEF Gives
    <2> QED BY <2>1, <2>2, <2>4 DEF PlaceOf
  <1>6. ASSUME NEW j, <<"inner", j>> \in DOMAIN values
        PROVE  /\ Anonymous /\ UsesInner
               /\ j \in 1 .. Len(types["inner"].fields)
               /\ \A k \in 1 .. n : t(k) = "inner" =>
                    \E p \in Nat : /\ exact => p = start + PlaceOf(k)
                                   /\ InnerAt(values[<<"inner", j>>], j, start, p, exact)
    <2>1. PICK m : m = <<"inner", j>>
      OBVIOUS
    <2>2. PICK i \in 1 .. n, p \in Nat :
               /\ exact => p = start + Place(types["outer"], InnerLength, i)
               /\ GivesAt(values[m], i, m, start, p, exact)
      BY <1>4, <1>6, <2>1 DEF InstanceAt
    <2>3. Gives(i, m)
      BY <2>2 DEF GivesAt
    <2>4. t(i) = "inner" /\ Anonymous /\ j \in 1 .. Len(types["inner"].fields)
      BY <2>1, <2>3 DEF Gives
    <2>5. UsesInner
      BY <2>4, UsesIs
    <2>6. InnerAt(values[m], j, start, p, exact)
      BY <2>1, <2>2, <2>4 DEF GivesAt
    <2>7. \A k \in 1 .. n : t(k) = "inner" => k = i
      BY <2>4 DEF OneInner
    <2> QED BY <2>1, <2>2, <2>4, <2>5, <2>6, <2>7 DEF PlaceOf
  <1>7. ASSUME NEW v, NEW p, ReadAt(v, p) PROVE OverlayAt(v, p, {})
    BY <1>7 DEF ReadAt, OverlayAt
  <1>8. ASSUME NEW k \in 1 .. n, exact PROVE FieldOverlay(inst, k, {})
    <2>1. CASE t(k) = "inner" /\ Anonymous
      <3>1. ASSUME NEW j \in 1 .. Len(types["inner"].fields), <<"inner", j>> \in DOMAIN values
            PROVE  OverlayAt(values[<<"inner", j>>], start + PlaceOf(k) + PlaceIn(j), {})
        <4>1. InnerAt(values[<<"inner", j>>], j, start, start + PlaceOf(k), exact)
          BY <1>6, <1>8, <2>1, <3>1
        <4> QED BY <1>7, <1>8, <4>1 DEF InnerAt, PlaceIn
      <3> QED BY <1>3, <2>1, <3>1 DEF FieldOverlay, MembersOverlay
    <2>2. CASE ~(t(k) = "inner" /\ Anonymous) /\ <<"outer", k>> \in DOMAIN values
      <3>1. PICK v : v = values[<<"outer", k>>]
        OBVIOUS
      <3>2. GivesAt(v, k, <<"outer", k>>, start, start + PlaceOf(k), exact)
        BY <1>5, <1>8, <2>2, <3>1
      <3>3. CASE t(k) # "inner"
        <4>1. LeafAt(v, k, start, start + PlaceOf(k), exact)
          BY <3>2, <3>3 DEF GivesAt
        <4>2. OverlayAt(v, start + PlaceOf(k), {})
          BY <1>7, <1>8, <4>1 DEF LeafAt
        <4> QED BY <1>3, <3>1, <3>3, <4>2 DEF FieldOverlay
      <3>4. CASE t(k) = "inner"
        <4>1. NestedAt(v, start, start + PlaceOf(k), exact)
          BY <2>2, <3>2, <3>4 DEF GivesAt
        <4>2. ASSUME NEW j \in 1 .. Len(types["inner"].fields), <<"inner", j>> \in DOMAIN v.members
              PROVE  OverlayAt(v.members[<<"inner", j>>], start + PlaceOf(k) + PlaceIn(j), {})
          <5>1. InnerAt(v.members[<<"inner", j>>], j, start, start + PlaceOf(k), exact)
            BY <4>1, <4>2 DEF NestedAt
          <5> QED BY <1>7, <1>8, <5>1 DEF InnerAt, PlaceIn
        <4> QED BY <1>3, <2>2, <3>1, <3>4, <4>2 DEF FieldOverlay, MembersOverlay
      <3> QED BY <3>3, <3>4
    <2>3. CASE ~(t(k) = "inner" /\ Anonymous) /\ <<"outer", k>> \notin DOMAIN values
      BY <1>3, <2>3 DEF FieldOverlay
    <2> QED BY <2>1, <2>2, <2>3
  <1>9. ASSUME NEW k \in 1 .. n, t(k) = "inner", Anonymous
        PROVE  <<"outer", k>> \notin DOMAIN values
    BY <1>5, <1>9 DEF GivesAt, Gives
  <1>10. Kept({}) => exact
    BY <1>1 DEF Kept
  <1> QED BY <1>3, <1>6, <1>8, <1>9, <1>10 DEF ReadOverlay

\* Where a field is, without offsets that lead elsewhere
LEMMA PlacesAre ==
    ASSUME TypesInv, LengthInv, OffsetsInv, Plain, NEW o \in Objects,
           NEW j \in 1 .. Len(types[o].fields)
    PROVE  /\ Place(types[o], InnerLength, j) \in Nat
           /\ SizeOf(types[o].fields[j].type, InnerLength) \in Nat
           /\ ~types[o].union =>
                /\ Place(types[o], InnerLength, j) + SizeOf(types[o].fields[j].type, InnerLength)
                     <= SizeOfFields(types[o], InnerLength)
                /\ \A k \in 1 .. Len(types[o].fields) :
                      \/ k = j
                      \/ Place(types[o], InnerLength, k)
                           + SizeOf(types[o].fields[k].type, InnerLength)
                           <= Place(types[o], InnerLength, j)
                      \/ Place(types[o], InnerLength, j)
                           + SizeOf(types[o].fields[j].type, InnerLength)
                           <= Place(types[o], InnerLength, k)
  <1>1. PICK type : type = types[o]
    OBVIOUS
  <1>2. PICK inner \in Nat : inner = InnerLength
    BY InnerLengthIs DEF LengthInv
  <1>3. IsType(type) /\ Packed(type, inner)
    BY <1>1, <1>2, TypeIsType, PlainIsPacked
  <1>4. SizeOf(type.fields[j].type, inner) \in Nat
    <2>1. type.fields[j] \in Fields
      BY <1>1, <1>3 DEF IsType
    <2> QED BY <2>1, SizeOfType DEF Fields
  <1>5. CASE type.union
    BY <1>1, <1>2, <1>4, <1>5 DEF Place
  <1>6. CASE ~type.union
    BY <1>1, <1>2, <1>3, <1>4, <1>6, FieldsApart
  <1> QED BY <1>5, <1>6

\* The members of a nested structure, when what is replaced is not in it
LEMMA MembersElsewhere ==
    ASSUME TypesInv, LengthInv, OffsetsInv, Plain, NoUnions,
           NEW old, HasLeaves("inner", old), NEW p \in Nat, NEW set, MembersOverlay(old, p, set),
           NEW values, \A j \in 1 .. Len(types["inner"].fields) :
                          <<"inner", j>> \in DOMAIN values =>
                             /\ <<"inner", j>> \in DOMAIN old
                             /\ values[<<"inner", j>>] = old[<<"inner", j>>],
           NEW lost, \A i \in 1 .. InnerLength : p + i \notin lost
    PROVE  MembersOverlay(values, p, set \cup lost)
  <1>1. ASSUME NEW j \in 1 .. Len(types["inner"].fields), <<"inner", j>> \in DOMAIN values
        PROVE  OverlayAt(values[<<"inner", j>>], p + PlaceIn(j), set \cup lost)
    <2>1. PICK v : v = old[<<"inner", j>>]
      OBVIOUS
    <2>2. PICK t : t = types["inner"].fields[j].type
      OBVIOUS
    <2>3. <<"inner", j>> \in DOMAIN old /\ values[<<"inner", j>>] = v
      BY <1>1, <2>1
    <2>4. OverlayAt(v, p + PlaceIn(j), set)
      BY <2>1, <2>3 DEF MembersOverlay
    <2>5. t # "inner"
      BY <2>2 DEF TypesInv
    <2>6. SizeOf(t, InnerLength) = TypeSizes[t]
      BY <2>5 DEF SizeOf
    <2>7. Len(v.bytes) = TypeSizes[t]
      BY <2>1, <2>2, <2>3, <2>5 DEF HasLeaves, IsLeaf
    <2>8. /\ PlaceIn(j) \in Nat /\ SizeOf(t, InnerLength) \in Nat
          /\ PlaceIn(j) + SizeOf(t, InnerLength) <= SizeOfFields(types["inner"], InnerLength)
      BY <2>2, PlacesAre DEF NoUnions, Objects, PlaceIn
    <2>9. SizeOfFields(types["inner"], InnerLength) = InnerLength /\ InnerLength \in Nat
      BY InnerLengthIs DEF LengthInv, CalcSize
    <2>10. PICK n \in Nat : n = TypeSizes[t]
      BY <2>6, <2>8
    <2>11. PICK q \in Nat : q = p + PlaceIn(j)
      BY <2>8
    <2>12. ASSUME NEW i \in 1 .. n PROVE q + i \notin lost
      <3>1. PlaceIn(j) + i \in 1 .. InnerLength /\ q + i = p + (PlaceIn(j) + i)
        BY <2>6, <2>8, <2>9, <2>10, <2>11
      <3> QED BY <3>1
    <2>13. OverlayAt(v, q, set \cup lost)
      BY <2>4, <2>7, <2>10, <2>11, <2>12, OverlayElsewhere
    <2> QED BY <2>3, <2>11, <2>13
  <1> QED BY <1>1 DEF MembersOverlay

\* A field, when what is replaced is not in it
LEMMA FieldElsewhere ==
    ASSUME TypesInv, LengthInv, OffsetsInv, Plain, NoUnions,
           NEW a, IsInstance(a), a.start \in Nat, NEW set,
           NEW k \in 1 .. Len(types["outer"].fields), FieldOverlay(a, k, set),
           NEW b, b.start = a.start,
           \A j, n : /\ n \in {<<"outer", k>>, <<"inner", j>>}
                     /\ n \in DOMAIN b.values
                     => n \in DOMAIN a.values /\ b.values[n] = a.values[n],
           NEW lost, \A i \in 1 .. SizeOf(types["outer"].fields[k].type, InnerLength) :
                        a.start + PlaceOf(k) + i \notin lost
    PROVE  FieldOverlay(b, k, set \cup lost)
  <1>1. PICK t : t = types["outer"].fields[k].type
    OBVIOUS
  <1>2. PICK p \in Nat : p = a.start + PlaceOf(k)
    <2>1. PlaceOf(k) \in Nat
      BY PlacesAre DEF PlaceOf, Objects
    <2> QED BY <2>1
  <1>3. SizeOf(t, InnerLength) \in Nat
    BY <1>1, PlacesAre DEF Objects
  <1>4. PICK old : old = a.values
    OBVIOUS
  <1>5. PICK values : values = b.values
    OBVIOUS
  <1>6. \A j, n : n \in {<<"outer", k>>, <<"inner", j>>} /\ n \in DOMAIN values =>
                    n \in DOMAIN old /\ values[n] = old[n]
    BY <1>4, <1>5
  <1>7. CASE t = "inner" /\ Anonymous
    <2>1. SizeOf(t, InnerLength) = InnerLength
      BY <1>7 DEF SizeOf
    <2>2. HasLeaves("inner", old)
      BY <1>4, InstanceHas
    <2>3. MembersOverlay(old, p, set)
      BY <1>1, <1>2, <1>4, <1>7 DEF FieldOverlay
    <2>4. MembersOverlay(values, p, set \cup lost)
      <3>1. \A j \in 1 .. Len(types["inner"].fields) :
                          <<"inner", j>> \in DOMAIN values =>
                             /\ <<"inner", j>> \in DOMAIN old
                             /\ values[<<"inner", j>>] = old[<<"inner", j>>]
        BY <1>6
      <3>2. \A i \in 1 .. InnerLength : p + i \notin lost
        BY <1>1, <1>2, <2>1
      <3> QED BY <2>2, <2>3, <3>1, <3>2, MembersElsewhere
    <2> QED BY <1>1, <1>2, <1>5, <1>7, <2>4 DEF FieldOverlay
  <1>8. CASE ~(t = "inner" /\ Anonymous) /\ <<"outer", k>> \in DOMAIN values
    <2>1. PICK v : v = old[<<"outer", k>>]
      OBVIOUS
    <2>2. <<"outer", k>> \in DOMAIN old /\ values[<<"outer", k>>] = v
      BY <1>6, <1>8, <2>1
    <2>3. CASE t = "inner"
      <3>1. PICK members : members = v.members
        OBVIOUS
      <3>2. HasLeaves("inner", members)
        BY <1>1, <1>4, <2>1, <2>2, <2>3, <3>1, InstanceHas
      <3>3. MembersOverlay(members, p, set)
        BY <1>1, <1>2, <1>4, <1>8, <2>1, <2>2, <2>3, <3>1 DEF FieldOverlay
      <3>4. SizeOf(t, InnerLength) = InnerLength
        BY <2>3 DEF SizeOf
      <3>5. \A i \in 1 .. InnerLength : p + i \notin lost
        BY <1>1, <1>2, <3>4
      <3>6. MembersOverlay(members, p, set \cup lost)
        BY <3>2, <3>3, <3>5, MembersElsewhere
      <3> QED BY <1>1, <1>2, <1>5, <1>8, <2>2, <2>3, <3>1, <3>6 DEF FieldOverlay
    <2>4. CASE t # "inner"
      <3>1. Len(v.bytes) = TypeSizes[t]
        BY <1>1, <1>4, <2>1, <2>2, <2>4, InstanceHas DEF HasLeaves, IsLeaf
      <3>2. SizeOf(t, InnerLength) = TypeSizes[t]
        BY <2>4 DEF SizeOf
      <3>3. PICK n \in Nat : n = TypeSizes[t]
        BY <1>3, <3>2
      <3>4. OverlayAt(v, p, set)
        BY <1>1, <1>2, <1>4, <2>1, <2>2, <2>4 DEF FieldOverlay
      <3>5. \A i \in 1 .. n : p + i \notin lost
        BY <1>1, <1>2, <3>2, <3>3
      <3>6. OverlayAt(v, p, set \cup lost)
        BY <3>1, <3>3, <3>4, <3>5, OverlayElsewhere
      <3> QED BY <1>1, <1>2, <1>5, <2>2, <2>4, <3>6 DEF FieldOverlay
    <2> QED BY <2>3, <2>4
  <1>9. CASE ~(t = "inner" /\ Anonymous) /\ <<"outer", k>> \notin DOMAIN values
    BY <1>1, <1>5, <1>9 DEF FieldOverlay
  <1> QED BY <1>7, <1>8, <1>9

\* Fields have no bytes in common.
LEMMA LostElsewhere ==
    ASSUME TypesInv, LengthInv, OffsetsInv, Plain, NoUnions,
           NEW start \in Nat, NEW k \in 1 .. Len(types["outer"].fields),
           NEW i \in 1 .. Len(types["outer"].fields), i # k,
           NEW lost, lost \subseteq start + PlaceOf(k) + 1
                       .. start + PlaceOf(k) + SizeOf(types["outer"].fields[k].type, InnerLength)
    PROVE  \A x \in 1 .. SizeOf(types["outer"].fields[i].type, InnerLength) :
              start + PlaceOf(i) + x \notin lost
  <1>1. PICK a \in Nat, b \in Nat :
           a = PlaceOf(k) /\ b = SizeOf(types["outer"].fields[k].type, InnerLength)
    BY PlacesAre DEF PlaceOf, Objects
  <1>2. PICK c \in Nat, d \in Nat :
           c = PlaceOf(i) /\ d = SizeOf(types["outer"].fields[i].type, InnerLength)
    BY PlacesAre DEF PlaceOf, Objects
  <1>3. a + b <= c \/ c + d <= a
    BY <1>1, <1>2, PlacesAre DEF PlaceOf, Objects, NoUnions
  <1>4. lost \subseteq start + a + 1 .. start + a + b
    BY <1>1
  <1>5. \A x \in 1 .. d : start + c + x \notin start + a + 1 .. start + a + b
    BY <1>3
  <1> QED BY <1>2, <1>4, <1>5

\* A member that is set replaces what was read there, and nothing else.
LEMMA MemberOverlay ==
    ASSUME TypesInv, LengthInv, OffsetsInv, IsInstance(instance),
           ReadOverlay(instance, replaced), SetMember,
           NEW b, b = instance', NEW new, new = replaced'
    PROVE  ReadOverlay(b, new)
  <1>1. PICK f \in FieldsOf("outer") :
           /\ f.type \in {"byte", "short"}
           /\ b = [instance EXCEPT !.values = Over(Only(f.name, NewLeaf(f.type)), @)]
           /\ new = replaced \cup Lost(instance.values, f.name)
    BY DEF SetMember
  <1>2. PICK k \in 1 .. Len(types["outer"].fields) : f = types["outer"].fields[k]
    BY FieldsAre DEF Objects
  <1>3. f.name = <<"outer", k>>
    BY <1>2 DEF TypesInv, Objects
  <1>4. PICK a : a = instance
    OBVIOUS
  <1>5. PICK v : v = NewLeaf(f.type)
    OBVIOUS
  <1>6. PICK g : g = Only(f.name, v)
    OBVIOUS
  <1>7. DOMAIN g = {f.name} /\ g[f.name] = v
    BY <1>6 DEF Only
  <1>8. PICK h : h = a.values
    OBVIOUS
  <1>9. PICK values : values = Over(g, h)
    OBVIOUS
  <1>10. PICK set : set = replaced
    OBVIOUS
  <1>11. PICK lost : lost = Lost(h, f.name)
    OBVIOUS
  <1>12. /\ b = [a EXCEPT !.values = values] /\ new = set \cup lost
         /\ IsInstance(a) /\ ReadOverlay(a, set)
    BY <1>1, <1>4, <1>5, <1>6, <1>8, <1>9, <1>10, <1>11
  <1>13. b.made = a.made /\ b.start = a.start /\ b.values = values
    <2>1. a = [made |-> a.made, start |-> a.start, values |-> a.values]
      BY <1>12 DEF IsInstance
    <2> QED BY <1>12, <2>1
  <1>14. /\ DOMAIN values = {f.name} \cup DOMAIN h
         /\ values[f.name] = v
         /\ \A m \in DOMAIN h : m # f.name => values[m] = h[m]
    BY <1>7, <1>9 DEF Over
  <1>15. ASSUME a.made = "read", Kept(new), NEW i \in 1 .. Len(types["outer"].fields)
         PROVE  FieldOverlay(b, i, new)
    <2>1. f.name \in DOMAIN h
      <3>1. CASE f.name \notin DOMAIN h
        BY <1>11, <1>12, <1>15, <3>1 DEF Lost, Kept
      <3> QED BY <3>1
    <2>2. PICK old : old = h[f.name]
      OBVIOUS
    <2>3. lost = ToSet(old.bytes) \ {New}
      BY <1>11, <2>1, <2>2 DEF Lost
    <2>4. Kept(set) /\ Plain
      BY <1>12, <1>15 DEF Kept
    <2>5. a.start \in Nat
      BY <1>12, <1>15 DEF IsInstance
    <2>6. PlaceOf(k) \in Nat
      BY <2>4, PlacesAre DEF PlaceOf, Objects
    <2>7. PICK p \in Nat : p = a.start + PlaceOf(k)
      BY <2>5, <2>6
    <2>8. IsLeaf(old, f.type)
      BY <1>1, <1>2, <1>3, <1>8, <1>12, <2>1, <2>2, InstanceHas DEF HasLeaves
    <2>9. OverlayAt(old, p, set)
      <3>1. FieldOverlay(a, k, set)
        BY <1>12, <1>15, <2>4 DEF ReadOverlay
      <3> QED BY <1>1, <1>2, <1>3, <1>8, <2>1, <2>2, <2>7, <3>1 DEF FieldOverlay
    <2>10. /\ OverlayAt(v, p, set \cup lost)
           /\ lost \subseteq p + 1 .. p + TypeSizes[f.type]
           /\ set = {} => lost # {}
      <3>1. New \notin set
        BY <2>4 DEF Kept
      <3> QED BY <1>1, <1>5, <2>3, <2>8, <2>9, <3>1, OverlaySet
    <2>11. NoUnions
      BY <1>12, <1>15, <2>10 DEF Kept
    <2>12. CASE i = k
      BY <1>1, <1>2, <1>3, <1>12, <1>13, <1>14, <2>7, <2>10, <2>12 DEF FieldOverlay
    <2>13. CASE i # k
      <3>1. FieldOverlay(a, i, set)
        BY <1>12, <1>15, <2>4 DEF ReadOverlay
      <3>2. \A j, n : n \in {<<"outer", i>>, <<"inner", j>>} /\ n \in DOMAIN b.values =>
               n \in DOMAIN a.values /\ b.values[n] = a.values[n]
        <4>1. \A j, n : n \in {<<"outer", i>>, <<"inner", j>>} => n # <<"outer", k>>
          BY <2>13
        <4> QED BY <1>3, <1>8, <1>13, <1>14, <4>1
      <3>3. SizeOf(types["outer"].fields[k].type, InnerLength) = TypeSizes[f.type]
        BY <1>1, <1>2 DEF SizeOf
      <3>4. \A x \in 1 .. SizeOf(types["outer"].fields[i].type, InnerLength) :
               a.start + PlaceOf(i) + x \notin lost
        BY <2>4, <2>5, <2>7, <2>10, <2>11, <2>13, <3>3, LostElsewhere
      <3>5. FieldOverlay(b, i, set \cup lost)
        BY <1>12, <1>13, <2>4, <2>5, <2>11, <3>1, <3>2, <3>4, FieldElsewhere
      <3> QED BY <1>12, <3>5
    <2> QED BY <2>12, <2>13
  <1>16. ASSUME a.made = "read", NEW i \in 1 .. Len(types["outer"].fields),
                types["outer"].fields[i].type = "inner", Anonymous
         PROVE  <<"outer", i>> \notin DOMAIN values
    <2>1. i # k
      BY <1>1, <1>2, <1>16
    <2> QED BY <1>3, <1>8, <1>12, <1>14, <1>16, <2>1 DEF ReadOverlay
  <1>17. ASSUME a.made = "read", NEW j \in Nat, <<"inner", j>> \in DOMAIN values
         PROVE  Anonymous /\ UsesInner
    BY <1>3, <1>8, <1>12, <1>14, <1>17 DEF ReadOverlay
  <1> QED BY <1>13, <1>15, <1>16, <1>17 DEF ReadOverlay

\* A member of a nested structure that is set replaces what was read there.
LEMMA NestedOverlay ==
    ASSUME TypesInv, LengthInv, OffsetsInv, OneInner, IsInstance(instance),
           ReadOverlay(instance, replaced), SetNested,
           NEW b, b = instance', NEW new, new = replaced'
    PROVE  ReadOverlay(b, new)
  <1>1. PICK n \in DOMAIN instance.values : \E f \in FieldsOf("inner") :
           /\ instance.values[n].kind = "nested"
           /\ f.type \in {"byte", "short"}
           /\ b = [instance EXCEPT !.values[n].members = Over(Only(f.name, NewLeaf(f.type)), @)]
           /\ new = replaced \cup Lost(instance.values[n].members, f.name)
    BY DEF SetNested
  <1>2. PICK f \in FieldsOf("inner") :
           /\ f.type \in {"byte", "short"}
           /\ b = [instance EXCEPT !.values[n].members = Over(Only(f.name, NewLeaf(f.type)), @)]
           /\ new = replaced \cup Lost(instance.values[n].members, f.name)
    BY <1>1
  <1>3. PICK j \in 1 .. Len(types["inner"].fields) : f = types["inner"].fields[j]
    BY FieldsAre DEF Objects
  <1>4. f.name = <<"inner", j>>
    BY <1>3 DEF TypesInv, Objects
  <1>5. PICK a : a = instance
    OBVIOUS
  <1>6. PICK v : v = NewLeaf(f.type)
    OBVIOUS
  <1>7. PICK g : g = Only(f.name, v)
    OBVIOUS
  <1>8. DOMAIN g = {f.name} /\ g[f.name] = v
    BY <1>7 DEF Only
  <1>9. n \in DOMAIN a.values /\ a.values[n].kind = "nested"
    BY <1>1, <1>5
  <1>10. PICK h : h = a.values[n].members
    OBVIOUS
  <1>11. PICK members : members = Over(g, h)
    OBVIOUS
  <1>12. PICK w : w = [a.values[n] EXCEPT !.members = members]
    OBVIOUS
  <1>13. PICK values : values = [a.values EXCEPT ![n] = w]
    OBVIOUS
  <1>14. PICK set : set = replaced
    OBVIOUS
  <1>15. PICK lost : lost = Lost(h, f.name)
    OBVIOUS
  <1>16. /\ b = [a EXCEPT !.values = values] /\ new = set \cup lost
         /\ IsInstance(a) /\ ReadOverlay(a, set)
    BY <1>2, <1>5, <1>6, <1>7, <1>10, <1>11, <1>12, <1>13, <1>14, <1>15
  <1>17. b.made = a.made /\ b.start = a.start /\ b.values = values
    <2>1. a = [made |-> a.made, start |-> a.start, values |-> a.values]
      BY <1>16 DEF IsInstance
    <2> QED BY <1>16, <2>1
  <1>18. PICK k \in 1 .. Len(types["outer"].fields) :
            n = <<"outer", k>> /\ types["outer"].fields[k].type = "inner" /\ IsNested(a, a.values[n])
    <2>1. \A x, t : IsValue(a, x, t) => x.kind # "nested"
      BY DEF IsValue, IsLeaf
    <2>2. ~IsMember(a, n, a.values[n])
      BY <1>9, <2>1 DEF IsMember
    <2>3. IsField(a, n, a.values[n])
      BY <1>9, <1>16, <2>2 DEF IsInstance
    <2> QED BY <1>9, <2>1, <2>3 DEF IsField
  <1>19. w.members = members
    BY <1>12, <1>18 DEF IsNested, Compound, Value
  <1>20. /\ DOMAIN members = {f.name} \cup DOMAIN h
         /\ members[f.name] = v
         /\ \A m \in DOMAIN h : m # f.name => members[m] = h[m]
    BY <1>8, <1>11 DEF Over
  <1>21. /\ DOMAIN values = DOMAIN a.values
         /\ values[n] = w
         /\ \A m \in DOMAIN a.values : m # n => values[m] = a.values[m]
    BY <1>9, <1>13
  <1>22. ASSUME a.made = "read", Kept(new), NEW i \in 1 .. Len(types["outer"].fields)
         PROVE  FieldOverlay(b, i, new)
    <2>1. f.name \in DOMAIN h
      <3>1. CASE f.name \notin DOMAIN h
        BY <1>15, <1>16, <1>22, <3>1 DEF Lost, Kept
      <3> QED BY <3>1
    <2>2. PICK old : old = h[f.name]
      OBVIOUS
    <2>3. lost = ToSet(old.bytes) \ {New}
      BY <1>15, <2>1, <2>2 DEF Lost
    <2>4. Kept(set) /\ Plain /\ New \notin set
      BY <1>16, <1>22 DEF Kept
    <2>5. a.start \in Nat
      BY <1>16, <1>22 DEF IsInstance
    <2>6. PICK p \in Nat : p = a.start + PlaceOf(k)
      <3>1. PlaceOf(k) \in Nat
        BY <2>4, PlacesAre DEF PlaceOf, Objects
      <3> QED BY <2>5, <3>1
    <2>7. PICK c \in Nat : c = PlaceIn(j)
      BY <2>4, PlacesAre DEF PlaceIn, Objects
    <2>8. HasLeaves("inner", h)
      BY <1>9, <1>10, <1>16, <1>18, InstanceHas
    <2>9. IsLeaf(old, f.type)
      BY <1>2, <1>3, <1>4, <2>1, <2>2, <2>8 DEF HasLeaves
    <2>10. ~Anonymous
      BY <1>9, <1>16, <1>18, <1>22 DEF ReadOverlay
    <2>11. MembersOverlay(h, p, set)
      <3>1. FieldOverlay(a, k, set)
        BY <1>16, <1>22, <2>4 DEF ReadOverlay
      <3> QED BY <1>9, <1>10, <1>18, <2>6, <2>10, <3>1 DEF FieldOverlay
    <2>12. OverlayAt(old, p + c, set)
      BY <1>3, <1>4, <2>1, <2>2, <2>7, <2>11 DEF MembersOverlay
    <2>13. PICK q \in Nat : q = p + c
      BY <2>6, <2>7
    <2>14. /\ OverlayAt(v, q, set \cup lost)
           /\ lost \subseteq q + 1 .. q + TypeSizes[f.type]
           /\ set = {} => lost # {}
      BY <1>2, <1>6, <2>3, <2>4, <2>9, <2>12, <2>13, OverlaySet
    <2>15. NoUnions
      BY <1>16, <1>22, <2>14 DEF Kept
    <2>16. PICK s \in Nat : s = TypeSizes[f.type] /\ s = SizeOf(types["inner"].fields[j].type, InnerLength)
      <3>1. SizeOf(types["inner"].fields[j].type, InnerLength) = TypeSizes[f.type]
        BY <1>2, <1>3 DEF SizeOf
      <3> QED BY <2>4, <3>1, PlacesAre DEF Objects
    <2>17. CASE i = k
      <3>1. ASSUME NEW x \in 1 .. Len(types["inner"].fields), <<"inner", x>> \in DOMAIN members
            PROVE  OverlayAt(members[<<"inner", x>>], p + PlaceIn(x), set \cup lost)
        <4>1. CASE x = j
          BY <1>4, <1>20, <2>7, <2>13, <2>14, <4>1
        <4>2. CASE x # j
          <5>1. PICK u : u = h[<<"inner", x>>]
            OBVIOUS
          <5>2. <<"inner", x>> \in DOMAIN h /\ members[<<"inner", x>>] = u
            BY <1>4, <1>20, <3>1, <4>2, <5>1
          <5>3. OverlayAt(u, p + PlaceIn(x), set)
            BY <2>11, <5>1, <5>2 DEF MembersOverlay
          <5>4. PICK t : t = types["inner"].fields[x].type
            OBVIOUS
          <5>5. t # "inner"
            BY <5>4 DEF TypesInv
          <5>6. SizeOf(t, InnerLength) = TypeSizes[t]
            BY <5>5 DEF SizeOf
          <5>7. PICK d \in Nat, m \in Nat : d = PlaceIn(x) /\ m = TypeSizes[t]
            BY <2>4, <5>4, <5>6, PlacesAre DEF PlaceIn, Objects
          <5>8. Len(u.bytes) = m
            BY <2>8, <5>1, <5>2, <5>4, <5>5, <5>7 DEF HasLeaves, IsLeaf
          <5>9. d + m <= c \/ c + s <= d
            BY <2>4, <2>7, <2>15, <2>16, <4>2, <5>4, <5>6, <5>7, PlacesAre
               DEF PlaceIn, NoUnions, Objects
          <5>10. \A y \in 1 .. m : (p + d) + y \notin lost
            <6>1. \A y \in 1 .. m : (p + d) + y \notin q + 1 .. q + s
              BY <2>13, <5>9
            <6> QED BY <2>14, <2>16, <6>1
          <5>11. PICK e \in Nat : e = p + d
            OBVIOUS
          <5>12. OverlayAt(u, e, set \cup lost)
            BY <5>3, <5>7, <5>8, <5>10, <5>11, OverlayElsewhere
          <5> QED BY <5>2, <5>7, <5>11, <5>12
        <4> QED BY <4>1, <4>2
      <3>2. MembersOverlay(members, p, set \cup lost)
        BY <3>1 DEF MembersOverlay
      <3> QED BY <1>9, <1>16, <1>17, <1>18, <1>19, <1>21, <2>6, <2>10, <2>17, <3>2 DEF FieldOverlay
    <2>18. CASE i # k
      <3>1. FieldOverlay(a, i, set)
        BY <1>16, <1>22, <2>4 DEF ReadOverlay
      <3>2. \A x, m : m \in {<<"outer", i>>, <<"inner", x>>} /\ m \in DOMAIN b.values =>
               m \in DOMAIN a.values /\ b.values[m] = a.values[m]
        <4>1. \A x, m : m \in {<<"outer", i>>, <<"inner", x>>} => m # <<"outer", k>>
          BY <2>18
        <4> QED BY <1>17, <1>18, <1>21, <4>1
      <3>3. PICK size \in Nat : size = SizeOf(types["outer"].fields[k].type, InnerLength)
        BY <2>4, PlacesAre DEF Objects
      <3>4. size = InnerLength
        BY <1>18, <3>3 DEF SizeOf
      <3>5. c + s <= size
        <4>1. SizeOfFields(types["inner"], InnerLength) = InnerLength
          BY InnerLengthIs DEF LengthInv, CalcSize
        <4> QED BY <2>4, <2>7, <2>15, <2>16, <3>4, <4>1, PlacesAre DEF PlaceIn, NoUnions, Objects
      <3>6. lost \subseteq p + 1 .. p + size
        <4>1. q + 1 .. q + s \subseteq p + 1 .. p + size
          BY <2>13, <3>5
        <4> QED BY <2>14, <2>16, <4>1
      <3>7. \A x \in 1 .. SizeOf(types["outer"].fields[i].type, InnerLength) :
               a.start + PlaceOf(i) + x \notin lost
        BY <2>4, <2>5, <2>6, <2>15, <2>18, <3>3, <3>6, LostElsewhere
      <3>8. FieldOverlay(b, i, set \cup lost)
        BY <1>16, <1>17, <2>4, <2>5, <2>15, <3>1, <3>2, <3>7, FieldElsewhere
      <3> QED BY <1>16, <3>8
    <2> QED BY <2>17, <2>18
  <1>23. ASSUME a.made = "read", NEW i \in 1 .. Len(types["outer"].fields),
                types["outer"].fields[i].type = "inner", Anonymous
         PROVE  <<"outer", i>> \notin DOMAIN values
    BY <1>16, <1>21, <1>23 DEF ReadOverlay
  <1>24. ASSUME a.made = "read", NEW x \in Nat, <<"inner", x>> \in DOMAIN values
         PROVE  Anonymous /\ UsesInner
    BY <1>16, <1>21, <1>24 DEF ReadOverlay
  <1> QED BY <1>17, <1>22, <1>23, <1>24 DEF ReadOverlay

\* What an instance has stays what it is when its types get more fields.
LEMMA OverlayKept ==
    ASSUME TypesInv, LengthInv, OffsetsInv, TypesInv', LengthInv', OneInner',
           AddField \/ SameTypes, MoreTypes,
           NEW inst, IsInstance(inst), NEW set, ReadOverlay(inst, set)
    PROVE  ReadOverlay(inst, set)'
  <1>1. PICK a \in Seq(Fields), b \in Seq(Fields) :
           a = types["outer"].fields /\ b = types'["outer"].fields
    BY DEF TypesInv, Types, Objects
  <1>2. PICK c \in Seq(Fields), d \in Seq(Fields) :
           c = types["inner"].fields /\ d = types'["inner"].fields
    BY DEF TypesInv, Types, Objects
  <1>3. /\ Len(a) \in Nat /\ Len(b) \in Nat /\ Len(a) <= Len(b)
        /\ Len(c) \in Nat /\ Len(d) \in Nat /\ Len(c) <= Len(d)
        /\ \A k \in 1 .. Len(a) : k \in 1 .. Len(b) /\ b[k] = a[k]
        /\ types'["outer"].union = types["outer"].union
        /\ types'["inner"].union = types["inner"].union
        /\ types'["inner"].anonymous = types["inner"].anonymous
    BY <1>1, <1>2 DEF MoreTypes, Objects
  <1>4. /\ \A k : <<"outer", k>> \in DOMAIN inst.values => k \in 1 .. Len(a)
        /\ \A j : <<"inner", j>> \in DOMAIN inst.values => j \in 1 .. Len(c)
    BY <1>1, <1>2 DEF IsInstance, IsField, IsMember
  <1>5. UsesInner => UsesInner'
    <2>1. UsesInner <=> \E k \in 1 .. Len(a) : a[k].type = "inner"
      BY <1>1, UsesIs
    <2>2. UsesInner' <=> \E k \in 1 .. Len(b) : b[k].type = "inner"
      <3>1. (UsesInner <=> \E k \in 1 .. Len(types["outer"].fields) :
                              types["outer"].fields[k].type = "inner")'
        BY UsesIs, PTL
      <3> QED BY <1>1, <3>1
    <2> QED BY <1>3, <2>1, <2>2
  <1>6. ASSUME NEW k \in 1 .. Len(b), k \notin 1 .. Len(a), b[k].type = "inner"
        PROVE  ~UsesInner
    <2>1. ASSUME NEW i \in 1 .. Len(a), a[i].type = "inner" PROVE FALSE
      <3>1. i \in 1 .. Len(b) /\ b[i].type = "inner"
        BY <1>3, <2>1
      <3>2. i = k
        BY <1>1, <1>6, <3>1 DEF OneInner
      <3> QED BY <1>6, <3>2
    <2> QED BY <1>1, <2>1, UsesIs
  <1>7. ASSUME inst.made = "read", NEW k \in 1 .. Len(b), b[k].type = "inner", Anonymous'
        PROVE  <<"outer", k>> \notin DOMAIN inst.values
    <2>1. CASE k \in 1 .. Len(a)
      BY <1>1, <1>3, <1>7, <2>1 DEF ReadOverlay, Anonymous
    <2>2. CASE k \notin 1 .. Len(a)
      BY <1>4, <2>2
    <2> QED BY <2>1, <2>2
  <1>8. ASSUME inst.made = "read", NEW j \in Nat, <<"inner", j>> \in DOMAIN inst.values
        PROVE  Anonymous' /\ UsesInner'
    BY <1>3, <1>5, <1>8 DEF ReadOverlay, Anonymous
  <1>9. ASSUME inst.made = "read", Kept(set)', NEW k \in 1 .. Len(b)
        PROVE  FieldOverlay(inst, k, set)'
    <2>1. Plain /\ added["inner"] = 0 /\ d = c /\ InnerLength' = InnerLength
      BY <1>2, <1>9, StillPlain DEF Kept
    <2>2. Kept(set)
      BY <1>3, <1>9, <2>1 DEF Kept, NoUnions, Objects
    <2>3. CASE k \notin 1 .. Len(a)
      <3>1. <<"outer", k>> \notin DOMAIN inst.values
        BY <1>4, <2>3
      <3>2. b[k].type = "inner" => \A j \in Nat : <<"inner", j>> \notin DOMAIN inst.values
        BY <1>6, <1>9, <2>3 DEF ReadOverlay
      <3>3. b[k].type = "inner" =>
               \A j \in 1 .. Len(types'["inner"].fields) : <<"inner", j>> \notin DOMAIN inst.values
        <4>1. \A j \in 1 .. Len(d) : j \in Nat
          BY <1>3
        <4> QED BY <1>2, <3>2, <4>1
      <3> QED BY <1>1, <3>1, <3>3 DEF FieldOverlay, MembersOverlay
    <2>4. CASE k \in 1 .. Len(a)
      <3>1. PICK inner \in Nat : inner = InnerLength
        BY InnerLengthIs DEF LengthInv
      <3>2. \A o \in Objects : IsType(types[o]) /\ IsType(types'[o])
        <4>1. \A o \in Objects : IsType(types[o])
          BY TypeIsType
        <4>2. (\A o \in Objects : IsType(types[o]))'
          BY TypeIsType, PTL
        <4> QED BY <4>1, <4>2
      <3>3. PlaceOf(k)' = PlaceOf(k)
        <4>1. PICK type : type = types["outer"]
          OBVIOUS
        <4>2. PICK longer : longer = types'["outer"]
          OBVIOUS
        <4>3. Place(longer, inner, k) = Place(type, inner, k)
          BY <1>1, <1>3, <2>4, <3>2, <4>1, <4>2, PlaceKept DEF Objects
        <4> QED BY <2>1, <3>1, <4>1, <4>2, <4>3 DEF PlaceOf
      <3>4. ASSUME NEW j \in 1 .. Len(c) PROVE PlaceIn(j)' = PlaceIn(j)
        <4>1. PICK type : type = types["inner"]
          OBVIOUS
        <4>2. PICK longer : longer = types'["inner"]
          OBVIOUS
        <4>3. /\ IsType(type) /\ IsType(longer) /\ longer.union = type.union
              /\ type.fields = c /\ longer.fields = c
          BY <1>2, <1>3, <2>1, <3>2, <4>1, <4>2 DEF Objects
        <4>4. Len(type.fields) <= Len(longer.fields) /\ j \in 1 .. Len(type.fields)
          BY <1>3, <3>4, <4>3
        <4>5. \A i \in 1 .. Len(type.fields) : longer.fields[i] = type.fields[i]
          BY <4>3
        <4>6. Place(longer, inner, j) = Place(type, inner, j)
          BY <4>3, <4>4, <4>5, PlaceKept
        <4> QED BY <2>1, <3>1, <4>1, <4>2, <4>6 DEF PlaceIn
      <3>5. ASSUME NEW values, NEW p, MembersOverlay(values, p, set)
            PROVE  MembersOverlay(values, p, set)'
        <4>1. ASSUME NEW j \in 1 .. Len(d), <<"inner", j>> \in DOMAIN values
              PROVE  OverlayAt(values[<<"inner", j>>], p + PlaceIn(j)', set)
          <5>1. j \in 1 .. Len(c) /\ PlaceIn(j)' = PlaceIn(j)
            BY <2>1, <3>4, <4>1
          <5>2. OverlayAt(values[<<"inner", j>>], p + PlaceIn(j), set)
            BY <1>2, <3>5, <4>1, <5>1 DEF MembersOverlay
          <5> QED BY <5>1, <5>2
        <4>2. \A j \in 1 .. Len(d) : <<"inner", j>> \in DOMAIN values =>
                  OverlayAt(values[<<"inner", j>>], p + PlaceIn(j)', set)
          BY <4>1
        <4> QED BY <1>2, <4>2 DEF MembersOverlay
      <3>6. FieldOverlay(inst, k, set)
        BY <1>1, <1>9, <2>2, <2>4 DEF ReadOverlay
      <3>7. PICK t : t = a[k].type /\ t = types["outer"].fields[k].type
                     /\ t = types'["outer"].fields[k].type
        BY <1>1, <1>3, <2>4
      <3>8. PICK p : p = inst.start + PlaceOf(k) /\ p = inst.start + PlaceOf(k)'
        BY <3>3
      <3>9. CASE t = "inner" /\ Anonymous
        <4>1. MembersOverlay(inst.values, p, set)
          BY <3>6, <3>7, <3>8, <3>9 DEF FieldOverlay
        <4>2. MembersOverlay(inst.values, p, set)'
          BY <3>5, <4>1
        <4> QED BY <1>3, <3>7, <3>8, <3>9, <4>2 DEF FieldOverlay, Anonymous
      <3>10. CASE ~(t = "inner" /\ Anonymous)
        <4>1. ASSUME <<"outer", k>> \in DOMAIN inst.values
              PROVE  IF t = "inner"
                     THEN MembersOverlay(inst.values[<<"outer", k>>].members, p, set)'
                     ELSE OverlayAt(inst.values[<<"outer", k>>], p, set)
          <5>1. CASE t = "inner"
            <6>1. MembersOverlay(inst.values[<<"outer", k>>].members, p, set)
              BY <3>6, <3>7, <3>8, <3>10, <4>1, <5>1 DEF FieldOverlay
            <6> QED BY <3>5, <5>1, <6>1
          <5>2. CASE t # "inner"
            BY <3>6, <3>7, <3>8, <3>10, <4>1, <5>2 DEF FieldOverlay
          <5> QED BY <5>1, <5>2
        <4>2. ~(t = "inner" /\ Anonymous')
          BY <1>3, <3>10 DEF Anonymous
        <4> QED BY <3>7, <3>8, <4>1, <4>2 DEF FieldOverlay, OverlayAt
      <3> QED BY <3>9, <3>10
    <2> QED BY <2>3, <2>4
  <1> QED BY <1>1, <1>7, <1>8, <1>9 DEF ReadOverlay

LEMMA OverlayStep ==
    ASSUME TypesInv, LengthInv, OffsetsInv, OneInner, pos \in Nat, IsInstance(instance),
           ReadOverlay(instance, replaced), [ObjectsNext]_objectVars
    PROVE  ReadOverlay(instance, replaced)'
  <1>1. TypesInv' /\ LengthInv' /\ MoreTypes /\ OneInner' /\ (AddField \/ SameTypes)
    BY TypesStep, SameIsMore, StepTypes
  <1>2. PICK b : b = instance'
    OBVIOUS
  <1>3. PICK new : new = replaced'
    OBVIOUS
  <1>4. CASE b.made # "read"
    BY <1>2, <1>4 DEF ReadOverlay
  <1>5. ASSUME b.made = "read" PROVE IsInstance(b) /\ ReadOverlay(b, new)
    <2>1. CASE instance' = instance /\ replaced' = replaced
      <3>1. b = instance /\ new = replaced
        BY <1>2, <1>3, <2>1
      <3> QED BY <3>1
    <2>2. CASE Read
      <3>1. PICK start \in Nat : start = pos
        OBVIOUS
      <3>2. PICK r : r = ReadOuter(start)
        OBVIOUS
      <3>3. CASE r.ok
        <4>1. b = [made |-> "read", start |-> start, values |-> r.values] /\ new = {}
          BY <1>2, <1>3, <2>2, <3>1, <3>2, <3>3 DEF Read
        <4>2. InstanceAt(r.values, start, FALSE)
          <5>1. PICK exact \in BOOLEAN : exact = FALSE
            OBVIOUS
          <5>2. InstanceAt(r.values, start, exact)
            BY <3>2, <3>3, <5>1, OuterReads
          <5> QED BY <5>1, <5>2
        <4>3. PICK values : values = r.values
          OBVIOUS
        <4>4. IsInstance([made |-> "read", start |-> start, values |-> values])
          BY <4>2, <4>3, ReadInstance
        <4>5. ReadOverlay(b, {})
          BY <3>2, <3>3, <4>1, ReadGives
        <4> QED BY <4>1, <4>3, <4>4, <4>5
      <3>4. CASE ~r.ok
        BY <2>1, <2>2, <3>1, <3>2, <3>4 DEF Read
      <3> QED BY <3>3, <3>4
    <2>3. CASE MakeDefault
      <3>1. CASE HasDefault("outer") /\ (UsesInner => HasDefault("inner"))
        <4>1. b = [made |-> "default", start |-> NoStart, values |-> Default]
          BY <1>2, <2>3, <3>1 DEF MakeDefault
        <4>2. b.made = "default"
          BY <4>1
        <4> QED BY <1>5, <4>2
      <3>2. CASE ~(HasDefault("outer") /\ (UsesInner => HasDefault("inner")))
        BY <2>1, <2>3, <3>2 DEF MakeDefault
      <3> QED BY <3>1, <3>2
    <2>4. CASE SetMember
      BY <1>2, <1>3, <2>4, MemberSet, MemberOverlay
    <2>5. CASE SetNested
      BY <1>2, <1>3, <2>5, NestedSet, NestedOverlay
    <2>6. CASE SetAnonymous \/ Dump \/ AddField \/ Measure \/ Seek \/ FollowNull \/ Follow
               \/ UNCHANGED objectVars
      BY <2>1, <2>6 DEF SetAnonymous, Dump, AddField, Measure, Seek, FollowNull, Follow, objectVars
    <2> QED BY <2>2, <2>3, <2>4, <2>5, <2>6 DEF ObjectsNext
  <1>6. CASE b.made = "read"
    <2>1. ReadOverlay(b, new)'
      BY <1>1, <1>5, <1>6, OverlayKept
    <2> QED BY <1>2, <1>3, <2>1
  <1> QED BY <1>4, <1>6

-----------------------------------------------------------------------------
(* What is made by default *)

Zeros(v) == \A i \in 1 .. Len(v.bytes) : v.bytes[i] = 0

\* An instance that was made by default and never set is zeros.
DefaultZeros(inst, set) ==
    inst.made = "default" /\ set = {} =>
       \A m \in DOMAIN inst.values :
          /\ Zeros(inst.values[m])
          /\ \A n \in DOMAIN inst.values[m].members : Zeros(inst.values[m].members[n])

\* The values of the default of a structure
LEMMA DefaultIs ==
    ASSUME TypesInv, HasDefault("outer"), UsesInner => HasDefault("inner"),
           NEW values, values = Default
    PROVE  /\ \A m \in DOMAIN values :
                 /\ Zeros(values[m])
                 /\ \A n \in DOMAIN values[m].members : Zeros(values[m].members[n])
           /\ \A k \in 1 .. Len(types["outer"].fields) :
                 /\ <<"outer", k>> \in DOMAIN values
                 /\ types["outer"].fields[k].type = "inner" =>
                       \A j \in 1 .. Len(types["inner"].fields) :
                          <<"inner", j>> \in DOMAIN values[<<"outer", k>>].members
  <1> DEFINE names == {f.name : f \in {g \in FieldsOf("outer") : g.type = "inner"}}
             nested == [m \in names |-> Compound(DefaultLeaves("inner"))]
             fields(o) == types[o].fields
  <1>1. "outer" \in Objects /\ "inner" \in Objects
    BY DEF Objects
  <1>2. \A k \in 1 .. Len(fields("outer")) : fields("outer")[k].name = <<"outer", k>>
    BY <1>1 DEF TypesInv
  <1>3. FieldsOf("outer") = {fields("outer")[k] : k \in 1 .. Len(fields("outer"))}
    BY <1>1, FieldsAre
  <1>4. PICK d : d = DefaultLeaves("outer")
    OBVIOUS
  <1>5. PICK e : e = DefaultLeaves("inner")
    OBVIOUS
  <1>6. values = Over(d, nested)
    BY <1>4 DEF Default
  <1>7. /\ \A k \in 1 .. Len(fields("outer")) :
              fields("outer")[k].type # "inner" => <<"outer", k>> \in DOMAIN d
        /\ \A m \in DOMAIN d : \E k \in 1 .. Len(fields("outer")) :
              /\ m = <<"outer", k>>
              /\ fields("outer")[k].type \in LeafTypes
              /\ IsLeaf(d[m], fields("outer")[k].type)
              /\ Zeros(d[m])
    BY <1>1, <1>4, DefaultsAre DEF Zeros
  <1>8. UsesInner => /\ \A j \in 1 .. Len(fields("inner")) : <<"inner", j>> \in DOMAIN e
                     /\ \A m \in DOMAIN e : Zeros(e[m])
    <2>1. ASSUME UsesInner
          PROVE  /\ \A k \in 1 .. Len(types["inner"].fields) :
                       types["inner"].fields[k].type # "inner" => <<"inner", k>> \in DOMAIN e
                 /\ \A m \in DOMAIN e : \A i \in 1 .. Len(e[m].bytes) : e[m].bytes[i] = 0
      BY <1>1, <1>5, <2>1, DefaultsAre
    <2> QED BY <2>1 DEF TypesInv, Zeros
  <1>9. \A m \in names : nested[m] = Compound(e)
    BY <1>5
  <1>10. DOMAIN nested = names
    OBVIOUS
  <1>11. names = {<<"outer", k>> : k \in {i \in 1 .. Len(fields("outer")) :
                                            fields("outer")[i].type = "inner"}}
    <2>1. ASSUME NEW m \in names
          PROVE  \E k \in 1 .. Len(fields("outer")) :
                    fields("outer")[k].type = "inner" /\ m = <<"outer", k>>
      BY <1>2, <1>3
    <2>2. ASSUME NEW k \in 1 .. Len(fields("outer")), fields("outer")[k].type = "inner"
          PROVE  <<"outer", k>> \in names
      <3>1. fields("outer")[k] \in FieldsOf("outer")
        BY <1>3
      <3>2. fields("outer")[k].name \in names
        BY <2>2, <3>1
      <3> QED BY <1>2, <3>2
    <2> HIDE DEF names
    <2> QED BY <2>1, <2>2
  <1>12. names # {} => UsesInner
    BY DEF UsesInner
  <1>13. Compound(e).bytes = <<>> /\ Compound(e).members = e
    BY DEF Compound, Value
  <1>14. Zeros(Compound(e))
    BY <1>13 DEF Zeros
  <1> HIDE DEF names, nested
  <1>15. /\ DOMAIN values = DOMAIN d \cup names
         /\ \A m \in DOMAIN d : values[m] = d[m]
         /\ \A m \in names : m \notin DOMAIN d => values[m] = nested[m]
    <2>1. /\ DOMAIN values = DOMAIN d \cup DOMAIN nested
          /\ \A m \in DOMAIN d : values[m] = d[m]
          /\ \A m \in DOMAIN nested : m \notin DOMAIN d => values[m] = nested[m]
      BY <1>6, OverOf
    <2> QED BY <1>10, <2>1
  <1> HIDE DEF fields
  <1>16. ASSUME NEW m \in DOMAIN values
         PROVE  /\ Zeros(values[m])
                /\ \A n \in DOMAIN values[m].members : Zeros(values[m].members[n])
    <2>1. CASE m \in DOMAIN d
      <3>1. Zeros(d[m]) /\ DOMAIN d[m].members = {}
        BY <1>7, <2>1 DEF IsLeaf, Nothing
      <3> QED BY <1>15, <2>1, <3>1
    <2>2. CASE m \notin DOMAIN d
      <3>1. m \in names /\ values[m] = Compound(e)
        BY <1>9, <1>15, <1>16, <2>2
      <3> QED BY <1>8, <1>12, <1>13, <1>14, <3>1
    <2> QED BY <2>1, <2>2
  <1>17. ASSUME NEW k \in 1 .. Len(fields("outer"))
         PROVE  /\ <<"outer", k>> \in DOMAIN values
                /\ fields("outer")[k].type = "inner" =>
                      \A j \in 1 .. Len(fields("inner")) :
                         <<"inner", j>> \in DOMAIN values[<<"outer", k>>].members
    <2>1. CASE fields("outer")[k].type # "inner"
      BY <1>7, <1>15, <2>1
    <2>2. CASE fields("outer")[k].type = "inner"
      <3>1. <<"outer", k>> \in names
        BY <1>11, <2>2
      <3>2. <<"outer", k>> \notin DOMAIN d
        <4>1. \A i \in 1 .. Len(fields("outer")) : <<"outer", k>> = <<"outer", i>> => i = k
          OBVIOUS
        <4> QED BY <1>7, <2>2, <4>1, LeafSizes
      <3>3. values[<<"outer", k>>] = Compound(e)
        BY <1>9, <1>15, <3>1, <3>2
      <3> QED BY <1>8, <1>12, <1>13, <1>15, <3>1, <3>3
    <2> QED BY <2>1, <2>2
  <1> QED BY <1>16, <1>17 DEF fields

\* A member that is set loses the zeros it had.
LEMMA ZerosLost ==
    ASSUME NEW t \in {"byte", "short"}, NEW v, IsLeaf(v, t), Zeros(v)
    PROVE  ToSet(v.bytes) \ {New} # {}
  <1>1. TypeSizes[t] \in Nat /\ TypeSizes[t] > 0
    BY LeafSizes
  <1>2. ToSet(v.bytes) = {v.bytes[i] : i \in 1 .. Len(v.bytes)} /\ Len(v.bytes) = TypeSizes[t]
    BY DEF IsLeaf, ToSet
  <1>3. 1 \in 1 .. Len(v.bytes)
    BY <1>1, <1>2
  <1>4. v.bytes[1] = 0
    BY <1>3 DEF Zeros
  <1>5. 0 # New
    BY ObjectsAssumption
  <1> QED BY <1>2, <1>3, <1>4, <1>5

LEMMA ZerosStep ==
    ASSUME TypesInv, IsInstance(instance), DefaultZeros(instance, replaced),
           [ObjectsNext]_objectVars
    PROVE  DefaultZeros(instance, replaced)'
  <1>1. CASE instance' = instance /\ replaced' = replaced
    BY <1>1
  <1>2. CASE Read
    <2>1. PICK r : r = ReadOuter(pos)
      OBVIOUS
    <2>2. CASE r.ok
      <3>1. instance' = [made |-> "read", start |-> pos, values |-> r.values]
        BY <1>2, <2>1, <2>2 DEF Read
      <3>2. instance'.made = "read"
        BY <3>1
      <3> QED BY <3>2 DEF DefaultZeros
    <2>3. CASE ~r.ok
      BY <1>1, <1>2, <2>1, <2>3 DEF Read
    <2> QED BY <2>2, <2>3
  <1>3. CASE MakeDefault
    <2>1. CASE HasDefault("outer") /\ (UsesInner => HasDefault("inner"))
      <3>1. instance' = [made |-> "default", start |-> NoStart, values |-> Default]
        BY <1>3, <2>1 DEF MakeDefault
      <3>2. PICK values : values = Default
        OBVIOUS
      <3>3. instance'.values = values
        BY <3>1, <3>2
      <3>4. \A m \in DOMAIN values :
               /\ Zeros(values[m])
               /\ \A n \in DOMAIN values[m].members : Zeros(values[m].members[n])
        BY <2>1, <3>2, DefaultIs
      <3> QED BY <3>3, <3>4 DEF DefaultZeros, Zeros
    <2>2. CASE ~(HasDefault("outer") /\ (UsesInner => HasDefault("inner")))
      BY <1>1, <1>3, <2>2 DEF MakeDefault
    <2> QED BY <2>1, <2>2
  <1>4. CASE SetMember
    <2>1. PICK f \in FieldsOf("outer") :
             /\ f.type \in {"byte", "short"}
             /\ instance' = [instance EXCEPT !.values = Over(Only(f.name, NewLeaf(f.type)), @)]
             /\ replaced' = replaced \cup Lost(instance.values, f.name)
      BY <1>4 DEF SetMember
    <2>2. PICK k \in 1 .. Len(types["outer"].fields) : f = types["outer"].fields[k]
      BY FieldsAre DEF Objects
    <2>3. f.name = <<"outer", k>>
      BY <2>2 DEF TypesInv, Objects
    <2>4. instance'.made = instance.made
      BY <2>1 DEF IsInstance
    <2>5. ASSUME instance.made = "default", replaced' = {} PROVE FALSE
      <3>1. replaced = {} /\ Lost(instance.values, f.name) = {}
        BY <2>1, <2>5
      <3>2. f.name \in DOMAIN instance.values
        BY <3>1 DEF Lost
      <3>3. PICK v : v = instance.values[f.name]
        OBVIOUS
      <3>4. IsLeaf(v, f.type)
        BY <2>1, <2>2, <2>3, <3>2, <3>3, InstanceHas DEF HasLeaves
      <3>5. Zeros(v)
        BY <2>5, <3>1, <3>2, <3>3 DEF DefaultZeros
      <3>6. ToSet(v.bytes) \ {New} # {}
        BY <2>1, <3>4, <3>5, ZerosLost
      <3> QED BY <3>1, <3>2, <3>3, <3>6 DEF Lost
    <2> QED BY <2>4, <2>5 DEF DefaultZeros
  <1>5. CASE SetNested
    <2>1. PICK n \in DOMAIN instance.values : \E f \in FieldsOf("inner") :
             /\ instance.values[n].kind = "nested"
             /\ f.type \in {"byte", "short"}
             /\ instance' = [instance EXCEPT !.values[n].members =
                                Over(Only(f.name, NewLeaf(f.type)), @)]
             /\ replaced' = replaced \cup Lost(instance.values[n].members, f.name)
      BY <1>5 DEF SetNested
    <2>2. PICK f \in FieldsOf("inner") :
             /\ f.type \in {"byte", "short"}
             /\ instance' = [instance EXCEPT !.values[n].members =
                                Over(Only(f.name, NewLeaf(f.type)), @)]
             /\ replaced' = replaced \cup Lost(instance.values[n].members, f.name)
      BY <2>1
    <2>3. PICK j \in 1 .. Len(types["inner"].fields) : f = types["inner"].fields[j]
      BY FieldsAre DEF Objects
    <2>4. f.name = <<"inner", j>>
      BY <2>3 DEF TypesInv, Objects
    <2>5. instance'.made = instance.made
      BY <2>2 DEF IsInstance
    <2>6. ASSUME instance.made = "default", replaced' = {} PROVE FALSE
      <3>1. PICK members : members = instance.values[n].members
        OBVIOUS
      <3>2. replaced = {} /\ Lost(members, f.name) = {}
        BY <2>2, <2>6, <3>1
      <3>3. f.name \in DOMAIN members
        BY <3>2 DEF Lost
      <3>4. PICK v : v = members[f.name]
        OBVIOUS
      <3>5. HasLeaves("inner", members)
        <4>1. \A x, t : IsValue(instance, x, t) => x.kind # "nested"
          BY DEF IsValue, IsLeaf
        <4>2. ~IsMember(instance, n, instance.values[n])
          BY <2>1, <4>1 DEF IsMember
        <4>3. IsField(instance, n, instance.values[n])
          BY <4>2 DEF IsInstance
        <4>4. PICK k \in 1 .. Len(types["outer"].fields) :
                 n = <<"outer", k>> /\ types["outer"].fields[k].type = "inner"
          BY <2>1, <4>1, <4>3 DEF IsField
        <4> QED BY <3>1, <4>4, InstanceHas
      <3>6. IsLeaf(v, f.type)
        BY <2>2, <2>3, <2>4, <3>3, <3>4, <3>5 DEF HasLeaves
      <3>7. Zeros(v)
        BY <2>6, <3>1, <3>2, <3>3, <3>4 DEF DefaultZeros
      <3>8. ToSet(v.bytes) \ {New} # {}
        BY <2>2, <3>6, <3>7, ZerosLost
      <3> QED BY <3>2, <3>3, <3>4, <3>8 DEF Lost
    <2> QED BY <2>5, <2>6 DEF DefaultZeros
  <1>6. CASE SetAnonymous \/ Dump \/ AddField \/ Measure \/ Seek \/ FollowNull \/ Follow
             \/ UNCHANGED objectVars
    BY <1>1, <1>6 DEF SetAnonymous, Dump, AddField, Measure, Seek, FollowNull, Follow, objectVars
  <1> QED BY <1>2, <1>3, <1>4, <1>5, <1>6 DEF ObjectsNext

-----------------------------------------------------------------------------
(* Where the writers look *)

\* Where an instance has the members of a nested structure
HeldBy(inst, k) ==
    IF inst.made = "read" /\ Anonymous THEN inst.values ELSE inst.values[<<"outer", k>>].members

FieldPresent(inst, k) ==
    /\ types["outer"].fields[k].type # "inner" \/ inst.made = "default" \/ ~Anonymous =>
          <<"outer", k>> \in DOMAIN inst.values
    /\ types["outer"].fields[k].type = "inner" =>
          \A j \in 1 .. Len(types["inner"].fields) : <<"inner", j>> \in DOMAIN HeldBy(inst, k)

\* An instance of types that were not extended has all their fields.
Present(inst) ==
    inst.made # "nothing" /\ Untouched =>
       \A k \in 1 .. Len(types["outer"].fields) : FieldPresent(inst, k)

LEMMA ReadIsPresent ==
    ASSUME TypesInv, LengthInv, NEW start \in Nat, NEW values, InstanceAt(values, start, FALSE),
           NEW inst, inst = [made |-> "read", start |-> start, values |-> values]
    PROVE  Present(inst)
  <1>1. inst.made = "read" /\ inst.values = values
    OBVIOUS
  <1>2. ASSUME NEW k \in 1 .. Len(types["outer"].fields) PROVE FieldPresent(inst, k)
    <2>1. PICK t : t = types["outer"].fields[k].type
      OBVIOUS
    <2>2. CASE t = "inner" /\ Anonymous
      <3>1. \A j \in 1 .. Len(types["inner"].fields) : <<"inner", j>> \in DOMAIN values
        BY <2>1, <2>2 DEF InstanceAt, Gives
      <3> QED BY <1>1, <2>1, <2>2, <3>1 DEF FieldPresent, HeldBy
    <2>3. CASE ~(t = "inner" /\ Anonymous)
      <3>1. PICK m : m = <<"outer", k>>
        OBVIOUS
      <3>2. m \in DOMAIN values
        BY <2>1, <2>3, <3>1 DEF InstanceAt, Gives
      <3>3. ASSUME t = "inner", NEW j \in 1 .. Len(types["inner"].fields)
            PROVE  <<"inner", j>> \in DOMAIN values[m].members
        <4>1. PICK i \in 1 .. Len(types["outer"].fields), p \in Nat :
                 GivesAt(values[m], i, m, start, p, FALSE)
          BY <3>2 DEF InstanceAt
        <4>2. Gives(i, m)
          BY <4>1 DEF GivesAt
        <4>3. i = k
          BY <3>1, <4>2 DEF Gives
        <4>4. NestedAt(values[m], start, p, FALSE)
          BY <2>1, <2>3, <3>3, <4>1, <4>3 DEF GivesAt
        <4> QED BY <4>4 DEF NestedAt
      <3> QED BY <1>1, <2>1, <2>3, <3>1, <3>2, <3>3 DEF FieldPresent, HeldBy
    <2> QED BY <2>2, <2>3
  <1> QED BY <1>2 DEF Present

\* Setting members takes no other away.
LEMMA SetIsPresent ==
    ASSUME NEW a, a.made \in {"nothing", "read", "default"}, Present(a),
           NEW b, b.made = a.made, DOMAIN a.values \subseteq DOMAIN b.values,
           \A k \in 1 .. Len(types["outer"].fields) :
              types["outer"].fields[k].type = "inner" /\ <<"outer", k>> \in DOMAIN a.values =>
                 DOMAIN a.values[<<"outer", k>>].members
                   \subseteq DOMAIN b.values[<<"outer", k>>].members
    PROVE  Present(b)
  <1>1. ASSUME a.made # "nothing", Untouched, NEW k \in 1 .. Len(types["outer"].fields)
        PROVE  FieldPresent(b, k)
    <2>1. FieldPresent(a, k)
      BY <1>1 DEF Present
    <2>2. types["outer"].fields[k].type = "inner" => DOMAIN HeldBy(a, k) \subseteq DOMAIN HeldBy(b, k)
      <3>1. CASE a.made = "read" /\ Anonymous
        BY <3>1 DEF HeldBy
      <3>2. CASE a.made = "default" \/ ~Anonymous
        BY <2>1, <3>2 DEF FieldPresent, HeldBy
      <3> QED BY <1>1, <3>1, <3>2
    <2> QED BY <2>1, <2>2 DEF FieldPresent
  <1> QED BY <1>1 DEF Present

LEMMA PresentStep ==
    ASSUME TypesInv, LengthInv, pos \in Nat, IsInstance(instance), Present(instance),
           [ObjectsNext]_objectVars
    PROVE  Present(instance)'
  <1>1. PICK b : b = instance'
    OBVIOUS
  <1>2. Present(b)
    <2>1. CASE instance' = instance
      BY <1>1, <2>1
    <2>2. CASE Read
      <3>1. PICK start \in Nat : start = pos
        OBVIOUS
      <3>2. PICK r : r = ReadOuter(start)
        OBVIOUS
      <3>3. CASE r.ok
        <4>1. PICK values : values = r.values
          OBVIOUS
        <4>2. b = [made |-> "read", start |-> start, values |-> values]
          BY <1>1, <2>2, <3>1, <3>2, <3>3, <4>1 DEF Read
        <4>3. InstanceAt(values, start, FALSE)
          <5>1. PICK exact \in BOOLEAN : exact = FALSE
            OBVIOUS
          <5>2. InstanceAt(r.values, start, exact)
            BY <3>2, <3>3, <5>1, OuterReads
          <5> QED BY <4>1, <5>1, <5>2
        <4> QED BY <4>2, <4>3, ReadIsPresent
      <3>4. CASE ~r.ok
        BY <2>1, <2>2, <3>1, <3>2, <3>4 DEF Read
      <3> QED BY <3>3, <3>4
    <2>3. CASE MakeDefault
      <3>1. CASE HasDefault("outer") /\ (UsesInner => HasDefault("inner"))
        <4>1. PICK values : values = Default
          OBVIOUS
        <4>2. b = [made |-> "default", start |-> NoStart, values |-> values]
          BY <1>1, <2>3, <3>1, <4>1 DEF MakeDefault
        <4>3. b.made = "default" /\ b.values = values
          BY <4>2
        <4>4. \A k \in 1 .. Len(types["outer"].fields) :
                 /\ <<"outer", k>> \in DOMAIN values
                 /\ types["outer"].fields[k].type = "inner" =>
                       \A j \in 1 .. Len(types["inner"].fields) :
                          <<"inner", j>> \in DOMAIN values[<<"outer", k>>].members
          BY <3>1, <4>1, DefaultIs
        <4> QED BY <4>3, <4>4 DEF Present, FieldPresent, HeldBy
      <3>2. CASE ~(HasDefault("outer") /\ (UsesInner => HasDefault("inner")))
        BY <2>1, <2>3, <3>2 DEF MakeDefault
      <3> QED BY <3>1, <3>2
    <2>4. CASE SetMember
      <3>1. PICK f \in FieldsOf("outer") :
               /\ f.type \in {"byte", "short"}
               /\ b = [instance EXCEPT !.values = Over(Only(f.name, NewLeaf(f.type)), @)]
        BY <1>1, <2>4 DEF SetMember
      <3>2. PICK k \in 1 .. Len(types["outer"].fields) : f = types["outer"].fields[k]
        BY FieldsAre DEF Objects
      <3>3. f.name = <<"outer", k>>
        BY <3>2 DEF TypesInv, Objects
      <3>4. PICK a : a = instance
        OBVIOUS
      <3>5. PICK g : g = Only(f.name, NewLeaf(f.type))
        OBVIOUS
      <3>6. DOMAIN g = {f.name}
        BY <3>5 DEF Only
      <3>7. PICK h : h = a.values
        OBVIOUS
      <3>8. PICK values : values = Over(g, h)
        OBVIOUS
      <3>9. b = [a EXCEPT !.values = values] /\ IsInstance(a) /\ Present(a)
        BY <3>1, <3>4, <3>5, <3>7, <3>8
      <3>10. b.made = a.made /\ b.values = values
        <4>1. a = [made |-> a.made, start |-> a.start, values |-> a.values]
          BY <3>9 DEF IsInstance
        <4> QED BY <3>9, <4>1
      <3>11. /\ DOMAIN values = {f.name} \cup DOMAIN h
             /\ \A m \in DOMAIN h : m # f.name => values[m] = h[m]
        BY <3>6, <3>8 DEF Over
      <3>12. ASSUME NEW i \in 1 .. Len(types["outer"].fields),
                    types["outer"].fields[i].type = "inner", <<"outer", i>> \in DOMAIN h
             PROVE  DOMAIN a.values[<<"outer", i>>].members
                      \subseteq DOMAIN b.values[<<"outer", i>>].members
        <4>1. <<"outer", i>> # f.name
          BY <3>1, <3>2, <3>3, <3>12
        <4> QED BY <3>7, <3>10, <3>11, <3>12, <4>1
      <3>13. a.made \in {"nothing", "read", "default"}
        BY <3>9 DEF IsInstance
      <3>14. Present(a)
        BY <3>9
      <3>15. b.made = a.made
        BY <3>10
      <3>16. DOMAIN a.values \subseteq DOMAIN b.values
        BY <3>7, <3>10, <3>11
      <3>17. \A i \in 1 .. Len(types["outer"].fields) :
               types["outer"].fields[i].type = "inner" /\ <<"outer", i>> \in DOMAIN a.values =>
                  DOMAIN a.values[<<"outer", i>>].members
                    \subseteq DOMAIN b.values[<<"outer", i>>].members
        BY <3>7, <3>12
      <3> QED BY <3>13, <3>14, <3>15, <3>16, <3>17, SetIsPresent
    <2>5. CASE SetNested
      <3>1. PICK n \in DOMAIN instance.values : \E f \in FieldsOf("inner") :
               b = [instance EXCEPT !.values[n].members = Over(Only(f.name, NewLeaf(f.type)), @)]
        BY <1>1, <2>5 DEF SetNested
      <3>2. PICK f \in FieldsOf("inner") :
               b = [instance EXCEPT !.values[n].members = Over(Only(f.name, NewLeaf(f.type)), @)]
        BY <3>1
      <3>3. PICK a : a = instance
        OBVIOUS
      <3>4. PICK g : g = Only(f.name, NewLeaf(f.type))
        OBVIOUS
      <3>5. PICK h : h = a.values[n].members
        OBVIOUS
      <3>6. PICK members : members = Over(g, h)
        OBVIOUS
      <3>7. DOMAIN h \subseteq DOMAIN members
        BY <3>6 DEF Over
      <3>8. PICK w : w = [a.values[n] EXCEPT !.members = members]
        OBVIOUS
      <3>9. PICK values : values = [a.values EXCEPT ![n] = w]
        OBVIOUS
      <3>10. b = [a EXCEPT !.values = values] /\ n \in DOMAIN a.values
             /\ IsInstance(a) /\ Present(a)
        BY <3>1, <3>2, <3>3, <3>4, <3>5, <3>6, <3>8, <3>9
      <3>11. a.made \in {"nothing", "read", "default"} /\ b.made = a.made /\ b.values = values
        <4>1. a = [made |-> a.made, start |-> a.start, values |-> a.values]
              /\ a.made \in {"nothing", "read", "default"}
          BY <3>10 DEF IsInstance
        <4> QED BY <3>10, <4>1
      <3>12. /\ DOMAIN values = DOMAIN a.values
             /\ \A m \in DOMAIN a.values : m # n => values[m] = a.values[m]
             /\ values[n] = w
        BY <3>9, <3>10
      <3>13. ASSUME NEW i \in 1 .. Len(types["outer"].fields),
                    types["outer"].fields[i].type = "inner", <<"outer", i>> \in DOMAIN a.values
             PROVE  DOMAIN a.values[<<"outer", i>>].members
                      \subseteq DOMAIN b.values[<<"outer", i>>].members
        <4>1. PICK m : m = <<"outer", i>>
          OBVIOUS
        <4>2. CASE m # n
          BY <3>11, <3>12, <3>13, <4>1, <4>2
        <4>3. CASE m = n
          <5>1. a.values[m] = Compound(h)
            <6>1. IsField(a, m, a.values[m])
              <7>1. \A j : m # <<"inner", j>>
                BY <4>1
              <7> QED BY <3>10, <4>3, <7>1 DEF IsInstance, IsMember
            <6>2. IsNested(a, a.values[m])
              BY <3>13, <4>1, <6>1 DEF IsField
            <6> QED BY <3>5, <4>3, <6>2 DEF IsNested
          <5>2. w.members = members
            BY <3>8, <4>3, <5>1 DEF Compound, Value
          <5> QED BY <3>5, <3>7, <3>11, <3>12, <4>1, <4>3, <5>2
        <4> QED BY <4>2, <4>3
      <3>14. Present(a)
        BY <3>10
      <3>15. a.made \in {"nothing", "read", "default"}
        BY <3>11
      <3>16. b.made = a.made
        BY <3>11
      <3>17. DOMAIN a.values \subseteq DOMAIN b.values
        BY <3>11, <3>12
      <3>18. \A i \in 1 .. Len(types["outer"].fields) :
               types["outer"].fields[i].type = "inner" /\ <<"outer", i>> \in DOMAIN a.values =>
                  DOMAIN a.values[<<"outer", i>>].members
                    \subseteq DOMAIN b.values[<<"outer", i>>].members
        BY <3>13
      <3> QED BY <3>14, <3>15, <3>16, <3>17, <3>18, SetIsPresent
    <2>6. CASE SetAnonymous \/ Dump \/ AddField \/ Measure \/ Seek \/ FollowNull \/ Follow
               \/ UNCHANGED objectVars
      BY <2>1, <2>6 DEF SetAnonymous, Dump, AddField, Measure, Seek, FollowNull, Follow, objectVars
    <2> QED BY <2>2, <2>3, <2>4, <2>5, <2>6 DEF ObjectsNext
  <1>3. ASSUME Untouched' PROVE SameTypes
    <2>1. CASE AddField
      <3>1. PICK o \in Objects : added' = [added EXCEPT ![o] = @ + 1]
        BY <2>1 DEF AddField
      <3>2. added[o] \in Nat /\ added'[o] = added[o] + 1
        BY <3>1 DEF TypesInv
      <3> QED BY <1>3, <3>2 DEF Untouched
    <2> QED BY <2>1, StepTypes
  <1>4. Present(b)'
    <2>1. ASSUME b.made # "nothing", Untouched',
                 NEW k \in 1 .. Len(types'["outer"].fields)
          PROVE  FieldPresent(b, k)'
      <3>1. /\ types'["outer"].fields = types["outer"].fields
            /\ types'["inner"].fields = types["inner"].fields
            /\ types'["inner"].anonymous = types["inner"].anonymous
            /\ added' = added
        BY <1>3, <2>1 DEF SameTypes, Objects
      <3>2. FieldPresent(b, k)
        BY <1>2, <2>1, <3>1 DEF Present, Untouched
      <3> QED BY <3>1, <3>2 DEF FieldPresent, HeldBy, Anonymous
    <2> QED BY <2>1 DEF Present
  <1> QED BY <1>1, <1>4

-----------------------------------------------------------------------------
(* What is dumped *)

\* What a byte of a dump is: a byte of the stream, New or a zero
Dumped(inst, set, i) ==
    IF inst.made = "default" THEN 0
    ELSE IF inst.start + i \in set THEN New ELSE inst.start + i

\* The bytes of an instance that was read, where the writers put them
LEMMA OverlayDumped ==
    ASSUME TypesInv, LengthInv, OffsetsInv, IsInstance(instance), instance.made = "read",
           ReadOverlay(instance, replaced), Kept(replaced),
           NEW k \in 1 .. Len(types["outer"].fields), NEW i, NEW b, ByteOf(k, i, b)
    PROVE  b = Dumped(instance, replaced, i)
  <1>1. Plain /\ "outer" \in Objects /\ "inner" \in Objects
    BY DEF Kept, Objects
  <1>2. PICK place \in Nat : place = PlaceOf(k) /\ place = Place(types["outer"], InnerLength, k)
    BY <1>1, PlacesAre DEF PlaceOf
  <1>3. PICK inst : inst = instance
    OBVIOUS
  <1>4. inst.made = "read" /\ inst.start \in Nat
    BY <1>3 DEF IsInstance
  <1>5. PICK start \in Nat : start = inst.start
    BY <1>4
  <1>6. FieldOverlay(inst, k, replaced)
    BY <1>3 DEF ReadOverlay
  <1>7. b = IF start + i \in replaced THEN New ELSE start + i
    <2>1. CASE types["outer"].fields[k].type # "inner"
      <3>1. PICK v : v = inst.values[<<"outer", k>>]
        OBVIOUS
      <3>2. OverlayAt(v, start + place, replaced)
        BY <1>2, <1>3, <1>5, <1>6, <2>1, <3>1 DEF FieldOverlay, ByteOf, ByName
      <3>3. PICK l \in 1 .. Len(v.bytes) : i = place + l /\ b = v.bytes[l]
        BY <1>2, <1>3, <2>1, <3>1 DEF ByteOf
      <3>4. (start + place) + l = start + i
        BY <3>3
      <3> QED BY <3>2, <3>3, <3>4 DEF OverlayAt
    <2>2. CASE types["outer"].fields[k].type = "inner"
      <3>1. PICK members : members = MembersOf(k)
        OBVIOUS
      <3>2. PICK j \in 1 .. Len(types["inner"].fields) :
               /\ <<"inner", j>> \in DOMAIN members
               /\ \E l \in 1 .. Len(members[<<"inner", j>>].bytes) :
                     /\ i = place + (Place(types["inner"], InnerLength, j) + l)
                     /\ b = members[<<"inner", j>>].bytes[l]
        BY <1>2, <2>2, <3>1 DEF ByteOf
      <3>3. PICK at \in Nat : at = PlaceIn(j) /\ at = Place(types["inner"], InnerLength, j)
        BY <1>1, PlacesAre DEF PlaceIn
      <3>4. PICK v : v = members[<<"inner", j>>]
        OBVIOUS
      <3>5. PICK l \in 1 .. Len(v.bytes) : i = place + (at + l) /\ b = v.bytes[l]
        BY <3>2, <3>3, <3>4
      <3>6. MembersOverlay(members, start + place, replaced)
        <4>1. CASE Anonymous
          <5>1. <<"outer", k>> \notin DOMAIN inst.values
            BY <1>3, <1>4, <2>2, <4>1 DEF ReadOverlay
          <5>2. ~ByName(k)
            BY <1>3, <5>1 DEF ByteOf
          <5> QED BY <1>2, <1>3, <1>5, <1>6, <2>2, <3>1, <4>1, <5>2 DEF FieldOverlay, MembersOf
        <4>2. CASE ~Anonymous
          <5>1. ByName(k) /\ <<"outer", k>> \in DOMAIN inst.values
            BY <1>3, <4>2 DEF ByteOf, ByName
          <5> QED BY <1>2, <1>3, <1>5, <1>6, <2>2, <3>1, <4>2, <5>1 DEF FieldOverlay, MembersOf
        <4> QED BY <4>1, <4>2
      <3>7. OverlayAt(v, (start + place) + at, replaced)
        BY <3>2, <3>3, <3>4, <3>6 DEF MembersOverlay
      <3>8. ((start + place) + at) + l = start + i
        BY <3>5
      <3> QED BY <3>5, <3>7, <3>8 DEF OverlayAt
    <2> QED BY <2>1, <2>2
  <1> QED BY <1>3, <1>4, <1>5, <1>7 DEF Dumped

\* The bytes of an instance that was made by default and not set
LEMMA ZerosDumped ==
    ASSUME instance.made = "default", DefaultZeros(instance, {}),
           NEW k \in 1 .. Len(types["outer"].fields), NEW i, NEW b, ByteOf(k, i, b)
    PROVE  b = 0
  <1>1. PICK values : values = instance.values
    OBVIOUS
  <1>2. \A m \in DOMAIN values :
           /\ Zeros(values[m])
           /\ \A n \in DOMAIN values[m].members : Zeros(values[m].members[n])
    BY <1>1 DEF DefaultZeros
  <1>3. CASE types["outer"].fields[k].type # "inner"
    <2>1. <<"outer", k>> \in DOMAIN values
      BY <1>1, <1>3 DEF ByteOf, ByName
    <2>2. \E l \in 1 .. Len(values[<<"outer", k>>].bytes) : b = values[<<"outer", k>>].bytes[l]
      BY <1>1, <1>3 DEF ByteOf
    <2> QED BY <1>2, <2>1, <2>2 DEF Zeros
  <1>4. CASE types["outer"].fields[k].type = "inner"
    <2>1. PICK members : members = MembersOf(k)
      OBVIOUS
    <2>2. PICK j \in 1 .. Len(types["inner"].fields) :
             /\ <<"inner", j>> \in DOMAIN members
             /\ \E l \in 1 .. Len(members[<<"inner", j>>].bytes) :
                   b = members[<<"inner", j>>].bytes[l]
      BY <1>4, <2>1 DEF ByteOf
    <2>3. Zeros(members[<<"inner", j>>])
      <3>1. CASE ByName(k)
        <4>1. <<"outer", k>> \in DOMAIN values /\ members = values[<<"outer", k>>].members
          BY <1>1, <2>1, <3>1 DEF ByteOf, MembersOf
        <4> QED BY <1>2, <2>2, <4>1
      <3>2. CASE ~ByName(k)
        <4>1. members = values
          BY <1>1, <2>1, <3>2 DEF MembersOf
        <4> QED BY <1>2, <2>2, <4>1
      <3> QED BY <3>1, <3>2
    <2> QED BY <2>2, <2>3 DEF Zeros
  <1> QED BY <1>3, <1>4

\* The writers find every field where they look for it.
LEMMA AllFound ==
    ASSUME TypesInv, IsInstance(instance), Present(instance), instance.made # "nothing",
           Untouched, ~HasPointers,
           ~(UsesInner /\ Anonymous /\ types["outer"].union = (instance.made = "read")),
           NEW k \in 1 .. Len(types["outer"].fields)
    PROVE  Found(k)
  <1>1. "outer" \in Objects /\ "inner" \in Objects
    BY DEF Objects
  <1>2. types["outer"].fields[k].type # "pointer"
    <2>1. FieldsOf("outer") = {types["outer"].fields[j] : j \in 1 .. Len(types["outer"].fields)}
      BY <1>1, FieldsAre
    <2> QED BY <2>1 DEF HasPointers, HasDefault
  <1>3. ASSUME UsesInner, NEW j \in 1 .. Len(types["inner"].fields)
        PROVE  types["inner"].fields[j].type # "pointer"
    <2>1. FieldsOf("inner") = {types["inner"].fields[i] : i \in 1 .. Len(types["inner"].fields)}
      BY <1>1, FieldsAre
    <2> QED BY <1>3, <2>1 DEF HasPointers, HasDefault
  <1>4. PICK inst : inst = instance
    OBVIOUS
  <1>5. inst.made \in {"read", "default"}
    BY <1>4 DEF IsInstance
  <1>6. FieldPresent(inst, k)
    BY <1>4 DEF Present
  <1>7. CASE types["outer"].fields[k].type # "inner"
    BY <1>2, <1>4, <1>6, <1>7 DEF Found, FieldPresent
  <1>8. CASE types["outer"].fields[k].type = "inner"
    <2>1. UsesInner
      BY <1>8, UsesIs
    <2>2. /\ ByName(k) => <<"outer", k>> \in DOMAIN inst.values
          /\ HeldBy(inst, k) = MembersOf(k)
      <3>1. CASE ~Anonymous
        BY <1>4, <1>6, <1>8, <3>1 DEF FieldPresent, HeldBy, ByName, MembersOf
      <3>2. CASE Anonymous /\ inst.made = "read"
        <4>1. ~types["outer"].union
          BY <1>4, <2>1, <3>2 DEF TypesInv, Types
        <4> QED BY <1>4, <1>8, <3>2, <4>1 DEF HeldBy, ByName, MembersOf
      <3>3. CASE Anonymous /\ inst.made = "default"
        <4>1. types["outer"].union
          BY <1>1, <1>4, <2>1, <3>3 DEF TypesInv, Types
        <4> QED BY <1>4, <1>6, <1>8, <3>3, <4>1 DEF FieldPresent, HeldBy, ByName, MembersOf
      <3> QED BY <1>5, <3>1, <3>2, <3>3
    <2>3. \A j \in 1 .. Len(types["inner"].fields) : <<"inner", j>> \in DOMAIN MembersOf(k)
      BY <1>6, <1>8, <2>2 DEF FieldPresent
    <2> QED BY <1>3, <1>4, <1>8, <2>1, <2>2, <2>3 DEF Found
  <1> QED BY <1>7, <1>8

LEMMA DumpedStep ==
    ASSUME TypesInv, LengthInv, OffsetsInv, IsInstance(instance),
           ReadOverlay(instance, replaced), DefaultZeros(instance, replaced), Present(instance),
           Dump
    PROVE  DumpIsOverlay' /\ DumpSucceeds'
  <1>1. PICK r : r = DumpOuter
    OBVIOUS
  <1>2. result' = [call |-> "dump", ok |-> r.ok, bytes |-> r.bytes]
    BY <1>1 DEF Dump, Outcome
  <1>3. result'.call = "dump" /\ result'.ok = r.ok /\ result'.bytes = r.bytes
    BY <1>2
  <1>4. /\ r \in Dumps
        /\ (\A k \in 1 .. Len(types["outer"].fields) : Found(k)) => r.ok
        /\ r.ok /\ (\A o \in Objects : Packed(types[o], InnerLength)) =>
              /\ Len(r.bytes) = CalcSize("outer")
              /\ \A i \in 1 .. Len(r.bytes) : \E k \in 1 .. Len(types["outer"].fields) :
                    ByteOf(k, i, r.bytes[i])
    BY <1>1, OuterDumped
  <1>5. /\ instance' = instance /\ replaced' = replaced /\ added' = added
        /\ instance.made # "nothing"
    BY DEF Dump
  <1>6. SameTypes
    <2>1. CASE types' = types
      BY <1>5, <2>1 DEF SameTypes
    <2>2. CASE types' = Measured({"inner"})
      BY <1>5, <2>2, MeasuredSafe DEF Objects
    <2> QED BY <2>1, <2>2 DEF Dump
  <1>7. ASSUME r.ok, Plain, New \notin replaced, added["inner"] = 0,
               replaced = {} \/ (instance.made = "read" /\ NoUnions),
               NEW i \in DOMAIN r.bytes
        PROVE  r.bytes[i] = Dumped(instance, replaced, i)
    <2>1. \A o \in Objects : Packed(types[o], InnerLength)
      BY <1>7, PlainIsPacked
    <2>2. i \in 1 .. Len(r.bytes)
      BY <1>4, <1>7 DEF Dumps
    <2>3. PICK k \in 1 .. Len(types["outer"].fields) : ByteOf(k, i, r.bytes[i])
      BY <1>4, <1>7, <2>1, <2>2
    <2>4. PICK b : b = r.bytes[i]
      OBVIOUS
    <2>5. CASE instance.made = "read"
      <3>1. Kept(replaced)
        BY <1>7 DEF Kept
      <3>2. b = Dumped(instance, replaced, i)
        BY <2>3, <2>4, <2>5, <3>1, OverlayDumped
      <3> QED BY <2>4, <3>2
    <2>6. CASE instance.made = "default"
      <3>1. replaced = {}
        BY <1>7, <2>6
      <3>2. DefaultZeros(instance, {})
        BY <3>1
      <3>3. b = 0
        BY <2>3, <2>4, <2>6, <3>2, ZerosDumped
      <3>4. Dumped(instance, replaced, i) = 0
        BY <2>6, Zenon DEF Dumped
      <3> QED BY <2>4, <3>3, <3>4
    <2> QED BY <1>5, <2>5, <2>6 DEF IsInstance
  <1>8. DumpIsOverlay'
    <2>1. (Plain' <=> Plain) /\ (NoUnions' <=> NoUnions)
      BY <1>6 DEF SameTypes, Plain, NoUnions
    <2> QED BY <1>3, <1>5, <1>7, <2>1 DEF DumpIsOverlay, Dumped, NoUnions
  <1>9. DumpSucceeds'
    <2>1. /\ (Untouched' <=> Untouched) /\ (HasPointers' <=> HasPointers)
          /\ (UsesInner' <=> UsesInner)
          /\ types'["inner"].anonymous = types["inner"].anonymous
          /\ types'["outer"].union = types["outer"].union
      BY <1>6 DEF SameTypes, Untouched, HasPointers, HasDefault, UsesInner, FieldsOf, Objects
    <2>2. ASSUME Untouched, ~HasPointers,
                 ~(UsesInner /\ Anonymous /\ types["outer"].union = (instance.made = "read"))
          PROVE  r.ok
      <3>1. \A k \in 1 .. Len(types["outer"].fields) : Found(k)
        BY <1>5, <2>2, AllFound
      <3> QED BY <1>4, <3>1
    <2> QED BY <1>3, <1>5, <2>1, <2>2 DEF DumpSucceeds, Anonymous
  <1> QED BY <1>8, <1>9

LEMMA NotDumped ==
    ASSUME DumpIsOverlay, DumpSucceeds, [ObjectsNext]_objectVars, ~Dump
    PROVE  DumpIsOverlay' /\ DumpSucceeds'
  <1>1. CASE \E ok : result' = Quiet(ok)
    <2>1. PICK ok : result' = [call |-> "other", ok |-> ok, bytes |-> <<>>]
      BY <1>1 DEF Quiet
    <2>2. result'.call # "dump"
      BY <2>1
    <2> QED BY <2>2 DEF DumpIsOverlay, DumpSucceeds
  <1>2. CASE \E r : result' = Outcome("follow", r)
    <2>1. PICK r : result' = [call |-> "follow", ok |-> r.ok, bytes |-> r.bytes]
      BY <1>2 DEF Outcome
    <2>2. result'.call # "dump"
      BY <2>1
    <2> QED BY <2>2 DEF DumpIsOverlay, DumpSucceeds
  <1>3. CASE UNCHANGED objectVars
    BY <1>3 DEF objectVars, DumpIsOverlay, DumpSucceeds, Plain, Untouched, HasPointers,
                HasDefault, UsesInner, FieldsOf
  <1>4. CASE Read
    <2>1. CASE ReadOuter(pos).ok
      BY <1>1, <1>4, <2>1 DEF Read
    <2>2. CASE ~ReadOuter(pos).ok
      BY <1>1, <1>4, <2>2 DEF Read
    <2> QED BY <2>1, <2>2
  <1>5. CASE MakeDefault
    <2>1. CASE HasDefault("outer") /\ (UsesInner => HasDefault("inner"))
      BY <1>1, <1>5, <2>1 DEF MakeDefault
    <2>2. CASE ~(HasDefault("outer") /\ (UsesInner => HasDefault("inner")))
      BY <1>1, <1>5, <2>2 DEF MakeDefault
    <2> QED BY <2>1, <2>2
  <1>6. CASE SetMember \/ SetNested \/ SetAnonymous \/ AddField \/ Measure \/ Seek
    BY <1>1, <1>6 DEF SetMember, SetNested, SetAnonymous, AddField, Measure, Seek
  <1>7. CASE FollowNull \/ Follow
    BY <1>2, <1>7 DEF FollowNull, Follow
  <1> QED BY <1>3, <1>4, <1>5, <1>6, <1>7 DEF ObjectsNext

-----------------------------------------------------------------------------
(* Theorems *)

DumpInv ==
    /\ ObjectsInv
    /\ ReadOverlay(instance, replaced)
    /\ DefaultZeros(instance, replaced)
    /\ Present(instance)
    /\ DumpIsOverlay
    /\ DumpSucceeds

LEMMA DumpInvInit == ObjectsInit => DumpInv
  <1> SUFFICES ASSUME ObjectsInit PROVE DumpInv
    OBVIOUS
  <1>1. ObjectsInv
    BY ObjectsInvInit
  <1>2. instance = [made |-> "nothing", start |-> NoStart, values |-> Nothing]
    BY DEF ObjectsInit
  <1>3. instance.made = "nothing"
    BY <1>2
  <1>4. result = [call |-> "other", ok |-> TRUE, bytes |-> <<>>]
    BY DEF ObjectsInit, Quiet
  <1>5. result.call = "other"
    BY <1>4
  <1> QED BY <1>1, <1>3, <1>5
          DEF DumpInv, ReadOverlay, DefaultZeros, Present, DumpIsOverlay, DumpSucceeds

LEMMA DumpInvStep == DumpInv /\ [ObjectsNext]_objectVars => DumpInv'
  <1> SUFFICES ASSUME DumpInv, [ObjectsNext]_objectVars PROVE DumpInv'
    OBVIOUS
  <1>1. /\ TypesInv /\ LengthInv /\ OffsetsInv /\ OneInner
        /\ pos \in Nat /\ IsInstance(instance) /\ ObjectsInv
    BY DEF DumpInv, ObjectsInv, StreamInv
  <1>2. ReadOverlay(instance, replaced) /\ DefaultZeros(instance, replaced) /\ Present(instance)
    BY DEF DumpInv
  <1>3. ObjectsInv'
    BY <1>1, ObjectsInvStep
  <1>4. ReadOverlay(instance, replaced)'
    BY <1>1, <1>2, OverlayStep
  <1>5. DefaultZeros(instance, replaced)'
    BY <1>1, <1>2, ZerosStep
  <1>6. Present(instance)'
    BY <1>1, <1>2, PresentStep
  <1>7. DumpIsOverlay' /\ DumpSucceeds'
    <2>1. CASE Dump
      BY <1>1, <1>2, <2>1, DumpedStep
    <2>2. CASE ~Dump
      BY <2>2, NotDumped DEF DumpInv
    <2> QED BY <2>1, <2>2
  <1> QED BY <1>3, <1>4, <1>5, <1>6, <1>7 DEF DumpInv

\* The inductive invariant: what an instance holds is where the readers put it, has the
\* bytes it was read from or set to, and so has what Structure._write and Union._write
\* make of it.
THEOREM DumpInvariant == ObjectsSpec => []DumpInv
  <1> QED BY DumpInvInit, DumpInvStep, PTL DEF ObjectsSpec

\* A dump is the bytes that were read, but for the members that were set since.
THEOREM DumpsAreOverlays == ObjectsSpec => []DumpIsOverlay
  <1>1. DumpInv => DumpIsOverlay
    BY DEF DumpInv
  <1> QED BY <1>1, DumpInvariant, PTL

\* An instance can be dumped, unless its anonymous structure is where the writer does
\* not look.
THEOREM DumpsSucceed == ObjectsSpec => []DumpSucceeds
  <1>1. DumpInv => DumpSucceeds
    BY DEF DumpInv
  <1> QED BY <1>1, DumpInvariant, PTL

=============================================================================

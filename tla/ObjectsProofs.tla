----------------------------- MODULE ObjectsProofs -----------------------------
(***************************************************************************)
(* Theorems about the structures, instances and pointers of StructObjects: *)
(* what is read, dumped and measured agree, whatever is added and in which *)
(* order, for every structure and every stream.                            *)
(***************************************************************************)
EXTENDS StructObjects, FiniteSetTheorems, WellFoundedInduction, TLAPS

Fields == [name : Objects \X Nat, type : FieldTypes, offset : Nat \cup {NoOffset}]

Types == [union : BOOLEAN, anonymous : BOOLEAN, fields : Seq(Fields),
          size : Nat \cup {NoSize}]

\* A type that can be measured
IsType(type) ==
    /\ type.union \in BOOLEAN
    /\ type.fields \in Seq(Fields)
    /\ Len(type.fields) > 0

-----------------------------------------------------------------------------
(* Numbers *)

\* A set of numbers that is not empty has a least one.
LEMMA Least ==
    ASSUME NEW T \in SUBSET Nat, T # {}
    PROVE  \E x \in T : \A y \in T : x <= y
  <1> DEFINE R == OpToRel(<, Nat)
  <1>1. IsWellFoundedOn(R, Nat)
    BY NatLessThanWellFounded
  <1>2. \E x \in T : \A y \in T : ~ (<<y, x>> \in R)
    <2> HIDE DEF R
    <2> QED BY <1>1, WFMin
  <1>3. \A x, y \in Nat : y < x => <<y, x>> \in R
    BY DEF OpToRel
  <1>4. PICK x \in T : \A y \in T : ~ (<<y, x>> \in R)
    BY <1>2
  <1>5. ASSUME NEW y \in T PROVE x <= y
    <2>1. x \in Nat /\ y \in Nat /\ ~ (y < x)
      BY <1>3, <1>4
    <2> QED BY <2>1
  <1>6. QED
    BY <1>5

\* The largest of a set of numbers, where there is one
LEMMA MaxIs ==
    ASSUME NEW S \in SUBSET Int, NEW x \in S, \A y \in S : x >= y
    PROVE  Max(S) = x
  <1>1. Max(S) \in S /\ \A y \in S : Max(S) >= y
    BY DEF Max
  <1>2. Max(S) \in Int /\ Max(S) >= x /\ x >= Max(S)
    BY <1>1
  <1> QED BY <1>2

LEMMA MinIs ==
    ASSUME NEW S \in SUBSET Int, NEW x \in S, \A y \in S : x <= y
    PROVE  Min(S) = x
  <1>1. Min(S) \in S /\ \A y \in S : Min(S) <= y
    BY DEF Min
  <1>2. Min(S) \in Int /\ Min(S) <= x /\ x <= Min(S)
    BY <1>1
  <1> QED BY <1>2

LEMMA MaxOfTwo ==
    ASSUME NEW a \in Int, NEW b \in Int
    PROVE  Max({a, b}) = IF a >= b THEN a ELSE b
  <1>1. CASE a >= b
    BY <1>1, MaxIs
  <1>2. CASE ~ (a >= b)
    <2>1. b >= a
      BY <1>2
    <2> QED BY <1>2, <2>1, MaxIs
  <1> QED BY <1>1, <1>2

LEMMA MinOfTwo ==
    ASSUME NEW a \in Int, NEW b \in Int
    PROVE  Min({a, b}) = IF a <= b THEN a ELSE b
  <1>1. CASE a <= b
    BY <1>1, MinIs
  <1>2. CASE ~ (a <= b)
    <2>1. b <= a
      BY <1>2
    <2> QED BY <1>2, <2>1, MinIs
  <1> QED BY <1>1, <1>2

\* A bounded set of numbers that is not empty has a largest one.
LEMMA LargestNumber ==
    ASSUME NEW S \in SUBSET Nat, S # {}, NEW b \in Nat, \A y \in S : y <= b
    PROVE  Max(S) \in S /\ \A y \in S : y <= Max(S)
  <1> DEFINE T == {m \in Nat : \A y \in S : y <= m}
  <1>1. PICK m \in T : \A n \in T : m <= n
    <2>1. b \in T
      OBVIOUS
    <2> HIDE DEF T
    <2>2. T \in SUBSET Nat
      BY DEF T
    <2> QED BY <2>1, <2>2, Least
  <1>2. m \in S
    <2> SUFFICES ASSUME m \notin S PROVE FALSE
      OBVIOUS
    <2>1. \A y \in S : y < m
      BY <1>1
    <2>2. m - 1 \in T
      <3>1. PICK y \in S : TRUE
        OBVIOUS
      <3>2. m - 1 \in Nat
        BY <2>1, <3>1, <1>1
      <3> QED BY <2>1, <3>2
    <2> QED BY <1>1, <2>2
  <1>3. Max(S) = m
    <2>1. S \in SUBSET Int /\ \A y \in S : m >= y
      BY <1>1
    <2> QED BY <1>2, <2>1, MaxIs
  <1>4. \A y \in S : y <= m
    BY <1>1
  <1> HIDE DEF T
  <1> QED BY <1>2, <1>3, <1>4

-----------------------------------------------------------------------------
(* Lengths *)

LEMMA SizeOfType ==
    ASSUME NEW t \in FieldTypes, NEW inner \in Nat
    PROVE  SizeOf(t, inner) \in Nat
  BY ObjectsAssumption DEF SizeOf, TypeSizes

\* A field takes its size, behind the fields before it or at its offset.
LEMMA ExtentOfField ==
    ASSUME NEW size \in Nat, NEW f \in Fields, NEW inner \in Nat
    PROVE  /\ Extent(size, f, inner) \in Nat
           /\ Extent(size, f, inner) >= size + SizeOf(f.type, inner)
           /\ f.offset # NoOffset => Extent(size, f, inner) >= f.offset + SizeOf(f.type, inner)
           /\ \/ Extent(size, f, inner) = size + SizeOf(f.type, inner)
              \/ /\ f.offset # NoOffset
                 /\ Extent(size, f, inner) = f.offset + SizeOf(f.type, inner)
  <1> DEFINE n == SizeOf(f.type, inner)
  <1>1. n \in Nat
    <2>1. f.type \in FieldTypes
      BY DEF Fields
    <2> QED BY <2>1, SizeOfType
  <1>2. Extent(size, f, inner) = IF f.offset = NoOffset THEN size + n
                                 ELSE Max({size + n, f.offset + n})
    BY DEF Extent
  <1>3. f.offset \in Nat \cup {NoOffset}
    BY DEF Fields
  <1> HIDE DEF n
  <1>4. CASE f.offset = NoOffset
    <2>1. n >= 0 /\ size + n \in Nat /\ size + n >= size + n
      BY <1>1
    <2> QED BY <1>2, <1>4, <2>1 DEF n
  <1>5. CASE f.offset # NoOffset
    <2>1. size + n \in Int /\ f.offset + n \in Int
      BY <1>1, <1>3, <1>5
    <2>2. Extent(size, f, inner) = IF size + n >= f.offset + n THEN size + n ELSE f.offset + n
      BY <1>2, <1>5, <2>1, MaxOfTwo
    <2>3. size + n \in Nat /\ f.offset + n \in Nat
      BY <1>1, <1>3, <1>5
    <2>4. size + n >= size + n /\ f.offset + n >= f.offset + n
      BY <2>3
    <2>5. CASE size + n >= f.offset + n
      BY <2>2, <2>3, <2>4, <2>5, <1>5 DEF n
    <2>6. CASE ~ (size + n >= f.offset + n)
      <3>1. f.offset + n >= size + n
        BY <2>3, <2>6
      <3> QED BY <2>2, <2>3, <2>4, <2>6, <3>1, <1>5 DEF n
    <2> QED BY <2>5, <2>6
  <1> QED BY <1>4, <1>5

\* Where the fields of a structure end, one after the other
Ends(g, type, inner) ==
    /\ g[0] = 0
    /\ \A k \in 1 .. Len(type.fields) :
          /\ g[k - 1] \in Nat
          /\ g[k] \in Nat
          /\ g[k] = Extent(g[k - 1], type.fields[k], inner)

Counts(g, type, inner, n) ==
    g = [k \in 0 .. n |-> IF k = 0 THEN 0 ELSE Extent(g[k - 1], type.fields[k], inner)]

LEMMA CountsExist ==
    ASSUME NEW type, NEW inner
    PROVE  \A n \in Nat : \E g : Counts(g, type, inner, n)
  <1> DEFINE T == {n \in Nat : ~ \E g : Counts(g, type, inner, n)}
  <1> SUFFICES ASSUME T # {} PROVE FALSE
    OBVIOUS
  <1>1. PICK n \in T : \A m \in T : n <= m
    <2>1. T \in SUBSET Nat
      OBVIOUS
    <2> HIDE DEF T
    <2> QED BY <2>1, Least
  <1>2. CASE n = 0
    <2> DEFINE g == [k \in 0 .. 0 |-> 0]
    <2>1. Counts(g, type, inner, 0)
      BY DEF Counts
    <2> HIDE DEF g
    <2> QED BY <1>1, <1>2, <2>1
  <1>3. CASE n # 0
    <2>1. n - 1 \in Nat /\ n - 1 \notin T
      BY <1>1, <1>3
    <2>2. PICK g : Counts(g, type, inner, n - 1)
      BY <2>1
    <2> DEFINE h == [k \in 0 .. n |-> IF k = 0 THEN 0
                                      ELSE Extent(g[k - 1], type.fields[k], inner)]
    <2>3. \A k \in 0 .. n - 1 : h[k] = g[k]
      BY <2>1, <2>2 DEF Counts
    <2>4. \A k \in 0 .. n : k # 0 => k - 1 \in 0 .. n - 1
      BY <1>1
    <2>5. Counts(h, type, inner, n)
      BY <2>3, <2>4 DEF Counts
    <2> HIDE DEF h
    <2> QED BY <1>1, <2>5
  <1> QED BY <1>2, <1>3

LEMMA EndsExist ==
    ASSUME NEW type, IsType(type), ~type.union, NEW inner \in Nat
    PROVE  \E g : Ends(g, type, inner) /\ SizeOfFields(type, inner) = g[Len(type.fields)]
  <1> DEFINE n == Len(type.fields)
             P(g) == g = [k \in 0 .. n |-> IF k = 0 THEN 0
                                           ELSE Extent(g[k - 1], type.fields[k], inner)]
             c == CHOOSE g : P(g)
  <1>1. n \in Nat /\ \A k \in 1 .. n : type.fields[k] \in Fields
    BY DEF IsType
  <1>2. SizeOfFields(type, inner) = c[n]
    BY DEF SizeOfFields
  <1>3. P(c)
    <2>1. PICK g : Counts(g, type, inner, n)
      BY <1>1, CountsExist
    <2>2. P(g)
      BY <2>1 DEF Counts
    <2> HIDE DEF P
    <2> QED BY <2>2
  <1>4. PICK g : g = c
    OBVIOUS
  <1>5. \A k \in 0 .. n : g[k] = IF k = 0 THEN 0 ELSE Extent(g[k - 1], type.fields[k], inner)
    <2>1. P(g)
      BY <1>3, <1>4
    <2> HIDE DEF c, n
    <2> QED BY <2>1
  <1> HIDE DEF c, P
  <1> DEFINE T == {k \in 0 .. n : g[k] \notin Nat}
  <1>6. T = {}
    <2> SUFFICES ASSUME T # {} PROVE FALSE
      OBVIOUS
    <2>1. PICK k \in T : \A j \in T : k <= j
      <3>1. T \in SUBSET Nat
        BY <1>1
      <3> HIDE DEF T
      <3> QED BY <3>1, Least
    <2>2. CASE k = 0
      <3>1. g[k] = 0
        BY <1>5, <2>1, <2>2
      <3> QED BY <2>1, <3>1
    <2>3. CASE k # 0
      <3>1. k - 1 \in 0 .. n /\ k - 1 \notin T /\ k \in 1 .. n
        BY <1>1, <2>1, <2>3
      <3>2. g[k - 1] \in Nat
        BY <3>1
      <3>3. g[k] = Extent(g[k - 1], type.fields[k], inner)
        BY <1>5, <2>3, <3>1
      <3>4. Extent(g[k - 1], type.fields[k], inner) \in Nat
        BY <1>1, <3>1, <3>2, ExtentOfField
      <3> QED BY <2>1, <3>3, <3>4
    <2> QED BY <2>2, <2>3
  <1>7. \A k \in 0 .. n : g[k] \in Nat
    BY <1>6
  <1> HIDE DEF T
  <1>8. Ends(g, type, inner)
    <2>1. g[0] = 0
      BY <1>1, <1>5
    <2>2. \A k \in 1 .. n : k \in 0 .. n /\ k - 1 \in 0 .. n /\ k # 0
      BY <1>1
    <2> QED BY <1>5, <1>7, <2>1, <2>2 DEF Ends
  <1> QED BY <1>2, <1>4, <1>8

\* Every field ends within the structure, wherever fields before it ended.
LEMMA EndsAscend ==
    ASSUME NEW type, IsType(type), NEW inner \in Nat, NEW g, Ends(g, type, inner)
    PROVE  /\ \A j, k \in 0 .. Len(type.fields) : j <= k => g[j] <= g[k]
           /\ \A k \in 0 .. Len(type.fields) : g[k] \in Nat
  <1> DEFINE n == Len(type.fields)
  <1>1. n \in Nat /\ n > 0 /\ \A k \in 1 .. n : type.fields[k] \in Fields
    BY DEF IsType
  <1>2. \A k \in 0 .. n : g[k] \in Nat
    BY <1>1 DEF Ends
  <1>3. \A k \in 1 .. n : g[k - 1] <= g[k]
    <2> TAKE k \in 1 .. n
    <2>1. g[k - 1] \in Nat /\ g[k] \in Nat /\ g[k] = Extent(g[k - 1], type.fields[k], inner)
      BY DEF Ends
    <2>2. g[k] >= g[k - 1] + SizeOf(type.fields[k].type, inner)
      <3>1. type.fields[k] \in Fields
        BY <1>1
      <3>2. Extent(g[k - 1], type.fields[k], inner) >= g[k - 1] + SizeOf(type.fields[k].type, inner)
        BY <2>1, <3>1, ExtentOfField
      <3> QED BY <2>1, <3>2
    <2>3. SizeOf(type.fields[k].type, inner) \in Nat
      BY <1>1, SizeOfType DEF Fields
    <2> QED BY <2>1, <2>2, <2>3
  <1> HIDE DEF n
  <1>4. ASSUME NEW j \in 0 .. n PROVE \A k \in 0 .. n : j <= k => g[j] <= g[k]
    <2> DEFINE T == {k \in 0 .. n : j <= k /\ ~ (g[j] <= g[k])}
    <2> SUFFICES ASSUME T # {} PROVE FALSE
      OBVIOUS
    <2>1. PICK k \in T : \A i \in T : k <= i
      <3>1. T \in SUBSET Nat
        BY <1>1
      <3> HIDE DEF T
      <3> QED BY <3>1, Least
    <2>2. j # k
      BY <1>2, <2>1
    <2>3. k - 1 \in 0 .. n /\ k \in 1 .. n /\ j <= k - 1 /\ k - 1 \notin T
      BY <1>1, <2>1, <2>2
    <2>4. g[j] <= g[k - 1] /\ g[k - 1] <= g[k]
      BY <1>3, <2>3
    <2> QED BY <1>2, <2>1, <2>3, <2>4
  <1> QED BY <1>2, <1>4 DEF n

LEMMA SizeOfUnion ==
    ASSUME NEW type, IsType(type), type.union, NEW inner \in Nat
    PROVE  /\ \E k \in 1 .. Len(type.fields) :
                 SizeOfFields(type, inner) = SizeOf(type.fields[k].type, inner)
           /\ \A k \in 1 .. Len(type.fields) :
                 SizeOf(type.fields[k].type, inner) <= SizeOfFields(type, inner)
  <1> DEFINE n == Len(type.fields)
             S == {SizeOf(f.type, inner) : f \in ToSet(type.fields)}
  <1>1. n \in Nat /\ n > 0 /\ \A k \in 1 .. n : type.fields[k] \in Fields
    BY DEF IsType
  <1>2. DOMAIN type.fields = 1 .. n
    BY DEF IsType
  <1>3. ToSet(type.fields) = {type.fields[k] : k \in 1 .. n}
    BY <1>2 DEF ToSet
  <1>4. \A k \in 1 .. n : SizeOf(type.fields[k].type, inner) \in S
    BY <1>3
  <1>5. \A s \in S : \E k \in 1 .. n : s = SizeOf(type.fields[k].type, inner)
    BY <1>3
  <1>6. \A k \in 1 .. n : SizeOf(type.fields[k].type, inner) \in 0 .. inner + 2
    <2> TAKE k \in 1 .. n
    <2>1. type.fields[k].type \in FieldTypes
      BY <1>1 DEF Fields
    <2> QED BY <2>1, ObjectsAssumption DEF SizeOf, TypeSizes
  <1>7. SizeOfFields(type, inner) = Max(S)
    BY DEF SizeOfFields
  <1> HIDE DEF S
  <1>8. S \in SUBSET Nat /\ S # {} /\ inner + 2 \in Nat /\ \A s \in S : s <= inner + 2
    <2>1. 1 \in 1 .. n
      BY <1>1
    <2> QED BY <1>4, <1>5, <1>6, <2>1
  <1>9. Max(S) \in S /\ \A s \in S : s <= Max(S)
    BY <1>8, LargestNumber
  <1> QED BY <1>4, <1>5, <1>7, <1>9

LEMMA SizeIsNumber ==
    ASSUME NEW type, IsType(type), NEW inner \in Nat
    PROVE  SizeOfFields(type, inner) \in Nat
  <1>1. CASE type.union
    <2>1. PICK k \in 1 .. Len(type.fields) :
                 SizeOfFields(type, inner) = SizeOf(type.fields[k].type, inner)
      BY <1>1, SizeOfUnion
    <2>2. type.fields[k] \in Fields
      BY DEF IsType
    <2>3. type.fields[k].type \in FieldTypes
      BY <2>2 DEF Fields
    <2> QED BY <2>1, <2>3, SizeOfType
  <1>2. CASE ~type.union
    <2>1. PICK g : Ends(g, type, inner) /\ SizeOfFields(type, inner) = g[Len(type.fields)]
      BY <1>2, EndsExist
    <2>2. Len(type.fields) \in 0 .. Len(type.fields)
      BY DEF IsType
    <2> QED BY <2>1, <2>2, EndsAscend
  <1> QED BY <1>1, <1>2

\* A type that got more fields, or whose nested type got longer
Grown(type, a, longer, b) ==
    /\ longer.union = type.union
    /\ Len(type.fields) <= Len(longer.fields)
    /\ \A k \in 1 .. Len(type.fields) :
          /\ longer.fields[k] = type.fields[k]
          /\ SizeOf(type.fields[k].type, a) <= SizeOf(type.fields[k].type, b)

LEMMA EndsGrow ==
    ASSUME NEW type, IsType(type), NEW a \in Nat, NEW g, Ends(g, type, a),
           NEW longer, IsType(longer), NEW b \in Nat, NEW h, Ends(h, longer, b),
           Grown(type, a, longer, b)
    PROVE  \A k \in 0 .. Len(type.fields) : g[k] <= h[k]
  <1> DEFINE n == Len(type.fields)
             T == {k \in 0 .. n : ~ (g[k] <= h[k])}
  <1> SUFFICES ASSUME T # {} PROVE FALSE
    OBVIOUS
  <1>1. n \in Nat /\ \A k \in 1 .. n : type.fields[k] \in Fields
    BY DEF IsType
  <1>2. PICK k \in T : \A i \in T : k <= i
    <2>1. T \in SUBSET Nat
      BY <1>1
    <2> HIDE DEF T
    <2> QED BY <2>1, Least
  <1>3. k # 0
    BY <1>2 DEF Ends
  <1>4. k - 1 \in 0 .. n /\ k \in 1 .. n /\ k - 1 \notin T /\ k \in 1 .. Len(longer.fields)
    <2>1. Len(longer.fields) \in Nat
      BY DEF IsType
    <2> QED BY <1>1, <1>2, <1>3, <2>1 DEF Grown
  <1> DEFINE f == type.fields[k]
  <1>5. f \in Fields /\ longer.fields[k] = f
    BY <1>1, <1>4 DEF Grown
  <1>6. g[k - 1] \in Nat /\ g[k] = Extent(g[k - 1], f, a)
    BY <1>4 DEF Ends
  <1>7. h[k - 1] \in Nat /\ h[k] = Extent(h[k - 1], f, b)
    BY <1>4, <1>5 DEF Ends
  <1>8. g[k - 1] <= h[k - 1]
    BY <1>4
  <1>9. SizeOf(f.type, a) <= SizeOf(f.type, b)
    BY <1>4 DEF Grown
  <1> HIDE DEF f
  <1>10. f.type \in FieldTypes /\ f.offset \in Nat \cup {NoOffset}
    BY <1>5 DEF Fields
  <1>11. SizeOf(f.type, a) \in Nat /\ SizeOf(f.type, b) \in Nat
    BY <1>10, SizeOfType
  <1>12. Extent(g[k - 1], f, a) <= Extent(h[k - 1], f, b)
    <2>1. /\ Extent(h[k - 1], f, b) \in Nat
          /\ Extent(h[k - 1], f, b) >= h[k - 1] + SizeOf(f.type, b)
          /\ f.offset # NoOffset => Extent(h[k - 1], f, b) >= f.offset + SizeOf(f.type, b)
      BY <1>5, <1>7, ExtentOfField
    <2>2. \/ Extent(g[k - 1], f, a) = g[k - 1] + SizeOf(f.type, a)
          \/ /\ f.offset # NoOffset
             /\ Extent(g[k - 1], f, a) = f.offset + SizeOf(f.type, a)
      BY <1>5, <1>6, ExtentOfField
    <2>3. CASE Extent(g[k - 1], f, a) = g[k - 1] + SizeOf(f.type, a)
      BY <1>6, <1>7, <1>8, <1>9, <1>11, <2>1, <2>3
    <2>4. CASE f.offset # NoOffset /\ Extent(g[k - 1], f, a) = f.offset + SizeOf(f.type, a)
      BY <1>9, <1>10, <1>11, <2>1, <2>4
    <2> QED BY <2>2, <2>3, <2>4
  <1> QED BY <1>2, <1>6, <1>7, <1>12

\* Neither a field nor a longer nested type makes a type shorter.
LEMMA SizesGrow ==
    ASSUME NEW type, IsType(type), NEW a \in Nat,
           NEW longer, IsType(longer), NEW b \in Nat, Grown(type, a, longer, b)
    PROVE  SizeOfFields(type, a) <= SizeOfFields(longer, b)
  <1>1. CASE type.union
    <2>1. longer.union
      BY <1>1 DEF Grown
    <2>2. PICK k \in 1 .. Len(type.fields) :
                 SizeOfFields(type, a) = SizeOf(type.fields[k].type, a)
      BY <1>1, SizeOfUnion
    <2>3. k \in 1 .. Len(longer.fields)
      <3>1. Len(longer.fields) \in Nat /\ Len(type.fields) \in Nat
        BY DEF IsType
      <3> QED BY <3>1 DEF Grown
    <2>4. SizeOf(longer.fields[k].type, b) <= SizeOfFields(longer, b)
      BY <2>1, <2>3, SizeOfUnion
    <2>5. SizeOf(type.fields[k].type, a) <= SizeOf(longer.fields[k].type, b)
      BY DEF Grown
    <2>6. longer.fields[k].type \in FieldTypes
      <3>1. longer.fields[k] \in Fields
        BY <2>3 DEF IsType
      <3> QED BY <3>1 DEF Fields
    <2>7. /\ SizeOf(longer.fields[k].type, b) \in Nat
          /\ SizeOfFields(type, a) \in Nat
          /\ SizeOfFields(longer, b) \in Nat
      BY <2>6, SizeOfType, SizeIsNumber
    <2> QED BY <2>2, <2>4, <2>5, <2>7
  <1>2. CASE ~type.union
    <2>1. ~longer.union
      BY <1>2 DEF Grown
    <2>2. PICK g : Ends(g, type, a) /\ SizeOfFields(type, a) = g[Len(type.fields)]
      BY <1>2, EndsExist
    <2>3. PICK h : Ends(h, longer, b) /\ SizeOfFields(longer, b) = h[Len(longer.fields)]
      BY <2>1, EndsExist
    <2>4. /\ Len(type.fields) \in 0 .. Len(type.fields)
          /\ Len(type.fields) \in 0 .. Len(longer.fields)
          /\ Len(longer.fields) \in 0 .. Len(longer.fields)
          /\ Len(type.fields) <= Len(longer.fields)
      <3>1. Len(longer.fields) \in Nat /\ Len(type.fields) \in Nat
        BY DEF IsType
      <3> QED BY <3>1 DEF Grown
    <2>5. g[Len(type.fields)] <= h[Len(type.fields)]
      BY <2>2, <2>3, <2>4, EndsGrow
    <2>6. h[Len(type.fields)] <= h[Len(longer.fields)]
      BY <2>3, <2>4, EndsAscend
    <2>7. /\ g[Len(type.fields)] \in Nat
          /\ h[Len(type.fields)] \in Nat
          /\ h[Len(longer.fields)] \in Nat
      BY <2>2, <2>3, <2>4, EndsAscend
    <2> QED BY <2>2, <2>3, <2>5, <2>6, <2>7
  <1>3. type.union \in BOOLEAN
    BY DEF IsType
  <1> QED BY <1>1, <1>2

\* What a type without a nested one takes does not depend on nested types.
LEMMA SizeWithoutInner ==
    ASSUME NEW type, IsType(type), NEW a \in Nat, NEW b \in Nat,
           \A k \in 1 .. Len(type.fields) : type.fields[k].type # "inner"
    PROVE  SizeOfFields(type, a) = SizeOfFields(type, b)
  <1>1. \A k \in 1 .. Len(type.fields) :
           /\ SizeOf(type.fields[k].type, a) = SizeOf(type.fields[k].type, b)
           /\ SizeOf(type.fields[k].type, a) \in Nat
    <2> TAKE k \in 1 .. Len(type.fields)
    <2>1. type.fields[k] \in Fields
      BY DEF IsType
    <2>2. type.fields[k].type \in FieldTypes
      BY <2>1 DEF Fields
    <2>3. SizeOf(type.fields[k].type, a) \in Nat
      BY <2>2, SizeOfType
    <2> QED BY <2>3 DEF SizeOf
  <1>2. Len(type.fields) \in Nat
    BY DEF IsType
  <1>3. Grown(type, a, type, b) /\ Grown(type, b, type, a)
    BY <1>1, <1>2 DEF Grown
  <1>4. SizeOfFields(type, a) <= SizeOfFields(type, b)
    BY <1>3, SizesGrow
  <1>5. SizeOfFields(type, b) <= SizeOfFields(type, a)
    BY <1>3, SizesGrow
  <1>6. SizeOfFields(type, a) \in Nat /\ SizeOfFields(type, b) \in Nat
    BY SizeIsNumber
  <1> QED BY <1>4, <1>5, <1>6

\* A type as it is defined
AsDefined(d, o, union, ts, n, inner) ==
    /\ d \in Types
    /\ d.union = union
    /\ d.size = NoSize
    /\ Len(d.fields) = n
    /\ \A k \in 1 .. n : d.fields[k].name = <<o, k>> /\ d.fields[k].type = ts[k]
    /\ union => \A k \in 1 .. n : d.fields[k].offset = NoOffset
    /\ ~union => \E g : Ends(g, d, inner) /\ \A k \in 1 .. n : d.fields[k].offset = g[k - 1]

\* _calc_offsets puts every field where the fields before it end.
LEMMA DefinedType ==
    ASSUME NEW o \in Objects, NEW union \in BOOLEAN, NEW anonymous \in BOOLEAN,
           NEW n \in Nat, n > 0, NEW ts \in [1 .. n -> FieldTypes], NEW inner \in Nat,
           NEW d, d = Defined(o, union, anonymous, ts, inner)
    PROVE  AsDefined(d, o, union, ts, n, inner)
  <1> DEFINE plain == [union |-> FALSE,
                       fields |-> [k \in 1 .. n |-> Field(<<o, k>>, ts[k], NoOffset)]]
             P(f) == f = [k \in DOMAIN ts |->
                            IF k = 1 THEN 0 ELSE f[k - 1] + SizeOf(ts[k - 1], inner)]
             c == CHOOSE f : P(f)
  <1>1. DOMAIN ts = 1 .. n
    OBVIOUS
  <1>2. /\ plain.fields \in Seq(Fields) /\ Len(plain.fields) = n
        /\ plain.fields \in [1 .. n -> Fields]
    BY DEF Fields, Field
  <1>3. IsType(plain) /\ ~plain.union
    BY <1>2 DEF IsType
  <1>4. PICK g : Ends(g, plain, inner)
    <2> HIDE DEF plain
    <2> QED BY <1>3, EndsExist
  <1>5. \A k \in 1 .. n : /\ g[k - 1] \in Nat /\ g[k] \in Nat
                          /\ SizeOf(ts[k], inner) \in Nat
                          /\ g[k] = g[k - 1] + SizeOf(ts[k], inner)
    <2> TAKE k \in 1 .. n
    <2>1. g[k - 1] \in Nat /\ g[k] \in Nat /\ g[k] = Extent(g[k - 1], plain.fields[k], inner)
      <3> HIDE DEF plain
      <3> QED BY <1>2, <1>4 DEF Ends
    <2>2. plain.fields[k].type = ts[k] /\ plain.fields[k].offset = NoOffset
      BY DEF Field
    <2>3. SizeOf(ts[k], inner) \in Nat
      BY SizeOfType
    <2> HIDE DEF plain
    <2> QED BY <2>1, <2>2, <2>3 DEF Extent
  <1>6. g[0] = 0
    BY <1>4 DEF Ends
  <1> HIDE DEF plain
  <1>7. P(c)
    <2> DEFINE f == [k \in 1 .. n |-> g[k - 1]]
    <2>1. ASSUME NEW k \in 1 .. n
          PROVE  f[k] = IF k = 1 THEN 0 ELSE f[k - 1] + SizeOf(ts[k - 1], inner)
      <3>1. CASE k = 1
        BY <1>6, <3>1
      <3>2. CASE k # 1
        <4>1. k - 1 \in 1 .. n
          BY <3>2
        <4>2. g[k - 1] = g[k - 1 - 1] + SizeOf(ts[k - 1], inner)
          BY <1>5, <4>1
        <4> QED BY <3>2, <4>1, <4>2
      <3> QED BY <3>1, <3>2
    <2>2. P(f)
      BY <2>1, <1>1
    <2> HIDE DEF P, f
    <2> QED BY <2>2
  <1>8. PICK off : off = c
    OBVIOUS
  <1>9. \A k \in 1 .. n : off[k] = IF k = 1 THEN 0 ELSE off[k - 1] + SizeOf(ts[k - 1], inner)
    <2>1. P(off)
      BY <1>7, <1>8
    <2> HIDE DEF c
    <2> QED BY <2>1, <1>1
  <1>10. d = [union |-> union, anonymous |-> anonymous, size |-> NoSize,
              fields |-> [k \in 1 .. n |->
                            Field(<<o, k>>, ts[k], IF union THEN NoOffset ELSE off[k])]]
    <2>1. d = [union |-> union, anonymous |-> anonymous, size |-> NoSize,
               fields |-> [k \in 1 .. n |->
                             Field(<<o, k>>, ts[k], IF union THEN NoOffset ELSE c[k])]]
      BY <1>1 DEF Defined
    <2> HIDE DEF c
    <2> QED BY <1>8, <2>1
  <1> HIDE DEF c, P
  <1>11. \A k \in 1 .. n : off[k] = g[k - 1]
    <2> DEFINE T == {k \in 1 .. n : off[k] # g[k - 1]}
    <2> SUFFICES ASSUME T # {} PROVE FALSE
      OBVIOUS
    <2>1. PICK k \in T : \A j \in T : k <= j
      <3>1. T \in SUBSET Nat
        OBVIOUS
      <3> HIDE DEF T
      <3> QED BY <3>1, Least
    <2>2. k # 1
      BY <1>6, <1>9, <2>1
    <2>3. k - 1 \in 1 .. n /\ k - 1 \notin T
      BY <2>1, <2>2
    <2>4. off[k] = off[k - 1] + SizeOf(ts[k - 1], inner) /\ off[k - 1] = g[k - 1 - 1]
      BY <1>9, <2>1, <2>2, <2>3
    <2>5. g[k - 1] = g[k - 1 - 1] + SizeOf(ts[k - 1], inner)
      BY <1>5, <2>3
    <2> QED BY <2>1, <2>4, <2>5
  <1>12. \A k \in 1 .. n : off[k] \in Nat
    BY <1>5, <1>11
  <1>13. d.fields \in [1 .. n -> Fields]
    BY <1>10, <1>12 DEF Fields, Field
  <1>14. d.fields \in Seq(Fields) /\ Len(d.fields) = n
    BY <1>13
  <1>15. \A k \in 1 .. n : /\ d.fields[k].name = <<o, k>>
                           /\ d.fields[k].type = ts[k]
                           /\ d.fields[k].offset = IF union THEN NoOffset ELSE g[k - 1]
    BY <1>10, <1>11 DEF Field
  <1>16. ASSUME ~union PROVE Ends(g, d, inner)
    <2>1. ASSUME NEW k \in 1 .. n PROVE g[k] = Extent(g[k - 1], d.fields[k], inner)
      <3>1. g[k - 1] \in Nat /\ g[k] \in Nat /\ g[k] = g[k - 1] + SizeOf(ts[k], inner)
        BY <1>5
      <3>2. Extent(g[k - 1], d.fields[k], inner) = Max({g[k], g[k]})
        <4>1. NoOffset \notin Nat
          BY ObjectsAssumption
        <4> QED BY <1>15, <1>16, <3>1, <4>1 DEF Extent
      <3> QED BY <3>1, <3>2, MaxOfTwo
    <2> QED BY <1>5, <1>6, <1>14, <2>1 DEF Ends
  <1>17. d \in Types
    BY <1>10, <1>14 DEF Types
  <1>18. d.union = union /\ d.size = NoSize
    BY <1>10
  <1>19. ~union => \E h : Ends(h, d, inner) /\ \A k \in 1 .. n : d.fields[k].offset = h[k - 1]
    BY <1>15, <1>16
  <1> QED BY <1>14, <1>15, <1>17, <1>18, <1>19 DEF AsDefined

-----------------------------------------------------------------------------
(* Types and their lengths *)

\* Two types whose fields have the names of their places; the inner one holds no other.
TypesInv ==
    /\ types \in [Objects -> Types]
    /\ added \in [Objects -> Nat]
    /\ \A o \in Objects :
          /\ Len(types[o].fields) > 0
          /\ \A k \in 1 .. Len(types[o].fields) : types[o].fields[k].name = <<o, k>>
    /\ \A k \in 1 .. Len(types["inner"].fields) : types["inner"].fields[k].type # "inner"

\* The lengths that are remembered
InnerLengthInv == types["inner"].size \in {NoSize, SizeOfFields(types["inner"], 0)}

LengthInv ==
    /\ InnerLengthInv
    /\ types["outer"].size # NoSize =>
          /\ types["outer"].size <= CalcSize("outer")
          /\ \/ types["outer"].size = CalcSize("outer")
             \/ UsesInner /\ added["inner"] > 0

\* Offsets of the fields of a type as it was defined: none leads beyond the fields
\* before it, and to where those end, if none of them has become longer.
Behind(type, n, inner, exact) ==
    \E g : /\ Ends(g, type, inner)
           /\ \A k \in 1 .. n :
                 \/ type.fields[k].offset = NoOffset
                 \/ /\ type.fields[k].offset <= g[k - 1]
                    /\ exact => type.fields[k].offset = g[k - 1]

OffsetsInv ==
    \A o \in Objects :
       /\ Len(types[o].fields) - added[o] \in Nat
       /\ types[o].union => \A k \in 1 .. Len(types[o].fields) - added[o] :
                               types[o].fields[k].offset = NoOffset
       /\ ~types[o].union => Behind(types[o], Len(types[o].fields) - added[o], InnerLength,
                                    added["inner"] = 0)

\* The nested structure is in one field only.
OneInner ==
    \A j, k \in 1 .. Len(types["outer"].fields) :
       types["outer"].fields[j].type = "inner" /\ types["outer"].fields[k].type = "inner" => j = k

LEMMA TypeIsType ==
    ASSUME TypesInv
    PROVE  \A o \in Objects : IsType(types[o])
  BY DEF TypesInv, IsType, Types

\* The nested type has one length, remembered or not.
LEMMA InnerLengthIs ==
    ASSUME TypesInv, InnerLengthInv
    PROVE  /\ InnerLength = SizeOfFields(types["inner"], 0)
           /\ InnerLength \in Nat
           /\ CalcSize("inner") = InnerLength
           /\ CalcSize("outer") \in Nat
  <1>1. InnerLength = SizeOfFields(types["inner"], 0)
    BY DEF InnerLengthInv, InnerLength
  <1>2. IsType(types["inner"]) /\ IsType(types["outer"])
    BY TypeIsType DEF Objects
  <1>3. InnerLength \in Nat
    BY <1>1, <1>2, SizeIsNumber
  <1>4. SizeOfFields(types["inner"], InnerLength) = SizeOfFields(types["inner"], 0)
    BY <1>2, <1>3, SizeWithoutInner DEF TypesInv
  <1>5. CalcSize("outer") \in Nat
    BY <1>2, <1>3, SizeIsNumber DEF CalcSize
  <1> QED BY <1>1, <1>3, <1>4, <1>5 DEF CalcSize

\* The types are as they were, but for what they remember.
SameTypes ==
    /\ added' = added
    /\ \A o \in Objects : /\ types'[o].union = types[o].union
                          /\ types'[o].anonymous = types[o].anonymous
                          /\ types'[o].fields = types[o].fields

\* A size depends on the fields of a type only.
LEMMA SameSize ==
    ASSUME NEW a, NEW b, a.union = b.union, a.fields = b.fields, NEW inner
    PROVE  SizeOfFields(a, inner) = SizeOfFields(b, inner)
  BY DEF SizeOfFields

\* len() of whatever types
LEMMA MeasuredSafe ==
    ASSUME TypesInv, LengthInv, NEW asked, types' = Measured(asked), added' = added
    PROVE  /\ TypesInv' /\ LengthInv' /\ SameTypes
           /\ InnerLength' = InnerLength
           /\ \A o \in Objects : CalcSize(o)' = CalcSize(o)
  <1>1. PICK all : all = asked \cup (IF "outer" \in asked /\ types.outer.size = NoSize /\ UsesInner
                                     THEN {"inner"} ELSE {})
    OBVIOUS
  <1>2. types' = [o \in Objects |-> IF o \in all THEN [types[o] EXCEPT !.size = Length(o)]
                                    ELSE types[o]]
    BY <1>1 DEF Measured
  <1>3. \A o \in Objects : types[o] \in Types
    BY DEF TypesInv
  <1>4. \A o \in Objects : Length(o) \in Nat
    <2>1. \A o \in Objects : CalcSize(o) \in Nat
      BY InnerLengthIs DEF Objects, LengthInv
    <2> QED BY <1>3, <2>1 DEF Length, Types
  <1>5. \A o \in Objects :
           /\ types'[o] \in Types
           /\ types'[o].union = types[o].union
           /\ types'[o].anonymous = types[o].anonymous
           /\ types'[o].fields = types[o].fields
           /\ types'[o].size \in {types[o].size, Length(o)}
    <2> TAKE o \in Objects
    <2>1. types[o] \in Types /\ Length(o) \in Nat
      BY <1>3, <1>4
    <2>2. CASE o \in all
      <3>1. types'[o] = [types[o] EXCEPT !.size = Length(o)]
        BY <1>2, <2>2
      <3> QED BY <2>1, <3>1 DEF Types
    <2>3. CASE o \notin all
      BY <1>2, <2>1, <2>3
    <2> QED BY <2>2, <2>3
  <1>6. SameTypes
    BY <1>5 DEF SameTypes
  <1>7. TypesInv'
    <2>1. types' \in [Objects -> Types]
      BY <1>2, <1>5
    <2>2. added' \in [Objects -> Nat]
      BY DEF TypesInv
    <2>3. "inner" \in Objects
      BY DEF Objects
    <2> QED BY <1>5, <2>1, <2>2, <2>3 DEF TypesInv
  <1>8. \A o \in Objects : \A n : SizeOfFields(types'[o], n) = SizeOfFields(types[o], n)
    BY <1>5, SameSize
  <1>9. "inner" \in Objects /\ "outer" \in Objects
    BY DEF Objects
  <1>10. types'["inner"].size \in {NoSize, SizeOfFields(types'["inner"], 0)}
    <2>1. Length("inner") = SizeOfFields(types["inner"], 0)
      BY InnerLengthIs DEF Length, LengthInv, InnerLengthInv
    <2> QED BY <1>5, <1>8, <1>9, <2>1 DEF LengthInv, InnerLengthInv
  <1>11. InnerLength' = SizeOfFields(types'["inner"], 0)
    BY <1>10 DEF InnerLength
  <1>12. InnerLength' = InnerLength
    BY <1>8, <1>9, <1>11, InnerLengthIs DEF LengthInv
  <1>13. \A o \in Objects : CalcSize(o)' = CalcSize(o)
    BY <1>8, <1>12 DEF CalcSize
  <1>14. UsesInner' <=> UsesInner
    BY <1>5, <1>9 DEF UsesInner, FieldsOf
  <1>15. LengthInv'
    <2>1. types'["outer"].size \in {types["outer"].size, Length("outer")}
      BY <1>5, <1>9
    <2>2. InnerLengthInv'
      BY <1>10 DEF InnerLengthInv
    <2>3. CalcSize("outer") \in Nat
      BY InnerLengthIs DEF LengthInv
    <2>4. CalcSize("outer")' = CalcSize("outer")
      BY <1>9, <1>13
    <2>5. added' = added
      OBVIOUS
    <2>6. Length("outer") = IF types["outer"].size = NoSize THEN CalcSize("outer")
                            ELSE types["outer"].size
      BY DEF Length
    <2>7. types'["outer"].size # NoSize =>
             /\ types'["outer"].size <= CalcSize("outer")
             /\ \/ types'["outer"].size = CalcSize("outer")
                \/ UsesInner /\ added["inner"] > 0
      <3>1. CalcSize("outer") <= CalcSize("outer")
        BY <2>3
      <3> QED BY <2>1, <2>6, <3>1 DEF LengthInv
    <2> QED BY <1>14, <2>2, <2>4, <2>5, <2>7 DEF LengthInv
  <1> QED BY <1>6, <1>7, <1>12, <1>13, <1>15

\* The types have what they had, and perhaps more.
MoreTypes ==
    \A o \in Objects :
       /\ types'[o].union = types[o].union
       /\ types'[o].anonymous = types[o].anonymous
       /\ Len(types[o].fields) <= Len(types'[o].fields)
       /\ \A k \in 1 .. Len(types[o].fields) : types'[o].fields[k] = types[o].fields[k]

\* Types with more fields are no shorter than they were.
LEMMA MoreIsLonger ==
    ASSUME TypesInv, InnerLengthInv, TypesInv', InnerLengthInv', MoreTypes
    PROVE  /\ InnerLength <= InnerLength'
           /\ \A o \in Objects : Grown(types[o], InnerLength, types'[o], InnerLength')
           /\ CalcSize("outer") <= CalcSize("outer")'
  <1>1. \A o \in Objects : IsType(types[o])
    BY TypeIsType
  <1>2. \A o \in Objects : IsType(types'[o])
    <2>1. (\A o \in Objects : IsType(types[o]))'
      BY TypeIsType, PTL
    <2> QED BY <2>1
  <1>3. InnerLength = SizeOfFields(types["inner"], 0) /\ InnerLength \in Nat
    BY InnerLengthIs
  <1>4. InnerLength' = SizeOfFields(types'["inner"], 0) /\ InnerLength' \in Nat
    <2>1. (InnerLength = SizeOfFields(types["inner"], 0) /\ InnerLength \in Nat)'
      BY InnerLengthIs, PTL
    <2> QED BY <2>1
  <1>5. \A o \in Objects : \A k \in 1 .. Len(types[o].fields) :
           types[o].fields[k].type \in FieldTypes
    <2> TAKE o \in Objects
    <2> TAKE k \in 1 .. Len(types[o].fields)
    <2>1. types[o].fields[k] \in Fields
      BY <1>1 DEF IsType
    <2> QED BY <2>1 DEF Fields
  <1>6. ASSUME NEW a \in Nat, NEW b \in Nat, a <= b, NEW o \in Objects
        PROVE  Grown(types[o], a, types'[o], b)
    <2>1. ASSUME NEW k \in 1 .. Len(types[o].fields)
          PROVE  SizeOf(types[o].fields[k].type, a) <= SizeOf(types[o].fields[k].type, b)
      <3>1. types[o].fields[k].type \in FieldTypes
        BY <1>5
      <3>2. SizeOf(types[o].fields[k].type, a) \in Nat
        BY <3>1, SizeOfType
      <3> QED BY <1>6, <3>2 DEF SizeOf
    <2> QED BY <2>1 DEF Grown, MoreTypes
  <1>7. "inner" \in Objects /\ "outer" \in Objects
    BY DEF Objects
  <1>8. InnerLength <= InnerLength'
    <2>1. Grown(types["inner"], 0, types'["inner"], 0)
      BY <1>6, <1>7
    <2>2. SizeOfFields(types["inner"], 0) <= SizeOfFields(types'["inner"], 0)
      BY <1>1, <1>2, <1>7, <2>1, SizesGrow
    <2> QED BY <1>3, <1>4, <2>2
  <1>9. \A o \in Objects : Grown(types[o], InnerLength, types'[o], InnerLength')
    BY <1>3, <1>4, <1>6, <1>8
  <1>10. SizeOfFields(types["outer"], InnerLength) <= SizeOfFields(types'["outer"], InnerLength')
    BY <1>1, <1>2, <1>3, <1>4, <1>7, <1>9, SizesGrow
  <1> QED BY <1>8, <1>9, <1>10 DEF CalcSize

\* A field more: the structure forgets its length, not so the one around it.
LEMMA AddedSafe ==
    ASSUME TypesInv, LengthInv, AddField
    PROVE  TypesInv' /\ LengthInv' /\ MoreTypes
  <1>1. PICK o \in Objects, t \in AddedTypes, offset \in Offsets :
             /\ o = "inner" => UsesInner
             /\ t = "inner" => o = "outer" /\ ~UsesInner
             /\ types' = [types EXCEPT ![o] =
                             Extended(@, Field(<<o, Len(@.fields) + 1>>, t, offset))]
             /\ added' = [added EXCEPT ![o] = @ + 1]
    BY DEF AddField
  <1>2. PICK f : f = Field(<<o, Len(types[o].fields) + 1>>, t, offset)
    OBVIOUS
  <1>3. \A p \in Objects : types[p] \in Types
    BY DEF TypesInv
  <1>4. \A p \in Objects : types[p].fields \in Seq(Fields) /\ Len(types[p].fields) \in Nat
    BY <1>3 DEF Types
  <1>5. f \in Fields
    BY <1>2, <1>4, ObjectsAssumption DEF Fields, Field
  <1>6. types' = [types EXCEPT ![o] = [types[o] EXCEPT !.fields = Append(types[o].fields, f),
                                                       !.size = NoSize]]
    BY <1>1, <1>2, <1>3 DEF Extended, TypesInv
  <1>7. DOMAIN types = Objects
    BY DEF TypesInv
  <1>8. /\ types'[o].union = types[o].union
        /\ types'[o].anonymous = types[o].anonymous
        /\ types'[o].fields = Append(types[o].fields, f)
        /\ types'[o].size = NoSize
        /\ types'[o] \in Types
    <2>1. types'[o] = [types[o] EXCEPT !.fields = Append(types[o].fields, f), !.size = NoSize]
      BY <1>6, <1>7
    <2>2. Append(types[o].fields, f) \in Seq(Fields)
      BY <1>4, <1>5
    <2> QED BY <1>3, <2>1, <2>2 DEF Types
  <1>9. \A p \in Objects : p # o => types'[p] = types[p]
    BY <1>6, <1>7
  <1>10. /\ Len(Append(types[o].fields, f)) = Len(types[o].fields) + 1
         /\ \A k \in 1 .. Len(types[o].fields) : Append(types[o].fields, f)[k] = types[o].fields[k]
         /\ Append(types[o].fields, f)[Len(types[o].fields) + 1] = f
    BY <1>4, <1>5
  <1>11. MoreTypes
    BY <1>4, <1>8, <1>9, <1>10 DEF MoreTypes
  <1>12. types' \in [Objects -> Types] /\ added' \in [Objects -> Nat]
    <2>1. \A p \in Objects : types'[p] \in Types
      BY <1>3, <1>8, <1>9
    <2>2. types' \in [Objects -> Types]
      BY <1>6, <1>7, <2>1
    <2>3. added' \in [Objects -> Nat]
      BY <1>1 DEF TypesInv
    <2> QED BY <2>2, <2>3
  <1>13. ASSUME NEW p \in Objects
         PROVE  /\ Len(types'[p].fields) > 0
                /\ \A k \in 1 .. Len(types'[p].fields) : types'[p].fields[k].name = <<p, k>>
    <2>1. CASE p = o
      <3>1. f.name = <<o, Len(types[o].fields) + 1>>
        BY <1>2 DEF Field
      <3>2. \A k \in 1 .. Len(types[o].fields) + 1 :
               k \in 1 .. Len(types[o].fields) \/ k = Len(types[o].fields) + 1
        BY <1>4
      <3>3. \A k \in 1 .. Len(types[o].fields) : types[o].fields[k].name = <<o, k>>
        BY DEF TypesInv
      <3>4. Len(types'[o].fields) = Len(types[o].fields) + 1
        BY <1>8, <1>10
      <3>5. ASSUME NEW k \in 1 .. Len(types[o].fields) + 1
            PROVE  types'[o].fields[k].name = <<o, k>>
        <4>1. CASE k \in 1 .. Len(types[o].fields)
          <5>1. types'[o].fields[k] = types[o].fields[k]
            BY <1>8, <1>10, <4>1
          <5> QED BY <3>3, <4>1, <5>1
        <4>2. CASE k = Len(types[o].fields) + 1
          <5>1. types'[o].fields[k] = f
            BY <1>8, <1>10, <4>2
          <5> QED BY <3>1, <4>2, <5>1
        <4> QED BY <3>2, <4>1, <4>2
      <3> QED BY <1>4, <2>1, <3>4, <3>5
    <2>2. CASE p # o
      BY <1>9, <2>2 DEF TypesInv
    <2> QED BY <2>1, <2>2
  <1>14. \A k \in 1 .. Len(types'["inner"].fields) : types'["inner"].fields[k].type # "inner"
    <2>1. CASE o = "inner"
      <3>1. f.type # "inner"
        BY <1>1, <1>2, <2>1 DEF Field
      <3>2. \A k \in 1 .. Len(types[o].fields) + 1 :
               k \in 1 .. Len(types[o].fields) \/ k = Len(types[o].fields) + 1
        BY <1>4
      <3>3. \A k \in 1 .. Len(types[o].fields) : types[o].fields[k].type # "inner"
        BY <2>1 DEF TypesInv
      <3> QED BY <1>8, <1>10, <2>1, <3>1, <3>2, <3>3
    <2>2. CASE o # "inner"
      <3>1. types'["inner"] = types["inner"]
        BY <1>9, <2>2 DEF Objects
      <3> QED BY <3>1 DEF TypesInv
    <2> QED BY <2>1, <2>2
  <1>15. TypesInv'
    BY <1>12, <1>13, <1>14 DEF TypesInv
  <1>16. LengthInv'
    <2>1. CASE o = "outer"
      <3>1. types'["inner"] = types["inner"] /\ types'["outer"].size = NoSize
        BY <1>8, <1>9, <2>1 DEF Objects
      <3> QED BY <3>1 DEF LengthInv, InnerLengthInv
    <2>2. CASE o = "inner"
      <3>1. types'["outer"] = types["outer"] /\ types'["inner"].size = NoSize
        BY <1>8, <1>9, <2>2 DEF Objects
      <3>2. UsesInner'
        BY <1>1, <2>2, <3>1 DEF UsesInner, FieldsOf
      <3>4. InnerLengthInv'
        BY <3>1 DEF InnerLengthInv
      <3>5. CalcSize("outer") <= CalcSize("outer")'
        BY <1>11, <1>15, <3>4, MoreIsLonger DEF LengthInv
      <3>6. types["outer"].size # NoSize => types["outer"].size <= CalcSize("outer")'
        <4>1. CalcSize("outer") \in Nat
          BY InnerLengthIs DEF LengthInv
        <4>2. (CalcSize("outer") \in Nat)'
          BY <1>15, <3>4, InnerLengthIs, PTL
        <4>3. types["outer"].size \in Nat \cup {NoSize}
          BY <1>3 DEF Types, Objects
        <4>4. CalcSize("outer")' \in Nat
          BY <4>2
        <4> QED BY <3>5, <4>1, <4>3, <4>4 DEF LengthInv
      <3>3. added'["inner"] > 0
        <4>1. added["inner"] \in Nat /\ added'["inner"] = added["inner"] + 1
          BY <1>1, <2>2 DEF TypesInv, Objects
        <4> QED BY <4>1
      <3> QED BY <3>1, <3>2, <3>3, <3>4, <3>6 DEF LengthInv
    <2> QED BY <2>1, <2>2 DEF Objects
  <1> QED BY <1>11, <1>15, <1>16

\* The fields that were defined stay where they were, or go where those before them end.
LEMMA AddedOffsets ==
    ASSUME TypesInv, LengthInv, OffsetsInv, OneInner, AddField, TypesInv', LengthInv', MoreTypes
    PROVE  OffsetsInv' /\ OneInner'
  <1>1. PICK o \in Objects, t \in AddedTypes, offset \in Offsets :
             /\ o = "inner" => UsesInner
             /\ t = "inner" => o = "outer" /\ ~UsesInner
             /\ types' = [types EXCEPT ![o] =
                             Extended(@, Field(<<o, Len(@.fields) + 1>>, t, offset))]
             /\ added' = [added EXCEPT ![o] = @ + 1]
    BY DEF AddField
  <1>2. PICK f : f = Field(<<o, Len(types[o].fields) + 1>>, t, offset)
    OBVIOUS
  <1>3. \A p \in Objects : /\ types[p].fields \in Seq(Fields) /\ Len(types[p].fields) \in Nat
                            /\ added[p] \in Nat /\ IsType(types[p]) /\ IsType(types'[p])
    <2>1. \A p \in Objects : IsType(types[p])
      BY TypeIsType
    <2>2. \A p \in Objects : IsType(types'[p])
      BY DEF TypesInv, Types, IsType
    <2> QED BY <2>1, <2>2 DEF TypesInv, IsType
  <1>4. types'[o].fields = Append(types[o].fields, f)
    BY <1>1, <1>2 DEF TypesInv, Types, Extended
  <1>5. \A p \in Objects : p # o => types'[p] = types[p] /\ added'[p] = added[p]
    BY <1>1 DEF TypesInv
  <1>6. added'[o] = added[o] + 1
    BY <1>1 DEF TypesInv
  <1>7. Len(types'[o].fields) = Len(types[o].fields) + 1
    BY <1>3, <1>4
  <1>8. ASSUME NEW p \in Objects
        PROVE  Len(types'[p].fields) - added'[p] = Len(types[p].fields) - added[p]
    <2>1. CASE p = o
      <3>1. Len(types[o].fields) \in Nat /\ added[o] \in Nat
        BY <1>3
      <3> QED BY <1>6, <1>7, <2>1, <3>1
    <2>2. CASE p # o
      BY <1>5, <2>2
    <2> QED BY <2>1, <2>2
  <1>9. InnerLength \in Nat /\ InnerLength' \in Nat
    <2>1. InnerLength \in Nat
      BY InnerLengthIs DEF LengthInv
    <2>2. (InnerLength \in Nat)'
      <3>1. InnerLengthInv'
        BY DEF LengthInv
      <3> QED BY <3>1, InnerLengthIs, PTL
    <2> QED BY <2>1, <2>2
  <1>10. \A p \in Objects : Grown(types[p], InnerLength, types'[p], InnerLength')
    BY MoreIsLonger DEF LengthInv
  <1>11. \A p \in Objects : \A k \in 1 .. Len(types[p].fields) :
            types'[p].fields[k] = types[p].fields[k]
    BY DEF MoreTypes
  <1>12. ASSUME NEW p \in Objects, ~types[p].union
         PROVE  Behind(types'[p], Len(types[p].fields) - added[p], InnerLength',
                       added'["inner"] = 0)
    <2> DEFINE n == Len(types[p].fields) - added[p]
    <2>1. n \in Nat /\ n <= Len(types[p].fields)
          /\ Behind(types[p], n, InnerLength, added["inner"] = 0)
      BY <1>3, <1>12 DEF OffsetsInv
    <2>2. PICK g : /\ Ends(g, types[p], InnerLength)
                   /\ \A k \in 1 .. n :
                        \/ types[p].fields[k].offset = NoOffset
                        \/ /\ types[p].fields[k].offset <= g[k - 1]
                           /\ added["inner"] = 0 => types[p].fields[k].offset = g[k - 1]
      BY <2>1 DEF Behind
    <2>3. PICK type : type = types'[p]
      OBVIOUS
    <2>4. PICK b : b = InnerLength'
      OBVIOUS
    <2>5. PICK old : old = types[p]
      OBVIOUS
    <2>6. PICK a : a = InnerLength
      OBVIOUS
    <2>7. /\ IsType(type) /\ IsType(old) /\ ~type.union /\ a \in Nat /\ b \in Nat
          /\ Grown(old, a, type, b)
      BY <1>3, <1>9, <1>10, <1>12, <2>3, <2>4, <2>5, <2>6 DEF MoreTypes
    <2>8. PICK h : Ends(h, type, b)
      BY <2>7, EndsExist
    <2>9. Ends(g, old, a)
      BY <2>2, <2>5, <2>6
    <2>10. /\ \A k \in 0 .. Len(old.fields) : g[k] <= h[k] /\ g[k] \in Nat
           /\ \A k \in 0 .. Len(type.fields) : h[k] \in Nat
      BY <2>7, <2>8, <2>9, EndsGrow, EndsAscend
    <2>11. ASSUME added'["inner"] = 0
           PROVE  added["inner"] = 0 /\ \A k \in 0 .. Len(old.fields) : g[k] = h[k]
      <3>1. o # "inner"
        BY <1>3, <1>6, <2>11
      <3>2. types'["inner"] = types["inner"] /\ added["inner"] = 0
        BY <1>5, <2>11, <3>1 DEF Objects
      <3>3. a = b
        BY <2>4, <2>6, <3>2 DEF InnerLength
      <3>4. Len(old.fields) <= Len(type.fields) /\ Len(old.fields) \in Nat
            /\ Len(type.fields) \in Nat
        BY <2>7 DEF Grown, IsType
      <3>5. Ends(h, old, b)
        <4>1. \A k \in 1 .. Len(old.fields) :
                 k \in 1 .. Len(type.fields) /\ type.fields[k] = old.fields[k]
          BY <1>11, <2>3, <2>5, <3>4
        <4> QED BY <2>8, <4>1 DEF Ends
      <3>6. Grown(old, b, old, a)
        BY <2>7, <3>3, <3>4 DEF Grown
      <3>7. \A k \in 0 .. Len(old.fields) : h[k] <= g[k]
        BY <2>7, <2>9, <3>5, <3>6, EndsGrow
      <3>8. \A k \in 0 .. Len(old.fields) : h[k] \in Nat
        BY <2>10, <3>4
      <3> QED BY <2>10, <3>2, <3>7, <3>8
    <2>12. ASSUME NEW k \in 1 .. n
           PROVE  \/ type.fields[k].offset = NoOffset
                  \/ /\ type.fields[k].offset <= h[k - 1]
                     /\ added'["inner"] = 0 => type.fields[k].offset = h[k - 1]
      <3>1. k \in 1 .. Len(old.fields) /\ k - 1 \in 0 .. Len(old.fields)
        BY <1>3, <2>1, <2>5
      <3>2. type.fields[k] = old.fields[k]
        BY <1>11, <2>3, <2>5, <3>1
      <3>3. old.fields[k].offset \in Nat \cup {NoOffset}
        <4>1. old.fields[k] \in Fields
          BY <2>7, <3>1 DEF IsType
        <4> QED BY <4>1 DEF Fields
      <3>4. g[k - 1] <= h[k - 1] /\ g[k - 1] \in Nat /\ h[k - 1] \in Nat
        <4>1. Len(old.fields) <= Len(type.fields) /\ Len(old.fields) \in Nat
              /\ Len(type.fields) \in Nat
          BY <2>7 DEF Grown, IsType
        <4>2. k - 1 \in 0 .. Len(type.fields)
          BY <3>1, <4>1
        <4> QED BY <2>10, <3>1, <4>2
      <3>5. CASE old.fields[k].offset = NoOffset
        BY <3>2, <3>5
      <3>6. CASE old.fields[k].offset # NoOffset
        <4>1. /\ old.fields[k].offset <= g[k - 1]
              /\ added["inner"] = 0 => old.fields[k].offset = g[k - 1]
          BY <2>2, <2>5, <3>6
        <4>2. old.fields[k].offset <= h[k - 1]
          BY <3>3, <3>4, <3>6, <4>1
        <4>3. added'["inner"] = 0 => old.fields[k].offset = h[k - 1]
          BY <2>11, <3>1, <4>1
        <4> QED BY <3>2, <4>2, <4>3
      <3> QED BY <3>5, <3>6
    <2> HIDE DEF n
    <2>13. \E e : /\ Ends(e, types'[p], InnerLength')
                  /\ \A k \in 1 .. n :
                        \/ types'[p].fields[k].offset = NoOffset
                        \/ /\ types'[p].fields[k].offset <= e[k - 1]
                           /\ added'["inner"] = 0 => types'[p].fields[k].offset = e[k - 1]
      BY <2>3, <2>4, <2>8, <2>12
    <2> QED BY <2>13 DEF Behind, n
  <1>13. OffsetsInv'
    <2>1. ASSUME NEW p \in Objects
          PROVE  /\ Len(types'[p].fields) - added'[p] \in Nat
                 /\ types'[p].union => \A k \in 1 .. Len(types'[p].fields) - added'[p] :
                                          types'[p].fields[k].offset = NoOffset
                 /\ ~types'[p].union => Behind(types'[p], Len(types'[p].fields) - added'[p],
                                               InnerLength', added'["inner"] = 0)
      <3>1. PICK n : n = Len(types[p].fields) - added[p]
        OBVIOUS
      <3>2. n \in Nat /\ n <= Len(types[p].fields) /\ n = Len(types'[p].fields) - added'[p]
        BY <1>3, <1>8, <3>1 DEF OffsetsInv
      <3>3. types'[p].union = types[p].union
        BY DEF MoreTypes
      <3>4. ASSUME types'[p].union, NEW k \in 1 .. n PROVE types'[p].fields[k].offset = NoOffset
        <4>1. k \in 1 .. Len(types[p].fields)
          BY <1>3, <3>2
        <4> QED BY <1>11, <3>1, <3>3, <3>4, <4>1 DEF OffsetsInv
      <3>5. ~types'[p].union => Behind(types'[p], n, InnerLength', added'["inner"] = 0)
        BY <1>12, <3>1, <3>3
      <3> QED BY <3>2, <3>4, <3>5
    <2> QED BY <2>1 DEF OffsetsInv
  <1>14. OneInner'
    <2>1. CASE o = "inner"
      BY <1>5, <2>1 DEF OneInner, Objects
    <2>2. CASE o = "outer"
      <3>1. PICK fields : fields = types["outer"].fields
        OBVIOUS
      <3>2. fields \in Seq(Fields) /\ types'["outer"].fields = Append(fields, f)
        BY <1>3, <1>4, <2>2, <3>1
      <3>3. /\ Len(Append(fields, f)) = Len(fields) + 1 /\ Len(fields) \in Nat
            /\ \A k \in 1 .. Len(fields) : Append(fields, f)[k] = fields[k]
            /\ Append(fields, f)[Len(fields) + 1] = f
        BY <3>2
      <3>4. \A k \in 1 .. Len(fields) + 1 : k \in 1 .. Len(fields) \/ k = Len(fields) + 1
        BY <3>3
      <3>5. f.type = "inner" => \A k \in 1 .. Len(fields) : fields[k].type # "inner"
        <4>1. f.type = t
          BY <1>2 DEF Field
        <4>2. ToSet(fields) = {fields[k] : k \in 1 .. Len(fields)}
          BY <3>2 DEF ToSet
        <4> QED BY <1>1, <3>1, <4>1, <4>2 DEF UsesInner, FieldsOf
      <3>6. ASSUME NEW j \in 1 .. Len(fields) + 1, NEW k \in 1 .. Len(fields) + 1,
                   Append(fields, f)[j].type = "inner", Append(fields, f)[k].type = "inner"
            PROVE  j = k
        <4>1. CASE j \in 1 .. Len(fields) /\ k \in 1 .. Len(fields)
          BY <3>1, <3>3, <3>6, <4>1 DEF OneInner
        <4>2. CASE j \in 1 .. Len(fields) /\ k = Len(fields) + 1
          BY <3>3, <3>5, <3>6, <4>2
        <4>3. CASE j = Len(fields) + 1 /\ k \in 1 .. Len(fields)
          BY <3>3, <3>5, <3>6, <4>3
        <4>4. CASE j = Len(fields) + 1 /\ k = Len(fields) + 1
          BY <4>4
        <4> QED BY <3>4, <4>1, <4>2, <4>3, <4>4
      <3> QED BY <3>2, <3>3, <3>6 DEF OneInner
    <2> QED BY <2>1, <2>2 DEF Objects
  <1> QED BY <1>13, <1>14

\* Lengths that are remembered move no field.
LEMMA SameOffsets ==
    ASSUME OffsetsInv, OneInner, SameTypes, InnerLength' = InnerLength
    PROVE  OffsetsInv' /\ OneInner'
  <1>1. ASSUME NEW o \in Objects, NEW n, Behind(types[o], n, InnerLength, added["inner"] = 0)
        PROVE  Behind(types'[o], n, InnerLength', added'["inner"] = 0)
    BY <1>1 DEF SameTypes, Behind, Ends
  <1>2. OffsetsInv'
    BY <1>1 DEF OffsetsInv, SameTypes
  <1>3. OneInner'
    BY DEF OneInner, SameTypes, Objects
  <1> QED BY <1>2, <1>3

\* At most one of these is more than none and no more than one.
LEMMA AtMostOne ==
    ASSUME NEW n \in Nat, NEW S \in SUBSET (1 .. n), Cardinality(S) <= 1, NEW j \in S, NEW k \in S
    PROVE  j = k
  <1> SUFFICES ASSUME j # k PROVE FALSE
    OBVIOUS
  <1>1. IsFiniteSet(S)
    <2>1. IsFiniteSet(1 .. n)
      BY FS_Interval
    <2> QED BY <2>1, FS_Subset
  <1>2. Cardinality({j}) = 1 /\ IsFiniteSet({j})
    BY FS_Singleton
  <1>3. Cardinality({j} \cup {k}) = 2
    BY <1>2, FS_AddElement
  <1>4. {j} \cup {k} \in SUBSET S
    OBVIOUS
  <1>5. Cardinality({j} \cup {k}) <= Cardinality(S) /\ Cardinality(S) \in Nat
    BY <1>1, <1>4, FS_Subset, FS_CardinalityType
  <1> QED BY <1>3, <1>5

LEMMA TypesInit == ObjectsInit => TypesInv /\ LengthInv /\ OffsetsInv /\ OneInner
  <1> SUFFICES ASSUME ObjectsInit PROVE TypesInv /\ LengthInv /\ OffsetsInv /\ OneInner
    OBVIOUS
  <1>1. PICK outer \in UNION {[1 .. n -> FieldTypes] : n \in 1 .. MaxFields - 1},
             inner \in UNION {[1 .. n -> FieldTypes \ {"inner"}] : n \in 1 .. MaxFields - 1},
             unions \in [Objects -> BOOLEAN],
             anonymous \in BOOLEAN :
               LET innerType == Defined("inner", unions.inner, anonymous, inner, 0)
                   length == SizeOfFields(innerType, 0)
                   uses == "inner" \in ToSet(outer)
               IN /\ Cardinality({k \in DOMAIN outer : outer[k] = "inner"}) <= 1
                  /\ types = [outer |-> Defined("outer", unions.outer, FALSE, outer, length),
                              inner |-> IF uses /\ ~unions.outer
                                        THEN [innerType EXCEPT !.size = length] ELSE innerType]
    BY DEF ObjectsInit
  <1>2. PICK m \in 1 .. MaxFields - 1 : outer \in [1 .. m -> FieldTypes]
    BY <1>1
  <1>3. PICK n \in 1 .. MaxFields - 1 : inner \in [1 .. n -> FieldTypes \ {"inner"}]
    BY <1>1
  <1>4. m \in Nat /\ n \in Nat /\ m > 0 /\ n > 0
    BY ObjectsAssumption
  <1>5. PICK e, length, d, ui, uo, no :
           /\ e = Defined("inner", ui, anonymous, inner, 0)
           /\ length = SizeOfFields(e, 0)
           /\ d = Defined("outer", uo, no, outer, length)
           /\ ui = unions.inner /\ uo = unions.outer /\ no = FALSE
    OBVIOUS
  <1>8. /\ ui \in BOOLEAN /\ uo \in BOOLEAN /\ no \in BOOLEAN
        /\ "inner" \in Objects /\ "outer" \in Objects
    BY <1>5 DEF Objects
  <1>9. /\ e \in Types /\ e.size = NoSize /\ Len(e.fields) = n
        /\ \A k \in 1 .. n : e.fields[k].name = <<"inner", k>> /\ e.fields[k].type = inner[k]
    <2>1. inner \in [1 .. n -> FieldTypes]
      BY <1>3
    <2>2. AsDefined(e, "inner", ui, inner, n, 0)
      BY <1>4, <1>5, <1>8, <2>1, DefinedType
    <2> QED BY <2>2 DEF AsDefined
  <1>10. length \in Nat
    <2>1. IsType(e)
      BY <1>4, <1>9 DEF IsType, Types
    <2> QED BY <1>5, <2>1, SizeIsNumber
  <1>11. /\ d \in Types /\ d.size = NoSize /\ Len(d.fields) = m
         /\ \A k \in 1 .. m : d.fields[k].name = <<"outer", k>>
    <2>1. AsDefined(d, "outer", uo, outer, m, length)
      BY <1>2, <1>4, <1>5, <1>8, <1>10, DefinedType
    <2> QED BY <2>1 DEF AsDefined
  <1>12. PICK uses : uses = ("inner" \in ToSet(outer) /\ ~unions.outer)
    OBVIOUS
  <1>13. types = [outer |-> d, inner |-> IF uses THEN [e EXCEPT !.size = length] ELSE e]
    BY <1>1, <1>5, <1>12
  <1>14. /\ types["outer"] = d
         /\ types["inner"] \in Types
         /\ types["inner"].union = e.union
         /\ types["inner"].fields = e.fields
         /\ types["inner"].size \in {NoSize, length}
         /\ types \in [Objects -> Types]
    <2>1. [e EXCEPT !.size = length] \in Types
      BY <1>9, <1>10 DEF Types
    <2>2. /\ [e EXCEPT !.size = length].union = e.union
          /\ [e EXCEPT !.size = length].fields = e.fields
          /\ [e EXCEPT !.size = length].size = length
      BY <1>9 DEF Types
    <2>3. types["outer"] = d /\ types["inner"] = IF uses THEN [e EXCEPT !.size = length] ELSE e
      BY <1>13
    <2>4. types["inner"] \in Types
      BY <1>9, <2>1, <2>3
    <2>5. DOMAIN types = Objects /\ types = [o \in Objects |-> types[o]]
      BY <1>13 DEF Objects
    <2>6. types \in [Objects -> Types]
      BY <1>11, <2>3, <2>4, <2>5 DEF Objects
    <2> QED BY <1>9, <2>2, <2>3, <2>4, <2>6
  <1>15. added \in [Objects -> Nat]
    BY DEF ObjectsInit
  <1>16. TypesInv
    <2>1. \A k \in 1 .. n : e.fields[k].type # "inner"
      <3>1. \A k \in 1 .. n : inner[k] # "inner"
        BY <1>3
      <3> QED BY <1>9, <3>1
    <2>2. ASSUME NEW o \in Objects
          PROVE  /\ Len(types[o].fields) > 0
                 /\ \A k \in 1 .. Len(types[o].fields) : types[o].fields[k].name = <<o, k>>
      BY <1>4, <1>9, <1>11, <1>14 DEF Objects
    <2> QED BY <1>9, <1>14, <1>15, <2>1, <2>2 DEF TypesInv
  <1>17. LengthInv
    <2>1. length = SizeOfFields(types["inner"], 0)
      BY <1>5, <1>14, SameSize
    <2> QED BY <1>11, <1>14, <2>1 DEF LengthInv, InnerLengthInv
  <1>18. AsDefined(e, "inner", ui, inner, n, 0) /\ AsDefined(d, "outer", uo, outer, m, length)
    <2>1. inner \in [1 .. n -> FieldTypes]
      BY <1>3
    <2>2. AsDefined(e, "inner", ui, inner, n, 0)
      BY <1>4, <1>5, <1>8, <2>1, DefinedType
    <2>3. AsDefined(d, "outer", uo, outer, m, length)
      BY <1>2, <1>4, <1>5, <1>8, <1>10, DefinedType
    <2> QED BY <2>2, <2>3
  <1>19. InnerLength = length
    <2>1. length = SizeOfFields(types["inner"], 0)
      BY <1>5, <1>14, SameSize
    <2> QED BY <1>16, <1>17, <2>1, InnerLengthIs DEF LengthInv
  <1>20. \A o \in Objects : added[o] = 0
    BY DEF ObjectsInit
  <1>21. OffsetsInv
    <2>1. /\ Len(types["inner"].fields) = n /\ types["inner"].fields = e.fields
          /\ types["inner"].union = e.union
          /\ Len(types["outer"].fields) = m
      BY <1>9, <1>11, <1>14
    <2>2. ASSUME NEW o \in Objects PROVE Len(types[o].fields) - added[o] = Len(types[o].fields)
      BY <1>4, <1>20, <2>1 DEF Objects
    <2>3. ASSUME NEW o \in Objects, types[o].union, NEW k \in 1 .. Len(types[o].fields)
          PROVE  types[o].fields[k].offset = NoOffset
      BY <1>14, <1>18, <2>1, <2>3 DEF AsDefined, Objects
    <2>4. ASSUME ~e.union
          PROVE  Behind(types["inner"], n, InnerLength, added["inner"] = 0)
      <3>1. PICK g : Ends(g, e, 0) /\ \A k \in 1 .. n : e.fields[k].offset = g[k - 1]
        BY <1>18, <2>4 DEF AsDefined
      <3>2. ASSUME NEW k \in 1 .. n PROVE SizeOf(e.fields[k].type, 0) = SizeOf(e.fields[k].type, length)
        BY <1>16, <2>1 DEF TypesInv, SizeOf
      <3>3. PICK type : type = types["inner"]
        OBVIOUS
      <3>4. ASSUME NEW k \in 1 .. n
            PROVE  /\ g[k - 1] \in Nat /\ g[k] \in Nat /\ g[k - 1] <= g[k - 1]
                   /\ g[k] = Extent(g[k - 1], type.fields[k], length)
        <4>1. /\ g[k - 1] \in Nat /\ g[k] \in Nat
              /\ g[k] = Extent(g[k - 1], e.fields[k], 0)
          BY <1>9, <3>1 DEF Ends
        <4>2. Extent(g[k - 1], e.fields[k], 0) = Extent(g[k - 1], e.fields[k], length)
          BY <3>2 DEF Extent
        <4> QED BY <2>1, <3>3, <4>1, <4>2
      <3>5. Ends(g, type, length)
        BY <2>1, <3>1, <3>3, <3>4 DEF Ends
      <3>6. Ends(g, types["inner"], InnerLength)
        BY <1>19, <3>3, <3>5
      <3> QED BY <2>1, <3>1, <3>4, <3>6 DEF Behind
    <2>5. ASSUME ~d.union
          PROVE  Behind(types["outer"], m, InnerLength, added["inner"] = 0)
      <3>1. PICK g : Ends(g, d, length) /\ \A k \in 1 .. m : d.fields[k].offset = g[k - 1]
        BY <1>18, <2>5 DEF AsDefined
      <3>2. \A k \in 1 .. m : g[k - 1] <= g[k - 1]
        <4>1. \A k \in 1 .. m : g[k - 1] \in Nat
          BY <1>11, <3>1 DEF Ends
        <4> QED BY <4>1
      <3> QED BY <1>14, <1>19, <3>1, <3>2 DEF Behind
    <2>6. ASSUME NEW o \in Objects, ~types[o].union
          PROVE  Behind(types[o], Len(types[o].fields), InnerLength, added["inner"] = 0)
      BY <1>14, <2>1, <2>4, <2>5, <2>6 DEF Objects
    <2>7. \A o \in Objects : Len(types[o].fields) \in Nat
      BY <1>4, <2>1 DEF Objects
    <2> QED BY <2>2, <2>3, <2>6, <2>7 DEF OffsetsInv
  <1>22. OneInner
    <2>1. Cardinality({k \in DOMAIN outer : outer[k] = "inner"}) <= 1
      BY <1>1
    <2>2. PICK S : S = {k \in 1 .. m : outer[k] = "inner"}
      OBVIOUS
    <2>3. Cardinality(S) <= 1
      BY <1>2, <2>1, <2>2
    <2>4. \A j, k \in S : j = k
      <3>1. S \in SUBSET (1 .. m)
        BY <2>2
      <3> QED BY <1>4, <2>3, <3>1, AtMostOne
    <2> QED BY <1>11, <1>14, <1>18, <2>2, <2>4 DEF OneInner, AsDefined
  <1> QED BY <1>16, <1>17, <1>21, <1>22

-----------------------------------------------------------------------------
(* What actions do to the types *)

LEMMA TypesStep ==
    ASSUME TypesInv, LengthInv, OffsetsInv, OneInner, [ObjectsNext]_objectVars
    PROVE  TypesInv' /\ LengthInv' /\ (MoreTypes \/ SameTypes) /\ OffsetsInv' /\ OneInner'
  <1>1. CASE \E asked : types' = Measured(asked) /\ added' = added
    BY <1>1, MeasuredSafe, SameOffsets
  <1>2. CASE types' = types /\ added' = added
    <2>1. SameTypes
      BY <1>2 DEF SameTypes
    <2>2. InnerLength' = InnerLength
      BY <1>2 DEF InnerLength
    <2>3. OffsetsInv' /\ OneInner'
      BY <2>1, <2>2, SameOffsets
    <2> QED BY <1>2, <2>1, <2>3 DEF TypesInv, LengthInv, InnerLengthInv, CalcSize, InnerLength,
                                    UsesInner, FieldsOf
  <1>3. CASE AddField
    BY <1>3, AddedSafe, AddedOffsets
  <1>4. CASE Read
    BY <1>1, <1>4 DEF Read
  <1>5. CASE Dump
    BY <1>1, <1>2, <1>5 DEF Dump
  <1>6. CASE Measure
    BY <1>1, <1>6 DEF Measure
  <1>7. CASE MakeDefault \/ SetMember \/ SetNested \/ SetAnonymous \/ Seek \/ FollowNull \/ Follow
    BY <1>2, <1>7 DEF MakeDefault, SetMember, SetNested, SetAnonymous, Seek, FollowNull, Follow
  <1>8. CASE UNCHANGED objectVars
    BY <1>2, <1>8 DEF objectVars
  <1> QED BY <1>3, <1>4, <1>5, <1>6, <1>7, <1>8 DEF ObjectsNext

-----------------------------------------------------------------------------
(* Reading *)

\* The stream, or a buffer of some of it
ViewOK(view) ==
    /\ view \in [base : Nat, limit : Nat, shared : BOOLEAN]
    /\ view.limit <= Len(Memory) \/ view.limit <= view.base

LEMMA MemoryLength == Len(Memory) \in Nat
  BY ObjectsAssumption

LEMMA StreamView == ViewOK(Stream) /\ Stream.base = 0
  BY MemoryLength DEF ViewOK, Stream

LEMMA AheadIs ==
    ASSUME NEW view, ViewOK(view), NEW p \in Nat, view.base <= p, NEW n \in Nat
    PROVE  \E m \in 0 .. n :
              /\ Ahead(view, p, n) = [i \in 1 .. m |-> p + i]
              /\ Ahead(view, p, n) \in Seq(Nat)
              /\ Len(Ahead(view, p, n)) = m
              /\ m > 0 => p + m <= view.limit /\ p + m <= Len(Memory)
              /\ p + n <= view.limit => m = n
  <1> DEFINE b == Max({0, view.limit - p})
             m == Min({n, b})
  <1>1. view.base \in Nat /\ view.limit \in Nat
    BY DEF ViewOK
  <1>2. b = IF 0 >= view.limit - p THEN 0 ELSE view.limit - p
    BY <1>1, MaxOfTwo
  <1>3. Ahead(view, p, n) = [i \in 1 .. m |-> p + i]
    BY DEF Ahead
  <1> HIDE DEF b
  <1>4. b \in Nat
    BY <1>1, <1>2
  <1>5. m = IF n <= b THEN n ELSE b
    BY <1>4, MinOfTwo
  <1> HIDE DEF m
  <1>6. m \in 0 .. n /\ m \in Nat
    BY <1>4, <1>5
  <1>7. Ahead(view, p, n) \in Seq(Nat) /\ Len(Ahead(view, p, n)) = m
    BY <1>3, <1>6
  <1>8. m > 0 => p + m <= view.limit /\ p + m <= Len(Memory)
    BY <1>1, <1>2, <1>4, <1>5, MemoryLength DEF ViewOK
  <1>9. p + n <= view.limit => m = n
    BY <1>1, <1>2, <1>4, <1>5
  <1> QED BY <1>3, <1>6, <1>7, <1>8, <1>9

LeafTypes == DOMAIN TypeSizes

LEMMA LeafSizes ==
    /\ \A t \in LeafTypes : TypeSizes[t] \in Nat /\ TypeSizes[t] > 0
    /\ \A t \in FieldTypes : t # "inner" => t \in LeafTypes
    /\ TypeSizes["pointer"] = 1
    /\ "pointer" \in LeafTypes /\ "inner" \notin LeafTypes
    /\ "byte" \in LeafTypes /\ "short" \in LeafTypes
  BY ObjectsAssumption DEF LeafTypes, TypeSizes

NoUnions == \A o \in Objects : ~types[o].union

\* The value of a field of a type that is no structure
IsLeaf(v, t) ==
    /\ v.kind = IF t = "pointer" THEN "pointer" ELSE "leaf"
    /\ v.members = Nothing
    /\ v.bytes \in Seq(ObjectBytes)
    /\ Len(v.bytes) = TypeSizes[t]
    /\ t = "pointer" => ViewOK(v.view) /\ v.bytes[1] \in 1 .. Len(Memory)

\* The bytes of v are those after position p.
ReadAt(v, p) == \A i \in 1 .. Len(v.bytes) : v.bytes[i] = p + i

\* A byte, short or pointer that is read whole has the bytes where the reader is.
LEMMA LeafRead ==
    ASSUME NEW view, ViewOK(view), NEW p \in Nat, view.base <= p, NEW t \in LeafTypes,
           NEW r, r = ReadLeaf(t, view, p)
    PROVE  /\ r.ok \in BOOLEAN
           /\ r.pos \in Nat /\ p <= r.pos /\ r.asked = {}
           /\ r.ok => /\ r.pos = p + TypeSizes[t]
                      /\ r.pos <= view.limit
                      /\ IsLeaf(r.value, t)
                      /\ ReadAt(r.value, p)
                      /\ t = "pointer" => r.value.view = view
  <1> DEFINE n == TypeSizes[t]
  <1>1. n \in Nat /\ n > 0
    BY LeafSizes
  <1> HIDE DEF n
  <1>2. PICK m \in 0 .. n :
              /\ Ahead(view, p, n) = [i \in 1 .. m |-> p + i]
              /\ Ahead(view, p, n) \in Seq(Nat)
              /\ Len(Ahead(view, p, n)) = m
              /\ m > 0 => p + m <= view.limit /\ p + m <= Len(Memory)
    BY <1>1, AheadIs
  <1>3. PICK got : got = Ahead(view, p, n)
    OBVIOUS
  <1>4. r = [ok |-> Len(got) = n, pos |-> p + Len(got), asked |-> {},
             value |-> IF t = "pointer" THEN Value(t, got, Nothing, view) ELSE Leaf(got)]
    BY <1>3 DEF ReadLeaf, n
  <1>5. r.ok = (m = n) /\ r.pos = p + m /\ r.asked = {}
        /\ r.value = IF t = "pointer" THEN Value(t, got, Nothing, view) ELSE Leaf(got)
    BY <1>2, <1>3, <1>4
  <1>6. r.pos \in Nat /\ p <= r.pos
    BY <1>1, <1>2, <1>5
  <1>7. /\ r.value.kind = IF t = "pointer" THEN "pointer" ELSE "leaf"
        /\ r.value.bytes = got
        /\ r.value.members = Nothing
        /\ t = "pointer" => r.value.view = view
    BY <1>5 DEF Value, Leaf
  <1>8. ASSUME m = n
        PROVE  /\ \A i \in 1 .. n : got[i] = p + i /\ got[i] \in 1 .. Len(Memory)
               /\ Len(got) = n
               /\ p + n <= view.limit
    BY <1>1, <1>2, <1>3, <1>8, MemoryLength
  <1>9. ASSUME m = n PROVE IsLeaf(r.value, t) /\ ReadAt(r.value, p)
    <2>1. got \in Seq(ObjectBytes)
      <3>1. 1 .. Len(Memory) \subseteq ObjectBytes
        BY MemoryLength DEF ObjectBytes
      <3>2. got = [i \in 1 .. n |-> got[i]]
        BY <1>2, <1>3, <1>9
      <3>3. got \in [1 .. n -> ObjectBytes]
        BY <1>8, <1>9, <3>1, <3>2
      <3> QED BY <1>1, <3>3
    <2>2. t = "pointer" => got[1] \in 1 .. Len(Memory)
      BY <1>1, <1>8, <1>9
    <2> QED BY <1>7, <1>8, <1>9, <2>1, <2>2 DEF IsLeaf, ReadAt, n
  <1> QED BY <1>5, <1>6, <1>7, <1>8, <1>9 DEF n

EndsOf(type, inner) == CHOOSE g : Ends(g, type, inner)

\* Where a field begins, if offsets do not lead elsewhere
Place(type, inner, k) == IF type.union THEN 0 ELSE EndsOf(type, inner)[k - 1]

\* Offsets do not lead elsewhere.
InPlace(type, inner) ==
    \A k \in 1 .. Len(type.fields) :
       type.fields[k].offset \in {NoOffset, Place(type, inner, k)}

LEMMA EndsOfIs ==
    ASSUME NEW type, IsType(type), ~type.union, NEW inner \in Nat
    PROVE  /\ Ends(EndsOf(type, inner), type, inner)
           /\ SizeOfFields(type, inner) = EndsOf(type, inner)[Len(type.fields)]
  <1>1. PICK g : Ends(g, type, inner) /\ SizeOfFields(type, inner) = g[Len(type.fields)]
    BY EndsExist
  <1>2. Ends(EndsOf(type, inner), type, inner)
    BY <1>1 DEF EndsOf
  <1>3. PICK h : h = EndsOf(type, inner)
    OBVIOUS
  <1>4. Grown(type, inner, type, inner)
    <2>1. ASSUME NEW k \in 1 .. Len(type.fields)
          PROVE  SizeOf(type.fields[k].type, inner) <= SizeOf(type.fields[k].type, inner)
      <3>1. type.fields[k] \in Fields
        BY DEF IsType
      <3>2. SizeOf(type.fields[k].type, inner) \in Nat
        BY <3>1, SizeOfType DEF Fields
      <3> QED BY <3>2
    <2>2. Len(type.fields) \in Nat
      BY DEF IsType
    <2> QED BY <2>1, <2>2 DEF Grown
  <1>5. Len(type.fields) \in 0 .. Len(type.fields)
    BY DEF IsType
  <1>6. g[Len(type.fields)] <= h[Len(type.fields)] /\ h[Len(type.fields)] <= g[Len(type.fields)]
    BY <1>1, <1>2, <1>3, <1>4, <1>5, EndsGrow
  <1>7. g[Len(type.fields)] \in Nat /\ h[Len(type.fields)] \in Nat
    BY <1>1, <1>2, <1>3, <1>5, EndsAscend
  <1> QED BY <1>1, <1>2, <1>3, <1>6, <1>7

\* What reads a field
ReadOf(t, view, nested, p) == IF t = "inner" THEN nested[p] ELSE ReadLeaf(t, view, p)

Runs(acc, o, view, start, nested, n) ==
    acc = [k \in 0 .. n |->
             IF k = 0 THEN Loop(start)
             ELSE ReadField(types[o].fields[k], acc[k - 1],
                            ReadOf(types[o].fields[k].type, view, nested,
                                   Begin(types[o].fields[k], start, From(o, start, acc[k - 1]))))]

LEMMA RunsExist ==
    ASSUME NEW o, NEW view, NEW start, NEW nested
    PROVE  \A n \in Nat : \E acc : Runs(acc, o, view, start, nested, n)
  <1> DEFINE T == {n \in Nat : ~ \E acc : Runs(acc, o, view, start, nested, n)}
  <1> SUFFICES ASSUME T # {} PROVE FALSE
    OBVIOUS
  <1>1. PICK n \in T : \A m \in T : n <= m
    <2>1. T \in SUBSET Nat
      OBVIOUS
    <2> HIDE DEF T
    <2> QED BY <2>1, Least
  <1>2. CASE n = 0
    <2> DEFINE g == [k \in 0 .. 0 |-> Loop(start)]
    <2>1. Runs(g, o, view, start, nested, 0)
      BY DEF Runs
    <2> HIDE DEF g
    <2> QED BY <1>1, <1>2, <2>1
  <1>3. CASE n # 0
    <2>1. n - 1 \in Nat /\ n - 1 \notin T
      BY <1>1, <1>3
    <2>2. PICK g : Runs(g, o, view, start, nested, n - 1)
      BY <2>1
    <2> DEFINE h == [k \in 0 .. n |->
             IF k = 0 THEN Loop(start)
             ELSE ReadField(types[o].fields[k], g[k - 1],
                            ReadOf(types[o].fields[k].type, view, nested,
                                   Begin(types[o].fields[k], start, From(o, start, g[k - 1]))))]
    <2>3. \A k \in 0 .. n - 1 : h[k] = g[k]
      BY <2>1, <2>2 DEF Runs
    <2>4. \A k \in 0 .. n : k # 0 => k - 1 \in 0 .. n - 1
      BY <1>1
    <2>5. Runs(h, o, view, start, nested, n)
      BY <2>3, <2>4 DEF Runs
    <2> HIDE DEF h
    <2> QED BY <1>1, <2>5
  <1> QED BY <1>2, <1>3

\* The loop over the fields
LEMMA LoopRuns ==
    ASSUME NEW o, Len(types[o].fields) \in Nat, NEW view, NEW start, NEW nested
    PROVE  \E acc :
              /\ acc[0] = Loop(start)
              /\ \A k \in 1 .. Len(types[o].fields) :
                    acc[k] = ReadField(types[o].fields[k], acc[k - 1],
                                ReadOf(types[o].fields[k].type, view, nested,
                                   Begin(types[o].fields[k], start, From(o, start, acc[k - 1]))))
              /\ ReadStructure(o, view, start, nested) = acc[Len(types[o].fields)]
  <1> DEFINE fields == types[o].fields
             P(acc) == acc = [k \in 0 .. Len(fields) |->
                                IF k = 0 THEN Loop(start)
                                ELSE ReadField(fields[k], acc[k - 1],
                                       IF fields[k].type = "inner"
                                       THEN nested[Begin(fields[k], start, From(o, start, acc[k - 1]))]
                                       ELSE ReadLeaf(fields[k].type, view,
                                              Begin(fields[k], start, From(o, start, acc[k - 1]))))]
             c == CHOOSE acc : P(acc)
  <1>1. PICK g : Runs(g, o, view, start, nested, Len(fields))
    BY RunsExist
  <1>2. P(g)
    BY <1>1 DEF Runs, ReadOf
  <1>3. P(c)
    <2> HIDE DEF P
    <2> QED BY <1>2
  <1>4. ReadStructure(o, view, start, nested) = c[Len(fields)]
    BY DEF ReadStructure
  <1>5. PICK acc : acc = c
    OBVIOUS
  <1>6. P(acc)
    BY <1>3, <1>5
  <1> HIDE DEF c
  <1>7. Runs(acc, o, view, start, nested, Len(fields))
    BY <1>6 DEF Runs, ReadOf
  <1> HIDE DEF P
  <1>8. acc[0] = Loop(start)
    BY <1>7 DEF Runs
  <1>9. ASSUME NEW k \in 1 .. Len(fields)
        PROVE  acc[k] = ReadField(fields[k], acc[k - 1],
                           ReadOf(fields[k].type, view, nested,
                                  Begin(fields[k], start, From(o, start, acc[k - 1]))))
    <2>1. k \in 0 .. Len(fields) /\ k # 0
      OBVIOUS
    <2> QED BY <1>7, <2>1 DEF Runs
  <1> QED BY <1>4, <1>5, <1>8, <1>9

\* What reading a field of size n at p may do; exactly, or at most
Takes(r, p, n, exact) ==
    /\ r.ok \in BOOLEAN
    /\ r.pos \in Nat
    /\ p <= r.pos
    /\ r.ok => r.pos <= p + n /\ (exact => r.pos = p + n)

\* A field of o that is read at p, which is within a structure
FieldAt(o, k, start, p, exact) ==
    LET size == SizeOf(types[o].fields[k].type, InnerLength)
    IN /\ p \in Nat
       /\ start <= p
       /\ ~types[o].union => p + size <= start + SizeOfFields(types[o], InnerLength)
       /\ exact => p = start + Place(types[o], InnerLength, k)

\* Where the loop is after k fields
LoopAt(acc, o, start, k, exact) ==
    /\ acc[k].ok \in BOOLEAN
    /\ acc[k].pos \in Nat
    /\ start <= acc[k].pos
    /\ acc[k].ok /\ ~types[o].union =>
          /\ acc[k].pos <= start + EndsOf(types[o], InnerLength)[k]
          /\ exact => acc[k].pos = start + EndsOf(types[o], InnerLength)[k]

LEMMA FieldBegins ==
    ASSUME TypesInv, LengthInv, NEW o \in Objects, NEW start \in Nat, NEW exact \in BOOLEAN,
           exact => InPlace(types[o], InnerLength),
           NEW acc, NEW k \in 1 .. Len(types[o].fields),
           LoopAt(acc, o, start, k - 1, exact), acc[k - 1].ok,
           NEW p, p = Begin(types[o].fields[k], start, From(o, start, acc[k - 1]))
    PROVE  /\ FieldAt(o, k, start, p, exact)
           /\ LET size == SizeOf(types[o].fields[k].type, InnerLength)
              IN ~types[o].union =>
                   /\ p + size <= start + EndsOf(types[o], InnerLength)[k]
                   /\ exact => p + size = start + EndsOf(types[o], InnerLength)[k]
  <1> DEFINE type == types[o]
             f == type.fields[k]
             n == InnerLength
             size == SizeOf(f.type, n)
             g == EndsOf(type, n)
  <1>1. IsType(type) /\ n \in Nat /\ type \in Types
    BY TypeIsType, InnerLengthIs DEF TypesInv, LengthInv
  <1>2. f \in Fields
    BY <1>1 DEF IsType
  <1>3. f.type \in FieldTypes /\ f.offset \in Nat \cup {NoOffset} /\ NoOffset \notin Nat
    BY <1>2, ObjectsAssumption DEF Fields
  <1>4. size \in Nat
    BY <1>1, <1>3, SizeOfType
  <1>5. acc[k - 1].pos \in Nat /\ start <= acc[k - 1].pos
    BY DEF LoopAt
  <1>6. p = IF f.offset \notin {NoOffset, 0} THEN start + f.offset
            ELSE IF type.union THEN start ELSE acc[k - 1].pos
    BY DEF Begin, From
  <1>7. p \in Nat /\ start <= p
    BY <1>3, <1>5, <1>6
  <1>8. CASE ~type.union
    <2>1. Ends(g, type, n) /\ SizeOfFields(type, n) = g[Len(type.fields)]
      BY <1>1, <1>8, EndsOfIs
    <2>2. g[k - 1] \in Nat /\ g[k] \in Nat /\ g[k] = Extent(g[k - 1], f, n)
      BY <2>1 DEF Ends
    <2>3. /\ g[k] >= g[k - 1] + size
          /\ f.offset # NoOffset => g[k] >= f.offset + size
          /\ \/ g[k] = g[k - 1] + size
             \/ f.offset # NoOffset /\ g[k] = f.offset + size
      <3>1. /\ Extent(g[k - 1], f, n) >= g[k - 1] + SizeOf(f.type, n)
            /\ f.offset # NoOffset => Extent(g[k - 1], f, n) >= f.offset + SizeOf(f.type, n)
            /\ \/ Extent(g[k - 1], f, n) = g[k - 1] + SizeOf(f.type, n)
               \/ f.offset # NoOffset /\ Extent(g[k - 1], f, n) = f.offset + SizeOf(f.type, n)
        BY <1>1, <1>2, <2>2, ExtentOfField
      <3> QED BY <2>2, <3>1
    <2>4. g[k] <= g[Len(type.fields)] /\ g[Len(type.fields)] \in Nat
      <3>1. k \in 0 .. Len(type.fields) /\ Len(type.fields) \in 0 .. Len(type.fields)
            /\ k <= Len(type.fields)
        BY <1>1 DEF IsType
      <3> QED BY <1>1, <2>1, <3>1, EndsAscend
    <2>5. acc[k - 1].pos <= start + g[k - 1] /\ (exact => acc[k - 1].pos = start + g[k - 1])
      BY <1>8 DEF LoopAt
    <2>6. exact => f.offset \in {NoOffset, g[k - 1]}
      BY <1>8 DEF InPlace, Place
    <2>7. Place(type, n, k) = g[k - 1]
      BY <1>8 DEF Place
    <2> HIDE DEF g, size, f
    <2>8. p + size <= start + g[k]
      <3>1. CASE f.offset \notin {NoOffset, 0}
        BY <1>3, <1>4, <1>6, <2>2, <2>3, <3>1
      <3>2. CASE f.offset \in {NoOffset, 0}
        BY <1>4, <1>5, <1>6, <1>8, <2>2, <2>3, <2>5, <3>2
      <3> QED BY <3>1, <3>2
    <2>9. exact => p = start + g[k - 1] /\ p + size = start + g[k]
      <3> SUFFICES ASSUME exact PROVE p = start + g[k - 1] /\ p + size = start + g[k]
        OBVIOUS
      <3>1. p = start + g[k - 1]
        <4>1. CASE f.offset \notin {NoOffset, 0}
          BY <1>6, <2>6, <4>1
        <4>2. CASE f.offset \in {NoOffset, 0}
          BY <1>6, <1>8, <2>5, <4>2
        <4> QED BY <4>1, <4>2
      <3>2. g[k] = g[k - 1] + size
        BY <1>4, <2>2, <2>3, <2>6
      <3> QED BY <1>4, <2>2, <3>1, <3>2
    <2>10. p + size <= start + SizeOfFields(type, n)
      BY <1>4, <1>7, <2>1, <2>2, <2>4, <2>8
    <2>11. FieldAt(o, k, start, p, exact)
      BY <1>7, <2>7, <2>9, <2>10 DEF FieldAt, size, f
    <2> QED BY <2>8, <2>9, <2>11 DEF g, size, f
  <1>9. CASE type.union
    <2>1. exact => p = start + Place(type, n, k)
      BY <1>3, <1>6, <1>9 DEF InPlace, Place
    <2> QED BY <1>7, <1>9, <2>1 DEF FieldAt
  <1> QED BY <1>1, <1>8, <1>9 DEF Types

\* All fields of o were read, in the loop from start.
AllRead(R, o, view, nested, start, exact) ==
    LET fields == types[o].fields
        put(k, p) == Put(fields[k], ReadOf(fields[k].type, view, nested, p).value)
    IN /\ ~types[o].union =>
             /\ R.pos <= start + SizeOfFields(types[o], InnerLength)
             /\ exact => R.pos = start + SizeOfFields(types[o], InnerLength)
       /\ \E at :
             /\ \A k \in 1 .. Len(fields) :
                   /\ FieldAt(o, k, start, at[k], exact)
                   /\ ReadOf(fields[k].type, view, nested, at[k]).ok
                   /\ DOMAIN put(k, at[k]) \subseteq DOMAIN R.values
             /\ \A m \in DOMAIN R.values : \E k \in 1 .. Len(fields) :
                   m \in DOMAIN put(k, at[k]) /\ R.values[m] = put(k, at[k])[m]

LEMMA OverIs ==
    ASSUME NEW f, NEW g
    PROVE  /\ DOMAIN Over(f, g) = DOMAIN f \cup DOMAIN g
           /\ \A m \in DOMAIN f : Over(f, g)[m] = f[m]
           /\ \A m \in DOMAIN g : m \notin DOMAIN f => Over(f, g)[m] = g[m]
  BY DEF Over

LEMMA LoopReads ==
    ASSUME TypesInv, LengthInv, NEW o \in Objects, NEW view, NEW nested, NEW start \in Nat,
           NEW exact \in BOOLEAN, exact => InPlace(types[o], InnerLength),
           \A k \in 1 .. Len(types[o].fields) : \A p \in Nat :
              start <= p => Takes(ReadOf(types[o].fields[k].type, view, nested, p), p,
                                  SizeOf(types[o].fields[k].type, InnerLength), exact),
           NEW R, R = ReadStructure(o, view, start, nested)
    PROVE  /\ R.ok \in BOOLEAN
           /\ R.pos \in Nat
           /\ start <= R.pos
           /\ R.ok => AllRead(R, o, view, nested, start, exact)
  <1>1. Len(types[o].fields) \in Nat /\ IsType(types[o]) /\ InnerLength \in Nat
    BY TypeIsType, InnerLengthIs DEF IsType, LengthInv
  <1>2. \E acc :
           /\ acc[0] = Loop(start)
           /\ \A k \in 1 .. Len(types[o].fields) :
                 acc[k] = ReadField(types[o].fields[k], acc[k - 1],
                             ReadOf(types[o].fields[k].type, view, nested,
                                Begin(types[o].fields[k], start, From(o, start, acc[k - 1]))))
           /\ ReadStructure(o, view, start, nested) = acc[Len(types[o].fields)]
    <2>1. Len(types[o].fields) \in Nat
      BY <1>1
    <2> QED BY <2>1, LoopRuns
  <1>3. PICK acc :
           /\ acc[0] = Loop(start)
           /\ \A k \in 1 .. Len(types[o].fields) :
                 acc[k] = ReadField(types[o].fields[k], acc[k - 1],
                             ReadOf(types[o].fields[k].type, view, nested,
                                Begin(types[o].fields[k], start, From(o, start, acc[k - 1]))))
           /\ R = acc[Len(types[o].fields)]
    BY <1>2
  <1> DEFINE n == Len(types[o].fields)
             f(k) == types[o].fields[k]
  <1>4. R = acc[n] /\ n \in Nat
    BY <1>1, <1>3
  <1>5. PICK at : at = [k \in 1 .. n |-> Begin(f(k), start, From(o, start, acc[k - 1]))]
    OBVIOUS
  <1>6. PICK rs : rs = [k \in 1 .. n |-> ReadOf(f(k).type, view, nested, at[k])]
    OBVIOUS
  <1>7. PICK puts : puts = [k \in 1 .. n |-> Put(f(k), rs[k].value)]
    OBVIOUS
  <1>8. \A k \in 1 .. n : acc[k] = ReadField(f(k), acc[k - 1], rs[k])
    BY <1>3, <1>5, <1>6
  <1>9. \A k \in 1 .. n :
           /\ ~acc[k - 1].ok => acc[k] = acc[k - 1]
           /\ acc[k - 1].ok =>
                 /\ acc[k].ok = rs[k].ok
                 /\ acc[k].pos = rs[k].pos
                 /\ acc[k].ok => acc[k].values = Over(puts[k], acc[k - 1].values)
    <2> TAKE k \in 1 .. n
    <2>1. acc[k] = ReadField(f(k), acc[k - 1], rs[k])
      BY <1>8
    <2>2. puts[k] = Put(f(k), rs[k].value)
      BY <1>7
    <2>3. CASE ~acc[k - 1].ok
      BY <2>1, <2>3 DEF ReadField
    <2>4. CASE acc[k - 1].ok
      <3>1. acc[k] = [ok |-> rs[k].ok, pos |-> rs[k].pos,
                      asked |-> acc[k - 1].asked \cup rs[k].asked,
                      values |-> IF rs[k].ok THEN Over(puts[k], acc[k - 1].values)
                                 ELSE acc[k - 1].values]
        BY <2>1, <2>2, <2>4 DEF ReadField
      <3>2. acc[k].ok = rs[k].ok
        BY <3>1
      <3>3. acc[k].pos = rs[k].pos
        BY <3>1
      <3>4. acc[k].values = IF rs[k].ok THEN Over(puts[k], acc[k - 1].values)
                            ELSE acc[k - 1].values
        BY <3>1
      <3> QED BY <2>4, <3>2, <3>3, <3>4
    <2> QED BY <2>3, <2>4
  <1>10. ASSUME NEW k \in 1 .. n, LoopAt(acc, o, start, k - 1, exact), acc[k - 1].ok
        PROVE  FieldAt(o, k, start, at[k], exact) /\ LoopAt(acc, o, start, k, exact)
    <2>1. at[k] = Begin(f(k), start, From(o, start, acc[k - 1]))
      BY <1>5
    <2> DEFINE size == SizeOf(f(k).type, InnerLength)
    <2>2. /\ FieldAt(o, k, start, at[k], exact)
          /\ ~types[o].union =>
               /\ at[k] + size <= start + EndsOf(types[o], InnerLength)[k]
               /\ exact => at[k] + size = start + EndsOf(types[o], InnerLength)[k]
      BY <1>10, <2>1, FieldBegins
    <2>3. at[k] \in Nat /\ start <= at[k]
      BY <2>2 DEF FieldAt
    <2>4. Takes(rs[k], at[k], size, exact)
      BY <1>6, <2>3
    <2>5. size \in Nat
      <3>1. f(k) \in Fields
        BY <1>1 DEF IsType
      <3> QED BY <1>1, <3>1, SizeOfType DEF Fields
    <2>6. acc[k].ok = rs[k].ok /\ acc[k].pos = rs[k].pos
      BY <1>9, <1>10
    <2>7. ~types[o].union => EndsOf(types[o], InnerLength)[k] \in Nat
      BY <1>1, EndsOfIs DEF Ends
    <2> HIDE DEF size, f
    <2>8. LoopAt(acc, o, start, k, exact)
      <3>1. acc[k].ok \in BOOLEAN /\ acc[k].pos \in Nat /\ start <= acc[k].pos
        BY <2>3, <2>4, <2>6 DEF Takes
      <3>2. ASSUME acc[k].ok, ~types[o].union
            PROVE  /\ acc[k].pos <= start + EndsOf(types[o], InnerLength)[k]
                   /\ exact => acc[k].pos = start + EndsOf(types[o], InnerLength)[k]
        BY <2>2, <2>3, <2>4, <2>5, <2>6, <2>7, <3>1, <3>2 DEF Takes
      <3> QED BY <3>1, <3>2 DEF LoopAt
    <2> QED BY <2>2, <2>8
  <1>11. LoopAt(acc, o, start, 0, exact)
    <2>1. acc[0].ok = TRUE /\ acc[0].pos = start
      BY <1>3 DEF Loop
    <2>2. ~types[o].union => EndsOf(types[o], InnerLength)[0] = 0
      BY <1>1, EndsOfIs DEF Ends
    <2>3. acc[0].ok \in BOOLEAN /\ acc[0].pos \in Nat /\ start <= acc[0].pos
      <3>1. acc[0].ok \in BOOLEAN
        BY <2>1
      <3>2. start <= start
        OBVIOUS
      <3> QED BY <2>1, <3>1, <3>2
    <2>4. ~types[o].union =>
             /\ acc[0].pos <= start + EndsOf(types[o], InnerLength)[0]
             /\ acc[0].pos = start + EndsOf(types[o], InnerLength)[0]
      BY <2>1, <2>2
    <2> QED BY <2>3, <2>4 DEF LoopAt
  <1>12. ASSUME NEW k \in 1 .. n, LoopAt(acc, o, start, k - 1, exact)
         PROVE  LoopAt(acc, o, start, k, exact)
    <2>1. CASE acc[k - 1].ok
      BY <1>10, <1>12, <2>1
    <2>2. CASE ~acc[k - 1].ok
      <3>1. acc[k] = acc[k - 1]
        BY <1>9, <2>2
      <3> QED BY <1>12, <2>2, <3>1 DEF LoopAt
    <2> QED BY <2>1, <2>2
  <1> HIDE DEF n, f
  <1>13. \A k \in 0 .. n : LoopAt(acc, o, start, k, exact)
    <2> DEFINE T == {k \in 0 .. n : ~LoopAt(acc, o, start, k, exact)}
    <2> SUFFICES ASSUME T # {} PROVE FALSE
      OBVIOUS
    <2>1. PICK k \in T : \A j \in T : k <= j
      <3>1. T \in SUBSET Nat
        BY <1>4
      <3> HIDE DEF T
      <3> QED BY <3>1, Least
    <2>2. k # 0
      BY <1>11, <2>1
    <2>3. k - 1 \in 0 .. n /\ k - 1 \notin T /\ k \in 1 .. n
      BY <1>4, <2>1, <2>2
    <2> QED BY <1>12, <2>1, <2>3
  \* What the values are after k fields
  <1> DEFINE ValuesAt(k) ==
                /\ \A j \in 1 .. k : acc[j - 1].ok /\ acc[j].ok
                /\ \A j \in 1 .. k : DOMAIN puts[j] \subseteq DOMAIN acc[k].values
                /\ \A m \in DOMAIN acc[k].values : \E j \in 1 .. k :
                      m \in DOMAIN puts[j] /\ acc[k].values[m] = puts[j][m]
  <1>14. acc[0].ok => ValuesAt(0)
    <2>1. DOMAIN acc[0].values = {}
      BY <1>3 DEF Loop, Nothing
    <2> QED BY <2>1
  <1>15. ASSUME NEW k \in 1 .. n, acc[k - 1].ok => ValuesAt(k - 1), acc[k].ok
         PROVE  ValuesAt(k)
    <2>1. acc[k - 1].ok
      BY <1>9, <1>15
    <2>2. ValuesAt(k - 1)
      BY <1>15, <2>1
    <2>3. acc[k].values = Over(puts[k], acc[k - 1].values)
      BY <1>9, <1>15, <2>1
    <2>4. \A j \in 1 .. k : j \in 1 .. k - 1 \/ j = k
      OBVIOUS
    <2>5. \A j \in 1 .. k : acc[j - 1].ok /\ acc[j].ok
      BY <1>15, <2>1, <2>2, <2>4
    <2>8. /\ DOMAIN acc[k].values = DOMAIN puts[k] \cup DOMAIN acc[k - 1].values
          /\ \A m \in DOMAIN puts[k] : acc[k].values[m] = puts[k][m]
          /\ \A m \in DOMAIN acc[k - 1].values :
                m \notin DOMAIN puts[k] => acc[k].values[m] = acc[k - 1].values[m]
      <3> DEFINE a == puts[k]
                 b == acc[k - 1].values
      <3>1. /\ DOMAIN Over(a, b) = DOMAIN a \cup DOMAIN b
            /\ \A m \in DOMAIN a : Over(a, b)[m] = a[m]
            /\ \A m \in DOMAIN b : m \notin DOMAIN a => Over(a, b)[m] = b[m]
        <4> HIDE DEF a, b
        <4> QED BY OverIs
      <3> QED BY <2>3, <3>1
    <2>6. \A j \in 1 .. k : DOMAIN puts[j] \subseteq DOMAIN acc[k].values
      BY <2>2, <2>8, <2>4
    <2>7. ASSUME NEW m \in DOMAIN acc[k].values
          PROVE  \E j \in 1 .. k : m \in DOMAIN puts[j] /\ acc[k].values[m] = puts[j][m]
      <3>1. CASE m \in DOMAIN puts[k]
        <4>1. acc[k].values[m] = puts[k][m]
          BY <2>8, <3>1
        <4>2. k \in 1 .. k
          OBVIOUS
        <4> QED BY <3>1, <4>1, <4>2
      <3>2. CASE m \notin DOMAIN puts[k]
        <4>1. m \in DOMAIN acc[k - 1].values /\ acc[k].values[m] = acc[k - 1].values[m]
          BY <2>8, <2>7, <3>2
        <4>2. PICK j \in 1 .. k - 1 : m \in DOMAIN puts[j] /\ acc[k - 1].values[m] = puts[j][m]
          BY <2>2, <4>1
        <4>3. j \in 1 .. k
          OBVIOUS
        <4> QED BY <4>1, <4>2, <4>3
      <3> QED BY <3>1, <3>2
    <2> QED BY <2>5, <2>6, <2>7
  <1>16. \A k \in 0 .. n : acc[k].ok => ValuesAt(k)
    <2> HIDE DEF ValuesAt
    <2> DEFINE T == {k \in 0 .. n : ~ (acc[k].ok => ValuesAt(k))}
    <2> SUFFICES ASSUME T # {} PROVE FALSE
      OBVIOUS
    <2>1. PICK k \in T : \A j \in T : k <= j
      <3>1. T \in SUBSET Nat
        BY <1>4
      <3> HIDE DEF T
      <3> QED BY <3>1, Least
    <2>2. k # 0
      BY <1>14, <2>1
    <2>3. k - 1 \in 0 .. n /\ k - 1 \notin T /\ k \in 1 .. n
      BY <1>4, <2>1, <2>2
    <2>4. acc[k - 1].ok => ValuesAt(k - 1)
      BY <2>3
    <2> QED BY <1>15, <2>1, <2>3, <2>4
  <1>17. n \in 0 .. n
    BY <1>4
  <1>18. R.ok \in BOOLEAN /\ R.pos \in Nat /\ start <= R.pos
    BY <1>4, <1>13, <1>17 DEF LoopAt
  <1>19. ASSUME R.ok PROVE AllRead(R, o, view, nested, start, exact)
    <2>1. ValuesAt(n)
      BY <1>4, <1>16, <1>17, <1>19
    <2>2. ~types[o].union =>
             /\ R.pos <= start + SizeOfFields(types[o], InnerLength)
             /\ exact => R.pos = start + SizeOfFields(types[o], InnerLength)
      <3>1. LoopAt(acc, o, start, n, exact)
        BY <1>13, <1>17
      <3> QED BY <1>1, <1>4, <1>19, <3>1, EndsOfIs DEF LoopAt, n
    <2>3. ASSUME NEW k \in 1 .. n
          PROVE  /\ FieldAt(o, k, start, at[k], exact)
                 /\ rs[k].ok
                 /\ DOMAIN puts[k] \subseteq DOMAIN R.values
      <3>1. k - 1 \in 0 .. n
        BY <1>4
      <3>2. acc[k - 1].ok /\ acc[k].ok
        BY <2>1
      <3>3. FieldAt(o, k, start, at[k], exact)
        BY <1>10, <1>13, <3>1, <3>2
      <3>4. rs[k].ok
        BY <1>9, <3>2
      <3> QED BY <1>4, <2>1, <3>3, <3>4
    <2>4. \A k \in 1 .. n : rs[k] = ReadOf(f(k).type, view, nested, at[k])
                            /\ puts[k] = Put(f(k), ReadOf(f(k).type, view, nested, at[k]).value)
      BY <1>6, <1>7
    <2>5. \A m \in DOMAIN R.values : \E k \in 1 .. n :
             m \in DOMAIN puts[k] /\ R.values[m] = puts[k][m]
      BY <1>4, <2>1
    <2> QED BY <2>2, <2>3, <2>4, <2>5 DEF AllRead, n, f
  <1> QED BY <1>18, <1>19

-----------------------------------------------------------------------------
(* Reading the nested structure *)

InRange(v, lo, hi) ==
    \A i \in 1 .. Len(v.bytes) : v.bytes[i] \in Nat /\ lo < v.bytes[i] /\ v.bytes[i] <= hi

\* The buffer of a union is a part of what it is read from.
LEMMA BufferIs ==
    ASSUME NEW o, Length(o) \in Nat, NEW view, ViewOK(view), NEW start \in Nat, view.base <= start,
           NEW b, b = Buffer(o, view, start)
    PROVE  /\ ViewOK(b)
           /\ b.base = start
           /\ b.limit \in Nat
           /\ start <= b.limit
           /\ b.limit <= start + Length(o)
           /\ b.limit > start => b.limit <= view.limit
  <1>1. PICK m \in 0 .. Length(o) :
              /\ Len(Ahead(view, start, Length(o))) = m
              /\ m > 0 => start + m <= view.limit /\ start + m <= Len(Memory)
    BY AheadIs
  <1>2. b = [base |-> start, limit |-> start + m, shared |-> FALSE]
    BY <1>1 DEF Buffer
  <1>3. b.base = start /\ b.limit = start + m /\ m \in Nat
    BY <1>2
  <1>4. start + m \in Nat /\ start + m <= start + Length(o) /\ start <= start + m
    BY <1>3
  <1>5. start + m <= Len(Memory) \/ start + m <= start
    BY <1>1, <1>3
  <1>6. ViewOK(b)
    BY <1>2, <1>3, <1>4, <1>5 DEF ViewOK
  <1>7. b.limit > start => b.limit <= view.limit
    BY <1>1, <1>3
  <1> QED BY <1>3, <1>4, <1>6, <1>7

\* The value of a field of the inner type, in a structure that begins at p
MemberAt(v, j, view, p, exact) ==
    LET t == types["inner"].fields[j].type
    IN /\ IsLeaf(v, t)
       /\ InRange(v, p, p + InnerLength)
       /\ InRange(v, p, view.limit)
       /\ exact => ReadAt(v, p + Place(types["inner"], InnerLength, j))
       /\ t = "pointer" /\ ~types["inner"].union => v.view = view

\* All fields of the inner type
MembersAt(members, view, p, exact) ==
    /\ \A j \in 1 .. Len(types["inner"].fields) : <<"inner", j>> \in DOMAIN members
    /\ \A m \in DOMAIN members : \E j \in 1 .. Len(types["inner"].fields) :
          m = <<"inner", j>> /\ MemberAt(members[m], j, view, p, exact)

LEMMA InnerReads ==
    ASSUME TypesInv, LengthInv, NEW view, ViewOK(view), NEW p \in Nat, view.base <= p,
           NEW exact \in BOOLEAN, exact => InPlace(types["inner"], InnerLength),
           NEW r, r = ReadInner(view, p)
    PROVE  /\ Takes(r, p, InnerLength, exact)
           /\ r.ok => /\ r.value = Compound(r.value.members)
                      /\ MembersAt(r.value.members, view, p, exact)
  <1> DEFINE type == types["inner"]
             n == Len(type.fields)
             within == IF type.union THEN Buffer("inner", view, p) ELSE view
  <1>1. /\ "inner" \in Objects /\ IsType(type) /\ n \in Nat
        /\ InnerLength \in Nat /\ SizeOfFields(type, InnerLength) = InnerLength
        /\ Length("inner") = InnerLength
    <2>1. "inner" \in Objects
      BY DEF Objects
    <2>2. IsType(type) /\ n \in Nat
      BY <2>1, TypeIsType DEF IsType
    <2>3. InnerLength \in Nat /\ CalcSize("inner") = InnerLength
      BY InnerLengthIs DEF LengthInv
    <2>4. Length("inner") = InnerLength
      BY <2>3 DEF Length, InnerLength
    <2> QED BY <2>1, <2>2, <2>3, <2>4 DEF CalcSize
  <1>2. PICK w : w = within
    OBVIOUS
  <1>3. /\ ViewOK(w) /\ w.base <= p /\ w.limit \in Nat
        /\ type.union => p <= w.limit /\ w.limit <= p + InnerLength
        /\ w.limit > p => w.limit <= view.limit
    <2>1. CASE type.union
      <3>1. w = Buffer("inner", view, p)
        BY <1>2, <2>1
      <3>2. ViewOK(w) /\ w.base = p /\ w.limit \in Nat
            /\ p <= w.limit /\ w.limit <= p + InnerLength
            /\ (w.limit > p => w.limit <= view.limit)
        BY <1>1, <3>1, BufferIs
      <3> QED BY <3>2
    <2>2. CASE ~type.union
      <3>1. w = view
        BY <1>2, <2>2
      <3>2. view.limit \in Nat
        BY DEF ViewOK
      <3> QED BY <2>2, <3>1, <3>2
    <2> QED BY <2>1, <2>2
  <1>4. PICK R : R = ReadStructure("inner", w, p, Nothing)
    OBVIOUS
  <1> DEFINE t(k) == type.fields[k].type
  <1>5. \A k \in 1 .. n : t(k) \in LeafTypes /\ t(k) # "inner"
                          /\ SizeOf(t(k), InnerLength) = TypeSizes[t(k)]
    <2> TAKE k \in 1 .. n
    <2>1. type.fields[k] \in Fields /\ t(k) # "inner"
      BY <1>1 DEF IsType, TypesInv
    <2>2. t(k) \in FieldTypes
      BY <2>1 DEF Fields
    <2> QED BY <2>1, <2>2, LeafSizes DEF SizeOf
  <1>6. ASSUME NEW k \in 1 .. n, NEW q \in Nat, p <= q
        PROVE  /\ Takes(ReadOf(t(k), w, Nothing, q), q, SizeOf(t(k), InnerLength), exact)
               /\ ReadOf(t(k), w, Nothing, q).ok =>
                     LET v == ReadOf(t(k), w, Nothing, q).value
                     IN /\ q + TypeSizes[t(k)] <= w.limit
                        /\ IsLeaf(v, t(k))
                        /\ ReadAt(v, q)
                        /\ t(k) = "pointer" => v.view = w
    <2>1. PICK x : x = ReadLeaf(t(k), w, q)
      OBVIOUS
    <2>2. ReadOf(t(k), w, Nothing, q) = x
      BY <1>5, <2>1 DEF ReadOf
    <2>3. w.base <= q
      BY <1>3, <1>6 DEF ViewOK
    <2>4. t(k) \in LeafTypes
      BY <1>5
    <2>5. /\ x.ok \in BOOLEAN
          /\ x.pos \in Nat /\ q <= x.pos
          /\ x.ok => /\ x.pos = q + TypeSizes[t(k)]
                     /\ x.pos <= w.limit
                     /\ IsLeaf(x.value, t(k))
                     /\ ReadAt(x.value, q)
                     /\ t(k) = "pointer" => x.value.view = w
      <3> HIDE DEF t
      <3> QED BY <1>3, <2>1, <2>3, <2>4, LeafRead
    <2>6. SizeOf(t(k), InnerLength) = TypeSizes[t(k)] /\ TypeSizes[t(k)] \in Nat
      BY <1>5, LeafSizes
    <2> HIDE DEF t
    <2>7. Takes(x, q, SizeOf(t(k), InnerLength), exact)
      BY <2>5, <2>6 DEF Takes
    <2> QED BY <2>2, <2>5, <2>7
  <1> HIDE DEF t
  <1>7. /\ R.ok \in BOOLEAN
        /\ R.pos \in Nat
        /\ p <= R.pos
        /\ R.ok => AllRead(R, "inner", w, Nothing, p, exact)
    <2>1. \A k \in 1 .. Len(types["inner"].fields) : \A q \in Nat :
              p <= q => Takes(ReadOf(types["inner"].fields[k].type, w, Nothing, q), q,
                              SizeOf(types["inner"].fields[k].type, InnerLength), exact)
      BY <1>6 DEF t
    <2> QED BY <1>1, <1>4, <2>1, LoopReads
  <1>8. /\ r.ok = R.ok
        /\ r.pos = IF type.union THEN w.limit ELSE R.pos
        /\ r.value = Compound(R.values)
    <2>1. CASE type.union
      <3>1. ReadObject("inner", view, p, Nothing) =
              [ok |-> R.ok, pos |-> w.limit, values |-> R.values, asked |-> R.asked \cup {"inner"}]
        BY <1>2, <1>4, <2>1 DEF ReadObject, ReadUnion
      <3> QED BY <2>1, <3>1 DEF ReadInner
    <2>2. CASE ~type.union
      <3>1. ReadObject("inner", view, p, Nothing) = R
        BY <1>2, <1>4, <2>2 DEF ReadObject
      <3> QED BY <2>2, <3>1 DEF ReadInner
    <2> QED BY <2>1, <2>2
  <1>9. /\ r.value = Compound(r.value.members)
        /\ r.value.members = R.values
    BY <1>8 DEF Compound, Value
  <1>10. ASSUME R.ok
         PROVE  /\ MembersAt(R.values, view, p, exact)
                /\ p <= r.pos /\ r.pos <= p + InnerLength
                /\ exact => r.pos = p + InnerLength
    <2>1. PICK at :
             /\ \A k \in 1 .. n :
                   /\ FieldAt("inner", k, p, at[k], exact)
                   /\ ReadOf(t(k), w, Nothing, at[k]).ok
                   /\ DOMAIN Put(type.fields[k], ReadOf(t(k), w, Nothing, at[k]).value)
                         \subseteq DOMAIN R.values
             /\ \A m \in DOMAIN R.values : \E k \in 1 .. n :
                   /\ m \in DOMAIN Put(type.fields[k], ReadOf(t(k), w, Nothing, at[k]).value)
                   /\ R.values[m] = Put(type.fields[k], ReadOf(t(k), w, Nothing, at[k]).value)[m]
      BY <1>7, <1>10 DEF AllRead, t
    <2>2. PICK vs : vs = [k \in 1 .. n |-> ReadOf(t(k), w, Nothing, at[k]).value]
      OBVIOUS
    <2>3. \A k \in 1 .. n : Put(type.fields[k], ReadOf(t(k), w, Nothing, at[k]).value) =
                               Only(<<"inner", k>>, vs[k])
      <3> TAKE k \in 1 .. n
      <3>1. type.fields[k].type # "inner" /\ type.fields[k].name = <<"inner", k>>
        BY <1>1 DEF TypesInv
      <3> QED BY <2>2, <3>1 DEF Put
    <2>4. ASSUME NEW k \in 1 .. n
          PROVE  /\ MemberAt(vs[k], k, view, p, exact)
                 /\ at[k] + TypeSizes[t(k)] <= w.limit
                 /\ p < w.limit
      <3>1. PICK q : q = at[k]
        OBVIOUS
      <3>2. PICK v : v = vs[k]
        OBVIOUS
      <3>3. PICK size : size = TypeSizes[t(k)]
        OBVIOUS
      <3>4. SizeOf(t(k), InnerLength) = size /\ size \in Nat /\ size > 0
        BY <1>5, <3>3, LeafSizes
      <3>5. /\ q \in Nat /\ p <= q
            /\ ~type.union => q + size <= p + InnerLength
            /\ exact => q = p + Place(type, InnerLength, k)
        BY <1>1, <2>1, <3>1, <3>4 DEF FieldAt, t
      <3>6. /\ q + size <= w.limit
            /\ IsLeaf(v, t(k))
            /\ ReadAt(v, q)
            /\ t(k) = "pointer" => v.view = w
        BY <1>6, <2>1, <2>2, <3>1, <3>2, <3>3, <3>5
      <3>7. p < w.limit
        BY <1>3, <3>4, <3>5, <3>6
      <3>8. w.limit <= view.limit /\ view.limit \in Nat
        BY <1>3, <3>7 DEF ViewOK
      <3>9. q + size <= p + InnerLength
        <4>1. CASE type.union
          BY <1>1, <1>3, <3>4, <3>5, <3>6, <4>1
        <4>2. CASE ~type.union
          BY <3>5, <4>2
        <4> QED BY <4>1, <4>2
      <3>10. Len(v.bytes) = size
        BY <3>3, <3>6 DEF IsLeaf
      <3>11. InRange(v, p, p + InnerLength) /\ InRange(v, p, view.limit)
        <4>1. ASSUME NEW i \in 1 .. size
              PROVE  /\ v.bytes[i] \in Nat /\ p < v.bytes[i]
                     /\ v.bytes[i] <= p + InnerLength /\ v.bytes[i] <= view.limit
          <5>1. v.bytes[i] = q + i
            BY <3>6, <3>10 DEF ReadAt
          <5> QED BY <1>1, <1>3, <3>4, <3>5, <3>6, <3>8, <3>9, <5>1
        <4> QED BY <3>10, <4>1 DEF InRange
      <3>12. exact => ReadAt(v, p + Place(type, InnerLength, k))
        BY <3>5, <3>6
      <3>13. ~type.union => w = view
        BY <1>2
      <3> QED BY <3>1, <3>2, <3>3, <3>6, <3>7, <3>11, <3>12, <3>13 DEF MemberAt, t
    <2>5. MembersAt(R.values, view, p, exact)
      <3>1. ASSUME NEW k \in 1 .. n PROVE <<"inner", k>> \in DOMAIN R.values
        <4>1. DOMAIN Only(<<"inner", k>>, vs[k]) \subseteq DOMAIN R.values
          BY <2>1, <2>3
        <4> QED BY <4>1 DEF Only
      <3>2. ASSUME NEW m \in DOMAIN R.values
            PROVE  \E k \in 1 .. n : m = <<"inner", k>> /\ MemberAt(R.values[m], k, view, p, exact)
        <4>1. PICK k \in 1 .. n :
                /\ m \in DOMAIN Only(<<"inner", k>>, vs[k])
                /\ R.values[m] = Only(<<"inner", k>>, vs[k])[m]
          BY <2>1, <2>3
        <4>2. m = <<"inner", k>> /\ R.values[m] = vs[k]
          BY <4>1 DEF Only
        <4> QED BY <2>4, <4>2
      <3> QED BY <3>1, <3>2 DEF MembersAt
    <2>6. ASSUME type.union
          PROVE  /\ p <= w.limit /\ w.limit <= p + InnerLength
                 /\ exact => w.limit = p + InnerLength
      <3>1. 1 \in 1 .. n
        BY <1>1 DEF IsType
      <3>2. p <= w.limit /\ w.limit <= p + InnerLength
        BY <1>3, <2>4, <2>6, <3>1
      <3>3. ASSUME exact PROVE w.limit = p + InnerLength
        <4>1. PICK k \in 1 .. n : InnerLength = SizeOf(t(k), InnerLength)
          BY <1>1, <2>6, SizeOfUnion DEF t
        <4>2. at[k] + InnerLength <= w.limit
          BY <1>5, <2>4, <4>1
        <4>3. at[k] = p
          <5>1. at[k] = p + 0
            BY <2>1, <2>6, <3>3 DEF FieldAt, Place
          <5> QED BY <5>1
        <4> QED BY <1>1, <1>3, <3>2, <4>2, <4>3
      <3> QED BY <3>2, <3>3
    <2>7. ASSUME ~type.union
          PROVE  /\ p <= R.pos /\ R.pos <= p + InnerLength
                 /\ exact => R.pos = p + InnerLength
      BY <1>1, <1>7, <1>10, <2>7 DEF AllRead
    <2> QED BY <1>8, <2>5, <2>6, <2>7
  <1>11. Takes(r, p, InnerLength, exact)
    <2>1. r.pos \in Nat
      BY <1>3, <1>7, <1>8
    <2>2. p <= r.pos
      <3>1. CASE type.union
        BY <1>3, <1>8, <3>1
      <3>2. CASE ~type.union
        BY <1>7, <1>8, <3>2
      <3> QED BY <3>1, <3>2
    <2> QED BY <1>7, <1>8, <1>10, <2>1, <2>2 DEF Takes
  <1> QED BY <1>8, <1>9, <1>10, <1>11

-----------------------------------------------------------------------------
(* Reading the structure around it *)

\* The value of field k of the outer type, if that is no structure
LeafAt(v, k, start, p, exact) ==
    LET t == types["outer"].fields[k].type
    IN /\ IsLeaf(v, t)
       /\ InRange(v, start, start + CalcSize("outer"))
       /\ exact => ReadAt(v, p)
       /\ t = "pointer" /\ NoUnions => v.view = Stream

\* A member of the nested structure, as part of the outer one
InnerAt(v, j, start, p, exact) ==
    LET t == types["inner"].fields[j].type
    IN /\ IsLeaf(v, t)
       /\ InRange(v, start, start + CalcSize("outer"))
       /\ exact => ReadAt(v, p + Place(types["inner"], InnerLength, j))
       /\ t = "pointer" /\ NoUnions => v.view = Stream

\* The value of field k of the outer type, if that is the nested structure
NestedAt(v, start, p, exact) ==
    /\ v = Compound(v.members)
    /\ \A j \in 1 .. Len(types["inner"].fields) : <<"inner", j>> \in DOMAIN v.members
    /\ \A m \in DOMAIN v.members : \E j \in 1 .. Len(types["inner"].fields) :
          m = <<"inner", j>> /\ InnerAt(v.members[m], j, start, p, exact)

Anonymous == types["inner"].anonymous

\* What field k, read at p, puts into an instance: the names, and the value of each
Gives(k, m) ==
    IF types["outer"].fields[k].type = "inner" /\ Anonymous
    THEN \E j \in 1 .. Len(types["inner"].fields) : m = <<"inner", j>>
    ELSE m = <<"outer", k>>

GivesAt(v, k, m, start, p, exact) ==
    /\ Gives(k, m)
    /\ IF types["outer"].fields[k].type # "inner" THEN LeafAt(v, k, start, p, exact)
       ELSE IF ~Anonymous THEN NestedAt(v, start, p, exact)
       ELSE \A j \in 1 .. Len(types["inner"].fields) :
               m = <<"inner", j>> => InnerAt(v, j, start, p, exact)

\* An instance that was read
InstanceAt(values, start, exact) ==
    /\ \A k \in 1 .. Len(types["outer"].fields) : \A m : Gives(k, m) => m \in DOMAIN values
    /\ \A m \in DOMAIN values : \E k \in 1 .. Len(types["outer"].fields) : \E p \in Nat :
          /\ exact => p = start + Place(types["outer"], InnerLength, k)
          /\ GivesAt(values[m], k, m, start, p, exact)

LEMMA OuterReads ==
    ASSUME TypesInv, LengthInv, NEW start \in Nat, NEW exact \in BOOLEAN,
           exact => InPlace(types["inner"], InnerLength) /\ InPlace(types["outer"], InnerLength),
           NEW r, r = ReadOuter(start)
    PROVE  /\ r.ok \in BOOLEAN
           /\ r.pos \in Nat
           /\ r.ok => InstanceAt(r.values, start, exact)
  <1> DEFINE type == types["outer"]
             n == Len(type.fields)
             size == CalcSize("outer")
             within == IF type.union THEN Buffer("outer", Stream, start) ELSE Stream
             t(k) == type.fields[k].type
  <1>1. /\ "outer" \in Objects /\ "inner" \in Objects
        /\ IsType(type) /\ n \in Nat
        /\ InnerLength \in Nat /\ size \in Nat /\ SizeOfFields(type, InnerLength) = size
        /\ Length("outer") \in Nat /\ Length("outer") <= size
    <2>1. "outer" \in Objects /\ "inner" \in Objects
      BY DEF Objects
    <2>2. IsType(type) /\ n \in Nat
      BY <2>1, TypeIsType DEF IsType
    <2>3. InnerLength \in Nat /\ size \in Nat
      BY InnerLengthIs DEF LengthInv
    <2>4. type.size \in Nat \cup {NoSize}
      BY <2>1 DEF TypesInv, Types
    <2>5. Length("outer") \in Nat /\ Length("outer") <= size
      <3>1. CASE type.size = NoSize
        <4>1. Length("outer") = size
          BY <3>1 DEF Length
        <4> QED BY <2>3, <4>1
      <3>2. CASE type.size # NoSize
        <4>1. Length("outer") = type.size
          BY <3>2 DEF Length
        <4> QED BY <2>4, <3>2, <4>1 DEF LengthInv
      <3> QED BY <3>1, <3>2
    <2> QED BY <2>1, <2>2, <2>3, <2>5 DEF CalcSize
  <1>2. PICK w : w = within
    OBVIOUS
  <1>3. /\ ViewOK(w) /\ w.base <= start /\ w.limit \in Nat
        /\ type.union => w.limit <= start + size
        /\ NoUnions => w = Stream
    <2>1. CASE type.union
      <3>1. w = Buffer("outer", Stream, start)
        BY <1>2, <2>1
      <3>2. ViewOK(w) /\ w.base = start /\ w.limit \in Nat /\ w.limit <= start + Length("outer")
        BY <1>1, <3>1, StreamView, BufferIs
      <3>3. ~NoUnions
        BY <1>1, <2>1 DEF NoUnions
      <3> QED BY <1>1, <3>2, <3>3
    <2>2. CASE ~type.union
      <3>1. w = Stream
        BY <1>2, <2>2
      <3>2. Stream.limit \in Nat
        BY MemoryLength DEF Stream
      <3> QED BY <2>2, <3>1, <3>2, StreamView
    <2> QED BY <2>1, <2>2
  <1>4. PICK nested : nested = [p \in Nat |-> ReadInner(w, p)]
    OBVIOUS
  <1>5. PICK R : R = ReadStructure("outer", w, start, nested)
    OBVIOUS
  <1>6. r.ok = R.ok /\ r.pos = (IF type.union THEN w.limit ELSE R.pos) /\ r.values = R.values
    <2>1. CASE type.union
      <3>1. r = [ok |-> R.ok, pos |-> w.limit, values |-> R.values, asked |-> R.asked \cup {"outer"}]
        BY <1>2, <1>4, <1>5, <2>1 DEF ReadOuter, ReadObject, ReadUnion
      <3> QED BY <2>1, <3>1
    <2>2. CASE ~type.union
      <3>1. r = R
        BY <1>2, <1>4, <1>5, <2>2 DEF ReadOuter, ReadObject
      <3> QED BY <2>2, <3>1
    <2> QED BY <2>1, <2>2
  <1>7. ASSUME NEW k \in 1 .. n, NEW q \in Nat, start <= q
        PROVE  /\ Takes(ReadOf(t(k), w, nested, q), q, SizeOf(t(k), InnerLength), exact)
               /\ ReadOf(t(k), w, nested, q).ok =>
                     LET v == ReadOf(t(k), w, nested, q).value
                     IN IF t(k) = "inner"
                        THEN v = Compound(v.members) /\ MembersAt(v.members, w, q, exact)
                        ELSE /\ q + SizeOf(t(k), InnerLength) <= w.limit
                             /\ IsLeaf(v, t(k))
                             /\ ReadAt(v, q)
                             /\ t(k) = "pointer" => v.view = w
    <2>1. w.base <= q
      BY <1>3, <1>7 DEF ViewOK
    <2>2. type.fields[k] \in Fields
      BY <1>1 DEF IsType
    <2>3. t(k) \in FieldTypes
      BY <2>2 DEF Fields
    <2>4. CASE t(k) = "inner"
      <3>1. PICK x : x = ReadInner(w, q)
        OBVIOUS
      <3>2. ReadOf(t(k), w, nested, q) = x
        BY <1>4, <2>4, <3>1 DEF ReadOf
      <3>3. /\ Takes(x, q, InnerLength, exact)
            /\ x.ok => /\ x.value = Compound(x.value.members)
                       /\ MembersAt(x.value.members, w, q, exact)
        BY <1>3, <2>1, <3>1, InnerReads
      <3>4. SizeOf(t(k), InnerLength) = InnerLength
        BY <2>4 DEF SizeOf
      <3> HIDE DEF t
      <3> QED BY <2>4, <3>2, <3>3, <3>4
    <2>5. CASE t(k) # "inner"
      <3>1. PICK x : x = ReadLeaf(t(k), w, q)
        OBVIOUS
      <3>2. ReadOf(t(k), w, nested, q) = x
        BY <2>5, <3>1 DEF ReadOf
      <3>3. t(k) \in LeafTypes /\ SizeOf(t(k), InnerLength) = TypeSizes[t(k)]
        BY <2>3, <2>5, LeafSizes DEF SizeOf
      <3> HIDE DEF t
      <3>4. /\ x.ok \in BOOLEAN
            /\ x.pos \in Nat /\ q <= x.pos
            /\ x.ok => /\ x.pos = q + TypeSizes[t(k)]
                       /\ x.pos <= w.limit
                       /\ IsLeaf(x.value, t(k))
                       /\ ReadAt(x.value, q)
                       /\ t(k) = "pointer" => x.value.view = w
        BY <1>3, <2>1, <3>1, <3>3, LeafRead
      <3>5. TypeSizes[t(k)] \in Nat
        BY <3>3, LeafSizes
      <3>6. Takes(x, q, SizeOf(t(k), InnerLength), exact)
        BY <3>3, <3>4, <3>5 DEF Takes
      <3> QED BY <2>5, <3>2, <3>3, <3>4, <3>6
    <2> QED BY <2>4, <2>5
  <1>8. /\ R.ok \in BOOLEAN
        /\ R.pos \in Nat
        /\ R.ok => AllRead(R, "outer", w, nested, start, exact)
    <2>1. \A k \in 1 .. Len(types["outer"].fields) : \A q \in Nat :
              start <= q => Takes(ReadOf(types["outer"].fields[k].type, w, nested, q), q,
                                  SizeOf(types["outer"].fields[k].type, InnerLength), exact)
      BY <1>7
    <2> HIDE DEF t, size, within, n
    <2> QED BY <1>1, <1>5, <2>1, LoopReads
  <1>9. ASSUME R.ok PROVE InstanceAt(R.values, start, exact)
    <2>1. PICK at :
             /\ \A k \in 1 .. n :
                   /\ FieldAt("outer", k, start, at[k], exact)
                   /\ ReadOf(t(k), w, nested, at[k]).ok
                   /\ DOMAIN Put(type.fields[k], ReadOf(t(k), w, nested, at[k]).value)
                         \subseteq DOMAIN R.values
             /\ \A m \in DOMAIN R.values : \E k \in 1 .. n :
                   /\ m \in DOMAIN Put(type.fields[k], ReadOf(t(k), w, nested, at[k]).value)
                   /\ R.values[m] = Put(type.fields[k], ReadOf(t(k), w, nested, at[k]).value)[m]
      BY <1>8, <1>9 DEF AllRead
    <2>2. PICK vs : vs = [k \in 1 .. n |-> ReadOf(t(k), w, nested, at[k]).value]
      OBVIOUS
    <2>3. PICK puts : puts = [k \in 1 .. n |-> Put(type.fields[k], vs[k])]
      OBVIOUS
    <2>4. ASSUME NEW k \in 1 .. n
          PROVE  /\ \A m : Gives(k, m) => m \in DOMAIN puts[k]
                 /\ \A m \in DOMAIN puts[k] : GivesAt(puts[k][m], k, m, start, at[k], exact)
      <3>1. PICK p : p = at[k]
        OBVIOUS
      <3>2. PICK v : v = vs[k]
        OBVIOUS
      <3>3. /\ p \in Nat /\ start <= p
            /\ ~type.union => p + SizeOf(t(k), InnerLength) <= start + size
            /\ exact => p = start + Place(type, InnerLength, k)
        BY <1>1, <2>1, <3>1 DEF FieldAt
      <3>4. puts[k] = Put(type.fields[k], v)
        BY <2>3, <3>2
      <3>5. type.fields[k].name = <<"outer", k>>
        BY <1>1 DEF TypesInv
      <3>6. ReadOf(t(k), w, nested, p).ok /\ v = ReadOf(t(k), w, nested, p).value
        BY <2>1, <2>2, <3>1, <3>2
      <3>7. ~type.union \/ w.limit <= start + size
        BY <1>3
      <3> HIDE DEF size, within
      <3>8. CASE t(k) # "inner"
        <4>1. puts[k] = Only(<<"outer", k>>, v)
          BY <3>4, <3>5, <3>8 DEF Put
        <4>2. DOMAIN puts[k] = {<<"outer", k>>} /\ puts[k][<<"outer", k>>] = v
          BY <4>1 DEF Only
        <4>3. /\ p + SizeOf(t(k), InnerLength) <= w.limit
              /\ IsLeaf(v, t(k))
              /\ ReadAt(v, p)
              /\ t(k) = "pointer" => v.view = w
          <5> HIDE DEF t
          <5> QED BY <1>7, <3>3, <3>6, <3>8
        <4>4. PICK s : s = SizeOf(t(k), InnerLength)
          OBVIOUS
        <4>5. Len(v.bytes) = s /\ s \in Nat
          <5>1. type.fields[k] \in Fields
            BY <1>1 DEF IsType
          <5>2. t(k) \in LeafTypes
            BY <3>8, <5>1, LeafSizes DEF Fields
          <5> QED BY <3>8, <4>3, <4>4, <5>2, LeafSizes DEF SizeOf, IsLeaf
        <4>6. p + s <= start + size
          <5>1. CASE type.union
            BY <1>1, <1>3, <3>3, <3>7, <4>3, <4>4, <4>5, <5>1
          <5>2. CASE ~type.union
            BY <3>3, <4>4, <5>2
          <5> QED BY <5>1, <5>2
        <4>7. InRange(v, start, start + size)
          <5>1. ASSUME NEW i \in 1 .. s
                PROVE  v.bytes[i] \in Nat /\ start < v.bytes[i] /\ v.bytes[i] <= start + size
            <6>1. v.bytes[i] = p + i
              BY <4>3, <4>5 DEF ReadAt
            <6> QED BY <1>1, <3>3, <4>5, <4>6, <6>1
          <5> QED BY <4>5, <5>1 DEF InRange
        <4>8. LeafAt(v, k, start, p, exact)
          BY <1>3, <4>3, <4>7 DEF LeafAt, size
        <4>9. \A m : Gives(k, m) <=> m = <<"outer", k>>
          BY <3>8 DEF Gives
        <4> QED BY <3>1, <3>8, <4>2, <4>8, <4>9 DEF GivesAt
      <3>9. ASSUME t(k) = "inner"
            PROVE  /\ v = Compound(v.members)
                   /\ \A j \in 1 .. Len(types["inner"].fields) : <<"inner", j>> \in DOMAIN v.members
                   /\ \A m \in DOMAIN v.members : \E j \in 1 .. Len(types["inner"].fields) :
                         m = <<"inner", j>> /\ InnerAt(v.members[m], j, start, p, exact)
        <4>1. v = Compound(v.members) /\ MembersAt(v.members, w, p, exact)
          <5> HIDE DEF t
          <5> QED BY <1>7, <3>3, <3>6, <3>9
        <4>2. ~type.union => p + InnerLength <= start + size
          BY <3>3, <3>9 DEF SizeOf
        <4>3. ASSUME NEW x, NEW j \in 1 .. Len(types["inner"].fields), MemberAt(x, j, w, p, exact)
              PROVE  InnerAt(x, j, start, p, exact)
          <5>1. PICK len : len = Len(x.bytes)
            OBVIOUS
          <5>2. /\ IsLeaf(x, types["inner"].fields[j].type)
                /\ \A i \in 1 .. len : /\ x.bytes[i] \in Nat
                                       /\ p < x.bytes[i]
                                       /\ x.bytes[i] <= p + InnerLength
                                       /\ x.bytes[i] <= w.limit
                /\ exact => ReadAt(x, p + Place(types["inner"], InnerLength, j))
            BY <4>3, <5>1 DEF MemberAt, InRange
          <5>4. ASSUME NEW i \in 1 .. len
                PROVE  x.bytes[i] \in Nat /\ start < x.bytes[i] /\ x.bytes[i] <= start + size
            <6>1. x.bytes[i] \in Nat /\ start < x.bytes[i]
              BY <3>3, <5>2
            <6>2. x.bytes[i] <= start + size
              <7>1. CASE type.union
                BY <1>1, <1>3, <3>7, <5>2, <6>1, <7>1
              <7>2. CASE ~type.union
                BY <1>1, <3>3, <4>2, <5>2, <6>1, <7>2
              <7> QED BY <7>1, <7>2
            <6> QED BY <6>1, <6>2
          <5>5. InRange(x, start, start + size)
            BY <5>1, <5>4 DEF InRange
          <5>6. types["inner"].fields[j].type = "pointer" /\ NoUnions => x.view = Stream
            BY <1>1, <1>3, <4>3 DEF MemberAt, NoUnions
          <5> QED BY <5>2, <5>5, <5>6 DEF InnerAt, size
        <4> QED BY <4>1, <4>3 DEF MembersAt
      <3>10. CASE t(k) = "inner" /\ ~Anonymous
        <4>1. puts[k] = Only(<<"outer", k>>, v)
          BY <3>4, <3>5, <3>10 DEF Put, Anonymous
        <4>2. DOMAIN puts[k] = {<<"outer", k>>} /\ puts[k][<<"outer", k>>] = v
          BY <4>1 DEF Only
        <4>3. NestedAt(v, start, p, exact)
          BY <3>9, <3>10 DEF NestedAt
        <4>4. \A m : Gives(k, m) <=> m = <<"outer", k>>
          BY <3>10 DEF Gives
        <4> QED BY <3>1, <3>10, <4>2, <4>3, <4>4 DEF GivesAt
      <3>11. CASE t(k) = "inner" /\ Anonymous
        <4>1. puts[k] = v.members
          BY <3>4, <3>11 DEF Put, Anonymous
        <4>2. \A m : Gives(k, m) <=> \E j \in 1 .. Len(types["inner"].fields) : m = <<"inner", j>>
          BY <3>11 DEF Gives
        <4>3. \A m : Gives(k, m) => m \in DOMAIN puts[k]
          BY <3>9, <3>11, <4>1, <4>2
        <4>4. ASSUME NEW m \in DOMAIN puts[k] PROVE GivesAt(puts[k][m], k, m, start, p, exact)
          <5>1. PICK j \in 1 .. Len(types["inner"].fields) :
                     m = <<"inner", j>> /\ InnerAt(puts[k][m], j, start, p, exact)
            BY <3>9, <3>11, <4>1
          <5>2. \A i \in 1 .. Len(types["inner"].fields) : m = <<"inner", i>> => i = j
            BY <5>1
          <5>3. \A i \in 1 .. Len(types["inner"].fields) :
                   m = <<"inner", i>> => InnerAt(puts[k][m], i, start, p, exact)
            BY <5>1, <5>2
          <5>4. Gives(k, m)
            BY <4>2, <5>1
          <5> QED BY <3>11, <5>3, <5>4 DEF GivesAt
        <4> QED BY <3>1, <4>3, <4>4
      <3> QED BY <3>8, <3>10, <3>11
    <2>5. \A k \in 1 .. n : DOMAIN puts[k] \subseteq DOMAIN R.values
      BY <2>1, <2>2, <2>3
    <2>6. \A m \in DOMAIN R.values : \E k \in 1 .. n :
             m \in DOMAIN puts[k] /\ R.values[m] = puts[k][m]
      BY <2>1, <2>2, <2>3
    <2>7. \A k \in 1 .. n : /\ at[k] \in Nat
                            /\ exact => at[k] = start + Place(type, InnerLength, k)
      BY <2>1 DEF FieldAt
    <2> HIDE DEF n, t
    <2>8. ASSUME NEW m \in DOMAIN R.values
          PROVE  \E k \in 1 .. n : \E p \in Nat :
                    /\ exact => p = start + Place(type, InnerLength, k)
                    /\ GivesAt(R.values[m], k, m, start, p, exact)
      <3>1. PICK k \in 1 .. n : m \in DOMAIN puts[k] /\ R.values[m] = puts[k][m]
        BY <2>6
      <3> QED BY <2>4, <2>7, <3>1
    <2>9. \A k \in 1 .. n : \A m : Gives(k, m) => m \in DOMAIN R.values
      BY <2>4, <2>5
    <2> QED BY <2>8, <2>9 DEF InstanceAt, n
  <1> QED BY <1>3, <1>6, <1>8, <1>9

-----------------------------------------------------------------------------
(* Instances *)

Within(v, start) == ToSet(v.bytes) \subseteq {New} \cup start + 1 .. start + CalcSize("outer")

\* A value of an instance or of a structure in it, other than a structure
IsValue(inst, v, t) ==
    /\ IsLeaf(v, t)
    /\ inst.made = "read" => Within(v, inst.start)
    /\ t = "pointer" /\ NoUnions => v.view = Stream

IsMember(inst, m, v) ==
    \E j \in 1 .. Len(types["inner"].fields) :
       m = <<"inner", j>> /\ IsValue(inst, v, types["inner"].fields[j].type)

IsNested(inst, v) ==
    /\ v = Compound(v.members)
    /\ \A m \in DOMAIN v.members : IsMember(inst, m, v.members[m])

IsField(inst, m, v) ==
    \E k \in 1 .. Len(types["outer"].fields) :
       /\ m = <<"outer", k>>
       /\ IF types["outer"].fields[k].type = "inner" THEN IsNested(inst, v)
          ELSE IsValue(inst, v, types["outer"].fields[k].type)

\* An instance has values of fields that its type has, and nothing else.
IsInstance(inst) ==
    /\ inst = [made |-> inst.made, start |-> inst.start, values |-> inst.values]
    /\ inst.made \in {"nothing", "read", "default"}
    /\ inst.made = "read" => inst.start \in Nat
    /\ \A m \in DOMAIN inst.values : IsField(inst, m, inst.values[m]) \/ IsMember(inst, m, inst.values[m])

LEMMA SameIsMore ==
    ASSUME TypesInv, SameTypes
    PROVE  MoreTypes
  <1>1. ASSUME NEW o \in Objects PROVE Len(types[o].fields) <= Len(types'[o].fields)
    <2>1. types'[o].fields = types[o].fields /\ Len(types[o].fields) \in Nat
      BY TypeIsType DEF SameTypes, IsType
    <2> QED BY <2>1
  <1> QED BY <1>1 DEF SameTypes, MoreTypes

\* Instances stay what they are when their types get more fields.
LEMMA InstanceKept ==
    ASSUME TypesInv, LengthInv, TypesInv', LengthInv', MoreTypes, NEW inst, IsInstance(inst)
    PROVE  IsInstance(inst)'
  <1>1. CalcSize("outer") <= CalcSize("outer")' /\ CalcSize("outer") \in Nat
        /\ CalcSize("outer")' \in Nat
    <2>1. CalcSize("outer") <= CalcSize("outer")'
      BY MoreIsLonger DEF LengthInv
    <2>2. CalcSize("outer") \in Nat
      BY InnerLengthIs DEF LengthInv
    <2>3. InnerLengthInv'
      BY DEF LengthInv
    <2>4. (CalcSize("outer") \in Nat)'
      BY <2>3, InnerLengthIs, PTL
    <2> QED BY <2>1, <2>2, <2>4
  <1>2. NoUnions' <=> NoUnions
    BY DEF NoUnions, MoreTypes
  <1>3. ASSUME NEW v, NEW t, IsValue(inst, v, t)
        PROVE  IsValue(inst, v, t)'
    <2>1. IsLeaf(v, t)'
      BY <1>3 DEF IsValue, IsLeaf
    <2>2. ASSUME inst.made = "read" PROVE Within(v, inst.start)'
      <3>1. inst.start \in Nat
        BY <2>2 DEF IsInstance
      <3>2. inst.start + 1 .. inst.start + CalcSize("outer")
              \subseteq inst.start + 1 .. inst.start + CalcSize("outer")'
        BY <1>1, <3>1
      <3> QED BY <1>3, <2>2, <3>2 DEF IsValue, Within
    <2> QED BY <1>2, <1>3, <2>1, <2>2 DEF IsValue
  <1>4. ASSUME NEW o \in Objects, NEW k \in 1 .. Len(types[o].fields)
        PROVE  k \in 1 .. Len(types'[o].fields) /\ types'[o].fields[k] = types[o].fields[k]
    <2>1. Len(types[o].fields) <= Len(types'[o].fields)
          /\ types'[o].fields[k] = types[o].fields[k]
      BY DEF MoreTypes
    <2>2. types[o].fields \in Seq(Fields) /\ types'[o].fields \in Seq(Fields)
      BY DEF TypesInv, Types
    <2>3. Len(types[o].fields) \in Nat /\ Len(types'[o].fields) \in Nat
      BY <2>2
    <2> QED BY <2>1, <2>3
  <1>5. ASSUME NEW m, NEW v, IsMember(inst, m, v) PROVE IsMember(inst, m, v)'
    <2>1. PICK j \in 1 .. Len(types["inner"].fields) :
             m = <<"inner", j>> /\ IsValue(inst, v, types["inner"].fields[j].type)
      BY <1>5 DEF IsMember
    <2>2. j \in 1 .. Len(types'["inner"].fields)
          /\ types'["inner"].fields[j] = types["inner"].fields[j]
      BY <1>4 DEF Objects
    <2>3. PICK t : t = types["inner"].fields[j].type
      OBVIOUS
    <2>4. IsValue(inst, v, t)'
      BY <1>3, <2>1, <2>3
    <2> QED BY <2>1, <2>2, <2>3, <2>4 DEF IsMember
  <1>6. ASSUME NEW v, IsNested(inst, v) PROVE IsNested(inst, v)'
    BY <1>5, <1>6 DEF IsNested
  <1>7. ASSUME NEW m, NEW v, IsField(inst, m, v) PROVE IsField(inst, m, v)'
    <2>1. PICK k \in 1 .. Len(types["outer"].fields) :
             /\ m = <<"outer", k>>
             /\ IF types["outer"].fields[k].type = "inner" THEN IsNested(inst, v)
                ELSE IsValue(inst, v, types["outer"].fields[k].type)
      BY <1>7 DEF IsField
    <2>2. k \in 1 .. Len(types'["outer"].fields)
          /\ types'["outer"].fields[k] = types["outer"].fields[k]
      BY <1>4 DEF Objects
    <2>3. PICK t : t = types["outer"].fields[k].type
      OBVIOUS
    <2>4. IF t = "inner" THEN IsNested(inst, v)' ELSE IsValue(inst, v, t)'
      BY <1>3, <1>6, <2>1, <2>3
    <2> QED BY <2>1, <2>2, <2>3, <2>4 DEF IsField
  <1> QED BY <1>5, <1>7 DEF IsInstance

\* What is read is an instance.
LEMMA ReadInstance ==
    ASSUME TypesInv, LengthInv, NEW start \in Nat, NEW values, InstanceAt(values, start, FALSE)
    PROVE  IsInstance([made |-> "read", start |-> start, values |-> values])
  <1> DEFINE inst == [made |-> "read", start |-> start, values |-> values]
  <1>1. /\ inst.made = "read" /\ inst.start = start /\ inst.values = values
        /\ inst = [made |-> inst.made, start |-> inst.start, values |-> inst.values]
    OBVIOUS
  <1> HIDE DEF inst
  <1>2. CalcSize("outer") \in Nat
    BY InnerLengthIs DEF LengthInv
  <1>3. ASSUME NEW v, NEW t, IsLeaf(v, t), InRange(v, start, start + CalcSize("outer")),
               t = "pointer" /\ NoUnions => v.view = Stream
        PROVE  IsValue(inst, v, t)
    <2>1. ToSet(v.bytes) = {v.bytes[i] : i \in 1 .. Len(v.bytes)}
      BY <1>3 DEF ToSet, IsLeaf
    <2>2. \A i \in 1 .. Len(v.bytes) : v.bytes[i] \in start + 1 .. start + CalcSize("outer")
      BY <1>2, <1>3 DEF InRange
    <2>3. Within(v, start)
      BY <2>1, <2>2 DEF Within
    <2> QED BY <1>1, <1>3, <2>3 DEF IsValue
  <1>4. ASSUME NEW v, NEW j \in 1 .. Len(types["inner"].fields), NEW p \in Nat,
               InnerAt(v, j, start, p, FALSE)
        PROVE  IsMember(inst, <<"inner", j>>, v)
    <2>1. IsValue(inst, v, types["inner"].fields[j].type)
      BY <1>3, <1>4 DEF InnerAt
    <2> QED BY <2>1 DEF IsMember
  <1>5. ASSUME NEW m \in DOMAIN values
        PROVE  IsField(inst, m, values[m]) \/ IsMember(inst, m, values[m])
    <2>1. PICK v : v = values[m]
      OBVIOUS
    <2>2. PICK k \in 1 .. Len(types["outer"].fields), p \in Nat : GivesAt(v, k, m, start, p, FALSE)
      BY <2>1 DEF InstanceAt
    <2>3. CASE types["outer"].fields[k].type # "inner"
      <3>1. m = <<"outer", k>> /\ LeafAt(v, k, start, p, FALSE)
        BY <2>2, <2>3 DEF GivesAt, Gives
      <3>2. IsValue(inst, v, types["outer"].fields[k].type)
        BY <1>3, <3>1 DEF LeafAt
      <3> QED BY <2>1, <2>3, <3>1, <3>2 DEF IsField
    <2>4. CASE types["outer"].fields[k].type = "inner" /\ ~Anonymous
      <3>1. m = <<"outer", k>> /\ NestedAt(v, start, p, FALSE)
        BY <2>2, <2>4 DEF GivesAt, Gives
      <3>2. IsNested(inst, v)
        BY <1>4, <3>1 DEF NestedAt, IsNested
      <3> QED BY <2>1, <2>4, <3>1, <3>2 DEF IsField
    <2>5. CASE types["outer"].fields[k].type = "inner" /\ Anonymous
      <3>1. PICK j \in 1 .. Len(types["inner"].fields) : m = <<"inner", j>>
        BY <2>2, <2>5 DEF GivesAt, Gives
      <3>2. InnerAt(v, j, start, p, FALSE)
        BY <2>2, <2>5, <3>1 DEF GivesAt
      <3> QED BY <1>4, <2>1, <3>1, <3>2
    <2> QED BY <2>3, <2>4, <2>5
  <1>6. IsInstance(inst)
    BY <1>1, <1>5 DEF IsInstance
  <1> QED BY <1>6 DEF inst

LEMMA OverOf ==
    ASSUME NEW f, NEW g, NEW r, r = Over(f, g)
    PROVE  /\ DOMAIN r = DOMAIN f \cup DOMAIN g
           /\ \A m \in DOMAIN f : r[m] = f[m]
           /\ \A m \in DOMAIN g : m \notin DOMAIN f => r[m] = g[m]
  BY DEF Over

LEMMA Zero == 0 \in ObjectBytes /\ New \in ObjectBytes
  BY MemoryLength DEF ObjectBytes

\* A value that is no pointer, with as many bytes as its type has
LEMMA LeafOf ==
    ASSUME NEW t \in LeafTypes, t # "pointer", NEW b \in ObjectBytes,
           NEW bytes \in [1 .. TypeSizes[t] -> {b}], NEW v, v = Leaf(bytes)
    PROVE  IsLeaf(v, t) /\ \A i \in 1 .. Len(v.bytes) : v.bytes[i] = b
  <1>1. PICK n : n = TypeSizes[t] /\ n \in Nat
    BY LeafSizes
  <1>2. v.bytes = bytes /\ v.kind = "leaf" /\ v.members = Nothing
    BY DEF Leaf, Value
  <1>3. v.bytes \in Seq(ObjectBytes) /\ Len(v.bytes) = n /\ \A i \in 1 .. n : v.bytes[i] = b
    BY <1>1, <1>2
  <1> QED BY <1>1, <1>2, <1>3 DEF IsLeaf

\* Defaults are zeros.
LEMMA DefaultsAre ==
    ASSUME TypesInv, NEW o \in Objects, HasDefault(o), NEW d, d = DefaultLeaves(o)
    PROVE  /\ \A k \in 1 .. Len(types[o].fields) :
                 types[o].fields[k].type # "inner" => <<o, k>> \in DOMAIN d
           /\ \A m \in DOMAIN d : \E k \in 1 .. Len(types[o].fields) :
                 /\ m = <<o, k>>
                 /\ types[o].fields[k].type \in LeafTypes \ {"pointer"}
                 /\ IsLeaf(d[m], types[o].fields[k].type)
                 /\ \A i \in 1 .. Len(d[m].bytes) : d[m].bytes[i] = 0
  <1> DEFINE fields == types[o].fields
             n == Len(fields)
             names == {f.name : f \in {g \in FieldsOf(o) : g.type # "inner"}}
  <1>1. /\ fields \in Seq(Fields) /\ n \in Nat
        /\ \A k \in 1 .. n : fields[k] \in Fields /\ fields[k].name = <<o, k>>
    BY DEF TypesInv, Types
  <1>2. FieldsOf(o) = {fields[k] : k \in 1 .. n}
    BY <1>1 DEF FieldsOf, ToSet
  <1>3. d = [m \in names |->
               Leaf([i \in 1 .. TypeSizes[(CHOOSE f \in FieldsOf(o) : f.name = m).type] |-> 0])]
    BY DEF DefaultLeaves
  <1> HIDE DEF fields, n
  <1>4. ASSUME NEW k \in 1 .. n, fields[k].type # "inner" PROVE <<o, k>> \in names
    <2>1. fields[k] \in {g \in FieldsOf(o) : g.type # "inner"}
      BY <1>2, <1>4
    <2>2. fields[k].name \in names
      BY <2>1
    <2> QED BY <1>1, <2>2
  <1>5. ASSUME NEW m \in names
        PROVE  \E k \in 1 .. n : /\ m = <<o, k>>
                                 /\ fields[k].type \in LeafTypes \ {"pointer"}
                                 /\ IsLeaf(d[m], fields[k].type)
                                 /\ \A i \in 1 .. Len(d[m].bytes) : d[m].bytes[i] = 0
    <2>1. PICK k \in 1 .. n : fields[k].type # "inner" /\ m = fields[k].name
      BY <1>2
    <2>2. m = <<o, k>>
      BY <1>1, <2>1
    <2>3. \A j \in 1 .. n : fields[j].name = m => j = k
      BY <1>1, <2>2
    <2>4. \A f \in FieldsOf(o) : f.name = m => f = fields[k]
      BY <1>2, <2>3
    <2>5. fields[k] \in FieldsOf(o)
      BY <1>2
    <2>6. (CHOOSE f \in FieldsOf(o) : f.name = m) = fields[k]
      BY <2>1, <2>4, <2>5
    <2>7. d[m] = Leaf([i \in 1 .. TypeSizes[fields[k].type] |-> 0])
      BY <1>3, <2>6
    <2>8. fields[k].type \in LeafTypes \ {"pointer"}
      BY <1>1, <2>1, <2>5, LeafSizes DEF HasDefault, Fields
    <2>9. IsLeaf(d[m], fields[k].type) /\ \A i \in 1 .. Len(d[m].bytes) : d[m].bytes[i] = 0
      <3>1. PICK t : t = fields[k].type
        OBVIOUS
      <3>2. PICK v : v = d[m]
        OBVIOUS
      <3>3. PICK bytes : bytes = [i \in 1 .. TypeSizes[t] |-> 0]
        OBVIOUS
      <3>4. v = Leaf(bytes) /\ bytes \in [1 .. TypeSizes[t] -> {0}]
        BY <2>7, <3>1, <3>2, <3>3
      <3>5. IsLeaf(v, t) /\ \A i \in 1 .. Len(v.bytes) : v.bytes[i] = 0
        BY <2>8, <3>1, <3>4, LeafOf, Zero
      <3> QED BY <3>1, <3>2, <3>5
    <2> QED BY <2>2, <2>8, <2>9
  <1>6. DOMAIN d = names
    BY <1>3
  <1> QED BY <1>4, <1>5, <1>6 DEF fields, n

\* What is made by default is an instance.
LEMMA DefaultInstance ==
    ASSUME TypesInv, HasDefault("outer"), UsesInner => HasDefault("inner"),
           NEW inst, inst = [made |-> "default", start |-> NoStart, values |-> Default]
    PROVE  IsInstance(inst)
  <1> DEFINE names == {f.name : f \in {g \in FieldsOf("outer") : g.type = "inner"}}
             nested == [m \in names |-> Compound(DefaultLeaves("inner"))]
             fields(o) == types[o].fields
  <1>1. "outer" \in Objects /\ "inner" \in Objects
    BY DEF Objects
  <1>2. \A k \in 1 .. Len(fields("outer")) : fields("outer")[k].name = <<"outer", k>>
    BY <1>1 DEF TypesInv
  <1>3. FieldsOf("outer") = {fields("outer")[k] : k \in 1 .. Len(fields("outer"))}
    BY <1>1 DEF FieldsOf, ToSet, TypesInv, Types
  <1>4. PICK d : d = DefaultLeaves("outer")
    OBVIOUS
  <1>5. PICK e : e = DefaultLeaves("inner")
    OBVIOUS
  <1>6. inst.values = Over(d, nested)
    BY <1>4 DEF Default
  <1>7. \A v, t : IsLeaf(v, t) /\ t # "pointer" => IsValue(inst, v, t)
    BY DEF IsValue
  <1>8. ASSUME NEW m \in DOMAIN d PROVE IsField(inst, m, d[m])
    <2>1. PICK k \in 1 .. Len(fields("outer")) :
                 /\ m = <<"outer", k>>
                 /\ fields("outer")[k].type \in LeafTypes \ {"pointer"}
                 /\ IsLeaf(d[m], fields("outer")[k].type)
      BY <1>1, <1>4, DefaultsAre
    <2>2. fields("outer")[k].type # "inner"
      BY <2>1, LeafSizes
    <2> QED BY <1>7, <2>1, <2>2 DEF IsField
  <1>9. ASSUME NEW m \in names PROVE IsField(inst, m, nested[m])
    <2>1. PICK k \in 1 .. Len(fields("outer")) :
             fields("outer")[k].type = "inner" /\ m = fields("outer")[k].name
      BY <1>3
    <2>2. m = <<"outer", k>> /\ UsesInner
      BY <1>2, <1>3, <2>1 DEF UsesInner
    <2>3. ASSUME NEW x \in DOMAIN e PROVE IsMember(inst, x, e[x])
      <3>1. PICK j \in 1 .. Len(fields("inner")) :
                 /\ x = <<"inner", j>>
                 /\ fields("inner")[j].type \in LeafTypes \ {"pointer"}
                 /\ IsLeaf(e[x], fields("inner")[j].type)
        BY <1>1, <1>5, <2>2, DefaultsAre
      <3> QED BY <1>7, <3>1 DEF IsMember
    <2>4. nested[m] = Compound(e) /\ Compound(e).members = e
      BY <1>5 DEF Compound, Value
    <2>5. IsNested(inst, nested[m])
      BY <2>3, <2>4 DEF IsNested
    <2> QED BY <2>1, <2>2, <2>5 DEF IsField
  <1>10. DOMAIN nested = names
    OBVIOUS
  <1>11. inst.made = "default"
         /\ inst = [made |-> inst.made, start |-> inst.start, values |-> inst.values]
    OBVIOUS
  <1> HIDE DEF nested, names
  <1>12. ASSUME NEW m \in DOMAIN inst.values PROVE IsField(inst, m, inst.values[m])
    <2>1. PICK values : values = inst.values
      OBVIOUS
    <2>2. /\ DOMAIN values = DOMAIN d \cup DOMAIN nested
          /\ \A x \in DOMAIN d : values[x] = d[x]
          /\ \A x \in DOMAIN nested : x \notin DOMAIN d => values[x] = nested[x]
      BY <1>6, <2>1, OverOf
    <2> HIDE DEF fields
    <2>3. CASE m \in DOMAIN d
      BY <1>8, <2>1, <2>2, <2>3
    <2>4. CASE m \notin DOMAIN d
      BY <1>9, <1>10, <2>1, <2>2, <2>4
    <2> QED BY <2>3, <2>4
  <1> QED BY <1>11, <1>12 DEF IsInstance

\* Bytes that are set
LEMMA NewLeafIs ==
    ASSUME NEW t \in {"byte", "short"}, NEW inst, NEW v, v = NewLeaf(t)
    PROVE  IsValue(inst, v, t)
  <1>1. t \in LeafTypes \ {"pointer"}
    BY LeafSizes
  <1>2. IsLeaf(v, t) /\ \A i \in 1 .. Len(v.bytes) : v.bytes[i] = New
    <2>1. PICK bytes : bytes = [i \in 1 .. TypeSizes[t] |-> New]
      OBVIOUS
    <2>2. v = Leaf(bytes) /\ bytes \in [1 .. TypeSizes[t] -> {New}]
      BY <2>1 DEF NewLeaf
    <2> QED BY <1>1, <2>2, LeafOf, Zero
  <1>3. ToSet(v.bytes) \subseteq {New}
    BY <1>2 DEF ToSet, IsLeaf
  <1> QED BY <1>1, <1>2, <1>3 DEF IsValue, Within

\* Of an instance, only how it was made and where it begins matters for a value.
LEMMA ValueOfSame ==
    ASSUME NEW a, NEW b, b.made = a.made, b.start = a.start
    PROVE  /\ \A v, t : IsValue(a, v, t) => IsValue(b, v, t)
           /\ \A m, v : IsMember(a, m, v) => IsMember(b, m, v)
           /\ \A v : IsNested(a, v) => IsNested(b, v)
           /\ \A m, v : IsField(a, m, v) => IsField(b, m, v)
  <1>1. \A v, t : IsValue(a, v, t) => IsValue(b, v, t)
    BY DEF IsValue
  <1>2. \A m, v : IsMember(a, m, v) => IsMember(b, m, v)
    BY <1>1 DEF IsMember
  <1>3. \A v : IsNested(a, v) => IsNested(b, v)
    BY <1>2 DEF IsNested
  <1>4. \A m, v : IsField(a, m, v) => IsField(b, m, v)
    BY <1>1, <1>3 DEF IsField
  <1> QED BY <1>1, <1>2, <1>3, <1>4

\* An instance one of whose values was set
LEMMA InstanceSet ==
    ASSUME NEW a, IsInstance(a), NEW values,
           \A m \in DOMAIN values :
              \/ m \in DOMAIN a.values /\ values[m] = a.values[m]
              \/ IsField(a, m, values[m])
              \/ IsMember(a, m, values[m]),
           NEW b, b = [a EXCEPT !.values = values]
    PROVE  IsInstance(b)
  <1>1. a = [made |-> a.made, start |-> a.start, values |-> a.values]
    BY DEF IsInstance
  <1>2. b = [made |-> a.made, start |-> a.start, values |-> values]
    BY <1>1
  <1>3. b.made = a.made /\ b.start = a.start /\ b.values = values
    BY <1>2
  <1>4. \A m \in DOMAIN values : IsField(a, m, values[m]) \/ IsMember(a, m, values[m])
    BY DEF IsInstance
  <1>5. \A m \in DOMAIN values : IsField(b, m, values[m]) \/ IsMember(b, m, values[m])
    BY <1>3, <1>4, ValueOfSame
  <1> QED BY <1>1, <1>2, <1>3, <1>5 DEF IsInstance

LEMMA MemberSet ==
    ASSUME TypesInv, IsInstance(instance), SetMember, NEW b, b = instance'
    PROVE  IsInstance(b)
  <1>1. PICK f \in FieldsOf("outer") :
           /\ f.type \in {"byte", "short"}
           /\ b = [instance EXCEPT !.values = Over(Only(f.name, NewLeaf(f.type)), @)]
    BY DEF SetMember
  <1>2. PICK k \in 1 .. Len(types["outer"].fields) : f = types["outer"].fields[k]
    <2>1. FieldsOf("outer") = {types["outer"].fields[i] : i \in 1 .. Len(types["outer"].fields)}
      BY DEF FieldsOf, ToSet, TypesInv, Types, Objects
    <2> QED BY <2>1
  <1>3. f.name = <<"outer", k>>
    BY <1>2 DEF TypesInv, Objects
  <1>4. PICK a : a = instance
    OBVIOUS
  <1>5. PICK v : v = NewLeaf(f.type)
    OBVIOUS
  <1>6. PICK g : g = Only(f.name, v)
    OBVIOUS
  <1>7. DOMAIN g = {f.name} /\ g[f.name] = v
    BY <1>6 DEF Only
  <1>8. PICK h : h = a.values
    OBVIOUS
  <1>9. PICK values : values = Over(g, h)
    OBVIOUS
  <1>10. b = [a EXCEPT !.values = values]
    BY <1>1, <1>4, <1>5, <1>6, <1>8, <1>9
  <1>11. IsValue(a, v, f.type)
    BY <1>1, <1>5, NewLeafIs
  <1>12. IsField(a, f.name, v)
    BY <1>1, <1>2, <1>3, <1>11 DEF IsField
  <1>13. /\ DOMAIN values = DOMAIN g \cup DOMAIN h
         /\ \A m \in DOMAIN g : values[m] = g[m]
         /\ \A m \in DOMAIN h : m \notin DOMAIN g => values[m] = h[m]
    BY <1>9 DEF Over
  <1>14. \A m \in DOMAIN values :
            \/ m \in DOMAIN a.values /\ values[m] = a.values[m]
            \/ IsField(a, m, values[m])
            \/ IsMember(a, m, values[m])
    BY <1>7, <1>8, <1>12, <1>13
  <1>15. IsInstance(a)
    BY <1>4
  <1> QED BY <1>10, <1>14, <1>15, InstanceSet

LEMMA NestedSet ==
    ASSUME TypesInv, IsInstance(instance), SetNested, NEW b, b = instance'
    PROVE  IsInstance(b)
  <1>1. PICK n \in DOMAIN instance.values : \E f \in FieldsOf("inner") :
           /\ instance.values[n].kind = "nested"
           /\ f.type \in {"byte", "short"}
           /\ b = [instance EXCEPT !.values[n].members = Over(Only(f.name, NewLeaf(f.type)), @)]
    BY DEF SetNested
  <1>2. PICK f \in FieldsOf("inner") :
           /\ f.type \in {"byte", "short"}
           /\ b = [instance EXCEPT !.values[n].members = Over(Only(f.name, NewLeaf(f.type)), @)]
    BY <1>1
  <1>3. PICK j \in 1 .. Len(types["inner"].fields) : f = types["inner"].fields[j]
    <2>1. FieldsOf("inner") = {types["inner"].fields[i] : i \in 1 .. Len(types["inner"].fields)}
      BY DEF FieldsOf, ToSet, TypesInv, Types, Objects
    <2> QED BY <2>1
  <1>4. f.name = <<"inner", j>>
    BY <1>3 DEF TypesInv, Objects
  <1>5. PICK a : a = instance
    OBVIOUS
  <1>6. PICK v : v = NewLeaf(f.type)
    OBVIOUS
  <1>7. PICK g : g = Only(f.name, v)
    OBVIOUS
  <1>8. DOMAIN g = {f.name} /\ g[f.name] = v
    BY <1>7 DEF Only
  <1>9. IsInstance(a) /\ n \in DOMAIN a.values /\ a.values[n].kind = "nested"
    BY <1>1, <1>5
  <1>10. IsMember(a, f.name, v)
    <2>1. IsValue(a, v, f.type)
      BY <1>2, <1>6, NewLeafIs
    <2> QED BY <1>3, <1>4, <2>1 DEF IsMember
  <1>11. IsField(a, n, a.values[n]) /\ IsNested(a, a.values[n])
    <2>1. \A w, t : IsValue(a, w, t) => w.kind # "nested"
      BY DEF IsValue, IsLeaf
    <2>2. ~IsMember(a, n, a.values[n])
      BY <1>9, <2>1 DEF IsMember
    <2>3. IsField(a, n, a.values[n])
      BY <1>9, <2>2 DEF IsInstance
    <2>4. IsNested(a, a.values[n])
      BY <1>9, <2>1, <2>3 DEF IsField
    <2> QED BY <2>3, <2>4
  <1>12. PICK h : h = a.values[n].members
    OBVIOUS
  <1>13. PICK members : members = Over(g, h)
    OBVIOUS
  <1>14. PICK w : w = [a.values[n] EXCEPT !.members = members]
    OBVIOUS
  <1>15. PICK values : values = [a.values EXCEPT ![n] = w]
    OBVIOUS
  <1>16. b = [a EXCEPT !.values = values]
    BY <1>2, <1>5, <1>6, <1>7, <1>12, <1>13, <1>14, <1>15
  <1>17. w = Compound(members) /\ w.members = members
    BY <1>11, <1>14 DEF IsNested, Compound, Value
  <1>18. /\ DOMAIN members = DOMAIN g \cup DOMAIN h
         /\ \A m \in DOMAIN g : members[m] = g[m]
         /\ \A m \in DOMAIN h : m \notin DOMAIN g => members[m] = h[m]
    BY <1>13 DEF Over
  <1>19. \A m \in DOMAIN members : IsMember(a, m, members[m])
    BY <1>8, <1>10, <1>11, <1>12, <1>18 DEF IsNested
  <1>20. IsNested(a, w)
    BY <1>17, <1>19 DEF IsNested
  <1>21. IsField(a, n, w)
    <2>1. PICK k \in 1 .. Len(types["outer"].fields) :
              n = <<"outer", k>> /\ types["outer"].fields[k].type = "inner"
      BY <1>9, <1>11 DEF IsField, IsValue, IsLeaf
    <2> QED BY <1>20, <2>1 DEF IsField
  <1>22. \A m \in DOMAIN values :
            \/ m \in DOMAIN a.values /\ values[m] = a.values[m]
            \/ IsField(a, m, values[m])
            \/ IsMember(a, m, values[m])
    BY <1>9, <1>15, <1>21
  <1> QED BY <1>9, <1>16, <1>22, InstanceSet

LEMMA InstanceInit ==
    ASSUME ObjectsInit
    PROVE  IsInstance(instance)
  <1>1. instance = [made |-> "nothing", start |-> NoStart, values |-> Nothing]
    BY DEF ObjectsInit
  <1>2. DOMAIN instance.values = {}
    BY <1>1 DEF Nothing
  <1> QED BY <1>1, <1>2 DEF IsInstance

LEMMA InstanceStep ==
    ASSUME TypesInv, LengthInv, OffsetsInv, OneInner, pos \in Nat, IsInstance(instance),
           [ObjectsNext]_objectVars
    PROVE  IsInstance(instance)'
  <1>1. TypesInv' /\ LengthInv' /\ MoreTypes
    BY TypesStep, SameIsMore
  <1>2. PICK c : c = instance'
    OBVIOUS
  <1>3. IsInstance(c)
    <2>1. CASE instance' = instance
      BY <1>2, <2>1
    <2>2. CASE Read
      <3>1. PICK start : start = pos
        OBVIOUS
      <3>2. PICK r : r = ReadOuter(start)
        OBVIOUS
      <3>3. CASE r.ok
        <4>1. c = [made |-> "read", start |-> start, values |-> r.values]
          BY <1>2, <2>2, <3>1, <3>2, <3>3 DEF Read
        <4>2. InstanceAt(r.values, start, FALSE)
          <5>1. PICK exact \in BOOLEAN : exact = FALSE
            OBVIOUS
          <5>2. InstanceAt(r.values, start, exact)
            BY <3>1, <3>2, <3>3, <5>1, OuterReads
          <5> QED BY <5>1, <5>2
        <4>3. PICK values : values = r.values
          OBVIOUS
        <4>4. start \in Nat
          BY <3>1
        <4>5. IsInstance([made |-> "read", start |-> start, values |-> values])
          BY <4>2, <4>3, <4>4, ReadInstance
        <4> QED BY <4>1, <4>3, <4>5
      <3>4. CASE ~r.ok
        BY <2>1, <2>2, <3>1, <3>2, <3>4 DEF Read
      <3> QED BY <3>3, <3>4
    <2>3. CASE MakeDefault
      <3>1. CASE HasDefault("outer") /\ (UsesInner => HasDefault("inner"))
        <4>1. c = [made |-> "default", start |-> NoStart, values |-> Default]
          BY <1>2, <2>3, <3>1 DEF MakeDefault
        <4> QED BY <3>1, <4>1, DefaultInstance
      <3>2. CASE ~(HasDefault("outer") /\ (UsesInner => HasDefault("inner")))
        BY <2>1, <2>3, <3>2 DEF MakeDefault
      <3> QED BY <3>1, <3>2
    <2>4. CASE SetMember
      BY <1>2, <2>4, MemberSet
    <2>5. CASE SetNested
      BY <1>2, <2>5, NestedSet
    <2>6. CASE SetAnonymous \/ Dump \/ AddField \/ Measure \/ Seek \/ FollowNull \/ Follow
               \/ UNCHANGED objectVars
      BY <2>1, <2>6 DEF SetAnonymous, Dump, AddField, Measure, Seek, FollowNull, Follow, objectVars
    <2> QED BY <2>2, <2>3, <2>4, <2>5, <2>6 DEF ObjectsNext
  <1>4. IsInstance(c)'
    BY <1>1, <1>3, InstanceKept
  <1> QED BY <1>2, <1>4

-----------------------------------------------------------------------------
(* Pointers *)

\* A pointer that an instance holds is one of its values, with where it points.
LEMMA PointerIs ==
    ASSUME TypesInv, IsInstance(instance), NEW v \in Pointers
    PROVE  /\ ViewOK(v.view) /\ v.view.base + AddressOf(v) \in Nat
           /\ v.view.base <= v.view.base + AddressOf(v)
           /\ v.bytes[1] \in 1 .. Len(Memory)
           /\ NoUnions => v.view = Stream
  <1>1. v.kind = "pointer"
    BY DEF Pointers
  <1>2. \E t : IsValue(instance, v, t)
    <2>1. CASE v \in Range(instance.values)
      <3>1. PICK m \in DOMAIN instance.values : v = instance.values[m]
        BY <2>1 DEF Range
      <3>2. CASE IsMember(instance, m, v)
        BY <3>2 DEF IsMember
      <3>3. CASE IsField(instance, m, v)
        <4>1. ~IsNested(instance, v)
          BY <1>1 DEF IsNested, Compound, Value
        <4> QED BY <3>3, <4>1 DEF IsField
      <3> QED BY <3>1, <3>2, <3>3 DEF IsInstance
    <2>2. CASE \E w \in Range(instance.values) : v \in Range(w.members)
      <3>1. PICK w \in Range(instance.values) : v \in Range(w.members)
        BY <2>2
      <3>2. PICK m \in DOMAIN instance.values : w = instance.values[m]
        BY DEF Range
      <3>3. PICK n \in DOMAIN w.members : v = w.members[n]
        BY <3>1 DEF Range
      <3>4. ASSUME NEW t, IsValue(instance, w, t) PROVE FALSE
        <4>1. w.members = Nothing
          BY <3>4 DEF IsValue, IsLeaf
        <4> QED BY <3>3, <4>1 DEF Nothing
      <3>5. IsNested(instance, w)
        BY <3>2, <3>4 DEF IsInstance, IsField, IsMember
      <3> QED BY <3>3, <3>5 DEF IsNested, IsMember
    <2> QED BY <2>1, <2>2 DEF Pointers
  <1>3. PICK t : IsValue(instance, v, t)
    BY <1>2
  <1>4. t = "pointer"
    BY <1>1, <1>3 DEF IsValue, IsLeaf
  <1>5. ViewOK(v.view) /\ v.bytes[1] \in 1 .. Len(Memory) /\ (NoUnions => v.view = Stream)
    BY <1>3, <1>4 DEF IsValue, IsLeaf
  <1>6. Memory[v.bytes[1]] \in Nat
    BY <1>5, ObjectsAssumption
  <1>7. v.view.base \in Nat
    BY <1>5 DEF ViewOK
  <1> QED BY <1>5, <1>6, <1>7 DEF AddressOf

\* What following a pointer gives
LEMMA TargetIs ==
    ASSUME TypesInv, IsInstance(instance), NEW v \in Pointers, NEW r, r = TargetOf(v)
    PROVE  /\ r.ok \in BOOLEAN /\ r.pos \in Nat
           /\ r.ok => /\ r.value.bytes \in Seq(ObjectBytes)
                      /\ NoUnions =>
                           r.value.bytes = [i \in 1 .. TypeSizes[Target] |-> Memory[v.bytes[1]] + i]
  <1>1. PICK view : view = v.view
    OBVIOUS
  <1>2. PICK p : p = view.base + AddressOf(v)
    OBVIOUS
  <1>3. ViewOK(view) /\ p \in Nat /\ view.base <= p
    BY <1>1, <1>2, PointerIs
  <1>4. Target \in LeafTypes
    BY LeafSizes DEF Target
  <1>5. PICK t : t = Target
    OBVIOUS
  <1>6. r = ReadLeaf(t, view, p)
    BY <1>1, <1>2, <1>5 DEF TargetOf
  <1>7. /\ r.ok \in BOOLEAN /\ r.pos \in Nat
        /\ r.ok => IsLeaf(r.value, t) /\ ReadAt(r.value, p)
    BY <1>3, <1>4, <1>5, <1>6, LeafRead
  <1>8. ASSUME r.ok, NoUnions
        PROVE  r.value.bytes = [i \in 1 .. TypeSizes[Target] |-> Memory[v.bytes[1]] + i]
    <2>1. p = Memory[v.bytes[1]]
      <3>1. view.base = 0
        BY <1>1, <1>8, PointerIs, StreamView
      <3>2. AddressOf(v) \in Nat
        BY PointerIs, ObjectsAssumption DEF AddressOf
      <3> QED BY <1>2, <3>1, <3>2 DEF AddressOf
    <2>2. PICK n : n = TypeSizes[Target] /\ n \in Nat
      BY <1>4, LeafSizes
    <2>3. PICK bytes : bytes = r.value.bytes
      OBVIOUS
    <2>4. bytes \in Seq(ObjectBytes) /\ Len(bytes) = n /\ \A i \in 1 .. n : bytes[i] = p + i
      BY <1>5, <1>7, <1>8, <2>2, <2>3 DEF IsLeaf, ReadAt
    <2>5. bytes = [i \in 1 .. n |-> p + i]
      BY <2>2, <2>4
    <2> QED BY <2>1, <2>2, <2>3, <2>5
  <1> QED BY <1>7, <1>8 DEF IsLeaf

-----------------------------------------------------------------------------
(* What holds of every state *)

StreamInv ==
    /\ pos \in Nat
    /\ left \in Nat \cup {NoStart}
    /\ StreamIsWhereLeft

LEMMA StreamStep ==
    ASSUME TypesInv, LengthInv, IsInstance(instance), StreamInv, [ObjectsNext]_objectVars
    PROVE  StreamInv'
  <1>1. CASE pos' = pos /\ left' = left
    BY <1>1 DEF StreamInv, StreamIsWhereLeft
  <1>2. CASE Read
    <2>1. PICK exact \in BOOLEAN : exact = FALSE
      OBVIOUS
    <2>2. PICK start : start = pos
      OBVIOUS
    <2>3. PICK r : r = ReadOuter(start)
      OBVIOUS
    <2>4. r.pos \in Nat
      BY <2>1, <2>2, <2>3, OuterReads DEF StreamInv
    <2>5. pos' = r.pos /\ left' = r.pos
      BY <1>2, <2>2, <2>3 DEF Read
    <2> QED BY <2>4, <2>5 DEF StreamInv, StreamIsWhereLeft
  <1>3. CASE Seek
    BY <1>3, ObjectsAssumption DEF Seek, StreamInv, StreamIsWhereLeft
  <1>4. CASE Follow
    <2>1. PICK v \in Pointers :
             LET r == TargetOf(v)
                 moves == ~r.ok /\ v.view.shared
             IN /\ pos' = IF moves THEN r.pos ELSE pos
                /\ left' = IF moves THEN NoStart ELSE left
      BY <1>4 DEF Follow
    <2>2. PICK r : r = TargetOf(v)
      OBVIOUS
    <2>3. r.pos \in Nat
      BY <2>2, TargetIs
    <2>4. \/ pos' = r.pos /\ left' = NoStart
          \/ pos' = pos /\ left' = left
      BY <2>1, <2>2
    <2> QED BY <2>3, <2>4 DEF StreamInv, StreamIsWhereLeft
  <1>5. CASE MakeDefault \/ SetMember \/ SetNested \/ SetAnonymous \/ Dump \/ AddField \/ Measure
             \/ FollowNull \/ UNCHANGED objectVars
    BY <1>1, <1>5 DEF MakeDefault, SetMember, SetNested, SetAnonymous, Dump, AddField, Measure,
                      FollowNull, objectVars
  <1> QED BY <1>2, <1>3, <1>4, <1>5 DEF ObjectsNext

-----------------------------------------------------------------------------
(* Dumps *)

Dumps == [ok : BOOLEAN, bytes : Seq(ObjectBytes)]

NoBytes == [ok |-> TRUE, bytes |-> <<>>]

Joins(j, parts, n) ==
    j = [k \in 0 .. n |-> IF k = 0 THEN NoBytes ELSE Joined(j[k - 1], parts[k])]

LEMMA JoinsExist ==
    ASSUME NEW parts
    PROVE  \A n \in Nat : \E j : Joins(j, parts, n)
  <1> DEFINE T == {n \in Nat : ~ \E j : Joins(j, parts, n)}
  <1> SUFFICES ASSUME T # {} PROVE FALSE
    OBVIOUS
  <1>1. PICK n \in T : \A m \in T : n <= m
    <2>1. T \in SUBSET Nat
      OBVIOUS
    <2> HIDE DEF T
    <2> QED BY <2>1, Least
  <1>2. CASE n = 0
    <2> DEFINE g == [k \in 0 .. 0 |-> NoBytes]
    <2>1. Joins(g, parts, 0)
      BY DEF Joins
    <2> HIDE DEF g
    <2> QED BY <1>1, <1>2, <2>1
  <1>3. CASE n # 0
    <2>1. n - 1 \in Nat /\ n - 1 \notin T
      BY <1>1, <1>3
    <2>2. PICK g : Joins(g, parts, n - 1)
      BY <2>1
    <2> DEFINE h == [k \in 0 .. n |-> IF k = 0 THEN NoBytes ELSE Joined(g[k - 1], parts[k])]
    <2>3. \A k \in 0 .. n - 1 : h[k] = g[k]
      BY <2>1, <2>2 DEF Joins
    <2>4. \A k \in 0 .. n : k # 0 => k - 1 \in 0 .. n - 1
      BY <1>1
    <2>5. Joins(h, parts, n)
      BY <2>3, <2>4 DEF Joins
    <2> HIDE DEF h
    <2> QED BY <1>1, <2>5
  <1> QED BY <1>2, <1>3

LEMMA JoinedIs ==
    ASSUME NEW a \in Dumps, NEW b \in Dumps, NEW r, r = Joined(a, b)
    PROVE  /\ r \in Dumps
           /\ r.ok <=> a.ok /\ b.ok
           /\ r.ok => r.bytes = a.bytes \o b.bytes
  <1>1. CASE a.ok /\ b.ok
    <2>1. r = [ok |-> TRUE, bytes |-> a.bytes \o b.bytes]
      BY <1>1 DEF Joined
    <2>2. a.bytes \o b.bytes \in Seq(ObjectBytes)
      BY DEF Dumps
    <2> QED BY <1>1, <2>1, <2>2 DEF Dumps
  <1>2. CASE ~(a.ok /\ b.ok)
    <2>1. r = [ok |-> FALSE, bytes |-> <<>>]
      BY <1>2 DEF Joined, Error
    <2>2. <<>> \in Seq(ObjectBytes)
      OBVIOUS
    <2> QED BY <1>2, <2>1, <2>2 DEF Dumps
  <1> QED BY <1>1, <1>2

\* The parts of a dump follow each other, where g says.
JoinAt(r, parts, g, k) ==
    /\ r \in Dumps
    /\ r.ok <=> \A p \in 1 .. k : parts[p].ok
    /\ r.ok /\ (\A p \in 1 .. k : g[p] = g[p - 1] + Len(parts[p].bytes)) =>
          /\ Len(r.bytes) = g[k]
          /\ \A i \in 1 .. g[k] : \E p \in 1 .. k : \E l \in 1 .. Len(parts[p].bytes) :
                i = g[p - 1] + l /\ r.bytes[i] = parts[p].bytes[l]

LEMMA JoinedParts ==
    ASSUME NEW n \in Nat, NEW parts, \A k \in 1 .. n : parts[k] \in Dumps,
           NEW g, g[0] = 0, \A k \in 0 .. n : g[k] \in Nat,
           NEW j, Joins(j, parts, n)
    PROVE  JoinAt(j[n], parts, g, n)
  <1> DEFINE T == {k \in 0 .. n : ~ JoinAt(j[k], parts, g, k)}
  <1> SUFFICES ASSUME T # {} PROVE FALSE
    OBVIOUS
  <1>1. PICK k \in T : \A m \in T : k <= m
    <2>1. T \in SUBSET Nat
      OBVIOUS
    <2> HIDE DEF T
    <2> QED BY <2>1, Least
  <1>2. CASE k = 0
    <2>1. j[0] = [ok |-> TRUE, bytes |-> <<>>]
      BY DEF Joins, NoBytes
    <2>2. j[0].ok = TRUE
      BY <2>1
    <2>3. j[0].bytes = <<>>
      BY <2>1
    <2>4. j[0] \in Dumps
      BY <2>1 DEF Dumps
    <2>5. JoinAt(j[0], parts, g, 0)
      BY <2>2, <2>3, <2>4 DEF JoinAt
    <2> QED BY <1>1, <1>2, <2>5
  <1>3. CASE k # 0
    <2>1. k - 1 \in 0 .. n /\ k \in 1 .. n /\ k - 1 \notin T
      BY <1>1, <1>3
    <2>2. PICK a : a = j[k - 1]
      OBVIOUS
    <2>3. PICK b : b = parts[k]
      OBVIOUS
    <2>4. PICK r : r = j[k]
      OBVIOUS
    <2>5. r = Joined(a, b)
      BY <1>3, <2>1, <2>2, <2>3, <2>4 DEF Joins
    <2>6. JoinAt(a, parts, g, k - 1)
      BY <2>1, <2>2
    <2>7. a \in Dumps /\ b \in Dumps
      BY <2>1, <2>3, <2>6 DEF JoinAt
    <2>8. r \in Dumps /\ (r.ok <=> a.ok /\ b.ok) /\ (r.ok => r.bytes = a.bytes \o b.bytes)
      BY <2>5, <2>7, JoinedIs
    <2>9. \A p \in 1 .. k : p \in 1 .. k - 1 \/ p = k
      BY <2>1
    <2>10. r.ok <=> \A p \in 1 .. k : parts[p].ok
      BY <2>1, <2>3, <2>6, <2>8, <2>9 DEF JoinAt
    <2>11. ASSUME r.ok, \A p \in 1 .. k : g[p] = g[p - 1] + Len(parts[p].bytes)
           PROVE  /\ Len(r.bytes) = g[k]
                  /\ \A i \in 1 .. g[k] : \E p \in 1 .. k : \E l \in 1 .. Len(parts[p].bytes) :
                        i = g[p - 1] + l /\ r.bytes[i] = parts[p].bytes[l]
      <3>1. \A p \in 1 .. k - 1 : p \in 1 .. k
        BY <2>1
      <3>2. /\ Len(a.bytes) = g[k - 1]
            /\ \A i \in 1 .. g[k - 1] : \E p \in 1 .. k - 1 : \E l \in 1 .. Len(parts[p].bytes) :
                  i = g[p - 1] + l /\ a.bytes[i] = parts[p].bytes[l]
        BY <2>6, <2>8, <2>11, <3>1 DEF JoinAt
      <3>3. PICK x : x = a.bytes
        OBVIOUS
      <3>4. PICK y : y = b.bytes
        OBVIOUS
      <3>5. x \in Seq(ObjectBytes) /\ y \in Seq(ObjectBytes) /\ r.bytes = x \o y
        BY <2>7, <2>8, <2>11, <3>3, <3>4 DEF Dumps
      <3>6. /\ Len(x \o y) = Len(x) + Len(y)
            /\ \A i \in 1 .. Len(x) : (x \o y)[i] = x[i]
            /\ \A i \in 1 .. Len(y) : (x \o y)[Len(x) + i] = y[i]
            /\ Len(x) \in Nat /\ Len(y) \in Nat
        BY <3>5
      <3>7. g[k] = g[k - 1] + Len(y) /\ g[k - 1] \in Nat /\ Len(x) = g[k - 1]
        BY <2>1, <2>3, <2>11, <3>2, <3>3, <3>4
      <3>8. ASSUME NEW i \in 1 .. g[k]
            PROVE  \E p \in 1 .. k : \E l \in 1 .. Len(parts[p].bytes) :
                      i = g[p - 1] + l /\ r.bytes[i] = parts[p].bytes[l]
        <4>1. CASE i \in 1 .. g[k - 1]
          <5>1. r.bytes[i] = a.bytes[i]
            BY <3>3, <3>5, <3>6, <3>7, <4>1
          <5> QED BY <3>1, <3>2, <4>1, <5>1
        <4>2. CASE i \notin 1 .. g[k - 1]
          <5>1. PICK l \in 1 .. Len(y) : i = g[k - 1] + l
            <6>1. i - g[k - 1] \in 1 .. Len(y)
              BY <3>6, <3>7, <4>2
            <6> QED BY <3>7, <6>1
          <5>2. r.bytes[i] = y[l]
            BY <3>5, <3>6, <3>7, <5>1
          <5> QED BY <2>1, <2>3, <3>4, <5>1, <5>2
        <4> QED BY <4>1, <4>2
      <3> QED BY <3>5, <3>6, <3>7, <3>8
    <2>12. JoinAt(r, parts, g, k)
      BY <2>8, <2>10, <2>11 DEF JoinAt
    <2> QED BY <1>1, <2>4, <2>12
  <1> QED BY <1>2, <1>3

\* What DumpObject makes of its parts
LEMMA DumpJoins ==
    ASSUME NEW o, ~types[o].union, NEW parts, NEW n \in Nat, Len(parts) = n
    PROVE  \E j : Joins(j, parts, n) /\ DumpObject(o, parts) = j[n]
  <1> DEFINE P(j) == j = [k \in 0 .. Len(parts) |->
                            IF k = 0 THEN [ok |-> TRUE, bytes |-> <<>>]
                            ELSE Joined(j[k - 1], parts[k])]
             c == CHOOSE j : P(j)
  <1>1. PICK j : Joins(j, parts, n)
    BY JoinsExist
  <1>2. P(j)
    BY <1>1 DEF Joins, NoBytes
  <1>3. P(c)
    <2> HIDE DEF P
    <2> QED BY <1>2
  <1>4. DumpObject(o, parts) = c[n]
    BY DEF DumpObject
  <1>5. PICK d : d = c
    OBVIOUS
  <1>6. P(d)
    BY <1>3, <1>5
  <1> HIDE DEF c
  <1>7. Joins(d, parts, n)
    BY <1>6 DEF Joins, NoBytes
  <1> QED BY <1>4, <1>5, <1>7

\* A union has a first field among those that are the largest.
LEMMA LargestIs ==
    ASSUME TypesInv, LengthInv, NEW o \in Objects, types[o].union, NEW m, m = Largest(o)
    PROVE  /\ m \in 1 .. Len(types[o].fields)
           /\ SizeOf(types[o].fields[m].type, InnerLength) = SizeOfFields(types[o], InnerLength)
  <1> DEFINE fields == types[o].fields
             n == Len(fields)
             size(k) == SizeOf(fields[k].type, InnerLength)
             sizes == {SizeOf(f.type, InnerLength) : f \in ToSet(fields)}
             P(k) == /\ \A j \in DOMAIN fields : size(k) >= size(j)
                     /\ \A j \in 1 .. k - 1 : size(k) > size(j)
             T == {k \in 1 .. n : \A j \in 1 .. n : size(k) >= size(j)}
  <1>1. /\ fields \in Seq(Fields) /\ n \in Nat /\ n > 0 /\ DOMAIN fields = 1 .. n
        /\ InnerLength \in Nat
    <2>1. fields \in Seq(Fields) /\ n > 0
      BY DEF TypesInv, Types
    <2> QED BY <2>1, InnerLengthIs DEF LengthInv
  <1>2. \A k \in 1 .. n : size(k) \in Nat
    <2> TAKE k \in 1 .. n
    <2>1. fields[k] \in Fields
      BY <1>1
    <2> QED BY <1>1, <2>1, SizeOfType DEF Fields
  <1>3. sizes = {size(k) : k \in 1 .. n}
    BY <1>1 DEF ToSet
  <1>4. SizeOfFields(types[o], InnerLength) = Max(sizes)
    BY DEF SizeOfFields
  <1>5. m = CHOOSE k \in DOMAIN fields : P(k)
    BY DEF Largest
  <1> HIDE DEF size, fields, n, sizes
  <1>6. T # {}
    <2>1. sizes \in SUBSET Nat /\ sizes # {}
      BY <1>1, <1>2, <1>3
    <2>2. PICK b \in Nat : \A y \in sizes : y <= b
      <3>1. \A k \in 1 .. n : size(k) <= InnerLength + 2
        <4> TAKE k \in 1 .. n
        <4>1. fields[k] \in Fields
          BY <1>1
        <4>2. fields[k].type \in FieldTypes
          BY <4>1 DEF Fields
        <4>3. fields[k].type \in {"byte", "short", "pointer", "inner"}
          BY <4>2, ObjectsAssumption DEF TypeSizes
        <4> QED BY <1>1, <4>3 DEF size, SizeOf, TypeSizes
      <3> QED BY <1>1, <1>3, <3>1
    <2>3. Max(sizes) \in sizes /\ \A y \in sizes : y <= Max(sizes)
      BY <2>1, <2>2, LargestNumber
    <2>4. PICK k \in 1 .. n : size(k) = Max(sizes)
      BY <1>3, <2>3
    <2>5. k \in T
      BY <1>2, <1>3, <2>3, <2>4
    <2> QED BY <2>5
  <1>7. PICK k \in T : \A j \in T : k <= j
    <2>1. T \in SUBSET Nat
      OBVIOUS
    <2> HIDE DEF T
    <2> QED BY <1>6, <2>1, Least
  <1>8. P(k)
    <2>1. ASSUME NEW j \in 1 .. k - 1 PROVE size(k) > size(j)
      <3>1. j \in 1 .. n /\ j \notin T
        BY <1>1, <1>7
      <3>2. PICK i \in 1 .. n : ~(size(j) >= size(i))
        BY <3>1
      <3>3. size(k) >= size(i)
        BY <1>7
      <3> QED BY <1>2, <1>7, <3>1, <3>2, <3>3
    <2> QED BY <1>1, <1>7, <2>1
  <1>9. m \in 1 .. n /\ P(m)
    <2>1. k \in DOMAIN fields
      BY <1>1, <1>7
    <2> HIDE DEF P
    <2> QED BY <1>1, <1>5, <1>8, <2>1
  <1>10. Max(sizes) = size(m)
    <2>1. sizes \in SUBSET Int /\ size(m) \in sizes /\ \A y \in sizes : size(m) >= y
      BY <1>1, <1>2, <1>3, <1>9
    <2> QED BY <2>1, MaxIs
  <1> QED BY <1>4, <1>9, <1>10 DEF size, fields, n

\* No offset leads a reader beyond the fields before it.
Packed(type, inner) ==
    ~type.union => \A k \in 1 .. Len(type.fields) :
       type.fields[k].offset = NoOffset \/ type.fields[k].offset <= EndsOf(type, inner)[k - 1]

LEMMA PackedEnds ==
    ASSUME NEW type, IsType(type), ~type.union, NEW inner \in Nat, Packed(type, inner),
           NEW g, g = EndsOf(type, inner)
    PROVE  /\ g[0] = 0
           /\ \A k \in 0 .. Len(type.fields) : g[k] \in Nat
           /\ \A k \in 1 .. Len(type.fields) : g[k] = g[k - 1] + SizeOf(type.fields[k].type, inner)
           /\ SizeOfFields(type, inner) = g[Len(type.fields)]
  <1>1. Ends(g, type, inner) /\ SizeOfFields(type, inner) = g[Len(type.fields)]
    BY EndsOfIs
  <1>2. g[0] = 0 /\ \A k \in 0 .. Len(type.fields) : g[k] \in Nat
    BY <1>1, EndsAscend DEF Ends
  <1>3. ASSUME NEW k \in 1 .. Len(type.fields)
        PROVE  g[k] = g[k - 1] + SizeOf(type.fields[k].type, inner)
    <2>1. PICK f \in Fields : f = type.fields[k]
      BY DEF IsType
    <2>2. PICK s \in Nat : s = SizeOf(f.type, inner)
      BY SizeOfType DEF Fields
    <2>3. g[k - 1] \in Nat /\ g[k] = Extent(g[k - 1], f, inner)
      BY <1>1, <2>1 DEF Ends
    <2>4. f.offset = NoOffset \/ (f.offset \in Nat /\ f.offset <= g[k - 1])
      BY <2>1 DEF Packed, Fields
    <2>5. CASE f.offset = NoOffset
      BY <2>1, <2>2, <2>3, <2>5 DEF Extent
    <2>6. CASE f.offset # NoOffset
      <3>1. g[k] = Max({g[k - 1] + s, f.offset + s})
        BY <2>2, <2>3, <2>6 DEF Extent
      <3>2. Max({g[k - 1] + s, f.offset + s}) = g[k - 1] + s
        BY <2>2, <2>3, <2>4, <2>6, MaxOfTwo
      <3> QED BY <2>1, <2>2, <3>1, <3>2
    <2> QED BY <2>5, <2>6
  <1> QED BY <1>1, <1>2, <1>3

\* A dump of the fields of a type; where each goes, if their offsets do not say otherwise.
DumpAt(r, o, parts) ==
    /\ Len(r.bytes) = SizeOfFields(types[o], InnerLength)
    /\ \A i \in 1 .. Len(r.bytes) :
          \E k \in 1 .. Len(types[o].fields) : \E l \in 1 .. Len(parts[k].bytes) :
             /\ parts[k].ok
             /\ i = Place(types[o], InnerLength, k) + l
             /\ r.bytes[i] = parts[k].bytes[l]

\* Each part is as long as its field.
Sized(o, parts) ==
    \A k \in 1 .. Len(types[o].fields) :
       parts[k].ok => Len(parts[k].bytes) = SizeOf(types[o].fields[k].type, InnerLength)

LEMMA DumpIs ==
    ASSUME TypesInv, LengthInv, NEW o \in Objects,
           NEW parts, Len(parts) = Len(types[o].fields),
           \A k \in 1 .. Len(types[o].fields) : parts[k] \in Dumps,
           NEW r, r = DumpObject(o, parts)
    PROVE  /\ r \in Dumps
           /\ (\A k \in 1 .. Len(types[o].fields) : parts[k].ok) => r.ok
           /\ r.ok /\ Packed(types[o], InnerLength) /\ Sized(o, parts) => DumpAt(r, o, parts)
  <1> DEFINE n == Len(types[o].fields)
  <1>1. IsType(types[o]) /\ n \in Nat /\ InnerLength \in Nat
    BY TypeIsType, InnerLengthIs DEF IsType, LengthInv
  <1>2. CASE types[o].union
    <2>1. PICK m : m = Largest(o)
      OBVIOUS
    <2>2. /\ m \in 1 .. n
          /\ SizeOf(types[o].fields[m].type, InnerLength) = SizeOfFields(types[o], InnerLength)
      BY <1>2, <2>1, LargestIs
    <2>3. r = parts[m]
      BY <1>2, <2>1 DEF DumpObject
    <2>4. r \in Dumps
          /\ (r.ok /\ Sized(o, parts) => Len(r.bytes) = SizeOfFields(types[o], InnerLength))
      BY <2>2, <2>3 DEF Sized
    <2>5. ASSUME r.ok, Sized(o, parts) PROVE DumpAt(r, o, parts)
      <3>1. Place(types[o], InnerLength, m) = 0
        BY <1>2 DEF Place
      <3>2. \A i \in 1 .. Len(r.bytes) : i = Place(types[o], InnerLength, m) + i
        BY <3>1
      <3> QED BY <2>2, <2>3, <2>4, <2>5, <3>2 DEF DumpAt
    <2> QED BY <2>2, <2>3, <2>4, <2>5
  <1>3. CASE ~types[o].union
    <2>1. PICK j : Joins(j, parts, n) /\ r = j[n]
      BY <1>1, <1>3, DumpJoins
    <2>2. \A k \in 1 .. n : parts[k] \in Dumps
      OBVIOUS
    <2>3. PICK zero : zero = [k \in 0 .. n |-> 0]
      OBVIOUS
    <2>4. zero[0] = 0 /\ \A k \in 0 .. n : zero[k] \in Nat
      BY <1>1, <2>3
    <2>5. JoinAt(r, parts, zero, n)
      BY <1>1, <2>1, <2>2, <2>4, JoinedParts
    <2>6. r \in Dumps /\ (r.ok <=> \A k \in 1 .. n : parts[k].ok)
      BY <2>5 DEF JoinAt
    <2>7. ASSUME r.ok, Packed(types[o], InnerLength), Sized(o, parts) PROVE DumpAt(r, o, parts)
      <3>1. PICK g : g = EndsOf(types[o], InnerLength)
        OBVIOUS
      <3>2. PICK type : type = types[o]
        OBVIOUS
      <3>3. PICK inner \in Nat : inner = InnerLength
        BY <1>1
      <3>4. /\ g[0] = 0
            /\ \A k \in 0 .. n : g[k] \in Nat
            /\ \A k \in 1 .. n : g[k] = g[k - 1] + SizeOf(type.fields[k].type, inner)
            /\ SizeOfFields(type, inner) = g[n]
        BY <1>1, <1>3, <2>7, <3>1, <3>2, <3>3, PackedEnds
      <3>5. JoinAt(r, parts, g, n)
        BY <1>1, <2>1, <2>2, <3>4, JoinedParts
      <3>6. \A k \in 1 .. n : g[k] = g[k - 1] + Len(parts[k].bytes)
        BY <2>6, <2>7, <3>2, <3>3, <3>4 DEF Sized
      <3>7. /\ Len(r.bytes) = g[n]
            /\ \A i \in 1 .. g[n] : \E k \in 1 .. n : \E l \in 1 .. Len(parts[k].bytes) :
                  i = g[k - 1] + l /\ r.bytes[i] = parts[k].bytes[l]
        BY <2>7, <3>5, <3>6 DEF JoinAt
      <3>8. \A k \in 1 .. n : Place(types[o], InnerLength, k) = g[k - 1]
        BY <1>3, <3>1 DEF Place
      <3>9. Len(r.bytes) = SizeOfFields(types[o], InnerLength)
        BY <3>2, <3>3, <3>4, <3>7
      <3>10. ASSUME NEW i \in 1 .. Len(r.bytes)
             PROVE  \E k \in 1 .. n : \E l \in 1 .. Len(parts[k].bytes) :
                       /\ parts[k].ok
                       /\ i = Place(types[o], InnerLength, k) + l
                       /\ r.bytes[i] = parts[k].bytes[l]
        <4>1. PICK k \in 1 .. n : \E l \in 1 .. Len(parts[k].bytes) :
                 i = g[k - 1] + l /\ r.bytes[i] = parts[k].bytes[l]
          BY <3>7
        <4>2. Place(types[o], InnerLength, k) = g[k - 1] /\ parts[k].ok
          BY <2>6, <2>7, <3>8
        <4> QED BY <4>1, <4>2
      <3> QED BY <3>9, <3>10 DEF DumpAt
    <2> QED BY <2>6, <2>7
  <1> QED BY <1>2, <1>3

\* The values of a structure's fields, those it has
HasLeaves(o, values) ==
    \A k \in 1 .. Len(types[o].fields) :
       types[o].fields[k].type # "inner" /\ <<o, k>> \in DOMAIN values =>
          IsLeaf(values[<<o, k>>], types[o].fields[k].type)

LEMMA LeafDumped ==
    ASSUME TypesInv, LengthInv, NEW o \in Objects, NEW k \in 1 .. Len(types[o].fields),
           types[o].fields[k].type # "inner", NEW values, HasLeaves(o, values),
           NEW r, r = DumpLeaf(types[o].fields[k], values)
    PROVE  /\ r \in Dumps
           /\ r.ok <=> <<o, k>> \in DOMAIN values /\ types[o].fields[k].type # "pointer"
           /\ r.ok => /\ r.bytes = values[<<o, k>>].bytes
                      /\ Len(r.bytes) = SizeOf(types[o].fields[k].type, InnerLength)
  <1>1. PICK f : f = types[o].fields[k]
    OBVIOUS
  <1>2. f.name = <<o, k>>
    BY <1>1 DEF TypesInv
  <1>3. CASE <<o, k>> \in DOMAIN values /\ f.type # "pointer"
    <2>1. r = [ok |-> TRUE, bytes |-> values[<<o, k>>].bytes]
      BY <1>1, <1>2, <1>3 DEF DumpLeaf
    <2>2. IsLeaf(values[<<o, k>>], f.type)
      BY <1>1, <1>3 DEF HasLeaves
    <2>3. values[<<o, k>>].bytes \in Seq(ObjectBytes)
          /\ Len(values[<<o, k>>].bytes) = SizeOf(f.type, InnerLength)
      BY <1>1, <2>2 DEF IsLeaf, SizeOf
    <2> QED BY <1>1, <1>3, <2>1, <2>3 DEF Dumps
  <1>4. CASE ~(<<o, k>> \in DOMAIN values /\ f.type # "pointer")
    <2>1. r = [ok |-> FALSE, bytes |-> <<>>]
      BY <1>1, <1>2, <1>4 DEF DumpLeaf, Error
    <2>2. <<>> \in Seq(ObjectBytes)
      OBVIOUS
    <2> QED BY <1>1, <1>4, <2>1, <2>2 DEF Dumps
  <1> QED BY <1>3, <1>4

\* Where the bytes of a dump of the nested structure are from
InnerFrom(r, values) ==
    /\ Len(r.bytes) = InnerLength
    /\ \A i \in 1 .. Len(r.bytes) : \E j \in 1 .. Len(types["inner"].fields) :
          /\ <<"inner", j>> \in DOMAIN values
          /\ \E l \in 1 .. Len(values[<<"inner", j>>].bytes) :
                /\ i = Place(types["inner"], InnerLength, j) + l
                /\ r.bytes[i] = values[<<"inner", j>>].bytes[l]

LEMMA InnerDumped ==
    ASSUME TypesInv, LengthInv, NEW values, HasLeaves("inner", values),
           NEW r, r = DumpInner(values)
    PROVE  /\ r \in Dumps
           /\ (\A j \in 1 .. Len(types["inner"].fields) :
                  <<"inner", j>> \in DOMAIN values /\ types["inner"].fields[j].type # "pointer")
              => r.ok
           /\ r.ok /\ Packed(types["inner"], InnerLength) => InnerFrom(r, values)
  <1> DEFINE fields == types["inner"].fields
             n == Len(fields)
  <1>1. "inner" \in Objects /\ n \in Nat /\ DOMAIN fields = 1 .. n
    BY DEF Objects, TypesInv, Types
  <1>2. PICK parts : parts = [k \in DOMAIN fields |-> DumpLeaf(fields[k], values)]
    OBVIOUS
  <1>3. Len(parts) = n /\ \A k \in 1 .. n : parts[k] = DumpLeaf(fields[k], values)
    BY <1>1, <1>2
  <1>4. r = DumpObject("inner", parts)
    BY <1>2 DEF DumpInner
  <1> HIDE DEF n
  <1>5. ASSUME NEW k \in 1 .. n
        PROVE  /\ parts[k] \in Dumps
               /\ parts[k].ok <=> <<"inner", k>> \in DOMAIN values /\ fields[k].type # "pointer"
               /\ parts[k].ok => /\ parts[k].bytes = values[<<"inner", k>>].bytes
                                 /\ Len(parts[k].bytes) = SizeOf(fields[k].type, InnerLength)
    <2>1. fields[k].type # "inner"
      BY DEF TypesInv, n
    <2>2. PICK part : part = parts[k]
      OBVIOUS
    <2>3. part = DumpLeaf(types["inner"].fields[k], values)
      BY <1>3, <2>2
    <2>4. PICK o \in Objects : o = "inner"
      BY <1>1
    <2>5. /\ part \in Dumps
          /\ part.ok <=> <<o, k>> \in DOMAIN values /\ types[o].fields[k].type # "pointer"
          /\ part.ok => /\ part.bytes = values[<<o, k>>].bytes
                        /\ Len(part.bytes) = SizeOf(types[o].fields[k].type, InnerLength)
      BY <2>1, <2>3, <2>4, LeafDumped DEF n
    <2> QED BY <2>2, <2>4, <2>5
  <1>6. Sized("inner", parts)
    BY <1>5 DEF Sized, n
  <1>7. /\ r \in Dumps
        /\ (\A k \in 1 .. n : parts[k].ok) => r.ok
        /\ r.ok /\ Packed(types["inner"], InnerLength) => DumpAt(r, "inner", parts)
    <2>1. PICK o \in Objects : o = "inner"
      BY <1>1
    <2>2. /\ r \in Dumps
          /\ (\A k \in 1 .. Len(types[o].fields) : parts[k].ok) => r.ok
          /\ r.ok /\ Packed(types[o], InnerLength) /\ Sized(o, parts) => DumpAt(r, o, parts)
      BY <1>3, <1>4, <1>5, <2>1, DumpIs DEF n
    <2> QED BY <1>6, <2>1, <2>2 DEF n
  <1>8. ASSUME r.ok, Packed(types["inner"], InnerLength) PROVE InnerFrom(r, values)
    <2>1. DumpAt(r, "inner", parts)
      BY <1>7, <1>8
    <2>2. Len(r.bytes) = InnerLength
      BY <2>1, InnerLengthIs DEF DumpAt, CalcSize, LengthInv
    <2>3. ASSUME NEW i \in 1 .. Len(r.bytes)
          PROVE  \E j \in 1 .. n :
                    /\ <<"inner", j>> \in DOMAIN values
                    /\ \E l \in 1 .. Len(values[<<"inner", j>>].bytes) :
                          /\ i = Place(types["inner"], InnerLength, j) + l
                          /\ r.bytes[i] = values[<<"inner", j>>].bytes[l]
      <3>1. PICK k \in 1 .. n : \E l \in 1 .. Len(parts[k].bytes) :
               /\ parts[k].ok
               /\ i = Place(types["inner"], InnerLength, k) + l
               /\ r.bytes[i] = parts[k].bytes[l]
        BY <2>1 DEF DumpAt, n
      <3> QED BY <1>5, <3>1
    <2> QED BY <2>2, <2>3 DEF InnerFrom, n
  <1> QED BY <1>5, <1>7, <1>8 DEF n

\* What an instance has under which name
LEMMA InstanceHas ==
    ASSUME TypesInv, NEW inst, IsInstance(inst)
    PROVE  /\ HasLeaves("outer", inst.values) /\ HasLeaves("inner", inst.values)
           /\ \A k \in 1 .. Len(types["outer"].fields) :
                 types["outer"].fields[k].type = "inner" /\ <<"outer", k>> \in DOMAIN inst.values =>
                    /\ IsNested(inst, inst.values[<<"outer", k>>])
                    /\ HasLeaves("inner", inst.values[<<"outer", k>>].members)
  <1>1. ASSUME NEW k \in 1 .. Len(types["outer"].fields), <<"outer", k>> \in DOMAIN inst.values
        PROVE  IF types["outer"].fields[k].type = "inner"
               THEN IsNested(inst, inst.values[<<"outer", k>>])
               ELSE IsValue(inst, inst.values[<<"outer", k>>], types["outer"].fields[k].type)
    <2>1. PICK m : m = <<"outer", k>>
      OBVIOUS
    <2>2. IsField(inst, m, inst.values[m]) \/ IsMember(inst, m, inst.values[m])
      BY <1>1, <2>1 DEF IsInstance
    <2>3. ~IsMember(inst, m, inst.values[m])
      BY <2>1 DEF IsMember
    <2>4. PICK i \in 1 .. Len(types["outer"].fields) :
             /\ m = <<"outer", i>>
             /\ IF types["outer"].fields[i].type = "inner" THEN IsNested(inst, inst.values[m])
                ELSE IsValue(inst, inst.values[m], types["outer"].fields[i].type)
      BY <2>2, <2>3 DEF IsField
    <2>5. i = k
      BY <2>1, <2>4
    <2> QED BY <2>1, <2>4, <2>5
  <1>2. ASSUME NEW j \in 1 .. Len(types["inner"].fields), <<"inner", j>> \in DOMAIN inst.values
        PROVE  IsValue(inst, inst.values[<<"inner", j>>], types["inner"].fields[j].type)
    <2>1. PICK m : m = <<"inner", j>>
      OBVIOUS
    <2>2. IsField(inst, m, inst.values[m]) \/ IsMember(inst, m, inst.values[m])
      BY <1>2, <2>1 DEF IsInstance
    <2>3. ~IsField(inst, m, inst.values[m])
      BY <2>1 DEF IsField
    <2>4. PICK i \in 1 .. Len(types["inner"].fields) :
             m = <<"inner", i>> /\ IsValue(inst, inst.values[m], types["inner"].fields[i].type)
      BY <2>2, <2>3 DEF IsMember
    <2>5. i = j
      BY <2>1, <2>4
    <2> QED BY <2>1, <2>4, <2>5
  <1>3. ASSUME NEW v, IsNested(inst, v) PROVE HasLeaves("inner", v.members)
    <2>1. ASSUME NEW j \in 1 .. Len(types["inner"].fields), <<"inner", j>> \in DOMAIN v.members
          PROVE  IsLeaf(v.members[<<"inner", j>>], types["inner"].fields[j].type)
      <3>1. PICK m : m = <<"inner", j>>
        OBVIOUS
      <3>2. IsMember(inst, m, v.members[m])
        BY <1>3, <2>1, <3>1 DEF IsNested
      <3>3. PICK i \in 1 .. Len(types["inner"].fields) :
               m = <<"inner", i>> /\ IsValue(inst, v.members[m], types["inner"].fields[i].type)
        BY <3>2 DEF IsMember
      <3>4. i = j
        BY <3>1, <3>3
      <3> QED BY <3>1, <3>3, <3>4 DEF IsValue
    <2> QED BY <2>1 DEF HasLeaves
  <1>4. HasLeaves("outer", inst.values) /\ HasLeaves("inner", inst.values)
    BY <1>1, <1>2 DEF HasLeaves, IsValue
  <1> QED BY <1>1, <1>3, <1>4

\* Where the writer looks for the nested structure of field k, and for its members
ByName(k) ==
    types["outer"].fields[k].type # "inner" \/ types["outer"].union \/ ~Anonymous

MembersOf(k) ==
    IF ByName(k) THEN instance.values[<<"outer", k>>].members ELSE instance.values

\* Field k is where the writer looks for it.
Found(k) ==
    /\ ByName(k) => <<"outer", k>> \in DOMAIN instance.values
    /\ IF types["outer"].fields[k].type = "inner"
       THEN \A j \in 1 .. Len(types["inner"].fields) :
               /\ <<"inner", j>> \in DOMAIN MembersOf(k)
               /\ types["inner"].fields[j].type # "pointer"
       ELSE types["outer"].fields[k].type # "pointer"

\* Byte b is at place i in a dump: it is from field k, or from a member of it.
ByteOf(k, i, b) ==
    /\ ByName(k) => <<"outer", k>> \in DOMAIN instance.values
    /\ IF types["outer"].fields[k].type = "inner"
       THEN \E j \in 1 .. Len(types["inner"].fields) :
               /\ <<"inner", j>> \in DOMAIN MembersOf(k)
               /\ \E l \in 1 .. Len(MembersOf(k)[<<"inner", j>>].bytes) :
                     /\ i = Place(types["outer"], InnerLength, k)
                            + (Place(types["inner"], InnerLength, j) + l)
                     /\ b = MembersOf(k)[<<"inner", j>>].bytes[l]
       ELSE \E l \in 1 .. Len(instance.values[<<"outer", k>>].bytes) :
               /\ i = Place(types["outer"], InnerLength, k) + l
               /\ b = instance.values[<<"outer", k>>].bytes[l]

LEMMA FieldDumped ==
    ASSUME TypesInv, LengthInv, IsInstance(instance),
           NEW k \in 1 .. Len(types["outer"].fields),
           NEW r, r = DumpField(types["outer"].fields[k], instance.values)
    PROVE  /\ r \in Dumps
           /\ Found(k) => r.ok
           /\ r.ok /\ Packed(types["inner"], InnerLength) =>
                 /\ Len(r.bytes) = SizeOf(types["outer"].fields[k].type, InnerLength)
                 /\ \A l \in 1 .. Len(r.bytes) :
                       ByteOf(k, Place(types["outer"], InnerLength, k) + l, r.bytes[l])
  <1> DEFINE f == types["outer"].fields[k]
  <1>1. PICK values : values = instance.values
    OBVIOUS
  <1>2. /\ HasLeaves("outer", values) /\ HasLeaves("inner", values)
        /\ f.type = "inner" /\ <<"outer", k>> \in DOMAIN values =>
              HasLeaves("inner", values[<<"outer", k>>].members)
    <2>1. PICK inst : inst = instance
      OBVIOUS
    <2> QED BY <1>1, <2>1, InstanceHas
  <1>3. "outer" \in Objects /\ f.name = <<"outer", k>>
    BY DEF Objects, TypesInv
  <1>4. CASE f.type # "inner"
    <2>1. r = DumpLeaf(types["outer"].fields[k], values)
      BY <1>1, <1>4 DEF DumpField
    <2>2. PICK o \in Objects : o = "outer"
      BY <1>3
    <2>3. /\ r \in Dumps
          /\ r.ok <=> <<o, k>> \in DOMAIN values /\ types[o].fields[k].type # "pointer"
          /\ r.ok => /\ r.bytes = values[<<o, k>>].bytes
                     /\ Len(r.bytes) = SizeOf(types[o].fields[k].type, InnerLength)
      BY <1>2, <1>4, <2>1, <2>2, LeafDumped
    <2>4. Found(k) => r.ok
      BY <1>1, <1>4, <2>2, <2>3 DEF Found, ByName
    <2>5. ASSUME r.ok
          PROVE  \A l \in 1 .. Len(r.bytes) :
                    ByteOf(k, Place(types["outer"], InnerLength, k) + l, r.bytes[l])
      BY <1>1, <1>4, <2>2, <2>3, <2>5 DEF ByteOf, ByName
    <2> QED BY <2>2, <2>3, <2>4, <2>5
  <1>5. CASE f.type = "inner" /\ ByName(k) /\ <<"outer", k>> \notin DOMAIN values
    <2>1. r = [ok |-> FALSE, bytes |-> <<>>]
      BY <1>1, <1>3, <1>5 DEF DumpField, ByName, Anonymous, Error
    <2>2. <<>> \in Seq(ObjectBytes)
      OBVIOUS
    <2>3. ~Found(k)
      BY <1>1, <1>5 DEF Found
    <2> QED BY <2>1, <2>2, <2>3 DEF Dumps
  <1>6. CASE f.type = "inner" /\ (ByName(k) => <<"outer", k>> \in DOMAIN values)
    <2>1. PICK members : members = MembersOf(k)
      OBVIOUS
    <2>2. r = DumpInner(members)
      BY <1>1, <1>3, <1>6, <2>1 DEF DumpField, ByName, Anonymous, MembersOf
    <2>3. HasLeaves("inner", members)
      BY <1>1, <1>2, <1>6, <2>1 DEF MembersOf
    <2>4. /\ r \in Dumps
          /\ (\A j \in 1 .. Len(types["inner"].fields) :
                 <<"inner", j>> \in DOMAIN members /\ types["inner"].fields[j].type # "pointer")
             => r.ok
          /\ r.ok /\ Packed(types["inner"], InnerLength) => InnerFrom(r, members)
      BY <2>2, <2>3, InnerDumped
    <2>5. Found(k) => r.ok
      BY <1>6, <2>1, <2>4 DEF Found
    <2>6. ASSUME r.ok, Packed(types["inner"], InnerLength)
          PROVE  /\ Len(r.bytes) = SizeOf(f.type, InnerLength)
                 /\ \A l \in 1 .. Len(r.bytes) :
                       ByteOf(k, Place(types["outer"], InnerLength, k) + l, r.bytes[l])
      <3>1. InnerFrom(r, members)
        BY <2>4, <2>6
      <3>2. Len(r.bytes) = SizeOf(f.type, InnerLength)
        BY <1>6, <3>1 DEF InnerFrom, SizeOf
      <3>3. ASSUME NEW i \in 1 .. Len(r.bytes)
            PROVE  ByteOf(k, Place(types["outer"], InnerLength, k) + i, r.bytes[i])
        <4>1. PICK j \in 1 .. Len(types["inner"].fields) :
                 /\ <<"inner", j>> \in DOMAIN members
                 /\ \E l \in 1 .. Len(members[<<"inner", j>>].bytes) :
                       /\ i = Place(types["inner"], InnerLength, j) + l
                       /\ r.bytes[i] = members[<<"inner", j>>].bytes[l]
          BY <3>1 DEF InnerFrom
        <4> QED BY <1>1, <1>6, <2>1, <4>1 DEF ByteOf
      <3> QED BY <3>2, <3>3
    <2> QED BY <2>4, <2>5, <2>6
  <1> QED BY <1>1, <1>4, <1>5, <1>6

\* What a dump is, and where its bytes are from
LEMMA OuterDumped ==
    ASSUME TypesInv, LengthInv, IsInstance(instance), NEW r, r = DumpOuter
    PROVE  /\ r \in Dumps
           /\ (\A k \in 1 .. Len(types["outer"].fields) : Found(k)) => r.ok
           /\ r.ok /\ (\A o \in Objects : Packed(types[o], InnerLength)) =>
                 /\ Len(r.bytes) = CalcSize("outer")
                 /\ \A i \in 1 .. Len(r.bytes) : \E k \in 1 .. Len(types["outer"].fields) :
                       ByteOf(k, i, r.bytes[i])
  <1> DEFINE fields == types["outer"].fields
             n == Len(fields)
  <1>1. "outer" \in Objects /\ "inner" \in Objects /\ n \in Nat /\ DOMAIN fields = 1 .. n
    BY DEF Objects, TypesInv, Types
  <1>2. PICK parts : parts = [k \in DOMAIN fields |-> DumpField(fields[k], instance.values)]
    OBVIOUS
  <1>3. Len(parts) = n /\ \A k \in 1 .. n : parts[k] = DumpField(fields[k], instance.values)
    BY <1>1, <1>2
  <1>4. r = DumpObject("outer", parts)
    BY <1>2 DEF DumpOuter
  <1> HIDE DEF n
  <1>5. ASSUME NEW k \in 1 .. n
        PROVE  /\ parts[k] \in Dumps
               /\ Found(k) => parts[k].ok
               /\ parts[k].ok /\ Packed(types["inner"], InnerLength) =>
                    /\ Len(parts[k].bytes) = SizeOf(fields[k].type, InnerLength)
                    /\ \A l \in 1 .. Len(parts[k].bytes) :
                          ByteOf(k, Place(types["outer"], InnerLength, k) + l, parts[k].bytes[l])
    <2>1. PICK part : part = parts[k]
      OBVIOUS
    <2>2. part = DumpField(types["outer"].fields[k], instance.values)
      BY <1>3, <2>1
    <2>3. /\ part \in Dumps
          /\ Found(k) => part.ok
          /\ part.ok /\ Packed(types["inner"], InnerLength) =>
                 /\ Len(part.bytes) = SizeOf(types["outer"].fields[k].type, InnerLength)
                 /\ \A l \in 1 .. Len(part.bytes) :
                       ByteOf(k, Place(types["outer"], InnerLength, k) + l, part.bytes[l])
      BY <2>2, FieldDumped DEF n
    <2> QED BY <2>1, <2>3
  <1>6. Packed(types["inner"], InnerLength) => Sized("outer", parts)
    BY <1>5 DEF Sized, n
  <1>7. /\ r \in Dumps
        /\ (\A k \in 1 .. n : parts[k].ok) => r.ok
        /\ r.ok /\ Packed(types["outer"], InnerLength) /\ Sized("outer", parts) =>
              DumpAt(r, "outer", parts)
    <2>1. PICK o \in Objects : o = "outer"
      BY <1>1
    <2>2. /\ r \in Dumps
          /\ (\A k \in 1 .. Len(types[o].fields) : parts[k].ok) => r.ok
          /\ r.ok /\ Packed(types[o], InnerLength) /\ Sized(o, parts) => DumpAt(r, o, parts)
      BY <1>3, <1>4, <1>5, <2>1, DumpIs DEF n
    <2> QED BY <2>1, <2>2 DEF n
  <1>8. ASSUME r.ok, \A o \in Objects : Packed(types[o], InnerLength)
        PROVE  /\ Len(r.bytes) = CalcSize("outer")
               /\ \A i \in 1 .. Len(r.bytes) : \E k \in 1 .. n : ByteOf(k, i, r.bytes[i])
    <2>1. Packed(types["inner"], InnerLength) /\ DumpAt(r, "outer", parts)
      BY <1>1, <1>6, <1>7, <1>8
    <2>2. Len(r.bytes) = CalcSize("outer")
      BY <2>1 DEF DumpAt, CalcSize
    <2>3. ASSUME NEW i \in 1 .. Len(r.bytes) PROVE \E k \in 1 .. n : ByteOf(k, i, r.bytes[i])
      <3>1. PICK k \in 1 .. n : \E l \in 1 .. Len(parts[k].bytes) :
               /\ parts[k].ok
               /\ i = Place(types["outer"], InnerLength, k) + l
               /\ r.bytes[i] = parts[k].bytes[l]
        BY <2>1 DEF DumpAt, n
      <3> QED BY <1>5, <2>1, <3>1
    <2> QED BY <2>2, <2>3
  <1> QED BY <1>5, <1>7, <1>8 DEF n

\* Fields end in one place only.
LEMMA EndsUnique ==
    ASSUME NEW type, IsType(type), NEW inner \in Nat, NEW g, Ends(g, type, inner),
           NEW h, Ends(h, type, inner)
    PROVE  \A k \in 0 .. Len(type.fields) : g[k] = h[k]
  <1>1. Grown(type, inner, type, inner)
    <2>1. ASSUME NEW k \in 1 .. Len(type.fields)
          PROVE  SizeOf(type.fields[k].type, inner) <= SizeOf(type.fields[k].type, inner)
      <3>1. type.fields[k] \in Fields
        BY DEF IsType
      <3>2. SizeOf(type.fields[k].type, inner) \in Nat
        BY <3>1, SizeOfType DEF Fields
      <3> QED BY <3>2
    <2>2. Len(type.fields) \in Nat
      BY DEF IsType
    <2> QED BY <2>1, <2>2 DEF Grown
  <1>2. \A k \in 0 .. Len(type.fields) : g[k] <= h[k]
    BY <1>1, EndsGrow
  <1>3. \A k \in 0 .. Len(type.fields) : h[k] <= g[k]
    BY <1>1, EndsGrow
  <1>4. \A k \in 0 .. Len(type.fields) : g[k] \in Nat /\ h[k] \in Nat
    BY EndsAscend
  <1> QED BY <1>2, <1>3, <1>4

\* Without offsets given to add_field, no offset leads a reader elsewhere.
LEMMA PlainIsPacked ==
    ASSUME TypesInv, LengthInv, OffsetsInv, Plain, NEW o \in Objects
    PROVE  /\ Packed(types[o], InnerLength)
           /\ added["inner"] = 0 => InPlace(types[o], InnerLength)
  <1>1. PICK type : type = types[o]
    OBVIOUS
  <1>2. PICK inner \in Nat : inner = InnerLength
    BY InnerLengthIs DEF LengthInv
  <1>3. PICK n : n = Len(type.fields) - added[o]
    OBVIOUS
  <1>4. /\ IsType(type) /\ Len(type.fields) \in Nat /\ n \in Nat
        /\ \A k \in 1 .. Len(type.fields) : k > n => type.fields[k].offset = NoOffset
    <2>1. IsType(type) /\ Len(type.fields) \in Nat /\ DOMAIN type.fields = 1 .. Len(type.fields)
      BY <1>1, TypeIsType DEF IsType
    <2> QED BY <1>1, <1>3, <2>1 DEF Plain, OffsetsInv
  <1>5. CASE type.union
    <2>1. \A k \in 1 .. Len(type.fields) : type.fields[k].offset = NoOffset
      <3> TAKE k \in 1 .. Len(type.fields)
      <3>1. CASE k <= n
        BY <1>1, <1>3, <1>4, <1>5, <3>1 DEF OffsetsInv
      <3>2. CASE k > n
        BY <1>4, <3>2
      <3> QED BY <1>4, <3>1, <3>2
    <2> QED BY <1>1, <1>5, <2>1 DEF Packed, InPlace
  <1>6. CASE ~type.union
    <2>1. PICK g : /\ Ends(g, type, inner)
                   /\ \A k \in 1 .. n :
                        \/ type.fields[k].offset = NoOffset
                        \/ /\ type.fields[k].offset <= g[k - 1]
                           /\ added["inner"] = 0 => type.fields[k].offset = g[k - 1]
      BY <1>1, <1>2, <1>3, <1>6 DEF OffsetsInv, Behind
    <2>2. PICK h : h = EndsOf(type, inner)
      OBVIOUS
    <2>3. \A k \in 0 .. Len(type.fields) : g[k] = h[k]
      <3>1. Ends(h, type, inner)
        BY <1>4, <1>6, <2>2, EndsOfIs
      <3> QED BY <1>4, <2>1, <3>1, EndsUnique
    <2>4. ASSUME NEW k \in 1 .. Len(type.fields)
          PROVE  \/ type.fields[k].offset = NoOffset
                 \/ /\ type.fields[k].offset <= h[k - 1]
                    /\ added["inner"] = 0 => type.fields[k].offset = h[k - 1]
      <3>1. h[k - 1] = g[k - 1]
        BY <1>4, <2>3
      <3>2. CASE k <= n
        BY <1>4, <2>1, <3>1, <3>2
      <3>3. CASE k > n
        BY <1>4, <3>3
      <3> QED BY <1>4, <3>2, <3>3
    <2> QED BY <1>1, <1>2, <1>6, <2>2, <2>4 DEF Packed, InPlace, Place
  <1> QED BY <1>5, <1>6

\* What the last call gave
ResultInv ==
    /\ result.bytes \in Seq(ObjectBytes)
    /\ LengthIsDumped
    /\ FollowedIsTarget

LEMMA DumpStep ==
    ASSUME TypesInv, LengthInv, OffsetsInv, IsInstance(instance), Dump
    PROVE  ResultInv'
  <1>1. PICK r : r = DumpOuter
    OBVIOUS
  <1>2. result' = [call |-> "dump", ok |-> r.ok, bytes |-> r.bytes]
    BY <1>1 DEF Dump, Outcome
  <1>3. result'.call = "dump" /\ result'.ok = r.ok /\ result'.bytes = r.bytes
    BY <1>2
  <1>4. /\ r \in Dumps
        /\ r.ok /\ (\A o \in Objects : Packed(types[o], InnerLength)) =>
              Len(r.bytes) = CalcSize("outer")
    BY <1>1, OuterDumped
  <1>5. SameTypes /\ CalcSize("outer")' = CalcSize("outer")
    <2>1. CASE types' = types
      BY <2>1 DEF SameTypes, Dump, CalcSize, InnerLength
    <2>2. CASE types' = Measured({"inner"})
      BY <2>2, MeasuredSafe DEF Dump, Objects
    <2> QED BY <2>1, <2>2 DEF Dump
  <1>6. Plain' => Plain
    BY <1>5 DEF Plain, SameTypes
  <1>7. LengthIsDumped'
    <2>1. ASSUME r.ok, Plain' PROVE Len(r.bytes) = CalcSize("outer")
      BY <1>4, <1>6, <2>1, PlainIsPacked
    <2> QED BY <1>3, <1>5, <2>1 DEF LengthIsDumped
  <1>8. FollowedIsTarget'
    BY <1>3 DEF FollowedIsTarget
  <1> QED BY <1>3, <1>4, <1>7, <1>8 DEF ResultInv, Dumps

LEMMA FollowStep ==
    ASSUME TypesInv, IsInstance(instance), Follow
    PROVE  ResultInv'
  <1>1. PICK v \in Pointers : result' = Outcome("follow", IF TargetOf(v).ok
                                                THEN [ok |-> TRUE, bytes |-> TargetOf(v).value.bytes]
                                                ELSE Error)
    BY DEF Follow
  <1>2. PICK r : r = TargetOf(v)
    OBVIOUS
  <1>3. /\ r.ok \in BOOLEAN
        /\ r.ok => /\ r.value.bytes \in Seq(ObjectBytes)
                   /\ NoUnions =>
                        r.value.bytes = [i \in 1 .. TypeSizes[Target] |-> Memory[v.bytes[1]] + i]
    BY <1>2, TargetIs
  <1>4. PICK a : a = IF r.ok THEN [ok |-> TRUE, bytes |-> r.value.bytes] ELSE Error
    OBVIOUS
  <1>5. /\ a.ok = r.ok
        /\ a.bytes = IF r.ok THEN r.value.bytes ELSE <<>>
    BY <1>3, <1>4 DEF Error
  <1>6. result' = [call |-> "follow", ok |-> a.ok, bytes |-> a.bytes]
    BY <1>1, <1>2, <1>4 DEF Outcome
  <1>7. result'.call = "follow" /\ result'.ok = r.ok /\ result'.bytes = a.bytes
    BY <1>5, <1>6
  <1>8. result'.bytes \in Seq(ObjectBytes)
    BY <1>3, <1>5, <1>7
  <1>9. types' = types /\ instance' = instance
    BY DEF Follow
  <1>10. LengthIsDumped'
    BY <1>7 DEF LengthIsDumped
  <1>11. FollowedIsTarget'
    <2>1. Pointers' = Pointers
      BY <1>9 DEF Pointers
    <2>2. ASSUME r.ok, NoUnions
          PROVE  \E w \in Pointers :
                    result'.bytes = [i \in 1 .. TypeSizes[Target] |-> Memory[w.bytes[1]] + i]
      BY <1>3, <1>5, <1>7, <2>2
    <2> QED BY <1>7, <1>9, <2>1, <2>2 DEF FollowedIsTarget, NoUnions
  <1> QED BY <1>8, <1>10, <1>11 DEF ResultInv

LEMMA ResultStep ==
    ASSUME TypesInv, LengthInv, OffsetsInv, OneInner, IsInstance(instance), ResultInv,
           [ObjectsNext]_objectVars
    PROVE  ResultInv'
  <1>1. CASE \E ok : result' = Quiet(ok)
    <2>1. result'.call = "other" /\ result'.bytes = <<>>
      BY <1>1 DEF Quiet
    <2> QED BY <2>1 DEF ResultInv, LengthIsDumped, FollowedIsTarget
  <1>2. CASE FollowNull
    <2>1. result' = [call |-> "follow", ok |-> Error.ok, bytes |-> Error.bytes]
      BY <1>2 DEF FollowNull, Outcome
    <2>2. result'.call = "follow" /\ result'.ok = FALSE /\ result'.bytes = <<>>
      BY <2>1 DEF Error
    <2> QED BY <2>2 DEF ResultInv, LengthIsDumped, FollowedIsTarget
  <1>3. CASE UNCHANGED objectVars
    BY <1>3 DEF objectVars, ResultInv, LengthIsDumped, FollowedIsTarget, Plain, CalcSize,
                InnerLength, Pointers
  <1>4. CASE Read
    <2>1. result' = Quiet(TRUE) \/ result' = Quiet(FALSE)
      BY <1>4 DEF Read
    <2> QED BY <1>1, <2>1
  <1>5. CASE MakeDefault
    <2>1. result' = Quiet(TRUE) \/ result' = Quiet(FALSE)
      BY <1>5 DEF MakeDefault
    <2> QED BY <1>1, <2>1
  <1>6. CASE SetMember \/ SetNested \/ SetAnonymous \/ AddField \/ Measure \/ Seek
    <2>1. result' = Quiet(TRUE) \/ result' = Quiet(FALSE)
      BY <1>6 DEF SetMember, SetNested, SetAnonymous, AddField, Measure, Seek
    <2> QED BY <1>1, <2>1
  <1> QED BY <1>2, <1>3, <1>4, <1>5, <1>6, DumpStep, FollowStep DEF ObjectsNext

\* What is lost when a member is set is bytes.
LEMMA LostIs ==
    ASSUME NEW values, NEW n, n \in DOMAIN values => values[n].bytes \in Seq(ObjectBytes)
    PROVE  Lost(values, n) \subseteq ObjectBytes
  <1>1. CASE n \in DOMAIN values
    <2>1. PICK b \in Seq(ObjectBytes) : b = values[n].bytes
      BY <1>1
    <2>2. ToSet(b) \subseteq ObjectBytes
      BY DEF ToSet
    <2> QED BY <1>1, <2>1, <2>2 DEF Lost
  <1>2. CASE n \notin DOMAIN values
    BY <1>2, Zero DEF Lost
  <1> QED BY <1>1, <1>2

\* Every value of an instance, also of its nested structure, has bytes.
LEMMA BytesAre ==
    ASSUME TypesInv, NEW inst, IsInstance(inst), NEW m \in DOMAIN inst.values
    PROVE  /\ inst.values[m].bytes \in Seq(ObjectBytes)
           /\ inst.made = "read" => Within(inst.values[m], inst.start)
           /\ \A n \in DOMAIN inst.values[m].members :
                 /\ inst.values[m].members[n].bytes \in Seq(ObjectBytes)
                 /\ inst.made = "read" => Within(inst.values[m].members[n], inst.start)
  <1>1. PICK v : v = inst.values[m]
    OBVIOUS
  <1>2. CASE IsNested(inst, v)
    <2>1. v.bytes = <<>> /\ <<>> \in Seq(ObjectBytes) /\ ToSet(<<>>) = {}
      BY <1>2 DEF IsNested, Compound, Value, ToSet
    <2>2. ASSUME NEW n \in DOMAIN v.members
          PROVE  \E t : IsValue(inst, v.members[n], t)
      <3>1. IsMember(inst, n, v.members[n])
        BY <1>2 DEF IsNested
      <3> QED BY <3>1 DEF IsMember
    <2> QED BY <1>1, <2>1, <2>2 DEF IsValue, IsLeaf, Within
  <1>3. CASE \E t : IsValue(inst, v, t)
    <2>1. v.members = Nothing
      BY <1>3 DEF IsValue, IsLeaf
    <2> QED BY <1>1, <1>3, <2>1 DEF IsValue, IsLeaf, Nothing
  <1> QED BY <1>1, <1>2, <1>3 DEF IsInstance, IsField, IsMember

ReplacedInv == replaced \subseteq ObjectBytes

LEMMA ReplacedStep ==
    ASSUME TypesInv, IsInstance(instance), ReplacedInv, [ObjectsNext]_objectVars
    PROVE  ReplacedInv'
  <1>1. CASE replaced' = replaced \/ replaced' = {}
    BY <1>1 DEF ReplacedInv
  <1>2. PICK inst : inst = instance
    OBVIOUS
  <1>3. CASE SetMember
    <2>1. PICK n : replaced' = replaced \cup Lost(instance.values, n)
      BY <1>3 DEF SetMember
    <2>2. PICK values : values = inst.values
      OBVIOUS
    <2>3. n \in DOMAIN values => values[n].bytes \in Seq(ObjectBytes)
      BY <1>2, <2>2, BytesAre
    <2>4. Lost(values, n) \subseteq ObjectBytes
      BY <2>3, LostIs
    <2> QED BY <1>2, <2>1, <2>2, <2>4 DEF ReplacedInv
  <1>4. CASE SetNested
    <2>1. PICK m \in DOMAIN instance.values :
             \E n : replaced' = replaced \cup Lost(instance.values[m].members, n)
      BY <1>4 DEF SetNested
    <2>2. PICK n : replaced' = replaced \cup Lost(instance.values[m].members, n)
      BY <2>1
    <2>3. PICK members : members = inst.values[m].members
      OBVIOUS
    <2>4. n \in DOMAIN members => members[n].bytes \in Seq(ObjectBytes)
      BY <1>2, <2>1, <2>3, BytesAre
    <2>5. Lost(members, n) \subseteq ObjectBytes
      BY <2>4, LostIs
    <2> QED BY <1>2, <2>2, <2>3, <2>5 DEF ReplacedInv
  <1>5. CASE Read \/ MakeDefault
    BY <1>1, <1>5 DEF Read, MakeDefault
  <1>6. CASE SetAnonymous \/ Dump \/ AddField \/ Measure \/ Seek \/ FollowNull \/ Follow
             \/ UNCHANGED objectVars
    BY <1>1, <1>6 DEF SetAnonymous, Dump, AddField, Measure, Seek, FollowNull, Follow, objectVars
  <1> QED BY <1>3, <1>4, <1>5, <1>6 DEF ObjectsNext

-----------------------------------------------------------------------------
(* Theorems *)

ObjectsInv ==
    /\ TypesInv /\ LengthInv /\ OffsetsInv /\ OneInner
    /\ StreamInv
    /\ IsInstance(instance)
    /\ ResultInv
    /\ ReplacedInv

LEMMA ObjectsInvInit == ObjectsInit => ObjectsInv
  <1> SUFFICES ASSUME ObjectsInit PROVE ObjectsInv
    OBVIOUS
  <1>1. StreamInv
    BY DEF ObjectsInit, StreamInv, StreamIsWhereLeft
  <1>2. result = [call |-> "other", ok |-> TRUE, bytes |-> <<>>]
    BY DEF ObjectsInit, Quiet
  <1>3. result.call = "other" /\ result.bytes = <<>>
    BY <1>2
  <1>4. ResultInv
    BY <1>3 DEF ResultInv, LengthIsDumped, FollowedIsTarget
  <1>5. ReplacedInv
    BY DEF ObjectsInit, ReplacedInv
  <1> QED BY <1>1, <1>4, <1>5, TypesInit, InstanceInit DEF ObjectsInv

LEMMA ObjectsInvStep == ObjectsInv /\ [ObjectsNext]_objectVars => ObjectsInv'
  <1> SUFFICES ASSUME ObjectsInv, [ObjectsNext]_objectVars PROVE ObjectsInv'
    OBVIOUS
  <1>1. TypesInv' /\ LengthInv' /\ OffsetsInv' /\ OneInner'
    BY TypesStep DEF ObjectsInv
  <1>2. StreamInv'
    BY StreamStep DEF ObjectsInv
  <1>3. IsInstance(instance)'
    BY InstanceStep DEF ObjectsInv, StreamInv
  <1>4. ResultInv'
    BY ResultStep DEF ObjectsInv
  <1>5. ReplacedInv'
    BY ReplacedStep DEF ObjectsInv
  <1> QED BY <1>1, <1>2, <1>3, <1>4, <1>5 DEF ObjectsInv

\* The inductive invariant: the types, the instance read or made from them, the
\* last result and the position of the stream belong together, whatever calls
\* of the program came in between.
THEOREM ObjectsInvariant == ObjectsSpec => []ObjectsInv
  <1> QED BY ObjectsInvInit, ObjectsInvStep, PTL DEF ObjectsSpec

\* Offsets, lengths and bytes are what they should be in every state.
THEOREM ObjectsTypeCorrect == ObjectsSpec => []ObjectsTypeOK
  <1>1. ASSUME ObjectsInv PROVE ObjectsTypeOK
    <2>1. ASSUME NEW o \in Objects
          PROVE  /\ types[o].size \in Nat \cup {NoSize}
                 /\ \A k \in DOMAIN types[o].fields :
                      /\ types[o].fields[k].name = <<o, k>>
                      /\ types[o].fields[k].type \in FieldTypes
                      /\ types[o].fields[k].offset \in Nat \cup {NoOffset}
      <3>1. types[o] \in Types /\ types[o].fields \in Seq(Fields)
        BY <1>1 DEF ObjectsInv, TypesInv, Types
      <3>2. DOMAIN types[o].fields = 1 .. Len(types[o].fields)
        BY <3>1
      <3>3. ASSUME NEW k \in DOMAIN types[o].fields
            PROVE  /\ types[o].fields[k].type \in FieldTypes
                   /\ types[o].fields[k].offset \in Nat \cup {NoOffset}
        <4>1. types[o].fields[k] \in Fields
          BY <3>1, <3>2
        <4> QED BY <4>1 DEF Fields
      <3> QED BY <1>1, <3>1, <3>2, <3>3 DEF ObjectsInv, TypesInv, Types
    <2>2. ASSUME NEW v \in Range(instance.values) PROVE ToSet(v.bytes) \subseteq ObjectBytes
      <3>1. PICK inst : inst = instance
        OBVIOUS
      <3>2. PICK m \in DOMAIN inst.values : v = inst.values[m]
        BY <3>1 DEF Range
      <3>3. PICK b \in Seq(ObjectBytes) : b = v.bytes
        BY <1>1, <3>1, <3>2, BytesAre DEF ObjectsInv
      <3> QED BY <3>3 DEF ToSet
    <2>3. ToSet(result.bytes) \subseteq ObjectBytes
      <3>1. PICK b \in Seq(ObjectBytes) : b = result.bytes
        BY <1>1 DEF ObjectsInv, ResultInv
      <3> QED BY <3>1 DEF ToSet
    <2> QED BY <1>1, <2>1, <2>2, <2>3
            DEF ObjectsTypeOK, ObjectsInv, StreamInv, IsInstance, ReplacedInv
  <1> QED BY <1>1, ObjectsInvariant, PTL

\* What __len__ remembers is what _calc_size gives, unless a nested type was extended.
THEOREM LengthStaysCurrent == ObjectsSpec => []LengthIsCurrent
  <1>1. ASSUME ObjectsInv PROVE LengthIsCurrent
    BY <1>1, InnerLengthIs DEF ObjectsInv, LengthInv, InnerLengthInv, LengthIsCurrent, Objects
  <1> QED BY <1>1, ObjectsInvariant, PTL

\* What Structure._read and Union._read take is within the length of the structure.
THEOREM ReadsAreWithin == ObjectsSpec => []ReadsStayWithin
  <1>1. ASSUME ObjectsInv PROVE ReadsStayWithin
    <2>1. PICK inst : inst = instance
      OBVIOUS
    <2>2. ASSUME inst.made = "read", NEW v \in Range(inst.values)
          PROVE  Within(v, inst.start) /\ \A w \in Range(v.members) : Within(w, inst.start)
      <3>1. PICK m \in DOMAIN inst.values : v = inst.values[m]
        BY DEF Range
      <3>2. Within(v, inst.start) /\ \A n \in DOMAIN v.members : Within(v.members[n], inst.start)
        BY <1>1, <2>1, <2>2, <3>1, BytesAre DEF ObjectsInv
      <3> QED BY <3>2 DEF Range
    <2>3. ASSUME instance.made = "read",
                 NEW v \in Range(instance.values)
                             \cup UNION {Range(w.members) : w \in Range(instance.values)}
          PROVE  Within(v, instance.start)
      BY <2>1, <2>2, <2>3
    <2> QED BY <2>3 DEF ReadsStayWithin, Within
  <1> QED BY <1>1, ObjectsInvariant, PTL

\* A dump is as long as the type says: Structure._write and _calc_size agree.
THEOREM DumpsHaveTheLength == ObjectsSpec => []LengthIsDumped
  <1>1. ObjectsInv => LengthIsDumped
    BY DEF ObjectsInv, ResultInv
  <1> QED BY <1>1, ObjectsInvariant, PTL

\* Following a pointer leaves the stream where it was.
THEOREM StreamStaysWhereLeft == ObjectsSpec => []StreamIsWhereLeft
  <1>1. ObjectsInv => StreamIsWhereLeft
    BY DEF ObjectsInv, StreamInv
  <1> QED BY <1>1, ObjectsInvariant, PTL

\* A pointer leads to its target, wherever the stream has been moved since it was read.
THEOREM PointersLeadToTargets == ObjectsSpec => []FollowedIsTarget
  <1>1. ObjectsInv => FollowedIsTarget
    BY DEF ObjectsInv, ResultInv
  <1> QED BY <1>1, ObjectsInvariant, PTL

=============================================================================

--------------------------- MODULE AlgorithmsProofs ---------------------------
(***************************************************************************)
(* Theorems about the algorithms that share no state with the readers: the *)
(* coloured dumps of Hexdump, the readers of one field of Arrays, and the  *)
(* enums and flags of EnumFlag.                                            *)
(***************************************************************************)
EXTENDS Arrays, EnumFlag, Hexdump, WellFoundedInduction, TLAPS

-----------------------------------------------------------------------------
(* Numbers *)

LEMMA Divided ==
    ASSUME NEW a \in Int, NEW r \in Nat \ {0}
    PROVE  /\ a \div r \in Int
           /\ a % r \in 0 .. r - 1
           /\ a = r * (a \div r) + (a % r)
  OBVIOUS

LEMMA DividedOnce ==
    ASSUME NEW q \in Int, NEW r \in Nat \ {0}, NEW m \in 0 .. r - 1
    PROVE  (r * q + m) % r = m /\ (r * q + m) \div r = q
  <1> DEFINE a == r * q + m
             p == a \div r
             o == a % r
  <1>1. a \in Int /\ p \in Int /\ o \in 0 .. r - 1 /\ a = r * p + o
    BY Divided
  <1>2. r * q \in Int /\ r * p \in Int
    OBVIOUS
  <1> HIDE DEF p, o
  <1>3. CASE p > q
    <2>1. p - (q + 1) \in Nat
      BY <1>1, <1>3
    <2>2. r * (p - (q + 1)) >= 0
      BY <2>1
    <2>3. r * (p - (q + 1)) = r * p - r * q - r
      BY <1>1
    <2> QED BY <1>1, <1>2, <2>2, <2>3
  <1>4. CASE p < q
    <2>1. q - (p + 1) \in Nat
      BY <1>1, <1>4
    <2>2. r * (q - (p + 1)) >= 0
      BY <2>1
    <2>3. r * (q - (p + 1)) = r * q - r * p - r
      BY <1>1
    <2> QED BY <1>1, <1>2, <2>2, <2>3
  <1>5. CASE p = q
    BY <1>1, <1>2, <1>5 DEF p, o
  <1> QED BY <1>1, <1>3, <1>4, <1>5

\* The cell after the last one of a row is the first of the next.
LEMMA NextRow ==
    ASSUME NEW c \in Nat, NEW r \in Nat \ {0}
    PROVE  (c + 1) % r = 0 <=> c % r = r - 1
  <1> DEFINE q == c \div r
             m == c % r
  <1>1. q \in Int /\ m \in 0 .. r - 1 /\ c = r * q + m /\ r * q \in Int
    BY Divided
  <1> HIDE DEF q, m
  <1>2. CASE m = r - 1
    <2>1. c + 1 = r * (q + 1) + 0
      BY <1>1, <1>2
    <2>2. (r * (q + 1) + 0) % r = 0
      BY <1>1, DividedOnce
    <2> QED BY <1>2, <2>1, <2>2 DEF m
  <1>3. CASE m # r - 1
    <2>1. c + 1 = r * q + (m + 1) /\ m + 1 \in 0 .. r - 1
      BY <1>1, <1>3
    <2>2. (r * q + (m + 1)) % r = m + 1
      BY <1>1, <2>1, DividedOnce
    <2>3. m + 1 # 0
      BY <1>1
    <2> QED BY <1>3, <2>1, <2>2, <2>3 DEF m
  <1> QED BY <1>2, <1>3

\* A set of numbers that is not empty has a least one.
LEMMA Least ==
    ASSUME NEW T \in SUBSET Nat, T # {}
    PROVE  \E x \in T : \A y \in T : x <= y
  <1> DEFINE R == OpToRel(<, Nat)
  <1>1. IsWellFoundedOn(R, Nat)
    BY NatLessThanWellFounded
  <1>2. \E x \in T : \A y \in T : ~ (<<y, x>> \in R)
    <2> HIDE DEF R
    <2> QED BY <1>1, WFMin
  <1>3. \A x, y \in Nat : y < x => <<y, x>> \in R
    BY DEF OpToRel
  <1>4. PICK x \in T : \A y \in T : ~ (<<y, x>> \in R)
    BY <1>2
  <1>5. ASSUME NEW y \in T PROVE x <= y
    <2>1. x \in Nat /\ y \in Nat /\ ~ (y < x)
      BY <1>3, <1>4
    <2> QED BY <2>1
  <1> QED BY <1>5

\* The largest of a set of numbers, where there is one
LEMMA MaxIs ==
    ASSUME NEW S \in SUBSET Int, NEW x \in S, \A y \in S : x >= y
    PROVE  Max(S) = x
  <1>1. Max(S) \in S /\ \A y \in S : Max(S) >= y
    BY DEF Max
  <1>2. Max(S) \in Int /\ Max(S) >= x /\ x >= Max(S)
    BY <1>1
  <1> QED BY <1>2

-----------------------------------------------------------------------------
(* Coloured dumps *)

Hues == {Normal} \cup 0 .. Colours - 1

HexdumpTyped ==
    /\ sizes \in Seq(FieldSizes)
    /\ coloured \in BOOLEAN
    /\ length \in Nat
    /\ palette \in Seq(Nat \X (0 .. Colours - 1))
    /\ listed \in 0 .. Len(sizes)
    /\ cell \in 0 .. Cells
    /\ remaining \in Int
    /\ active \in Hues
    /\ terminal \in Hues
    /\ painted \in Seq(Hues \X Hues)
    /\ Len(painted) = IF cell < length THEN cell ELSE length

\* The fields whose turn has come: the palette holds the others that are listed.
Taken == listed - Len(palette)

(***************************************************************************)
(* The palette and the active entry are where the cell is: between two     *)
(* fields with no entry active, or in a field with its entry active and as *)
(* many bytes remaining as it still has.                                   *)
(***************************************************************************)
PaletteInStep ==
    /\ Taken \in 0 .. listed
    /\ listed < Len(sizes) => Taken = 0
    /\ \A k \in DOMAIN palette :
           palette[k] = <<sizes[Taken + k], (Taken + k - 1) % Colours>>
    /\ active = Normal => /\ cell >= Ends[Taken]
                          /\ Taken < Len(sizes) => cell = Ends[Taken]
    /\ active # Normal => /\ Taken > 0
                          /\ active = (Taken - 1) % Colours
                          /\ cell \in Ends[Taken - 1] + 1 .. Ends[Taken] - 1
                          /\ remaining = Ends[Taken] - cell

\* The inductive invariant of the dump
HexdumpInv ==
    Exact =>
      /\ coloured => PaletteInStep
      /\ ~coloured => palette = <<>> /\ active = Normal
      /\ terminal = IF cell % RowWidth = 0 THEN Normal ELSE active
      /\ \A b \in DOMAIN painted : painted[b] = <<OwnColour(b), OwnColour(b)>>

\* e is where the first n fields end.
EndsOf(e, n) == e = [k \in 0 .. n |-> IF k = 0 THEN 0 ELSE e[k - 1] + sizes[k]]

LEMMA EndsExist == \A n \in Nat : \E e : EndsOf(e, n)
  <1> DEFINE T == {n \in Nat : ~ \E e : EndsOf(e, n)}
  <1> SUFFICES ASSUME T # {} PROVE FALSE
    OBVIOUS
  <1>1. PICK n \in T : \A m \in T : n <= m
    BY Least
  <1>2. CASE n = 0
    <2>1. EndsOf([k \in 0 .. 0 |-> 0], 0)
      BY DEF EndsOf
    <2> QED BY <2>1, <1>2
  <1>3. CASE n > 0
    <2>1. n - 1 \in Nat /\ n - 1 \notin T
      BY <1>1, <1>3
    <2>2. PICK e : EndsOf(e, n - 1)
      BY <2>1
    <2> DEFINE h == [k \in 0 .. n |-> IF k = n THEN e[n - 1] + sizes[n] ELSE e[k]]
    <2>3. ASSUME NEW k \in 0 .. n
          PROVE  h[k] = IF k = 0 THEN 0 ELSE h[k - 1] + sizes[k]
      <3>1. CASE k = n
        BY <1>3, <2>1, <3>1
      <3>2. CASE k # n
        BY <1>3, <2>1, <2>2, <3>2 DEF EndsOf
      <3> QED BY <3>1, <3>2
    <2>4. EndsOf(h, n)
      BY <2>3 DEF EndsOf
    <2> QED BY <2>4
  <1> QED BY <1>2, <1>3

LEMMA EndsAre ==
    ASSUME sizes \in Seq(Nat)
    PROVE  /\ Ends = [k \in 0 .. Len(sizes) |-> Ends[k]]
           /\ Ends[0] = 0
           /\ \A k \in DOMAIN sizes : Ends[k] = Ends[k - 1] + sizes[k]
  <1> DEFINE P(e) == e = [k \in 0 .. Len(sizes) |-> IF k = 0 THEN 0 ELSE e[k - 1] + sizes[k]]
             c == CHOOSE e : P(e)
  <1>1. \E e : P(e)
    BY EndsExist DEF EndsOf
  <1>2. P(c)
    <2> HIDE DEF P
    <2> QED BY <1>1
  <1>3. Ends = c
    BY DEF Ends
  <1>4. Ends = [k \in 0 .. Len(sizes) |-> IF k = 0 THEN 0 ELSE Ends[k - 1] + sizes[k]]
    BY <1>2, <1>3
  <1> QED BY <1>4

\* Fields that have a byte at least end one after the other.
LEMMA EndsAscend ==
    ASSUME sizes \in Seq(Nat \ {0})
    PROVE  /\ Ends \in [0 .. Len(sizes) -> Nat]
           /\ \A j, k \in 0 .. Len(sizes) : j < k => Ends[j] < Ends[k]
  <1> DEFINE n == Len(sizes)
             Good(k) == /\ Ends[k] \in Nat
                        /\ \A j \in 0 .. k - 1 : Ends[j] < Ends[k]
             T == {k \in 0 .. n : ~ Good(k)}
  <1>1. /\ Ends = [k \in 0 .. n |-> Ends[k]] /\ Ends[0] = 0 /\ n \in Nat
        /\ \A k \in 1 .. n : Ends[k] = Ends[k - 1] + sizes[k] /\ sizes[k] \in Nat \ {0}
    BY EndsAre
  <1>2. T = {}
    <2> SUFFICES ASSUME T # {} PROVE FALSE
      OBVIOUS
    <2>1. PICK k \in T : \A m \in T : k <= m
      <3>1. T \in SUBSET Nat
        BY <1>1
      <3> HIDE DEF T
      <3> QED BY <3>1, Least
    <2>2. k \in 1 .. n
      BY <1>1, <2>1
    <2>3. k - 1 \in 0 .. n /\ Good(k - 1)
      <3>1. k - 1 \in 0 .. n /\ k \in Int
        BY <1>1, <2>2
      <3>2. k - 1 \notin T
        <4> HIDE DEF T
        <4> QED BY <2>1, <3>1
      <3> QED BY <3>1, <3>2
    <2>4. Ends[k] = Ends[k - 1] + sizes[k] /\ sizes[k] \in Nat \ {0}
      BY <1>1, <2>2
    <2>5. Ends[k] \in Nat /\ Ends[k - 1] < Ends[k]
      BY <2>3, <2>4
    <2>6. ASSUME NEW j \in 0 .. k - 1 PROVE Ends[j] < Ends[k]
      <3>1. CASE j = k - 1
        BY <2>5, <3>1
      <3>2. CASE j # k - 1
        <4>1. j \in 0 .. (k - 1) - 1
          BY <3>2
        <4>2. Ends[j] < Ends[k - 1]
          BY <2>3, <4>1
        <4>3. Ends[j] \in Nat
          <5>1. j \in 0 .. n /\ j \notin T
            BY <2>1, <4>1
          <5> QED BY <5>1
        <4> QED BY <2>3, <2>5, <4>2, <4>3
      <3> QED BY <3>1, <3>2
    <2> QED BY <2>1, <2>5, <2>6
  <1>3. \A k \in 0 .. n : Good(k)
    BY <1>2
  <1>4. Ends \in [0 .. n -> Nat]
    BY <1>1, <1>3
  <1> QED BY <1>3, <1>4

\* A byte of a field has the colour of the field, and one after the last field none.
LEMMA OwnColourIs ==
    ASSUME sizes \in Seq(Nat \ {0}), NEW b \in Nat \ {0}
    PROVE  /\ \A k \in DOMAIN sizes :
                  Ends[k - 1] < b /\ b <= Ends[k]
                  => OwnColour(b) = IF coloured THEN (k - 1) % Colours ELSE Normal
           /\ Ends[Len(sizes)] < b => OwnColour(b) = Normal
  <1> DEFINE n == Len(sizes)
  <1>1. /\ Ends \in [0 .. n -> Nat] /\ n \in Nat /\ DOMAIN sizes = 1 .. n
        /\ \A j, k \in 0 .. n : j < k => Ends[j] < Ends[k]
    BY EndsAscend
  <1> HIDE DEF n
  <1>2. ASSUME NEW k \in 1 .. n, Ends[k - 1] < b, b <= Ends[k]
        PROVE  OwnColour(b) = IF coloured THEN (k - 1) % Colours ELSE Normal
    <2>1. ASSUME NEW j \in 1 .. n, Ends[j - 1] < b, b <= Ends[j]
          PROVE  j = k
      <3>1. j - 1 \in 0 .. n /\ k - 1 \in 0 .. n /\ j \in 0 .. n /\ k \in 0 .. n
        BY <1>1
      <3>2. CASE j < k
        <4>1. j = k - 1 \/ j < k - 1
          BY <3>2
        <4>2. Ends[j] <= Ends[k - 1]
          BY <1>1, <3>1, <4>1
        <4> QED BY <1>1, <1>2, <2>1, <3>1, <4>2
      <3>3. CASE k < j
        <4>1. k = j - 1 \/ k < j - 1
          BY <1>1, <3>3
        <4>2. Ends[k] <= Ends[j - 1]
          <5>1. Ends[k] \in Nat /\ Ends[j - 1] \in Nat
            BY <1>1, <3>1
          <5>2. CASE k < j - 1
            BY <1>1, <3>1, <5>1, <5>2
          <5>3. CASE k = j - 1
            BY <5>1, <5>3
          <5> QED BY <4>1, <5>2, <5>3
        <4> QED BY <1>1, <1>2, <2>1, <3>1, <4>2
      <3> QED BY <1>1, <3>2, <3>3
    <2>2. Owners(b) = {k}
      <3>1. k \in Owners(b)
        BY <1>1, <1>2 DEF Owners
      <3>2. \A j \in Owners(b) : j = k
        BY <1>1, <2>1 DEF Owners
      <3> QED BY <3>1, <3>2
    <2>3. Max({k}) = k
      BY MaxIs
    <2> QED BY <2>2, <2>3 DEF OwnColour
  <1>3. ASSUME Ends[n] < b PROVE OwnColour(b) = Normal
    <2>1. ASSUME NEW j \in Owners(b) PROVE FALSE
      <3>1. j \in 1 .. n /\ b <= Ends[j]
        BY <1>1, <2>1 DEF Owners
      <3>2. j = n \/ j < n
        BY <1>1, <3>1
      <3>3. Ends[j] <= Ends[n]
        BY <1>1, <3>1, <3>2
      <3> QED BY <1>1, <1>3, <3>1, <3>3
    <2>2. Owners(b) = {}
      BY <2>1
    <2> QED BY <2>2 DEF OwnColour
  <1> QED BY <1>1, <1>2, <1>3 DEF n

-----------------------------------------------------------------------------

\* What the assumptions on the constants give a state that is typed
LEMMA HexdumpNumbers ==
    ASSUME HexdumpTyped
    PROVE  /\ RowWidth \in Nat \ {0} /\ Colours \in Nat \ {0}
           /\ Normal \notin 0 .. Colours - 1
           /\ \A k \in Int : k % Colours \in 0 .. Colours - 1
           /\ Len(sizes) \in Nat /\ DOMAIN sizes = 1 .. Len(sizes)
           /\ listed \in Nat /\ cell \in Nat /\ Cells \in Int /\ cell <= Cells
           /\ Len(painted) \in Nat /\ DOMAIN painted = 1 .. Len(painted)
           /\ Len(palette) \in Nat /\ DOMAIN palette = 1 .. Len(palette)
  <1>1. RowWidth \in Nat \ {0} /\ Colours \in Nat \ {0} /\ Normal \notin Nat
    BY HexdumpAssumption
  <1>2. Cells \in Int
    <2>1. (length + RowWidth - 1) \div RowWidth \in Int
      BY <1>1, Divided DEF HexdumpTyped
    <2> QED BY <1>1, <2>1 DEF Cells
  <1>3. \A k \in Int : k % Colours \in 0 .. Colours - 1
    BY <1>1, Divided
  <1>4. Normal \notin 0 .. Colours - 1
    BY <1>1
  <1>5. /\ Len(sizes) \in Nat /\ DOMAIN sizes = 1 .. Len(sizes)
        /\ Len(painted) \in Nat /\ DOMAIN painted = 1 .. Len(painted)
        /\ Len(palette) \in Nat /\ DOMAIN palette = 1 .. Len(palette)
    BY DEF HexdumpTyped
  <1>6. listed \in Nat /\ cell \in Nat /\ cell <= Cells
    BY <1>2, <1>5 DEF HexdumpTyped
  <1> QED BY <1>1, <1>2, <1>3, <1>4, <1>5, <1>6

LEMMA HexdumpTypesInit == HexdumpInit => HexdumpTyped
  <1> SUFFICES ASSUME HexdumpInit PROVE HexdumpTyped
    OBVIOUS
  <1>1. sizes \in Seq(FieldSizes) /\ length \in Nat /\ coloured \in BOOLEAN
    <2>1. PICK n \in 0 .. MaxListed : sizes \in [1 .. n -> FieldSizes]
      BY DEF HexdumpInit
    <2> QED BY <2>1, HexdumpAssumption DEF HexdumpInit
  <1>2. Cells \in Nat
    <2> DEFINE q == (length + RowWidth - 1) \div RowWidth
    <2>1. RowWidth \in Nat \ {0}
      BY HexdumpAssumption
    <2>2. q \in Nat
      BY <1>1, <2>1
    <2> HIDE DEF q
    <2>3. q * RowWidth \in Nat
      BY <2>1, <2>2
    <2> QED BY <2>3 DEF Cells, q
  <1> QED BY <1>1, <1>2 DEF HexdumpInit, HexdumpTyped, Hues

LEMMA HexdumpTypesStep ==
    ASSUME HexdumpTyped, [HexdumpNext]_hexdumpVars
    PROVE  HexdumpTyped'
  <1>1. CASE ListField
    <2>1. listed + 1 \in 1 .. Len(sizes) /\ listed \in Nat
      BY <1>1 DEF ListField, HexdumpTyped
    <2>2. coloured => /\ sizes[listed + 1] \in Nat
                      /\ listed % Colours \in 0 .. Colours - 1
      <3>1. sizes[listed + 1] \in FieldSizes
        BY <2>1 DEF HexdumpTyped
      <3>2. listed % Colours \in 0 .. Colours - 1
        <4>1. Colours \in Nat \ {0} /\ listed \in Int
          BY <2>1, HexdumpAssumption
        <4> QED BY <4>1, Divided
      <3>3. coloured => sizes[listed + 1] \in Nat
        BY <1>1, <3>1, HexdumpAssumption DEF ListField
      <3> QED BY <3>2, <3>3
    <2>3. palette' \in Seq(Nat \X (0 .. Colours - 1))
      BY <1>1, <2>2 DEF ListField, HexdumpTyped
    <2> QED BY <1>1, <2>1, <2>3 DEF ListField, HexdumpTyped, Cells, Hues
  <1>2. ASSUME Dumping
        PROVE  /\ cell' \in 0 .. Cells' /\ cell' = cell + 1
               /\ palette' \in Seq(Nat \X (0 .. Colours - 1))
               /\ EntryActive \in Hues
               /\ EntryRemaining \in Int
               /\ CellColour \in Hues
    <2>1. cell' \in 0 .. Cells' /\ cell' = cell + 1
      <3>1. Cells' = Cells
        BY <1>2 DEF Dumping, Cells
      <3>2. cell \in Nat /\ Cells \in Int
        BY HexdumpNumbers
      <3> QED BY <1>2, <3>1, <3>2 DEF Dumping
    <2>2. palette' \in Seq(Nat \X (0 .. Colours - 1))
      BY <1>2 DEF Dumping, NextEntry, HexdumpTyped
    <2>3. palette # <<>> => Head(palette) \in Nat \X (0 .. Colours - 1)
      BY DEF HexdumpTyped
    <2>4. EntryActive \in Hues /\ EntryRemaining \in Int
      BY <2>3 DEF EntryActive, EntryRemaining, NextEntry, HexdumpTyped, Hues
    <2> QED BY <2>1, <2>2, <2>4 DEF CellColour, HexdumpTyped
  <1>3. CASE PaintByte
    <2>1. painted' \in Seq(Hues \X Hues) /\ Len(painted') = Len(painted) + 1
      BY <1>2, <1>3 DEF PaintByte, HexdumpTyped
    <2>2. remaining' \in Int /\ active' \in Hues /\ terminal' \in Hues
      BY <1>2, <1>3 DEF PaintByte, Hues
    <2>3. Len(painted') = IF cell' < length' THEN cell' ELSE length'
      BY <1>2, <1>3, <2>1, HexdumpNumbers DEF PaintByte, Dumping, HexdumpTyped
    <2> QED BY <1>2, <1>3, <2>1, <2>2, <2>3 DEF PaintByte, Dumping, HexdumpTyped, Hues
  <1>4. CASE PadCell
    <2>1. remaining' \in Int /\ active' \in Hues /\ terminal' \in Hues
      BY <1>2, <1>4 DEF PadCell, Hues
    <2>2. Len(painted') = IF cell' < length' THEN cell' ELSE length'
      BY <1>2, <1>4, HexdumpNumbers DEF PadCell, Dumping, HexdumpTyped
    <2> QED BY <1>2, <1>4, <2>1, <2>2 DEF PadCell, Dumping, HexdumpTyped, Hues
  <1>5. CASE UNCHANGED hexdumpVars
    BY <1>5 DEF hexdumpVars, HexdumpTyped, Cells, Hues
  <1> QED BY <1>1, <1>3, <1>4, <1>5 DEF HexdumpNext

\* What a structure has whose fields are all in the data
LEMMA ExactNumbers ==
    ASSUME HexdumpTyped, Exact
    PROVE  /\ sizes \in Seq(Nat \ {0})
           /\ Ends \in [0 .. Len(sizes) -> Nat]
           /\ Ends[0] = 0
           /\ \A k \in DOMAIN sizes : Ends[k] = Ends[k - 1] + sizes[k]
           /\ \A j, k \in 0 .. Len(sizes) : j < k => Ends[j] < Ends[k]
           /\ Ends[Len(sizes)] <= length
  <1>1. sizes \in Seq(Nat \ {0})
    <2>1. \A k \in DOMAIN sizes : sizes[k] \in FieldSizes
      BY DEF HexdumpTyped
    <2>2. \A k \in DOMAIN sizes : sizes[k] \in Nat \ {0}
      BY <2>1, HexdumpAssumption DEF Exact
    <2> QED BY <2>2 DEF HexdumpTyped
  <1>2. sizes \in Seq(Nat)
    BY <1>1
  <1> QED BY <1>1, <1>2, EndsAre, EndsAscend DEF Exact

LEMMA HexdumpInvInit == HexdumpInit => HexdumpInv
  <1> SUFFICES ASSUME HexdumpInit, Exact PROVE HexdumpInv
    BY DEF HexdumpInv
  <1>1. HexdumpTyped
    BY HexdumpTypesInit
  <1>2. PaletteInStep
    <2>1. Taken = 0 /\ listed = 0
      <3>1. palette = <<>> /\ listed = 0
        BY DEF HexdumpInit
      <3>2. Len(palette) = 0
        BY <3>1
      <3>3. listed = 0 /\ 0 - 0 = 0
        BY <3>1
      <3>4. Taken = listed - Len(palette)
        BY DEF Taken
      <3>5. Taken = 0
        BY <3>2, <3>3, <3>4
      <3> QED BY <3>3, <3>5
    <2>2. Ends[0] = 0 /\ cell = 0
      BY <1>1, ExactNumbers DEF HexdumpInit
    <2>3. palette = <<>> /\ active = Normal
      BY DEF HexdumpInit
    <2> QED BY <2>1, <2>2, <2>3 DEF PaletteInStep
  <1> QED BY <1>2 DEF HexdumpInit, HexdumpInv

\* The fields are those of the state before.
LEMMA SameFields ==
    ASSUME UNCHANGED <<sizes, coloured, length>>
    PROVE  /\ Exact' <=> Exact
           /\ Ends' = Ends
           /\ \A b : OwnColour(b)' = OwnColour(b)
  <1>1. Ends' = Ends
    BY DEF Ends
  <1>2. \A b : Owners(b)' = Owners(b)
    BY <1>1 DEF Owners
  <1> QED BY <1>1, <1>2 DEF Exact, OwnColour

LEMMA ListFieldStep ==
    ASSUME HexdumpTyped, HexdumpInv, Exact, ListField
    PROVE  HexdumpInv'
  <1>1. /\ UNCHANGED <<sizes, coloured, length, cell, active, remaining, terminal, painted>>
        /\ listed' = listed + 1
        /\ listed < Len(sizes)
        /\ palette' = IF coloured
                      THEN Append(palette, <<sizes[listed + 1], listed % Colours>>)
                      ELSE palette
    BY DEF ListField
  <1>2. /\ coloured => PaletteInStep
        /\ ~coloured => palette = <<>> /\ active = Normal
        /\ terminal = IF cell % RowWidth = 0 THEN Normal ELSE active
        /\ \A b \in DOMAIN painted : painted[b] = <<OwnColour(b), OwnColour(b)>>
    BY DEF HexdumpInv
  <1>3. Ends' = Ends /\ \A b : OwnColour(b)' = OwnColour(b)
    BY <1>1, SameFields
  <1>4. ASSUME coloured PROVE PaletteInStep'
    <2>1. Taken = 0 /\ Len(palette) = listed /\ listed \in Nat
      <3>1. listed < Len(sizes) => Taken = 0
        BY <1>2, <1>4 DEF PaletteInStep
      <3>2. Taken = 0
        BY <1>1, <3>1
      <3>3. listed \in Nat /\ Len(palette) \in Nat
        BY HexdumpNumbers
      <3> QED BY <3>2, <3>3 DEF Taken
    <2>2. /\ Len(palette') = listed + 1
          /\ \A k \in 1 .. listed : palette'[k] = palette[k]
          /\ palette'[listed + 1] = <<sizes[listed + 1], listed % Colours>>
          /\ DOMAIN palette' = 1 .. listed + 1
      BY <1>1, <1>4, <2>1 DEF HexdumpTyped
    <2>3. Taken' = 0
      BY <1>1, <2>1, <2>2 DEF Taken
    <2>4. ASSUME NEW k \in 1 .. listed + 1
          PROVE  palette'[k] = <<sizes[k], (k - 1) % Colours>>
      <3>1. CASE k = listed + 1
        BY <2>1, <2>2, <3>1
      <3>2. CASE k # listed + 1
        <4>1. k \in 1 .. listed /\ k \in DOMAIN palette
          BY <2>1, <3>2, HexdumpNumbers
        <4>2. palette[k] = <<sizes[0 + k], (0 + k - 1) % Colours>> /\ 0 + k = k
          BY <1>2, <1>4, <2>1, <4>1 DEF PaletteInStep
        <4> QED BY <2>2, <4>1, <4>2
      <3> QED BY <3>1, <3>2
    <2>5. \A k \in DOMAIN palette' :
              palette'[k] = <<sizes'[Taken' + k], (Taken' + k - 1) % Colours>>
      <3> SUFFICES ASSUME NEW k \in 1 .. listed + 1
                   PROVE  palette'[k] = <<sizes'[0 + k], (0 + k - 1) % Colours>>
        BY <2>2, <2>3
      <3>1. 0 + k = k
        BY <2>1
      <3>2. palette'[k] = <<sizes[k], (k - 1) % Colours>> /\ sizes' = sizes
        BY <1>1, <2>4
      <3> QED BY <3>1, <3>2
    <2>6. active = Normal /\ cell = Ends[0]
      BY <1>1, <1>2, <1>4, <2>1 DEF PaletteInStep
    <2>7. Ends[0] \in Nat
      BY ExactNumbers
    <2> QED BY <1>1, <1>3, <2>1, <2>3, <2>5, <2>6, <2>7 DEF PaletteInStep
  <1> QED BY <1>1, <1>2, <1>3, <1>4 DEF HexdumpInv

(***************************************************************************)
(* What a cell finds, whose number is cell + 1: its own colour is that of  *)
(* the active entry, or of the next one if none is active, and the text is *)
(* switched to it.  A new entry has the bytes of its field remaining.      *)
(***************************************************************************)
LEMMA CellFinds ==
    ASSUME HexdumpTyped, HexdumpInv, Exact, Dumping
    PROVE  /\ EntryActive = OwnColour(cell + 1)
           /\ CellColour = EntryActive
           /\ EntryActive # Normal => cell < length
           /\ coloured =>
                /\ Taken' \in 0 .. listed'
                /\ \A k \in DOMAIN palette' :
                       palette'[k] = <<sizes[Taken' + k], (Taken' + k - 1) % Colours>>
                /\ EntryActive = Normal => Taken' = Len(sizes) /\ cell >= Ends[Taken']
                /\ EntryActive # Normal =>
                     /\ Taken' > 0
                     /\ EntryActive = (Taken' - 1) % Colours
                     /\ cell \in Ends[Taken' - 1] .. Ends[Taken'] - 1
                     /\ EntryRemaining = Ends[Taken'] - cell
           /\ ~coloured => palette' = <<>> /\ EntryActive = Normal
  <1> DEFINE n == Len(sizes)
  <1>1. /\ UNCHANGED <<sizes, coloured, length, listed>>
        /\ listed = n
        /\ palette' = IF NextEntry THEN Tail(palette) ELSE palette
    BY DEF Dumping
  <1>2. /\ coloured => PaletteInStep
        /\ ~coloured => palette = <<>> /\ active = Normal
        /\ terminal = IF cell % RowWidth = 0 THEN Normal ELSE active
    BY DEF HexdumpInv
  <1>3. /\ n \in Nat /\ cell \in Nat /\ DOMAIN sizes = 1 .. n
        /\ Ends \in [0 .. n -> Nat]
        /\ \A k \in 1 .. n : Ends[k] = Ends[k - 1] + sizes[k] /\ sizes[k] \in Nat \ {0}
        /\ \A j, k \in 0 .. n : j < k => Ends[j] < Ends[k]
        /\ Ends[n] <= length /\ length \in Nat
        /\ sizes \in Seq(Nat \ {0})
    <2>1. n \in Nat /\ cell \in Nat /\ DOMAIN sizes = 1 .. n
      BY HexdumpNumbers
    <2>2. /\ Ends \in [0 .. n -> Nat]
          /\ \A k \in 1 .. n : Ends[k] = Ends[k - 1] + sizes[k]
          /\ \A j, k \in 0 .. n : j < k => Ends[j] < Ends[k]
          /\ Ends[n] <= length
          /\ sizes \in Seq(Nat \ {0})
      BY <2>1, ExactNumbers
    <2>3. \A k \in 1 .. n : sizes[k] \in Nat \ {0}
      BY <2>2
    <2>4. length \in Nat
      BY DEF HexdumpTyped
    <2> HIDE DEF n
    <2> QED BY <2>1, <2>2, <2>3, <2>4
  <1>0. cell \in Nat
    BY <1>3
  <1>4. \A k \in 1 .. n : (k - 1) % Colours \in 0 .. Colours - 1 /\ (k - 1) % Colours # Normal
    <2> HIDE DEF n
    <2> TAKE k \in 1 .. n
    <2>1. k - 1 \in Int
      BY <1>3
    <2>2. \A j \in Int : j % Colours \in 0 .. Colours - 1
      BY HexdumpNumbers
    <2>3. (k - 1) % Colours \in 0 .. Colours - 1
      BY <2>1, <2>2
    <2> QED BY <2>3, HexdumpNumbers
  <1>5. CellColour = EntryActive
    BY <1>2 DEF CellColour, EntryActive, NextEntry
  <1>6. ASSUME ~coloured
        PROVE  palette' = <<>> /\ EntryActive = Normal /\ OwnColour(cell + 1) = Normal
    BY <1>1, <1>2, <1>6 DEF EntryActive, NextEntry, OwnColour
  <1> HIDE DEF n
  <1>7. CASE coloured /\ NextEntry
    <2>1. /\ active = Normal /\ palette # <<>> /\ palette' = Tail(palette)
          /\ EntryActive = palette[1][2] /\ EntryRemaining = palette[1][1]
      BY <1>1, <1>7 DEF NextEntry, EntryActive, EntryRemaining
    <2>2. /\ Len(palette) > 0 /\ 1 \in DOMAIN palette
          /\ Len(palette') = Len(palette) - 1 /\ DOMAIN palette' = 1 .. Len(palette) - 1
          /\ \A k \in 1 .. Len(palette) - 1 : palette'[k] = palette[k + 1]
      BY <2>1 DEF HexdumpTyped
    <2>3. /\ Taken \in Nat /\ Taken + 1 <= n /\ Taken' = Taken + 1
          /\ Len(palette) \in Nat /\ DOMAIN palette = 1 .. Len(palette)
      <3>1. Len(palette) \in Nat /\ DOMAIN palette = 1 .. Len(palette)
        BY HexdumpNumbers
      <3>2. Taken = n - Len(palette)
        BY <1>1 DEF Taken
      <3>3. Taken' = n - Len(palette')
        BY <1>1 DEF Taken
      <3>4. Taken \in 0 .. n
        BY <1>1, <1>2, <1>7 DEF PaletteInStep
      <3> QED BY <1>3, <2>2, <3>1, <3>2, <3>3, <3>4
    <2>4. palette[1] = <<sizes[Taken + 1], (Taken + 1 - 1) % Colours>>
      BY <1>2, <1>7, <2>2 DEF PaletteInStep
    <2>5. cell = Ends[Taken]
      BY <1>1, <1>2, <1>3, <1>7, <2>1, <2>3 DEF PaletteInStep, n
    <2>6. /\ Taken + 1 \in 1 .. n /\ Taken + 1 - 1 = Taken
          /\ Ends[Taken + 1] = Ends[Taken] + sizes[Taken + 1]
          /\ sizes[Taken + 1] \in Nat \ {0}
          /\ Ends[Taken + 1] \in Nat
      BY <1>3, <2>3
    <2>7. /\ EntryActive = (Taken' - 1) % Colours /\ EntryActive # Normal
          /\ EntryRemaining = Ends[Taken'] - cell
          /\ cell \in Ends[Taken' - 1] .. Ends[Taken'] - 1
      <3>1. EntryActive = (Taken + 1 - 1) % Colours /\ EntryRemaining = sizes[Taken + 1]
        BY <2>1, <2>4
      <3>2. EntryActive # Normal
        <4> DEFINE k == Taken + 1
        <4>1. k \in 1 .. n
          BY <2>6
        <4>2. k - 1 = Taken + 1 - 1
          BY <2>3
        <4>3. EntryActive = (k - 1) % Colours
          <5> HIDE DEF k
          <5> QED BY <3>1, <4>2
        <4> HIDE DEF k
        <4> QED BY <1>4, <4>1, <4>3
      <3>3. sizes[Taken + 1] = Ends[Taken + 1] - cell
        BY <1>0, <2>5, <2>6
      <3>4. cell \in Ends[Taken + 1 - 1] .. Ends[Taken + 1] - 1
        BY <1>0, <2>5, <2>6
      <3> QED BY <2>3, <3>1, <3>2, <3>3, <3>4
    <2>8. cell < length
      <3>1. Ends[Taken + 1] <= Ends[n]
        <4>1. Taken + 1 = n \/ Taken + 1 < n
          BY <1>3, <2>3
        <4> QED BY <1>3, <2>6, <4>1
      <3>2. Ends[n] \in Nat
        BY <1>3
      <3> QED BY <1>3, <2>3, <2>6, <2>7, <3>1, <3>2
    <2>9. OwnColour(cell + 1) = EntryActive
      <3>1. cell + 1 \in Nat \ {0}
        BY <1>3
      <3>2. Ends[(Taken + 1) - 1] < cell + 1 /\ cell + 1 <= Ends[Taken + 1]
        <4>1. Taken \in Nat /\ (Taken + 1) - 1 = Taken
          BY <2>3
        <4>2. Ends[Taken] < cell + 1
          BY <1>0, <2>5
        <4>3. cell + 1 <= Ends[Taken + 1]
          BY <1>0, <2>5, <2>6
        <4> QED BY <4>1, <4>2, <4>3
      <3>3. OwnColour(cell + 1) = ((Taken + 1) - 1) % Colours
        BY <1>3, <1>7, <2>6, <3>1, <3>2, OwnColourIs
      <3> QED BY <2>3, <2>7, <3>3
    <2>10. ASSUME NEW k \in DOMAIN palette'
           PROVE  palette'[k] = <<sizes[Taken' + k], (Taken' + k - 1) % Colours>>
      <3>1. k \in Nat /\ k + 1 \in DOMAIN palette /\ palette'[k] = palette[k + 1]
        BY <2>2, <2>3
      <3>2. palette[k + 1] = <<sizes[Taken + (k + 1)], (Taken + (k + 1) - 1) % Colours>>
        BY <1>2, <1>7, <3>1 DEF PaletteInStep
      <3>3. Taken' + k = Taken + (k + 1)
        BY <2>3, <3>1
      <3>4. Taken' + k - 1 = Taken + (k + 1) - 1
        BY <2>3, <3>1
      <3> QED BY <3>1, <3>2, <3>3, <3>4
    <2> QED BY <1>1, <1>3, <1>5, <1>7, <2>3, <2>7, <2>8, <2>9, <2>10 DEF n
  <1>8. CASE coloured /\ ~NextEntry
    <2>1. /\ palette' = palette /\ Taken' = Taken
          /\ EntryActive = active /\ EntryRemaining = remaining
          /\ active = Normal => palette = <<>>
      BY <1>1, <1>8 DEF NextEntry, EntryActive, EntryRemaining, Taken
    <2>2. /\ Taken \in 0 .. n
          /\ \A k \in DOMAIN palette' :
                 palette'[k] = <<sizes[Taken' + k], (Taken' + k - 1) % Colours>>
      BY <1>1, <1>2, <1>8, <2>1 DEF PaletteInStep
    <2>3. CASE active = Normal
      <3>1. Len(palette) = 0
        BY <2>1, <2>3
      <3>2. Taken = n /\ cell >= Ends[n]
        BY <1>1, <1>2, <1>3, <1>8, <2>3, <3>1 DEF PaletteInStep, Taken
      <3>3. cell + 1 \in Nat \ {0} /\ Ends[n] < cell + 1
        BY <1>3, <3>2
      <3>4. OwnColour(cell + 1) = Normal
        BY <1>3, <3>3, OwnColourIs DEF n
      <3> QED BY <1>1, <1>5, <1>8, <2>1, <2>2, <2>3, <3>2, <3>4 DEF n
    <2>4. CASE active # Normal
      <3>1. /\ Taken > 0 /\ active = (Taken - 1) % Colours
            /\ cell \in Ends[Taken - 1] + 1 .. Ends[Taken] - 1
            /\ remaining = Ends[Taken] - cell
        BY <1>2, <1>8, <2>4 DEF PaletteInStep
      <3>2. /\ Taken \in 1 .. n /\ Ends[Taken] \in Nat /\ Ends[Taken - 1] \in Nat
            /\ Ends[Taken] <= Ends[n] /\ Ends[n] \in Nat
        <4>1. Taken = n \/ Taken < n
          BY <1>3, <2>2
        <4>2. Taken \in 1 .. n /\ Taken \in 0 .. n /\ Taken - 1 \in 0 .. n /\ n \in 0 .. n
          BY <1>3, <2>2, <3>1
        <4> QED BY <1>3, <4>1, <4>2
      <3>3. cell < length
        BY <1>3, <3>1, <3>2
      <3>4. cell \in Ends[Taken - 1] .. Ends[Taken] - 1
        BY <1>3, <3>1, <3>2
      <3>5. OwnColour(cell + 1) = (Taken - 1) % Colours
        <4>1. cell + 1 \in Nat \ {0}
          BY <1>3
        <4>2. Ends[Taken - 1] < cell + 1 /\ cell + 1 <= Ends[Taken]
          BY <1>0, <3>1, <3>2
        <4> QED BY <1>3, <1>8, <3>2, <4>1, <4>2, OwnColourIs
      <3> QED BY <1>1, <1>5, <1>8, <2>1, <2>2, <2>4, <3>1, <3>3, <3>4, <3>5 DEF n
    <2> QED BY <2>3, <2>4
  <1>9. CASE ~coloured
    BY <1>5, <1>6, <1>9
  <1> QED BY <1>7, <1>8, <1>9, HexdumpNumbers DEF HexdumpTyped

LEMMA PaintByteStep ==
    ASSUME HexdumpTyped, HexdumpInv, Exact, PaintByte
    PROVE  HexdumpInv'
  <1>1. /\ Dumping /\ cell < length
        /\ painted' = Append(painted, <<CellColour, EntryActive>>)
        /\ remaining' = EntryRemaining - 1
        /\ active' = IF remaining' = 0 THEN Normal ELSE EntryActive
        /\ terminal' = IF remaining' = 0 \/ LastOfRow THEN Normal ELSE CellColour
    BY DEF PaintByte
  <1>2. /\ sizes' = sizes /\ coloured' = coloured /\ length' = length /\ listed' = listed
        /\ listed = Len(sizes) /\ cell' = cell + 1
    BY <1>1 DEF Dumping
  <1>3. /\ EntryActive = OwnColour(cell + 1)
        /\ CellColour = EntryActive
        /\ coloured =>
             /\ Taken' \in 0 .. listed'
             /\ \A k \in DOMAIN palette' :
                    palette'[k] = <<sizes[Taken' + k], (Taken' + k - 1) % Colours>>
             /\ EntryActive = Normal => Taken' = Len(sizes) /\ cell >= Ends[Taken']
             /\ EntryActive # Normal =>
                  /\ Taken' > 0
                  /\ EntryActive = (Taken' - 1) % Colours
                  /\ cell \in Ends[Taken' - 1] .. Ends[Taken'] - 1
                  /\ EntryRemaining = Ends[Taken'] - cell
        /\ ~coloured => palette' = <<>> /\ EntryActive = Normal
    BY <1>1, CellFinds
  <1>4. Ends' = Ends /\ \A b : OwnColour(b)' = OwnColour(b)
    BY <1>2, SameFields
  <1>5. cell \in Nat /\ Len(sizes) \in Nat /\ Ends \in [0 .. Len(sizes) -> Nat]
        /\ RowWidth \in Nat \ {0}
    BY HexdumpNumbers, ExactNumbers
  <1>6. ASSUME coloured PROVE PaletteInStep'
    <2>1. /\ Taken' \in 0 .. listed' /\ listed' = Len(sizes')
          /\ \A k \in DOMAIN palette' :
                 palette'[k] = <<sizes'[Taken' + k], (Taken' + k - 1) % Colours>>
      BY <1>2, <1>3, <1>6
    <2>2. Taken' \in Nat /\ Ends[Taken'] \in Nat
      BY <1>2, <1>5, <2>1
    <2>3. CASE EntryActive = Normal
      <3>1. active' = Normal /\ Taken' = Len(sizes) /\ cell >= Ends[Taken']
        BY <1>1, <1>3, <1>6, <2>3
      <3>2. cell' >= Ends[Taken']
        BY <1>2, <1>5, <2>2, <3>1
      <3> QED BY <1>2, <1>4, <1>5, <2>1, <3>1, <3>2 DEF PaletteInStep
    <2>4. CASE EntryActive # Normal
      <3>1. /\ Taken' > 0
            /\ EntryActive = (Taken' - 1) % Colours
            /\ cell \in Ends[Taken' - 1] .. Ends[Taken'] - 1
            /\ EntryRemaining = Ends[Taken'] - cell
        BY <1>3, <1>6, <2>4
      <3>2. Ends[Taken' - 1] \in Nat
        BY <1>2, <1>5, <2>1, <2>2, <3>1
      <3>3. remaining' = Ends[Taken'] - cell'
        BY <1>1, <1>2, <1>5, <2>2, <3>1
      <3>4. CASE remaining' = 0
        <4>1. active' = Normal /\ cell' = Ends[Taken']
          <5>1. active' = Normal
            BY <1>1, <3>4
          <5>2. cell' \in Nat /\ Ends[Taken'] - cell' = 0
            BY <1>2, <1>5, <3>3, <3>4
          <5> QED BY <2>2, <5>1, <5>2
        <4>2. cell' >= Ends[Taken']
          BY <2>2, <4>1
        <4> QED BY <1>4, <2>1, <2>2, <4>1, <4>2 DEF PaletteInStep
      <3>5. CASE remaining' # 0
        <4>1. active' = EntryActive
          BY <1>1, <3>5
        <4>2. cell' \in Ends[Taken' - 1] + 1 .. Ends[Taken'] - 1
          BY <1>2, <1>5, <2>2, <3>1, <3>2, <3>3, <3>5
        <4> QED BY <1>4, <2>1, <2>4, <3>1, <3>3, <4>1, <4>2 DEF PaletteInStep
      <3> QED BY <3>4, <3>5
    <2> QED BY <2>3, <2>4
  <1>7. ASSUME ~coloured PROVE palette' = <<>> /\ active' = Normal
    BY <1>1, <1>3, <1>7
  <1>8. terminal' = IF cell' % RowWidth = 0 THEN Normal ELSE active'
    <2>1. cell' % RowWidth = 0 <=> LastOfRow
      BY <1>2, <1>5, NextRow DEF LastOfRow
    <2> QED BY <1>1, <1>3, <2>1
  <1>9. ASSUME NEW b \in DOMAIN painted'
        PROVE  painted'[b] = <<OwnColour(b)', OwnColour(b)'>>
    <2>1. painted \in Seq(Hues \X Hues) /\ Len(painted) = cell
      BY <1>1 DEF HexdumpTyped
    <2>2. /\ DOMAIN painted' = 1 .. cell + 1
          /\ painted'[cell + 1] = <<CellColour, EntryActive>>
          /\ \A k \in 1 .. cell : k \in DOMAIN painted /\ painted'[k] = painted[k]
      BY <1>1, <2>1
    <2>3. CASE b = cell + 1
      BY <1>3, <1>4, <2>2, <2>3
    <2>4. CASE b # cell + 1
      <3>1. b \in 1 .. cell
        BY <1>5, <2>2, <2>4
      <3>2. painted[b] = <<OwnColour(b), OwnColour(b)>>
        BY <2>2, <3>1 DEF HexdumpInv
      <3> QED BY <1>4, <2>2, <3>1, <3>2
    <2> QED BY <2>3, <2>4
  <1> QED BY <1>2, <1>6, <1>7, <1>8, <1>9 DEF HexdumpInv

LEMMA PadCellStep ==
    ASSUME HexdumpTyped, HexdumpInv, Exact, PadCell
    PROVE  HexdumpInv'
  <1>1. /\ Dumping /\ cell >= length
        /\ active' = EntryActive /\ remaining' = EntryRemaining
        /\ terminal' = IF LastOfRow /\ CharactersColoured THEN Normal ELSE CellColour
        /\ painted' = painted
    BY DEF PadCell
  <1>2. /\ sizes' = sizes /\ coloured' = coloured /\ length' = length /\ listed' = listed
        /\ listed = Len(sizes) /\ cell' = cell + 1
    BY <1>1 DEF Dumping
  <1>3. EntryActive = Normal
    <2>1. cell \in Nat /\ length \in Nat
      BY HexdumpNumbers DEF HexdumpTyped
    <2>2. EntryActive # Normal => cell < length
      BY <1>1, CellFinds
    <2> QED BY <1>1, <2>1, <2>2
  <1>4. /\ CellColour = Normal
        /\ coloured =>
             /\ Taken' \in 0 .. listed'
             /\ \A k \in DOMAIN palette' :
                    palette'[k] = <<sizes[Taken' + k], (Taken' + k - 1) % Colours>>
             /\ Taken' = Len(sizes) /\ cell >= Ends[Taken']
        /\ ~coloured => palette' = <<>>
    BY <1>1, <1>3, CellFinds
  <1>5. Ends' = Ends /\ \A b : OwnColour(b)' = OwnColour(b)
    BY <1>2, SameFields
  <1>6. cell \in Nat /\ Len(sizes) \in Nat /\ Ends \in [0 .. Len(sizes) -> Nat]
    BY HexdumpNumbers, ExactNumbers
  <1>7. ASSUME coloured PROVE PaletteInStep'
    <2>1. /\ Taken' \in 0 .. listed' /\ listed' = Len(sizes')
          /\ \A k \in DOMAIN palette' :
                 palette'[k] = <<sizes'[Taken' + k], (Taken' + k - 1) % Colours>>
          /\ Taken' = Len(sizes') /\ Taken' \in Nat
      BY <1>2, <1>4, <1>6, <1>7
    <2>2. cell' >= Ends'[Taken']
      <3>1. Ends[Taken'] \in Nat /\ cell >= Ends[Taken']
        BY <1>2, <1>4, <1>6, <1>7, <2>1
      <3> QED BY <1>2, <1>5, <1>6, <3>1
    <2> QED BY <1>1, <1>3, <2>1, <2>2 DEF PaletteInStep
  <1>8. \A b \in DOMAIN painted' : painted'[b] = <<OwnColour(b)', OwnColour(b)'>>
    BY <1>1, <1>5 DEF HexdumpInv
  <1> QED BY <1>1, <1>2, <1>3, <1>4, <1>7, <1>8 DEF HexdumpInv

LEMMA HexdumpInvStep ==
    ASSUME HexdumpTyped, HexdumpInv, [HexdumpNext]_hexdumpVars
    PROVE  HexdumpInv'
  <1> SUFFICES ASSUME Exact' PROVE HexdumpInv'
    BY DEF HexdumpInv
  <1>1. CASE UNCHANGED hexdumpVars
    <2>1. \A b : OwnColour(b)' = OwnColour(b)
      BY <1>1, SameFields DEF hexdumpVars
    <2>2. Exact /\ Ends' = Ends
      BY <1>1, SameFields DEF hexdumpVars
    <2>3. PaletteInStep' <=> PaletteInStep
      BY <1>1, <2>2 DEF hexdumpVars, PaletteInStep, Taken
    <2> QED BY <1>1, <2>1, <2>2, <2>3 DEF hexdumpVars, HexdumpInv
  <1>2. CASE HexdumpNext
    <2>1. UNCHANGED <<sizes, coloured, length>>
      BY <1>2 DEF HexdumpNext, ListField, PaintByte, PadCell, Dumping
    <2>2. Exact
      BY <2>1, SameFields
    <2> QED BY <1>2, <2>2, ListFieldStep, PaintByteStep, PadCellStep DEF HexdumpNext
  <1> QED BY <1>1, <1>2

\* The inductive invariant of the dump holds in every state.
THEOREM HexdumpInvariant == HexdumpSpec => [](HexdumpTyped /\ HexdumpInv)
  <1>1. HexdumpInit => HexdumpTyped /\ HexdumpInv
    BY HexdumpTypesInit, HexdumpInvInit
  <1>2. HexdumpTyped /\ HexdumpInv /\ [HexdumpNext]_hexdumpVars => (HexdumpTyped /\ HexdumpInv)'
    BY HexdumpTypesStep, HexdumpInvStep
  <1> QED BY <1>1, <1>2, PTL DEF HexdumpSpec

(***************************************************************************)
(* _dumpstruct and _hexdump, for fields of any number and size, rows of    *)
(* any width and any number of colours: if the fields have a byte at least *)
(* and lie in the data, every byte is shown in the colour of its field.    *)
(***************************************************************************)
THEOREM BytesAreColoured == HexdumpSpec => []BytesHaveTheirColour
  <1>1. HexdumpInv => BytesHaveTheirColour
    BY DEF HexdumpInv, BytesHaveTheirColour
  <1> QED BY <1>1, HexdumpInvariant, PTL

(***************************************************************************)
(* _hexdump leaves no colour on between two rows, or after the last one,   *)
(* if the fields have a byte at least and lie in the data (Exact).         *)
(***************************************************************************)
THEOREM RowsEndUncoloured == HexdumpSpec => []RowsEndNormal
  <1>1. HexdumpInv => RowsEndNormal
    BY DEF HexdumpInv, RowsEndNormal
  <1> QED BY <1>1, HexdumpInvariant, PTL

-----------------------------------------------------------------------------
(* The readers of one field *)

Octets == 0 .. 255

(***************************************************************************)
(* Each reader is run once, on a stream that does not change, and only a   *)
(* value is written.                                                       *)
(***************************************************************************)
ArraysInv ==
    /\ field \in FieldsOf
    /\ stream \in Seq(Octets)
    /\ defaulted \in BOOLEAN
    /\ IF defaulted THEN value = Default(field)
       ELSE value \in {NotDone, Interpreted(field)}
    /\ generated \in {NotDone, Generated(field)}
    /\ dumped # NotDone => Succeeded(value) /\ dumped = Written(field, value)

LEMMA SameReaders ==
    ASSUME stream' = stream, NEW f
    PROVE  /\ Interpreted(f)' = Interpreted(f)
           /\ Generated(f)' = Generated(f)
  <1>1. \A p, n : Bytes(p, n)' = Bytes(p, n)
    BY DEF Bytes
  <1>2. \A n, k : Piece(n, k)' = Piece(n, k)
    BY <1>1 DEF Piece
  <1>3. \A n, count : Numbers(n, count)' = Numbers(n, count)
    BY <1>2 DEF Numbers
  <1>4. \A n : ReadArray(f, n)' = ReadArray(f, n)
    BY <1>1, <1>3 DEF ReadArray
  <1>5. ReadOne(f)' = ReadOne(f)
    BY <1>4 DEF ReadOne
  <1>6. Terminators(f)' = Terminators(f)
    BY <1>2 DEF Terminators
  <1>7. ReadNull(f)' = ReadNull(f)
    BY <1>1, <1>3, <1>6 DEF ReadNull
  <1>8. ReadElements(f)' = ReadElements(f)
    BY <1>4 DEF ReadElements
  <1>9. \A n : IsShort(n)' = IsShort(n)
    BY DEF IsShort
  <1>10. BlockRead(f)' = BlockRead(f)
    BY <1>3, <1>9 DEF BlockRead
  <1>11. LoopRead(f)' = LoopRead(f)
    BY <1>4 DEF LoopRead
  <1>12. NullRead(f)' = NullRead(f)
    BY <1>6, <1>7 DEF NullRead
  <1>13. DynamicRead(f)' = DynamicRead(f)
    BY <1>3, <1>9 DEF DynamicRead
  <1>14. Interpreted(f)' = Interpreted(f)
    BY <1>5, <1>7, <1>8 DEF Interpreted
  <1>15. Generated(f)' = Generated(f)
    BY <1>5, <1>10, <1>11, <1>12, <1>13 DEF Generated
  <1> QED BY <1>14, <1>15

\* A default is there at once.
LEMMA DefaultIsDone ==
    ASSUME NEW f
    PROVE  Default(f) # NotDone
  <1>1. NotDone.outcome = "not done"
    BY DEF NotDone, Raised
  <1>2. CASE f.form \in {"expression", "null"}
    <2>1. Default(f) = Ok("list", <<>>, 0)
      BY <1>2 DEF Default
    <2>2. Ok("list", <<>>, 0).outcome = "ok"
      BY DEF Ok
    <2> QED BY <1>1, <2>1, <2>2
  <1>3. CASE f.form \notin {"expression", "null"} /\ f.class \in Pointers /\ f.count > 0
    <2>1. Default(f) = Raised("NotImplementedError")
      BY <1>3 DEF Default
    <2>2. Raised("NotImplementedError").outcome = "NotImplementedError"
      BY DEF Raised
    <2> QED BY <1>1, <2>1, <2>2
  <1>4. CASE f.form \notin {"expression", "null"} /\ ~(f.class \in Pointers /\ f.count > 0)
    <2> DEFINE r == Ok(IF f.class \in Texts THEN "text"
                       ELSE IF f.form = "one" THEN "number" ELSE "list",
                       DefaultItems(f), 0)
    <2>1. Default(f) = Mapped(f, r)
      BY <1>4 DEF Default
    <2>2. r.outcome = "ok"
      BY DEF Ok
    <2>3. Mapped(f, r).outcome = "ok"
      BY <2>2 DEF Mapped, Ok
    <2> QED BY <1>1, <2>1, <2>3
  <1> QED BY <1>2, <1>3, <1>4

LEMMA ArraysInvStep ==
    ASSUME ArraysInv, [ArraysNext]_arraysVars
    PROVE  ArraysInv'
  <1>1. field' = field /\ stream' = stream
    BY DEF ArraysNext, ReadInterpreted, MakeDefault, ReadGenerated, Dump, arraysVars
  <1>2. /\ Interpreted(field)' = Interpreted(field)
        /\ Generated(field)' = Generated(field)
    BY <1>1, SameReaders
  <1>3. Default(field)' = Default(field)
    BY <1>1
  <1>4. ~Succeeded(NotDone)
    BY DEF Succeeded, NotDone, Raised
  <1>5. CASE ReadInterpreted
    BY <1>1, <1>2, <1>3, <1>4, <1>5, DefaultIsDone DEF ReadInterpreted, ArraysInv
  <1>6. CASE MakeDefault
    BY <1>1, <1>2, <1>3, <1>4, <1>6 DEF MakeDefault, ArraysInv
  <1>7. CASE ReadGenerated
    BY <1>1, <1>2, <1>3, <1>7 DEF ReadGenerated, ArraysInv
  <1>8. CASE Dump
    BY <1>1, <1>2, <1>3, <1>8 DEF Dump, ArraysInv
  <1>9. CASE UNCHANGED arraysVars
    BY <1>1, <1>2, <1>3, <1>9 DEF arraysVars, ArraysInv
  <1> QED BY <1>5, <1>6, <1>7, <1>8, <1>9 DEF ArraysNext

THEOREM ArraysInvariant == ArraysSpec => []ArraysInv
  <1>1. ArraysInit => ArraysInv
    BY CountsAssumption DEF ArraysInit, ArraysInv, Octets
  <1>2. ArraysInv /\ [ArraysNext]_arraysVars => ArraysInv'
    BY ArraysInvStep
  <1> QED BY <1>1, <1>2, PTL DEF ArraysSpec

-----------------------------------------------------------------------------
(* Bytes and numbers *)

LEMMA FieldNumbers ==
    ASSUME NEW f \in FieldsOf
    PROVE  /\ f.class \in Classes /\ f.enum \in BOOLEAN
           /\ f.form \in {"one", "fixed", "expression", "null"}
           /\ f.enum => f.class \in Numeric
           /\ f.class = "array*" => f.form = "one"
           /\ Size(f) \in Nat \ {0}
           /\ f.class = "char" => Size(f) = 1
           /\ f.class = "wchar" => Size(f) = 2
           /\ f.count \in Int /\ Count(f) \in Nat
           /\ f.count >= 0 => Count(f) = f.count
           /\ f.form \in {"one", "null"} => f.count = 1 /\ Count(f) = 1
           /\ f.form = "fixed" => f.count \in Nat
  <1>1. /\ f.class \in Classes /\ f.enum \in BOOLEAN
        /\ f.form \in {"one", "fixed", "expression", "null"}
        /\ f.count \in Counts \cup {1}
        /\ f.enum => f.class \in Numeric
        /\ f.class = "array*" => f.form = "one"
        /\ f.form \in {"one", "null"} => f.count = 1
        /\ f.form = "fixed" => f.count >= 0
    BY DEF FieldsOf
  <1>2. f.count \in Int
    <2>1. Counts \subseteq Int
      BY CountsAssumption, Zenon
    <2>2. f.count \in Counts \/ f.count = 1
      BY <1>1, Zenon
    <2>3. 1 \in Int
      OBVIOUS
    <2> QED BY <2>1, <2>2, <2>3, Zenon
  <1>3. Count(f) \in Nat /\ (f.count >= 0 => Count(f) = f.count)
    BY <1>2 DEF Count, NonNegative
  <1>4. /\ Size(f) \in Nat \ {0}
        /\ f.class = "char" => Size(f) = 1
        /\ f.class = "wchar" => Size(f) = 2
    BY <1>1, TypeSizeAssumption DEF Size
  <1> QED BY <1>1, <1>2, <1>3, <1>4

LEMMA MinOfTwo ==
    ASSUME NEW a \in Int, NEW b \in Int
    PROVE  Min({a, b}) = IF a <= b THEN a ELSE b
  <1>1. Min({a, b}) \in {a, b} /\ \A y \in {a, b} : Min({a, b}) <= y
    <2>1. \E x \in {a, b} : \A y \in {a, b} : x <= y
      OBVIOUS
    <2> QED BY <2>1 DEF Min
  <1> QED BY <1>1

LEMMA PartOf ==
    ASSUME NEW S, NEW s \in Seq(S), NEW p \in Nat, NEW e \in Nat, e <= Len(s)
    PROVE  /\ SubSeq(s, p + 1, e) \in Seq(S)
           /\ Len(SubSeq(s, p + 1, e)) = IF p + 1 <= e THEN e - p ELSE 0
           /\ \A k \in 1 .. (IF p + 1 <= e THEN e - p ELSE 0) :
                  SubSeq(s, p + 1, e)[k] = s[p + k]
  OBVIOUS

\* stream.read(n) at p gives n bytes, or those that are left.
LEMMA BytesAre ==
    ASSUME stream \in Seq(Octets), NEW p \in Nat, NEW n \in Nat
    PROVE  /\ Bytes(p, n) \in Seq(Octets)
           /\ Len(Bytes(p, n)) = IF p + n <= Len(stream) THEN n
                                 ELSE IF p <= Len(stream) THEN Len(stream) - p ELSE 0
           /\ \A k \in 1 .. Len(Bytes(p, n)) :
                  /\ Bytes(p, n)[k] = stream[p + k]
                  /\ p + k \in 1 .. Len(stream)
  <1> DEFINE e == IF p + n <= Len(stream) THEN p + n ELSE Len(stream)
  <1>1. Len(stream) \in Nat /\ e \in Nat /\ e <= Len(stream)
    OBVIOUS
  <1>2. Bytes(p, n) = SubSeq(stream, p + 1, e)
    BY <1>1, MinOfTwo DEF Bytes
  <1> HIDE DEF e
  <1>3. /\ Bytes(p, n) \in Seq(Octets)
        /\ Len(Bytes(p, n)) = IF p + 1 <= e THEN e - p ELSE 0
        /\ \A k \in 1 .. (IF p + 1 <= e THEN e - p ELSE 0) :
               Bytes(p, n)[k] = stream[p + k]
    BY <1>1, <1>2, PartOf
  <1>4. (IF p + 1 <= e THEN e - p ELSE 0)
          = IF p + n <= Len(stream) THEN n
            ELSE IF p <= Len(stream) THEN Len(stream) - p ELSE 0
    BY <1>1 DEF e
  <1>5. \A k \in 1 .. (IF p + 1 <= e THEN e - p ELSE 0) : p + k \in 1 .. Len(stream)
    BY <1>1
  <1> QED BY <1>3, <1>4, <1>5

LEMMA OctetAdded ==
    ASSUME NEW a \in Nat, NEW b \in Octets
    PROVE  256 * a + b \in Nat /\ b \in Nat /\ b <= 255
  BY DEF Octets

LEMMA BytesThere ==
    ASSUME stream \in Seq(Octets), NEW p \in Nat, NEW n \in Nat, p + n <= Len(stream)
    PROVE  /\ Bytes(p, n) \in Seq(Octets)
           /\ Len(Bytes(p, n)) = n
           /\ DOMAIN Bytes(p, n) = 1 .. n
           /\ \A k \in 1 .. n : Bytes(p, n)[k] = stream[p + k]
  <1>1. Bytes(p, n) \in Seq(Octets) /\ Len(Bytes(p, n)) = n
    BY BytesAre
  <1>2. \A k \in 1 .. Len(Bytes(p, n)) : Bytes(p, n)[k] = stream[p + k]
    BY BytesAre
  <1>3. DOMAIN Bytes(p, n) = 1 .. Len(Bytes(p, n))
    BY <1>1
  <1> QED BY <1>1, <1>2, <1>3

\* g is the number that the first n bytes in significance make, for each n.
Leads(g, bytes, n) ==
    g = [k \in 0 .. n |-> IF k = 0 THEN 0 ELSE 256 * g[k - 1] + Significant(bytes, k)]

LEMMA LeadsExist == \A bytes : \A n \in Nat : \E g : Leads(g, bytes, n)
  <1> SUFFICES ASSUME NEW bytes PROVE \A n \in Nat : \E g : Leads(g, bytes, n)
    OBVIOUS
  <1> DEFINE T == {n \in Nat : ~ \E g : Leads(g, bytes, n)}
  <1> SUFFICES ASSUME T # {} PROVE FALSE
    OBVIOUS
  <1>1. PICK n \in T : \A m \in T : n <= m
    BY Least
  <1>2. CASE n = 0
    <2>1. Leads([k \in 0 .. 0 |-> 0], bytes, 0)
      BY DEF Leads
    <2> QED BY <2>1, <1>2
  <1>3. CASE n > 0
    <2>1. n - 1 \in Nat /\ n - 1 \notin T
      BY <1>1, <1>3
    <2>2. PICK g : Leads(g, bytes, n - 1)
      BY <2>1
    <2> DEFINE h == [k \in 0 .. n |-> IF k = n THEN 256 * g[n - 1] + Significant(bytes, n)
                                      ELSE g[k]]
    <2>3. ASSUME NEW k \in 0 .. n
          PROVE  h[k] = IF k = 0 THEN 0 ELSE 256 * h[k - 1] + Significant(bytes, k)
      <3>1. CASE k = n
        BY <1>3, <2>1, <3>1
      <3>2. CASE k # n
        BY <1>3, <2>1, <2>2, <3>2 DEF Leads
      <3> QED BY <3>1, <3>2
    <2>4. Leads(h, bytes, n)
      BY <2>3 DEF Leads
    <2> QED BY <2>4
  <1> QED BY <1>2, <1>3

\* A number is made byte by byte, from the most significant one on.
LEMMA NumberIs ==
    ASSUME NEW bytes \in Seq(Octets)
    PROVE  \E g \in [0 .. Len(bytes) -> Nat] :
              /\ g[0] = 0
              /\ \A k \in 1 .. Len(bytes) :
                     /\ g[k] = 256 * g[k - 1] + Significant(bytes, k)
                     /\ Significant(bytes, k) \in Octets
              /\ Number(bytes) = g[Len(bytes)]
  <1> DEFINE n == Len(bytes)
             P(g) == g = [k \in 0 .. n |-> IF k = 0 THEN 0
                                           ELSE 256 * g[k - 1] + Significant(bytes, k)]
             c == CHOOSE g : P(g)
  <1>0. n \in Nat
    OBVIOUS
  <1>1. \E g : P(g)
    BY <1>0, LeadsExist DEF Leads
  <1>2. P(c)
    <2> HIDE DEF P
    <2> QED BY <1>1
  <1>3. Number(bytes) = c[n]
    BY DEF Number
  <1>4. \A k \in 1 .. n : Significant(bytes, k) \in Octets
    <2> SUFFICES ASSUME NEW k \in 1 .. n PROVE Significant(bytes, k) \in Octets
      OBVIOUS
    <2>1. n - k + 1 \in 1 .. n
      BY <1>0
    <2>2. \A j \in 1 .. n : bytes[j] \in Octets
      OBVIOUS
    <2>3. Significant(bytes, k) = bytes[IF LittleEndian THEN n - k + 1 ELSE k]
      BY DEF Significant
    <2> HIDE DEF n
    <2> QED BY <2>1, <2>2, <2>3
  <1> HIDE DEF c
  <1>5. /\ c[0] = 0 /\ DOMAIN c = 0 .. n
        /\ \A k \in 1 .. n : c[k] = 256 * c[k - 1] + Significant(bytes, k)
    BY <1>0, <1>2
  <1>6. \A k \in 0 .. n : c[k] \in Nat
    <2> DEFINE T == {k \in 0 .. n : c[k] \notin Nat}
    <2> SUFFICES ASSUME T # {} PROVE FALSE
      OBVIOUS
    <2>1. PICK k \in T : \A m \in T : k <= m
      <3>1. T \in SUBSET Nat
        BY <1>0
      <3> HIDE DEF T
      <3> QED BY <3>1, Least
    <2>2. k \in 1 .. n
      BY <1>0, <1>5, <2>1
    <2>3. k - 1 \in 0 .. n /\ k \in Int
      BY <1>0, <2>2
    <2>4. k - 1 \notin T
      <3> HIDE DEF T
      <3> QED BY <2>1, <2>3
    <2>5. c[k - 1] \in Nat
      BY <2>3, <2>4
    <2>6. c[k] \in Nat
      <3>1. c[k] = 256 * c[k - 1] + Significant(bytes, k)
        BY <1>5, <2>2
      <3>2. Significant(bytes, k) \in Octets
        BY <1>4, <2>2
      <3> QED BY <2>5, <3>1, <3>2, OctetAdded
    <2> QED BY <2>1, <2>6
  <1>7. c \in [0 .. n -> Nat]
    BY <1>2, <1>5, <1>6
  <1> QED BY <1>3, <1>4, <1>5, <1>7

\* A byte is its own number.
LEMMA NumberOfByte ==
    ASSUME NEW bytes \in Seq(Octets), Len(bytes) = 1
    PROVE  Number(bytes) = bytes[1]
  <1>1. PICK g \in [0 .. 1 -> Nat] :
           /\ g[0] = 0
           /\ \A k \in 1 .. 1 : g[k] = 256 * g[k - 1] + Significant(bytes, k)
           /\ Number(bytes) = g[1]
    BY NumberIs
  <1>2. Significant(bytes, 1) = bytes[1]
    BY DEF Significant
  <1>4. bytes[1] \in Nat
    <2>1. \A k \in 1 .. Len(bytes) : bytes[k] \in Octets
      OBVIOUS
    <2>2. \A o \in Octets : o \in Nat
      BY DEF Octets
    <2> QED BY <2>1, <2>2
  <1>3. g[1] = 256 * g[0] + Significant(bytes, 1)
    BY <1>1
  <1> QED BY <1>1, <1>2, <1>3, <1>4

-----------------------------------------------------------------------------
(* The two readers *)

\* A stream that holds n values of the field's type gives them all.
LEMMA WholeRead ==
    ASSUME stream \in Seq(Octets), NEW f \in FieldsOf, NEW n \in Nat,
           Size(f) * n <= Len(stream)
    PROVE  /\ ReadArray(f, n) = Ok(IF f.class \in Texts THEN "text" ELSE "list",
                                   Numbers(Size(f), n), Size(f) * n)
           /\ Len(Bytes(0, Size(f) * n)) = Size(f) * n
  <1> DEFINE need == Size(f) * n
             got == Bytes(0, need)
  <1>1. /\ Size(f) \in Nat \ {0} /\ f.class \in Classes
        /\ f.class = "char" => Size(f) = 1
        /\ f.class = "wchar" => Size(f) = 2
    BY FieldNumbers
  <1>2. need \in Nat /\ Len(stream) \in Nat
    BY <1>1
  <1> HIDE DEF need
  <1>3. /\ got \in Seq(Octets) /\ Len(got) = need
        /\ \A k \in 1 .. need : got[k] = stream[k]
    <2>1. 0 + need = need /\ \A k \in 1 .. need : 0 + k = k
      BY <1>2
    <2>2. 0 + need <= Len(stream)
      BY <1>2, <2>1 DEF need
    <2>3. /\ Bytes(0, need) \in Seq(Octets) /\ Len(Bytes(0, need)) = need
          /\ \A k \in 1 .. need : Bytes(0, need)[k] = stream[0 + k]
      BY <1>2, <2>2, BytesThere
    <2> QED BY <2>1, <2>3
  <1> HIDE DEF got
  <1>4. CASE f.class = "char"
    <2>1. need = n /\ Size(f) = 1
      BY <1>1, <1>4 DEF need
    <2>2. ASSUME NEW k \in 1 .. n PROVE Number(Piece(1, k)) = got[k]
      <3>1. k - 1 \in Nat /\ (k - 1) * 1 = k - 1 /\ (k - 1) + 1 = k /\ k <= Len(stream)
        BY <1>2, <2>1 DEF need
      <3>2. Piece(1, k) = Bytes(k - 1, 1)
        BY <3>1 DEF Piece
      <3>3. (k - 1) + 1 <= Len(stream)
        BY <3>1
      <3>4. /\ Bytes(k - 1, 1) \in Seq(Octets) /\ Len(Bytes(k - 1, 1)) = 1
            /\ \A j \in 1 .. 1 : Bytes(k - 1, 1)[j] = stream[(k - 1) + j]
        BY <3>1, <3>3, BytesThere
      <3>5. Bytes(k - 1, 1)[1] = stream[(k - 1) + 1]
        BY <3>4
      <3>6. Number(Bytes(k - 1, 1)) = Bytes(k - 1, 1)[1]
        BY <3>4, NumberOfByte
      <3> QED BY <1>3, <2>1, <3>1, <3>2, <3>5, <3>6
    <2>3. got = Numbers(1, n)
      <3>1. got = [k \in 1 .. n |-> got[k]]
        BY <1>3, <2>1
      <3> QED BY <2>2, <3>1 DEF Numbers
    <2>4. ReadArray(f, n) = Ok("text", got, Len(got))
      BY <1>3, <1>4 DEF ReadArray, Pointers, got, need
    <2> QED BY <1>3, <1>4, <2>1, <2>3, <2>4 DEF Texts, need, got
  <1>5. CASE f.class = "wchar"
    <2>1. need = 2 * n + 0 /\ Size(f) = 2 /\ n \in Int
      BY <1>1, <1>5 DEF need
    <2>2. need % 2 = 0 /\ need \div 2 = n
      BY <2>1, DividedOnce
    <2>3. ReadArray(f, n) = Ok("text", Numbers(2, Len(got) \div 2), Len(got))
      BY <1>3, <1>5, <2>2 DEF ReadArray, Pointers, got, need
    <2> QED BY <1>3, <1>5, <2>1, <2>2, <2>3 DEF Texts, need, got
  <1>6. CASE f.class \notin Texts
    <2>1. ReadArray(f, n) = Ok("list", Numbers(Size(f), n), Len(got))
      BY <1>1, <1>2, <1>3, <1>6 DEF ReadArray, Texts, got, need
    <2> QED BY <1>3, <1>6, <2>1 DEF need, got
  <1> QED BY <1>4, <1>5, <1>6 DEF Texts

\* A stream that does not is refused, except by the types that use what there is.
LEMMA ShortRead ==
    ASSUME stream \in Seq(Octets), NEW f \in FieldsOf, NEW n \in Nat,
           ~(Size(f) * n <= Len(stream)),
           f.class \notin Texts \cup {"bytes"}
    PROVE  ~Succeeded(ReadArray(f, n))
  <1>1. f.class \in {"packed", "struct"} \cup Pointers
    BY FieldNumbers DEF Texts, Pointers, Classes
  <1>2. Size(f) * n \in Nat
    BY FieldNumbers
  <1>3. Len(Bytes(0, Size(f) * n)) < Size(f) * n
    <2>1. Len(stream) \in Nat
      OBVIOUS
    <2> QED BY <1>2, <2>1, BytesAre
  <1>4. ReadArray(f, n) = Raised("EOFError")
    <2> DEFINE short == f.class \in {"packed", "struct"} \cup Pointers
                          /\ Len(Bytes(0, Size(f) * n)) < Size(f) * n
    <2>1. short
      BY <1>1, <1>3
    <2>2. f.class # "char" /\ f.class # "wchar"
      BY DEF Texts
    <2> QED BY <2>1, <2>2 DEF ReadArray
  <1> QED BY <1>4 DEF Succeeded, Raised

\* A terminator is a whole piece of the stream, but for a BytesInteger.
LEMMA TerminatorsAreWhole ==
    ASSUME stream \in Seq(Octets), NEW f \in FieldsOf, f.class # "bytes",
           NEW k \in Terminators(f)
    PROVE  k * Size(f) <= Len(stream)
  <1> DEFINE n == Size(f)
  <1>1. n \in Nat \ {0} /\ Len(stream) \in Nat
    BY FieldNumbers
  <1>2. k \in 1 .. (Len(stream) \div n) + 2 /\ Len(Piece(n, k)) = n
    BY DEF Terminators
  <1>3. Len(stream) \div n \in Int
    BY <1>1, Divided
  <1> HIDE DEF n
  <1>4. k \in Nat \ {0}
    BY <1>2, <1>3
  <1>5. (k - 1) * n \in Nat /\ (k - 1) * n + n = k * n /\ k * n \in Nat
    BY <1>1, <1>4
  <1>6. Len(Piece(n, k)) = IF (k - 1) * n + n <= Len(stream) THEN n
                           ELSE IF (k - 1) * n <= Len(stream) THEN Len(stream) - (k - 1) * n
                           ELSE 0
    BY <1>1, <1>5, BytesAre DEF Piece
  <1> QED BY <1>1, <1>2, <1>5, <1>6 DEF n

\* Only the values of an enum are made its instances.
LEMMA NotMapped ==
    ASSUME NEW f, f.enum = FALSE, NEW type, NEW items, NEW used
    PROVE  Mapped(f, Ok(type, items, used)) = Ok(type, items, used)
  BY DEF Mapped

\* Where the known differences are not met, the two readers return the same.
LEMMA ReadersAgree ==
    ASSUME stream \in Seq(Octets), NEW f \in FieldsOf, Whole(f), ~KnownDifference(f)
    PROVE  SameResult(Interpreted(f), Generated(f))
  <1>1. /\ f.class \in Classes /\ f.enum \in BOOLEAN
        /\ f.form \in {"one", "fixed", "expression", "null"}
        /\ f.enum => f.class \in Numeric
        /\ Size(f) \in Nat \ {0} /\ Count(f) \in Nat /\ f.count \in Int
        /\ f.form \in {"one", "null"} => f.count = 1 /\ Count(f) = 1
        /\ f.form = "fixed" => Count(f) = f.count
    BY FieldNumbers
  <1>2. /\ f.class # "array*"
        /\ f.form \in {"fixed", "expression"} => f.class # "pointer"
        /\ f.class = "bytes" /\ f.form = "fixed" => f.count # 1
        /\ f.class = "bytes" => f.form # "null"
        /\ f.enum => f.form \notin {"expression", "null"}
    BY DEF KnownDifference
  <1>3. CASE f.form = "null"
    <2>1. ~f.enum /\ f.class \in {"packed", "char", "wchar", "struct", "pointer"}
      BY <1>1, <1>2, <1>3 DEF Classes
    <2>2. Interpreted(f) = Mapped(f, ReadNull(f))
      BY <1>3 DEF Interpreted
    <2>3. CASE f.class \in {"struct", "pointer"}
      <3>1. ~Succeeded(ReadNull(f)) /\ ReadNull(f) = Raised("NotImplementedError")
        BY <2>3 DEF ReadNull, Raised, Succeeded
      <3>2. ~Succeeded(Interpreted(f))
        BY <2>2, <3>1 DEF Mapped, Succeeded, Raised
      <3>3. ~Succeeded(Generated(f))
        <4>1. CASE f.class = "struct"
          <5>1. Generated(f) = Raised("TypeError")
            BY <1>3, <4>1 DEF Generated, LoopRead
          <5> QED BY <5>1 DEF Raised, Succeeded
        <4>2. CASE f.class = "pointer"
          <5>1. Generated(f) = ReadNull(f)
            BY <1>3, <4>2 DEF Generated, NullRead, Numeric, Texts
          <5> QED BY <3>1, <5>1
        <4> QED BY <2>3, <4>1, <4>2
      <3> QED BY <3>2, <3>3 DEF SameResult
    <2>4. CASE f.class \notin {"struct", "pointer"}
      <3>1. Terminators(f) # {}
        BY <1>3 DEF Whole
      <3>2. Generated(f) = ReadNull(f)
        BY <1>2, <1>3, <2>4, <3>1 DEF Generated, NullRead
      <3>3. ReadNull(f) = Mapped(f, ReadNull(f))
        <4> DEFINE end == Min(Terminators(f))
                   r == Ok(IF f.class \in Texts THEN "text" ELSE "list",
                           Numbers(Size(f), end - 1), Len(Bytes(0, end * Size(f))))
        <4>1. ReadNull(f) = r
          BY <2>4, <3>1 DEF ReadNull
        <4> HIDE DEF end
        <4>2. r = Mapped(f, r)
          <5>1. f.enum = FALSE
            BY <1>1, <2>1
          <5> QED BY <5>1, NotMapped
        <4> QED BY <4>1, <4>2
      <3> QED BY <2>2, <3>2, <3>3 DEF SameResult
    <2> QED BY <2>3, <2>4
  <1> DEFINE n == Count(f)
             list == Numbers(Size(f), n)
             need == Size(f) * n
             read == Ok(IF f.class \in Texts THEN "text" ELSE "list", list, need)
             single == Ok(IF f.class \in Texts THEN "text" ELSE "number", list, need)
  <1>4. ASSUME f.form # "null"
        PROVE  ReadArray(f, n) = read /\ ~IsShort(need) /\ need \in Nat
    <2>1. need <= Len(stream) /\ Len(stream) \in Nat /\ need \in Nat
      BY <1>1, <1>4 DEF Whole
    <2>2. ReadArray(f, n) = read
      BY <1>1, <2>1, WholeRead
    <2> HIDE DEF need
    <2> QED BY <2>1, <2>2 DEF IsShort
  <1> HIDE DEF n, list, need
  <1>5. /\ ~f.enum => Mapped(f, read) = read /\ Mapped(f, single) = single
        /\ f.class \in Texts => ~f.enum
    <2>1. f.class \in Texts => ~f.enum
      BY <1>1 DEF Texts, Numeric
    <2>2. ~f.enum => f.enum = FALSE
      BY <1>1
    <2> QED BY <2>1, <2>2, NotMapped
  <1>6. CASE f.form = "one"
    <2>1. ReadOne(f) = single
      <3>1. ReadOne(f) = IF read.kind = "list" THEN [read EXCEPT !.kind = "number"] ELSE read
        BY <1>1, <1>4, <1>6 DEF ReadOne, n
      <3> QED BY <3>1 DEF Ok
    <2>2. Interpreted(f) = Mapped(f, single)
      BY <1>6, <2>1 DEF Interpreted
    <2>3. CASE f.class = "struct"
      <3>1. Generated(f) = single /\ ~f.enum
        BY <1>1, <1>6, <2>1, <2>3 DEF Generated, Numeric
      <3> QED BY <1>5, <2>2, <3>1 DEF SameResult
    <2>4. CASE f.class # "struct"
      <3>1. Generated(f) = BlockRead(f)
        BY <1>6, <2>4 DEF Generated
      <3>2. BlockRead(f) = Mapped(f, single)
        <4>1. CASE f.class \in Texts
          <5>1. BlockRead(f) = Ok("text", list, need)
            BY <1>1, <1>2, <1>4, <1>6, <4>1 DEF BlockRead, list, need, n
          <5> QED BY <1>5, <4>1, <5>1
        <4>2. CASE f.class \notin Texts
          <5>1. BlockRead(f) = Mapped(f, Ok("number", list, need))
            BY <1>1, <1>2, <1>4, <1>6, <4>2 DEF BlockRead, list, need, n
          <5> QED BY <4>2, <5>1
        <4> QED BY <4>1, <4>2
      <3> QED BY <2>2, <3>1, <3>2 DEF SameResult
    <2> QED BY <2>3, <2>4
  <1>7. ASSUME f.form \in {"fixed", "expression"}
        PROVE  Interpreted(f) = Mapped(f, read)
    <2>1. ReadElements(f) = read
      BY <1>2, <1>4, <1>7 DEF ReadElements, n
    <2> QED BY <1>7, <2>1 DEF Interpreted
  <1>8. CASE f.class = "struct" /\ f.form \in {"fixed", "expression"}
    <2>1. Generated(f) = read /\ ~f.enum
      BY <1>1, <1>4, <1>8 DEF Generated, LoopRead, Numeric, n
    <2> QED BY <1>5, <1>7, <1>8, <2>1 DEF SameResult
  <1>9. CASE f.class # "struct" /\ f.form = "fixed"
    <2>1. Generated(f) = BlockRead(f)
      BY <1>9 DEF Generated
    <2>2. ~Unpacked(f, f.count)
      BY <1>2, <1>9 DEF Unpacked
    <2>3. BlockRead(f) = Mapped(f, read)
      <3>1. CASE f.class \in Texts
        <4>1. BlockRead(f) = Ok("text", list, need)
          BY <1>1, <1>2, <1>4, <1>9, <3>1 DEF BlockRead, list, need, n
        <4> QED BY <1>5, <3>1, <4>1
      <3>2. CASE f.class \notin Texts
        <4>1. BlockRead(f) = Mapped(f, Ok("list", list, need))
          BY <1>1, <1>2, <1>4, <1>9, <2>2, <3>2 DEF BlockRead, list, need, n
        <4> QED BY <3>2, <4>1
      <3> QED BY <3>1, <3>2
    <2> QED BY <1>7, <1>9, <2>1, <2>3 DEF SameResult
  <1>10. CASE f.class # "struct" /\ f.form = "expression"
    <2>1. Generated(f) = DynamicRead(f) /\ ~f.enum
      BY <1>2, <1>10 DEF Generated
    <2>2. DynamicRead(f) = read
      BY <1>2, <1>4, <1>10 DEF DynamicRead, list, need, n
    <2> QED BY <1>5, <1>7, <1>10, <2>1, <2>2 DEF SameResult
  <1> QED BY <1>1, <1>3, <1>6, <1>8, <1>9, <1>10

(***************************************************************************)
(* gen_read_block and gen_dynamic_block read what the methods of the types *)
(* do, for every size of a type, every count and every stream that holds   *)
(* the field, but for the differences that KnownDifference lists.          *)
(***************************************************************************)
THEOREM GeneratedIsInterpreted == ArraysSpec => []GeneratedReadsAsTypes
  <1>1. ArraysInv => GeneratedReadsAsTypes
    <2> SUFFICES ASSUME ArraysInv, BothRead, Whole(field), ~KnownDifference(field)
                 PROVE  SameResult(value, generated)
      BY DEF GeneratedReadsAsTypes
    <2>1. value = Interpreted(field) /\ generated = Generated(field)
      BY DEF ArraysInv, BothRead
    <2> QED BY <2>1, ReadersAgree DEF ArraysInv
  <1> QED BY <1>1, ArraysInvariant, PTL

\* A reader that succeeds on a stream that ends within the field
LEMMA ShortIsRefused ==
    ASSUME stream \in Seq(Octets), NEW f \in FieldsOf, ~Whole(f)
    PROVE  /\ Succeeded(Generated(f)) => f.class = "pointer"
           /\ Succeeded(Interpreted(f)) => f.class \in Texts \cup {"bytes"}
  <1>1. /\ f.class \in Classes
        /\ f.form \in {"one", "fixed", "expression", "null"}
        /\ Size(f) \in Nat \ {0} /\ Count(f) \in Nat /\ f.count \in Int
        /\ f.form \in {"one", "null"} => f.count = 1 /\ Count(f) = 1
        /\ f.form = "fixed" => Count(f) = f.count
    BY FieldNumbers
  <1>2. \A error \in {"EOFError", "TypeError", "AttributeError", "SyntaxError",
                      "NotImplementedError", "struct.error"} : ~Succeeded(Raised(error))
    BY DEF Raised, Succeeded
  <1>3. \A r : Succeeded(Mapped(f, r)) => Succeeded(r)
    BY DEF Mapped, Succeeded
  <1>4. CASE f.form = "null"
    <2>1. f.class # "bytes" => Terminators(f) = {}
      BY <1>4, TerminatorsAreWhole DEF Whole
    <2>2. f.class # "bytes" => ~Succeeded(ReadNull(f))
      BY <1>2, <2>1 DEF ReadNull
    <2>3. Interpreted(f) = Mapped(f, ReadNull(f))
      BY <1>4 DEF Interpreted
    <2>4. CASE f.class = "struct"
      <3>1. Generated(f) = Raised("TypeError")
        BY <1>4, <2>4 DEF Generated, LoopRead
      <3> QED BY <1>2, <1>3, <2>2, <2>3, <2>4, <3>1
    <2>5. CASE f.class # "struct"
      <3>1. Generated(f) = NullRead(f)
        BY <1>4, <2>5 DEF Generated
      <3>2. ~Succeeded(NullRead(f))
        BY <1>2, <2>1, <2>2 DEF NullRead, Numeric
      <3> QED BY <1>3, <2>2, <2>3, <3>1, <3>2
    <2> QED BY <2>4, <2>5
  <1> DEFINE n == Count(f)
             need == Size(f) * n
  <1>5. ASSUME f.form # "null"
        PROVE  /\ ~(need <= Len(stream)) /\ need \in Nat /\ Len(stream) \in Nat
               /\ IsShort(need) /\ n > 0
    <2>1. ~(need <= Len(stream)) /\ need \in Nat /\ Len(stream) \in Nat
      BY <1>1, <1>5 DEF Whole
    <2>2. n # 0
      <3>1. n = 0 => need = 0
        BY <1>1
      <3> QED BY <2>1, <3>1
    <2> HIDE DEF need
    <2>3. IsShort(need)
      BY <2>1 DEF IsShort
    <2> QED BY <1>1, <2>1, <2>2, <2>3
  <1>6. ASSUME f.form # "null", f.class \notin Texts \cup {"bytes"}
        PROVE  ~Succeeded(ReadArray(f, n))
    BY <1>1, <1>5, <1>6, ShortRead
  <1> HIDE DEF n, need
  <1>7. ASSUME f.form = "one", f.class \notin Texts \cup {"bytes"}
        PROVE  ~Succeeded(ReadOne(f))
    <2>1. ~Succeeded(ReadArray(f, 1))
      BY <1>1, <1>6, <1>7 DEF n
    <2> QED BY <2>1 DEF ReadOne, Succeeded
  <1>8. ASSUME f.form # "null"
        PROVE  Succeeded(Interpreted(f)) => f.class \in Texts \cup {"bytes"}
    <2>1. CASE f.form = "one"
      BY <1>3, <1>7, <2>1 DEF Interpreted
    <2>2. CASE f.form # "one"
      <3>1. Interpreted(f) = Mapped(f, ReadElements(f))
        BY <1>8, <2>2 DEF Interpreted
      <3>2. f.class \notin Texts \cup {"bytes"} => ~Succeeded(ReadElements(f))
        BY <1>2, <1>6, <1>8 DEF ReadElements, n
      <3> QED BY <1>3, <3>1, <3>2
    <2> QED BY <2>1, <2>2
  <1>9. ASSUME f.form # "null", f.class # "struct"
        PROVE  Succeeded(Generated(f)) => f.class = "pointer"
    <2>1. CASE f.form = "expression"
      <3>1. Generated(f) = DynamicRead(f)
        BY <1>9, <2>1 DEF Generated
      <3> QED BY <1>2, <1>5, <1>9, <3>1 DEF DynamicRead, need, n
    <2>2. CASE f.form # "expression"
      <3>1. Generated(f) = BlockRead(f)
        BY <1>1, <1>9, <2>2 DEF Generated
      <3>2. IsShort(Size(f) * (IF f.form = "one" THEN 1 ELSE f.count))
        BY <1>1, <1>5, <1>9, <2>2 DEF need, n
      <3> QED BY <1>2, <3>1, <3>2 DEF BlockRead
    <2> QED BY <2>1, <2>2
  <1>10. ASSUME f.form # "null", f.class = "struct"
         PROVE  ~Succeeded(Generated(f))
    <2>1. f.class \notin Texts \cup {"bytes"}
      BY <1>10 DEF Texts
    <2>2. Generated(f) = IF f.form = "one" THEN ReadOne(f) ELSE ReadArray(f, n)
      BY <1>10 DEF Generated, LoopRead, n
    <2> QED BY <1>6, <1>7, <1>10, <2>1, <2>2
  <1> QED BY <1>4, <1>8, <1>9, <1>10

(***************************************************************************)
(* A stream that ends within a field is an error, for every size, count    *)
(* and stream, of both readers but for the types that use what there is.   *)
(***************************************************************************)
THEOREM ShortStreamsFail == ArraysSpec => []ShortStreamsAreRefused
  <1>1. ArraysInv => ShortStreamsAreRefused
    <2> SUFFICES ASSUME ArraysInv, ~Whole(field)
                 PROVE  /\ Succeeded(generated) => field.class = "pointer"
                        /\ Succeeded(value) /\ ~defaulted
                             => field.class \in Texts \cup {"bytes"}
      BY DEF ShortStreamsAreRefused
    <2>1. ~Succeeded(NotDone)
      BY DEF NotDone, Raised, Succeeded
    <2>2. /\ generated \in {NotDone, Generated(field)}
          /\ ~defaulted => value \in {NotDone, Interpreted(field)}
          /\ field \in FieldsOf /\ stream \in Seq(Octets)
      BY DEF ArraysInv
    <2> QED BY <2>1, <2>2, ShortIsRefused
  <1> QED BY <1>1, ArraysInvariant, PTL

-----------------------------------------------------------------------------
(* The writers *)

\* p is the powers of b up to n.
Powers(p, b, n) == p = [k \in 0 .. n |-> IF k = 0 THEN 1 ELSE b * p[k - 1]]

LEMMA PowersExist == \A b : \A n \in Nat : \E p : Powers(p, b, n)
  <1> SUFFICES ASSUME NEW b PROVE \A n \in Nat : \E p : Powers(p, b, n)
    OBVIOUS
  <1> DEFINE T == {n \in Nat : ~ \E p : Powers(p, b, n)}
  <1> SUFFICES ASSUME T # {} PROVE FALSE
    OBVIOUS
  <1>1. PICK n \in T : \A m \in T : n <= m
    BY Least
  <1>2. CASE n = 0
    <2>1. Powers([k \in 0 .. 0 |-> 1], b, 0)
      BY DEF Powers
    <2> QED BY <2>1, <1>2
  <1>3. CASE n > 0
    <2>1. n - 1 \in Nat /\ n - 1 \notin T
      BY <1>1, <1>3
    <2>2. PICK p : Powers(p, b, n - 1)
      BY <2>1
    <2> DEFINE h == [k \in 0 .. n |-> IF k = n THEN b * p[n - 1] ELSE p[k]]
    <2>3. ASSUME NEW k \in 0 .. n
          PROVE  h[k] = IF k = 0 THEN 1 ELSE b * h[k - 1]
      <3>1. CASE k = n
        BY <1>3, <2>1, <3>1
      <3>2. CASE k # n
        BY <1>3, <2>1, <2>2, <3>2 DEF Powers
      <3> QED BY <3>1, <3>2
    <2>4. Powers(h, b, n)
      BY <2>3 DEF Powers
    <2> QED BY <2>4
  <1> QED BY <1>2, <1>3

LEMMA PowersArePositive ==
    ASSUME NEW n \in Nat, NEW b \in Nat \ {0}, NEW c, Powers(c, b, n)
    PROVE  /\ c[0] = 1
           /\ \A k \in 1 .. n : c[k] = b * c[k - 1]
           /\ \A k \in 0 .. n : c[k] \in Nat \ {0}
  <1>1. c[0] = 1 /\ \A k \in 1 .. n : c[k] = b * c[k - 1]
    BY DEF Powers
  <1>2. \A k \in 0 .. n : c[k] \in Nat \ {0}
    <2> DEFINE T == {k \in 0 .. n : c[k] \notin Nat \ {0}}
    <2> SUFFICES ASSUME T # {} PROVE FALSE
      OBVIOUS
    <2>1. PICK k \in T : \A m \in T : k <= m
      <3>1. T \in SUBSET Nat
        OBVIOUS
      <3> HIDE DEF T
      <3> QED BY <3>1, Least
    <2>2. k \in 1 .. n
      BY <1>1, <2>1
    <2>3. k - 1 \in 0 .. n /\ k \in Int
      BY <2>2
    <2>4. k - 1 \notin T
      <3> HIDE DEF T
      <3> QED BY <2>1, <2>3
    <2>5. c[k - 1] \in Nat \ {0}
      BY <2>3, <2>4
    <2>6. c[k] = b * c[k - 1]
      BY <1>1, <2>2
    <2>7. c[k] \in Nat \ {0}
      BY <2>5, <2>6
    <2> QED BY <2>1, <2>7
  <1> QED BY <1>1, <1>2

LEMMA PowersAre ==
    ASSUME NEW n \in Nat
    PROVE  /\ PowersOf256(n)[0] = 1
           /\ \A k \in 1 .. n : PowersOf256(n)[k] = 256 * PowersOf256(n)[k - 1]
           /\ \A k \in 0 .. n : PowersOf256(n)[k] \in Nat \ {0}
  <1> DEFINE P(p) == p = [k \in 0 .. n |-> IF k = 0 THEN 1 ELSE 256 * p[k - 1]]
             c == CHOOSE p : P(p)
  <1>1. \E p : P(p)
    BY PowersExist DEF Powers
  <1>2. P(c)
    <2> HIDE DEF P
    <2> QED BY <1>1
  <1>3. PowersOf256(n) = c
    BY DEF PowersOf256
  <1> HIDE DEF c
  <1>4. Powers(c, 256, n)
    BY <1>2 DEF Powers
  <1> QED BY <1>3, <1>4, PowersArePositive

LEMMA LastByte ==
    ASSUME NEW q \in Nat, NEW o \in Octets
    PROVE  (256 * q + o) % 256 = o
  <1>1. o \in 0 .. 255
    BY DEF Octets
  <1> QED BY <1>1

\* The first m bytes in significance, and a rest that is less than a power
LEMMA NumberDivided ==
    ASSUME NEW bytes \in Seq(Octets), NEW m \in 1 .. Len(bytes)
    PROVE  LET p == PowersOf256(Len(bytes))[Len(bytes) - m]
           IN /\ p \in Nat \ {0}
              /\ (Number(bytes) \div p) % 256 = Significant(bytes, m)
  <1> DEFINE n == Len(bytes)
             P == PowersOf256(n)
  <1>1. n \in Nat /\ m \in Nat \ {0} /\ m <= n
    OBVIOUS
  <1>2. PICK g \in [0 .. n -> Nat] :
           /\ \A k \in 1 .. n : /\ g[k] = 256 * g[k - 1] + Significant(bytes, k)
                                /\ Significant(bytes, k) \in Octets
           /\ Number(bytes) = g[n]
    BY NumberIs
  <1>3. /\ P[0] = 1
        /\ \A k \in 1 .. n : P[k] = 256 * P[k - 1]
        /\ \A k \in 0 .. n : P[k] \in Nat \ {0}
    BY <1>1, PowersAre
  <1> HIDE DEF n, P
  <1> DEFINE Split(k) == \E lo \in Nat : lo < P[k - m] /\ g[k] = P[k - m] * g[m] + lo
             T == {k \in m .. n : ~Split(k)}
  <1>4. T = {}
    <2> SUFFICES ASSUME T # {} PROVE FALSE
      OBVIOUS
    <2>1. PICK k \in T : \A x \in T : k <= x
      <3>1. T \in SUBSET Nat
        BY <1>1
      <3> HIDE DEF T
      <3> QED BY <3>1, Least
    <2>2. k \in m .. n /\ k \in Nat /\ ~Split(k)
      BY <1>1, <2>1
    <2>3. g[m] \in Nat
      BY <1>1, <1>2
    <2>4. CASE k = m
      <3>1. k - m = 0
        BY <1>1, <2>4
      <3>2. P[k - m] = 1 /\ 0 < 1 /\ g[k] = 1 * g[m] + 0 /\ 0 \in Nat
        BY <1>3, <2>3, <2>4, <3>1
      <3>3. Split(k)
        BY <3>2
      <3> QED BY <2>2, <3>3
    <2>5. CASE k # m
      <3>1. k - 1 \in m .. n /\ k \in 1 .. n /\ k - m \in 1 .. n
            /\ (k - m) - 1 = (k - 1) - m /\ (k - 1) - m \in 0 .. n
        BY <1>1, <2>2, <2>5
      <3>2. k - 1 \notin T
        <4>1. ~(k <= k - 1)
          BY <2>2
        <4> HIDE DEF T
        <4> QED BY <2>1, <4>1
      <3>3. Split(k - 1)
        BY <3>1, <3>2
      <3>4. PICK lo \in Nat : lo < P[(k - 1) - m] /\ g[k - 1] = P[(k - 1) - m] * g[m] + lo
        BY <3>3
      <3> DEFINE q == P[(k - 1) - m]
                 s == Significant(bytes, k)
      <3>5. q \in Nat \ {0} /\ s \in Nat /\ s <= 255
        <4>1. q \in Nat \ {0}
          BY <1>3, <3>1
        <4>2. s \in Octets
          BY <1>2, <3>1
        <4> HIDE DEF q, s
        <4> QED BY <4>1, <4>2 DEF Octets
      <3>6. P[k - m] = 256 * q /\ g[k] = 256 * g[k - 1] + s
        BY <1>2, <1>3, <3>1
      <3> HIDE DEF q, s
      <3>7. g[k - 1] = q * g[m] + lo /\ lo < q
        BY <3>4 DEF q
      <3>8. /\ 256 * lo + s \in Nat
            /\ 256 * lo + s < 256 * q
            /\ 256 * (q * g[m] + lo) + s = (256 * q) * g[m] + (256 * lo + s)
        BY <2>3, <3>5, <3>7
      <3>9. Split(k)
        BY <3>6, <3>7, <3>8
      <3> QED BY <2>2, <3>9
    <2> QED BY <2>4, <2>5
  <1>5. Split(n)
    <2>1. n \in m .. n
      BY <1>1
    <2> QED BY <1>4, <2>1
  <1>6. PICK lo \in Nat : lo < P[n - m] /\ g[n] = P[n - m] * g[m] + lo
    BY <1>5
  <1>7. P[n - m] \in Nat \ {0} /\ g[m] \in Nat /\ g[m - 1] \in Nat
    <2>1. n - m \in 0 .. n /\ m \in 0 .. n /\ m - 1 \in 0 .. n
      BY <1>1
    <2> QED BY <1>2, <1>3, <2>1
  <1>8. g[n] \div P[n - m] = g[m]
    <2>1. lo \in 0 .. P[n - m] - 1 /\ g[m] \in Int
      BY <1>6, <1>7
    <2>2. (P[n - m] * g[m] + lo) \div P[n - m] = g[m]
      BY <1>7, <2>1, DividedOnce
    <2> QED BY <1>6, <2>2
  <1>9. g[m] % 256 = Significant(bytes, m)
    <2>1. m \in 1 .. n
      BY <1>1
    <2>2. g[m] = 256 * g[m - 1] + Significant(bytes, m) /\ Significant(bytes, m) \in Octets
      BY <1>2, <2>1
    <2>3. (256 * g[m - 1] + Significant(bytes, m)) % 256 = Significant(bytes, m)
      BY <1>7, <2>2, LastByte
    <2> QED BY <2>2, <2>3
  <1> QED BY <1>2, <1>7, <1>8, <1>9 DEF P, n

\* Every byte of a number is the one it was read from.
LEMMA BytesOfNumber ==
    ASSUME NEW bytes \in Seq(Octets), NEW j \in 0 .. Len(bytes) - 1
    PROVE  (Number(bytes) \div PowersOf256(Len(bytes))[Place(j, Len(bytes))]) % 256
             = bytes[j + 1]
  <1> DEFINE n == Len(bytes)
             m == n - Place(j, n)
  <1>1. n \in Nat /\ j \in Nat /\ j < n
    OBVIOUS
  <1> HIDE DEF n
  <1>2. /\ Place(j, n) \in 0 .. n - 1 /\ m \in 1 .. n /\ n - m = Place(j, n)
        /\ (IF LittleEndian THEN n - m + 1 ELSE m) = j + 1
    BY <1>1 DEF Place
  <1> HIDE DEF m
  <1>3. (Number(bytes) \div PowersOf256(n)[n - m]) % 256 = Significant(bytes, m)
    BY <1>2, NumberDivided DEF n
  <1>4. Significant(bytes, m) = bytes[j + 1]
    BY <1>2 DEF Significant, n
  <1> QED BY <1>2, <1>3, <1>4 DEF n

LEMMA PrefixIs ==
    ASSUME NEW s \in Seq(Octets), NEW m \in Nat, m <= Len(s)
    PROVE  SubSeq(s, 1, m) = [i \in 1 .. m |-> s[i]]
  OBVIOUS

\* The item that a byte is of, and its place in it
LEMMA PieceOf ==
    ASSUME NEW n \in Nat \ {0}, NEW c \in Nat, NEW i \in 1 .. n * c
    PROVE  /\ (i - 1) \div n \in 0 .. c - 1
           /\ (i - 1) % n \in 0 .. n - 1
           /\ i - 1 = n * ((i - 1) \div n) + ((i - 1) % n)
  <1> DEFINE k == (i - 1) \div n
             j == (i - 1) % n
  <1>1. n * c \in Nat
    OBVIOUS
  <1>2. /\ k \in Int /\ j \in 0 .. n - 1 /\ i - 1 = n * k + j
        /\ i - 1 \in Nat /\ i - 1 < n * c
    BY <1>1, Divided
  <1> HIDE DEF k, j
  <1>3. n * k \in Int
    BY <1>2
  <1>4. k >= 0
    <2> SUFFICES ASSUME k < 0 PROVE FALSE
      BY <1>2
    <2>1. -1 - k \in Nat
      BY <1>2
    <2>2. n * (-1 - k) >= 0
      BY <2>1
    <2>3. n * (-1 - k) = 0 - n - n * k
      BY <1>2
    <2> QED BY <1>2, <1>3, <2>2, <2>3
  <1>5. k < c
    <2> SUFFICES ASSUME k >= c PROVE FALSE
      BY <1>2
    <2>1. k - c \in Nat
      BY <1>2
    <2>2. n * (k - c) >= 0
      BY <2>1
    <2>3. n * (k - c) = n * k - n * c
      BY <1>2
    <2> QED BY <1>1, <1>2, <1>3, <2>2, <2>3
  <1> QED BY <1>2, <1>4, <1>5 DEF k, j

\* The numbers of a stream that holds them all are packed as its bytes.
LEMMA PackedNumbers ==
    ASSUME stream \in Seq(Octets), NEW n \in Nat \ {0}, NEW c \in Nat, NEW items,
           n * c <= Len(stream), Len(items) = c,
           \A k \in 1 .. c : items[k] = Number(Piece(n, k))
    PROVE  Packed(items, n) = SubSeq(stream, 1, n * c)
  <1>1. n * c \in Nat /\ c * n = n * c /\ Len(stream) \in Nat
    OBVIOUS
  <1>2. ASSUME NEW i \in 1 .. n * c
        PROVE  (items[((i - 1) \div n) + 1]
                  \div PowersOf256(n)[Place((i - 1) % n, n)]) % 256 = stream[i]
    <2> DEFINE k == (i - 1) \div n
               j == (i - 1) % n
    <2>1. k \in 0 .. c - 1 /\ j \in 0 .. n - 1 /\ i - 1 = n * k + j
      BY PieceOf
    <2> HIDE DEF k, j
    <2>2. n * k \in Int
      BY <2>1
    <2>3. k \in Nat /\ k + 1 \in 1 .. c /\ (k + 1) - 1 = k /\ k * n = n * k /\ k * n \in Nat
      BY <2>1
    <2>4. k * n + n <= Len(stream)
      <3>1. c - (k + 1) \in Nat
        BY <2>1
      <3>2. n * (c - (k + 1)) >= 0
        BY <3>1
      <3>3. n * (c - (k + 1)) = n * c - n * k - n
        BY <2>3
      <3> QED BY <1>1, <2>2, <2>3, <3>2, <3>3
    <2> DEFINE bytes == Bytes(k * n, n)
    <2>5. /\ bytes \in Seq(Octets) /\ Len(bytes) = n
          /\ \A m \in 1 .. n : bytes[m] = stream[k * n + m]
      BY <2>3, <2>4, BytesThere
    <2>6. items[k + 1] = Number(bytes)
      BY <2>3 DEF Piece
    <2> HIDE DEF bytes
    <2>7. (Number(bytes) \div PowersOf256(n)[Place(j, n)]) % 256 = bytes[j + 1]
      <3>1. j \in 0 .. Len(bytes) - 1
        BY <2>1, <2>5
      <3> QED BY <2>5, <3>1, BytesOfNumber
    <2>8. bytes[j + 1] = stream[i]
      <3>1. j + 1 \in 1 .. n /\ k * n + (j + 1) = i
        BY <2>1, <2>2, <2>3
      <3> QED BY <2>5, <3>1
    <2> QED BY <2>6, <2>7, <2>8 DEF k, j
  <1>3. Packed(items, n) = [i \in 1 .. n * c |-> stream[i]]
    BY <1>1, <1>2 DEF Packed
  <1> QED BY <1>1, <1>3, PrefixIs

\* Zeros make the number zero.
LEMMA NumberOfZeros ==
    ASSUME NEW bytes \in Seq(Octets), \A i \in DOMAIN bytes : bytes[i] = 0
    PROVE  Number(bytes) = 0
  <1> DEFINE n == Len(bytes)
  <1>1. n \in Nat /\ DOMAIN bytes = 1 .. n
    OBVIOUS
  <1>2. PICK g \in [0 .. n -> Nat] :
           /\ g[0] = 0
           /\ \A k \in 1 .. n : g[k] = 256 * g[k - 1] + Significant(bytes, k)
           /\ Number(bytes) = g[n]
    BY NumberIs
  <1>3. \A k \in 1 .. n : Significant(bytes, k) = 0
    <2> SUFFICES ASSUME NEW k \in 1 .. n PROVE Significant(bytes, k) = 0
      OBVIOUS
    <2>1. n - k + 1 \in 1 .. n
      BY <1>1
    <2>2. Significant(bytes, k) = bytes[IF LittleEndian THEN n - k + 1 ELSE k]
      BY DEF Significant
    <2> HIDE DEF n
    <2> QED BY <1>1, <2>1, <2>2
  <1> HIDE DEF n
  <1> DEFINE T == {k \in 0 .. n : g[k] # 0}
  <1>4. T = {}
    <2> SUFFICES ASSUME T # {} PROVE FALSE
      OBVIOUS
    <2>1. PICK k \in T : \A m \in T : k <= m
      <3>1. T \in SUBSET Nat
        BY <1>1
      <3> HIDE DEF T
      <3> QED BY <3>1, Least
    <2>2. k \in 1 .. n
      BY <1>1, <1>2, <2>1
    <2>3. k - 1 \in 0 .. n /\ k \in Int
      BY <1>1, <2>2
    <2>4. k - 1 \notin T
      <3> HIDE DEF T
      <3> QED BY <2>1, <2>3
    <2>5. g[k - 1] = 0
      BY <2>3, <2>4
    <2>6. g[k] = 0
      BY <1>2, <1>3, <2>2, <2>5
    <2> QED BY <2>1, <2>6
  <1> QED BY <1>1, <1>2, <1>4

\* s is n zeros.
Zeros(s, n) == DOMAIN s = 1 .. n /\ Len(s) = n /\ \A j \in 1 .. n : s[j] = 0

\* Zeros are packed as zeros.
LEMMA PackedZeros ==
    ASSUME NEW c \in Nat, NEW n \in Nat \ {0}, NEW items,
           Len(items) = c, \A k \in 1 .. c : items[k] = 0
    PROVE  Zeros(Packed(items, n), n * c)
  <1>1. n * c \in Nat /\ c * n = n * c
    OBVIOUS
  <1>2. ASSUME NEW i \in 1 .. n * c
        PROVE  (items[((i - 1) \div n) + 1]
                  \div PowersOf256(n)[Place((i - 1) % n, n)]) % 256 = 0
    <2> DEFINE k == (i - 1) \div n
               j == (i - 1) % n
               p == PowersOf256(n)[Place(j, n)]
    <2>1. k \in 0 .. c - 1 /\ j \in 0 .. n - 1
      BY PieceOf
    <2>2. items[k + 1] = 0
      BY <2>1
    <2>3. Place(j, n) \in 0 .. n
      BY <2>1 DEF Place
    <2>4. p \in Nat \ {0}
      BY <2>3, PowersAre
    <2> HIDE DEF k, j, p
    <2>5. 0 \div p = 0 /\ 0 % 256 = 0
      <3>1. 0 \in 0 .. p - 1 /\ p * 0 + 0 = 0
        BY <2>4
      <3>2. (p * 0 + 0) \div p = 0
        BY <2>4, <3>1, DividedOnce
      <3> QED BY <3>1, <3>2
    <2>6. (items[k + 1] \div p) % 256 = 0
      BY <2>2, <2>5
    <2> QED BY <2>6 DEF k, j, p
  <1>3. Packed(items, n) = [i \in 1 .. n * c |-> 0]
    BY <1>1, <1>2 DEF Packed
  <1> QED BY <1>1, <1>3 DEF Zeros

LEMMA MappedKeeps ==
    ASSUME NEW f, NEW sort, NEW items, NEW used
    PROVE  LET r == Mapped(f, Ok(sort, items, used))
           IN Succeeded(r) /\ r.kind = sort /\ r.items = items /\ r.used = used
  BY DEF Mapped, Ok, Succeeded

\* What the writers make of a result that is of the type's kind
LEMMA WrittenIs ==
    ASSUME NEW f \in FieldsOf, NEW v,
           v.kind = IF f.class \in Texts THEN "text"
                    ELSE IF f.form = "one" THEN "number" ELSE "list",
           NEW items, items = IF f.form = "null" THEN Append(v.items, 0) ELSE v.items,
           ~(f.class \in Pointers /\ Len(items) > 0),
           ~(f.class = "struct" /\ f.form = "null")
    PROVE  Written(f, v) = Ok("text", Packed(items, Size(f)), 0)
  BY DEF Written

\* The numbers of the values of a field
LEMMA NumbersAre ==
    ASSUME stream \in Seq(Octets), NEW n \in Nat \ {0}, NEW c \in Nat
    PROVE  /\ Numbers(n, c) \in Seq(Nat) /\ Len(Numbers(n, c)) = c
           /\ \A k \in 1 .. c : Numbers(n, c)[k] = Number(Piece(n, k))
  <1>1. ASSUME NEW k \in 1 .. c PROVE Number(Piece(n, k)) \in Nat
    <2> DEFINE bytes == Piece(n, k)
    <2>1. (k - 1) * n \in Nat
      OBVIOUS
    <2>2. bytes \in Seq(Octets)
      BY <2>1, BytesAre DEF Piece
    <2> HIDE DEF bytes
    <2>3. PICK g \in [0 .. Len(bytes) -> Nat] : Number(bytes) = g[Len(bytes)]
      BY <2>2, NumberIs
    <2>4. Len(bytes) \in 0 .. Len(bytes)
      BY <2>2
    <2> QED BY <2>3, <2>4 DEF bytes
  <1> DEFINE s == [k \in 1 .. c |-> Number(Piece(n, k))]
  <1>2. s \in Seq(Nat) /\ Len(s) = c
    BY <1>1
  <1> QED BY <1>2 DEF Numbers

\* The numbers of the first pieces of a stream are written as those pieces.
LEMMA ItemsAreRestored ==
    ASSUME stream \in Seq(Octets), NEW f \in FieldsOf, NEW v, NEW c \in Nat, NEW items,
           v.kind = IF f.class \in Texts THEN "text"
                    ELSE IF f.form = "one" THEN "number" ELSE "list",
           v.used = Size(f) * c, Size(f) * c <= Len(stream),
           items = IF f.form = "null" THEN Append(v.items, 0) ELSE v.items,
           Len(items) = c, \A k \in 1 .. c : items[k] = Number(Piece(Size(f), k)),
           f.class \notin Pointers, ~(f.class = "struct" /\ f.form = "null")
    PROVE  /\ Succeeded(Written(f, v))
           /\ Written(f, v).items = SubSeq(stream, 1, v.used)
  <1>1. Written(f, v) = Ok("text", Packed(items, Size(f)), 0)
    BY WrittenIs
  <1>2. Packed(items, Size(f)) = SubSeq(stream, 1, Size(f) * c)
    <2>1. Size(f) \in Nat \ {0}
      BY FieldNumbers
    <2> QED BY <2>1, PackedNumbers
  <1> QED BY <1>1, <1>2 DEF Ok, Succeeded

\* What the types read from a stream that holds it is written back.
LEMMA ReadIsRestored ==
    ASSUME stream \in Seq(Octets), NEW f \in FieldsOf, Whole(f),
           f.class \notin Pointers, Succeeded(Interpreted(f))
    PROVE  /\ Succeeded(Written(f, Interpreted(f)))
           /\ Written(f, Interpreted(f)).items = SubSeq(stream, 1, Interpreted(f).used)
  <1> DEFINE n == Size(f)
             v == Interpreted(f)
             sort == IF f.class \in Texts THEN "text"
                     ELSE IF f.form = "one" THEN "number" ELSE "list"
  <1>1. /\ n \in Nat \ {0} /\ Count(f) \in Nat
        /\ f.form = "one" => Count(f) = 1
        /\ f.form \in {"one", "fixed", "expression", "null"}
    BY FieldNumbers
  <1>2. CASE f.form # "null"
    <2> DEFINE c == Count(f)
    <2>1. n * c <= Len(stream) /\ c \in Nat
      BY <1>1, <1>2 DEF Whole
    <2>2. ReadArray(f, c) = Ok(IF f.class \in Texts THEN "text" ELSE "list",
                               Numbers(n, c), n * c)
      BY <2>1, WholeRead
    <2>3. v = Mapped(f, Ok(sort, Numbers(n, c), n * c))
      <3>1. CASE f.form = "one"
        <4>1. ReadArray(f, 1) = Ok(IF f.class \in Texts THEN "text" ELSE "list",
                                   Numbers(n, c), n * c)
          BY <1>1, <2>2, <3>1
        <4> HIDE DEF n, c
        <4> DEFINE list == Numbers(n, c)
                   need == n * c
                   read == Ok(IF f.class \in Texts THEN "text" ELSE "list", list, need)
                   single == Ok(IF f.class \in Texts THEN "text" ELSE "number", list, need)
        <4>2. ReadOne(f) = IF read.kind = "list" THEN [read EXCEPT !.kind = "number"] ELSE read
          BY <4>1 DEF ReadOne
        <4> HIDE DEF list, need
        <4>3. ReadOne(f) = single
          BY <4>2 DEF Ok
        <4>4. ReadOne(f) = Ok(sort, Numbers(n, c), n * c)
          BY <3>1, <4>3 DEF list, need
        <4> QED BY <3>1, <4>4 DEF Interpreted
      <3>2. CASE f.form # "one"
        <4>1. ReadElements(f) = Ok(sort, Numbers(n, c), n * c)
          BY <2>2, <3>2 DEF ReadElements, Pointers
        <4> QED BY <1>2, <3>2, <4>1 DEF Interpreted
      <3> QED BY <3>1, <3>2
    <2>4. v.kind = sort /\ v.items = Numbers(n, c) /\ v.used = n * c
      <3> HIDE DEF v, sort
      <3> QED BY <2>3, MappedKeeps
    <2>5. Len(v.items) = c /\ \A k \in 1 .. c : v.items[k] = Number(Piece(n, k))
      <3> HIDE DEF n, c, v
      <3> QED BY <1>1, <2>1, <2>4, NumbersAre
    <2> HIDE DEF v, c
    <2> QED BY <1>2, <2>1, <2>4, <2>5, ItemsAreRestored DEF v
  <1>3. CASE f.form = "null"
    <2>1. f.class \notin {"struct", "pointer"}
      <3> SUFFICES ASSUME f.class \in {"struct", "pointer"} PROVE FALSE
        OBVIOUS
      <3>1. v = Mapped(f, Raised("NotImplementedError"))
        BY <1>3 DEF Interpreted, ReadNull
      <3> QED BY <3>1 DEF Mapped, Raised, Succeeded
    <2>2. PICK e \in Terminators(f) : e * n <= Len(stream)
      BY <1>3 DEF Whole
    <2> DEFINE end == Min(Terminators(f))
               used == Len(Bytes(0, end * n))
               items == Numbers(n, end - 1)
    <2>3. v = Mapped(f, Ok(sort, items, used))
      <3>1. Terminators(f) # {}
        BY <2>2
      <3>2. ReadNull(f) = Ok(sort, items, used)
        BY <1>3, <2>1, <3>1 DEF ReadNull
      <3> QED BY <1>3, <3>2 DEF Interpreted
    <2>4. v.kind = sort /\ v.items = items /\ v.used = used
      <3> HIDE DEF v, sort, items, used
      <3> QED BY <2>3, MappedKeeps
    <2>5. Terminators(f) \in SUBSET Nat /\ \A k \in Terminators(f) : k >= 1
      <3>1. Len(stream) \div n \in Int
        <4>1. Len(stream) \in Int
          OBVIOUS
        <4> HIDE DEF n
        <4> QED BY <1>1, <4>1, Divided
      <3>2. Terminators(f) \in SUBSET (1 .. (Len(stream) \div n) + 2)
        BY DEF Terminators
      <3> HIDE DEF n
      <3> QED BY <3>1, <3>2
    <2>6. end \in Terminators(f) /\ end <= e
      <3>1. \E x \in Terminators(f) : \A y \in Terminators(f) : x <= y
        BY <2>2, <2>5, Least
      <3> QED BY <2>2, <3>1 DEF Min
    <2> HIDE DEF end
    <2>7. end \in Nat \ {0} /\ end * n \in Nat /\ end * n <= Len(stream) /\ n * end = end * n
      <3> HIDE DEF n
      <3>1. end >= 1 /\ end \in Nat /\ e \in Nat
        BY <2>2, <2>5, <2>6
      <3>2. e - end \in Nat
        BY <2>6, <3>1
      <3>3. (e - end) * n >= 0 /\ (e - end) * n = e * n - end * n
        BY <1>1, <3>1, <3>2
      <3>4. Len(stream) \in Nat /\ e * n \in Nat /\ end * n \in Nat
        BY <1>1, <3>1
      <3> QED BY <1>1, <2>2, <3>1, <3>3, <3>4
    <2>8. used = n * end
      <3> HIDE DEF n
      <3>1. 0 + end * n <= Len(stream)
        BY <2>7
      <3> QED BY <2>7, <3>1, BytesThere
    <2>9. Number(Piece(n, end)) = 0
      <3>1. \A j \in DOMAIN Piece(n, end) : Piece(n, end)[j] = 0
        BY <2>6 DEF Terminators
      <3> HIDE DEF n
      <3>2. (end - 1) * n \in Nat
        BY <1>1, <2>7
      <3>3. Piece(n, end) \in Seq(Octets)
        BY <1>1, <3>2, BytesAre DEF Piece
      <3> QED BY <3>1, <3>3, NumberOfZeros
    <2> DEFINE all == Append(v.items, 0)
    <2>10. Len(all) = end /\ \A k \in 1 .. end : all[k] = Number(Piece(n, k))
      <3> HIDE DEF n, v
      <3>1. end - 1 \in Nat
        BY <2>7
      <3>2. /\ items \in Seq(Nat) /\ Len(items) = end - 1
            /\ \A k \in 1 .. end - 1 : items[k] = Number(Piece(n, k))
        BY <1>1, <3>1, NumbersAre
      <3> HIDE DEF items
      <3>3. /\ Len(Append(items, 0)) = end
            /\ \A k \in 1 .. end - 1 : Append(items, 0)[k] = items[k]
            /\ Append(items, 0)[end] = 0
        BY <2>7, <3>2
      <3> QED BY <2>4, <2>7, <2>9, <3>2, <3>3
    <2> HIDE DEF v, all, used
    <2>11. v.used = n * end /\ n * end <= Len(stream)
      BY <2>4, <2>7, <2>8
    <2> QED BY <1>3, <2>1, <2>4, <2>7, <2>10, <2>11, ItemsAreRestored DEF v, all
  <1> QED BY <1>2, <1>3

(***************************************************************************)
(* ArraysAreRestored: what _read, _read_array and _read_0 return of a      *)
(* stream that holds it is what _write, _write_array and _write_0 turn     *)
(* into the same bytes, for every class, size, count and byte order.       *)
(***************************************************************************)
THEOREM ReadArraysAreRestored == ArraysSpec => []ArraysAreRestored
  <1>1. ArraysInv => ArraysAreRestored
    <2> SUFFICES ASSUME ArraysInv, Succeeded(value), ~defaulted, Whole(field),
                        dumped # NotDone, field.class \notin Pointers
                 PROVE  Succeeded(dumped) /\ dumped.items = SubSeq(stream, 1, value.used)
      BY DEF ArraysAreRestored
    <2>1. ~Succeeded(NotDone)
      BY DEF NotDone, Raised, Succeeded
    <2>2. /\ value = Interpreted(field) /\ dumped = Written(field, value)
          /\ field \in FieldsOf /\ stream \in Seq(Octets)
      BY <2>1 DEF ArraysInv
    <2> QED BY <2>2, ReadIsRestored
  <1> QED BY <1>1, ArraysInvariant, PTL

\* Items that are zero are written as so many bytes that are.
LEMMA ZerosAreWritten ==
    ASSUME NEW f \in FieldsOf, NEW v, NEW items, NEW c \in Nat,
           v.kind = IF f.class \in Texts THEN "text"
                    ELSE IF f.form = "one" THEN "number" ELSE "list",
           items = IF f.form = "null" THEN Append(v.items, 0) ELSE v.items,
           Len(items) = c, \A k \in 1 .. c : items[k] = 0,
           ~(f.class \in Pointers /\ c > 0),
           ~(f.class = "struct" /\ f.form = "null")
    PROVE  /\ Succeeded(Written(f, v))
           /\ \A i \in DOMAIN Written(f, v).items : Written(f, v).items[i] = 0
           /\ Len(Written(f, v).items) = Size(f) * c
  <1>1. Size(f) \in Nat \ {0}
    BY FieldNumbers
  <1>2. Written(f, v) = Ok("text", Packed(items, Size(f)), 0)
    BY WrittenIs
  <1>3. Written(f, v).items = Packed(items, Size(f)) /\ Succeeded(Written(f, v))
    BY <1>2 DEF Ok, Succeeded
  <1> DEFINE n == Size(f)
             w == Written(f, v)
  <1>4. w.items = Packed(items, n) /\ Succeeded(w)
    BY <1>3
  <1>5. n \in Nat \ {0}
    BY <1>1
  <1> HIDE DEF n, w
  <1>6. Zeros(Packed(items, n), n * c)
    BY <1>5, PackedZeros
  <1>7. (\A j \in DOMAIN w.items : w.items[j] = 0) /\ Len(w.items) = n * c
    BY <1>4, <1>6 DEF Zeros
  <1> QED BY <1>4, <1>7 DEF n, w

LEMMA DefaultIsWritten ==
    ASSUME NEW f \in FieldsOf, Succeeded(Default(f)),
           ~(f.class \in Texts /\ f.form \in {"expression", "null"}),
           ~(f.class \in {"pointer", "struct"} /\ f.form = "null")
    PROVE  LET w == Written(f, Default(f))
           IN /\ Succeeded(w)
              /\ \A i \in DOMAIN w.items : w.items[i] = 0
              /\ Len(w.items) = Size(f) * CASE f.form = "null" -> 1
                                            [] f.form = "expression" -> 0
                                            [] OTHER -> f.count
  <1> DEFINE v == Default(f)
  <1>1. /\ f.class \in Classes /\ f.count \in Int
        /\ f.form \in {"one", "fixed", "expression", "null"}
        /\ f.form = "one" => f.count = 1
        /\ f.form = "fixed" => f.count \in Nat
        /\ f.class = "array*" => f.form = "one"
    BY FieldNumbers
  <1>2. CASE f.form = "expression"
    <2>1. v = Ok("list", <<>>, 0)
      BY <1>2 DEF Default
    <2>2. v.kind = "list" /\ v.items = <<>>
      BY <2>1 DEF Ok
    <2>3. Len(v.items) = 0 /\ \A k \in 1 .. 0 : v.items[k] = 0
      BY <2>2
    <2> HIDE DEF v
    <2>4. /\ Succeeded(Written(f, v))
          /\ \A i \in DOMAIN Written(f, v).items : Written(f, v).items[i] = 0
          /\ Len(Written(f, v).items) = Size(f) * 0
      BY <1>2, <2>2, <2>3, ZerosAreWritten
    <2> QED BY <1>2, <2>4 DEF v
  <1>3. CASE f.form = "null"
    <2>1. v = Ok("list", <<>>, 0)
      BY <1>3 DEF Default
    <2>2. v.kind = "list" /\ v.items = <<>>
      BY <2>1 DEF Ok
    <2> DEFINE all == Append(v.items, 0)
    <2>3. Len(all) = 1 /\ \A k \in 1 .. 1 : all[k] = 0
      BY <2>2
    <2>4. f.class \notin Pointers /\ f.class # "struct" /\ f.class \notin Texts
      BY <1>1, <1>3 DEF Pointers
    <2> HIDE DEF v, all
    <2>5. /\ Succeeded(Written(f, v))
          /\ \A i \in DOMAIN Written(f, v).items : Written(f, v).items[i] = 0
          /\ Len(Written(f, v).items) = Size(f) * 1
      <3>1. ~(f.class \in Pointers /\ 1 > 0) /\ 1 \in Nat
        BY <2>4
      <3> QED BY <1>3, <2>2, <2>3, <2>4, <3>1, ZerosAreWritten DEF all
    <2> QED BY <1>3, <2>5 DEF v
  <1>4. CASE f.form \in {"one", "fixed"}
    <2> DEFINE sort == IF f.class \in Texts THEN "text"
                       ELSE IF f.form = "one" THEN "number" ELSE "list"
    <2>1. ~(f.class \in Pointers /\ f.count > 0)
      <3> SUFFICES ASSUME f.class \in Pointers, f.count > 0 PROVE FALSE
        OBVIOUS
      <3>1. v = Raised("NotImplementedError")
        BY <1>4 DEF Default
      <3> QED BY <3>1 DEF Raised, Succeeded
    <2>2. v = Mapped(f, Ok(sort, DefaultItems(f), 0))
      BY <1>4, <2>1 DEF Default
    <2>3. v.kind = sort /\ v.items = DefaultItems(f)
      BY <2>2, MappedKeeps
    <2>4. f.count \in Nat
      BY <1>1, <1>4
    <2>5. Len(DefaultItems(f)) = f.count /\ \A k \in 1 .. f.count : DefaultItems(f)[k] = 0
      BY <2>4 DEF DefaultItems
    <2> HIDE DEF v
    <2>6. /\ Succeeded(Written(f, v))
          /\ \A i \in DOMAIN Written(f, v).items : Written(f, v).items[i] = 0
          /\ Len(Written(f, v).items) = Size(f) * f.count
      BY <1>4, <2>1, <2>3, <2>4, <2>5, ZerosAreWritten
    <2> QED BY <1>4, <2>6 DEF v
  <1> QED BY <1>1, <1>2, <1>3, <1>4

(***************************************************************************)
(* DefaultsAreWritten: what default gives is written as zeros, as many as  *)
(* the field takes, for every field but texts without a fixed count, whose *)
(* default is a list, and null-terminated pointers and structures, which   *)
(* cannot be written.                                                      *)
(***************************************************************************)
THEOREM DefaultsAreZeros == ArraysSpec => []DefaultsAreWritten
  <1>1. ArraysInv => DefaultsAreWritten
    <2> SUFFICES ASSUME ArraysInv, defaulted, dumped # NotDone,
                        ~(field.class \in Texts /\ field.form \in {"expression", "null"}),
                        ~(field.class \in {"pointer", "struct"} /\ field.form = "null")
                 PROVE  /\ Succeeded(dumped)
                        /\ \A i \in DOMAIN dumped.items : dumped.items[i] = 0
                        /\ Len(dumped.items) =
                             Size(field) * CASE field.form = "null" -> 1
                                             [] field.form = "expression" -> 0
                                             [] OTHER -> field.count
      BY DEF DefaultsAreWritten
    <2>1. /\ value = Default(field) /\ dumped = Written(field, value)
          /\ field \in FieldsOf /\ Succeeded(value)
      BY DEF ArraysInv
    <2> QED BY <2>1, DefaultIsWritten
  <1> QED BY <1>1, ArraysInvariant, PTL

-----------------------------------------------------------------------------
(* Powers of two, and bits *)

\* The powers up to a number are the first of those up to a larger one.
LEMMA PowersContinue ==
    ASSUME NEW b, NEW n \in Nat, NEW m \in Nat, m <= n,
           NEW p, Powers(p, b, m), NEW q, Powers(q, b, n)
    PROVE  \A k \in 0 .. m : p[k] = q[k]
  <1> DEFINE T == {k \in 0 .. m : p[k] # q[k]}
  <1> SUFFICES ASSUME T # {} PROVE FALSE
    OBVIOUS
  <1>1. PICK k \in T : \A j \in T : k <= j
    <2>1. T \in SUBSET Nat
      OBVIOUS
    <2> HIDE DEF T
    <2> QED BY <2>1, Least
  <1>2. k \in 0 .. m /\ k \in 0 .. n
    BY <1>1
  <1>3. /\ p[k] = IF k = 0 THEN 1 ELSE b * p[k - 1]
        /\ q[k] = IF k = 0 THEN 1 ELSE b * q[k - 1]
    BY <1>2 DEF Powers
  <1>4. k # 0 => k - 1 \in 0 .. m /\ k - 1 \notin T
    <2>1. k # 0 => k - 1 \in 0 .. m /\ ~(k <= k - 1)
      BY <1>2
    <2> HIDE DEF T
    <2> QED BY <1>1, <2>1
  <1> QED BY <1>1, <1>3, <1>4

LEMMA TwosAreAll ==
    /\ PowerOf2[0] = 1
    /\ \A k \in Nat \ {0} : PowerOf2[k] = 2 * PowerOf2[k - 1]
    /\ \A k \in Nat : PowerOf2[k] \in Nat \ {0}
  <1> DEFINE P(p) == p = [k \in Nat |-> IF k = 0 THEN 1 ELSE 2 * p[k - 1]]
             c == CHOOSE p : P(p)
             Upto(k) == CHOOSE p : Powers(p, 2, k)
             h == [k \in Nat |-> Upto(k)[k]]
  <1>1. \A k \in Nat : Powers(Upto(k), 2, k)
    BY PowersExist
  <1>2. ASSUME NEW k \in Nat
        PROVE  h[k] = IF k = 0 THEN 1 ELSE 2 * h[k - 1]
    <2> HIDE DEF Upto
    <2>1. Upto(k)[k] = IF k = 0 THEN 1 ELSE 2 * Upto(k)[k - 1]
      BY <1>1 DEF Powers
    <2>2. CASE k = 0
      BY <2>1, <2>2
    <2>3. CASE k # 0
      <3>1. k - 1 \in Nat /\ k - 1 <= k /\ k - 1 \in 0 .. k - 1
        BY <2>3
      <3>2. Upto(k - 1)[k - 1] = Upto(k)[k - 1]
        BY <1>1, <3>1, PowersContinue
      <3>3. h[k - 1] = Upto(k - 1)[k - 1] /\ h[k] = Upto(k)[k]
        BY <3>1
      <3> QED BY <2>1, <2>3, <3>2, <3>3
    <2> QED BY <2>2, <2>3
  <1>3. P(h)
    <2>1. h = [k \in Nat |-> h[k]]
      OBVIOUS
    <2> HIDE DEF h
    <2> QED BY <1>2, <2>1
  <1>4. P(c)
    <2> HIDE DEF P, h
    <2> QED BY <1>3
  <1>5. PowerOf2 = c
    BY DEF PowerOf2
  <1> HIDE DEF c
  <1>6. ASSUME NEW n \in Nat PROVE Powers([k \in 0 .. n |-> c[k]], 2, n)
    BY <1>4 DEF Powers
  <1>7. \A n \in Nat : c[n] \in Nat \ {0}
    <2> TAKE n \in Nat
    <2> DEFINE p == [k \in 0 .. n |-> c[k]]
    <2>1. Powers(p, 2, n)
      BY <1>6
    <2>2. p[n] = c[n] /\ n \in 0 .. n
      OBVIOUS
    <2> HIDE DEF p
    <2>3. \A k \in 0 .. n : p[k] \in Nat \ {0}
      BY <2>1, PowersArePositive
    <2> QED BY <2>2, <2>3
  <1> QED BY <1>4, <1>5, <1>7

LEMMA TwosAre ==
    /\ SignBit \in Nat \ {0}
    /\ PowerOf2[0] = 1
    /\ \A k \in 1 .. SignBit : PowerOf2[k] = 2 * PowerOf2[k - 1]
    /\ \A k \in 0 .. SignBit : PowerOf2[k] \in Nat \ {0}
  BY TwosAreAll, SignBitAssumption

\* A power is the product of those of the parts of its exponent.
LEMMA TwosMultiply ==
    ASSUME NEW j \in 0 .. SignBit, NEW k \in 0 .. SignBit, j <= k
    PROVE  PowerOf2[k] = PowerOf2[j] * PowerOf2[k - j]
  <1> DEFINE T == {d \in 0 .. SignBit - j : PowerOf2[j + d] # PowerOf2[j] * PowerOf2[d]}
  <1>1. /\ SignBit \in Nat /\ j \in Nat /\ PowerOf2[0] = 1
        /\ \A m \in 1 .. SignBit : PowerOf2[m] = 2 * PowerOf2[m - 1]
        /\ \A m \in 0 .. SignBit : PowerOf2[m] \in Nat \ {0}
    BY TwosAre
  <1>2. T = {}
    <2> SUFFICES ASSUME T # {} PROVE FALSE
      OBVIOUS
    <2>1. PICK d \in T : \A m \in T : d <= m
      <3>1. T \in SUBSET Nat
        OBVIOUS
      <3> HIDE DEF T
      <3> QED BY <3>1, Least
    <2>2. d \in 1 .. SignBit - j
      BY <1>1, <2>1
    <2>3. /\ d - 1 \in 0 .. SignBit - j /\ d \in Int /\ d \in 1 .. SignBit
          /\ j + d \in 1 .. SignBit /\ (j + d) - 1 = j + (d - 1)
      BY <1>1, <2>2
    <2>4. d - 1 \notin T
      <3> HIDE DEF T
      <3> QED BY <2>1, <2>3
    <2>5. PowerOf2[j + (d - 1)] = PowerOf2[j] * PowerOf2[d - 1]
      BY <2>3, <2>4
    <2>6. /\ PowerOf2[j + d] = 2 * PowerOf2[j + (d - 1)]
          /\ PowerOf2[d] = 2 * PowerOf2[d - 1]
          /\ PowerOf2[j] \in Int /\ PowerOf2[d - 1] \in Int
      BY <1>1, <2>3
    <2>7. PowerOf2[j + d] = PowerOf2[j] * PowerOf2[d]
      BY <2>5, <2>6
    <2> QED BY <2>1, <2>7
  <1>3. k - j \in 0 .. SignBit - j /\ j + (k - j) = k
    BY <1>1
  <1> QED BY <1>2, <1>3

LEMMA TwosAscend ==
    ASSUME NEW j \in 0 .. SignBit, NEW k \in 0 .. SignBit
    PROVE  /\ j <= k => PowerOf2[j] <= PowerOf2[k]
           /\ j < k => PowerOf2[j] < PowerOf2[k]
  <1>1. SignBit \in Nat /\ \A m \in 0 .. SignBit : PowerOf2[m] \in Nat \ {0}
    BY TwosAre
  <1>2. ASSUME j <= k PROVE PowerOf2[j] <= PowerOf2[k]
    <2> DEFINE a == PowerOf2[j]
               b == PowerOf2[k - j]
    <2>1. a \in Nat /\ b \in Nat \ {0} /\ PowerOf2[k] = a * b
      <3>1. k - j \in 0 .. SignBit
        BY <1>1, <1>2
      <3> QED BY <1>1, <1>2, <3>1, TwosMultiply
    <2> HIDE DEF a, b
    <2>2. b - 1 \in Nat
      BY <2>1
    <2>3. a * (b - 1) >= 0 /\ a * (b - 1) = a * b - a
      BY <2>1, <2>2
    <2> QED BY <2>1, <2>3 DEF a
  <1>3. ASSUME j < k PROVE PowerOf2[j] < PowerOf2[k]
    <2> DEFINE a == PowerOf2[j]
               b == PowerOf2[(k - j) - 1]
    <2>1. a \in Nat \ {0} /\ b \in Nat \ {0} /\ PowerOf2[k] = a * (2 * b)
      <3>1. k - j \in 1 .. SignBit /\ (k - j) - 1 \in 0 .. SignBit /\ k - j \in 0 .. SignBit
        BY <1>1, <1>3
      <3>2. PowerOf2[k - j] = 2 * PowerOf2[(k - j) - 1]
        BY <3>1, TwosAre
      <3>3. PowerOf2[k] = PowerOf2[j] * PowerOf2[k - j]
        BY <1>3, TwosMultiply
      <3> QED BY <1>1, <3>1, <3>2, <3>3
    <2> HIDE DEF a, b
    <2>2. b - 1 \in Nat
      BY <2>1
    <2>3. a * (b - 1) >= 0 /\ a * (2 * b) = 2 * (a * (b - 1)) + 2 * a /\ a * (b - 1) \in Int
      BY <2>1, <2>2
    <2>4. a < a * (2 * b)
      BY <2>1, <2>3
    <2> QED BY <2>1, <2>4 DEF a
  <1> QED BY <1>2, <1>3

\* A number below a power does not have its bit.
LEMMA NoBitAbove ==
    ASSUME NEW k \in 0 .. SignBit, NEW n \in Nat, n < PowerOf2[k]
    PROVE  k \notin BitsOf(n)
  <1> DEFINE r == PowerOf2[k]
  <1>1. r \in Nat \ {0} /\ n \in 0 .. r - 1
    BY TwosAre
  <1> HIDE DEF r
  <1>2. (r * 0 + n) \div r = 0 /\ r * 0 + n = n
    BY <1>1, DividedOnce
  <1>3. n \div PowerOf2[k] = 0
    BY <1>2 DEF r
  <1> QED BY <1>3 DEF BitsOf

\* A power of two has one bit.
LEMMA BitsOfPower ==
    ASSUME NEW k \in 0 .. SignBit
    PROVE  BitsOf(PowerOf2[k]) = {k}
  <1>1. SignBit \in Nat /\ \A m \in 0 .. SignBit : PowerOf2[m] \in Nat \ {0}
    BY TwosAre
  <1>2. k \in BitsOf(PowerOf2[k])
    <2> DEFINE r == PowerOf2[k]
    <2>1. r \in Nat \ {0}
      BY <1>1
    <2> HIDE DEF r
    <2>2. (r * 1 + 0) \div r = 1 /\ r * 1 + 0 = r
      <3>1. 0 \in 0 .. r - 1
        BY <2>1
      <3> QED BY <2>1, <3>1, DividedOnce
    <2>3. PowerOf2[k] \div PowerOf2[k] = 1
      BY <2>2 DEF r
    <2> QED BY <2>3 DEF BitsOf
  <1>3. ASSUME NEW p \in BitsOf(PowerOf2[k]), p < k PROVE FALSE
    <2> DEFINE r == PowerOf2[p]
               q == PowerOf2[(k - p) - 1]
    <2>1. p \in 0 .. SignBit /\ (PowerOf2[k] \div PowerOf2[p]) % 2 = 1
      BY DEF BitsOf
    <2>2. r \in Nat \ {0} /\ q \in Nat /\ PowerOf2[k] = r * (2 * q)
      <3>1. k - p \in 1 .. SignBit /\ (k - p) - 1 \in 0 .. SignBit
        BY <1>1, <1>3, <2>1
      <3>2. PowerOf2[k - p] = 2 * PowerOf2[(k - p) - 1]
        BY <3>1, TwosAre
      <3>3. PowerOf2[k] = PowerOf2[p] * PowerOf2[k - p]
        BY <1>3, <2>1, TwosMultiply
      <3> QED BY <1>1, <2>1, <3>1, <3>2, <3>3
    <2>3. (PowerOf2[k] \div r) % 2 = 1
      BY <2>1
    <2> HIDE DEF r, q
    <2>4. 0 \in 0 .. r - 1 /\ 2 * q \in Int /\ r * (2 * q) + 0 = r * (2 * q)
      BY <2>2
    <2>5. (r * (2 * q) + 0) \div r = 2 * q
      BY <2>2, <2>4, DividedOnce
    <2>6. (2 * q) % 2 = 0
      BY <2>2
    <2> QED BY <2>2, <2>3, <2>4, <2>5, <2>6
  <1>4. ASSUME NEW p \in BitsOf(PowerOf2[k]), p > k PROVE FALSE
    <2>1. p \in 0 .. SignBit
      BY DEF BitsOf
    <2>2. PowerOf2[k] < PowerOf2[p] /\ PowerOf2[k] \in Nat
      BY <1>1, <1>4, <2>1, TwosAscend
    <2> QED BY <2>1, <2>2, <1>4, NoBitAbove
  <1>5. \A p \in BitsOf(PowerOf2[k]) : p \in Int
    BY DEF BitsOf
  <1> QED BY <1>2, <1>3, <1>4, <1>5

\* The length of a number is at most that of any power above it.
LEMMA LengthIs ==
    ASSUME NEW v \in Nat, NEW w \in 0 .. SignBit, v < PowerOf2[w]
    PROVE  BitLength(v) \in 0 .. w /\ v < PowerOf2[BitLength(v)]
  <1> DEFINE Fits(k) == v \in 1 - PowerOf2[k] .. PowerOf2[k] - 1
             L(k) == Fits(k) /\ \A j \in 0 .. k - 1 : ~Fits(j)
             T == {k \in 0 .. SignBit : Fits(k)}
             c == CHOOSE k \in 0 .. SignBit : L(k)
  <1>1. SignBit \in Nat /\ \A m \in 0 .. SignBit : PowerOf2[m] \in Nat \ {0}
    BY TwosAre
  <1>2. \A m \in 0 .. SignBit : Fits(m) <=> v < PowerOf2[m]
    BY <1>1
  <1>3. T # {}
    BY <1>2
  <1>4. PICK k \in T : \A m \in T : k <= m
    <2>1. T \in SUBSET Nat
      BY <1>1
    <2> HIDE DEF T
    <2> QED BY <1>3, <2>1, Least
  <1>5. k \in 0 .. SignBit /\ Fits(k)
    BY <1>4
  <1>6. \A j \in 0 .. k - 1 : ~Fits(j)
    <2> SUFFICES ASSUME NEW j \in 0 .. k - 1, Fits(j) PROVE FALSE
      OBVIOUS
    <2>1. j \in 0 .. SignBit /\ ~(k <= j)
      BY <1>1, <1>5
    <2>2. j \in T
      BY <2>1
    <2> HIDE DEF T
    <2> QED BY <1>4, <2>1, <2>2
  <1>7. \E m \in 0 .. SignBit : L(m)
    BY <1>5, <1>6
  <1>8. c \in 0 .. SignBit /\ L(c)
    <2> HIDE DEF L
    <2> QED BY <1>7
  <1>9. BitLength(v) = c
    BY DEF BitLength
  <1> HIDE DEF c
  <1>10. v < PowerOf2[c]
    BY <1>2, <1>8
  <1>11. c <= w
    <2> SUFFICES ASSUME c > w PROVE FALSE
      BY <1>1, <1>8
    <2>1. w \in 0 .. c - 1
      BY <1>8
    <2>2. Fits(w)
      BY <1>2
    <2> QED BY <1>8, <2>1, <2>2
  <1> QED BY <1>1, <1>8, <1>9, <1>10, <1>11

\* A bit is what is left of a number that is divided by two once more.
LEMMA Halves ==
    ASSUME NEW n \in Int, NEW p \in 0 .. SignBit - 1
    PROVE  /\ n \div PowerOf2[p] = 2 * (n \div PowerOf2[p + 1]) + ((n \div PowerOf2[p]) % 2)
           /\ (n \div PowerOf2[p]) % 2 = IF p \in BitsOf(n) THEN 1 ELSE 0
           /\ n \div PowerOf2[p + 1] \in Int
  <1> DEFINE r == PowerOf2[p]
             a == n \div r
             o == n % r
             b == a \div 2
             d == a % 2
  <1>1. /\ SignBit \in Nat /\ p \in 0 .. SignBit /\ p + 1 \in 1 .. SignBit
        /\ (p + 1) - 1 = p
    BY TwosAre
  <1>2. r \in Nat \ {0} /\ PowerOf2[p + 1] = 2 * r
    BY <1>1, TwosAre
  <1>3. d \in {0, 1} /\ (d = 1 <=> p \in BitsOf(n))
    <2>1. a \in Int
      <3> HIDE DEF r
      <3> QED BY <1>2, Divided
    <2>2. d \in {0, 1}
      <3> HIDE DEF a
      <3> QED BY <2>1
    <2> QED BY <1>1, <2>2 DEF BitsOf
  <1> HIDE DEF r
  <1>4. a \in Int /\ o \in 0 .. r - 1 /\ n = r * a + o
    BY <1>2, Divided
  <1> HIDE DEF a, o
  <1>5. b \in Int /\ a = 2 * b + d
    BY <1>4
  <1> HIDE DEF b, d
  <1>6. /\ r * d + o \in 0 .. 2 * r - 1
        /\ n = (2 * r) * b + (r * d + o)
    <2>1. CASE d = 0
      <3>1. r * d = 0 /\ r * a = (2 * r) * b /\ r * a \in Int
        BY <1>2, <1>4, <1>5, <2>1
      <3> QED BY <1>2, <1>4, <3>1
    <2>2. CASE d = 1
      <3>1. r * d = r /\ r * a = (2 * r) * b + r /\ (2 * r) * b \in Int
        BY <1>2, <1>4, <1>5, <2>2
      <3> QED BY <1>2, <1>4, <3>1
    <2> QED BY <1>3, <2>1, <2>2
  <1>7. n \div (2 * r) = b
    <2> DEFINE s == 2 * r
               m == r * d + o
    <2>1. s \in Nat \ {0} /\ m \in 0 .. s - 1 /\ n = s * b + m
      BY <1>2, <1>6
    <2> HIDE DEF s, m
    <2>2. n \div s = b
      BY <1>5, <2>1, DividedOnce
    <2> QED BY <2>2 DEF s
  <1>8. n \div PowerOf2[p + 1] = b
    BY <1>2, <1>7
  <1> QED BY <1>3, <1>5, <1>8 DEF a, d, r

\* The bit at SignBit is the sign.
LEMMA SignOf ==
    ASSUME NEW n \in -PowerOf2[SignBit] .. PowerOf2[SignBit] - 1
    PROVE  n \div PowerOf2[SignBit] = IF SignBit \in BitsOf(n) THEN -1 ELSE 0
  <1> DEFINE r == PowerOf2[SignBit]
  <1>1. SignBit \in 0 .. SignBit /\ r \in Nat \ {0}
    BY TwosAre
  <1>2. SignBit \in BitsOf(n) <=> (n \div r) % 2 = 1
    BY <1>1 DEF BitsOf
  <1> HIDE DEF r
  <1>3. n \in -r .. r - 1
    BY DEF r
  <1>4. CASE n >= 0
    <2>1. n \in 0 .. r - 1 /\ n = r * 0 + n
      BY <1>1, <1>3, <1>4
    <2>2. n \div r = 0
      BY <1>1, <2>1, DividedOnce
    <2> QED BY <1>2, <2>2 DEF r
  <1>5. CASE n < 0
    <2>1. n + r \in 0 .. r - 1 /\ n = r * (-1) + (n + r) /\ -1 \in Int
      BY <1>1, <1>3, <1>5
    <2>2. n \div r = -1
      BY <1>1, <2>1, DividedOnce
    <2>3. ASSUME NEW q \in Int, q = -1 PROVE q % 2 = 1
      <3>1. q % 2 \in 0 .. 2 - 1 /\ q = 2 * (q \div 2) + (q % 2) /\ q \div 2 \in Int
        BY Divided
      <3> QED BY <2>3, <3>1
    <2> HIDE DEF r
    <2>4. (n \div r) % 2 = 1
      <3>1. n \div r \in Int
        BY <2>2
      <3> QED BY <2>2, <2>3, <3>1
    <2> QED BY <1>2, <2>2, <2>4 DEF r
  <1>6. n \in Int
    BY <1>1, <1>3
  <1> QED BY <1>4, <1>5, <1>6

\* A number is known by its bits.
LEMMA BitsTell ==
    ASSUME NEW m \in -PowerOf2[SignBit] .. PowerOf2[SignBit] - 1,
           NEW n \in -PowerOf2[SignBit] .. PowerOf2[SignBit] - 1,
           BitsOf(m) = BitsOf(n)
    PROVE  m = n
  <1> DEFINE Same(k) == m \div PowerOf2[k] = n \div PowerOf2[k]
             T == {d \in 0 .. SignBit : ~Same(SignBit - d)}
  <1>1. SignBit \in Nat \ {0} /\ PowerOf2[0] = 1 /\ m \in Int /\ n \in Int
    BY TwosAre
  <1>2. T = {}
    <2> SUFFICES ASSUME T # {} PROVE FALSE
      OBVIOUS
    <2>1. PICK d \in T : \A e \in T : d <= e
      <3>1. T \in SUBSET Nat
        OBVIOUS
      <3> HIDE DEF T
      <3> QED BY <3>1, Least
    <2>2. CASE d = 0
      <3>1. SignBit - d = SignBit
        BY <1>1, <2>2
      <3>2. Same(SignBit)
        BY SignOf
      <3> QED BY <2>1, <3>1, <3>2
    <2>3. CASE d # 0
      <3> DEFINE p == SignBit - d
      <3>1. /\ d \in 0 .. SignBit /\ d - 1 \in 0 .. SignBit /\ ~(d <= d - 1)
            /\ p \in 0 .. SignBit - 1 /\ SignBit - (d - 1) = p + 1
        BY <1>1, <2>1, <2>3
      <3>2. d - 1 \notin T
        <4> HIDE DEF T
        <4> QED BY <2>1, <3>1
      <3>3. Same(p + 1)
        BY <3>1, <3>2
      <3> HIDE DEF p
      <3>4. /\ m \div PowerOf2[p] = 2 * (m \div PowerOf2[p + 1])
                                      + (IF p \in BitsOf(m) THEN 1 ELSE 0)
            /\ n \div PowerOf2[p] = 2 * (n \div PowerOf2[p + 1])
                                      + (IF p \in BitsOf(n) THEN 1 ELSE 0)
        BY <1>1, <3>1, Halves
      <3>5. Same(p)
        BY <3>3, <3>4
      <3> QED BY <2>1, <3>5 DEF p
    <2> QED BY <2>2, <2>3
  <1>3. Same(0)
    <2>1. SignBit \in 0 .. SignBit /\ SignBit - SignBit = 0
      BY <1>1
    <2> QED BY <1>2, <2>1
  <1>4. m \div 1 = m /\ n \div 1 = n
    BY <1>1
  <1> QED BY <1>1, <1>3, <1>4

\* s is the sums of the first weights of w.
Sums(s, w, n) == s = [p \in 0 .. n |-> w[p] + IF p = 0 THEN 0 ELSE s[p - 1]]

LEMMA SumsExist == \A w : \A n \in Nat : \E s : Sums(s, w, n)
  <1> SUFFICES ASSUME NEW w PROVE \A n \in Nat : \E s : Sums(s, w, n)
    OBVIOUS
  <1> DEFINE T == {n \in Nat : ~ \E s : Sums(s, w, n)}
  <1> SUFFICES ASSUME T # {} PROVE FALSE
    OBVIOUS
  <1>1. PICK n \in T : \A m \in T : n <= m
    BY Least
  <1>2. CASE n = 0
    <2>1. Sums([p \in 0 .. 0 |-> w[p] + 0], w, 0)
      BY DEF Sums
    <2> QED BY <2>1, <1>2
  <1>3. CASE n > 0
    <2>1. n - 1 \in Nat /\ n - 1 \notin T
      BY <1>1, <1>3
    <2>2. PICK s : Sums(s, w, n - 1)
      BY <2>1
    <2> DEFINE h == [p \in 0 .. n |-> IF p = n THEN w[n] + s[n - 1] ELSE s[p]]
    <2>3. ASSUME NEW p \in 0 .. n
          PROVE  h[p] = w[p] + IF p = 0 THEN 0 ELSE h[p - 1]
      <3>1. CASE p = n
        BY <1>3, <2>1, <3>1
      <3>2. CASE p # n
        BY <1>3, <2>1, <2>2, <3>2 DEF Sums
      <3> QED BY <3>1, <3>2
    <2>4. Sums(h, w, n)
      BY <2>3 DEF Sums
    <2> QED BY <2>4
  <1> QED BY <1>2, <1>3

\* Whatever its bits, a number is one of those with a sign bit.
LEMMA FromBitsIs ==
    ASSUME NEW S
    PROVE  FromBits(S) \in -PowerOf2[SignBit] .. PowerOf2[SignBit] - 1
  <1> DEFINE Weight(p) == IF p \notin S THEN 0
                          ELSE IF p = SignBit THEN -PowerOf2[p] ELSE PowerOf2[p]
             P(s) == s = [p \in 0 .. SignBit |-> Weight(p) + IF p = 0 THEN 0 ELSE s[p - 1]]
             c == CHOOSE s : P(s)
             w == [p \in 0 .. SignBit |-> Weight(p)]
  <1>1. /\ SignBit \in Nat \ {0} /\ PowerOf2[0] = 1
        /\ \A p \in 1 .. SignBit : PowerOf2[p] = 2 * PowerOf2[p - 1]
        /\ \A p \in 0 .. SignBit : PowerOf2[p] \in Nat \ {0}
    BY TwosAre
  <1>2. \E s : P(s)
    <2>1. PICK s : Sums(s, w, SignBit)
      BY <1>1, SumsExist
    <2>2. \A p \in 0 .. SignBit : w[p] = Weight(p)
      OBVIOUS
    <2> HIDE DEF w
    <2>3. P(s)
      BY <2>1, <2>2 DEF Sums
    <2> QED BY <2>3
  <1>3. P(c)
    <2> HIDE DEF P
    <2> QED BY <1>2
  <1>4. FromBits(S) = c[SignBit]
    BY DEF FromBits
  <1> HIDE DEF c, w
  <1>5. /\ c[0] = Weight(0) + 0
        /\ \A p \in 1 .. SignBit : c[p] = Weight(p) + c[p - 1]
    BY <1>1, <1>3
  <1>6. \A p \in 0 .. SignBit - 1 : Weight(p) \in {0, PowerOf2[p]}
    BY <1>1
  <1>7. Weight(SignBit) \in {0, -PowerOf2[SignBit]}
    BY <1>1
  <1> HIDE DEF Weight, P
  <1> DEFINE Small(p) == c[p] \in 0 .. 2 * PowerOf2[p] - 1
             T == {p \in 0 .. SignBit - 1 : ~Small(p)}
  <1>8. T = {}
    <2> SUFFICES ASSUME T # {} PROVE FALSE
      OBVIOUS
    <2>1. PICK p \in T : \A q \in T : p <= q
      <3>1. T \in SUBSET Nat
        BY <1>1
      <3> HIDE DEF T
      <3> QED BY <3>1, Least
    <2>2. p \in 0 .. SignBit - 1 /\ p \in 0 .. SignBit /\ p \in Int
      BY <1>1, <2>1
    <2>3. CASE p = 0
      <3>1. Weight(0) \in {0, 1}
        BY <1>1, <1>6, <2>2, <2>3
      <3>2. c[0] \in {0, 1} /\ 2 * PowerOf2[0] - 1 = 1
        BY <1>1, <1>5, <3>1
      <3> QED BY <2>1, <2>3, <3>2
    <2>4. CASE p # 0
      <3>1. p \in 1 .. SignBit /\ p - 1 \in 0 .. SignBit - 1 /\ ~(p <= p - 1)
        BY <1>1, <2>2, <2>4
      <3>2. p - 1 \notin T
        <4> HIDE DEF T
        <4> QED BY <2>1, <3>1
      <3>3. c[p - 1] \in 0 .. 2 * PowerOf2[p - 1] - 1
        BY <3>1, <3>2
      <3>4. PowerOf2[p] = 2 * PowerOf2[p - 1] /\ PowerOf2[p] \in Nat /\ PowerOf2[p - 1] \in Nat
        BY <1>1, <3>1, <2>2
      <3>5. c[p] = Weight(p) + c[p - 1] /\ Weight(p) \in {0, PowerOf2[p]}
        BY <1>5, <1>6, <2>2, <3>1
      <3>6. c[p] \in 0 .. 2 * PowerOf2[p] - 1
        BY <3>3, <3>4, <3>5
      <3> QED BY <2>1, <3>6
    <2> QED BY <2>3, <2>4
  <1>9. c[SignBit - 1] \in 0 .. PowerOf2[SignBit] - 1
    <2>1. SignBit - 1 \in 0 .. SignBit - 1 /\ SignBit \in 1 .. SignBit
      BY <1>1
    <2>2. c[SignBit - 1] \in 0 .. 2 * PowerOf2[SignBit - 1] - 1
      BY <1>8, <2>1
    <2>3. PowerOf2[SignBit] = 2 * PowerOf2[SignBit - 1]
      BY <1>1, <2>1
    <2> QED BY <2>2, <2>3
  <1>10. c[SignBit] = Weight(SignBit) + c[SignBit - 1] /\ PowerOf2[SignBit] \in Nat
    <2>1. SignBit \in 1 .. SignBit /\ SignBit \in 0 .. SignBit
      BY <1>1
    <2> QED BY <1>1, <1>5, <2>1
  <1>11. c[SignBit] \in -PowerOf2[SignBit] .. PowerOf2[SignBit] - 1
    BY <1>7, <1>9, <1>10
  <1> QED BY <1>4, <1>11

-----------------------------------------------------------------------------
(* Enums and flags *)

EnumNumbers == -PowerOf2[SignBit] .. PowerOf2[SignBit] - 1

MemberPairs == MemberNames \X (0 .. PowerOf2[SignBit] - 1)

Apart(dict) == \A j, h \in DOMAIN dict : dict[j][1] = dict[h][1] => j = h

(***************************************************************************)
(* What the parser and the instances keep: numbers with room for those     *)
(* that follow, a value for a name, and, as long as no name came twice,    *)
(* the number that follows the last member.                                *)
(***************************************************************************)
EnumInv ==
    /\ kind \in {"enum", "flag"}
    /\ members \in Seq(Members) /\ Len(members) <= MaxMembers
    /\ numbered \in 0 .. Len(members)
    /\ nextval \in 0 .. PowerOf2[Width + numbered + 1] - 1
    /\ values \in Seq(MemberPairs)
    /\ Len(values) <= numbered
    /\ Apart(values)
    /\ Len(values) = numbered /\ numbered > 0 =>
           \E w \in 0 .. SignBit : /\ values[numbered][2] < PowerOf2[w]
                                   /\ nextval = Following(values[numbered][2])
    /\ instance \in {Automatic} \cup EnumNumbers

LEMMA EnumBounds ==
    /\ SignBit \in Nat \ {0} /\ Width \in Nat /\ MaxMembers \in Nat
    /\ Width + MaxMembers < SignBit
    /\ \A k \in 0 .. SignBit : PowerOf2[k] \in Nat \ {0} /\ PowerOf2[k] <= PowerOf2[SignBit]
    /\ \A k \in 1 .. SignBit : PowerOf2[k] = 2 * PowerOf2[k - 1]
  <1>1. SignBit \in Nat \ {0} /\ \A k \in 0 .. SignBit : PowerOf2[k] \in Nat \ {0}
    BY TwosAre
  <1>2. \A k \in 0 .. SignBit : PowerOf2[k] <= PowerOf2[SignBit]
    <2> SUFFICES ASSUME NEW k \in 0 .. SignBit PROVE PowerOf2[k] <= PowerOf2[SignBit]
      OBVIOUS
    <2>1. SignBit \in 0 .. SignBit /\ k <= SignBit
      BY <1>1
    <2> QED BY <2>1, TwosAscend
  <1> QED BY <1>1, <1>2, TwosAre, RoomAssumption

LEMMA EnumInvInit == EnumInit => EnumInv
  <1> SUFFICES ASSUME EnumInit PROVE EnumInv
    OBVIOUS
  <1>1. members \in Seq(Members) /\ Len(members) <= MaxMembers /\ Len(members) \in Nat
    <2>1. PICK n \in 1 .. MaxMembers : members \in [1 .. n -> Members]
      BY DEF EnumInit
    <2>2. MaxMembers \in Nat
      BY EnumBounds
    <2> QED BY <2>1, <2>2
  <1>2. numbered = 0 /\ values = <<>> /\ instance = Automatic /\ kind \in {"enum", "flag"}
    BY DEF EnumInit
  <1>3. nextval \in {0, 1}
    BY DEF EnumInit
  <1>4. nextval \in 0 .. PowerOf2[Width + numbered + 1] - 1
    <2>1. Width + 1 \in 1 .. SignBit /\ (Width + 1) - 1 \in 0 .. SignBit
          /\ Width + numbered + 1 = Width + 1
      BY <1>2, EnumBounds
    <2>2. PowerOf2[Width + 1] = 2 * PowerOf2[(Width + 1) - 1]
      BY <2>1, EnumBounds
    <2>3. PowerOf2[(Width + 1) - 1] \in Nat \ {0}
      BY <2>1, EnumBounds
    <2> QED BY <1>3, <2>1, <2>2, <2>3
  <1>5. /\ values \in Seq(MemberPairs)
        /\ Len(values) <= numbered /\ ~(numbered > 0)
        /\ DOMAIN values = {}
    BY <1>2
  <1>6. Apart(values)
    BY <1>5 DEF Apart
  <1>7. numbered \in 0 .. Len(members)
    BY <1>1, <1>2
  <1> QED BY <1>1, <1>2, <1>4, <1>5, <1>6, <1>7 DEF EnumInv

\* What follows a value is above it, and no more than the next power of two.
LEMMA FollowingIs ==
    ASSUME NEW v \in Nat, NEW w \in 0 .. SignBit, v < PowerOf2[w], kind \in {"enum", "flag"}
    PROVE  /\ Following(v) \in Nat /\ v < Following(v) /\ Following(v) <= PowerOf2[w]
           /\ kind = "flag" => \E k \in 0 .. SignBit : Following(v) = PowerOf2[k]
  <1>1. CASE kind = "enum"
    <2>1. Following(v) = v + 1
      BY <1>1 DEF Following
    <2>2. PowerOf2[w] \in Nat
      BY EnumBounds
    <2> QED BY <1>1, <2>1, <2>2
  <1>2. CASE kind = "flag"
    <2> DEFINE k == BitLength(v)
    <2>1. Following(v) = PowerOf2[k]
      BY <1>2 DEF Following
    <2>2. k \in 0 .. w /\ v < PowerOf2[k]
      BY LengthIs
    <2> HIDE DEF k
    <2>3. k \in 0 .. SignBit /\ k <= w
      BY <2>2, EnumBounds
    <2>4. PowerOf2[k] \in Nat /\ PowerOf2[k] <= PowerOf2[w]
      BY <2>3, EnumBounds, TwosAscend
    <2> QED BY <2>1, <2>2, <2>3, <2>4
  <1> QED BY <1>1, <1>2

\* A name keeps its place, or gets the next one.
LEMMA SetMemberIs ==
    ASSUME NEW dict \in Seq(MemberPairs), NEW name \in MemberNames,
           NEW v \in 0 .. PowerOf2[SignBit] - 1, Apart(dict)
    PROVE  LET new == SetMember(dict, name, v)
           IN /\ new \in Seq(MemberPairs)
              /\ Apart(new)
              /\ \/ Len(new) = Len(dict)
                 \/ Len(new) = Len(dict) + 1 /\ new[Len(dict) + 1] = <<name, v>>
  <1>1. /\ Len(dict) \in Nat /\ DOMAIN dict = 1 .. Len(dict)
        /\ \A j \in DOMAIN dict : dict[j] \in MemberPairs
        /\ \A j, h \in DOMAIN dict : dict[j][1] = dict[h][1] => j = h
    BY DEF Apart
  <1>2. <<name, v>> \in MemberPairs /\ <<name, v>>[1] = name
    BY DEF MemberPairs
  <1>3. CASE \E j \in DOMAIN dict : dict[j][1] = name
    <2> DEFINE new == [j \in DOMAIN dict |-> IF dict[j][1] = name THEN <<name, v>> ELSE dict[j]]
    <2>1. SetMember(dict, name, v) = new
      BY <1>3 DEF SetMember
    <2>2. /\ DOMAIN new = DOMAIN dict
          /\ \A j \in DOMAIN dict : new[j] \in MemberPairs /\ new[j][1] = dict[j][1]
      BY <1>1, <1>2
    <2>3. new \in Seq(MemberPairs) /\ Len(new) = Len(dict)
      BY <1>1, <2>2
    <2> HIDE DEF new
    <2>4. Apart(new)
      BY <1>1, <2>2 DEF Apart
    <2> QED BY <2>1, <2>3, <2>4
  <1>4. CASE ~ \E j \in DOMAIN dict : dict[j][1] = name
    <2> DEFINE new == Append(dict, <<name, v>>)
               n == Len(dict)
    <2>1. SetMember(dict, name, v) = new
      BY <1>4 DEF SetMember
    <2>2. /\ new \in Seq(MemberPairs) /\ Len(new) = n + 1
          /\ \A j \in 1 .. n : new[j] = dict[j]
          /\ new[n + 1] = <<name, v>>
          /\ DOMAIN new = 1 .. n + 1
      BY <1>1, <1>2
    <2> HIDE DEF new, n
    <2>3. ASSUME NEW j \in DOMAIN new, NEW h \in DOMAIN new, new[j][1] = new[h][1]
          PROVE  j = h
      <3>1. (j \in 1 .. n \/ j = n + 1) /\ (h \in 1 .. n \/ h = n + 1)
        BY <1>1, <2>2 DEF n
      <3>2. \A k \in 1 .. n : new[k][1] # name /\ new[k] = dict[k] /\ k \in DOMAIN dict
        BY <1>1, <1>4, <2>2 DEF n
      <3>3. new[n + 1][1] = name
        BY <1>2, <2>2
      <3>4. CASE j \in 1 .. n /\ h \in 1 .. n
        BY <1>1, <2>3, <3>2, <3>4
      <3> QED BY <2>3, <3>1, <3>2, <3>3, <3>4
    <2>4. Apart(new)
      BY <2>3 DEF Apart
    <2> QED BY <2>1, <2>2, <2>4 DEF n
  <1> QED BY <1>3, <1>4

LEMMA NumberMemberStep ==
    ASSUME EnumInv, NumberMember
    PROVE  EnumInv'
  <1> DEFINE m == members[numbered + 1]
             v == IF m.value = Automatic THEN nextval ELSE m.value
             w == Width + numbered + 1
  <1>1. /\ kind \in {"enum", "flag"}
        /\ members \in Seq(Members) /\ Len(members) <= MaxMembers
        /\ numbered \in 0 .. Len(members)
        /\ nextval \in 0 .. PowerOf2[w] - 1
        /\ values \in Seq(MemberPairs)
        /\ Len(values) <= numbered
        /\ Apart(values)
        /\ instance \in {Automatic} \cup EnumNumbers
    BY DEF EnumInv
  <1>2. /\ kind' = kind /\ members' = members /\ instance' = instance
        /\ numbered # Len(members) /\ numbered' = numbered + 1
        /\ values' = SetMember(values, m.name, v)
        /\ nextval' = Following(v)
    BY DEF NumberMember, AllNumbered
  <1>3. /\ Len(members) \in Nat /\ numbered + 1 \in 1 .. Len(members) /\ numbered \in Nat
        /\ Width \in 0 .. SignBit /\ w \in 0 .. SignBit /\ Width <= w /\ w \in Int
        /\ w + 1 \in 1 .. SignBit /\ (w + 1) - 1 = w
        /\ Width + (numbered + 1) + 1 = w + 1
    <2> DEFINE l == Len(members)
    <2>1. l \in Nat
      BY <1>1
    <2> HIDE DEF l
    <2>2. l <= MaxMembers /\ numbered \in 0 .. l /\ numbered # l
      BY <1>1, <1>2 DEF l
    <2>3. /\ SignBit \in Nat \ {0} /\ Width \in Nat /\ MaxMembers \in Nat
          /\ Width + MaxMembers < SignBit
      BY EnumBounds
    <2>4. /\ numbered \in Nat /\ numbered + 1 \in 1 .. l /\ numbered + 1 <= MaxMembers
      BY <2>1, <2>2, <2>3
    <2>5. w \in Nat /\ w < SignBit /\ Width <= w /\ (w + 1) - 1 = w
          /\ Width + (numbered + 1) + 1 = w + 1
      BY <2>3, <2>4
    <2> HIDE DEF w
    <2> QED BY <2>1, <2>3, <2>4, <2>5 DEF l
  <1>4. m.name \in MemberNames /\ m.value \in Explicit \cup {Automatic}
    <2>1. m \in Members
      BY <1>1, <1>3
    <2> HIDE DEF m
    <2> QED BY <2>1 DEF Members
  <1> HIDE DEF m, w
  <1>5. v \in Nat /\ v < PowerOf2[w]
    <2>1. PowerOf2[w] \in Nat /\ PowerOf2[Width] \in Nat /\ PowerOf2[Width] <= PowerOf2[w]
      BY <1>3, EnumBounds, TwosAscend
    <2>2. CASE m.value = Automatic
      BY <1>1, <2>1, <2>2
    <2>3. CASE m.value # Automatic
      <3>1. m.value \in 0 .. PowerOf2[Width] - 1
        BY <1>4, <2>3, RoomAssumption
      <3> QED BY <2>1, <2>3, <3>1
    <2> QED BY <2>2, <2>3
  <1> HIDE DEF v
  <1>6. v \in 0 .. PowerOf2[SignBit] - 1
    <2>1. PowerOf2[w] <= PowerOf2[SignBit] /\ PowerOf2[w] \in Nat /\ PowerOf2[SignBit] \in Nat
      BY <1>3, EnumBounds
    <2> QED BY <1>5, <2>1
  <1>7. nextval' \in 0 .. PowerOf2[w + 1] - 1
    <2>1. Following(v) \in Nat /\ Following(v) <= PowerOf2[w]
      BY <1>1, <1>3, <1>5, FollowingIs
    <2>2. PowerOf2[w + 1] = 2 * PowerOf2[w] /\ PowerOf2[w] \in Nat \ {0}
      BY <1>3, EnumBounds
    <2> QED BY <1>2, <2>1, <2>2
  <1>8. /\ values' \in Seq(MemberPairs)
        /\ Apart(values')
        /\ \/ Len(values') = Len(values)
           \/ /\ Len(values') = Len(values) + 1
              /\ values'[Len(values) + 1] = <<m.name, v>>
    <2> DEFINE name == m.name
    <2>1. name \in MemberNames /\ values' = SetMember(values, name, v)
      BY <1>2, <1>4
    <2> HIDE DEF name
    <2>2. MemberPairs' = MemberPairs /\ Apart(values)' = Apart(values')
      BY DEF MemberPairs, Apart
    <2> QED BY <1>1, <1>6, <2>1, <2>2, SetMemberIs DEF name
  <1>9. Len(values) \in Nat /\ Len(values)' = Len(values')
    BY <1>1
  <1>10. Len(values') <= numbered'
    BY <1>1, <1>2, <1>3, <1>8, <1>9
  <1>11. ASSUME Len(values') = numbered'
         PROVE  /\ values'[numbered'][2] < PowerOf2[w]
                /\ nextval' = Following(values[numbered][2])'
    <2>1. Len(values') = Len(values) + 1 /\ Len(values) = numbered
      BY <1>1, <1>2, <1>3, <1>8, <1>9, <1>11
    <2>2. values'[numbered'] = <<m.name, v>>
      BY <1>2, <1>8, <1>9, <2>1
    <2>3. values'[numbered'][2] = v
      BY <2>2
    <2>4. Following(values[numbered][2])' = Following(v)
      BY <1>2, <2>3 DEF Following
    <2> QED BY <1>2, <1>5, <2>3, <2>4
  <1>12. numbered' \in 0 .. Len(members')
    BY <1>2, <1>3
  <1>13. nextval' \in 0 .. PowerOf2[Width + numbered' + 1] - 1
    BY <1>2, <1>3, <1>7
  <1>14. EnumNumbers' = EnumNumbers /\ MemberPairs' = MemberPairs
        /\ Apart(values)' = Apart(values')
    BY DEF EnumNumbers, MemberPairs, Apart
  <1> QED BY <1>1, <1>2, <1>3, <1>8, <1>9, <1>10, <1>11, <1>12, <1>13, <1>14 DEF EnumInv

LEMMA MakeInstanceStep ==
    ASSUME EnumInv, MakeInstance
    PROVE  EnumInv'
  <1>1. instance' \in 0 .. PowerOf2[Width] - 1
    BY DEF MakeInstance
  <1>2. instance' \in EnumNumbers
    <2>1. /\ PowerOf2[Width] \in Nat /\ PowerOf2[SignBit] \in Nat
          /\ PowerOf2[Width] <= PowerOf2[SignBit]
      <3>1. Width \in 0 .. SignBit /\ SignBit \in 0 .. SignBit
        BY EnumBounds
      <3> QED BY <3>1, EnumBounds
    <2> QED BY <1>1, <2>1 DEF EnumNumbers
  <1>3. UNCHANGED <<kind, members, numbered, nextval, values>>
    BY DEF MakeInstance
  <1>4. EnumNumbers' = EnumNumbers /\ MemberPairs' = MemberPairs
        /\ Apart(values)' = Apart(values)
    BY <1>3 DEF EnumNumbers, MemberPairs, Apart
  <1>5. Following(values[numbered][2])' = Following(values[numbered][2])
    BY <1>3 DEF Following
  <1> QED BY <1>2, <1>3, <1>4, <1>5 DEF EnumInv

\* Operators keep an instance within the numbers; so does the complement.
LEMMA CombineStep ==
    ASSUME EnumInv, Combine
    PROVE  EnumInv'
  <1>1. instance \in EnumNumbers
    BY DEF EnumInv, Combine
  <1>2. Invert(instance) \in EnumNumbers
    <2>1. PowerOf2[SignBit] \in Nat
      <3>1. SignBit \in 0 .. SignBit
        BY EnumBounds
      <3> QED BY <3>1, EnumBounds
    <2> QED BY <1>1, <2>1 DEF EnumNumbers, Invert
  <1>3. instance' \in EnumNumbers
    <2>1. PICK name \in MemberNames, op \in {"or", "and", "xor", "invert"} :
            instance' = CASE op = "or" -> BitOr(instance, ValueOf(name))
                          [] op = "and" -> BitAnd(instance, ValueOf(name))
                          [] op = "xor" -> BitXor(instance, ValueOf(name))
                          [] op = "invert" -> Invert(instance)
      BY DEF Combine
    <2>2. \A S : FromBits(S) \in EnumNumbers
      BY FromBitsIs DEF EnumNumbers
    <2>3. /\ BitOr(instance, ValueOf(name)) \in EnumNumbers
          /\ BitAnd(instance, ValueOf(name)) \in EnumNumbers
          /\ BitXor(instance, ValueOf(name)) \in EnumNumbers
      BY <2>2 DEF BitOr, BitAnd, BitXor
    <2> QED BY <1>2, <2>1, <2>3
  <1>4. UNCHANGED <<kind, members, numbered, nextval, values>>
    BY DEF Combine
  <1>5. EnumNumbers' = EnumNumbers /\ MemberPairs' = MemberPairs
        /\ Apart(values)' = Apart(values)
    BY <1>4 DEF EnumNumbers, MemberPairs, Apart
  <1>6. Following(values[numbered][2])' = Following(values[numbered][2])
    BY <1>4 DEF Following
  <1> QED BY <1>3, <1>4, <1>5, <1>6 DEF EnumInv

THEOREM EnumInvariant == EnumSpec => []EnumInv
  <1>1. ASSUME EnumInv, [EnumNext]_enumVars PROVE EnumInv'
    <2>1. CASE UNCHANGED enumVars
      <3>1. UNCHANGED <<kind, members, numbered, nextval, values, instance>>
        BY <2>1 DEF enumVars
      <3>2. EnumNumbers' = EnumNumbers /\ MemberPairs' = MemberPairs
            /\ Apart(values)' = Apart(values)
        BY <3>1 DEF EnumNumbers, MemberPairs, Apart
      <3>3. Following(values[numbered][2])' = Following(values[numbered][2])
        BY <3>1 DEF Following
      <3> QED BY <1>1, <3>1, <3>2, <3>3 DEF EnumInv
    <2> QED BY <1>1, <2>1, NumberMemberStep, MakeInstanceStep, CombineStep DEF EnumNext
  <1> QED BY <1>1, EnumInvInit, PTL DEF EnumSpec

\* EnumTypeOK: the parser's numbers stay natural and the instances within SignBit.
THEOREM EnumTypes == EnumSpec => []EnumTypeOK
  <1>1. EnumInv => EnumTypeOK
    <2> SUFFICES ASSUME EnumInv PROVE EnumTypeOK
      OBVIOUS
    <2>1. nextval \in Nat /\ numbered \in 0 .. Len(members)
      BY DEF EnumInv
    <2>2. \A m \in ToSet(values) : m[1] \in MemberNames /\ m[2] \in Nat
      <3> SUFFICES ASSUME NEW m \in ToSet(values)
                   PROVE  m[1] \in MemberNames /\ m[2] \in Nat
        OBVIOUS
      <3>1. values \in Seq(MemberPairs)
        BY DEF EnumInv
      <3>2. m \in MemberPairs
        BY <3>1 DEF ToSet
      <3> QED BY <3>2 DEF MemberPairs
    <2>3. \A j, h \in DOMAIN values : values[j][1] = values[h][1] => j = h
      BY DEF EnumInv, Apart
    <2>4. instance \in {Automatic} \cup EnumNumbers
      BY DEF EnumInv
    <2> QED BY <2>1, <2>2, <2>3, <2>4 DEF EnumTypeOK, EnumNumbers
  <1> QED BY <1>1, EnumInvariant, PTL

(***************************************************************************)
(* AutomaticIsFresh: the value that a member without one gets is above all *)
(* before it, and for a flag a bit of its own, whatever their number.      *)
(***************************************************************************)
THEOREM NextIsFresh == EnumSpec => []AutomaticIsFresh
  <1>1. EnumInv => AutomaticIsFresh
    <2> SUFFICES ASSUME EnumInv, Ascending, NEW m \in ToSet(values)
                 PROVE  /\ nextval > m[2]
                        /\ kind = "flag" => BitsOf(nextval) \cap BitsOf(m[2]) = {}
      BY DEF AutomaticIsFresh
    <2>1. /\ values \in Seq(MemberPairs) /\ Len(values) = numbered
          /\ \A j, h \in DOMAIN values : j < h => values[j][2] <= values[h][2]
          /\ kind \in {"enum", "flag"}
      BY DEF EnumInv, Ascending
    <2>2. PICK j \in DOMAIN values : values[j] = m
      BY DEF ToSet
    <2>3. /\ numbered \in Nat /\ numbered > 0
          /\ numbered \in DOMAIN values /\ j \in 1 .. numbered
      BY <2>1, <2>2
    <2> DEFINE last == values[numbered][2]
    <2>4. last \in Nat /\ m[2] \in Nat
      <3>1. values[numbered] \in MemberPairs /\ values[j] \in MemberPairs
        BY <2>1, <2>3
      <3>2. \A x \in MemberPairs : x[2] \in Nat
        BY DEF MemberPairs
      <3> QED BY <2>2, <3>1, <3>2
    <2>5. m[2] <= last
      <3>1. CASE j = numbered
        BY <2>2, <2>4, <3>1
      <3>2. CASE j # numbered
        BY <2>1, <2>2, <2>3, <3>2
      <3> QED BY <3>1, <3>2
    <2>6. PICK w \in 0 .. SignBit : last < PowerOf2[w] /\ nextval = Following(last)
      BY <2>1, <2>3 DEF EnumInv
    <2> HIDE DEF last
    <2>7. /\ nextval \in Nat /\ last < nextval
          /\ kind = "flag" => \E k \in 0 .. SignBit : nextval = PowerOf2[k]
      BY <2>1, <2>4, <2>6, FollowingIs
    <2>8. nextval > m[2]
      BY <2>4, <2>5, <2>7
    <2>9. ASSUME kind = "flag" PROVE BitsOf(nextval) \cap BitsOf(m[2]) = {}
      <3>1. PICK k \in 0 .. SignBit : nextval = PowerOf2[k]
        BY <2>7, <2>9
      <3>2. BitsOf(nextval) = {k}
        BY <3>1, BitsOfPower
      <3>3. k \notin BitsOf(m[2])
        BY <2>4, <2>8, <3>1, NoBitAbove
      <3> QED BY <3>2, <3>3
    <2> QED BY <2>8, <2>9
  <1> QED BY <1>1, EnumInvariant, PTL

\* A member is left out only if it is the value.
LEMMA LeftOut ==
    ASSUME NEW v, Decomposed(v) # Covering(v)
    PROVE  NamesOf(v) # {}
  <1> DEFINE first == CHOOSE m \in Covering(v) : \A n \in Covering(v) : n[1] <= m[1]
  <1>1. Covering(v) \ {first} # Covering(v) /\ first[2] = v
    BY DEF Decomposed
  <1>2. first \in ToSet(values)
    BY <1>1 DEF Covering
  <1> HIDE DEF first
  <1>3. PICK j \in DOMAIN values : values[j] = first
    BY <1>2 DEF ToSet
  <1>4. values[j][2] = v
    BY <1>1, <1>3
  <1> QED BY <1>4 DEF NamesOf

(***************************************************************************)
(* DecomposeIsWhole: decompose and not_covered share out the bits of an    *)
(* instance, unless it is a member and is left out.                        *)
(***************************************************************************)
THEOREM NoBitIsLost == EnumSpec => []DecomposeIsWhole
  <1>1. DecomposeIsWhole
    <2>1. CASE Decomposed(instance) = Covering(instance)
      <3>1. BitsIn(Covering(instance)) \subseteq BitsOf(instance)
        BY DEF BitsIn, Covering
      <3> QED BY <2>1, <3>1 DEF DecomposeIsWhole, NotCovered
    <2>2. CASE Decomposed(instance) # Covering(instance)
      BY <2>2, LeftOut DEF DecomposeIsWhole
    <2> QED BY <2>1, <2>2
  <1> QED BY <1>1, PTL

\* A name that is a value's, with its pair
LEMMA NamedBy ==
    ASSUME values \in Seq(MemberPairs), NEW v, NamesOf(v) # {}
    PROVE  \E m \in ToSet(values) : m[2] = v /\ NamesOf(v) = {m[1]}
  <1> DEFINE places == {j \in DOMAIN values : values[j][2] = v}
  <1>1. places # {} /\ NamesOf(v) = {values[Max(places)][1]}
    BY DEF NamesOf
  <1>2. Max(places) \in places
    <2>1. Len(values) \in Nat /\ places \subseteq 0 .. Len(values)
      OBVIOUS
    <2> HIDE DEF places
    <2> DEFINE n == Len(values)
               T == {n - y : y \in places}
    <2>2. n \in Nat /\ \A y \in places : y \in Nat /\ n - y \in Nat
      BY <2>1
    <2> HIDE DEF n
    <2>3. T \in SUBSET Nat /\ T # {}
      BY <1>1, <2>2
    <2>4. PICK t \in T : \A y \in T : t <= y
      <3> HIDE DEF T
      <3> QED BY <2>3, Least
    <2>5. PICK x \in places : t = n - x
      BY <2>4
    <2>6. \A y \in places : x >= y
      <3> SUFFICES ASSUME NEW y \in places PROVE x >= y
        OBVIOUS
      <3>1. n - x <= n - y
        BY <2>4, <2>5
      <3> QED BY <2>2, <3>1
    <2>7. places \in SUBSET Int
      BY <2>2
    <2>8. Max(places) = x
      BY <2>6, <2>7, MaxIs
    <2> QED BY <2>8
  <1>3. values[Max(places)] \in ToSet(values) /\ values[Max(places)][2] = v
    BY <1>2 DEF ToSet
  <1> HIDE DEF places
  <1> QED BY <1>1, <1>3

\* Members with the same name are one.
LEMMA OneOfAName ==
    ASSUME Apart(values), NEW m \in ToSet(values), NEW n \in ToSet(values), m[1] = n[1]
    PROVE  m = n
  <1>1. PICK j \in DOMAIN values : values[j] = m
    BY DEF ToSet
  <1>2. PICK h \in DOMAIN values : values[h] = n
    BY DEF ToSet
  <1>3. j = h
    BY <1>1, <1>2 DEF Apart
  <1> QED BY <1>1, <1>2, <1>3

NamesIn(pairs) == {m[1] : m \in pairs}

\* A value without a name that is shown by names has those of its members.
LEMMA ShownByMembers ==
    ASSUME NEW v, NamesOf(v) = {}, Shown(v).value = {}
    PROVE  /\ kind # "enum" /\ Covering(v) # {} /\ Decomposed(v) = Covering(v)
           /\ Shown(v).names = NamesIn(Covering(v))
  <1>1. kind # "enum" /\ Covering(v) # {}
    <2> SUFFICES ASSUME kind = "enum" \/ Covering(v) = {} PROVE FALSE
      OBVIOUS
    <2>1. Shown(v) = [names |-> {}, value |-> {v}]
      BY DEF Shown
    <2> QED BY <2>1
  <1>2. Decomposed(v) = Covering(v)
    BY LeftOut
  <1>3. Shown(v) = [names |-> {m[1] : m \in Decomposed(v)}, value |-> {}]
    BY <1>1 DEF Shown
  <1> QED BY <1>1, <1>2, <1>3 DEF NamesIn

\* Members and their names
LEMMA SameNames ==
    ASSUME Apart(values), NEW A \in SUBSET ToSet(values), NEW B \in SUBSET ToSet(values),
           NamesIn(A) = NamesIn(B)
    PROVE  A = B
  <1>1. ASSUME NEW m \in A PROVE m \in B
    <2>1. PICK n \in B : n[1] = m[1]
      BY DEF NamesIn
    <2> QED BY <2>1, OneOfAName
  <1>2. ASSUME NEW m \in B PROVE m \in A
    <2>1. PICK n \in A : n[1] = m[1]
      BY DEF NamesIn
    <2> QED BY <2>1, OneOfAName
  <1> QED BY <1>1, <1>2

\* A number that its members cover has the bits they have.
LEMMA CoveredBits ==
    ASSUME NEW v, NotCovered(v) = {}
    PROVE  BitsOf(v) = BitsIn(Covering(v))
  BY DEF NotCovered, BitsIn, Covering

LEMMA ShownIsOne ==
    ASSUME values \in Seq(MemberPairs), Apart(values), kind \in {"enum", "flag"},
           NEW v \in EnumNumbers, NEW u \in EnumNumbers, Shown(v) = Shown(u),
           kind = "flag" => NotCovered(v) = {} /\ NotCovered(u) = {}
    PROVE  v = u
  <1>1. \A x : NamesOf(x) # {} => Shown(x).names = NamesOf(x) /\ Shown(x).value = {}
    BY DEF Shown
  <1>2. ASSUME NEW x \in EnumNumbers, NEW y \in EnumNumbers, Shown(x) = Shown(y),
               kind = "flag" => NotCovered(y) = {},
               NamesOf(x) # {}, NamesOf(y) = {}
        PROVE  x = y
    <2>1. PICK m \in ToSet(values) : m[2] = x /\ NamesOf(x) = {m[1]}
      BY <1>2, NamedBy
    <2>2. /\ kind # "enum" /\ Covering(y) # {}
          /\ NamesIn(Covering(y)) = {m[1]}
      BY <1>1, <1>2, <2>1, ShownByMembers
    <2>3. Covering(y) \subseteq ToSet(values)
      BY DEF Covering
    <2>4. Covering(y) = {m}
      <3>1. NamesIn({m}) = {m[1]}
        BY DEF NamesIn
      <3>2. {m} \in SUBSET ToSet(values) /\ Covering(y) \in SUBSET ToSet(values)
        BY <2>3
      <3>3. NamesIn(Covering(y)) = NamesIn({m})
        BY <2>2, <3>1
      <3> QED BY <3>2, <3>3, SameNames
    <2>5. BitsOf(y) = BitsOf(x)
      <3>1. NotCovered(y) = {}
        BY <1>2, <2>2
      <3>2. BitsIn({m}) = BitsOf(m[2])
        BY DEF BitsIn
      <3> QED BY <2>1, <2>4, <3>1, <3>2, CoveredBits
    <2> QED BY <1>2, <2>5, BitsTell DEF EnumNumbers
  <1>3. CASE NamesOf(v) # {} /\ NamesOf(u) # {}
    <2>1. PICK m \in ToSet(values) : m[2] = v /\ NamesOf(v) = {m[1]}
      BY <1>3, NamedBy
    <2>2. PICK n \in ToSet(values) : n[2] = u /\ NamesOf(u) = {n[1]}
      BY <1>3, NamedBy
    <2>3. NamesOf(v) = NamesOf(u)
      BY <1>1, <1>3
    <2>4. m[1] = n[1]
      BY <2>1, <2>2, <2>3
    <2>5. m = n
      BY <2>4, OneOfAName
    <2> QED BY <2>1, <2>2, <2>5
  <1>4. CASE NamesOf(v) # {} /\ NamesOf(u) = {}
    BY <1>2, <1>4
  <1>5. CASE NamesOf(v) = {} /\ NamesOf(u) # {}
    BY <1>2, <1>5
  <1>6. CASE NamesOf(v) = {} /\ NamesOf(u) = {} /\ Shown(v).value = {}
    <2>1. /\ kind # "enum"
          /\ NamesIn(Covering(v)) = NamesIn(Covering(u))
      BY <1>6, ShownByMembers
    <2>2. Covering(v) = Covering(u)
      <3>1. Covering(v) \subseteq ToSet(values) /\ Covering(u) \subseteq ToSet(values)
        BY DEF Covering
      <3> QED BY <2>1, <3>1, SameNames
    <2>3. NotCovered(v) = {} /\ NotCovered(u) = {}
      BY <2>1
    <2>4. BitsOf(v) = BitsOf(u)
      BY <2>2, <2>3, CoveredBits
    <2> QED BY <2>4, BitsTell DEF EnumNumbers
  <1>7. CASE NamesOf(v) = {} /\ NamesOf(u) = {} /\ Shown(v).value # {}
    <2>1. Shown(v) = [names |-> {}, value |-> {v}]
      BY <1>7 DEF Shown
    <2>2. Shown(u) = [names |-> {}, value |-> {u}]
      BY <1>7 DEF Shown
    <2>3. \A a, b : [names |-> {}, value |-> {a}] = [names |-> {}, value |-> {b}] => a = b
      <3> SUFFICES ASSUME NEW a, NEW b,
                          [names |-> {}, value |-> {a}] = [names |-> {}, value |-> {b}]
                   PROVE  {a} = {b}
        OBVIOUS
      <3>1. [names |-> {}, value |-> {a}].value = {a}
        OBVIOUS
      <3>2. [names |-> {}, value |-> {b}].value = {b}
        OBVIOUS
      <3> QED BY <3>1, <3>2
    <2>4. v = u
      BY <2>1, <2>2, <2>3
    <2> QED BY <2>4
  <1> QED BY <1>3, <1>4, <1>5, <1>6, <1>7

(***************************************************************************)
(* ShownApart: what __str__ gives of an instance, its name, the names that *)
(* decompose finds or the number, is that of no other value of the type,   *)
(* but where members leave bits uncovered.                                 *)
(***************************************************************************)
THEOREM ShownIsKnown == EnumSpec => []ShownApart
  <1>1. EnumInv => ShownApart
    <2> SUFFICES ASSUME EnumInv, instance # Automatic,
                        NEW v \in 0 .. PowerOf2[Width] - 1, Shown(v) = Shown(instance),
                        kind = "flag" => NotCovered(v) \cup NotCovered(instance) = {}
                 PROVE  v = instance
      BY DEF ShownApart
    <2>1. /\ values \in Seq(MemberPairs) /\ Apart(values) /\ kind \in {"enum", "flag"}
          /\ instance \in EnumNumbers
      BY DEF EnumInv
    <2>2. v \in EnumNumbers
      <3>1. Width \in 0 .. SignBit /\ SignBit \in 0 .. SignBit
        BY EnumBounds
      <3>2. /\ PowerOf2[Width] \in Nat /\ PowerOf2[SignBit] \in Nat
            /\ PowerOf2[Width] <= PowerOf2[SignBit]
        BY <3>1, EnumBounds
      <3> QED BY <3>2 DEF EnumNumbers
    <2> QED BY <2>1, <2>2, ShownIsOne
  <1> QED BY <1>1, EnumInvariant, PTL

=============================================================================

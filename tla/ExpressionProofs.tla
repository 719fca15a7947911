--------------------------- MODULE ExpressionProofs ---------------------------
(***************************************************************************)
(* Theorems about Expression, for operands, fields and constants of any    *)
(* number and value.                                                       *)
(***************************************************************************)
EXTENDS Expression, AlgorithmsProofs

-----------------------------------------------------------------------------
(***************************************************************************)
(* evaluate_part: the calls it makes for a text are those for the ranges   *)
(* of the text, and v has the value of each.                               *)
(***************************************************************************)
Ranges(text) == (1 .. Len(text) + 1) \X (0 .. Len(text))

Part(text, p) == SubSeq(text, p[1], p[2])

Chosen(text, p) == Operators[Min(Splitting(Part(text, p)))]

At(text, p) == p[1] - 1 + SplitAt(Part(text, p), Chosen(text, p))

Evaluated(text, v, p) ==
    IF IsNegative(Part(text, p)) THEN {-Part(text, p)[2][2]}
    ELSE IF Splitting(Part(text, p)) = {} THEN Atom(Part(text, p))
    ELSE Combined(Chosen(text, p), v[<<p[1], At(text, p) - 1>>], v[<<At(text, p) + 1, p[2]>>])

Values(v, text) == v = [p \in Ranges(text) |-> Evaluated(text, v, p)]

LEMMA OperatorsAre ==
    /\ Len(Operators) = 10 /\ DOMAIN Operators = 1 .. 10
    /\ \A k \in 1 .. 10 : Operators[k] \in ToSet(Operators)
    /\ \A o \in ToSet(Operators) : \E k \in 1 .. 10 : o = Operators[k]
    /\ \A k, h \in 1 .. 10 : Operators[k] = Operators[h] => k = h
  BY DEF Operators, ToSet

LEMMA MinIs ==
    ASSUME NEW S \in SUBSET Nat, S # {}
    PROVE  Min(S) \in S /\ \A x \in S : Min(S) <= x
  BY Least DEF Min

LEMMA Greatest ==
    ASSUME NEW n \in Nat, NEW S \in SUBSET (0 .. n), S # {}
    PROVE  \E x \in S : \A y \in S : x >= y
  <1> DEFINE R == {n - x : x \in S}
  <1>1. R \in SUBSET Nat /\ R # {}
    <2>1. \A x \in S : n - x \in Nat
      OBVIOUS
    <2>2. \E x \in S : n - x \in R
      OBVIOUS
    <2> QED BY <2>1, <2>2
  <1>2. PICK m \in R : \A y \in R : m <= y
    <2> HIDE DEF R
    <2> QED BY <1>1, Least
  <1>3. PICK x \in S : m = n - x
    BY <1>2
  <1>4. ASSUME NEW y \in S PROVE x >= y
    <2>1. n - y \in R
      OBVIOUS
    <2>2. n - x <= n - y /\ x \in Int /\ y \in Int
      BY <1>2, <1>3, <2>1, SMTT(30)
    <2> QED BY <2>2
  <1> QED BY <1>4

\* The length and the tokens of a part
LEMMA PartIs ==
    ASSUME NEW S, NEW text \in Seq(S), NEW p \in Ranges(text)
    PROVE  /\ p[1] \in Nat \ {0} /\ p[2] \in Nat /\ p = <<p[1], p[2]>>
           /\ p[2] <= Len(text) /\ p[1] <= Len(text) + 1
           /\ Len(Part(text, p)) = IF p[1] <= p[2] THEN p[2] - p[1] + 1 ELSE 0
           /\ DOMAIN Part(text, p) = 1 .. Len(Part(text, p))
           /\ \A j \in 1 .. Len(Part(text, p)) : Part(text, p)[j] = text[p[1] - 1 + j]
  <1>1. /\ p[1] \in Nat \ {0} /\ p[2] \in Nat /\ p = <<p[1], p[2]>>
        /\ p[2] <= Len(text) /\ p[1] <= Len(text) + 1
    BY DEF Ranges
  <1> DEFINE x == p[1]
             y == p[2]
  <1>2. Part(text, p) = SubSeq(text, x, y)
    BY DEF Part
  <1>3. x \in Nat \ {0} /\ y \in Nat /\ y <= Len(text) /\ x <= Len(text) + 1
    BY <1>1
  <1> HIDE DEF x, y
  <1>4. /\ Len(SubSeq(text, x, y)) = IF x <= y THEN y - x + 1 ELSE 0
        /\ DOMAIN SubSeq(text, x, y) = 1 .. Len(SubSeq(text, x, y))
        /\ \A j \in 1 .. Len(SubSeq(text, x, y)) : SubSeq(text, x, y)[j] = text[x - 1 + j]
    BY <1>3
  <1> QED BY <1>1, <1>2, <1>4 DEF x, y

LEMMA PartOfTwo ==
    ASSUME NEW S, NEW text \in Seq(S), NEW p \in Ranges(text), p[1] <= p[2]
    PROVE  /\ Part(text, p)[1] = text[p[1]]
           /\ Len(Part(text, p)) = 2 <=> p[2] = p[1] + 1
           /\ Len(Part(text, p)) = 1 <=> p[2] = p[1]
           /\ Len(Part(text, p)) = 2 => Part(text, p)[2] = text[p[1] + 1]
  <1> DEFINE x == p[1]
             y == p[2]
             part == Part(text, p)
  <1>1. /\ x \in Nat \ {0} /\ y \in Nat /\ x <= y
        /\ Len(part) = IF x <= y THEN y - x + 1 ELSE 0
        /\ \A j \in 1 .. Len(part) : part[j] = text[x - 1 + j]
    BY PartIs
  <1> HIDE DEF x, y, part
  <1>2. Len(part) = y - x + 1
    BY <1>1
  <1>3. Len(part) = 2 <=> y = x + 1
    BY <1>1, <1>2
  <1>4. Len(part) = 1 <=> y = x
    BY <1>1, <1>2
  <1>5. 1 \in 1 .. Len(part) /\ x - 1 + 1 = x /\ x - 1 + 2 = x + 1
    BY <1>1, <1>2
  <1>6. part[1] = text[x] /\ (Len(part) = 2 => part[2] = text[x + 1])
    BY <1>1, <1>5
  <1> QED BY <1>3, <1>4, <1>6 DEF x, y, part

\* A part with an operator is split at one, into parts that are shorter.
LEMMA PartsAreShorter ==
    ASSUME NEW S, NEW text \in Seq(S), NEW p \in Ranges(text),
           Splitting(Part(text, p)) # {}
    PROVE  /\ Chosen(text, p) \in ToSet(Operators)
           /\ At(text, p) \in p[1] .. p[2]
           /\ text[At(text, p)] = Op(Chosen(text, p))
           /\ <<p[1], At(text, p) - 1>> \in Ranges(text)
           /\ <<At(text, p) + 1, p[2]>> \in Ranges(text)
  <1> DEFINE part == Part(text, p)
             o == Chosen(text, p)
             P == {j \in DOMAIN part : part[j] = Op(o)}
             j == Max(P)
  <1>1. /\ p[1] \in Nat \ {0} /\ p[2] \in Nat
        /\ p[2] <= Len(text) /\ p[1] <= Len(text) + 1
        /\ Len(part) = IF p[1] <= p[2] THEN p[2] - p[1] + 1 ELSE 0
        /\ DOMAIN part = 1 .. Len(part)
        /\ \A h \in 1 .. Len(part) : part[h] = text[p[1] - 1 + h]
    BY PartIs
  <1>2. Min(Splitting(part)) \in Splitting(part)
    <2>1. Splitting(part) \subseteq Nat
      BY OperatorsAre DEF Splitting
    <2> QED BY <2>1, MinIs
  <1>3. o \in ToSet(Operators) /\ P # {}
    BY <1>2, OperatorsAre DEF Splitting, Chosen
  <1>4. j \in P
    <2>1. P \subseteq 0 .. Len(part) /\ Len(part) \in Nat
      BY <1>1
    <2> HIDE DEF P
    <2>2. \E x \in P : \A y \in P : x >= y
      BY <1>3, <2>1, Greatest
    <2> QED BY <2>2 DEF Max
  <1>5. At(text, p) = p[1] - 1 + j
    BY DEF At, SplitAt
  <1>6. j \in 1 .. Len(part) /\ part[j] = Op(o)
    BY <1>1, <1>4
  <1> HIDE DEF j, o, P, part
  <1>7. At(text, p) \in p[1] .. p[2] /\ text[At(text, p)] = Op(o)
    BY <1>1, <1>5, <1>6
  <1>8. /\ <<p[1], At(text, p) - 1>> \in Ranges(text)
        /\ <<At(text, p) + 1, p[2]>> \in Ranges(text)
    BY <1>1, <1>7 DEF Ranges
  <1> QED BY <1>3, <1>7, <1>8 DEF o

LEMMA ValuesExist ==
    ASSUME NEW S, NEW text \in Seq(S)
    PROVE  \E v : Values(v, text)
  <1> DEFINE R == Ranges(text)
             L(p) == p[2] - p[1] + 1
             Good(v, m) == \A p \in R : L(p) <= m => v[p] = Evaluated(text, v, p)
             T == {m \in Nat : ~ \E v : v = [p \in R |-> v[p]] /\ Good(v, m)}
  <1>1. /\ \A p \in R : L(p) \in Int /\ L(p) <= Len(text)
        /\ Len(text) \in Nat
    BY PartIs
  <1>2. ASSUME NEW v, NEW w, NEW p \in R, \A q \in R : L(q) < L(p) => v[q] = w[q]
        PROVE  Evaluated(text, v, p) = Evaluated(text, w, p)
    <2>1. CASE Splitting(Part(text, p)) = {}
      BY <2>1 DEF Evaluated
    <2>2. CASE Splitting(Part(text, p)) # {}
      <3> DEFINE at == At(text, p)
      <3>1. /\ at \in p[1] .. p[2] /\ p[1] \in Nat /\ p[2] \in Nat
            /\ <<p[1], at - 1>> \in R /\ <<at + 1, p[2]>> \in R
        BY <2>2, PartsAreShorter, PartIs
      <3> HIDE DEF at, R
      <3>2. L(<<p[1], at - 1>>) < L(p) /\ L(<<at + 1, p[2]>>) < L(p)
        BY <3>1
      <3>3. /\ v[<<p[1], at - 1>>] = w[<<p[1], at - 1>>]
            /\ v[<<at + 1, p[2]>>] = w[<<at + 1, p[2]>>]
        <4> HIDE DEF L
        <4> QED BY <1>2, <3>1, <3>2
      <3> QED BY <3>3 DEF Evaluated, at
    <2> QED BY <2>1, <2>2
  <1>3. ASSUME NEW m \in Nat, m \in T PROVE m # 0 /\ m - 1 \in T
    <2> HIDE DEF R, L
    <2>1. ASSUME m = 0 PROVE FALSE
      <3> DEFINE v == [p \in R |-> Evaluated(text, [q \in R |-> {}], p)]
      <3>1. ASSUME NEW p \in R, L(p) <= 0 PROVE v[p] = Evaluated(text, v, p)
        <4>1. Splitting(Part(text, p)) = {}
          <5> SUFFICES ASSUME Splitting(Part(text, p)) # {} PROVE FALSE
            OBVIOUS
          <5>1. At(text, p) \in p[1] .. p[2] /\ p[1] \in Nat /\ p[2] \in Nat
            BY PartsAreShorter, PartIs DEF R
          <5> QED BY <3>1, <5>1 DEF L
        <4> QED BY <4>1 DEF Evaluated
      <3>2. v = [p \in R |-> v[p]]
        OBVIOUS
      <3> HIDE DEF v
      <3> QED BY <2>1, <1>3, <3>1, <3>2
    <2>2. m - 1 \in Nat
      BY <2>1
    <2>3. ASSUME NEW v, v = [p \in R |-> v[p]], Good(v, m - 1) PROVE FALSE
      <3> DEFINE w == [p \in R |-> Evaluated(text, v, p)]
      <3>1. \A q \in R : L(q) <= m - 1 => w[q] = v[q]
        BY <2>3
      <3>2. ASSUME NEW p \in R, L(p) <= m PROVE w[p] = Evaluated(text, w, p)
        <4>1. \A q \in R : L(q) < L(p) => v[q] = w[q]
          <5>1. \A q \in R : L(q) < L(p) => L(q) <= m - 1
            BY <1>1, <3>2
          <5> HIDE DEF w
          <5> QED BY <3>1, <5>1
        <4>2. Evaluated(text, v, p) = Evaluated(text, w, p)
          <5> HIDE DEF w
          <5> QED BY <1>2, <4>1
        <4> QED BY <4>2
      <3>3. w = [p \in R |-> w[p]]
        OBVIOUS
      <3> HIDE DEF w
      <3> QED BY <1>3, <3>2, <3>3
    <2> QED BY <2>1, <2>2, <2>3
  <1>4. T = {}
    <2> SUFFICES ASSUME T # {} PROVE FALSE
      OBVIOUS
    <2>1. PICK m \in T : \A x \in T : m <= x
      <3>1. T \in SUBSET Nat
        OBVIOUS
      <3> HIDE DEF T
      <3> QED BY <3>1, Least
    <2>2. m \in Nat
      OBVIOUS
    <2> HIDE DEF T
    <2>3. m - 1 \in T
      BY <1>3, <2>1, <2>2
    <2> QED BY <2>1, <2>2, <2>3
  <1>5. PICK v : v = [p \in R |-> v[p]] /\ Good(v, Len(text))
    BY <1>1, <1>4
  <1>6. v = [p \in R |-> Evaluated(text, v, p)]
    <2> HIDE DEF R, L
    <2>1. \A p \in R : v[p] = Evaluated(text, v, p)
      BY <1>1, <1>5
    <2> QED BY <1>5, <2>1
  <1> QED BY <1>6 DEF Values

\* What evaluate_part returns is the value of the whole range.
LEMMA EvaluatePartIs ==
    ASSUME NEW S, NEW text \in Seq(S)
    PROVE  \E v : Values(v, text) /\ EvaluatePart(text) = v[<<1, Len(text)>>]
  <1> DEFINE V(v) == v = [p \in Ranges(text) |-> Evaluated(text, v, p)]
             c == CHOOSE v : V(v)
  <1>1. \E v : V(v)
    BY ValuesExist DEF Values
  <1>2. V(c)
    <2> HIDE DEF V
    <2> QED BY <1>1
  <1>3. EvaluatePart(text) = c[<<1, Len(text)>>]
    BY DEF EvaluatePart, Ranges, Evaluated, Part, At, Chosen
  <1> HIDE DEF c
  <1> QED BY <1>2, <1>3 DEF Values

-----------------------------------------------------------------------------
(* The value of a range, by what is in it *)

LEMMA RankIs ==
    /\ \A k \in 1 .. 10 : Rank(Operators[k]) = k
    /\ \A o \in ToSet(Operators) : Rank(o) \in 1 .. 10 /\ Operators[Rank(o)] = o
  <1>1. ASSUME NEW k \in 1 .. 10 PROVE Rank(Operators[k]) = k
    <2>1. \A h \in DOMAIN Operators : Operators[h] = Operators[k] <=> h = k
      BY OperatorsAre
    <2> QED BY <2>1, OperatorsAre DEF Rank
  <1> QED BY <1>1, OperatorsAre

LEMMA NoTokens ==
    ASSUME NEW S, NEW text \in Seq(S), NEW v, Values(v, text),
           NEW p \in Ranges(text), p[2] < p[1]
    PROVE  v[p] = {}
  <1>1. Len(Part(text, p)) = 0 /\ DOMAIN Part(text, p) = 1 .. Len(Part(text, p))
    BY PartIs
  <1>2. Splitting(Part(text, p)) = {}
    BY <1>1 DEF Splitting
  <1>3. ~IsNegative(Part(text, p)) /\ Atom(Part(text, p)) = {}
    BY <1>1 DEF IsNegative, Atom
  <1> QED BY <1>2, <1>3 DEF Values, Evaluated

LEMMA OneToken ==
    ASSUME NEW S, NEW text \in Seq(S), NEW v, Values(v, text),
           NEW k \in 1 .. Len(text), text[k][1] # "operator"
    PROVE  v[<<k, k>>] = Atom(<<text[k]>>)
  <1> DEFINE p == <<k, k>>
             part == Part(text, p)
  <1>1. p \in Ranges(text) /\ p[1] = k /\ p[2] = k
    BY DEF Ranges
  <1>2. Len(part) = 1 /\ DOMAIN part = 1 .. 1 /\ part[1] = text[k]
    <2> HIDE DEF p
    <2>1. p[1] <= p[2]
      BY <1>1
    <2>2. part[1] = text[p[1]] /\ Len(part) = 1
      BY <1>1, <2>1, PartOfTwo
    <2>3. DOMAIN part = 1 .. Len(part)
      BY <1>1, PartIs
    <2> QED BY <1>1, <2>2, <2>3
  <1>3. \A o : part[1] # Op(o)
    BY <1>2 DEF Op
  <1> HIDE DEF part, p
  <1>4. Splitting(part) = {} /\ ~IsNegative(part)
    BY <1>2, <1>3 DEF Splitting, IsNegative
  <1>5. Atom(part) = Atom(<<text[k]>>)
    BY <1>2 DEF Atom
  <1>6. v[p] = Atom(part)
    BY <1>1, <1>4 DEF Values, Evaluated, part
  <1> QED BY <1>5, <1>6 DEF p

LEMMA NegativeTokens ==
    ASSUME NEW S, NEW text \in Seq(S), NEW v, Values(v, text), NEW n,
           NEW p \in Ranges(text), p[2] = p[1] + 1,
           text[p[1]] = Op("-"), text[p[2]] = Num(n)
    PROVE  v[p] = {-n}
  <1> DEFINE part == Part(text, p)
  <1>1. p[1] <= p[2]
    BY PartIs
  <1>2. Len(part) = 2 /\ part[1] = text[p[1]] /\ part[2] = text[p[2]]
    BY <1>1, PartOfTwo
  <1> HIDE DEF part
  <1>3. IsNegative(part) /\ part[2][2] = n
    BY <1>2 DEF IsNegative, Num
  <1>4. v[p] = {-part[2][2]}
    BY <1>3 DEF Values, Evaluated, part
  <1> QED BY <1>3, <1>4

(***************************************************************************)
(* evaluate_part splits at operator j if none of the range comes before it *)
(* in the list, and none that is the same comes after it in the text.      *)
(***************************************************************************)
LEMMA LastOperator ==
    ASSUME NEW S, NEW text \in Seq(S), NEW v, Values(v, text),
           NEW p \in Ranges(text), NEW j \in p[1] .. p[2], NEW o \in ToSet(Operators),
           NEW l, l = <<p[1], j - 1>>, NEW m, m = <<j + 1, p[2]>>,
           text[j] = Op(o),
           p[2] # p[1] + 1 \/ text[p[1]] # Op("-"),
           \A h \in p[1] .. p[2], r \in ToSet(Operators) :
              text[h] = Op(r) => Rank(o) < Rank(r) \/ (r = o /\ h <= j)
    PROVE  v[p] = Combined(o, v[l], v[m])
  <1> DEFINE part == Part(text, p)
             at == j - p[1] + 1
             P == {h \in DOMAIN part : part[h] = Op(o)}
  <1>1. /\ p[1] \in Nat \ {0} /\ p[2] \in Nat
        /\ p[2] <= Len(text) /\ p[1] <= Len(text) + 1
        /\ Len(part) = IF p[1] <= p[2] THEN p[2] - p[1] + 1 ELSE 0
        /\ DOMAIN part = 1 .. Len(part)
        /\ \A h \in 1 .. Len(part) : part[h] = text[p[1] - 1 + h]
    BY PartIs
  <1>2. at \in 1 .. Len(part) /\ part[at] = Op(o) /\ j \in Nat /\ p[1] - 1 + at = j
    <2> HIDE DEF part, P
    <2>1. p[1] \in Nat /\ p[2] \in Nat /\ j \in Nat /\ p[1] <= j /\ j <= p[2]
      BY <1>1
    <2>2. p[1] - 1 + at = j /\ at \in Nat
      BY <2>1
    <2>3. Len(part) = p[2] - p[1] + 1
      BY <1>1, <2>1
    <2>4. at \in 1 .. Len(part)
      BY <2>1, <2>3
    <2> HIDE DEF at
    <2>5. part[at] = text[p[1] - 1 + at]
      BY <1>1, <2>4
    <2> QED BY <2>1, <2>2, <2>4, <2>5
  <1>3. ASSUME NEW h \in 1 .. Len(part), NEW r \in ToSet(Operators), part[h] = Op(r)
        PROVE  Rank(o) < Rank(r) \/ (r = o /\ h <= at)
    <2>1. p[1] - 1 + h \in p[1] .. p[2] /\ text[p[1] - 1 + h] = Op(r)
      BY <1>1, <1>3
    <2>2. p[1] - 1 + h <= j => h <= at
      BY <1>1
    <2> QED BY <2>1, <2>2
  <1>4. ~IsNegative(part)
    <2>1. Len(part) = 2 => p[2] = p[1] + 1 /\ part[1] = text[p[1]]
      <3>1. p[1] <= p[2]
        BY <1>1
      <3> QED BY <3>1, PartOfTwo
    <2> HIDE DEF part
    <2> QED BY <2>1 DEF IsNegative
  <1> HIDE DEF part, at
  <1>5. Rank(o) \in Splitting(part) /\ \A k \in Splitting(part) : Rank(o) <= k
    <2>1. Rank(o) \in Splitting(part)
      BY <1>1, <1>2, RankIs, OperatorsAre DEF Splitting
    <2>2. ASSUME NEW k \in Splitting(part) PROVE Rank(o) <= k
      <3>1. k \in 1 .. 10 /\ Operators[k] \in ToSet(Operators) /\ Rank(Operators[k]) = k
        BY OperatorsAre, RankIs DEF Splitting
      <3>2. PICK h \in 1 .. Len(part) : part[h] = Op(Operators[k])
        BY <1>1 DEF Splitting
      <3>3. Rank(o) < k \/ Operators[k] = o
        BY <1>3, <3>1, <3>2
      <3> QED BY <3>1, <3>3, RankIs
    <2> QED BY <2>1, <2>2
  <1>6. Chosen(text, p) = o
    <2>1. Splitting(part) \in SUBSET Nat
      BY OperatorsAre DEF Splitting
    <2>2. Min(Splitting(part)) \in Splitting(part) /\ Min(Splitting(part)) <= Rank(o)
      BY <1>5, <2>1, MinIs
    <2>3. Min(Splitting(part)) = Rank(o)
      BY <1>5, <2>1, <2>2
    <2> QED BY <2>3, RankIs DEF Chosen, part
  <1>7. SplitAt(part, o) = at
    <2>1. at \in P /\ P \in SUBSET Int /\ \A h \in P : at >= h
      <3>1. \A h \in P : h <= at
        <4>1. \A h \in P : h \in 1 .. Len(part) /\ part[h] = Op(o)
          BY <1>1
        <4>2. ~(Rank(o) < Rank(o))
          BY RankIs
        <4> HIDE DEF P
        <4> QED BY <1>3, <4>1, <4>2
      <3> QED BY <1>1, <1>2, <3>1
    <2> HIDE DEF P
    <2>2. Max(P) = at
      BY <2>1, MaxIs
    <2> QED BY <2>2 DEF SplitAt, P
  <1>8. At(text, p) = j
    BY <1>2, <1>6, <1>7 DEF At, part
  <1>9. v[p] = Evaluated(text, v, p)
    BY DEF Values
  <1> QED BY <1>4, <1>5, <1>6, <1>8, <1>9 DEF Evaluated, part

-----------------------------------------------------------------------------
(* The texts that evaluate makes of three operands and a value in brackets *)

LEMMA OperatorsDiffer ==
    /\ \A o, r : Op(o) = Op(r) => o = r
    /\ \A o, n : Op(o) # Num(n)
    /\ \A o, x : x[1] # "operator" => Op(o) # x
    /\ \A n : Num(n)[1] # "operator"
  BY DEF Op, Num

LEMMA MinusIs ==
    /\ "-" \in ToSet(Operators) /\ Rank("-") = 5
    /\ \A o \in ToSet(Operators) : /\ o \in BeforeMinus <=> Rank(o) < 5
                                   /\ o = "-" <=> Rank(o) = 5
  <1>1. /\ Operators[1] = "*" /\ Operators[2] = "/" /\ Operators[3] = "%"
        /\ Operators[4] = "+" /\ Operators[5] = "-"
    BY DEF Operators
  <1>2. \A k \in 1 .. 10 : /\ Operators[k] \in BeforeMinus <=> k < 5
                           /\ Operators[k] = "-" <=> k = 5
    <2>1. \A k \in 1 .. 4 : Operators[k] \in BeforeMinus
      BY <1>1 DEF BeforeMinus
    <2>2. \A k \in 1 .. 10 : Operators[k] \in BeforeMinus => k \in 1 .. 4
      BY <1>1, OperatorsAre DEF BeforeMinus
    <2>3. \A k \in 1 .. 10 : Operators[k] = "-" <=> k = 5
      BY <1>1, OperatorsAre
    <2> QED BY <2>1, <2>2, <2>3
  <1>3. \A o \in ToSet(Operators) : Rank(o) \in 1 .. 10 /\ Operators[Rank(o)] = o
    BY RankIs
  <1>4. "-" \in ToSet(Operators) /\ Rank("-") = 5
    <2>1. 5 \in 1 .. 10
      OBVIOUS
    <2>2. Operators[5] \in ToSet(Operators) /\ Rank(Operators[5]) = 5
      BY <2>1, OperatorsAre, RankIs
    <2> QED BY <1>1, <2>2
  <1>5. ASSUME NEW o \in ToSet(Operators)
        PROVE  (o \in BeforeMinus <=> Rank(o) < 5) /\ (o = "-" <=> Rank(o) = 5)
    BY <1>2, <1>3
  <1> QED BY <1>4, <1>5

LEMMA CombinedNone ==
    ASSUME NEW o, NEW A
    PROVE  Combined(o, {}, A) = {} /\ Combined(o, A, {}) = {}
  BY DEF Combined

LEMMA OfOne ==
    ASSUME NEW x, x[1] # "operator"
    PROVE  EvaluatePart(<<x>>) = Atom(<<x>>)
  <1> DEFINE text == <<x>>
  <1>1. text \in Seq({x}) /\ Len(text) = 1 /\ text[1] = x
    OBVIOUS
  <1> HIDE DEF text
  <1>2. PICK v : Values(v, text) /\ EvaluatePart(text) = v[<<1, Len(text)>>]
    BY <1>1, EvaluatePartIs
  <1>3. 1 \in 1 .. Len(text) /\ text[1][1] # "operator"
    BY <1>1
  <1>4. v[<<1, 1>>] = Atom(<<text[1]>>)
    BY <1>1, <1>2, <1>3, OneToken
  <1>5. EvaluatePart(text) = Atom(<<x>>)
    BY <1>1, <1>2, <1>4
  <1> QED BY <1>5 DEF text

LEMMA OfNegative ==
    ASSUME NEW n
    PROVE  EvaluatePart(<<Op("-"), Num(n)>>) = {-n}
  <1> DEFINE text == <<Op("-"), Num(n)>>
             S == {Op("-"), Num(n)}
             p == <<1, 2>>
  <1>1. text \in Seq(S) /\ Len(text) = 2 /\ text[1] = Op("-") /\ text[2] = Num(n)
    OBVIOUS
  <1> HIDE DEF text, S
  <1>2. PICK v : Values(v, text) /\ EvaluatePart(text) = v[<<1, Len(text)>>]
    BY <1>1, EvaluatePartIs
  <1>3. p \in Ranges(text) /\ p[1] = 1 /\ p[2] = 2 /\ p = <<1, Len(text)>>
    BY <1>1 DEF Ranges
  <1> HIDE DEF p
  <1>4. p[2] = p[1] + 1
    BY <1>3
  <1>5. v[p] = {-n}
    BY <1>1, <1>2, <1>3, <1>4, NegativeTokens
  <1>6. EvaluatePart(text) = {-n}
    BY <1>2, <1>3, <1>5
  <1> QED BY <1>6 DEF text

(***************************************************************************)
(* LastOperator, where the range and the parts that it is split into are   *)
(* given by their ends.                                                    *)
(***************************************************************************)
LEMMA SplitRange ==
    ASSUME NEW S, NEW text \in Seq(S), NEW v, Values(v, text),
           NEW a \in 1 .. Len(text), NEW b \in a .. Len(text), NEW j \in a .. b,
           NEW lo, lo = j - 1, NEW hi, hi = j + 1,
           NEW o \in ToSet(Operators), text[j] = Op(o),
           b # a + 1 \/ text[a] # Op("-"),
           \A h \in a .. b, r \in ToSet(Operators) :
              text[h] = Op(r) => Rank(o) < Rank(r) \/ (r = o /\ h <= j)
    PROVE  v[<<a, b>>] = Combined(o, v[<<a, lo>>], v[<<hi, b>>])
  <1> DEFINE p == <<a, b>>
             l == <<a, lo>>
             m == <<hi, b>>
  <1>1. /\ p \in Ranges(text) /\ p[1] = a /\ p[2] = b
        /\ l = <<p[1], j - 1>> /\ m = <<j + 1, p[2]>> /\ j \in p[1] .. p[2]
    BY DEF Ranges
  <1> HIDE DEF p, l, m
  <1>2. /\ p[2] # p[1] + 1 \/ text[p[1]] # Op("-")
        /\ \A h \in p[1] .. p[2], r \in ToSet(Operators) :
              text[h] = Op(r) => Rank(o) < Rank(r) \/ (r = o /\ h <= j)
    BY <1>1
  <1>3. v[p] = Combined(o, v[l], v[m])
    BY <1>1, <1>2, LastOperator, SMTT(60)
  <1> QED BY <1>3 DEF p, l, m

LEMMA OfTwo ==
    ASSUME NEW x, x[1] # "operator", NEW y, y[1] # "operator", NEW o \in ToSet(Operators)
    PROVE  EvaluatePart(<<x, Op(o), y>>) = Combined(o, Atom(<<x>>), Atom(<<y>>))
  <1> DEFINE text == <<x, Op(o), y>>
             S == {x, Op(o), y}
  <1>1. /\ text \in Seq(S) /\ Len(text) = 3
        /\ text[1] = x /\ text[2] = Op(o) /\ text[3] = y
    OBVIOUS
  <1> HIDE DEF text, S
  <1>2. PICK v : Values(v, text) /\ EvaluatePart(text) = v[<<1, Len(text)>>]
    BY <1>1, EvaluatePartIs
  <1>3. 1 \in 1 .. Len(text) /\ 3 \in 1 .. Len(text) /\ 2 \in 1 .. 3
    BY <1>1
  <1>4. /\ v[<<1, 1>>] = Atom(<<x>>)
        /\ v[<<3, 3>>] = Atom(<<y>>)
    BY <1>1, <1>2, <1>3, OneToken
  <1>5. \A h \in 1 .. 3, r \in ToSet(Operators) :
           text[h] = Op(r) => Rank(o) < Rank(r) \/ (r = o /\ h <= 2)
    <2>1. \A h \in 1 .. 3 : h \in {1, 2, 3}
      OBVIOUS
    <2> QED BY <1>1, <2>1, OperatorsDiffer
  <1>6. v[<<1, 3>>] = Combined(o, v[<<1, 1>>], v[<<3, 3>>])
    <2>1. 2 \in 1 .. 3 /\ text[2] = Op(o) /\ text \in Seq(S)
      BY <1>1
    <2> QED BY <1>2, <1>3, <1>5, <2>1, SplitRange, SMTT(90)
  <1>7. EvaluatePart(text) = Combined(o, Atom(<<x>>), Atom(<<y>>))
    BY <1>1, <1>2, <1>4, <1>6
  <1> QED BY <1>7 DEF text

\* Two operators bind in the order of the list, and to the left.
LEMMA OfThree ==
    ASSUME NEW x, x[1] # "operator", NEW y, y[1] # "operator", NEW z, z[1] # "operator",
           NEW o \in ToSet(Operators), NEW q \in ToSet(Operators)
    PROVE  EvaluatePart(<<x, Op(o), y, Op(q), z>>) =
             IF Rank(o) < Rank(q)
             THEN Combined(o, Atom(<<x>>), Combined(q, Atom(<<y>>), Atom(<<z>>)))
             ELSE Combined(q, Combined(o, Atom(<<x>>), Atom(<<y>>)), Atom(<<z>>))
  <1> DEFINE text == <<x, Op(o), y, Op(q), z>>
             S == {x, Op(o), y, Op(q), z}
  <1>1. /\ text \in Seq(S) /\ Len(text) = 5 /\ text[1] = x /\ text[2] = Op(o)
        /\ text[3] = y /\ text[4] = Op(q) /\ text[5] = z
    OBVIOUS
  <1>2. Rank(o) \in Nat /\ Rank(q) \in Nat /\ (Rank(o) = Rank(q) => o = q)
    BY RankIs
  <1> HIDE DEF text, S
  <1>3. PICK v : Values(v, text) /\ EvaluatePart(text) = v[<<1, Len(text)>>]
    BY <1>1, EvaluatePartIs
  <1>4. /\ 1 \in 1 .. Len(text) /\ 3 \in 1 .. Len(text) /\ 5 \in 1 .. Len(text)
        /\ text \in Seq(S) /\ Values(v, text)
    BY <1>1, <1>3
  <1>5. /\ v[<<1, 1>>] = Atom(<<x>>)
        /\ v[<<3, 3>>] = Atom(<<y>>)
        /\ v[<<5, 5>>] = Atom(<<z>>)
    BY <1>1, <1>4, OneToken
  <1>6. \A h \in 1 .. 5 : h \in {1, 2, 3, 4, 5}
    OBVIOUS
  <1>7. v[<<1, 3>>] = Combined(o, v[<<1, 1>>], v[<<3, 3>>])
    <2>1. \A h \in 1 .. 3, r \in ToSet(Operators) :
             text[h] = Op(r) => Rank(o) < Rank(r) \/ (r = o /\ h <= 2)
      BY <1>1, <1>6, OperatorsDiffer
    <2>2. 2 \in 1 .. 3 /\ text[2] = Op(o)
      BY <1>1
    <2> QED BY <1>4, <2>1, <2>2, SplitRange, SMTT(90)
  <1>8. v[<<3, 5>>] = Combined(q, v[<<3, 3>>], v[<<5, 5>>])
    <2>1. \A h \in 3 .. 5, r \in ToSet(Operators) :
             text[h] = Op(r) => Rank(q) < Rank(r) \/ (r = q /\ h <= 4)
      BY <1>1, <1>6, OperatorsDiffer
    <2>2. 4 \in 3 .. 5 /\ text[4] = Op(q)
      BY <1>1
    <2> QED BY <1>4, <2>1, <2>2, SplitRange, SMTT(90)
  <1>9. CASE Rank(o) < Rank(q)
    <2>1. \A h \in 1 .. 5, r \in ToSet(Operators) :
             text[h] = Op(r) => Rank(o) < Rank(r) \/ (r = o /\ h <= 2)
      BY <1>1, <1>6, <1>9, OperatorsDiffer
    <2>2. 2 \in 1 .. 5 /\ text[2] = Op(o)
      BY <1>1
    <2>3. v[<<1, 5>>] = Combined(o, v[<<1, 1>>], v[<<3, 5>>])
      BY <1>4, <2>1, <2>2, SplitRange, SMTT(90)
    <2>4. EvaluatePart(text) = Combined(o, v[<<1, 1>>], v[<<3, 5>>])
      BY <1>1, <1>3, <2>3
    <2> QED BY <1>5, <1>8, <1>9, <2>4 DEF text
  <1>10. CASE ~(Rank(o) < Rank(q))
    <2>1. \A h \in 1 .. 5, r \in ToSet(Operators) :
             text[h] = Op(r) => Rank(q) < Rank(r) \/ (r = q /\ h <= 4)
      BY <1>1, <1>2, <1>6, <1>10, OperatorsDiffer
    <2>2. 4 \in 1 .. 5 /\ text[4] = Op(q)
      BY <1>1
    <2>3. v[<<1, 5>>] = Combined(q, v[<<1, 3>>], v[<<5, 5>>])
      BY <1>4, <2>1, <2>2, SplitRange, SMTT(90)
    <2>4. EvaluatePart(text) = Combined(q, v[<<1, 3>>], v[<<5, 5>>])
      BY <1>1, <1>3, <2>3
    <2> QED BY <1>5, <1>7, <1>10, <2>4 DEF text
  <1> QED BY <1>9, <1>10

\* A negative number on the left keeps its sign if the operator is looked for first.
LEMMA NegativeLeft ==
    ASSUME NEW n, NEW z, z[1] # "operator", NEW o \in ToSet(Operators)
    PROVE  EvaluatePart(<<Op("-"), Num(n), Op(o), z>>) =
             IF o \in BeforeMinus \cup {"-"} THEN Combined(o, {-n}, Atom(<<z>>)) ELSE {}
  <1> DEFINE text == <<Op("-"), Num(n), Op(o), z>>
             S == {Op("-"), Num(n), Op(o), z}
             p == <<1, 2>>
             e == <<1, 0>>
  <1>1. /\ text \in Seq(S) /\ Len(text) = 4 /\ text[1] = Op("-") /\ text[2] = Num(n)
        /\ text[3] = Op(o) /\ text[4] = z
    OBVIOUS
  <1> HIDE DEF text, S
  <1>2. PICK v : Values(v, text) /\ EvaluatePart(text) = v[<<1, Len(text)>>]
    BY <1>1, EvaluatePartIs
  <1>3. /\ 1 \in 1 .. Len(text) /\ 4 \in 1 .. Len(text)
        /\ text \in Seq(S) /\ Values(v, text)
    BY <1>1, <1>2
  <1>4. \A h \in 1 .. 4 : h \in {1, 2, 3, 4}
    OBVIOUS
  <1>5. Rank(o) \in Nat
    BY RankIs
  <1>6. CASE o \in BeforeMinus \cup {"-"}
    <2>1. \A h \in 1 .. 4, r \in ToSet(Operators) :
             text[h] = Op(r) => Rank(o) < Rank(r) \/ (r = o /\ h <= 3)
      BY <1>1, <1>4, <1>5, <1>6, OperatorsDiffer, MinusIs
    <2>2. 3 \in 1 .. 4 /\ text[3] = Op(o)
      BY <1>1
    <2>3. v[<<1, 4>>] = Combined(o, v[<<1, 2>>], v[<<4, 4>>])
      BY <1>3, <2>1, <2>2, SplitRange, SMTT(90)
    <2>4. v[p] = {-n}
      <3>1. p \in Ranges(text) /\ p[1] = 1 /\ p[2] = 2
        BY <1>1 DEF Ranges
      <3> HIDE DEF p
      <3>2. p[2] = p[1] + 1
        BY <3>1
      <3> QED BY <1>1, <1>2, <3>1, <3>2, NegativeTokens
    <2>5. v[<<4, 4>>] = Atom(<<z>>)
      BY <1>1, <1>3, OneToken
    <2>6. EvaluatePart(text) = Combined(o, {-n}, Atom(<<z>>))
      BY <1>1, <1>2, <2>3, <2>4, <2>5
    <2> QED BY <1>6, <2>6 DEF text
  <1>7. CASE o \notin BeforeMinus \cup {"-"}
    <2>1. Rank("-") < Rank(o)
      BY <1>5, <1>7, MinusIs
    <2>2. \A h \in 1 .. 4, r \in ToSet(Operators) :
             text[h] = Op(r) => Rank("-") < Rank(r) \/ (r = "-" /\ h <= 1)
      BY <1>1, <1>4, <2>1, OperatorsDiffer
    <2>3. 1 \in 1 .. 4 /\ text[1] = Op("-")
      BY <1>1
    <2>4. v[<<1, 4>>] = Combined("-", v[<<1, 0>>], v[<<2, 4>>])
      BY <1>3, <2>2, <2>3, MinusIs, SplitRange, SMTT(90)
    <2>5. v[e] = {}
      <3>1. e \in Ranges(text) /\ e[2] < e[1]
        BY <1>1 DEF Ranges
      <3> HIDE DEF e
      <3> QED BY <1>1, <1>2, <3>1, NoTokens
    <2>6. v[<<1, 4>>] = {}
      BY <2>4, <2>5, CombinedNone
    <2>7. EvaluatePart(text) = {}
      BY <1>1, <1>2, <2>6
    <2> QED BY <1>7, <2>7 DEF text
  <1> QED BY <1>6, <1>7

\* On the right it keeps its sign if the operator is looked for before the minus.
LEMMA NegativeRight ==
    ASSUME NEW n, NEW x, x[1] # "operator", NEW o \in ToSet(Operators)
    PROVE  EvaluatePart(<<x, Op(o), Op("-"), Num(n)>>) =
             IF o \in BeforeMinus THEN Combined(o, Atom(<<x>>), {-n}) ELSE {}
  <1> DEFINE text == <<x, Op(o), Op("-"), Num(n)>>
             S == {x, Op(o), Op("-"), Num(n)}
             p == <<3, 4>>
             e == <<3, 2>>
  <1>1. /\ text \in Seq(S) /\ Len(text) = 4 /\ text[1] = x /\ text[2] = Op(o)
        /\ text[3] = Op("-") /\ text[4] = Num(n)
    OBVIOUS
  <1> HIDE DEF text, S
  <1>2. PICK v : Values(v, text) /\ EvaluatePart(text) = v[<<1, Len(text)>>]
    BY <1>1, EvaluatePartIs
  <1>3. /\ 1 \in 1 .. Len(text) /\ 2 \in 1 .. Len(text) /\ 4 \in 1 .. Len(text)
        /\ text \in Seq(S) /\ Values(v, text)
    BY <1>1, <1>2
  <1>4. \A h \in 1 .. 4 : h \in {1, 2, 3, 4}
    OBVIOUS
  <1>5. Rank(o) \in Nat
    BY RankIs
  <1>6. CASE o \in BeforeMinus
    <2>1. \A h \in 1 .. 4, r \in ToSet(Operators) :
             text[h] = Op(r) => Rank(o) < Rank(r) \/ (r = o /\ h <= 2)
      BY <1>1, <1>4, <1>5, <1>6, OperatorsDiffer, MinusIs
    <2>2. 2 \in 1 .. 4 /\ text[2] = Op(o)
      BY <1>1
    <2>3. v[<<1, 4>>] = Combined(o, v[<<1, 1>>], v[<<3, 4>>])
      BY <1>3, <2>1, <2>2, SplitRange, SMTT(90)
    <2>4. v[p] = {-n}
      <3>1. p \in Ranges(text) /\ p[1] = 3 /\ p[2] = 4
        BY <1>1 DEF Ranges
      <3> HIDE DEF p
      <3>2. p[2] = p[1] + 1
        BY <3>1
      <3> QED BY <1>1, <1>2, <3>1, <3>2, NegativeTokens
    <2>5. v[<<1, 1>>] = Atom(<<x>>)
      BY <1>1, <1>3, OneToken
    <2>6. EvaluatePart(text) = Combined(o, Atom(<<x>>), {-n})
      BY <1>1, <1>2, <2>3, <2>4, <2>5
    <2> QED BY <1>6, <2>6 DEF text
  <1>7. CASE o \notin BeforeMinus
    <2>1. Rank("-") < Rank(o) \/ o = "-"
      BY <1>5, <1>7, MinusIs
    <2>2. \A h \in 1 .. 4, r \in ToSet(Operators) :
             text[h] = Op(r) => Rank("-") < Rank(r) \/ (r = "-" /\ h <= 3)
      BY <1>1, <1>4, <2>1, OperatorsDiffer
    <2>3. 3 \in 1 .. 4 /\ text[3] = Op("-")
      BY <1>1
    <2>4. v[<<1, 4>>] = Combined("-", v[<<1, 2>>], v[<<4, 4>>])
      BY <1>3, <2>2, <2>3, MinusIs, SplitRange, SMTT(90)
    <2>5. v[e] = {}
      <3>1. e \in Ranges(text) /\ e[2] < e[1]
        BY <1>1 DEF Ranges
      <3> HIDE DEF e
      <3> QED BY <1>1, <1>2, <3>1, NoTokens
    <2>6. v[<<1, 2>>] = {}
      <3>1. \A h \in 1 .. 2, r \in ToSet(Operators) :
               text[h] = Op(r) => Rank(o) < Rank(r) \/ (r = o /\ h <= 2)
        BY <1>1, <1>4, OperatorsDiffer
      <3>2. 2 \in 1 .. 2 /\ text[2] = Op(o) /\ text[1] # Op("-")
        BY <1>1, OperatorsDiffer
      <3>3. v[<<1, 2>>] = Combined(o, v[<<1, 1>>], v[<<3, 2>>])
        BY <1>3, <3>1, <3>2, SplitRange, SMTT(90)
      <3> QED BY <2>5, <3>3, CombinedNone
    <2>7. EvaluatePart(text) = {}
      BY <1>1, <1>2, <2>4, <2>6, CombinedNone
    <2> QED BY <1>7, <2>7 DEF text
  <1> QED BY <1>6, <1>7

-----------------------------------------------------------------------------
(* Values *)

\* A number or a name has one value at most, and so has what is made of two.
LEMMA AtomsAre ==
    ASSUME NEW x \in Operands
    PROVE  /\ x[1] # "operator" /\ x # Open /\ x # Close
           /\ Atom(<<x>>) = {} \/ \E n \in Int : Atom(<<x>>) = {n}
  <1>1. \/ x[1] = "number" /\ x[2] \in Nat
        \/ x[1] = "name"
    BY OperandsAssumption
  <1>2. Len(<<x>>) = 1 /\ <<x>>[1] = x
    OBVIOUS
  <1>3. x[1] # "operator" /\ x # Open /\ x # Close
    BY <1>1 DEF Open, Close
  <1>4. Atom(<<x>>) = {} \/ \E n \in Int : Atom(<<x>>) = {n}
    BY <1>1, <1>2, OperandsAssumption DEF Atom
  <1> QED BY <1>3, <1>4

LEMMA NumbersAreAtoms ==
    ASSUME NEW n
    PROVE  Atom(<<Num(n)>>) = {n} /\ Num(n)[1] # "operator"
  BY DEF Atom, Num

LEMMA AppliedIs ==
    ASSUME NEW o \in ToSet(Operators), NEW a \in Int, NEW b \in Int
    PROVE  Applied(o, a, b) = {} \/ \E n \in Int : Applied(o, a, b) = {n}
  <1>1. o \in {"*", "/", "%", "+", "-", ">>", "<<", "&", "^", "|"}
    BY DEF Operators, ToSet
  <1>2. \A S : FromBits(S) \in Int
    <2> TAKE S
    <2>1. SignBit \in Nat /\ \A k \in 0 .. SignBit : PowerOf2[k] \in Nat
      BY TwosAre
    <2> QED BY <2>1, FromBitsIs
  <1>3. /\ BitAnd(a, b) \in Int /\ BitOr(a, b) \in Int /\ BitXor(a, b) \in Int
    BY <1>2 DEF BitAnd, BitOr, BitXor
  <1>4. CASE o \in {"&", "^", "|"}
    BY <1>3, <1>4 DEF Applied
  <1>5. CASE o \in {"*", "+", "-"}
    <2>1. a * b \in Int
      OBVIOUS
    <2>2. Applied(o, a, b) \in {{a * b}, {a + b}, {a - b}}
      BY <1>5 DEF Applied
    <2> QED BY <2>1, <2>2
  <1>6. CASE o \in {"/", "%"}
    <2>1. b # 0 => FloorDiv(a, b) \in Int
      <3>1. b > 0 => a \div b \in Int
        BY Divided
      <3>2. b < 0 => (-a) \div (-b) \in Int
        BY Divided
      <3> QED BY <3>1, <3>2 DEF FloorDiv
    <2>2. b # 0 => a - b * FloorDiv(a, b) \in Int
      BY <2>1
    <2> QED BY <1>6, <2>1, <2>2 DEF Applied
  <1>7. CASE o \in {">>", "<<"}
    <2>1. b >= 0 => PowerOf2[b] \in Nat \ {0}
      BY TwosAreAll
    <2>2. b >= 0 => a * PowerOf2[b] \in Int
      BY <2>1
    <2>3. b >= 0 => a \div PowerOf2[b] \in Int
      BY <2>1, Divided
    <2> QED BY <1>7, <2>2, <2>3 DEF Applied
  <1> QED BY <1>1, <1>4, <1>5, <1>6, <1>7

LEMMA CombinedIs ==
    ASSUME NEW o \in ToSet(Operators), NEW A, NEW B,
           A = {} \/ \E n \in Int : A = {n},
           B = {} \/ \E n \in Int : B = {n}
    PROVE  Combined(o, A, B) = {} \/ \E n \in Int : Combined(o, A, B) = {n}
  <1>1. CASE A = {} \/ B = {}
    BY <1>1, CombinedNone
  <1>2. CASE A # {} /\ B # {}
    <2>1. PICK a \in Int, b \in Int : A = {a} /\ B = {b}
      BY <1>2
    <2>2. Combined(o, A, B) = Applied(o, a, b)
      BY <2>1 DEF Combined
    <2> QED BY <2>2, AppliedIs
  <1> QED BY <1>1, <1>2

-----------------------------------------------------------------------------
(* evaluate *)

AllTokens ==
    Operands \cup {Op(o) : o \in ToSet(Operators)} \cup {Num(n) : n \in Int} \cup {Open, Close}

\* Where the bracket is, or is not: before the text, or beyond it
OpensAt(e) == IF e.shape \in {"left", "all"} THEN 1
              ELSE IF e.shape \in {"right", "open"} THEN 3 ELSE 0

ClosesAt(e) == IF e.shape = "left" THEN 5
               ELSE IF e.shape = "close" THEN 4
               ELSE IF e.shape = "flat" THEN 6 ELSE 7

LEMMA TextIs ==
    ASSUME NEW e \in ExpressionsOf
    PROVE  /\ Text(e) \in Seq(AllTokens) /\ Len(Text(e)) \in 5 .. 7
           /\ OpensAt(e) \in {0, 1, 3} /\ ClosesAt(e) \in 4 .. 7
           /\ \A k \in 1 .. Len(Text(e)) : /\ Text(e)[k] = Open <=> k = OpensAt(e)
                                           /\ Text(e)[k] = Close <=> k = ClosesAt(e)
  <1>1. /\ e.shape \in Shapes
        /\ e.a \in Operands /\ e.b \in Operands /\ e.c \in Operands
        /\ e.o \in ToSet(Operators) /\ e.p \in ToSet(Operators)
    BY DEF ExpressionsOf
  <1> DEFINE a == e.a
             b == e.b
             c == e.c
             o == Op(e.o)
             p == Op(e.p)
  <1>2. /\ a \in AllTokens /\ b \in AllTokens /\ c \in AllTokens
        /\ o \in AllTokens /\ p \in AllTokens /\ Open \in AllTokens /\ Close \in AllTokens
    BY <1>1 DEF AllTokens
  <1>3. /\ a # Open /\ b # Open /\ c # Open /\ o # Open /\ p # Open
        /\ a # Close /\ b # Close /\ c # Close /\ o # Close /\ p # Close /\ Open # Close
    BY <1>1, AtomsAre DEF Op, Open, Close
  <1>4. /\ \A k \in 1 .. 7 : k \in {1, 2, 3, 4, 5, 6, 7}
        /\ \A k \in 1 .. 6 : k \in {1, 2, 3, 4, 5, 6}
        /\ \A k \in 1 .. 5 : k \in {1, 2, 3, 4, 5}
    OBVIOUS
  <1> DEFINE T == Text(e)
             s == OpensAt(e)
             f == ClosesAt(e)
  <1>5. CASE e.shape = "left"
    <2>1. T = <<Open, a, o, b, Close, p, c>> /\ s = 1 /\ f = 5
      BY <1>5 DEF Text, OpensAt, ClosesAt
    <2> HIDE DEF T, s, f, a, b, c, o, p
    <2> QED BY <1>2, <1>3, <1>4, <2>1 DEF T, s, f
  <1>6. CASE e.shape = "right"
    <2>1. T = <<a, o, Open, b, p, c, Close>> /\ s = 3 /\ f = 7
      BY <1>6 DEF Text, OpensAt, ClosesAt
    <2> HIDE DEF T, s, f, a, b, c, o, p
    <2> QED BY <1>2, <1>3, <1>4, <2>1 DEF T, s, f
  <1>7. CASE e.shape = "all"
    <2>1. T = <<Open, a, o, b, p, c, Close>> /\ s = 1 /\ f = 7
      BY <1>7 DEF Text, OpensAt, ClosesAt
    <2> HIDE DEF T, s, f, a, b, c, o, p
    <2> QED BY <1>2, <1>3, <1>4, <2>1 DEF T, s, f
  <1>8. CASE e.shape = "flat"
    <2>1. T = <<a, o, b, p, c>> /\ s = 0 /\ f = 6
      BY <1>8 DEF Text, OpensAt, ClosesAt
    <2> HIDE DEF T, s, f, a, b, c, o, p
    <2> QED BY <1>2, <1>3, <1>4, <2>1 DEF T, s, f
  <1>9. CASE e.shape = "open"
    <2>1. T = <<a, o, Open, b, p, c>> /\ s = 3 /\ f = 7
      BY <1>9 DEF Text, OpensAt, ClosesAt
    <2> HIDE DEF T, s, f, a, b, c, o, p
    <2> QED BY <1>2, <1>3, <1>4, <2>1 DEF T, s, f
  <1>10. CASE e.shape = "close"
    <2>1. T = <<a, o, b, Close, p, c>> /\ s = 0 /\ f = 4
      BY <1>10 DEF Text, OpensAt, ClosesAt
    <2> HIDE DEF T, s, f, a, b, c, o, p
    <2> QED BY <1>2, <1>3, <1>4, <2>1 DEF T, s, f
  <1> QED BY <1>1, <1>5, <1>6, <1>7, <1>8, <1>9, <1>10 DEF Shapes

\* The text between the brackets, and the one that has its value in its place
Inner(e) == SubSeq(Text(e), OpensAt(e) + 1, ClosesAt(e) - 1)

Outer(e, v, n) ==
    SubSeq(Text(e), 1, OpensAt(e) - 1) \o Str(v) \o SubSeq(Text(e), ClosesAt(e) + 1, n)

Bracketed(e) == OpensAt(e) > 0 /\ ClosesAt(e) <= Len(Text(e))

\* The value of three operands without brackets
Flat(e) ==
    LET a == Atom(<<e.a>>)
        b == Atom(<<e.b>>)
        c == Atom(<<e.c>>)
    IN IF Rank(e.o) < Rank(e.p) THEN Combined(e.o, a, Combined(e.p, b, c))
       ELSE Combined(e.p, Combined(e.o, a, b), c)

InnerValue(e) ==
    IF e.shape = "left" THEN Combined(e.o, Atom(<<e.a>>), Atom(<<e.b>>))
    ELSE IF e.shape = "right" THEN Combined(e.p, Atom(<<e.b>>), Atom(<<e.c>>))
    ELSE Flat(e)

LEMMA PartsAre ==
    ASSUME NEW e \in ExpressionsOf
    PROVE  /\ e.shape \in Shapes
           /\ e.a \in Operands /\ e.b \in Operands /\ e.c \in Operands
           /\ e.o \in ToSet(Operators) /\ e.p \in ToSet(Operators)
           /\ e.a[1] # "operator" /\ e.b[1] # "operator" /\ e.c[1] # "operator"
  BY AtomsAre DEF ExpressionsOf

LEMMA FlatIs ==
    ASSUME NEW e \in ExpressionsOf
    PROVE  /\ EvaluatePart(<<e.a, Op(e.o), e.b, Op(e.p), e.c>>) = Flat(e)
           /\ Flat(e) = {} \/ \E n \in Int : Flat(e) = {n}
  <1>1. EvaluatePart(<<e.a, Op(e.o), e.b, Op(e.p), e.c>>) = Flat(e)
    BY PartsAre, OfThree DEF Flat
  <1> DEFINE a == Atom(<<e.a>>)
             b == Atom(<<e.b>>)
             c == Atom(<<e.c>>)
             One(S) == S = {} \/ \E n \in Int : S = {n}
  <1>2. One(a) /\ One(b) /\ One(c)
    BY PartsAre, AtomsAre
  <1> HIDE DEF a, b, c
  <1>3. One(Combined(e.p, b, c)) /\ One(Combined(e.o, a, b))
    BY <1>2, PartsAre, CombinedIs
  <1>4. One(Combined(e.o, a, Combined(e.p, b, c))) /\ One(Combined(e.p, Combined(e.o, a, b), c))
    BY <1>2, <1>3, PartsAre, CombinedIs
  <1>5. One(Flat(e))
    BY <1>4 DEF Flat, a, b, c
  <1> QED BY <1>1, <1>5

LEMMA InnerIs ==
    ASSUME NEW e \in ExpressionsOf, Bracketed(e)
    PROVE  /\ e.shape \in {"left", "right", "all"}
           /\ EvaluatePart(Inner(e)) = InnerValue(e)
           /\ InnerValue(e) = {} \/ \E n \in Int : InnerValue(e) = {n}
  <1> DEFINE a == e.a
             b == e.b
             c == e.c
             o == Op(e.o)
             p == Op(e.p)
             T == Text(e)
             I == Inner(e)
  <1>1. T \in Seq(AllTokens) /\ e.shape \in Shapes
    BY TextIs, PartsAre
  <1>2. CASE e.shape = "left"
    <2>1. T = <<Open, a, o, b, Close, p, c>> /\ I = SubSeq(T, 2, 4)
      BY <1>2 DEF Text, Inner, OpensAt, ClosesAt
    <2> HIDE DEF T, I, a, b, c, o, p
    <2>2. I \in Seq(AllTokens) /\ Len(I) = 3 /\ I[1] = a /\ I[2] = o /\ I[3] = b
      BY <1>1, <2>1
    <2>3. I = <<a, o, b>>
      BY <2>2
    <2>4. EvaluatePart(I) = Combined(e.o, Atom(<<a>>), Atom(<<b>>))
      BY <2>3, PartsAre, OfTwo DEF a, b, o
    <2>5. InnerValue(e) = Combined(e.o, Atom(<<a>>), Atom(<<b>>))
      BY <1>2 DEF InnerValue, a, b
    <2>6. InnerValue(e) = {} \/ \E n \in Int : InnerValue(e) = {n}
      BY <2>5, PartsAre, AtomsAre, CombinedIs DEF a, b
    <2> QED BY <1>2, <2>4, <2>5, <2>6 DEF I
  <1>3. CASE e.shape = "right"
    <2>1. T = <<a, o, Open, b, p, c, Close>> /\ I = SubSeq(T, 4, 6)
      BY <1>3 DEF Text, Inner, OpensAt, ClosesAt
    <2> HIDE DEF T, I, a, b, c, o, p
    <2>2. I \in Seq(AllTokens) /\ Len(I) = 3 /\ I[1] = b /\ I[2] = p /\ I[3] = c
      BY <1>1, <2>1
    <2>3. I = <<b, p, c>>
      BY <2>2
    <2>4. EvaluatePart(I) = Combined(e.p, Atom(<<b>>), Atom(<<c>>))
      BY <2>3, PartsAre, OfTwo DEF b, c, p
    <2>5. InnerValue(e) = Combined(e.p, Atom(<<b>>), Atom(<<c>>))
      BY <1>3 DEF InnerValue, b, c
    <2>6. InnerValue(e) = {} \/ \E n \in Int : InnerValue(e) = {n}
      BY <2>5, PartsAre, AtomsAre, CombinedIs DEF b, c
    <2> QED BY <1>3, <2>4, <2>5, <2>6 DEF I
  <1>4. CASE e.shape = "all"
    <2>1. T = <<Open, a, o, b, p, c, Close>> /\ I = SubSeq(T, 2, 6)
      BY <1>4 DEF Text, Inner, OpensAt, ClosesAt
    <2> HIDE DEF T, I, a, b, c, o, p
    <2>2. /\ I \in Seq(AllTokens) /\ Len(I) = 5
          /\ I[1] = a /\ I[2] = o /\ I[3] = b /\ I[4] = p /\ I[5] = c
      BY <1>1, <2>1
    <2>3. I = <<a, o, b, p, c>>
      BY <2>2
    <2>4. EvaluatePart(I) = Flat(e)
      BY <2>3, FlatIs DEF a, b, c, o, p
    <2>5. InnerValue(e) = Flat(e)
      BY <1>4 DEF InnerValue
    <2> QED BY <1>4, <2>4, <2>5, FlatIs DEF I
  <1>5. e.shape \in {"left", "right", "all"}
    <2>1. e.shape = "flat" => OpensAt(e) = 0
      BY DEF OpensAt
    <2>2. e.shape = "close" => OpensAt(e) = 0
      BY DEF OpensAt
    <2>3. e.shape = "open" => ~(ClosesAt(e) <= Len(Text(e)))
      <3> HAVE e.shape = "open"
      <3>1. ClosesAt(e) = 7 /\ Text(e) = <<a, o, Open, b, p, c>>
        BY DEF ClosesAt, Text
      <3> HIDE DEF a, o, b, p, c
      <3> QED BY <3>1
    <2>4. OpensAt(e) > 0 /\ ClosesAt(e) <= Len(Text(e))
      BY DEF Bracketed
    <2>5. e.shape # "flat" /\ e.shape # "close"
      BY <2>1, <2>2, <2>4
    <2>6. e.shape # "open"
      BY <2>3, <2>4
    <2> HIDE DEF T
    <2> QED BY <1>1, <2>5, <2>6 DEF Shapes
  <1> QED BY <1>2, <1>3, <1>4, <1>5

LEMMA StrIs ==
    ASSUME NEW v \in Int
    PROVE  Str(v) \in Seq(AllTokens)
  <1> DEFINE S == AllTokens
  <1>1. Num(v) \in S /\ Num(-v) \in S
    BY DEF AllTokens, Num
  <1>2. Op("-") \in S
    BY MinusIs DEF AllTokens
  <1> HIDE DEF S
  <1>3. Str(v) = <<Op("-"), Num(-v)>> \/ Str(v) = <<Num(v)>>
    BY DEF Str
  <1> DEFINE m == Op("-")
             x == Num(v)
             y == Num(-v)
  <1> HIDE DEF m, x, y
  <1>4. m \in S /\ x \in S /\ y \in S
    BY <1>1, <1>2 DEF m, x, y
  <1>5. <<m, y>> \in Seq(S) /\ <<x>> \in Seq(S)
    BY <1>4
  <1>6. Str(v) \in Seq(S)
    BY <1>3, <1>5 DEF m, x, y
  <1> QED BY <1>6 DEF S

\* A range of a text, and the token after it
LEMMA RangeGrows ==
    ASSUME NEW S, NEW T \in Seq(S), NEW a \in Nat \ {0}, NEW n \in Nat,
           a <= n + 1, n < Len(T)
    PROVE  Append(SubSeq(T, a, n), T[n + 1]) = SubSeq(T, a, n + 1)
  <1> DEFINE L == Append(SubSeq(T, a, n), T[n + 1])
             R == SubSeq(T, a, n + 1)
  <1>1. /\ L \in Seq(S) /\ Len(L) = n + 2 - a
        /\ R \in Seq(S) /\ Len(R) = n + 2 - a
    OBVIOUS
  <1>2. \A k \in 1 .. Len(L) : L[k] = R[k]
    <2> TAKE k \in 1 .. Len(L)
    <2>1. R[k] = T[a + k - 1]
      BY <1>1
    <2>2. CASE k = n + 2 - a
      BY <1>1, <2>1, <2>2
    <2>3. CASE k < n + 2 - a
      <3>1. Len(SubSeq(T, a, n)) = n + 1 - a /\ SubSeq(T, a, n) \in Seq(S)
        OBVIOUS
      <3>2. L[k] = SubSeq(T, a, n)[k]
        BY <1>1, <2>3, <3>1
      <3>3. SubSeq(T, a, n)[k] = T[a + k - 1]
        BY <1>1, <2>3, <3>1
      <3> QED BY <2>1, <3>2, <3>3
    <2> QED BY <1>1, <2>2, <2>3
  <1> HIDE DEF L, R
  <1>3. L = R
    BY <1>1, <1>2
  <1> QED BY <1>3 DEF L, R

LEMMA RangeStarts ==
    ASSUME NEW S, NEW T \in Seq(S), NEW n \in 0 .. Len(T)
    PROVE  SubSeq(T, n + 1, n) = <<>>
  OBVIOUS

LEMMA JoinedGrows ==
    \A A, B \in Seq(AllTokens) : \A x \in AllTokens : Append(A \o B, x) = A \o Append(B, x)
  <1> DEFINE S == AllTokens
  <1> HIDE DEF S
  <1>1. \A A, B \in Seq(S) : \A x \in S : Append(A \o B, x) = A \o Append(B, x)
    OBVIOUS
  <1> QED BY <1>1, Zenon DEF S

LEMMA JoinedEmpty ==
    ASSUME NEW S, NEW A \in Seq(S)
    PROVE  A \o <<>> = A
  OBVIOUS

(***************************************************************************)
(* What evaluate has read: all of the text before the bracket is the       *)
(* buffer; between the brackets it is what levels keeps, and the buffer    *)
(* starts after the bracket; after them the value is in their place.       *)
(***************************************************************************)
Before(e, n, saved, text) ==
    /\ n < OpensAt(e) \/ OpensAt(e) = 0
    /\ n < ClosesAt(e)
    /\ saved = <<>>
    /\ text = SubSeq(Text(e), 1, n)

Within(e, n, saved, text) ==
    /\ 0 < OpensAt(e) /\ OpensAt(e) <= n
    /\ n < ClosesAt(e)
    /\ saved = <<SubSeq(Text(e), 1, OpensAt(e) - 1)>>
    /\ text = SubSeq(Text(e), OpensAt(e) + 1, n)

After(e, n, saved, text) ==
    /\ 0 < OpensAt(e)
    /\ ClosesAt(e) <= n
    /\ saved = <<>>
    /\ \E v \in EvaluatePart(Inner(e)) : text = Outer(e, v, n)

\* What it returns: the value of the text after a bracket that is not closed,
\* nothing where it raised, or the value with the one of the brackets in their place
Outcome(e, S) ==
    \/ /\ Len(Text(e)) < ClosesAt(e)
       /\ S = EvaluatePart(SubSeq(Text(e), OpensAt(e) + 1, Len(Text(e))))
    \/ /\ ClosesAt(e) <= Len(Text(e))
       /\ OpensAt(e) = 0 \/ EvaluatePart(Inner(e)) = {}
       /\ S = {}
    \/ /\ Bracketed(e)
       /\ \E v \in EvaluatePart(Inner(e)) : S = EvaluatePart(Outer(e, v, Len(Text(e))))

ExpressionInv ==
    /\ expression \in ExpressionsOf
    /\ i \in 0 .. Len(Text(expression))
    /\ returned \in BOOLEAN
    /\ ~returned => /\ result = {}
                    /\ \/ Before(expression, i, levels, buf)
                       \/ Within(expression, i, levels, buf)
                       \/ After(expression, i, levels, buf)
    /\ returned => Outcome(expression, result)

LEMMA BracketsAre ==
    ASSUME NEW e \in ExpressionsOf, OpensAt(e) > 0
    PROVE  OpensAt(e) < ClosesAt(e) /\ OpensAt(e) <= Len(Text(e))
  <1>1. OpensAt(e) \in {0, 1, 3} /\ ClosesAt(e) \in 4 .. 7 /\ Len(Text(e)) \in 5 .. 7
    BY TextIs
  <1> QED BY <1>1

LEMMA BeforeOpens ==
    ASSUME NEW e \in ExpressionsOf, NEW n \in 0 .. Len(Text(e)) - 1, NEW saved, NEW text,
           n + 1 = OpensAt(e), Before(e, n, saved, text)
    PROVE  Within(e, n + 1, Append(saved, text), <<>>)
  <1> DEFINE T == Text(e)
             a == OpensAt(e)
  <1>1. T \in Seq(AllTokens) /\ a \in Nat /\ a > 0 /\ a <= Len(T) /\ a < ClosesAt(e)
    BY TextIs, BracketsAre
  <1>2. saved = <<>> /\ text = SubSeq(T, 1, a - 1)
    BY DEF Before
  <1> HIDE DEF T
  <1>3. Append(saved, text) = <<text>>
    BY <1>2
  <1>4. SubSeq(T, a + 1, n + 1) = <<>>
    BY <1>1
  <1> QED BY <1>1, <1>2, <1>3, <1>4 DEF Within, T

LEMMA WithinCloses ==
    ASSUME NEW e \in ExpressionsOf, NEW n \in 0 .. Len(Text(e)) - 1, NEW saved, NEW text,
           n + 1 = ClosesAt(e), Within(e, n, saved, text)
    PROVE  /\ text = Inner(e) /\ Bracketed(e)
           /\ saved # <<>>
           /\ \A v \in EvaluatePart(text) : After(e, n + 1, Front(saved), Last(saved) \o Str(v))
  <1> DEFINE T == Text(e)
             a == OpensAt(e)
             L == SubSeq(T, 1, a - 1)
  <1>1. T \in Seq(AllTokens) /\ a \in Nat /\ a > 0 /\ a <= Len(T)
    BY TextIs, BracketsAre DEF Within
  <1>2. saved = <<L>> /\ text = Inner(e) /\ Bracketed(e)
    BY <1>1 DEF Within, Inner, Bracketed
  <1>3. L \in Seq(AllTokens)
    BY <1>1
  <1> HIDE DEF L, T, a
  <1>4. saved # <<>> /\ Last(saved) = L /\ Front(saved) = <<>>
    BY <1>2 DEF Last, Front
  <1>5. ASSUME NEW v \in EvaluatePart(text)
        PROVE  After(e, n + 1, Front(saved), Last(saved) \o Str(v))
    <2>1. v \in Int
      BY <1>2, <1>5, InnerIs
    <2>2. Str(v) \in Seq(AllTokens)
      BY <2>1, StrIs
    <2>3. SubSeq(T, ClosesAt(e) + 1, n + 1) = <<>>
      BY <1>1 DEF T
    <2> DEFINE M == L \o Str(v)
    <2>4. M \in Seq(AllTokens)
      BY <1>3, <2>2
    <2>5. M \o <<>> = M
      BY <2>4, JoinedEmpty
    <2>6. Outer(e, v, n + 1) = M
      BY <2>3, <2>5 DEF Outer, L, T, a
    <2>7. v \in EvaluatePart(Inner(e)) /\ Last(saved) \o Str(v) = Outer(e, v, n + 1)
      BY <1>2, <1>4, <1>5, <2>6
    <2>8. 0 < OpensAt(e) /\ ClosesAt(e) <= n + 1
      BY <1>1 DEF a
    <2> QED BY <1>4, <2>7, <2>8 DEF After
  <1> QED BY <1>2, <1>4, <1>5

LEMMA TokenIsKept ==
    ASSUME NEW e \in ExpressionsOf, NEW n \in 0 .. Len(Text(e)) - 1, NEW saved, NEW text,
           Text(e)[n + 1] \notin {Open, Close}
    PROVE  LET more == Append(text, Text(e)[n + 1])
           IN /\ Before(e, n, saved, text) => Before(e, n + 1, saved, more)
              /\ Within(e, n, saved, text) => Within(e, n + 1, saved, more)
              /\ After(e, n, saved, text) => After(e, n + 1, saved, more)
  <1> DEFINE T == Text(e)
             a == OpensAt(e)
             f == ClosesAt(e)
             more == Append(text, T[n + 1])
  <1>1. /\ T \in Seq(AllTokens) /\ Len(T) \in Nat /\ a \in Nat /\ f \in Nat
        /\ n + 1 # a /\ n + 1 # f
        /\ n \in Nat /\ n + 1 \in 1 .. Len(T) /\ T[n + 1] \in AllTokens
        /\ a > 0 => a < f
    BY TextIs, BracketsAre
  <1> HIDE DEF T, a, f
  <1>2. ASSUME Before(e, n, saved, text) PROVE Before(e, n + 1, saved, more)
    <2>1. (n < a \/ a = 0) /\ n < f /\ saved = <<>> /\ text = SubSeq(T, 1, n)
      BY <1>2 DEF Before, T, a, f
    <2>2. more = SubSeq(T, 1, n + 1)
      BY <1>1, <2>1, RangeGrows
    <2>3. (n + 1 < a \/ a = 0) /\ n + 1 < f
      BY <1>1, <2>1
    <2> HIDE DEF more
    <2> QED BY <2>1, <2>2, <2>3 DEF Before, T, a, f
  <1>3. ASSUME Within(e, n, saved, text) PROVE Within(e, n + 1, saved, more)
    <2>1. /\ 0 < a /\ a <= n /\ n < f /\ saved = <<SubSeq(T, 1, a - 1)>>
          /\ text = SubSeq(T, a + 1, n)
      BY <1>3 DEF Within, T, a, f
    <2>2. more = SubSeq(T, a + 1, n + 1)
      BY <1>1, <2>1, RangeGrows
    <2>3. a <= n + 1 /\ n + 1 < f
      BY <1>1, <2>1
    <2> HIDE DEF more
    <2> QED BY <2>1, <2>2, <2>3 DEF Within, T, a, f
  <1>4. ASSUME After(e, n, saved, text) PROVE After(e, n + 1, saved, more)
    <2>1. 0 < a /\ f <= n /\ saved = <<>>
      BY <1>4 DEF After, a, f
    <2>2. PICK v \in EvaluatePart(Inner(e)) : text = Outer(e, v, n)
      BY <1>4 DEF After
    <2>3. Bracketed(e)
      BY <1>1, <2>1 DEF Bracketed, a, f, T
    <2>4. v \in Int
      BY <2>2, <2>3, InnerIs
    <2> DEFINE L == SubSeq(T, 1, a - 1)
               M == L \o Str(v)
    <2>5. L \in Seq(AllTokens) /\ Str(v) \in Seq(AllTokens)
      <3>1. 1 \in 1 .. Len(T) + 1 /\ a - 1 \in 0 .. Len(T)
        BY <1>1, <2>1
      <3>2. Str(v) \in Seq(AllTokens)
        BY <2>4, StrIs
      <3> DEFINE S == AllTokens
      <3>3. T \in Seq(S)
        BY <1>1
      <3> HIDE DEF S
      <3>4. SubSeq(T, 1, a - 1) \in Seq(S)
        BY <3>1, <3>3
      <3> QED BY <3>2, <3>4 DEF S
    <2>6. M \in Seq(AllTokens)
      BY <2>5
    <2>7. n < Len(T)
      BY <1>1
    <2>8. text = M \o SubSeq(T, f + 1, n)
      BY <2>2 DEF Outer, T, a, f
    <2> HIDE DEF M
    <2>9. more = M \o SubSeq(T, f + 1, n + 1)
      <3> DEFINE R == SubSeq(T, f + 1, n)
                 t == T[n + 1]
                 S == AllTokens
      <3>1. T \in Seq(S) /\ M \in Seq(S)
        BY <1>1, <2>6
      <3> HIDE DEF S
      <3>2. t \in S /\ R \in Seq(S)
        BY <1>1, <2>1, <3>1
      <3>3. Append(R, t) = SubSeq(T, f + 1, n + 1)
        BY <1>1, <2>1, <2>7, <3>1, RangeGrows
      <3> HIDE DEF R, t
      <3>4. Append(M \o R, t) = M \o Append(R, t)
        BY <3>1, <3>2, JoinedGrows, Zenon DEF S
      <3> QED BY <2>8, <3>3, <3>4 DEF R, t
    <2>10. more = Outer(e, v, n + 1)
      BY <2>9 DEF Outer, M, L, T, a, f
    <2>11. f <= n + 1
      BY <1>1, <2>1
    <2> HIDE DEF more
    <2> QED BY <2>1, <2>2, <2>10, <2>11 DEF After, a, f
  <1> QED BY <1>2, <1>3, <1>4 DEF T

-----------------------------------------------------------------------------
(* The invariant *)

LEMMA ExpressionStarts == ExpressionInit => ExpressionInv
  <1> SUFFICES ASSUME ExpressionInit PROVE ExpressionInv
    OBVIOUS
  <1> DEFINE T == Text(expression)
  <1>1. expression \in ExpressionsOf /\ i = 0 /\ ~returned /\ returned \in BOOLEAN
    BY DEF ExpressionInit
  <1>2. T \in Seq(AllTokens) /\ Len(T) \in Nat
    BY <1>1, TextIs
  <1>3. OpensAt(expression) \in {0, 1, 3} /\ ClosesAt(expression) \in 4 .. 7
    BY <1>1, TextIs
  <1> HIDE DEF T
  <1>4. SubSeq(T, 1, 0) = <<>>
    BY <1>2
  <1>5. Before(expression, i, levels, buf)
    BY <1>1, <1>3, <1>4 DEF ExpressionInit, Before, T
  <1>6. i \in 0 .. Len(T)
    BY <1>1, <1>2
  <1> QED BY <1>1, <1>5, <1>6 DEF ExpressionInit, ExpressionInv, T

LEMMA ExpressionContinues ==
    ASSUME ExpressionInv, [ExpressionNext]_expressionVars
    PROVE  ExpressionInv'
  <1> DEFINE e == expression
             T == Text(e)
  <1>1. e \in ExpressionsOf /\ i \in 0 .. Len(T) /\ returned \in BOOLEAN
    BY DEF ExpressionInv
  <1>2. /\ T \in Seq(AllTokens) /\ Len(T) \in Nat
        /\ OpensAt(e) \in {0, 1, 3} /\ ClosesAt(e) \in 4 .. 7 /\ Len(T) \in 5 .. 7
    BY <1>1, TextIs
  <1>3. ASSUME Reading
        PROVE  /\ ~returned /\ e' = e /\ result' = result /\ i' = i + 1
               /\ i \in 0 .. Len(T) - 1 /\ i' \in 0 .. Len(T) /\ i + 1 \in 1 .. Len(T)
               /\ result = {} /\ Token = T[i + 1]
               /\ \/ Before(e, i, levels, buf)
                  \/ Within(e, i, levels, buf)
                  \/ After(e, i, levels, buf)
    <2>1. i < Len(T) /\ i' = i + 1 /\ ~returned /\ e' = e /\ result' = result
      BY <1>3 DEF Reading
    <2>2. i \in 0 .. Len(T) - 1 /\ i' \in 0 .. Len(T) /\ i + 1 \in 1 .. Len(T)
      BY <1>1, <1>2, <2>1
    <2> QED BY <2>1, <2>2 DEF ExpressionInv, Token
  <1>4. CASE OpenBracket
    <2>1. Reading /\ Token = Open /\ levels' = Append(levels, buf) /\ buf' = <<>>
          /\ returned' = returned
      BY <1>4 DEF OpenBracket
    <2>2. i + 1 = OpensAt(e)
      BY <1>1, <1>3, <2>1, TextIs
    <2>3. Before(e, i, levels, buf)
      BY <1>1, <1>2, <1>3, <2>1, <2>2, BracketsAre DEF Within, After
    <2>4. Within(e, i + 1, Append(levels, buf), <<>>)
      BY <1>1, <1>3, <2>1, <2>2, <2>3, BeforeOpens
    <2>5. Within(e, i', levels', buf')
      BY <1>3, <2>1, <2>4
    <2> QED BY <1>1, <1>3, <2>1, <2>5 DEF ExpressionInv
  <1>5. CASE CloseBracket
    <2>1. Reading /\ Token = Close
      BY <1>5 DEF CloseBracket
    <2>2. i + 1 = ClosesAt(e)
      BY <1>1, <1>3, <2>1, TextIs
    <2>3. ~After(e, i, levels, buf)
      BY <1>1, <1>2, <2>2 DEF After
    <2>4. CASE Before(e, i, levels, buf)
      <3>1. OpensAt(e) = 0 /\ levels = <<>>
        BY <1>1, <1>2, <2>2, <2>4, BracketsAre DEF Before
      <3>2. returned'
        BY <1>5, <3>1 DEF CloseBracket
      <3>3. ClosesAt(e) <= Len(T)
        BY <1>1, <1>2, <1>3, <2>1, <2>2
      <3>4. Outcome(e, {})
        BY <3>1, <3>3 DEF Outcome
      <3> QED BY <1>1, <1>3, <2>1, <3>2, <3>4, <1>5 DEF ExpressionInv, CloseBracket
    <2>5. CASE Within(e, i, levels, buf)
      <3>1. /\ buf = Inner(e) /\ Bracketed(e) /\ levels # <<>>
            /\ \A v \in EvaluatePart(buf) : After(e, i + 1, Front(levels), Last(levels) \o Str(v))
        BY <1>1, <1>3, <2>1, <2>2, <2>5, WithinCloses
      <3>2. CASE EvaluatePart(buf) = {}
        <4>1. returned' = TRUE
          BY <1>5, <3>2 DEF CloseBracket
        <4>2. Outcome(e, {})
          BY <3>1, <3>2 DEF Outcome, Bracketed
        <4> QED BY <1>1, <1>3, <2>1, <4>1, <4>2 DEF ExpressionInv
      <3>3. CASE EvaluatePart(buf) # {}
        <4>1. /\ levels' = Front(levels) /\ returned' = returned
              /\ \E v \in EvaluatePart(buf) : buf' = Last(levels) \o Str(v)
          BY <1>5, <3>1, <3>3 DEF CloseBracket
        <4>2. PICK v \in EvaluatePart(buf) : buf' = Last(levels) \o Str(v)
          BY <4>1
        <4>3. After(e, i + 1, Front(levels), Last(levels) \o Str(v))
          BY <3>1, <4>2
        <4>4. After(e, i', levels', buf')
          BY <1>3, <2>1, <4>1, <4>2, <4>3
        <4> QED BY <1>1, <1>3, <2>1, <4>1, <4>4 DEF ExpressionInv
      <3> QED BY <3>2, <3>3
    <2> QED BY <1>3, <2>1, <2>3, <2>4, <2>5
  <1>6. CASE CopyToken
    <2>1. /\ Reading /\ Token \notin {Open, Close} /\ buf' = Append(buf, Token)
          /\ levels' = levels /\ returned' = returned
      BY <1>6 DEF CopyToken
    <2>2. T[i + 1] \notin {Open, Close} /\ buf' = Append(buf, T[i + 1])
      BY <1>3, <2>1
    <2>3. \/ Before(e, i + 1, levels, buf')
          \/ Within(e, i + 1, levels, buf')
          \/ After(e, i + 1, levels, buf')
      BY <1>1, <1>3, <2>1, <2>2, TokenIsKept
    <2>4. \/ Before(e, i', levels', buf')
          \/ Within(e, i', levels', buf')
          \/ After(e, i', levels', buf')
      BY <1>3, <2>1, <2>3
    <2> QED BY <1>1, <1>3, <2>1, <2>4 DEF ExpressionInv
  <1>7. CASE Return
    <2>1. /\ ~returned /\ i = Len(T) /\ result' = EvaluatePart(buf) /\ returned' = TRUE
          /\ e' = e /\ i' = i
      BY <1>7 DEF Return
    <2>2. \/ Before(e, i, levels, buf)
          \/ Within(e, i, levels, buf)
          \/ After(e, i, levels, buf)
      BY <2>1 DEF ExpressionInv
    <2>3. Outcome(e, result')
      <3>1. ASSUME Before(e, i, levels, buf) PROVE Outcome(e, result')
        <4>1. OpensAt(e) = 0 /\ Len(T) < ClosesAt(e) /\ buf = SubSeq(T, 1, Len(T))
          BY <1>2, <2>1, <3>1 DEF Before
        <4>2. OpensAt(e) + 1 = 1
          BY <4>1
        <4> QED BY <2>1, <4>1, <4>2 DEF Outcome
      <3>2. ASSUME Within(e, i, levels, buf) PROVE Outcome(e, result')
        BY <2>1, <3>2 DEF Outcome, Within
      <3>3. ASSUME After(e, i, levels, buf) PROVE Outcome(e, result')
        BY <2>1, <3>3 DEF Outcome, After, Bracketed
      <3> QED BY <2>2, <3>1, <3>2, <3>3
    <2> QED BY <1>1, <2>1, <2>3 DEF ExpressionInv
  <1>8. CASE UNCHANGED expressionVars
    BY <1>8 DEF expressionVars, ExpressionInv
  <1> QED BY <1>4, <1>5, <1>6, <1>7, <1>8 DEF ExpressionNext

-----------------------------------------------------------------------------
(* The value *)

LEMMA BracketedOutcome ==
    ASSUME NEW e \in ExpressionsOf, NEW S, Bracketed(e), Outcome(e, S)
    PROVE  \/ InnerValue(e) = {} /\ S = {}
           \/ \E v \in Int : InnerValue(e) = {v} /\ S = EvaluatePart(Outer(e, v, Len(Text(e))))
  <1>1. /\ EvaluatePart(Inner(e)) = InnerValue(e)
        /\ InnerValue(e) = {} \/ \E v \in Int : InnerValue(e) = {v}
    BY InnerIs
  <1>2. OpensAt(e) \in Nat /\ OpensAt(e) # 0
    BY TextIs DEF Bracketed
  <1>3. ClosesAt(e) <= Len(Text(e)) /\ ~(Len(Text(e)) < ClosesAt(e))
    <2>1. ClosesAt(e) \in 4 .. 7 /\ Len(Text(e)) \in 5 .. 7 /\ ClosesAt(e) <= Len(Text(e))
      BY TextIs DEF Bracketed
    <2> QED BY <2>1
  <1>4. \/ InnerValue(e) = {} /\ S = {}
        \/ \E v \in InnerValue(e) : S = EvaluatePart(Outer(e, v, Len(Text(e))))
    BY <1>1, <1>2, <1>3 DEF Outcome
  <1> QED BY <1>1, <1>4

\* Two texts in one, and three
Joins(U, L, R) == U = L \o R

LEMMA JoinedIs ==
    ASSUME NEW S, NEW L \in Seq(S), NEW R \in Seq(S), NEW U, Joins(U, L, R)
    PROVE  /\ U \in Seq(S) /\ Len(U) = Len(L) + Len(R)
           /\ \A k \in 1 .. Len(L) : U[k] = L[k]
           /\ \A k \in 1 .. Len(R) : U[Len(L) + k] = R[k]
  <1>1. U = L \o R
    BY DEF Joins
  <1> QED BY <1>1

ThreeIn(S, U, L, D, R) ==
    /\ U \in Seq(S) /\ Len(U) = Len(L) + Len(D) + Len(R)
    /\ \A k \in 1 .. Len(L) : U[k] = L[k]
    /\ \A k \in 1 .. Len(D) : U[Len(L) + k] = D[k]
    /\ \A k \in 1 .. Len(R) : U[Len(L) + Len(D) + k] = R[k]

LEMMA ThreeJoined ==
    ASSUME NEW S, NEW L \in Seq(S), NEW D \in Seq(S), NEW R \in Seq(S), NEW U, NEW M,
           Joins(M, L, D), Joins(U, M, R)
    PROVE  ThreeIn(S, U, L, D, R)
  <1>1. /\ M \in Seq(S) /\ Len(M) = Len(L) + Len(D)
        /\ \A k \in 1 .. Len(L) : M[k] = L[k]
        /\ \A k \in 1 .. Len(D) : M[Len(L) + k] = D[k]
    BY JoinedIs, SMTT(30)
  <1>2. /\ U \in Seq(S) /\ Len(U) = Len(M) + Len(R)
        /\ \A k \in 1 .. Len(M) : U[k] = M[k]
        /\ \A k \in 1 .. Len(R) : U[Len(M) + k] = R[k]
    BY <1>1, JoinedIs, SMTT(30)
  <1>3. Len(L) \in Nat /\ Len(D) \in Nat
    OBVIOUS
  <1>4. \A k \in 1 .. Len(L) : k \in 1 .. Len(M)
    BY <1>1, <1>3
  <1>5. \A k \in 1 .. Len(D) : Len(L) + k \in 1 .. Len(M)
    BY <1>1, <1>3
  <1> QED BY <1>1, <1>2, <1>4, <1>5 DEF ThreeIn

\* The text with the value in the place of the brackets
LEMMA OuterIs ==
    ASSUME NEW e \in ExpressionsOf, NEW v \in Int
    PROVE  /\ e.shape = "left" =>
                Outer(e, v, 7) = IF v < 0 THEN <<Op("-"), Num(-v), Op(e.p), e.c>>
                                 ELSE <<Num(v), Op(e.p), e.c>>
           /\ e.shape = "right" =>
                Outer(e, v, 7) = IF v < 0 THEN <<e.a, Op(e.o), Op("-"), Num(-v)>>
                                 ELSE <<e.a, Op(e.o), Num(v)>>
           /\ e.shape = "all" => Outer(e, v, 7) = Str(v)
           /\ e.shape \in {"left", "right", "all"} => Len(Text(e)) = 7
  <1> DEFINE a == e.a
             b == e.b
             c == e.c
             o == Op(e.o)
             p == Op(e.p)
             m == Op("-")
             x == Num(v)
             y == Num(-v)
             T == Text(e)
             U == Outer(e, v, 7)
             D == Str(v)
             S == AllTokens
  <1>1. T \in Seq(S) /\ D \in Seq(S)
    BY TextIs, StrIs
  <1>2. /\ v < 0 => D = <<m, y>>
        /\ ~(v < 0) => D = <<x>>
    BY DEF Str
  <1>3. CASE e.shape = "left"
    <2>1. T = <<Open, a, o, b, Close, p, c>>
          /\ U = SubSeq(T, 1, 0) \o D \o SubSeq(T, 6, 7)
      BY <1>3 DEF Text, Outer, OpensAt, ClosesAt
    <2> HIDE DEF T, U, D, S, a, b, c, o, p, m, x, y
    <2> DEFINE L == SubSeq(T, 1, 0)
               R == SubSeq(T, 6, 7)
    <2>2. Len(T) = 7
      BY <2>1
    <2>3. L \in Seq(S) /\ Len(L) = 0 /\ R \in Seq(S) /\ Len(R) = 2 /\ R[1] = p /\ R[2] = c
      BY <1>1, <2>1
    <2> DEFINE M == L \o D
    <2>4. Joins(M, L, D) /\ Joins(U, M, R)
      BY <2>1 DEF Joins
    <2> HIDE DEF L, R, M
    <2>5. CASE v < 0
      <3>1. D \in Seq(S) /\ Len(D) = 2 /\ D[1] = m /\ D[2] = y
        BY <1>1, <1>2, <2>5
      <3>2. ThreeIn(S, U, L, D, R)
        BY <2>3, <2>4, <3>1, ThreeJoined
      <3>3. /\ U \in Seq(S) /\ Len(U) = 4
            /\ U[1] = m /\ U[2] = y /\ U[3] = p /\ U[4] = c
        BY <2>3, <3>1, <3>2 DEF ThreeIn
      <3>4. U = <<m, y, p, c>>
        BY <3>3
      <3> QED BY <1>3, <2>2, <2>5, <3>4 DEF m, y, p, c, U, T
    <2>6. CASE ~(v < 0)
      <3>1. D \in Seq(S) /\ Len(D) = 1 /\ D[1] = x
        BY <1>1, <1>2, <2>6
      <3>2. ThreeIn(S, U, L, D, R)
        BY <2>3, <2>4, <3>1, ThreeJoined
      <3>3. U \in Seq(S) /\ Len(U) = 3 /\ U[1] = x /\ U[2] = p /\ U[3] = c
        BY <2>3, <3>1, <3>2 DEF ThreeIn
      <3>4. U = <<x, p, c>>
        BY <3>3
      <3> QED BY <1>3, <2>2, <2>6, <3>4 DEF x, p, c, U, T
    <2> QED BY <2>5, <2>6
  <1>4. CASE e.shape = "right"
    <2>1. T = <<a, o, Open, b, p, c, Close>>
          /\ U = SubSeq(T, 1, 2) \o D \o SubSeq(T, 8, 7)
      BY <1>4 DEF Text, Outer, OpensAt, ClosesAt
    <2> HIDE DEF T, U, D, S, a, b, c, o, p, m, x, y
    <2> DEFINE L == SubSeq(T, 1, 2)
               R == SubSeq(T, 8, 7)
    <2>2. Len(T) = 7
      BY <2>1
    <2>3. R \in Seq(S) /\ Len(R) = 0 /\ L \in Seq(S) /\ Len(L) = 2 /\ L[1] = a /\ L[2] = o
      BY <1>1, <2>1
    <2> DEFINE M == L \o D
    <2>4. Joins(M, L, D) /\ Joins(U, M, R)
      BY <2>1 DEF Joins
    <2> HIDE DEF L, R, M
    <2>5. CASE v < 0
      <3>1. D \in Seq(S) /\ Len(D) = 2 /\ D[1] = m /\ D[2] = y
        BY <1>1, <1>2, <2>5
      <3>2. ThreeIn(S, U, L, D, R)
        BY <2>3, <2>4, <3>1, ThreeJoined
      <3>3. /\ U \in Seq(S) /\ Len(U) = 4
            /\ U[1] = a /\ U[2] = o /\ U[3] = m /\ U[4] = y
        BY <2>3, <3>1, <3>2 DEF ThreeIn
      <3>4. U = <<a, o, m, y>>
        BY <3>3
      <3> QED BY <1>4, <2>2, <2>5, <3>4 DEF m, y, a, o, U, T
    <2>6. CASE ~(v < 0)
      <3>1. D \in Seq(S) /\ Len(D) = 1 /\ D[1] = x
        BY <1>1, <1>2, <2>6
      <3>2. ThreeIn(S, U, L, D, R)
        BY <2>3, <2>4, <3>1, ThreeJoined
      <3>3. U \in Seq(S) /\ Len(U) = 3 /\ U[1] = a /\ U[2] = o /\ U[3] = x
        BY <2>3, <3>1, <3>2 DEF ThreeIn
      <3>4. U = <<a, o, x>>
        BY <3>3
      <3> QED BY <1>4, <2>2, <2>6, <3>4 DEF x, a, o, U, T
    <2> QED BY <2>5, <2>6
  <1>5. CASE e.shape = "all"
    <2>1. T = <<Open, a, o, b, p, c, Close>>
          /\ U = SubSeq(T, 1, 0) \o D \o SubSeq(T, 8, 7)
      BY <1>5 DEF Text, Outer, OpensAt, ClosesAt
    <2> HIDE DEF T, U, D, S, a, b, c, o, p, m, x, y
    <2> DEFINE L == SubSeq(T, 1, 0)
               R == SubSeq(T, 8, 7)
    <2>2. Len(T) = 7
      BY <2>1
    <2>3. R \in Seq(S) /\ Len(R) = 0 /\ L \in Seq(S) /\ Len(L) = 0
      BY <1>1, <2>1
    <2> DEFINE M == L \o D
    <2>4. Joins(M, L, D) /\ Joins(U, M, R)
      BY <2>1 DEF Joins
    <2> HIDE DEF L, R, M
    <2>5. U \in Seq(S) /\ Len(U) = Len(D) /\ \A k \in 1 .. Len(D) : U[k] = D[k]
      <3>1. ThreeIn(S, U, L, D, R)
        BY <1>1, <2>3, <2>4, ThreeJoined
      <3> QED BY <1>1, <2>3, <3>1 DEF ThreeIn
    <2>6. U = D
      BY <1>1, <2>5
    <2> QED BY <1>5, <2>2, <2>6 DEF U, D, T
  <1> QED BY <1>3, <1>4, <1>5

\* No text: flat and open, whose brackets are not both there, and close
LEMMA PlainOutcome ==
    ASSUME NEW e \in ExpressionsOf, NEW S, Outcome(e, S)
    PROVE  /\ e.shape = "flat" => S = Flat(e)
           /\ e.shape = "open" => S = Combined(e.p, Atom(<<e.b>>), Atom(<<e.c>>))
           /\ e.shape = "close" => S = {}
  <1> DEFINE a == e.a
             b == e.b
             c == e.c
             o == Op(e.o)
             p == Op(e.p)
             T == Text(e)
             Q == AllTokens
  <1>1. T \in Seq(Q)
    BY TextIs
  <1>2. CASE e.shape = "flat"
    <2> DEFINE U == SubSeq(T, 1, 5)
    <2>1. T = <<a, o, b, p, c>> /\ OpensAt(e) = 0 /\ ClosesAt(e) = 6
      BY <1>2 DEF Text, OpensAt, ClosesAt
    <2>2. Len(T) = 5
      <3> HIDE DEF T, a, b, c, o, p
      <3> QED BY <2>1
    <2>3. S = EvaluatePart(U)
      <3>1. OpensAt(e) + 1 = 1 /\ ~(ClosesAt(e) <= Len(Text(e)))
        BY <2>1, <2>2
      <3> QED BY <2>2, <3>1 DEF Outcome, Bracketed
    <2>4. U = <<a, o, b, p, c>>
      <3> HIDE DEF T, a, b, c, o, p, Q
      <3>1. /\ U \in Seq(Q) /\ Len(U) = 5
            /\ U[1] = a /\ U[2] = o /\ U[3] = b /\ U[4] = p /\ U[5] = c
        BY <1>1, <2>1
      <3> HIDE DEF U
      <3> QED BY <3>1
    <2> HIDE DEF U
    <2> QED BY <1>2, <2>3, <2>4, FlatIs
  <1>3. CASE e.shape = "open"
    <2> DEFINE U == SubSeq(T, 4, 6)
    <2>1. T = <<a, o, Open, b, p, c>> /\ OpensAt(e) = 3 /\ ClosesAt(e) = 7
      BY <1>3 DEF Text, OpensAt, ClosesAt
    <2>2. Len(T) = 6
      <3> HIDE DEF T, a, b, c, o, p
      <3> QED BY <2>1
    <2>3. S = EvaluatePart(U)
      <3>1. OpensAt(e) + 1 = 4 /\ ~(ClosesAt(e) <= Len(Text(e)))
        BY <2>1, <2>2
      <3> QED BY <2>2, <3>1 DEF Outcome, Bracketed
    <2>4. U = <<b, p, c>>
      <3> HIDE DEF T, a, b, c, o, p, Q
      <3>1. U \in Seq(Q) /\ Len(U) = 3 /\ U[1] = b /\ U[2] = p /\ U[3] = c
        BY <1>1, <2>1
      <3> HIDE DEF U
      <3> QED BY <3>1
    <2> HIDE DEF U
    <2>5. EvaluatePart(U) = Combined(e.p, Atom(<<b>>), Atom(<<c>>))
      BY <2>4, PartsAre, OfTwo
    <2> QED BY <1>3, <2>3, <2>5
  <1>4. CASE e.shape = "close"
    <2>1. OpensAt(e) = 0 /\ ClosesAt(e) = 4 /\ Len(T) \in 5 .. 7
      BY <1>4, TextIs DEF OpensAt, ClosesAt
    <2>2. ~(Len(Text(e)) < ClosesAt(e)) /\ ~(OpensAt(e) > 0)
      BY <2>1
    <2> QED BY <1>4, <2>2 DEF Outcome, Bracketed
  <1> QED BY <1>2, <1>3, <1>4

LEMMA BothBrackets ==
    ASSUME NEW e \in ExpressionsOf, e.shape \in {"left", "right", "all"}
    PROVE  Bracketed(e) /\ Len(Text(e)) = 7
  <1>1. 0 \in Int
    OBVIOUS
  <1>2. Len(Text(e)) = 7
    BY <1>1, OuterIs
  <1>3. OpensAt(e) \in {1, 3} /\ ClosesAt(e) \in {5, 7}
    BY DEF OpensAt, ClosesAt
  <1> QED BY <1>2, <1>3 DEF Bracketed

LEMMA OutcomeIsExact ==
    ASSUME NEW e \in ExpressionsOf, NEW S, Outcome(e, S)
    PROVE  S = IF Misread(e) THEN {} ELSE Expected(e)
  <1> DEFINE a == Atom(<<e.a>>)
             b == Atom(<<e.b>>)
             c == Atom(<<e.c>>)
             V == InnerValue(e)
             Negative == \E v \in V : v < 0
  <1>1. /\ e.shape \in Shapes
        /\ e.o \in ToSet(Operators) /\ e.p \in ToSet(Operators)
        /\ e.a[1] # "operator" /\ e.b[1] # "operator" /\ e.c[1] # "operator"
    BY PartsAre
  <1>2. CASE e.shape = "left"
    <2>1. /\ V = Combined(e.o, a, b)
          /\ Expected(e) = Combined(e.p, V, c)
          /\ Misread(e) <=> e.p \notin BeforeMinus \cup {"-"} /\ Negative
      BY <1>2 DEF InnerValue, Expected, Misread
    <2>2. Bracketed(e) /\ Len(Text(e)) = 7
      BY <1>2, BothBrackets
    <2>3. \/ V = {} /\ S = {}
          \/ \E v \in Int : V = {v} /\ S = EvaluatePart(Outer(e, v, 7))
      BY <2>2, BracketedOutcome
    <2> HIDE DEF V
    <2>4. CASE V = {} /\ S = {}
      BY <2>1, <2>4, CombinedNone
    <2>5. ASSUME NEW v \in Int, V = {v}, S = EvaluatePart(Outer(e, v, 7))
          PROVE  S = IF Misread(e) THEN {} ELSE Expected(e)
      <3>1. CASE v < 0
        <4>1. Outer(e, v, 7) = <<Op("-"), Num(-v), Op(e.p), e.c>>
          BY <1>2, <3>1, OuterIs
        <4>2. S = IF e.p \in BeforeMinus \cup {"-"} THEN Combined(e.p, {-(-v)}, c) ELSE {}
          BY <1>1, <2>5, <4>1, NegativeLeft
        <4>3. -(-v) = v
          OBVIOUS
        <4>4. Negative
          BY <2>5, <3>1
        <4> QED BY <2>1, <2>5, <4>2, <4>3, <4>4
      <3>2. CASE ~(v < 0)
        <4>1. Outer(e, v, 7) = <<Num(v), Op(e.p), e.c>>
          BY <1>2, <3>2, OuterIs
        <4>2. S = Combined(e.p, {v}, c)
          <5>1. Atom(<<Num(v)>>) = {v} /\ Num(v)[1] # "operator"
            BY NumbersAreAtoms
          <5>2. EvaluatePart(<<Num(v), Op(e.p), e.c>>) = Combined(e.p, Atom(<<Num(v)>>), c)
            BY <1>1, <5>1, OfTwo
          <5> QED BY <2>5, <4>1, <5>1, <5>2
        <4>3. ~Negative
          BY <2>5, <3>2
        <4> QED BY <2>1, <2>5, <4>2, <4>3
      <3> QED BY <3>1, <3>2
    <2> QED BY <2>3, <2>4, <2>5
  <1>3. CASE e.shape = "right"
    <2>1. /\ V = Combined(e.p, b, c)
          /\ Expected(e) = Combined(e.o, a, V)
          /\ Misread(e) <=> e.o \notin BeforeMinus /\ Negative
      BY <1>3 DEF InnerValue, Expected, Misread
    <2>2. Bracketed(e) /\ Len(Text(e)) = 7
      BY <1>3, BothBrackets
    <2>3. \/ V = {} /\ S = {}
          \/ \E v \in Int : V = {v} /\ S = EvaluatePart(Outer(e, v, 7))
      BY <2>2, BracketedOutcome
    <2> HIDE DEF V
    <2>4. CASE V = {} /\ S = {}
      BY <2>1, <2>4, CombinedNone
    <2>5. ASSUME NEW v \in Int, V = {v}, S = EvaluatePart(Outer(e, v, 7))
          PROVE  S = IF Misread(e) THEN {} ELSE Expected(e)
      <3>1. CASE v < 0
        <4>1. Outer(e, v, 7) = <<e.a, Op(e.o), Op("-"), Num(-v)>>
          BY <1>3, <3>1, OuterIs
        <4>2. S = IF e.o \in BeforeMinus THEN Combined(e.o, a, {-(-v)}) ELSE {}
          BY <1>1, <2>5, <4>1, NegativeRight
        <4>3. -(-v) = v
          OBVIOUS
        <4>4. Negative
          BY <2>5, <3>1
        <4> QED BY <2>1, <2>5, <4>2, <4>3, <4>4
      <3>2. CASE ~(v < 0)
        <4>1. Outer(e, v, 7) = <<e.a, Op(e.o), Num(v)>>
          BY <1>3, <3>2, OuterIs
        <4>2. S = Combined(e.o, a, {v})
          <5>1. Atom(<<Num(v)>>) = {v} /\ Num(v)[1] # "operator"
            BY NumbersAreAtoms
          <5>2. EvaluatePart(<<e.a, Op(e.o), Num(v)>>) = Combined(e.o, a, Atom(<<Num(v)>>))
            BY <1>1, <5>1, OfTwo
          <5> QED BY <2>5, <4>1, <5>1, <5>2
        <4>3. ~Negative
          BY <2>5, <3>2
        <4> QED BY <2>1, <2>5, <4>2, <4>3
      <3> QED BY <3>1, <3>2
    <2> QED BY <2>3, <2>4, <2>5
  <1>4. CASE e.shape = "all"
    <2>1. Expected(e) = V /\ ~Misread(e)
      BY <1>4 DEF InnerValue, Flat, Expected, Misread
    <2>2. Bracketed(e) /\ Len(Text(e)) = 7
      BY <1>4, BothBrackets
    <2>3. \/ V = {} /\ S = {}
          \/ \E v \in Int : V = {v} /\ S = EvaluatePart(Outer(e, v, 7))
      BY <2>2, BracketedOutcome
    <2> HIDE DEF V
    <2>4. ASSUME NEW v \in Int, V = {v}, S = EvaluatePart(Outer(e, v, 7))
          PROVE  S = V
      <3>1. Outer(e, v, 7) = Str(v)
        BY <1>4, OuterIs
      <3>2. CASE v < 0
        <4>1. Str(v) = <<Op("-"), Num(-v)>>
          BY <3>2 DEF Str
        <4>2. S = {-(-v)}
          BY <2>4, <3>1, <4>1, OfNegative
        <4>3. -(-v) = v
          OBVIOUS
        <4> QED BY <2>4, <4>2, <4>3
      <3>3. CASE ~(v < 0)
        <4>1. Str(v) = <<Num(v)>>
          BY <3>3 DEF Str
        <4>2. S = {v}
          BY <2>4, <3>1, <4>1, OfOne, NumbersAreAtoms
        <4> QED BY <2>4, <4>2
      <3> QED BY <3>2, <3>3
    <2> QED BY <2>1, <2>3, <2>4
  <1>5. CASE e.shape \in {"flat", "open", "close"}
    <2>1. ~Misread(e)
      BY <1>5 DEF Misread
    <2>2. Expected(e) = IF e.shape = "open" THEN Combined(e.p, b, c)
                        ELSE IF e.shape = "close" THEN {} ELSE Flat(e)
      BY <1>5 DEF Expected, Flat
    <2> QED BY <1>5, <2>1, <2>2, PlainOutcome
  <1> QED BY <1>1, <1>2, <1>3, <1>4, <1>5 DEF Shapes

LEMMA ExpressionInvariant == ExpressionSpec => []ExpressionInv
  BY ExpressionStarts, ExpressionContinues, PTL DEF ExpressionSpec

(***************************************************************************)
(* evaluate, for every number and name: what it returns for three          *)
(* operands is the value the brackets give the expression, and nothing     *)
(* where the sign of a negative value is taken for the operator.           *)
(***************************************************************************)
THEOREM BracketsAreExact == ExpressionSpec => []ValueIsExact
  <1>1. ExpressionInv => ValueIsExact
    BY OutcomeIsExact DEF ExpressionInv, ValueIsExact
  <1> QED BY <1>1, ExpressionInvariant, PTL

=============================================================================

--------------------------- MODULE AgreementProofs ---------------------------
(***************************************************************************)
(* The generated reader agrees with the interpreted one, for every         *)
(* structure, stream and byte order, but for what CompiledAgrees leaves    *)
(* out.                                                                    *)
(***************************************************************************)
EXTENDS Agreement, StructReadProofs, WellFoundedInduction, SequenceTheorems

-----------------------------------------------------------------------------
(***************************************************************************)
(* Reading without seeks: where the stream is and what the bit buffer      *)
(* holds before a field, and what the field makes of it.                   *)
(***************************************************************************)
States == [pos : Nat, bb : BitBuffers]

FieldBytes(s, f) == Available(stream, s.pos, Size[f.type])

\* Field f takes bytes from the stream.
Takes(s, f) == IsBits(f) => NeedsUnit(s.bb, f.type)

Unit(s, f) == IF NeedsUnit(s.bb, f.type) THEN Loaded(f.type, FieldBytes(s, f)) ELSE s.bb

Fails(s, f) == Takes(s, f) /\ ~Accepts(f.type, FieldBytes(s, f))

ValueOf(s, f) ==
    IF IsBits(f) THEN Taken(Unit(s, f), f.bits) ELSE Value(FieldBytes(s, f), f.type)

SizeOf(s, f) == IF IsBits(f) THEN None ELSE Len(FieldBytes(s, f))

Past(s, f) ==
    [pos |-> IF Takes(s, f) THEN s.pos + Len(FieldBytes(s, f)) ELSE s.pos,
     bb |-> IF IsBits(f) THEN AfterTake(Unit(s, f), f.bits) ELSE Empty]

\* Field k is read from state s, as the reader has read it.
IsRead(s, k) ==
    /\ ~Fails(s, def[k])
    /\ IsBits(def[k]) => CanTake(Unit(s, def[k]), def[k].bits)
    /\ vals[k] = ValueOf(s, def[k])
    /\ sizes[k] = SizeOf(s, def[k])

(***************************************************************************)
(* The states of the interpreted reader before each field so far, and the  *)
(* next one.  It may be beyond the end of the stream, for an offset.       *)
(***************************************************************************)
Trace(tr) ==
    /\ tr \in Seq(States)
    /\ Len(tr) = Len(vals) + 1
    /\ tr[1] = [pos |-> start, bb |-> Empty]
    /\ \A k \in 1 .. Len(vals) : IsRead(tr[k], k) /\ tr[k + 1] = Past(tr[k], def[k])
    /\ outcome \in {"reading", "done"} =>
         /\ bb = tr[Len(tr)].bb
         /\ pos = tr[Len(tr)].pos \/ (Len(stream) <= tr[Len(tr)].pos /\ tr[Len(tr)].pos <= pos)
    /\ outcome = "done" => Len(vals) = Len(def)
    /\ outcome = "EOFError" => Len(vals) < Len(def) /\ Fails(tr[Len(tr)], def[Len(tr)])
    /\ outcome # "ValueError"

-----------------------------------------------------------------------------
(***************************************************************************)
(* What the generator has made of the fields: c[i] is the first field      *)
(* after the statements before statement i.                                *)
(***************************************************************************)

\* A bit field, and nothing but nested structures since
Dirty(k) ==
    \E j \in 1 .. k - 1 : IsBits(def[j]) /\ \A i \in j + 1 .. k - 1 : def[i].type \in Nested

\* Slots of consecutive fields, one after the other in the bytes
Consecutive(slots, first, size) ==
    /\ \A j \in 1 .. Len(slots) :
          /\ slots[j].field = first + j - 1
          /\ first + j - 1 \in 1 .. Len(def)
          /\ slots[j].at + Size[def[first + j - 1].type] <= size
          /\ j = 1 => slots[j].at = 0
          /\ j < Len(slots) => slots[j + 1].at = slots[j].at + Size[def[first + j - 1].type]
          /\ j = Len(slots) => size = slots[j].at + Size[def[first + j - 1].type]
    /\ slots = <<>> => size = 0

IsStatic(f) == ~IsBits(f) /\ f.type \notin Nested \cup Dynamic

AreStatic(slots, first) == \A j \in 1 .. Len(slots) : IsStatic(def[first + j - 1])

IsStatement(s, first) ==
    /\ Consecutive(s.slots, first, s.size)
    /\ s.op = "block" => AreStatic(s.slots, first)
    /\ s.op = "reset" => s.slots = <<>>
    /\ s.op \in {"bits", "nested", "dynamic"} => Len(s.slots) = 1
    /\ s.op = "bits" => IsBits(def[first])
    /\ s.op = "nested" => def[first].type \in Nested
    /\ s.op = "dynamic" => def[first].type \in Dynamic \ Nested

\* Statements that read plain fields, not nested
ReadsPlain(s) == s.op \in {"block", "dynamic"} /\ s.slots # <<>>

EndsInReset(bs) == Len(bs) > 0 /\ bs[Len(bs)].op = "reset"

(***************************************************************************)
(* A reset is where plain fields follow bit fields, and nowhere else.      *)
(***************************************************************************)
Blocks(c, bs) ==
    /\ bs \in Seq(Statements)
    /\ c \in Seq(Nat \ {0})
    /\ Len(c) = Len(bs) + 1
    /\ c[1] = 1
    /\ \A i \in 1 .. Len(bs) :
          /\ c[i + 1] = c[i] + Len(bs[i].slots)
          /\ IsStatement(bs[i], c[i])
          /\ bs[i].op = "reset" /\ i < Len(bs) => ReadsPlain(bs[i + 1])
          /\ ReadsPlain(bs[i]) /\ Dirty(c[i]) => i > 1 /\ bs[i - 1].op = "reset"

IsGeneration(c, g) ==
    /\ g \in GenStates
    /\ Blocks(c, g.blocks)
    /\ g.field = c[Len(c)] + Len(g.cur_block)
    /\ g.field \in 1 .. Len(def) + 1
    /\ g.finished => g.cur_block = <<>> /\ g.field = Len(def) + 1
    /\ Consecutive(g.cur_block, c[Len(c)], g.read_size)
    /\ AreStatic(g.cur_block, c[Len(c)])
    /\ g.cur_block # <<>> => ~g.prev_was_bits /\ (Dirty(c[Len(c)]) => EndsInReset(g.blocks))
    /\ EndsInReset(g.blocks) => g.cur_block # <<>>
    /\ Dirty(g.field) => g.prev_was_bits

Generation(c) == IsGeneration(c, gen)

-----------------------------------------------------------------------------
(***************************************************************************)
(* The generated reader is where the interpreted one was before the same   *)
(* field, with the same bit buffer if that field may use it.               *)
(***************************************************************************)
WasReset == ip > 1 /\ gen.blocks[ip - 1].op = "reset"

Follows(tr, c) ==
    /\ c[ip] \in 1 .. Len(tr)
    /\ Len(cvals) = c[ip] - 1
    /\ Len(csizes) = c[ip] - 1
    /\ \A k \in 1 .. c[ip] - 1 : cvals[k] = vals[k] /\ csizes[k] = sizes[k]
    /\ coutcome \in {"reading", "done"} =>
         /\ cpos = tr[c[ip]].pos
         /\ ~Dirty(c[ip]) \/ WasReset => cbb = Empty
         /\ c[ip] > 1 /\ IsBits(def[c[ip] - 1]) /\ ~WasReset => cbb = tr[c[ip]].bb
    /\ coutcome = "done" => c[ip] = Len(def) + 1
    /\ coutcome = "EOFError" => outcome = "EOFError" \/ ReadLeniently
    /\ coutcome # "ValueError"

NotStarted ==
    /\ ip = 1 /\ cpos = start /\ cbb = Empty /\ cvals = <<>> /\ csizes = <<>>
    /\ coutcome = "reading"

(***************************************************************************)
(* The inductive invariant.                                                *)
(***************************************************************************)
AgreementInv ==
    /\ ReadTypeOK /\ ReadInv /\ CompiledTypeOK
    /\ ~Laid => vals = <<>> /\ outcome = "reading"
    /\ outcome = "reading" => NotStarted
    /\ ~gen.finished => outcome = "reading"
    /\ \E c : /\ Generation(c)
              /\ Regular => \E tr : Trace(tr) /\ (NoBitsAroundNested => Follows(tr, c))

-----------------------------------------------------------------------------
(* Numbers and streams *)

\* A set of numbers that is not empty has a least one.
LEMMA Least ==
    ASSUME NEW T \in SUBSET Nat, T # {}
    PROVE  \E x \in T : \A y \in T : x <= y
  <1> DEFINE R == OpToRel(<, Nat)
  <1>1. IsWellFoundedOn(R, Nat)
    BY NatLessThanWellFounded
  <1>2. \E x \in T : \A y \in T : ~ (<<y, x>> \in R)
    <2> HIDE DEF R
    <2> QED BY <1>1, WFMin
  <1>3. \A x, y \in Nat : y < x => <<y, x>> \in R
    BY DEF OpToRel
  <1>4. PICK x \in T : \A y \in T : ~ (<<y, x>> \in R)
    BY <1>2
  <1>5. ASSUME NEW y \in T PROVE x <= y
    <2>1. x \in Nat /\ y \in Nat /\ ~ (y < x)
      BY <1>3, <1>4
    <2> QED BY <2>1
  <1> QED BY <1>5

\* What a read gives, and how much if the stream does not end before.
LEMMA AllBytes ==
    ASSUME NEW s \in Seq(Bytes), NEW p \in Nat, NEW n \in Nat
    PROVE  /\ Available(s, p, n) \in Seq(Bytes)
           /\ Len(Available(s, p, n)) \in Nat
           /\ Len(Available(s, p, n)) <= n
           /\ Len(Available(s, p, n)) = n <=> n = 0 \/ p + n <= Len(s)
  <1> DEFINE e == IF p + n <= Len(s) THEN p + n ELSE Len(s)
  <1>1. Len(s) \in Nat /\ e \in Nat /\ e <= Len(s)
    OBVIOUS
  <1>2. Available(s, p, n) = SubSeq(s, p + 1, e)
    BY DEF Available
  <1> HIDE DEF e
  <1>3. SubSeq(s, p + 1, e) \in Seq(Bytes)
    BY <1>1
  <1>4. Len(SubSeq(s, p + 1, e)) = IF p + 1 <= e THEN e - p ELSE 0
    BY <1>1
  <1> QED BY <1>1, <1>2, <1>3, <1>4 DEF e

\* Part of bytes that are all there is what a read would give there.
Part(bytes, a, m) == SubSeq(bytes, a + 1, a + m)

Within(s, p, n, a, m) == Len(Available(s, p, n)) = n /\ a + m <= n

LEMMA PartOfBytes ==
    ASSUME NEW s \in Seq(Bytes), NEW p \in Nat, NEW n \in Nat, NEW a \in Nat, NEW m \in Nat,
           Within(s, p, n, a, m)
    PROVE  /\ Part(Available(s, p, n), a, m) = Available(s, p + a, m)
           /\ Len(Available(s, p + a, m)) = m
  <1> USE DEF Within
  <1>1. p + a \in Nat
    OBVIOUS
  <1>2. CASE m = 0
    <2>1. Available(s, p + a, m) \in Seq(Bytes) /\ Len(Available(s, p + a, m)) = 0
      BY <1>1, <1>2, AllBytes
    <2>2. Available(s, p + a, m) = <<>>
      BY <2>1
    <2>3. SubSeq(Available(s, p, n), a + 1, a + m) = <<>>
      <3>1. Available(s, p, n) \in Seq(Bytes)
        BY AllBytes
      <3> QED BY <1>2, <3>1
    <2> QED BY <2>1, <2>2, <2>3 DEF Part
  <1>3. CASE m > 0
    <2>1. p + n <= Len(s) /\ n > 0
      BY <1>3, AllBytes
    <2>2. Available(s, p, n) = SubSeq(s, p + 1, p + n)
      BY <2>1 DEF Available
    <2>3. p + a + m <= Len(s)
      BY <2>1
    <2>4. Available(s, p + a, m) = SubSeq(s, p + a + 1, p + a + m)
      BY <2>3 DEF Available
    <2>5. SubSeq(SubSeq(s, p + 1, p + n), a + 1, a + m) = SubSeq(s, p + a + 1, p + a + m)
      <3> DEFINE t == SubSeq(s, p + 1, p + n)
      <3>1. t \in Seq(Bytes) /\ Len(t) = n /\ \A i \in 1 .. n : t[i] = s[p + i]
        BY <2>1
      <3> HIDE DEF t
      <3>2. SubSeq(t, a + 1, a + m) \in Seq(Bytes) /\ Len(SubSeq(t, a + 1, a + m)) = m
        BY <1>3, <3>1
      <3>3. \A i \in 1 .. m : SubSeq(t, a + 1, a + m)[i] = s[p + a + i]
        BY <1>3, <3>1
      <3> DEFINE u == SubSeq(s, p + a + 1, p + a + m)
      <3>4. u \in Seq(Bytes) /\ Len(u) = m /\ \A i \in 1 .. m : u[i] = s[p + a + i]
        BY <1>3, <2>3
      <3> HIDE DEF u
      <3>5. PICK v : v = SubSeq(t, a + 1, a + m)
        OBVIOUS
      <3>6. v \in Seq(Bytes) /\ Len(v) = m /\ \A i \in 1 .. m : v[i] = s[p + a + i]
        BY <3>2, <3>3, <3>5
      <3>7. v = u
        BY <3>4, <3>6
      <3> QED BY <3>5, <3>7 DEF t, u
    <2>6. Len(Available(s, p + a, m)) = m
      BY <1>1, <2>3, AllBytes
    <2> QED BY <2>2, <2>4, <2>5, <2>6 DEF Part
  <1> QED BY <1>2, <1>3

-----------------------------------------------------------------------------
(* The interpreted reader *)

\* What a field makes of a state is a state, a value and a size.
LEMMA StateTypes ==
    ASSUME def \in Seq(Fields), WellFormed(def), stream \in Seq(Bytes),
           NEW s \in States, NEW k \in 1 .. Len(def)
    PROVE  /\ FieldBytes(s, def[k]) \in Seq(Bytes)
           /\ Len(FieldBytes(s, def[k])) \in Nat
           /\ IsBits(def[k]) => Unit(s, def[k]) \in BitBuffers
           /\ (IsBits(def[k]) => CanTake(Unit(s, def[k]), def[k].bits)) =>
                 /\ ValueOf(s, def[k]) \in Values
                 /\ Past(s, def[k]) \in States
           /\ SizeOf(s, def[k]) \in Nat \cup {None}
  <1> DEFINE f == def[k]
             bytes == FieldBytes(s, f)
  <1>1. /\ f.type \in Types /\ f.bits \in Nat /\ Size[f.type] \in Nat
        /\ IsBits(f) => f.type \in Integer
    BY FieldType
  <1>2. s.pos \in Nat /\ s.bb \in BitBuffers
    BY DEF States
  <1>3. bytes \in Seq(Bytes) /\ Len(bytes) \in Nat
    <2>1. PICK n \in Nat, p \in Nat : n = Size[f.type] /\ p = s.pos
      BY <1>1, <1>2
    <2>2. bytes = Available(stream, p, n)
      BY <2>1 DEF FieldBytes
    <2>3. Available(stream, p, n) \in Seq(Bytes) /\ Len(Available(stream, p, n)) \in Nat
      BY AllBytes
    <2> QED BY <2>2, <2>3
  <1> HIDE DEF bytes
  <1>4. IsBits(f) => Unit(s, f) \in BitBuffers
    BY <1>1, <1>2, <1>3, BufferOperators DEF Unit, bytes
  <1>5. ASSUME IsBits(f), CanTake(Unit(s, f), f.bits)
        PROVE  Taken(Unit(s, f), f.bits) \in Numbers /\ AfterTake(Unit(s, f), f.bits) \in BitBuffers
    BY <1>1, <1>4, <1>5, BufferOperators
  <1>6. Value(bytes, f.type) \in Values
    BY <1>1, <1>3, DecodeNumber DEF Value, Values
  <1>7. (IF Takes(s, f) THEN s.pos + Len(bytes) ELSE s.pos) \in Nat
    BY <1>2, <1>3
  <1>8. Empty \in BitBuffers
    BY BufferOperators
  <1>9. ASSUME IsBits(f) => CanTake(Unit(s, f), f.bits)
        PROVE  ValueOf(s, f) \in Values /\ Past(s, f) \in States
    BY <1>5, <1>6, <1>7, <1>8, <1>9 DEF ValueOf, Past, States, Values, bytes
  <1>10. SizeOf(s, f) \in Nat \cup {None}
    BY <1>3 DEF SizeOf, bytes
  <1> QED BY <1>3, <1>4, <1>9, <1>10 DEF bytes

\* The fields of the structure are read alike as long as it and the stream are the same.
LEMMA SameField ==
    ASSUME UNCHANGED <<def, stream>>, NEW s, NEW k
    PROVE  /\ Fails(s, def[k])' <=> Fails(s, def[k])
           /\ CanTake(Unit(s, def[k]), def[k].bits)' <=> CanTake(Unit(s, def[k]), def[k].bits)
           /\ ValueOf(s, def[k])' = ValueOf(s, def[k])
           /\ SizeOf(s, def[k])' = SizeOf(s, def[k])
           /\ Past(s, def[k])' = Past(s, def[k])
  <1>1. FieldBytes(s, def[k])' = FieldBytes(s, def[k])
    BY DEF FieldBytes
  <1>2. Unit(s, def[k])' = Unit(s, def[k])
    BY <1>1 DEF Unit
  <1>3. Takes(s, def[k])' <=> Takes(s, def[k])
    BY DEF Takes
  <1> QED BY <1>1, <1>2, <1>3 DEF Fails, ValueOf, SizeOf, Past

LEMMA IsReadKept ==
    ASSUME UNCHANGED <<def, stream>>, NEW s, NEW k, IsRead(s, k),
           vals'[k] = vals[k], sizes'[k] = sizes[k]
    PROVE  IsRead(s, k)'
  <1> QED BY SameField DEF IsRead

\* The states so far, and the one after the field that is read.
LEMMA TraceGrows ==
    ASSUME ReadTypeOK, Reading, NEW tr, Trace(tr), NEW s, s = tr[Len(tr)], NEW k, k = Next1,
           UNCHANGED <<def, lay, stream, start, outcome>>,
           vals' = Append(vals, ValueOf(s, def[k])), sizes' = Append(sizes, SizeOf(s, def[k])),
           ~Fails(s, def[k]), IsBits(def[k]) => CanTake(Unit(s, def[k]), def[k].bits),
           NEW next, next = Past(s, def[k]), bb' = next.bb,
           pos' = next.pos \/ (Len(stream) <= next.pos /\ next.pos <= pos')
    PROVE  Trace(Append(tr, next))'
  <1>1. /\ def \in Seq(Fields) /\ WellFormed(def) /\ stream \in Seq(Bytes)
        /\ vals \in Seq(Values) /\ sizes \in Seq(Nat \cup {None}) /\ Len(sizes) = Len(vals)
        /\ outcome = "reading"
    BY DEF ReadTypeOK, LayoutTypeOK, Reading
  <1>2. tr \in Seq(States) /\ Len(tr) = k /\ k \in 1 .. Len(def) /\ Len(vals) = k - 1
    BY <1>1 DEF Trace, Next1, Reading
  <1>3. s \in States
    BY <1>2
  <1>4. ValueOf(s, def[k]) \in Values /\ next \in States /\ SizeOf(s, def[k]) \in Nat \cup {None}
    BY <1>1, <1>2, <1>3, StateTypes
  <1> DEFINE t == Append(tr, next)
  <1>5. /\ t \in Seq(States) /\ Len(t) = k + 1 /\ t[k + 1] = next
        /\ \A i \in 1 .. k : t[i] = tr[i]
    BY <1>2, <1>4
  <1> HIDE DEF t
  <1>6. Len(vals') = k /\ vals'[k] = ValueOf(s, def[k]) /\ sizes'[k] = SizeOf(s, def[k])
        /\ \A i \in 1 .. k - 1 : vals'[i] = vals[i] /\ sizes'[i] = sizes[i]
    BY <1>1, <1>2, <1>4
  <1>7. ASSUME NEW i \in 1 .. k
        PROVE  IsRead(t[i], i)' /\ (t[i + 1] = Past(t[i], def[i]))'
    <2>1. CASE i < k
      <3>1. IsRead(tr[i], i) /\ tr[i + 1] = Past(tr[i], def[i])
        BY <1>2, <2>1 DEF Trace
      <3>2. vals'[i] = vals[i] /\ sizes'[i] = sizes[i]
        <4>1. i \in 1 .. k - 1
          BY <1>1, <1>2, <2>1
        <4> QED BY <1>6, <4>1
      <3>3. t[i] = tr[i] /\ t[i + 1] = tr[i + 1]
        BY <1>2, <1>5, <2>1
      <3>4. PICK x : x = tr[i]
        OBVIOUS
      <3>5. IsRead(x, i)' /\ Past(x, def[i])' = Past(x, def[i])
        BY <3>1, <3>2, <3>4, SameField, IsReadKept
      <3> QED BY <3>1, <3>3, <3>4, <3>5
    <2>2. CASE i = k
      <3>1. t[i] = s /\ t[i + 1] = next
        BY <1>2, <1>5, <2>2
      <3>2. IsRead(s, k)'
        BY <1>6, SameField DEF IsRead
      <3>3. Past(s, def[k])' = next
        BY SameField
      <3> QED BY <2>2, <3>1, <3>2, <3>3
    <2> QED BY <1>2, <2>1, <2>2
  <1>8. t[1] = [pos |-> start, bb |-> Empty]
    BY <1>2, <1>5 DEF Trace
  <1>9. Trace(t)'
    BY <1>1, <1>2, <1>5, <1>6, <1>7, <1>8 DEF Trace
  <1> QED BY <1>9 DEF t

\* The seeks change nothing but a position beyond the end.
LEMMA BytesOfField ==
    ASSUME ReadTypeOK, ReadInv, Regular, Reading, NEW tr, Trace(tr),
           NEW s, s = tr[Len(tr)], NEW f, f = def[Next1],
           NEW p, p = Sought(Next1), NEW bytes, bytes = Available(stream, p, Size[f.type])
    PROVE  /\ bytes = FieldBytes(s, f)
           /\ p \in Nat /\ s \in States /\ s.pos \in Nat /\ Len(bytes) \in Nat
           /\ p = s.pos \/ (Len(stream) <= s.pos /\ s.pos <= p)
           /\ p + Len(bytes) = s.pos + Len(bytes)
              \/ (Len(stream) <= s.pos + Len(bytes) /\ s.pos + Len(bytes) <= p + Len(bytes))
  <1>1. stream \in Seq(Bytes) /\ p \in Nat /\ pos \in Nat /\ Size[f.type] \in Nat
    BY FieldRead DEF ReadTypeOK
  <1>2. s \in States /\ s.pos \in Nat
    <2>1. tr \in Seq(States) /\ Len(tr) = Len(vals) + 1 /\ vals \in Seq(Values)
      BY DEF Trace, ReadTypeOK
    <2>2. s \in States
      BY <2>1
    <2> QED BY <2>2 DEF States
  <1>3. p = pos \/ (Len(stream) <= pos /\ pos <= p)
    BY SeekStays DEF SeekIsNoOp
  <1>4. pos = s.pos \/ (Len(stream) <= s.pos /\ s.pos <= pos)
    BY DEF Trace, Reading
  <1>5. Len(stream) \in Nat
    BY <1>1
  <1>6. p = s.pos \/ (Len(stream) <= s.pos /\ s.pos <= p)
    BY <1>1, <1>2, <1>3, <1>4, <1>5
  <1>7. PICK n \in Nat, q \in Nat : n = Size[f.type] /\ q = s.pos
    BY <1>1, <1>2
  <1>8. bytes = Available(stream, p, n) /\ FieldBytes(s, f) = Available(stream, q, n)
    BY <1>7 DEF FieldBytes
  <1>9. Len(Available(stream, p, n)) \in Nat
    BY <1>1, AllBytes
  <1>10. CASE p = s.pos
    BY <1>1, <1>2, <1>7, <1>8, <1>9, <1>10
  <1>11. CASE Len(stream) <= s.pos /\ s.pos <= p
    <2>1. Len(stream) <= q /\ Len(stream) <= p
      BY <1>1, <1>2, <1>5, <1>7, <1>11
    <2>2. Available(stream, p, n) = <<>> /\ Available(stream, q, n) = <<>>
      BY <1>1, <2>1, NothingBeyond
    <2>3. Len(bytes) = 0 /\ bytes = FieldBytes(s, f)
      BY <1>8, <2>2
    <2> QED BY <1>1, <1>2, <1>11, <2>3
  <1> QED BY <1>6, <1>10, <1>11

\* A step of the interpreted reader.
LEMMA TraceStep ==
    ASSUME ReadTypeOK, ReadInv, Regular, NEW tr, Trace(tr), ReadField
    PROVE  \E t : Trace(t)'
  <1>1. Reading /\ UNCHANGED <<def, lay, stream, start>>
    BY DEF ReadField, ReadBitsOfUnit, ReadBitsOfNewUnit, ReadBitsBeyondUnit, ReadPlain, ReadShort
  <1>2. PICK s, k, f, p, bytes :
           /\ s = tr[Len(tr)] /\ k = Next1 /\ f = def[k]
           /\ p = Sought(k) /\ bytes = Available(stream, p, Size[f.type])
    OBVIOUS
  <1>3. /\ bytes = FieldBytes(s, f)
        /\ p \in Nat /\ s \in States /\ s.pos \in Nat /\ Len(bytes) \in Nat
        /\ p = s.pos \/ (Len(stream) <= s.pos /\ s.pos <= p)
        /\ p + Len(bytes) = s.pos + Len(bytes)
           \/ (Len(stream) <= s.pos + Len(bytes) /\ s.pos + Len(bytes) <= p + Len(bytes))
    BY <1>1, <1>2, BytesOfField
  <1>4. s.bb = bb /\ Len(tr) = k /\ outcome = "reading" /\ Len(vals) < Len(def)
    BY <1>1, <1>2 DEF Trace, Reading, Next1
  <1>5. IsBits(f) => CanTake(Unit(s, f), f.bits) \/ Fails(s, f)
    <2>1. SUFFICES ASSUME IsBits(f) PROVE CanTake(Unit(s, f), f.bits)
      OBVIOUS
    <2>2. /\ NeedsUnit(bb, f.type) => f.bits <= Width(f.type)
          /\ ~NeedsUnit(bb, f.type) => f.bits <= bb.remaining
      BY <1>1, <1>2, <2>1, FieldFits
    <2> QED BY <1>4, <2>2 DEF Unit, CanTake, Loaded
  <1>6. CASE ReadBitsOfUnit
    <2>1. /\ IsBits(f) /\ ~NeedsUnit(bb, f.type) /\ CanTake(bb, f.bits)
          /\ vals' = Append(vals, Taken(bb, f.bits)) /\ bb' = AfterTake(bb, f.bits)
          /\ pos' = p /\ sizes' = Append(sizes, None) /\ UNCHANGED outcome
      BY <1>2, <1>6 DEF ReadBitsOfUnit
    <2>2. Unit(s, f) = bb /\ ~Takes(s, f)
      BY <1>4, <2>1 DEF Unit, Takes
    <2>3. PICK next : next = Past(s, f)
      OBVIOUS
    <2>4. next.bb = bb' /\ next.pos = s.pos
      BY <2>1, <2>2, <2>3 DEF Past
    <2>5. vals' = Append(vals, ValueOf(s, f)) /\ sizes' = Append(sizes, SizeOf(s, f)) /\ ~Fails(s, f)
      BY <2>1, <2>2 DEF ValueOf, SizeOf, Fails
    <2>6. CanTake(Unit(s, f), f.bits)
      BY <2>1, <2>2
    <2>7. pos' = next.pos \/ (Len(stream) <= next.pos /\ next.pos <= pos')
      BY <1>3, <2>1, <2>4
    <2> QED BY <1>1, <1>2, <2>1, <2>3, <2>4, <2>5, <2>6, <2>7, TraceGrows
  <1>7. CASE ReadBitsOfNewUnit
    <2>1. /\ IsBits(f) /\ NeedsUnit(bb, f.type) /\ Accepts(f.type, bytes)
          /\ CanTake(Loaded(f.type, bytes), f.bits)
          /\ vals' = Append(vals, Taken(Loaded(f.type, bytes), f.bits))
          /\ bb' = AfterTake(Loaded(f.type, bytes), f.bits)
          /\ pos' = p + Len(bytes) /\ sizes' = Append(sizes, None) /\ UNCHANGED outcome
      BY <1>2, <1>7 DEF ReadBitsOfNewUnit
    <2>2. Unit(s, f) = Loaded(f.type, bytes) /\ Takes(s, f)
      BY <1>3, <1>4, <2>1 DEF Unit, Takes
    <2>3. PICK next : next = Past(s, f)
      OBVIOUS
    <2>4. next.bb = bb' /\ next.pos = s.pos + Len(bytes)
      BY <1>3, <2>1, <2>2, <2>3 DEF Past
    <2>5. vals' = Append(vals, ValueOf(s, f)) /\ sizes' = Append(sizes, SizeOf(s, f)) /\ ~Fails(s, f)
      BY <1>3, <2>1, <2>2 DEF ValueOf, SizeOf, Fails
    <2>6. CanTake(Unit(s, f), f.bits)
      BY <2>1, <2>2
    <2>7. pos' = next.pos \/ (Len(stream) <= next.pos /\ next.pos <= pos')
      BY <1>3, <2>1, <2>4
    <2> QED BY <1>1, <1>2, <2>1, <2>3, <2>4, <2>5, <2>6, <2>7, TraceGrows
  <1>8. CASE ReadPlain
    <2>1. /\ ~IsBits(f) /\ Accepts(f.type, bytes)
          /\ vals' = Append(vals, Value(bytes, f.type)) /\ bb' = Empty
          /\ pos' = p + Len(bytes) /\ sizes' = Append(sizes, Len(bytes)) /\ UNCHANGED outcome
      BY <1>2, <1>8 DEF ReadPlain
    <2>2. Takes(s, f)
      BY <2>1 DEF Takes
    <2>3. PICK next : next = Past(s, f)
      OBVIOUS
    <2>4. next.bb = bb' /\ next.pos = s.pos + Len(bytes)
      BY <1>3, <2>1, <2>2, <2>3 DEF Past
    <2>5. vals' = Append(vals, ValueOf(s, f)) /\ sizes' = Append(sizes, SizeOf(s, f)) /\ ~Fails(s, f)
      BY <1>3, <2>1, <2>2 DEF ValueOf, SizeOf, Fails
    <2>6. pos' = next.pos \/ (Len(stream) <= next.pos /\ next.pos <= pos')
      BY <1>3, <2>1, <2>4
    <2> QED BY <1>1, <1>2, <2>1, <2>3, <2>4, <2>5, <2>6, TraceGrows
  <1>9. CASE ReadShort
    <2>1. /\ IsBits(f) => NeedsUnit(bb, f.type)
          /\ ~Accepts(f.type, bytes)
          /\ outcome' = "EOFError" /\ UNCHANGED <<vals, sizes>>
      BY <1>2, <1>9 DEF ReadShort
    <2>2. Fails(s, f)
      BY <1>3, <1>4, <2>1 DEF Fails, Takes
    <2>3. Fails(s, def[k])'
      BY <1>1, <1>2, <2>2, SameField
    <2>4. ASSUME NEW i \in 1 .. Len(vals)
          PROVE  IsRead(tr[i], i)' /\ (tr[i + 1] = Past(tr[i], def[i]))'
      <3>1. IsRead(tr[i], i) /\ tr[i + 1] = Past(tr[i], def[i])
        BY DEF Trace
      <3>2. PICK x : x = tr[i]
        OBVIOUS
      <3>3. IsRead(x, i)' /\ Past(x, def[i])' = Past(x, def[i])
        BY <1>1, <2>1, <3>1, <3>2, SameField, IsReadKept
      <3> QED BY <3>1, <3>2, <3>3
    <2>5. Trace(tr)'
      BY <1>1, <1>2, <1>4, <2>1, <2>3, <2>4 DEF Trace
    <2> QED BY <2>5
  <1>10. CASE ReadBitsBeyondUnit
    <2>1. /\ IsBits(f) /\ NeedsUnit(bb, f.type) => Accepts(f.type, bytes)
          /\ IsBits(f)
          /\ ~CanTake(IF NeedsUnit(bb, f.type) THEN Loaded(f.type, bytes) ELSE bb, f.bits)
      BY <1>2, <1>10 DEF ReadBitsBeyondUnit
    <2>2. ~CanTake(Unit(s, f), f.bits)
      BY <1>3, <1>4, <2>1 DEF Unit
    <2>3. ~Fails(s, f)
      BY <1>3, <1>4, <2>1 DEF Fails, Takes
    <2> QED BY <1>5, <2>1, <2>2, <2>3
  <1> QED BY <1>6, <1>7, <1>8, <1>9, <1>10 DEF ReadField

-----------------------------------------------------------------------------
(* The generator *)

LEMMA SameGeneration ==
    ASSUME UNCHANGED def, NEW c, NEW g
    PROVE  IsGeneration(c, g)' <=> IsGeneration(c, g)
  <1>1. ASSUME NEW slots, NEW first, NEW size
        PROVE  /\ Consecutive(slots, first, size)' <=> Consecutive(slots, first, size)
               /\ AreStatic(slots, first)' <=> AreStatic(slots, first)
    BY DEF Consecutive, AreStatic
  <1>2. ASSUME NEW s, NEW first PROVE IsStatement(s, first)' <=> IsStatement(s, first)
    BY <1>1 DEF IsStatement
  <1>3. ASSUME NEW k PROVE Dirty(k)' <=> Dirty(k)
    BY DEF Dirty
  <1>4. ASSUME NEW bs PROVE Blocks(c, bs)' <=> Blocks(c, bs)
    BY <1>2, <1>3 DEF Blocks
  <1> QED BY <1>1, <1>3, <1>4 DEF IsGeneration

\* One statement more, or two
LEMMA Joined ==
    ASSUME NEW bs \in Seq(Statements), NEW s \in Statements, NEW t \in Statements
    PROVE  /\ bs \o <<>> = bs
           /\ bs \o <<s>> = Append(bs, s)
           /\ bs \o (<<s>> \o <<t>>) = Append(Append(bs, s), t)
  <1>1. bs \o <<>> = bs
    OBVIOUS
  <1>2. bs \o <<s>> = Append(bs, s)
    OBVIOUS
  <1>3. bs \o (<<s>> \o <<t>>) = (bs \o <<s>>) \o <<t>>
    <2>1. <<s>> \in Seq(Statements) /\ <<t>> \in Seq(Statements)
      OBVIOUS
    <2> QED BY <2>1, ConcatAssociative
  <1>4. \A b \in Seq(Statements) : b \o <<t>> = Append(b, t)
    OBVIOUS
  <1>5. Append(bs, s) \in Seq(Statements)
    OBVIOUS
  <1> QED BY <1>1, <1>2, <1>3, <1>4, <1>5

\* A statement is added to those so far.
LEMMA BlockAdded ==
    ASSUME NEW c, NEW bs, Blocks(c, bs), NEW s \in Statements, NEW first,
           first = c[Len(c)], IsStatement(s, first),
           EndsInReset(bs) => ReadsPlain(s),
           ReadsPlain(s) /\ Dirty(first) => EndsInReset(bs)
    PROVE  /\ Blocks(Append(c, first + Len(s.slots)), Append(bs, s))
           /\ EndsInReset(Append(bs, s)) <=> s.op = "reset"
  <1>1. bs \in Seq(Statements) /\ c \in Seq(Nat \ {0}) /\ Len(c) = Len(bs) + 1 /\ c[1] = 1
    BY DEF Blocks
  <1>2. PICK n \in Nat : n = Len(bs)
    BY <1>1
  <1>3. s.slots \in Seq(Slots) /\ Len(s.slots) \in Nat
    BY DEF Statements
  <1>4. first \in Nat \ {0}
    BY <1>1, <1>2
  <1>5. first + Len(s.slots) \in Nat \ {0}
    BY <1>3, <1>4
  <1>6. PICK d : d = Append(c, first + Len(s.slots))
    OBVIOUS
  <1>7. PICK cs : cs = Append(bs, s)
    OBVIOUS
  <1>8. /\ d \in Seq(Nat \ {0}) /\ Len(d) = n + 2 /\ d[n + 2] = first + Len(s.slots)
        /\ d[n + 1] = first /\ \A i \in 1 .. n + 1 : d[i] = c[i]
    BY <1>1, <1>2, <1>5, <1>6
  <1>9. /\ cs \in Seq(Statements) /\ Len(cs) = n + 1 /\ cs[n + 1] = s
        /\ \A i \in 1 .. n : cs[i] = bs[i]
    BY <1>1, <1>2, <1>7
  <1>10. EndsInReset(cs) <=> s.op = "reset"
    BY <1>2, <1>9 DEF EndsInReset
  <1>11. ASSUME NEW i \in 1 .. n + 1
         PROVE  /\ d[i + 1] = d[i] + Len(cs[i].slots)
                /\ IsStatement(cs[i], d[i])
                /\ cs[i].op = "reset" /\ i < n + 1 => ReadsPlain(cs[i + 1])
                /\ ReadsPlain(cs[i]) /\ Dirty(d[i]) => i > 1 /\ cs[i - 1].op = "reset"
    <2>1. CASE i = n + 1
      <3>1. ReadsPlain(cs[i]) /\ Dirty(d[i]) => i > 1 /\ cs[i - 1].op = "reset"
        <4>1. SUFFICES ASSUME ReadsPlain(s), Dirty(first) PROVE i > 1 /\ cs[i - 1].op = "reset"
          BY <1>8, <1>9, <2>1
        <4>2. n > 0 /\ bs[n].op = "reset"
          BY <1>2, <4>1 DEF EndsInReset
        <4>3. cs[n] = bs[n] /\ i - 1 = n
          BY <1>9, <2>1, <4>2
        <4> QED BY <2>1, <4>2, <4>3
      <3>2. d[i + 1] = first + Len(s.slots) /\ d[i] = first /\ cs[i] = s
        BY <1>8, <1>9, <2>1
      <3> QED BY <2>1, <3>1, <3>2
    <2>2. CASE i < n + 1
      <3>1. i \in 1 .. n /\ i + 1 \in 1 .. n + 1 /\ i \in 1 .. n + 1
        BY <2>2
      <3>2. d[i] = c[i] /\ d[i + 1] = c[i + 1] /\ cs[i] = bs[i]
        BY <1>8, <1>9, <3>1
      <3>3. /\ c[i + 1] = c[i] + Len(bs[i].slots)
            /\ IsStatement(bs[i], c[i])
            /\ bs[i].op = "reset" /\ i < n => ReadsPlain(bs[i + 1])
            /\ ReadsPlain(bs[i]) /\ Dirty(c[i]) => i > 1 /\ bs[i - 1].op = "reset"
        BY <1>2, <3>1 DEF Blocks
      <3>4. bs[i].op = "reset" => ReadsPlain(cs[i + 1])
        <4>1. CASE i < n
          <5>1. cs[i + 1] = bs[i + 1]
            BY <1>9, <3>1, <4>1
          <5> QED BY <3>3, <4>1, <5>1
        <4>2. CASE i = n
          <5>1. bs[i].op = "reset" => EndsInReset(bs)
            BY <1>2, <3>1, <4>2 DEF EndsInReset
          <5> QED BY <1>9, <4>2, <5>1
        <4> QED BY <3>1, <4>1, <4>2
      <3>5. i > 1 => cs[i - 1] = bs[i - 1]
        BY <1>9, <3>1
      <3> QED BY <3>2, <3>3, <3>4, <3>5
    <2> QED BY <1>2, <2>1, <2>2
  <1>12. d[1] = 1
    BY <1>1, <1>2, <1>8
  <1>13. Blocks(d, cs)
    <2>1. Len(cs) = n + 1 /\ Len(d) = Len(cs) + 1
      BY <1>2, <1>8, <1>9
    <2> QED BY <1>8, <1>9, <1>11, <1>12, <2>1 DEF Blocks
  <1> QED BY <1>6, <1>7, <1>10, <1>13

\* Only bit fields leave something in the buffer, and only nested structures leave it there.
LEMMA DirtyNext ==
    ASSUME def \in Seq(Fields), WellFormed(def), NEW k \in 1 .. Len(def)
    PROVE  /\ def[k].type \in Nested => ~IsBits(def[k]) /\ (Dirty(k + 1) <=> Dirty(k))
           /\ ~IsBits(def[k]) /\ def[k].type \notin Nested => ~Dirty(k + 1)
           /\ def[k].type \in Dynamic => ~IsBits(def[k])
  <1>1. /\ def[k].type \in Nested => ~IsBits(def[k])
        /\ def[k].type \in Dynamic => ~IsBits(def[k])
    BY FieldType, KindAssumption
  <1>2. ASSUME ~IsBits(def[k]), def[k].type \notin Nested PROVE ~Dirty(k + 1)
    <2>1. ASSUME NEW j \in 1 .. k, IsBits(def[j]), \A i \in j + 1 .. k : def[i].type \in Nested
          PROVE  FALSE
      <3>1. j # k
        BY <1>2, <2>1
      <3>2. k \in j + 1 .. k
        BY <3>1
      <3> QED BY <1>2, <2>1, <3>2
    <2> QED BY <2>1 DEF Dirty
  <1>3. ASSUME def[k].type \in Nested PROVE Dirty(k + 1) <=> Dirty(k)
    <2>1. ASSUME Dirty(k) PROVE Dirty(k + 1)
      <3>1. PICK j \in 1 .. k - 1 : IsBits(def[j]) /\ \A i \in j + 1 .. k - 1 : def[i].type \in Nested
        BY <2>1 DEF Dirty
      <3>2. j \in 1 .. k /\ \A i \in j + 1 .. k : i = k \/ i \in j + 1 .. k - 1
        OBVIOUS
      <3>3. \A i \in j + 1 .. k : def[i].type \in Nested
        BY <1>3, <3>1, <3>2
      <3> QED BY <3>1, <3>2, <3>3 DEF Dirty
    <2>2. ASSUME Dirty(k + 1) PROVE Dirty(k)
      <3>1. PICK j \in 1 .. k : IsBits(def[j]) /\ \A i \in j + 1 .. k : def[i].type \in Nested
        BY <2>2 DEF Dirty
      <3>2. j # k
        BY <1>1, <1>3, <3>1
      <3>3. j \in 1 .. k - 1 /\ \A i \in j + 1 .. k - 1 : i \in j + 1 .. k
        BY <3>2
      <3> QED BY <3>1, <3>3 DEF Dirty
    <2> QED BY <2>1, <2>2
  <1> QED BY <1>1, <1>2, <1>3

\* A field is added to those of a block.
LEMMA SlotAdded ==
    ASSUME def \in Seq(Fields), WellFormed(def),
           NEW slots \in Seq(Slots), NEW first \in Nat, NEW size \in Nat,
           Consecutive(slots, first, size), NEW k, k = first + Len(slots),
           k \in 1 .. Len(def), NEW n \in Nat, n = Size[def[k].type]
    PROVE  Consecutive(Append(slots, [field |-> k, at |-> size]), first, size + n)
  <1>1. PICK m \in Nat : m = Len(slots)
    OBVIOUS
  <1>2. PICK t : t = Append(slots, [field |-> k, at |-> size])
    OBVIOUS
  <1>3. /\ Len(t) = m + 1 /\ t[m + 1].field = k /\ t[m + 1].at = size
        /\ \A j \in 1 .. m : t[j] = slots[j]
    BY <1>1, <1>2
  <1>4. ASSUME NEW j \in 1 .. m + 1
        PROVE  /\ t[j].field = first + j - 1
               /\ first + j - 1 \in 1 .. Len(def)
               /\ t[j].at + Size[def[first + j - 1].type] <= size + n
               /\ j = 1 => t[j].at = 0
               /\ j < m + 1 => t[j + 1].at = t[j].at + Size[def[first + j - 1].type]
               /\ j = m + 1 => size + n = t[j].at + Size[def[first + j - 1].type]
    <2>1. CASE j = m + 1
      <3>1. first + j - 1 = k
        BY <1>1, <2>1
      <3>2. j = 1 => size = 0
        <4>1. j = 1 => slots = <<>>
          BY <1>1, <2>1
        <4> QED BY <4>1 DEF Consecutive
      <3> QED BY <1>3, <2>1, <3>1, <3>2
    <2>2. CASE j < m + 1
      <3>1. j \in 1 .. m
        BY <2>2
      <3>2. PICK z : z = Size[def[first + j - 1].type]
        OBVIOUS
      <3>3. /\ slots[j].field = first + j - 1
            /\ first + j - 1 \in 1 .. Len(def)
            /\ slots[j].at + z <= size
            /\ j = 1 => slots[j].at = 0
            /\ j < m => slots[j + 1].at = slots[j].at + z
            /\ j = m => size = slots[j].at + z
        BY <1>1, <3>1, <3>2 DEF Consecutive
      <3>4. t[j] = slots[j] /\ (j < m => t[j + 1] = slots[j + 1])
        BY <1>3, <3>1
      <3>5. j < m + 1 => t[j + 1].at = t[j].at + z
        <4>1. CASE j < m
          BY <3>3, <3>4, <4>1
        <4>2. CASE j = m
          BY <1>3, <3>3, <3>4, <4>2
        <4> QED BY <3>1, <4>1, <4>2
      <3>6. z \in Nat
        BY <3>2, <3>3, FieldType
      <3>7. slots[j].at + z <= size + n
        <4>1. slots[j] \in Slots
          BY <1>1, <3>1
        <4>2. slots[j].at \in Nat
          BY <4>1 DEF Slots
        <4>3. PICK a \in Nat, b \in Nat : a = slots[j].at /\ b = z
          BY <3>6, <4>2
        <4>4. a + b <= size
          BY <3>3, <4>3
        <4>5. a + b <= size + n
          BY <4>4
        <4> QED BY <4>3, <4>5
      <3> QED BY <2>2, <3>2, <3>3, <3>4, <3>5, <3>7
    <2> QED BY <1>1, <2>1, <2>2
  <1>5. t # <<>>
    BY <1>1, <1>3
  <1> QED BY <1>2, <1>3, <1>4, <1>5 DEF Consecutive

\* The fields gathered make a block, empty or not.
LEMMA ClosedIs ==
    ASSUME NEW c, NEW g, IsGeneration(c, g),
           NEW s, s = [op |-> "block", slots |-> g.cur_block, size |-> g.read_size]
    PROVE  /\ s \in Statements
           /\ Blocks(Append(c, g.field), Append(g.blocks, s))
           /\ ~EndsInReset(Append(g.blocks, s))
  <1>1. g.cur_block \in Seq(Slots) /\ g.read_size \in Nat
    BY DEF IsGeneration, GenStates
  <1>2. s \in Statements /\ s.op = "block" /\ s.slots = g.cur_block /\ s.size = g.read_size
    BY <1>1 DEF Statements
  <1>3. PICK first : first = c[Len(c)]
    OBVIOUS
  <1>4. IsStatement(s, first)
    BY <1>2, <1>3 DEF IsGeneration, IsStatement
  <1>5. ReadsPlain(s) <=> g.cur_block # <<>>
    BY <1>2 DEF ReadsPlain
  <1>6. g.field = first + Len(s.slots) /\ Blocks(c, g.blocks)
    BY <1>2, <1>3 DEF IsGeneration
  <1>7. (EndsInReset(g.blocks) => ReadsPlain(s)) /\ (ReadsPlain(s) /\ Dirty(first) => EndsInReset(g.blocks))
    BY <1>3, <1>5 DEF IsGeneration
  <1>8. s.op # "reset"
    BY <1>2
  <1>9. PICK bs : bs = g.blocks
    OBVIOUS
  <1> QED BY <1>2, <1>3, <1>4, <1>6, <1>7, <1>8, <1>9, BlockAdded

\* A statement of one field.
LEMMA SingleIs ==
    ASSUME def \in Seq(Fields), WellFormed(def), NEW k \in 1 .. Len(def),
           NEW op \in {"bits", "nested", "dynamic"},
           op = "bits" => IsBits(def[k]), op = "nested" => def[k].type \in Nested,
           op = "dynamic" => def[k].type \in Dynamic \ Nested,
           NEW s, s = [op |-> op, slots |-> <<[field |-> k, at |-> 0]>>, size |-> Size[def[k].type]]
    PROVE  /\ s \in Statements /\ IsStatement(s, k) /\ Len(s.slots) = 1 /\ s.op = op
           /\ ReadsPlain(s) <=> op = "dynamic"
  <1>1. PICK z \in Nat : z = Size[def[k].type]
    BY FieldType
  <1>2. PICK t : t = <<[field |-> k, at |-> 0]>>
    OBVIOUS
  <1>3. k \in Nat
    OBVIOUS
  <1>4. t \in Seq(Slots) /\ Len(t) = 1 /\ t[1].field = k /\ t[1].at = 0 /\ t # <<>>
    BY <1>2, <1>3 DEF Slots
  <1>5. s.op = op /\ s.slots = t /\ s.size = z
    BY <1>1, <1>2
  <1>6. s \in Statements
    BY <1>1, <1>2, <1>4 DEF Statements
  <1>7. Consecutive(t, k, z)
    <2>1. \A j \in 1 .. Len(t) : j = 1
      BY <1>4
    <2>2. k + 1 - 1 = k /\ 0 + z = z
      BY <1>1
    <2> QED BY <1>1, <1>4, <2>1, <2>2 DEF Consecutive
  <1> QED BY <1>4, <1>5, <1>6, <1>7 DEF IsStatement, ReadsPlain

\* Statements that end before the next field, and nothing gathered yet
LEMMA StatementsDone ==
    ASSUME NEW d, NEW h, NEW bs, NEW k \in 1 .. Len(def) + 1, NEW p \in BOOLEAN, NEW e \in BOOLEAN,
           h = [blocks |-> bs, cur_block |-> <<>>, read_size |-> 0, prev_was_bits |-> p,
                field |-> k, finished |-> e],
           Blocks(d, bs), d[Len(d)] = k, ~EndsInReset(bs), Dirty(k) => p, e => k = Len(def) + 1,
           def \in Seq(Fields)
    PROVE  IsGeneration(d, h)
  <1>1. /\ h.blocks = bs /\ h.cur_block = <<>> /\ h.read_size = 0 /\ h.prev_was_bits = p
        /\ h.field = k /\ h.finished = e
    OBVIOUS
  <1>2. bs \in Seq(Statements) /\ k \in Nat /\ <<>> \in Seq(Slots)
    BY DEF Blocks
  <1>3. h \in GenStates
    BY <1>2 DEF GenStates
  <1>4. Consecutive(<<>>, k, 0) /\ AreStatic(<<>>, k) /\ Len(<<>>) = 0
    BY DEF Consecutive, AreStatic
  <1>5. k = k + 0
    BY <1>2
  <1> QED BY <1>1, <1>3, <1>4, <1>5 DEF IsGeneration

\* The loop variables before a field
LEMMA GenIs ==
    ASSUME NEW c, NEW g, IsGeneration(c, g)
    PROVE  /\ g = [blocks |-> g.blocks, cur_block |-> g.cur_block, read_size |-> g.read_size,
                   prev_was_bits |-> g.prev_was_bits, field |-> g.field, finished |-> g.finished]
           /\ g.blocks \in Seq(Statements) /\ g.cur_block \in Seq(Slots) /\ g.read_size \in Nat
           /\ g.prev_was_bits \in BOOLEAN /\ g.finished \in BOOLEAN
           /\ Len(c) \in Nat \ {0} /\ c[Len(c)] \in Nat \ {0} /\ c \in Seq(Nat \ {0})
           /\ g.cur_block = <<>> => c[Len(c)] = g.field /\ ~EndsInReset(g.blocks)
  <1>1. g \in GenStates /\ Blocks(c, g.blocks) /\ g.field = c[Len(c)] + Len(g.cur_block)
        /\ (EndsInReset(g.blocks) => g.cur_block # <<>>)
    BY DEF IsGeneration
  <1>2. /\ g = [blocks |-> g.blocks, cur_block |-> g.cur_block, read_size |-> g.read_size,
                prev_was_bits |-> g.prev_was_bits, field |-> g.field, finished |-> g.finished]
        /\ g.blocks \in Seq(Statements) /\ g.cur_block \in Seq(Slots) /\ g.read_size \in Nat
        /\ g.prev_was_bits \in BOOLEAN /\ g.finished \in BOOLEAN
    BY <1>1 DEF GenStates
  <1>3. Len(c) \in Nat \ {0} /\ c[Len(c)] \in Nat \ {0} /\ c \in Seq(Nat \ {0})
    BY <1>1, <1>2 DEF Blocks
  <1>4. g.cur_block = <<>> => c[Len(c)] = g.field
    BY <1>1, <1>3
  <1> QED BY <1>1, <1>2, <1>3, <1>4

\* A block is closed, and a statement of one field added.
LEMMA BlockAndField ==
    ASSUME NEW c, NEW g, IsGeneration(c, g), NEW k, k = g.field,
           NEW t \in Statements, IsStatement(t, k), Len(t.slots) = 1, t.op # "reset",
           ~ReadsPlain(t) \/ ~Dirty(k),
           NEW s, s = [op |-> "block", slots |-> g.cur_block, size |-> g.read_size]
    PROVE  /\ s \in Statements
           /\ ~EndsInReset(Append(Append(g.blocks, s), t))
           /\ \E d : Blocks(d, Append(Append(g.blocks, s), t)) /\ d[Len(d)] = k + 1
  <1>1. PICK as : as = Append(g.blocks, s)
    OBVIOUS
  <1>2. PICK c1 : c1 = Append(c, k)
    OBVIOUS
  <1>3. s \in Statements /\ Blocks(c1, as) /\ ~EndsInReset(as)
    BY <1>1, <1>2, ClosedIs
  <1>4. c1 \in Seq(Nat \ {0}) /\ c1[Len(c1)] = k
    <2>1. k \in Nat \ {0}
      BY DEF IsGeneration
    <2> QED BY <1>2, <2>1, GenIs
  <1>5. PICK d : d = Append(c1, k + Len(t.slots))
    OBVIOUS
  <1>6. Blocks(d, Append(as, t)) /\ ~EndsInReset(Append(as, t))
    BY <1>3, <1>4, <1>5, BlockAdded
  <1>7. d[Len(d)] = k + 1
    BY <1>4, <1>5
  <1> QED BY <1>1, <1>3, <1>6, <1>7

\* Nothing is gathered after statements that are generated.
LEMMA GeneratedIs ==
    ASSUME NEW c, Generation(c), NEW bs, NEW x,
           x = [gen EXCEPT !.blocks = bs, !.cur_block = <<>>, !.read_size = 0, !.field = @ + 1]
    PROVE  x = [blocks |-> bs, cur_block |-> <<>>, read_size |-> 0,
                prev_was_bits |-> gen.prev_was_bits, field |-> gen.field + 1,
                finished |-> gen.finished]
  <1>1. PICK b, cur, size, prev, k, e :
           gen = [blocks |-> b, cur_block |-> cur, read_size |-> size, prev_was_bits |-> prev,
                  field |-> k, finished |-> e]
    <2>1. PICK g : g = gen
      OBVIOUS
    <2>2. IsGeneration(c, g)
      BY <2>1 DEF Generation
    <2> QED BY <2>1, <2>2, GenIs
  <1>2. gen.prev_was_bits = prev /\ gen.field = k /\ gen.finished = e
    BY <1>1
  <1>3. PICK none, next : none = <<>> /\ next = k + 1
    OBVIOUS
  <1>4. x = [blocks |-> bs, cur_block |-> none, read_size |-> 0, prev_was_bits |-> prev,
             field |-> next, finished |-> e]
    BY <1>1, <1>2, <1>3
  <1> QED BY <1>2, <1>3, <1>4

\* A field that takes a statement of its own, after the block of those before it.
LEMMA OneFieldStep ==
    ASSUME def \in Seq(Fields), WellFormed(def), UNCHANGED def,
           NEW c, Generation(c), GenNested \/ GenBits \/ (GenDynamic /\ gen.cur_block # <<>>)
    PROVE  \E d : Generation(d)'
  <1> DEFINE k == gen.field
  <1>1. k \in 1 .. Len(def) /\ ~gen.finished
    BY DEF GenNested, GenBits, GenDynamic, Generating, Generation, IsGeneration
  <1>2. IsGeneration(c, gen)
    BY DEF Generation
  <1>3. PICK op \in {"bits", "nested", "dynamic"}, p \in BOOLEAN :
           /\ op = "bits" => IsBits(def[k]) /\ p
           /\ op = "nested" => def[k].type \in Nested /\ p = gen.prev_was_bits
           /\ op = "dynamic" => def[k].type \in Dynamic \ Nested /\ ~gen.prev_was_bits
           /\ gen' = [Generated(ClosedBlock \o Single(op, k)) EXCEPT !.prev_was_bits = p]
    <2>1. CASE GenNested
      <3>1. gen' = Generated(ClosedBlock \o Single("nested", k)) /\ def[k].type \in Nested
        BY <2>1 DEF GenNested, GenField
      <3>2. Generated(ClosedBlock \o Single("nested", k))
              = [Generated(ClosedBlock \o Single("nested", k)) EXCEPT !.prev_was_bits = gen.prev_was_bits]
        BY <1>2, GenIs DEF Generated
      <3> QED BY <1>2, <3>1, <3>2, GenIs
    <2>2. CASE GenBits
      BY <2>2 DEF GenBits, GenField
    <2>3. CASE GenDynamic /\ gen.cur_block # <<>>
      <3>1. ~gen.prev_was_bits
        BY <1>2, <2>3 DEF IsGeneration
      <3>2. ResetIfBits = <<>>
        BY <3>1 DEF ResetIfBits
      <3>3. gen' = [Generated(<<>> \o ClosedBlock \o Single("dynamic", k)) EXCEPT !.prev_was_bits = FALSE]
            /\ def[k].type \in Dynamic \ Nested
        BY <2>3, <3>2, Zenon DEF GenDynamic, GenField
      <3>4. <<>> \o ClosedBlock = ClosedBlock
        BY DEF ClosedBlock
      <3> QED BY <3>1, <3>3, <3>4
    <2> QED BY <2>1, <2>2, <2>3
  <1> DEFINE s == [op |-> "block", slots |-> gen.cur_block, size |-> gen.read_size]
             t == [op |-> op, slots |-> <<[field |-> k, at |-> 0]>>, size |-> Size[def[k].type]]
  <1>4. PICK g : g = gen
    OBVIOUS
  <1>5. PICK bs : bs = Append(Append(g.blocks, s), t)
    OBVIOUS
  <1>6. /\ s \in Statements /\ t \in Statements
        /\ \E d : Blocks(d, bs) /\ d[Len(d)] = k + 1
        /\ ~EndsInReset(bs)
    <2>1. PICK x, y, m : x = s /\ y = t /\ m = k
      OBVIOUS
    <2>2. /\ y \in Statements /\ IsStatement(y, m) /\ Len(y.slots) = 1 /\ y.op # "reset"
          /\ ReadsPlain(y) => op = "dynamic"
      BY <1>1, <1>3, <2>1, SingleIs
    <2>3. m = g.field /\ IsGeneration(c, g) /\ (~ReadsPlain(y) \/ ~Dirty(m))
      BY <1>2, <1>3, <1>4, <2>1, <2>2 DEF IsGeneration
    <2>4. x = [op |-> "block", slots |-> g.cur_block, size |-> g.read_size]
      BY <1>4, <2>1
    <2>5. /\ x \in Statements
          /\ ~EndsInReset(Append(Append(g.blocks, x), y))
          /\ \E d : Blocks(d, Append(Append(g.blocks, x), y)) /\ d[Len(d)] = m + 1
      BY <2>2, <2>3, <2>4, BlockAndField
    <2> QED BY <1>5, <2>1, <2>2, <2>5
  <1>7. gen.blocks \o (ClosedBlock \o Single(op, k)) = bs
    <2>1. ClosedBlock = <<s>> /\ Single(op, k) = <<t>>
      BY DEF ClosedBlock, Single
    <2>2. g.blocks \in Seq(Statements)
      BY <1>2, <1>4, GenIs
    <2> QED BY <1>4, <1>5, <1>6, <2>1, <2>2, Joined
  <1>8. gen' = [blocks |-> bs, cur_block |-> <<>>, read_size |-> 0, prev_was_bits |-> p,
                field |-> k + 1, finished |-> gen.finished]
    <2>1. Generated(ClosedBlock \o Single(op, k)) =
            [gen EXCEPT !.blocks = bs, !.cur_block = <<>>, !.read_size = 0, !.field = @ + 1]
      BY <1>7, Zenon DEF Generated
    <2>2. PICK x : x = Generated(ClosedBlock \o Single(op, k))
      OBVIOUS
    <2>3. [x EXCEPT !.prev_was_bits = p] =
            [blocks |-> bs, cur_block |-> <<>>, read_size |-> 0, prev_was_bits |-> p,
             field |-> k + 1, finished |-> gen.finished]
      <3>1. PICK q : q = p
        OBVIOUS
      <3>2. x = [gen EXCEPT !.blocks = bs, !.cur_block = <<>>, !.read_size = 0, !.field = @ + 1]
        BY <2>1, <2>2
      <3>3. PICK b, none, prev, next, e :
               /\ b = bs /\ none = <<>> /\ prev = gen.prev_was_bits /\ next = gen.field + 1
               /\ e = gen.finished
        OBVIOUS
      <3>4. PICK y : y = x
        OBVIOUS
      <3>5. y = [blocks |-> b, cur_block |-> none, read_size |-> 0, prev_was_bits |-> prev,
                 field |-> next, finished |-> e]
        BY <3>2, <3>3, <3>4, GeneratedIs
      <3>6. [y EXCEPT !.prev_was_bits = q] =
              [blocks |-> b, cur_block |-> none, read_size |-> 0, prev_was_bits |-> q,
               field |-> next, finished |-> e]
        BY <3>5
      <3> QED BY <3>1, <3>3, <3>4, <3>6
    <2> QED BY <1>3, <2>2, <2>3
  <1>9. Dirty(k + 1) => p
    <2>1. CASE op = "nested"
      <3>1. Dirty(k + 1) => Dirty(k)
        BY <1>1, <1>3, <2>1, DirtyNext
      <3> QED BY <1>2, <1>3, <2>1, <3>1 DEF IsGeneration
    <2>2. CASE op = "dynamic"
      BY <1>1, <1>3, <2>2, DirtyNext
    <2> QED BY <1>3, <2>1, <2>2
  <1>10. PICK d : Blocks(d, bs) /\ d[Len(d)] = k + 1
    BY <1>6
  <1>11. PICK h : h = gen'
    OBVIOUS
  <1>12. IsGeneration(d, h)
    <2>1. k + 1 \in 1 .. Len(def) + 1
      BY <1>1
    <2>2. gen.finished \in BOOLEAN
      BY <1>2, GenIs
    <2> HIDE DEF k
    <2> QED BY <1>1, <1>6, <1>8, <1>9, <1>10, <1>11, <2>1, <2>2, StatementsDone
  <1> QED BY <1>11, <1>12, SameGeneration DEF Generation

\* A reset is added where bit fields came before.
LEMMA ResetAdded ==
    ASSUME NEW c, NEW g, IsGeneration(c, g), g.cur_block = <<>>,
           NEW r, r = [op |-> "reset", slots |-> <<>>, size |-> 0],
           NEW as, as = IF g.prev_was_bits THEN Append(g.blocks, r) ELSE g.blocks
    PROVE  /\ r \in Statements
           /\ Dirty(g.field) => EndsInReset(as)
           /\ \E d : Blocks(d, as) /\ d[Len(d)] = g.field
  <1>1. /\ Blocks(c, g.blocks) /\ c \in Seq(Nat \ {0}) /\ c[Len(c)] = g.field
        /\ ~EndsInReset(g.blocks) /\ g.blocks \in Seq(Statements)
        /\ g.prev_was_bits \in BOOLEAN /\ (Dirty(g.field) => g.prev_was_bits)
        /\ g.field \in Nat \ {0}
    BY GenIs DEF IsGeneration
  <1>2. PICK none : none = <<>>
    OBVIOUS
  <1>3. r.op = "reset" /\ r.slots = none /\ r.size = 0 /\ none \in Seq(Slots) /\ Len(none) = 0
    BY <1>2
  <1>4. r \in Statements
    BY <1>2, <1>3 DEF Statements
  <1>5. IsStatement(r, g.field) /\ ~ReadsPlain(r)
    BY <1>2, <1>3 DEF IsStatement, Consecutive, ReadsPlain
  <1>6. CASE g.prev_was_bits
    <2>1. PICK d : d = Append(c, g.field + Len(r.slots))
      OBVIOUS
    <2>2. PICK bs : bs = g.blocks
      OBVIOUS
    <2>3. Blocks(d, Append(bs, r)) /\ EndsInReset(Append(bs, r))
      BY <1>1, <1>3, <1>4, <1>5, <2>1, <2>2, BlockAdded
    <2>4. d[Len(d)] = g.field
      BY <1>1, <1>2, <1>3, <2>1
    <2> QED BY <1>4, <1>6, <2>2, <2>3, <2>4
  <1>7. CASE ~g.prev_was_bits
    BY <1>1, <1>4, <1>7
  <1> QED BY <1>1, <1>6, <1>7

\* A field of a dynamic type, with nothing gathered before it.
LEMMA DynamicStep ==
    ASSUME def \in Seq(Fields), WellFormed(def), UNCHANGED def,
           NEW c, Generation(c), GenDynamic, gen.cur_block = <<>>
    PROVE  \E d : Generation(d)'
  <1>1. PICK g, k : g = gen /\ k = gen.field
    OBVIOUS
  <1>2. /\ IsGeneration(c, g) /\ k \in 1 .. Len(def) /\ ~g.finished /\ def[k].type \in Dynamic \ Nested
        /\ k = g.field /\ g.cur_block = <<>>
    BY <1>1 DEF GenDynamic, Generating, Generation, IsGeneration, GenField
  <1>3. PICK r, t, as :
           /\ r = [op |-> "reset", slots |-> <<>>, size |-> 0]
           /\ t = [op |-> "dynamic", slots |-> <<[field |-> k, at |-> 0]>>, size |-> Size[def[k].type]]
           /\ as = IF g.prev_was_bits THEN Append(g.blocks, r) ELSE g.blocks
    OBVIOUS
  <1>4. PICK c1 : Blocks(c1, as) /\ c1[Len(c1)] = k
    BY <1>2, <1>3, ResetAdded
  <1>5. r \in Statements /\ (Dirty(k) => EndsInReset(as)) /\ g.prev_was_bits \in BOOLEAN
        /\ g.blocks \in Seq(Statements) /\ g.finished \in BOOLEAN
    BY <1>2, <1>3, ResetAdded, GenIs
  <1>6. t \in Statements /\ IsStatement(t, k) /\ Len(t.slots) = 1 /\ t.op = "dynamic" /\ ReadsPlain(t)
    <2>1. PICK op \in {"bits", "nested", "dynamic"} : op = "dynamic"
      OBVIOUS
    <2> QED BY <1>2, <1>3, <2>1, SingleIs
  <1>7. PICK bs : bs = Append(as, t)
    OBVIOUS
  <1>8. PICK d : d = Append(c1, k + Len(t.slots))
    OBVIOUS
  <1>9. Blocks(d, bs) /\ ~EndsInReset(bs)
    BY <1>4, <1>5, <1>6, <1>7, <1>8, BlockAdded
  <1>10. d[Len(d)] = k + 1
    <2>1. c1 \in Seq(Nat \ {0})
      BY <1>4 DEF Blocks
    <2> QED BY <1>2, <1>6, <1>8, <2>1
  <1>11. PICK sts : sts = ResetIfBits \o <<>> \o Single("dynamic", k)
    OBVIOUS
  <1>12. gen' = [Generated(sts) EXCEPT !.prev_was_bits = FALSE]
    <2>1. gen' = [Generated(ResetIfBits \o (IF gen.cur_block = <<>> THEN <<>> ELSE ClosedBlock)
                              \o Single("dynamic", gen.field)) EXCEPT !.prev_was_bits = FALSE]
      BY Zenon DEF GenDynamic
    <2> QED BY <1>1, <1>11, <2>1
  <1>13. g.blocks \o sts = bs
    <2>1. Single("dynamic", k) = <<t>>
      BY <1>3 DEF Single
    <2>2. CASE g.prev_was_bits
      <3>1. ResetIfBits = <<r>>
        BY <1>1, <1>3, <2>2 DEF ResetIfBits
      <3>2. <<r>> \o <<>> = <<r>>
        OBVIOUS
      <3>3. sts = <<r>> \o <<t>>
        BY <1>11, <2>1, <3>1, <3>2
      <3> QED BY <1>3, <1>5, <1>6, <1>7, <2>2, <3>3, Joined
    <2>3. CASE ~g.prev_was_bits
      <3>1. ResetIfBits = <<>>
        BY <1>1, <1>3, <2>3 DEF ResetIfBits
      <3>2. <<>> \o <<>> \o <<t>> = <<t>>
        OBVIOUS
      <3>3. sts = <<t>>
        BY <1>11, <2>1, <3>1, <3>2
      <3> QED BY <1>3, <1>5, <1>6, <1>7, <2>3, <3>3, Joined
    <2> QED BY <2>2, <2>3
  <1>14. gen' = [blocks |-> bs, cur_block |-> <<>>, read_size |-> 0, prev_was_bits |-> FALSE,
                 field |-> k + 1, finished |-> g.finished]
    <2>1. Generated(sts) =
            [gen EXCEPT !.blocks = bs, !.cur_block = <<>>, !.read_size = 0, !.field = @ + 1]
      BY <1>1, <1>13, Zenon DEF Generated
    <2>2. PICK b, none, prev, next, e, x :
             /\ b = bs /\ none = <<>> /\ prev = gen.prev_was_bits /\ next = gen.field + 1
             /\ e = gen.finished /\ x = Generated(sts)
      OBVIOUS
    <2>3. x = [blocks |-> b, cur_block |-> none, read_size |-> 0, prev_was_bits |-> prev,
               field |-> next, finished |-> e]
      BY <2>1, <2>2, GeneratedIs
    <2>4. PICK y, q : y = x /\ q = FALSE
      OBVIOUS
    <2>5. y = [blocks |-> b, cur_block |-> none, read_size |-> 0, prev_was_bits |-> prev,
               field |-> next, finished |-> e]
      BY <2>3, <2>4
    <2>6. [y EXCEPT !.prev_was_bits = q] =
            [blocks |-> b, cur_block |-> none, read_size |-> 0, prev_was_bits |-> q,
             field |-> next, finished |-> e]
      BY <2>5
    <2> QED BY <1>1, <1>12, <2>2, <2>4, <2>6
  <1>15. PICK h : h = gen'
    OBVIOUS
  <1>16. ~Dirty(k + 1) /\ k + 1 \in 1 .. Len(def) + 1
    BY <1>2, DirtyNext
  <1>17. IsGeneration(d, h)
    BY <1>2, <1>5, <1>9, <1>10, <1>14, <1>15, <1>16, StatementsDone
  <1> QED BY <1>15, <1>17, SameGeneration DEF Generation

\* One field more is gathered.
LEMMA GatheredIs ==
    ASSUME def \in Seq(Fields), WellFormed(def),
           NEW c, NEW g, IsGeneration(c, g), ~g.finished, NEW k, k = g.field,
           k \in 1 .. Len(def), IsStatic(def[k]),
           NEW d, NEW bs, Blocks(d, bs), d[Len(d)] = c[Len(c)],
           Dirty(d[Len(d)]) => EndsInReset(bs),
           NEW cur, cur = Append(g.cur_block, [field |-> k, at |-> g.read_size]),
           NEW n \in Nat, n = Size[def[k].type],
           NEW h, h = [blocks |-> bs, cur_block |-> cur, read_size |-> g.read_size + n,
                       prev_was_bits |-> FALSE, field |-> k + 1, finished |-> FALSE]
    PROVE  IsGeneration(d, h)
  <1>1. PICK slots \in Seq(Slots), size \in Nat, first \in Nat \ {0} :
           slots = g.cur_block /\ size = g.read_size /\ first = c[Len(c)]
    BY GenIs
  <1>2. k = first + Len(slots) /\ Consecutive(slots, first, size) /\ AreStatic(slots, first)
    BY <1>1 DEF IsGeneration
  <1>3. PICK m \in Nat : m = Len(slots)
    OBVIOUS
  <1>4. cur \in Seq(Slots) /\ Len(cur) = m + 1 /\ cur # <<>>
    <2>1. [field |-> k, at |-> size] \in Slots
      BY DEF Slots
    <2> QED BY <1>1, <1>3, <2>1
  <1>5. Consecutive(cur, first, size + n)
    <2>1. Consecutive(Append(slots, [field |-> k, at |-> size]), first, size + n)
      BY <1>2, SlotAdded
    <2> QED BY <1>1, <2>1
  <1>6. AreStatic(cur, first)
    <2>1. ASSUME NEW j \in 1 .. m + 1 PROVE IsStatic(def[first + j - 1])
      <3>1. CASE j = m + 1
        <4>1. first + j - 1 = k
          BY <1>2, <1>3, <3>1
        <4> QED BY <4>1
      <3>2. CASE j < m + 1
        <4>1. j \in 1 .. m
          BY <3>2
        <4> QED BY <1>2, <1>3, <4>1 DEF AreStatic
      <3> QED BY <3>1, <3>2
    <2> QED BY <1>4, <2>1 DEF AreStatic
  <1>7. ~Dirty(k + 1)
    BY DirtyNext DEF IsStatic
  <1>8. PICK size1 \in Nat, k1 \in Nat : size1 = g.read_size + n /\ k1 = k + 1
    BY <1>1
  <1>9. h = [blocks |-> bs, cur_block |-> cur, read_size |-> size1, prev_was_bits |-> FALSE,
             field |-> k1, finished |-> FALSE]
    BY <1>8
  <1>10. /\ h.blocks = bs /\ h.cur_block = cur /\ h.read_size = size1 /\ h.prev_was_bits = FALSE
         /\ h.field = k1 /\ h.finished = FALSE
    BY <1>9
  <1>11. h \in GenStates
    <2>1. bs \in Seq(Statements)
      BY DEF Blocks
    <2> QED BY <1>4, <1>8, <1>9, <2>1 DEF GenStates
  <1>12. k1 = first + Len(cur) /\ k1 \in 1 .. Len(def) + 1 /\ ~Dirty(k1)
    <2>1. k1 = first + (m + 1)
      BY <1>2, <1>3, <1>8
    <2> QED BY <1>4, <1>7, <1>8, <2>1
  <1>13. Consecutive(cur, d[Len(d)], size1) /\ AreStatic(cur, d[Len(d)]) /\ d[Len(d)] = first
    BY <1>1, <1>5, <1>6, <1>8
  <1> QED BY <1>4, <1>10, <1>11, <1>12, <1>13 DEF IsGeneration

\* A field of known size is gathered, after a reset if bit fields come before.
LEMMA StaticStep ==
    ASSUME def \in Seq(Fields), WellFormed(def), UNCHANGED def,
           NEW c, Generation(c), GenStatic
    PROVE  \E d : Generation(d)'
  <1>1. PICK g, k : g = gen /\ k = gen.field
    OBVIOUS
  <1>2. /\ IsGeneration(c, g) /\ k \in 1 .. Len(def) /\ ~g.finished /\ IsStatic(def[k])
        /\ k = g.field
    BY <1>1 DEF GenStatic, Generating, Generation, IsGeneration, GenField, IsStatic
  <1>3. PICK r, as :
           /\ r = [op |-> "reset", slots |-> <<>>, size |-> 0]
           /\ as = IF g.prev_was_bits THEN Append(g.blocks, r) ELSE g.blocks
    OBVIOUS
  <1>4. PICK d : Blocks(d, as) /\ d[Len(d)] = c[Len(c)] /\ (Dirty(d[Len(d)]) => EndsInReset(as))
    <2>1. CASE g.cur_block = <<>>
      <3>1. c[Len(c)] = k
        BY <1>2, <2>1, GenIs
      <3>2. PICK d : Blocks(d, as) /\ d[Len(d)] = k
        BY <1>2, <1>3, <2>1, ResetAdded
      <3>3. Dirty(k) => EndsInReset(as)
        BY <1>2, <1>3, <2>1, ResetAdded
      <3> QED BY <3>1, <3>2, <3>3
    <2>2. CASE g.cur_block # <<>>
      <3>1. ~g.prev_was_bits /\ Blocks(c, g.blocks) /\ (Dirty(c[Len(c)]) => EndsInReset(g.blocks))
        BY <1>2, <2>2 DEF IsGeneration
      <3> QED BY <1>3, <3>1
    <2> QED BY <2>1, <2>2
  <1>5. PICK n \in Nat : n = Size[def[k].type]
    BY <1>2, FieldType
  <1>6. PICK cur : cur = Append(g.cur_block, [field |-> k, at |-> g.read_size])
    OBVIOUS
  <1>7. g.blocks \o ResetIfBits = as
    <2>1. r \in Statements
      <3>1. PICK none : none = <<>>
        OBVIOUS
      <3>2. none \in Seq(Slots)
        BY <3>1
      <3> QED BY <1>3, <3>1, <3>2 DEF Statements
    <2>2. g.blocks \in Seq(Statements)
      BY <1>2, GenIs
    <2>3. ResetIfBits = IF g.prev_was_bits THEN <<r>> ELSE <<>>
      BY <1>1, <1>3 DEF ResetIfBits
    <2> QED BY <1>3, <2>1, <2>2, <2>3, Joined
  <1>8. gen' = [g EXCEPT !.blocks = as, !.prev_was_bits = FALSE, !.cur_block = cur,
                         !.read_size = @ + n, !.field = @ + 1]
    BY <1>1, <1>5, <1>7, <1>6 DEF GenStatic, GenField
  <1>9. g.finished = FALSE
    BY <1>2, GenIs
  <1>10. PICK h : h = gen'
    OBVIOUS
  <1>11. h = [blocks |-> as, cur_block |-> cur, read_size |-> g.read_size + n,
              prev_was_bits |-> FALSE, field |-> k + 1, finished |-> FALSE]
    <2>1. PICK b, old, size, prev, e, x :
             /\ g = [blocks |-> b, cur_block |-> old, read_size |-> size, prev_was_bits |-> prev,
                     field |-> k, finished |-> e]
             /\ x = g
      BY <1>2, GenIs
    <2>2. size = g.read_size /\ k = g.field
      BY <2>1
    <2>3. PICK y, q, size1, k1 : y = g /\ q = FALSE /\ size1 = size + n /\ k1 = k + 1
      OBVIOUS
    <2>4. y = [blocks |-> b, cur_block |-> old, read_size |-> size, prev_was_bits |-> prev,
               field |-> k, finished |-> e]
      BY <2>1, <2>3
    <2>5. h = [y EXCEPT !.blocks = as, !.prev_was_bits = q, !.cur_block = cur,
                        !.read_size = size1, !.field = k1]
      BY <1>2, <1>8, <1>10, <2>2, <2>3
    <2>6. h = [blocks |-> as, cur_block |-> cur, read_size |-> size1,
               prev_was_bits |-> q, field |-> k1, finished |-> e]
      BY <2>4, <2>5
    <2>7. e = FALSE
      BY <1>9, <2>1
    <2> QED BY <2>2, <2>3, <2>6, <2>7
  <1>12. IsGeneration(d, h)
    BY <1>2, <1>4, <1>5, <1>11, <1>6, GatheredIs
  <1> QED BY <1>10, <1>12, SameGeneration DEF Generation

\* The last fields make a block, if there are any.
LEMMA EndStep ==
    ASSUME def \in Seq(Fields), WellFormed(def), UNCHANGED def,
           NEW c, Generation(c), GenEnd
    PROVE  \E d : Generation(d)'
  <1>1. PICK g, k : g = gen /\ k = gen.field
    OBVIOUS
  <1>2. IsGeneration(c, g) /\ k = Len(def) + 1 /\ k = g.field /\ Len(def) \in Nat
    BY <1>1 DEF GenEnd, Generation
  <1>3. PICK s, bs :
           /\ s = [op |-> "block", slots |-> g.cur_block, size |-> g.read_size]
           /\ bs = IF g.cur_block = <<>> THEN g.blocks ELSE Append(g.blocks, s)
    OBVIOUS
  <1>4. s \in Statements /\ g.blocks \in Seq(Statements) /\ g.prev_was_bits \in BOOLEAN
    BY <1>2, <1>3, ClosedIs, GenIs
  <1>5. PICK d : Blocks(d, bs) /\ d[Len(d)] = k /\ ~EndsInReset(bs)
    <2>1. CASE g.cur_block = <<>>
      <3>1. Blocks(c, g.blocks)
        BY <1>2 DEF IsGeneration
      <3> QED BY <1>2, <1>3, <2>1, <3>1, GenIs
    <2>2. CASE g.cur_block # <<>>
      <3>1. PICK d : d = Append(c, g.field)
        OBVIOUS
      <3>2. Blocks(d, Append(g.blocks, s)) /\ ~EndsInReset(Append(g.blocks, s))
        BY <1>2, <1>3, <3>1, ClosedIs
      <3>3. d[Len(d)] = k
        <4>1. c \in Seq(Nat \ {0}) /\ k \in Nat \ {0}
          BY <1>2, GenIs
        <4> QED BY <1>2, <3>1, <4>1
      <3> QED BY <1>3, <2>2, <3>2, <3>3
    <2> QED BY <2>1, <2>2
  <1>6. gen' = [g EXCEPT !.blocks = bs, !.cur_block = <<>>, !.read_size = 0, !.finished = TRUE]
    <2>1. ClosedBlock = <<s>>
      BY <1>1, <1>3 DEF ClosedBlock
    <2>2. g.blocks \o <<s>> = Append(g.blocks, s)
      BY <1>4, Joined
    <2> QED BY <1>1, <1>3, <2>1, <2>2 DEF GenEnd
  <1>7. PICK h : h = gen'
    OBVIOUS
  <1>8. PICK p \in BOOLEAN, e \in BOOLEAN : p = g.prev_was_bits /\ e = TRUE
    BY <1>4
  <1>9. h = [blocks |-> bs, cur_block |-> <<>>, read_size |-> 0,
             prev_was_bits |-> p, field |-> k, finished |-> e]
    <2>1. PICK b, old, size, f :
             g = [blocks |-> b, cur_block |-> old, read_size |-> size, prev_was_bits |-> p,
                  field |-> k, finished |-> f]
      BY <1>2, <1>8, GenIs
    <2>2. PICK y, none, q : y = g /\ none = <<>> /\ q = TRUE
      OBVIOUS
    <2>3. y = [blocks |-> b, cur_block |-> old, read_size |-> size, prev_was_bits |-> p,
               field |-> k, finished |-> f]
      BY <2>1, <2>2
    <2>4. h = [y EXCEPT !.blocks = bs, !.cur_block = none, !.read_size = 0, !.finished = q]
      BY <1>6, <1>7, <2>2
    <2>5. h = [blocks |-> bs, cur_block |-> none, read_size |-> 0, prev_was_bits |-> p,
               field |-> k, finished |-> q]
      BY <2>3, <2>4
    <2> QED BY <1>8, <2>2, <2>5
  <1>10. Dirty(k) => p
    BY <1>2, <1>8 DEF IsGeneration
  <1>11. IsGeneration(d, h)
    <2>1. k \in 1 .. Len(def) + 1
      BY <1>2
    <2> QED BY <1>2, <1>5, <1>9, <1>10, <2>1, StatementsDone
  <1> QED BY <1>7, <1>11, SameGeneration DEF Generation

\* Whatever the field, the generator goes on as it should.
LEMMA GenerateStep ==
    ASSUME def \in Seq(Fields), WellFormed(def), UNCHANGED def,
           NEW c, Generation(c), Generate
    PROVE  \E d : Generation(d)'
  <1>1. CASE GenNested \/ GenBits
    BY <1>1, OneFieldStep
  <1>2. CASE GenStatic
    BY <1>2, StaticStep
  <1>3. CASE GenDynamic
    BY <1>3, OneFieldStep, DynamicStep
  <1>4. CASE GenEnd
    BY <1>4, EndStep
  <1> QED BY <1>1, <1>2, <1>3, <1>4 DEF Generate

\* Nothing is generated before the first field.
LEMMA GenerationInit ==
    ASSUME def \in Seq(Fields), CompiledInit
    PROVE  Generation(<<1>>)
  <1>1. PICK c, none, g : c = <<1>> /\ none = <<>> /\ g = gen
    OBVIOUS
  <1>2. c \in Seq(Nat \ {0}) /\ Len(c) = 1 /\ c[1] = 1
    BY <1>1
  <1>3. none \in Seq(Statements) /\ none \in Seq(Slots) /\ Len(none) = 0
    BY <1>1
  <1>4. Blocks(c, none) /\ ~EndsInReset(none)
    BY <1>2, <1>3 DEF Blocks, EndsInReset
  <1>5. ~Dirty(1)
    BY DEF Dirty
  <1>6. PICK p \in BOOLEAN : p = FALSE
    OBVIOUS
  <1>7. g = [blocks |-> none, cur_block |-> <<>>, read_size |-> 0, prev_was_bits |-> p,
             field |-> 1, finished |-> p]
    BY <1>1, <1>6 DEF CompiledInit
  <1>8. 1 \in 1 .. Len(def) + 1
    OBVIOUS
  <1>9. IsGeneration(c, g)
    BY <1>2, <1>4, <1>5, <1>6, <1>7, <1>8, StatementsDone
  <1> QED BY <1>1, <1>9 DEF Generation

-----------------------------------------------------------------------------
(* Type correctness of the generated reader *)

\* A statement, and the first of its fields
LEMMA StatementAt ==
    ASSUME NEW c, NEW g, IsGeneration(c, g), NEW i \in 1 .. Len(g.blocks),
           NEW s, s = g.blocks[i], NEW k, k = c[i]
    PROVE  /\ s \in Statements /\ IsStatement(s, k) /\ k \in Nat \ {0}
           /\ c[i + 1] = k + Len(s.slots)
           /\ s.slots \in Seq(Slots) /\ Len(s.slots) \in Nat /\ s.size \in Nat
           /\ s.op \in {"block", "bits", "reset", "nested", "dynamic"}
           /\ s.op = "reset" /\ i < Len(g.blocks) => ReadsPlain(g.blocks[i + 1])
           /\ ReadsPlain(s) /\ Dirty(k) => i > 1 /\ g.blocks[i - 1].op = "reset"
  <1>1. Blocks(c, g.blocks)
    BY DEF IsGeneration
  <1>2. PICK bs : bs = g.blocks
    OBVIOUS
  <1>3. bs \in Seq(Statements) /\ c \in Seq(Nat \ {0}) /\ Len(c) = Len(bs) + 1
    BY <1>1, <1>2 DEF Blocks
  <1>4. s \in Statements /\ k \in Nat \ {0}
    BY <1>2, <1>3
  <1>5. /\ s.slots \in Seq(Slots) /\ Len(s.slots) \in Nat /\ s.size \in Nat
        /\ s.op \in {"block", "bits", "reset", "nested", "dynamic"}
    BY <1>4 DEF Statements
  <1>6. /\ c[i + 1] = c[i] + Len(bs[i].slots)
        /\ IsStatement(bs[i], c[i])
        /\ bs[i].op = "reset" /\ i < Len(bs) => ReadsPlain(bs[i + 1])
        /\ ReadsPlain(bs[i]) /\ Dirty(c[i]) => i > 1 /\ bs[i - 1].op = "reset"
    BY <1>1, <1>2 DEF Blocks
  <1> QED BY <1>2, <1>4, <1>5, <1>6

\* A slot, and its field
LEMMA SlotAt ==
    ASSUME def \in Seq(Fields), WellFormed(def),
           NEW slots \in Seq(Slots), NEW first \in Nat \ {0}, NEW size \in Nat,
           Consecutive(slots, first, size), NEW j \in 1 .. Len(slots),
           NEW k, k = first + j - 1, NEW z, z = Size[def[k].type]
    PROVE  /\ k \in 1 .. Len(def) /\ z \in Nat
           /\ slots[j].field = k /\ slots[j].at \in Nat
           /\ slots[j].at + z <= size
           /\ j = 1 => slots[j].at = 0
           /\ j < Len(slots) => slots[j + 1].at = slots[j].at + z
           /\ j = Len(slots) => size = slots[j].at + z
  <1>1. slots[j] \in Slots
    OBVIOUS
  <1>2. slots[j].at \in Nat
    BY <1>1 DEF Slots
  <1>3. k \in 1 .. Len(def)
    BY DEF Consecutive
  <1>4. z \in Nat
    BY <1>3, FieldType
  <1> QED BY <1>2, <1>3, <1>4 DEF Consecutive

\* The bytes of field k, at some distance from where the statement starts
Cut(k, a) == Available(stream, cpos + a, Size[def[k].type])

\* The value of a slot is that of the bytes of its field.
IsSlotOf(slot, k) ==
    /\ k \in 1 .. Len(def)
    /\ Size[def[k].type] \in Nat
    /\ slot.field = k
    /\ slot.at \in Nat
    /\ SlotValue(slot) = Value(Cut(k, slot.at), def[k].type)
    /\ SlotValue(slot) \in Values
    /\ Len(Cut(k, slot.at)) = Size[def[k].type]

LEMMA SlotValueIs ==
    ASSUME def \in Seq(Fields), WellFormed(def), stream \in Seq(Bytes), cpos \in Nat,
           Stmt.slots \in Seq(Slots), Stmt.size \in Nat, NEW first \in Nat \ {0},
           Consecutive(Stmt.slots, first, Stmt.size), Len(StmtBytes) = Stmt.size,
           NEW j \in 1 .. Len(Stmt.slots)
    PROVE  IsSlotOf(Stmt.slots[j], first + j - 1)
  <1>1. PICK s : s = Stmt
    OBVIOUS
  <1>2. PICK k, z, a : k = first + j - 1 /\ z = Size[def[k].type] /\ a = s.slots[j].at
    OBVIOUS
  <1>3. PICK slots : slots = s.slots
    OBVIOUS
  <1>4. PICK size \in Nat, p \in Nat : slots = s.slots /\ size = s.size /\ p = cpos
    BY <1>3, <1>1
  <1>5. slots \in Seq(Slots) /\ Consecutive(slots, first, size) /\ j \in 1 .. Len(slots)
    BY <1>4, <1>1
  <1>6. /\ k \in 1 .. Len(def) /\ z \in Nat
        /\ slots[j].field = k /\ slots[j].at \in Nat
        /\ slots[j].at + z <= size
    BY <1>2, <1>5, SlotAt
  <1>7. a \in Nat /\ a + z <= size
    BY <1>4, <1>6, <1>2
  <1>8. StmtBytes = Available(stream, p, size)
    BY <1>4, <1>1 DEF StmtBytes
  <1>9. Len(Available(stream, p, size)) = size
    BY <1>4, <1>8, <1>1
  <1>10. /\ SubSeq(Available(stream, p, size), a + 1, a + z) = Available(stream, p + a, z)
         /\ Len(Available(stream, p + a, z)) = z
    <2>1. PICK b \in Nat, m \in Nat, r \in Seq(Bytes) : b = a /\ m = z /\ r = stream
      BY <1>6, <1>7
    <2>2. Within(r, p, size, b, m)
      BY <1>7, <1>9, <2>1 DEF Within
    <2>3. /\ Part(Available(r, p, size), b, m) = Available(r, p + b, m)
          /\ Len(Available(r, p + b, m)) = m
      BY <2>2, PartOfBytes
    <2> QED BY <2>1, <2>3 DEF Part
  <1>11. SlotValue(s.slots[j]) = Value(Available(stream, p + a, z), def[k].type)
    BY <1>4, <1>6, <1>8, <1>10, <1>2 DEF SlotValue
  <1>12. Value(Available(stream, p + a, z), def[k].type) \in Values
    <2>1. p + a \in Nat
      BY <1>7
    <2>2. Available(stream, p + a, z) \in Seq(Bytes)
      BY <1>6, <2>1, AllBytes
    <2> QED BY <2>2, DecodeNumber DEF Value, Values
  <1>13. Cut(k, a) = Available(stream, p + a, z)
    BY <1>4, <1>2 DEF Cut
  <1> QED BY <1>4, <1>6, <1>7, <1>10, <1>11, <1>12, <1>1, <1>2, <1>13 DEF IsSlotOf

\* The statement to run, and the first of its fields
LEMMA ToRun ==
    ASSUME ReadTypeOK, CompiledTypeOK, NEW c, Generation(c), Running,
           NEW s, s = Stmt, NEW k, k = c[ip]
    PROVE  /\ def \in Seq(Fields) /\ WellFormed(def) /\ stream \in Seq(Bytes) /\ cpos \in Nat
           /\ ip \in 1 .. Len(gen.blocks) /\ Len(gen.blocks) \in Nat
           /\ s \in Statements /\ IsStatement(s, k) /\ k \in Nat \ {0}
           /\ c[ip + 1] = k + Len(s.slots)
           /\ s.slots \in Seq(Slots) /\ Len(s.slots) \in Nat /\ s.size \in Nat
           /\ Consecutive(s.slots, k, s.size)
           /\ s.op \in {"block", "bits", "reset", "nested", "dynamic"}
           /\ s.op = "reset" /\ ip < Len(gen.blocks) => ReadsPlain(gen.blocks[ip + 1])
           /\ ReadsPlain(s) /\ Dirty(k) => WasReset
           /\ StmtBytes \in Seq(Bytes) /\ Len(StmtBytes) \in Nat
  <1>1. def \in Seq(Fields) /\ WellFormed(def) /\ stream \in Seq(Bytes) /\ cpos \in Nat
    BY DEF ReadTypeOK, LayoutTypeOK, CompiledTypeOK
  <1>2. PICK g, i : g = gen /\ i = ip
    OBVIOUS
  <1>3. i \in 1 .. Len(g.blocks) /\ Len(g.blocks) \in Nat
    <2>1. g.blocks \in Seq(Statements)
      BY <1>2 DEF CompiledTypeOK, GenStates
    <2> QED BY <1>2, <2>1 DEF Running, CompiledTypeOK
  <1>4. IsGeneration(c, g) /\ s = g.blocks[i] /\ k = c[i]
    BY <1>2 DEF Generation, Stmt
  <1>5. /\ s \in Statements /\ IsStatement(s, k) /\ k \in Nat \ {0}
        /\ c[i + 1] = k + Len(s.slots)
        /\ s.slots \in Seq(Slots) /\ Len(s.slots) \in Nat /\ s.size \in Nat
        /\ s.op \in {"block", "bits", "reset", "nested", "dynamic"}
        /\ s.op = "reset" /\ i < Len(g.blocks) => ReadsPlain(g.blocks[i + 1])
        /\ ReadsPlain(s) /\ Dirty(k) => i > 1 /\ g.blocks[i - 1].op = "reset"
    BY <1>3, <1>4, StatementAt
  <1>6. Consecutive(s.slots, k, s.size)
    BY <1>5 DEF IsStatement
  <1>7. PICK p \in Nat, n \in Nat, b \in Seq(Bytes) : p = cpos /\ n = s.size /\ b = stream
    BY <1>1, <1>5
  <1>8. StmtBytes = Available(b, p, n)
    BY <1>7 DEF StmtBytes
  <1>9. Available(b, p, n) \in Seq(Bytes) /\ Len(Available(b, p, n)) \in Nat
    BY AllBytes
  <1> QED BY <1>1, <1>2, <1>3, <1>5, <1>6, <1>8, <1>9 DEF WasReset

\* A statement that reads a bit field
LEMMA BitsToRun ==
    ASSUME ReadTypeOK, CompiledTypeOK, NEW c, Generation(c), Running, Stmt.op = "bits",
           NEW k, k = c[ip]
    PROVE  /\ k \in 1 .. Len(def) /\ Stmt.slots[1].field = k
           /\ IsBits(def[k]) /\ def[k].type \in Integer /\ def[k].bits \in Nat
           /\ Stmt.size = Size[def[k].type] /\ c[ip + 1] = k + 1
  <1>1. PICK s : s = Stmt
    OBVIOUS
  <1>2. /\ def \in Seq(Fields) /\ WellFormed(def)
        /\ IsStatement(s, k) /\ k \in Nat \ {0}
        /\ c[ip + 1] = k + Len(s.slots)
        /\ s.slots \in Seq(Slots) /\ s.size \in Nat
        /\ Consecutive(s.slots, k, s.size)
    BY <1>1, ToRun
  <1>3. Len(s.slots) = 1 /\ IsBits(def[k])
    BY <1>1, <1>2 DEF IsStatement
  <1>4. PICK slots \in Seq(Slots) : slots = s.slots
    BY <1>2
  <1>5. Len(slots) = 1
    BY <1>3, <1>4
  <1>6. 1 \in 1 .. Len(slots)
    BY <1>5
  <1>7. PICK size \in Nat, j \in 1 .. Len(slots) : size = s.size /\ j = 1
    BY <1>2, <1>6
  <1>8. k = k + j - 1
    BY <1>2, <1>7
  <1>9. PICK z : z = Size[def[k].type]
    OBVIOUS
  <1>10. Consecutive(slots, k, size)
    BY <1>2, <1>4, <1>7
  <1>11. /\ k \in 1 .. Len(def) /\ z \in Nat
         /\ slots[j].field = k /\ slots[j].at \in Nat
         /\ j = 1 => slots[j].at = 0
         /\ j = Len(slots) => size = slots[j].at + z
    BY <1>2, <1>8, <1>9, <1>10, SlotAt
  <1>12. size = z
    <2>1. slots[j].at = 0 /\ size = slots[j].at + z
      BY <1>3, <1>4, <1>7, <1>11
    <2> QED BY <1>11, <2>1
  <1>13. def[k].type \in Integer /\ def[k].bits \in Nat
    BY <1>2, <1>3, <1>11, FieldType
  <1> QED BY <1>1, <1>2, <1>3, <1>4, <1>7, <1>9, <1>11, <1>12, <1>13

\* What the slots of a statement give
LEMMA SlotsGive ==
    ASSUME ReadTypeOK, CompiledTypeOK, NEW c, Generation(c), Running, Len(StmtBytes) = Stmt.size,
           NEW s, s = Stmt, NEW n, n = Len(s.slots)
    PROVE  /\ SlotValues \in Seq(Values) /\ Len(SlotValues) = n
           /\ SlotSizes \in Seq(Nat) /\ Len(SlotSizes) = n
           /\ \A j \in 1 .. n : /\ SlotValues[j] = SlotValue(s.slots[j])
                                /\ SlotSizes[j] = Size[def[s.slots[j].field].type]
  <1>1. PICK k : k = c[ip]
    OBVIOUS
  <1>2. /\ def \in Seq(Fields) /\ WellFormed(def) /\ stream \in Seq(Bytes) /\ cpos \in Nat
        /\ k \in Nat \ {0} /\ Consecutive(s.slots, k, s.size)
        /\ s.slots \in Seq(Slots) /\ n \in Nat /\ s.size \in Nat
    BY <1>1, ToRun
  <1>3. ASSUME NEW j \in 1 .. n
        PROVE  /\ SlotValue(s.slots[j]) \in Values
               /\ Size[def[s.slots[j].field].type] \in Nat
    <2>1. IsSlotOf(Stmt.slots[j], k + j - 1)
      BY <1>2, SlotValueIs
    <2> QED BY <2>1 DEF IsSlotOf
  <1>4. DOMAIN s.slots = 1 .. n
    BY <1>2
  <1>5. SlotValues = [j \in 1 .. n |-> SlotValue(s.slots[j])]
    BY <1>4 DEF SlotValues
  <1>6. SlotSizes = [j \in 1 .. n |-> Size[def[s.slots[j].field].type]]
    BY <1>4 DEF SlotSizes
  <1>7. PICK v, z : v = SlotValues /\ z = SlotSizes
    OBVIOUS
  <1>8. PICK m \in Nat : m = n /\ v = SlotValues /\ z = SlotSizes
    BY <1>2, <1>7
  <1>9. v \in [1 .. m -> Values] /\ z \in [1 .. m -> Nat]
    BY <1>3, <1>5, <1>6, <1>8
  <1>10. v \in Seq(Values) /\ Len(v) = m /\ z \in Seq(Nat) /\ Len(z) = m
    BY <1>9
  <1> QED BY <1>5, <1>6, <1>8, <1>10

LEMMA RunTypes ==
    ASSUME ReadTypeOK, CompiledTypeOK, NEW c, Generation(c), Run, UNCHANGED readVars
    PROVE  CompiledTypeOK'
  <1>1. UNCHANGED <<gen, def>>
    BY DEF Run, RunBytes, RunReset, RunBits, RunShort, RunBitsBeyondUnit, RunEnd, readVars
  <1>2. /\ cpos \in Nat /\ cbb \in BitBuffers /\ cvals \in Seq(Values)
        /\ csizes \in Seq(Nat \cup {None}) /\ Len(cvals) = Len(csizes) /\ coutcome \in COutcomes
        /\ ip \in 1 .. Len(gen.blocks) + 1
    BY DEF CompiledTypeOK
  <1>3. SUFFICES /\ cpos' \in Nat /\ cbb' \in BitBuffers /\ cvals' \in Seq(Values)
                 /\ csizes' \in Seq(Nat \cup {None}) /\ Len(cvals') = Len(csizes')
                 /\ coutcome' \in COutcomes
                 /\ ip' \in 1 .. Len(gen.blocks) + 1
    BY <1>1 DEF CompiledTypeOK
  <1>4. ASSUME Running
        PROVE  /\ StmtBytes \in Seq(Bytes) /\ Len(StmtBytes) \in Nat /\ Stmt.size \in Nat
               /\ ip + 1 \in 1 .. Len(gen.blocks) + 1
    <2>1. PICK s, k : s = Stmt /\ k = c[ip]
      OBVIOUS
    <2>2. /\ StmtBytes \in Seq(Bytes) /\ Len(StmtBytes) \in Nat /\ s.size \in Nat
          /\ ip \in 1 .. Len(gen.blocks) /\ Len(gen.blocks) \in Nat
      BY <1>4, <2>1, ToRun
    <2> QED BY <2>1, <2>2
  <1>5. CASE RunBytes
    <2>1. /\ Running /\ Len(StmtBytes) = Stmt.size
          /\ cvals' = cvals \o SlotValues /\ csizes' = csizes \o SlotSizes
          /\ cpos' = cpos + Stmt.size /\ ip' = ip + 1 /\ UNCHANGED <<cbb, coutcome>>
      BY <1>5 DEF RunBytes
    <2>2. PICK s, n : s = Stmt /\ n = Len(s.slots)
      OBVIOUS
    <2>3. /\ SlotValues \in Seq(Values) /\ Len(SlotValues) = n
          /\ SlotSizes \in Seq(Nat) /\ Len(SlotSizes) = n
      BY <2>1, <2>2, SlotsGive
    <2>4. SlotSizes \in Seq(Nat \cup {None})
      BY <2>3
    <2>5. cvals' \in Seq(Values) /\ Len(cvals') = Len(cvals) + n
      BY <1>2, <2>1, <2>3
    <2>6. csizes' \in Seq(Nat \cup {None}) /\ Len(csizes') = Len(csizes) + n
      BY <1>2, <2>1, <2>3, <2>4
    <2> QED BY <1>2, <1>4, <2>1, <2>5, <2>6
  <1>6. CASE RunReset
    BY <1>2, <1>4, <1>6, BufferOperators DEF RunReset
  <1>7. ASSUME Running, Stmt.op = "bits",
               NEW f, f = def[Stmt.slots[1].field], NEW unit,
               unit = IF NeedsUnit(cbb, f.type) THEN Loaded(f.type, StmtBytes) ELSE cbb
        PROVE  /\ unit \in BitBuffers /\ f.bits \in Nat
               /\ CanTake(unit, f.bits) =>
                     Taken(unit, f.bits) \in Values /\ AfterTake(unit, f.bits) \in BitBuffers
               /\ (IF NeedsUnit(cbb, f.type) THEN cpos + Len(StmtBytes) ELSE cpos) \in Nat
    <2>1. PICK k : k = c[ip]
      OBVIOUS
    <2>2. Stmt.slots[1].field = k /\ def[k].type \in Integer /\ def[k].bits \in Nat
      BY <1>7, <2>1, BitsToRun
    <2>3. f.type \in Integer /\ f.bits \in Nat
      BY <1>7, <2>2
    <2>4. unit \in BitBuffers
      BY <1>2, <1>4, <1>7, <2>3, BufferOperators
    <2> QED BY <1>2, <1>4, <1>7, <2>3, <2>4, BufferOperators DEF Values
  <1>8. CASE RunBits
    <2>1. PICK f, unit :
             /\ f = def[Stmt.slots[1].field]
             /\ unit = IF NeedsUnit(cbb, f.type) THEN Loaded(f.type, StmtBytes) ELSE cbb
      OBVIOUS
    <2>2. /\ Running /\ Stmt.op = "bits" /\ CanTake(unit, f.bits)
          /\ cvals' = Append(cvals, Taken(unit, f.bits))
          /\ cbb' = AfterTake(unit, f.bits)
          /\ cpos' = IF NeedsUnit(cbb, f.type) THEN cpos + Len(StmtBytes) ELSE cpos
          /\ csizes' = Append(csizes, None) /\ ip' = ip + 1 /\ UNCHANGED coutcome
      BY <1>8, <2>1 DEF RunBits
    <2>3. Taken(unit, f.bits) \in Values /\ cbb' \in BitBuffers /\ cpos' \in Nat
      BY <1>7, <2>1, <2>2
    <2>4. cvals' \in Seq(Values) /\ Len(cvals') = Len(cvals) + 1
      BY <1>2, <2>2, <2>3
    <2>5. csizes' \in Seq(Nat \cup {None}) /\ Len(csizes') = Len(csizes) + 1
      BY <1>2, <2>2
    <2> QED BY <1>2, <1>4, <2>2, <2>3, <2>4, <2>5
  <1>9. CASE RunShort
    BY <1>2, <1>4, <1>9 DEF RunShort, COutcomes
  <1>10. CASE RunBitsBeyondUnit
    <2>1. PICK f, unit :
             /\ f = def[Stmt.slots[1].field]
             /\ unit = IF NeedsUnit(cbb, f.type) THEN Loaded(f.type, StmtBytes) ELSE cbb
      OBVIOUS
    <2>2. /\ Running /\ Stmt.op = "bits" /\ cbb' = unit
          /\ cpos' = IF NeedsUnit(cbb, f.type) THEN cpos + Len(StmtBytes) ELSE cpos
          /\ coutcome' = "ValueError" /\ UNCHANGED <<ip, cvals, csizes>>
      BY <1>10, <2>1 DEF RunBitsBeyondUnit
    <2>3. cbb' \in BitBuffers /\ cpos' \in Nat
      BY <1>7, <2>1, <2>2
    <2> QED BY <1>2, <2>2, <2>3 DEF COutcomes
  <1>11. CASE RunEnd
    BY <1>2, <1>11 DEF RunEnd, COutcomes
  <1> QED BY <1>5, <1>6, <1>8, <1>9, <1>10, <1>11 DEF Run

LEMMA GenerateTypes ==
    ASSUME ReadTypeOK, CompiledTypeOK, UNCHANGED readVars, ip = 1, NEW d, Generation(d)',
           UNCHANGED <<ip, cpos, cbb, cvals, csizes, coutcome>>
    PROVE  CompiledTypeOK'
  <1>1. PICK g : g = gen'
    OBVIOUS
  <1>2. UNCHANGED def
    BY DEF readVars
  <1>3. IsGeneration(d, g)
    BY <1>1, <1>2, SameGeneration DEF Generation
  <1>4. g \in GenStates /\ g.field \in 1 .. Len(def) + 1 /\ (g.finished => g.cur_block = <<>>)
        /\ g.blocks \in Seq(Statements)
    BY <1>3 DEF IsGeneration, Blocks
  <1>5. ip' \in 1 .. Len(g.blocks) + 1
    BY <1>4
  <1> QED BY <1>1, <1>2, <1>4, <1>5 DEF CompiledTypeOK

LEMMA CompiledInitTypes ==
    ASSUME def \in Seq(Fields), start \in Nat, CompiledInit
    PROVE  CompiledTypeOK
  <1>1. PICK c, g : c = <<1>> /\ g = gen
    OBVIOUS
  <1>2. IsGeneration(c, g)
    BY <1>1, GenerationInit DEF Generation
  <1>3. g \in GenStates /\ g.field \in 1 .. Len(def) + 1 /\ (g.finished => g.cur_block = <<>>)
        /\ g.blocks \in Seq(Statements)
    BY <1>2 DEF IsGeneration, Blocks
  <1>4. 1 \in 1 .. Len(g.blocks) + 1
    BY <1>3
  <1>5. /\ ip = 1 /\ cpos = start /\ cbb = Empty /\ cvals = <<>> /\ csizes = <<>>
        /\ coutcome = "reading"
    BY DEF CompiledInit
  <1>6. cvals \in Seq(Values) /\ csizes \in Seq(Nat \cup {None}) /\ Len(cvals) = Len(csizes)
    BY <1>5
  <1> QED BY <1>1, <1>3, <1>4, <1>5, <1>6, BufferOperators DEF CompiledTypeOK, COutcomes

-----------------------------------------------------------------------------
(* The generated reader follows the interpreted one *)

\* A state of the interpreted reader, and what follows
LEMMA TraceAt ==
    ASSUME ReadTypeOK, NEW tr, Trace(tr), NEW k \in 1 .. Len(tr)
    PROVE  /\ tr \in Seq(States) /\ Len(tr) = Len(vals) + 1 /\ Len(tr) \in 1 .. Len(def) + 1
           /\ tr[k] \in States /\ tr[k].pos \in Nat
           /\ k < Len(tr) => IsRead(tr[k], k) /\ tr[k + 1] = Past(tr[k], def[k])
           /\ k = 1 \/ ~IsBits(def[k - 1]) => tr[k].bb = Empty
  <1>1. tr \in Seq(States) /\ Len(tr) = Len(vals) + 1 /\ Len(vals) \in 0 .. Len(def)
        /\ vals \in Seq(Values) /\ def \in Seq(Fields)
    BY DEF Trace, ReadTypeOK, LayoutTypeOK
  <1>2. tr[k] \in States
    BY <1>1
  <1>3. tr[k].pos \in Nat
    BY <1>2 DEF States
  <1>4. ASSUME NEW i \in 1 .. Len(vals)
        PROVE  IsRead(tr[i], i) /\ tr[i + 1] = Past(tr[i], def[i])
    BY DEF Trace
  <1>5. k = 1 => tr[k].bb = Empty
    BY DEF Trace
  <1>6. ASSUME k > 1, ~IsBits(def[k - 1]) PROVE tr[k].bb = Empty
    <2>1. k - 1 \in 1 .. Len(vals)
      BY <1>1, <1>6
    <2>2. PICK i \in 1 .. Len(vals) : i = k - 1
      BY <2>1
    <2>3. i + 1 = k
      BY <2>2
    <2>4. tr[k] = Past(tr[i], def[i])
      BY <1>4, <2>3
    <2> QED BY <1>6, <2>2, <2>4 DEF Past
  <1>7. k < Len(tr) => k \in 1 .. Len(vals)
    BY <1>1
  <1> QED BY <1>1, <1>2, <1>3, <1>4, <1>5, <1>6, <1>7

(***************************************************************************)
(* When the interpreted reader has ended, it has read a field that does    *)
(* not fail.                                                               *)
(***************************************************************************)
LEMMA WasRead ==
    ASSUME ReadTypeOK, NEW tr, Trace(tr), outcome # "reading",
           NEW k \in 1 .. Len(tr), k \in 1 .. Len(def), NEW s, s = tr[k]
    PROVE  /\ ~Fails(s, def[k]) => k < Len(tr)
           /\ Fails(s, def[k]) => outcome = "EOFError"
           /\ outcome = "done" => k < Len(tr)
  <1>1. /\ Len(tr) = Len(vals) + 1 /\ Len(tr) \in 1 .. Len(def) + 1 /\ Len(vals) \in Nat
        /\ def \in Seq(Fields)
        /\ k < Len(tr) => IsRead(s, k)
    BY TraceAt DEF ReadTypeOK, LayoutTypeOK
  <1>2. outcome \in {"done", "EOFError"}
    BY DEF Trace, ReadTypeOK, Outcomes
  <1>3. outcome = "done" => k < Len(tr)
    BY <1>1 DEF Trace
  <1>4. outcome = "EOFError" /\ k = Len(tr) => Fails(s, def[k])
    BY DEF Trace
  <1>5. k < Len(tr) => ~Fails(s, def[k])
    BY <1>1 DEF IsRead
  <1> QED BY <1>1, <1>2, <1>3, <1>4, <1>5

\* A plain field that a statement finds whole is the one that was read.
LEMMA FieldFollows ==
    ASSUME ReadTypeOK, CompiledTypeOK, NEW tr, Trace(tr), outcome # "reading",
           NEW f \in 1 .. Len(tr), f \in 1 .. Len(def), ~IsBits(def[f]),
           NEW a \in Nat, tr[f].pos = cpos + a, Len(Cut(f, a)) = Size[def[f].type]
    PROVE  /\ f < Len(tr) /\ f + 1 \in 1 .. Len(tr)
           /\ vals[f] = Value(Cut(f, a), def[f].type)
           /\ sizes[f] = Size[def[f].type]
           /\ tr[f + 1].pos = cpos + a + Size[def[f].type]
  <1>1. PICK s : s = tr[f]
    OBVIOUS
  <1>2. FieldBytes(s, def[f]) = Cut(f, a)
    BY <1>1 DEF FieldBytes, Cut
  <1>3. ~Fails(s, def[f])
    BY <1>2 DEF Fails, Accepts
  <1>4. f < Len(tr)
    BY <1>1, <1>3, WasRead
  <1>5. IsRead(s, f) /\ tr[f + 1] = Past(s, def[f]) /\ Len(tr) \in Nat
    BY <1>1, <1>4, TraceAt
  <1>6. vals[f] = ValueOf(s, def[f]) /\ sizes[f] = SizeOf(s, def[f])
    BY <1>5 DEF IsRead
  <1>7. vals[f] = Value(Cut(f, a), def[f].type) /\ sizes[f] = Size[def[f].type]
    BY <1>2, <1>6 DEF ValueOf, SizeOf
  <1>8. tr[f + 1].pos = s.pos + Size[def[f].type]
    BY <1>2, <1>5 DEF Past, Takes
  <1> QED BY <1>1, <1>4, <1>5, <1>7, <1>8

\* The fields of a statement that reads bytes are no bit fields.
LEMMA SlotsArePlain ==
    ASSUME def \in Seq(Fields), WellFormed(def), NEW s, NEW k \in Nat \ {0}, IsStatement(s, k),
           s.op \in {"block", "nested", "dynamic"}, NEW j \in 1 .. Len(s.slots),
           k + j - 1 \in 1 .. Len(def)
    PROVE  ~IsBits(def[k + j - 1])
  <1>1. CASE s.op = "block"
    BY <1>1 DEF IsStatement, AreStatic, IsStatic
  <1>2. CASE s.op \in {"nested", "dynamic"}
    <2>4. Len(s.slots) = 1 /\ (def[k].type \in Nested \/ def[k].type \in Dynamic \ Nested)
      <3>1. /\ s.op \in {"bits", "nested", "dynamic"} => Len(s.slots) = 1
            /\ s.op = "nested" => def[k].type \in Nested
            /\ s.op = "dynamic" => def[k].type \in Dynamic \ Nested
        BY DEF IsStatement
      <3> QED BY <1>2, <3>1
    <2>1. j = 1 /\ (def[k].type \in Nested \/ def[k].type \in Dynamic \ Nested)
      BY <2>4
    <2>2. k + j - 1 = k
      BY <2>1
    <2>3. k \in 1 .. Len(def)
      BY <2>2
    <2> QED BY <2>1, <2>2, <2>3, DirtyNext
  <1> QED BY <1>1, <1>2

\* After a reset, plain fields are read.
LEMMA AfterReset ==
    ASSUME ReadTypeOK, CompiledTypeOK, NEW c, Generation(c), Running, WasReset
    PROVE  ReadsPlain(Stmt)
  <1>1. PICK g : g = gen
    OBVIOUS
  <1>2. g.blocks \in Seq(Statements)
    BY <1>1 DEF CompiledTypeOK, GenStates
  <1>3. ip \in 1 .. Len(g.blocks) /\ ip > 1 /\ Len(g.blocks) \in Nat
    BY <1>1, <1>2 DEF Running, CompiledTypeOK, WasReset
  <1>4. PICK i \in 1 .. Len(g.blocks) : i = ip - 1
    BY <1>3
  <1>5. PICK s, k : s = g.blocks[i] /\ k = c[i]
    OBVIOUS
  <1>6. i < Len(g.blocks) /\ i + 1 = ip
    BY <1>3, <1>4
  <1>7. IsGeneration(c, g) /\ s.op = "reset"
    BY <1>1, <1>4, <1>5 DEF Generation, WasReset
  <1>8. s.op = "reset" /\ i < Len(g.blocks) => ReadsPlain(g.blocks[i + 1])
    BY <1>5, <1>7, StatementAt
  <1> QED BY <1>1, <1>6, <1>7, <1>8 DEF Stmt

\* What Follows asks after a step of the generated reader
LEMMA FollowsNext ==
    ASSUME UNCHANGED <<readVars, gen>>, NEW tr, NEW c, NEW k, k = c[ip'], k \in 1 .. Len(tr),
           Len(cvals') = k - 1, Len(csizes') = k - 1,
           \A i \in 1 .. k - 1 : cvals'[i] = vals[i] /\ csizes'[i] = sizes[i],
           NEW reset, reset = (ip' > 1 /\ gen.blocks[ip' - 1].op = "reset"),
           coutcome' \in {"reading", "done"} =>
              /\ cpos' = tr[k].pos
              /\ ~Dirty(k) \/ reset => cbb' = Empty
              /\ k > 1 /\ IsBits(def[k - 1]) /\ ~reset => cbb' = tr[k].bb,
           coutcome' = "done" => k = Len(def) + 1,
           coutcome' = "EOFError" => outcome = "EOFError" \/ ReadLeniently,
           coutcome' # "ValueError"
    PROVE  Follows(tr, c)'
  <1>1. UNCHANGED <<def, vals, sizes, outcome>>
    BY DEF readVars
  <1>2. Dirty(k)' <=> Dirty(k)
    BY <1>1 DEF Dirty
  <1>3. WasReset' <=> reset
    BY DEF WasReset
  <1>4. ReadLeniently' <=> ReadLeniently
    BY <1>1 DEF ReadLeniently
  <1> QED BY <1>1, <1>2, <1>3, <1>4 DEF Follows

\* The fields of a statement that finds its bytes have been read from them.
LEMMA BlockFollows ==
    ASSUME ReadTypeOK, CompiledTypeOK, NEW c, Generation(c), NEW tr, Trace(tr),
           outcome # "reading", Running, Stmt.op \in {"block", "nested", "dynamic"},
           Len(StmtBytes) = Stmt.size, NEW k, k = c[ip], k \in 1 .. Len(tr), tr[k].pos = cpos,
           NEW n, n = Len(Stmt.slots)
    PROVE  /\ k + n \in 1 .. Len(tr)
           /\ tr[k + n].pos = cpos + Stmt.size
           /\ \A j \in 1 .. n : /\ vals[k + j - 1] = SlotValues[j]
                                /\ sizes[k + j - 1] = SlotSizes[j]
           /\ n > 0 => ~IsBits(def[k + n - 1])
  <1>1. PICK s, slots : s = Stmt /\ slots = s.slots
    OBVIOUS
  <1>2. /\ def \in Seq(Fields) /\ WellFormed(def) /\ stream \in Seq(Bytes) /\ cpos \in Nat
        /\ IsStatement(s, k) /\ k \in Nat \ {0} /\ n \in Nat /\ s.size \in Nat
        /\ slots \in Seq(Slots) /\ Consecutive(slots, k, s.size)
    BY <1>1, ToRun
  <1>3. Len(tr) \in Nat
    BY TraceAt
  <1> DEFINE P(j) == k + j - 1 \in 1 .. Len(tr) /\ tr[k + j - 1].pos = cpos + slots[j].at
  <1>4. ASSUME NEW j \in 1 .. n
        PROVE  /\ k + j - 1 \in 1 .. Len(def) /\ ~IsBits(def[k + j - 1])
               /\ slots[j].at \in Nat
               /\ j = 1 => slots[j].at = 0
               /\ j < n => slots[j + 1].at = slots[j].at + Size[def[k + j - 1].type]
               /\ j = n => s.size = slots[j].at + Size[def[k + j - 1].type]
               /\ IsSlotOf(slots[j], k + j - 1)
    <2>1. IsSlotOf(slots[j], k + j - 1)
      BY <1>1, <1>2, SlotValueIs
    <2>2. k + j - 1 \in 1 .. Len(def) /\ slots[j].at \in Nat
      BY <2>1 DEF IsSlotOf
    <2>3. ~IsBits(def[k + j - 1])
      BY <1>1, <1>2, <2>2, SlotsArePlain
    <2>4. /\ j = 1 => slots[j].at = 0
          /\ j < n => slots[j + 1].at = slots[j].at + Size[def[k + j - 1].type]
          /\ j = n => s.size = slots[j].at + Size[def[k + j - 1].type]
      BY <1>1, <1>2 DEF Consecutive
    <2> QED BY <2>1, <2>2, <2>3, <2>4
  <1>5. ASSUME NEW j \in 1 .. n, P(j)
        PROVE  /\ k + j \in 1 .. Len(tr)
               /\ vals[k + j - 1] = SlotValue(slots[j])
               /\ sizes[k + j - 1] = Size[def[k + j - 1].type]
               /\ tr[k + j].pos = cpos + slots[j].at + Size[def[k + j - 1].type]
    <2>1. PICK f \in 1 .. Len(tr) : f = k + j - 1
      BY <1>5
    <2>2. PICK a \in Nat : a = slots[j].at
      BY <1>4
    <2>3. f \in 1 .. Len(def) /\ ~IsBits(def[f]) /\ tr[f].pos = cpos + a
      BY <1>4, <1>5, <2>1, <2>2
    <2>4. /\ Len(Cut(f, a)) = Size[def[f].type]
          /\ SlotValue(slots[j]) = Value(Cut(f, a), def[f].type)
      BY <1>4, <2>1, <2>2 DEF IsSlotOf
    <2>5. /\ f + 1 \in 1 .. Len(tr)
          /\ vals[f] = Value(Cut(f, a), def[f].type)
          /\ sizes[f] = Size[def[f].type]
          /\ tr[f + 1].pos = cpos + a + Size[def[f].type]
      BY <2>3, <2>4, FieldFollows
    <2>6. f + 1 = k + j
      BY <1>2, <2>1
    <2> QED BY <2>1, <2>2, <2>4, <2>5, <2>6
  <1>6. ASSUME n > 0 PROVE P(1)
    <2>1. 1 \in 1 .. n /\ k + 1 - 1 = k
      BY <1>2, <1>6
    <2>2. slots[1].at = 0
      BY <1>4, <2>1
    <2> QED BY <1>2, <2>1, <2>2
  <1>7. ASSUME NEW j \in 1 .. n, j < n, P(j) PROVE P(j + 1)
    <2>1. /\ k + j \in 1 .. Len(tr)
          /\ tr[k + j].pos = cpos + slots[j].at + Size[def[k + j - 1].type]
      BY <1>5, <1>7
    <2>2. slots[j + 1].at = slots[j].at + Size[def[k + j - 1].type] /\ slots[j].at \in Nat
          /\ k + j - 1 \in 1 .. Len(def)
      BY <1>4, <1>7
    <2>3. Size[def[k + j - 1].type] \in Nat
      BY <1>2, <2>2, FieldType
    <2>4. k + (j + 1) - 1 = k + j
      BY <1>2
    <2>5. PICK a \in Nat, z \in Nat : a = slots[j].at /\ z = Size[def[k + j - 1].type]
      BY <2>2, <2>3
    <2>6. slots[j + 1].at = a + z /\ tr[k + j].pos = cpos + a + z
      BY <2>1, <2>2, <2>5
    <2>7. cpos + a + z = cpos + (a + z)
      BY <1>2
    <2>8. tr[k + (j + 1) - 1].pos = cpos + slots[j + 1].at
      BY <2>4, <2>6, <2>7
    <2> QED BY <2>1, <2>4, <2>8
  <1>8. ASSUME NEW j \in 1 .. n PROVE P(j)
    <2> DEFINE T == {i \in 1 .. n : ~P(i)}
    <2>1. SUFFICES ASSUME T # {} PROVE FALSE
      OBVIOUS
    <2>2. T \in SUBSET Nat
      OBVIOUS
    <2>3. PICK i \in T : \A x \in T : i <= x
      <3> HIDE DEF T
      <3> QED BY <2>1, <2>2, Least
    <2>4. i \in 1 .. n /\ ~P(i)
      BY <2>3
    <2>5. i # 1
      BY <1>6, <2>4
    <2>6. PICK h : h = i - 1
      OBVIOUS
    <2>7. h \in 1 .. n /\ h < n /\ h + 1 = i /\ ~(i <= h)
      BY <1>2, <2>4, <2>5, <2>6
    <2>8. P(h)
      BY <2>3, <2>7
    <2> HIDE DEF P
    <2> QED BY <1>7, <2>4, <2>7, <2>8
  <1>9. ASSUME NEW j \in 1 .. n
        PROVE  vals[k + j - 1] = SlotValues[j] /\ sizes[k + j - 1] = SlotSizes[j]
    <2>1. SlotValues[j] = SlotValue(slots[j]) /\ SlotSizes[j] = Size[def[slots[j].field].type]
      BY <1>1, SlotsGive
    <2>2. slots[j].field = k + j - 1
      BY <1>4 DEF IsSlotOf
    <2>3. /\ vals[k + j - 1] = SlotValue(slots[j])
          /\ sizes[k + j - 1] = Size[def[k + j - 1].type]
      BY <1>5, <1>8
    <2> QED BY <2>1, <2>2, <2>3
  <1>10. k + n \in 1 .. Len(tr) /\ tr[k + n].pos = cpos + s.size
    <2>1. CASE n = 0
      <3>1. s.size = 0
        <4>1. slots = <<>>
          <5>1. Len(slots) = 0
            BY <1>1, <2>1
          <5> QED BY <1>2, <5>1
        <4> QED BY <1>2, <4>1 DEF Consecutive
      <3> QED BY <1>2, <2>1, <3>1
    <2>2. CASE n > 0
      <3>1. PICK j \in 1 .. n : j = n
        BY <1>2, <2>2
      <3>2. /\ k + j \in 1 .. Len(tr)
            /\ tr[k + j].pos = cpos + slots[j].at + Size[def[k + j - 1].type]
        BY <1>5, <1>8
      <3>3. s.size = slots[j].at + Size[def[k + j - 1].type] /\ slots[j].at \in Nat
            /\ k + j - 1 \in 1 .. Len(def)
        BY <1>4, <3>1
      <3>4. Size[def[k + j - 1].type] \in Nat
        BY <1>2, <3>3, FieldType
      <3>5. PICK a \in Nat, z \in Nat : a = slots[j].at /\ z = Size[def[k + j - 1].type]
        BY <3>3, <3>4
      <3>6. s.size = a + z /\ tr[k + j].pos = cpos + a + z
        BY <3>1, <3>2, <3>3, <3>5
      <3>7. cpos + a + z = cpos + (a + z)
        BY <1>2
      <3>8. tr[k + j].pos = cpos + s.size
        BY <3>6, <3>7
      <3> QED BY <3>1, <3>2, <3>8
    <2> QED BY <1>2, <2>1, <2>2
  <1>11. n > 0 => ~IsBits(def[k + n - 1])
    <2>1. SUFFICES ASSUME n > 0 PROVE ~IsBits(def[k + n - 1])
      OBVIOUS
    <2>2. PICK j \in 1 .. n : j = n
      BY <1>2, <2>1
    <2>3. ~IsBits(def[k + j - 1])
      BY <1>4
    <2> QED BY <2>2, <2>3
  <1> QED BY <1>1, <1>9, <1>10, <1>11

(***************************************************************************)
(* Where a statement does not find its bytes, the interpreted reader did   *)
(* not either, or was content with fewer for one of the fields.            *)
(***************************************************************************)
LEMMA ShortIsLenient ==
    ASSUME ReadTypeOK, CompiledTypeOK, NEW c, Generation(c), NEW tr, Trace(tr),
           outcome # "reading", Running, Stmt.op \in {"block", "nested", "dynamic"},
           Len(StmtBytes) # Stmt.size, NEW k, k = c[ip], k \in 1 .. Len(tr), tr[k].pos = cpos
    PROVE  outcome = "EOFError" \/ ReadLeniently
  <1>1. SUFFICES ASSUME outcome = "done", ~ReadLeniently PROVE FALSE
    BY DEF Trace, ReadTypeOK, Outcomes
  <1>2. PICK s, slots, n : s = Stmt /\ slots = s.slots /\ n = Len(slots)
    OBVIOUS
  <1>3. /\ def \in Seq(Fields) /\ WellFormed(def) /\ stream \in Seq(Bytes) /\ cpos \in Nat
        /\ IsStatement(s, k) /\ k \in Nat \ {0} /\ n \in Nat /\ s.size \in Nat
        /\ slots \in Seq(Slots) /\ Consecutive(slots, k, s.size)
    BY <1>2, ToRun
  <1>4. Len(tr) = Len(def) + 1 /\ Len(vals) = Len(def) /\ Len(stream) \in Nat /\ Len(def) \in Nat
    BY <1>1, <1>3 DEF Trace
  <1>5. ASSUME NEW f \in 1 .. Len(def), ~IsBits(def[f])
        PROVE  /\ Len(FieldBytes(tr[f], def[f])) = Size[def[f].type]
               /\ tr[f + 1].pos = tr[f].pos + Size[def[f].type]
    <2>1. f \in 1 .. Len(tr) /\ f < Len(tr) /\ f \in 1 .. Len(vals)
      BY <1>4
    <2>2. IsRead(tr[f], f) /\ tr[f + 1] = Past(tr[f], def[f])
      BY <2>1, TraceAt
    <2>3. sizes[f] = Len(FieldBytes(tr[f], def[f]))
      BY <1>5, <2>2 DEF IsRead, SizeOf
    <2>4. sizes[f] = Size[def[f].type]
      <3>1. vals \in Seq(Values)
        BY DEF ReadTypeOK
      <3>2. f \in DOMAIN vals
        BY <2>1, <3>1
      <3> QED BY <1>1, <1>5, <3>2 DEF ReadLeniently
    <2> QED BY <1>5, <2>2, <2>3, <2>4 DEF Past, Takes
  <1> DEFINE There(b) == b = 0 \/ cpos + b <= Len(stream)
             Q(j) == tr[k + j - 1].pos = cpos + slots[j].at /\ There(slots[j].at)
  <1>6. ASSUME NEW j \in 1 .. n
        PROVE  /\ k + j - 1 \in 1 .. Len(def) /\ ~IsBits(def[k + j - 1])
               /\ slots[j].at \in Nat /\ Size[def[k + j - 1].type] \in Nat
               /\ j = 1 => slots[j].at = 0
               /\ j < n => slots[j + 1].at = slots[j].at + Size[def[k + j - 1].type]
               /\ j = n => s.size = slots[j].at + Size[def[k + j - 1].type]
    <2>1. slots[j] \in Slots
      BY <1>2, <1>3
    <2>2. slots[j].at \in Nat
      BY <2>1 DEF Slots
    <2>3. /\ k + j - 1 \in 1 .. Len(def)
          /\ j = 1 => slots[j].at = 0
          /\ j < n => slots[j + 1].at = slots[j].at + Size[def[k + j - 1].type]
          /\ j = n => s.size = slots[j].at + Size[def[k + j - 1].type]
      BY <1>2, <1>3 DEF Consecutive
    <2>4. ~IsBits(def[k + j - 1])
      BY <1>2, <1>3, <2>3, SlotsArePlain
    <2>5. Size[def[k + j - 1].type] \in Nat
      BY <1>3, <2>3, FieldType
    <2> QED BY <2>2, <2>3, <2>4, <2>5
  <1>7. ASSUME NEW j \in 1 .. n, Q(j), NEW b, b = slots[j].at + Size[def[k + j - 1].type]
        PROVE  tr[k + j].pos = cpos + b /\ There(b)
    <2>1. PICK f \in 1 .. Len(def) : f = k + j - 1
      BY <1>6
    <2>2. PICK a \in Nat, z \in Nat : a = slots[j].at /\ z = Size[def[f].type]
      BY <1>6, <2>1
    <2>3. /\ Len(FieldBytes(tr[f], def[f])) = z
          /\ tr[f + 1].pos = tr[f].pos + z
      BY <1>5, <1>6, <2>1, <2>2
    <2>4. tr[f].pos = cpos + a /\ There(a) /\ b = a + z
      BY <1>7, <2>1, <2>2
    <2>5. PICK p \in Nat : p = cpos + a
      BY <1>3
    <2>6. FieldBytes(tr[f], def[f]) = Available(stream, p, z)
      BY <2>2, <2>4, <2>5 DEF FieldBytes
    <2>7. z = 0 \/ p + z <= Len(stream)
      BY <1>3, <2>3, <2>6, AllBytes
    <2>8. There(b)
      BY <1>3, <1>4, <2>4, <2>5, <2>7
    <2>9. f + 1 = k + j /\ p + z = cpos + b
      BY <1>3, <2>1, <2>4, <2>5
    <2> QED BY <2>3, <2>4, <2>5, <2>8, <2>9
  <1>8. ASSUME n > 0 PROVE Q(1)
    <2>1. 1 \in 1 .. n /\ k + 1 - 1 = k
      BY <1>3, <1>8
    <2>2. slots[1].at = 0
      BY <1>6, <2>1
    <2> QED BY <1>3, <2>1, <2>2
  <1>9. ASSUME NEW j \in 1 .. n, j < n, Q(j) PROVE Q(j + 1)
    <2>1. PICK b : b = slots[j].at + Size[def[k + j - 1].type]
      OBVIOUS
    <2>2. tr[k + j].pos = cpos + b /\ There(b)
      BY <1>7, <1>9, <2>1
    <2>3. slots[j + 1].at = b
      BY <1>6, <1>9, <2>1
    <2>4. k + (j + 1) - 1 = k + j
      BY <1>3
    <2> QED BY <2>2, <2>3, <2>4
  <1>10. ASSUME NEW j \in 1 .. n PROVE Q(j)
    <2> DEFINE T == {i \in 1 .. n : ~Q(i)}
    <2>1. SUFFICES ASSUME T # {} PROVE FALSE
      OBVIOUS
    <2>2. T \in SUBSET Nat
      OBVIOUS
    <2>3. PICK i \in T : \A x \in T : i <= x
      <3> HIDE DEF T
      <3> QED BY <2>1, <2>2, Least
    <2>4. i \in 1 .. n /\ ~Q(i)
      BY <2>3
    <2>5. i # 1
      <3> HIDE DEF Q
      <3> QED BY <1>3, <1>8, <2>4
    <2>6. PICK h : h = i - 1
      OBVIOUS
    <2>7. h \in 1 .. n /\ h < n /\ h + 1 = i /\ ~(i <= h)
      BY <1>3, <2>4, <2>5, <2>6
    <2>8. Q(h)
      <3> HIDE DEF Q
      <3> QED BY <2>3, <2>7
    <2> HIDE DEF Q
    <2> QED BY <1>9, <2>4, <2>7, <2>8
  <1>11. There(s.size)
    <2>1. CASE n = 0
      <3>2. Len(slots) = 0
        BY <1>2, <2>1
      <3>1. slots = <<>>
        BY <1>3, <3>2
      <3> QED BY <1>3, <3>1 DEF Consecutive
    <2>2. CASE n > 0
      <3>1. PICK j \in 1 .. n : j = n
        BY <1>3, <2>2
      <3>2. PICK b : b = slots[j].at + Size[def[k + j - 1].type]
        OBVIOUS
      <3>3. There(b)
        BY <1>7, <1>10, <3>2
      <3>4. s.size = b
        BY <1>6, <3>1, <3>2
      <3> QED BY <3>3, <3>4
    <2> QED BY <1>3, <2>1, <2>2
  <1>12. PICK m \in Nat, p \in Nat : m = s.size /\ p = cpos
    BY <1>3
  <1>13. Len(Available(stream, p, m)) = m
    BY <1>3, <1>11, <1>12, AllBytes
  <1> QED BY <1>2, <1>12, <1>13 DEF StmtBytes

\* x is the first k - 1 elements of r, and v the next n.
AgreeBefore(x, r, k) == Len(x) = k - 1 /\ \A i \in 1 .. k - 1 : x[i] = r[i]

IsNextPart(v, r, k, n) == Len(v) = n /\ \A j \in 1 .. n : r[k + j - 1] = v[j]

LEMMA BeforeAndNext ==
    ASSUME NEW S, NEW x \in Seq(S), NEW v \in Seq(S), NEW r, NEW k \in Nat \ {0}, NEW n \in Nat,
           AgreeBefore(x, r, k), IsNextPart(v, r, k, n)
    PROVE  AgreeBefore(x \o v, r, k + n)
  <1>1. PICK y : y = x \o v
    OBVIOUS
  <1>2. Len(x) = k - 1 /\ Len(v) = n
    BY DEF AgreeBefore, IsNextPart
  <1>3. /\ Len(y) = k - 1 + n
        /\ \A i \in 1 .. k - 1 : y[i] = x[i]
        /\ \A i \in k .. k - 1 + n : y[i] = v[i - (k - 1)]
    <2>1. /\ Len(y) = Len(x) + Len(v)
          /\ \A i \in 1 .. Len(x) + Len(v) :
                y[i] = IF i <= Len(x) THEN x[i] ELSE v[i - Len(x)]
      BY <1>1, ConcatProperties
    <2>2. \A i \in 1 .. k - 1 + n : y[i] = IF i <= k - 1 THEN x[i] ELSE v[i - (k - 1)]
      BY <1>2, <2>1
    <2> QED BY <1>2, <2>1, <2>2
  <1>4. ASSUME NEW i \in 1 .. k + n - 1 PROVE y[i] = r[i]
    <2>1. CASE i <= k - 1
      <3>1. i \in 1 .. k - 1
        BY <2>1
      <3> QED BY <1>3, <3>1 DEF AgreeBefore
    <2>2. CASE ~(i <= k - 1)
      <3>1. i \in k .. k - 1 + n
        BY <2>2
      <3>2. PICK j \in 1 .. n : j = i - (k - 1)
        BY <2>2
      <3>3. k + j - 1 = i
        BY <3>2
      <3>4. r[k + j - 1] = v[j]
        BY DEF IsNextPart
      <3>5. y[i] = v[j]
        BY <1>3, <3>1, <3>2
      <3> QED BY <3>3, <3>4, <3>5
    <2> QED BY <2>1, <2>2
  <1>5. Len(y) = k + n - 1
    BY <1>3
  <1> QED BY <1>1, <1>4, <1>5 DEF AgreeBefore

\* A statement that reads bytes
LEMMA RunBytesFollows ==
    ASSUME ReadTypeOK, CompiledTypeOK, NEW c, Generation(c), NEW tr, Trace(tr), Follows(tr, c),
           outcome # "reading", UNCHANGED readVars, RunBytes
    PROVE  Follows(tr, c)'
  <1>1. PICK k, s, n : k = c[ip] /\ s = Stmt /\ n = Len(s.slots)
    OBVIOUS
  <1>2. /\ Running /\ s.op \in {"block", "nested", "dynamic"} /\ Len(StmtBytes) = s.size
        /\ cvals' = cvals \o SlotValues /\ csizes' = csizes \o SlotSizes
        /\ cpos' = cpos + s.size /\ ip' = ip + 1 /\ UNCHANGED <<gen, cbb, coutcome>>
    BY <1>1 DEF RunBytes
  <1>3. /\ def \in Seq(Fields) /\ WellFormed(def) /\ k \in Nat \ {0} /\ n \in Nat
        /\ IsStatement(s, k) /\ c[ip + 1] = k + n /\ ip \in 1 .. Len(gen.blocks)
        /\ Consecutive(s.slots, k, s.size) /\ s.slots \in Seq(Slots)
        /\ ReadsPlain(s) /\ Dirty(k) => WasReset
    BY <1>1, <1>2, ToRun
  <1>4. /\ k \in 1 .. Len(tr) /\ Len(cvals) = k - 1 /\ Len(csizes) = k - 1
        /\ \A i \in 1 .. k - 1 : cvals[i] = vals[i] /\ csizes[i] = sizes[i]
        /\ coutcome = "reading" /\ tr[k].pos = cpos
        /\ ~Dirty(k) \/ WasReset => cbb = Empty
        /\ k > 1 /\ IsBits(def[k - 1]) /\ ~WasReset => cbb = tr[k].bb
    BY <1>1, <1>2 DEF Follows, Running
  <1>5. /\ k + n \in 1 .. Len(tr)
        /\ tr[k + n].pos = cpos + s.size
        /\ \A j \in 1 .. n : vals[k + j - 1] = SlotValues[j] /\ sizes[k + j - 1] = SlotSizes[j]
        /\ n > 0 => ~IsBits(def[k + n - 1])
    BY <1>1, <1>2, <1>4, BlockFollows
  <1>6. /\ SlotValues \in Seq(Values) /\ Len(SlotValues) = n
        /\ SlotSizes \in Seq(Nat) /\ Len(SlotSizes) = n
    BY <1>1, <1>2, SlotsGive
  <1>7. cvals \in Seq(Values) /\ csizes \in Seq(Nat \cup {None})
    BY DEF CompiledTypeOK
  <1>8. /\ Len(cvals') = k + n - 1 /\ Len(csizes') = k + n - 1
        /\ \A i \in 1 .. k + n - 1 : cvals'[i] = vals[i] /\ csizes'[i] = sizes[i]
    <2>1. PICK x \in Seq(Values), y \in Seq(Nat \cup {None}) : x = cvals /\ y = csizes
      BY <1>7
    <2>2. PICK v \in Seq(Values), w \in Seq(Nat \cup {None}) : v = SlotValues /\ w = SlotSizes
      BY <1>6
    <2>3. AgreeBefore(x, vals, k) /\ AgreeBefore(y, sizes, k)
      BY <1>4, <2>1 DEF AgreeBefore
    <2>4. IsNextPart(v, vals, k, n) /\ IsNextPart(w, sizes, k, n)
      BY <1>5, <1>6, <2>2 DEF IsNextPart
    <2>5. AgreeBefore(x \o v, vals, k + n)
      BY <1>3, <2>3, <2>4, BeforeAndNext
    <2>6. AgreeBefore(y \o w, sizes, k + n)
      BY <1>3, <2>3, <2>4, BeforeAndNext
    <2>7. cvals' = x \o v /\ csizes' = y \o w
      BY <1>2, <2>1, <2>2
    <2>8. AgreeBefore(cvals', vals, k + n) /\ AgreeBefore(csizes', sizes, k + n)
      BY <2>5, <2>6, <2>7
    <2> QED BY <1>3, <2>8 DEF AgreeBefore
  <1>9. n = 0 => s.op = "block" /\ ~ReadsPlain(s)
    <2>1. SUFFICES ASSUME n = 0 PROVE s.op = "block" /\ ~ReadsPlain(s)
      OBVIOUS
    <2>2. s.op \in {"bits", "nested", "dynamic"} => n = 1
      BY <1>1, <1>3 DEF IsStatement
    <2>3. s.op = "block"
      BY <1>2, <2>1, <2>2
    <2>4. Len(s.slots) = 0
      BY <1>1, <2>1
    <2>5. s.slots = <<>>
      BY <1>3, <2>4
    <2> QED BY <2>3, <2>5 DEF ReadsPlain
  <1>10. n > 0 => s.slots # <<>>
    BY <1>1, <1>3
  <1>11. n = 0 => ~WasReset
    BY <1>1, <1>2, <1>9, AfterReset
  <1>12. ~Dirty(k + n) => cbb = Empty
    <2>1. CASE n = 0
      BY <1>3, <1>4, <2>1
    <2>2. CASE n > 0 /\ s.op # "nested"
      BY <1>2, <1>3, <1>4, <1>10, <2>2 DEF ReadsPlain
    <2>3. CASE n > 0 /\ s.op = "nested"
      <3>1. n = 1 /\ def[k].type \in Nested
        BY <1>1, <1>3, <2>3 DEF IsStatement
      <3>2. k \in 1 .. Len(def)
        <4>1. 1 \in 1 .. Len(s.slots) /\ k + 1 - 1 = k
          BY <1>1, <1>3, <3>1
        <4> QED BY <1>3, <4>1 DEF Consecutive
      <3>3. Dirty(k + n) <=> Dirty(k)
        BY <1>3, <3>1, <3>2, DirtyNext
      <3> QED BY <1>4, <3>3
    <2> QED BY <1>3, <2>1, <2>2, <2>3
  <1>13. PICK m : m = k + n
    OBVIOUS
  <1>14. ~(ip' > 1 /\ gen.blocks[ip' - 1].op = "reset")
    <2>1. ip' - 1 = ip
      BY <1>2, <1>3
    <2> QED BY <1>1, <1>2, <2>1 DEF Stmt
  <1>15. m > 1 /\ IsBits(def[m - 1]) => cbb = tr[m].bb
    <2>1. CASE n = 0
      BY <1>3, <1>4, <1>11, <1>13, <2>1
    <2>2. CASE n > 0
      <3>1. ~IsBits(def[m - 1])
        BY <1>3, <1>5, <1>13, <2>2
      <3> QED BY <3>1
    <2> QED BY <1>3, <2>1, <2>2
  <1>16. PICK reset : reset = (ip' > 1 /\ gen.blocks[ip' - 1].op = "reset")
    OBVIOUS
  <1>17. /\ m = c[ip'] /\ m \in 1 .. Len(tr) /\ Len(cvals') = m - 1 /\ Len(csizes') = m - 1
         /\ \A i \in 1 .. m - 1 : cvals'[i] = vals[i] /\ csizes'[i] = sizes[i]
         /\ cpos' = tr[m].pos
         /\ ~Dirty(m) => cbb' = Empty
         /\ m > 1 /\ IsBits(def[m - 1]) => cbb' = tr[m].bb
         /\ coutcome' = "reading"
    BY <1>2, <1>3, <1>4, <1>5, <1>8, <1>12, <1>13, <1>15
  <1> QED BY <1>2, <1>14, <1>16, <1>17, FollowsNext

\* A reset
LEMMA RunResetFollows ==
    ASSUME ReadTypeOK, CompiledTypeOK, NEW c, Generation(c), NEW tr, Trace(tr), Follows(tr, c),
           UNCHANGED readVars, RunReset
    PROVE  Follows(tr, c)'
  <1>1. PICK k, s : k = c[ip] /\ s = Stmt
    OBVIOUS
  <1>2. /\ Running /\ s.op = "reset" /\ cbb' = Empty /\ ip' = ip + 1
        /\ UNCHANGED <<gen, cpos, cvals, csizes, coutcome>>
    BY <1>1 DEF RunReset
  <1>3. /\ k \in Nat \ {0} /\ IsStatement(s, k) /\ c[ip + 1] = k + Len(s.slots)
        /\ ip \in 1 .. Len(gen.blocks)
    BY <1>1, <1>2, ToRun
  <1>4. c[ip'] = k
    <2>1. Len(s.slots) = 0
      BY <1>2, <1>3 DEF IsStatement
    <2> QED BY <1>2, <1>3, <2>1
  <1>5. ip' > 1 /\ gen.blocks[ip' - 1].op = "reset"
    <2>1. ip' - 1 = ip /\ ip' > 1
      BY <1>2, <1>3
    <2> QED BY <1>1, <1>2, <2>1 DEF Stmt
  <1>6. /\ k \in 1 .. Len(tr) /\ Len(cvals) = k - 1 /\ Len(csizes) = k - 1
        /\ \A i \in 1 .. k - 1 : cvals[i] = vals[i] /\ csizes[i] = sizes[i]
        /\ coutcome = "reading" /\ tr[k].pos = cpos
    BY <1>1, <1>2 DEF Follows, Running
  <1>7. PICK reset : reset = (ip' > 1 /\ gen.blocks[ip' - 1].op = "reset")
    OBVIOUS
  <1>8. /\ Len(cvals') = k - 1 /\ Len(csizes') = k - 1
        /\ \A i \in 1 .. k - 1 : cvals'[i] = vals[i] /\ csizes'[i] = sizes[i]
        /\ coutcome' = "reading" /\ tr[k].pos = cpos'
    BY <1>2, <1>6
  <1>9. k = c[ip'] /\ reset
    BY <1>4, <1>5, <1>7
  <1> QED BY <1>2, <1>6, <1>7, <1>8, <1>9, FollowsNext

(***************************************************************************)
(* A statement that reads a bit field has the bit buffer of the            *)
(* interpreted reader: bit fields before it left it, or both are empty.    *)
(***************************************************************************)
LEMMA BitsFollow ==
    ASSUME ReadTypeOK, CompiledTypeOK, NEW c, Generation(c), NEW tr, Trace(tr), Follows(tr, c),
           NoBitsAroundNested, outcome # "reading", Running, Stmt.op = "bits",
           NEW k, k = c[ip], NEW s, s = tr[k], NEW f, f = def[Stmt.slots[1].field]
    PROVE  /\ k \in 1 .. Len(def) /\ k \in 1 .. Len(tr) /\ c[ip + 1] = k + 1 /\ f = def[k]
           /\ IsBits(f) /\ cbb = s.bb /\ cpos = s.pos /\ StmtBytes = FieldBytes(s, f)
           /\ Takes(s, f) <=> NeedsUnit(cbb, f.type)
           /\ Unit(s, f) = IF NeedsUnit(cbb, f.type) THEN Loaded(f.type, StmtBytes) ELSE cbb
           /\ Fails(s, f) <=> NeedsUnit(cbb, f.type) /\ ~Accepts(f.type, StmtBytes)
           /\ ~Fails(s, f) => IsRead(s, k) /\ k + 1 \in 1 .. Len(tr) /\ tr[k + 1] = Past(s, f)
           /\ Fails(s, f) => outcome = "EOFError"
  <1>1. /\ k \in 1 .. Len(def) /\ Stmt.slots[1].field = k
        /\ IsBits(def[k]) /\ Stmt.size = Size[def[k].type] /\ c[ip + 1] = k + 1
    BY BitsToRun
  <1>2. f = def[k]
    BY <1>1
  <1>3. /\ k \in 1 .. Len(tr) /\ cpos = s.pos
        /\ ~Dirty(k) \/ WasReset => cbb = Empty
        /\ k > 1 /\ IsBits(def[k - 1]) /\ ~WasReset => cbb = tr[k].bb
    BY DEF Follows, Running
  <1>4. ~WasReset
    <2>1. ~ReadsPlain(Stmt)
      BY DEF ReadsPlain
    <2> QED BY <2>1, AfterReset
  <1>5. cbb = s.bb
    <2>1. CASE k > 1 /\ IsBits(def[k - 1])
      BY <1>3, <1>4, <2>1
    <2>2. CASE k = 1 \/ ~IsBits(def[k - 1])
      <3>1. s.bb = Empty
        BY <1>3, <2>2, TraceAt
      <3>2. ASSUME Dirty(k) PROVE FALSE
        <4>1. PICK j \in 1 .. k - 1 : IsBits(def[j]) /\ \A i \in j + 1 .. k - 1 : def[i].type \in Nested
          BY <3>2 DEF Dirty
        <4>2. j # k - 1
          BY <1>1, <2>2, <4>1
        <4>3. j + 1 < k /\ j \in 1 .. Len(def)
          BY <1>1, <4>2
        <4>4. DOMAIN def = 1 .. Len(def)
          BY DEF ReadTypeOK, LayoutTypeOK
        <4>5. j \in DOMAIN def /\ k \in DOMAIN def
          BY <1>1, <4>3, <4>4
        <4> QED BY <1>1, <4>1, <4>3, <4>5 DEF NoBitsAroundNested
      <3> QED BY <1>3, <3>1, <3>2
    <2> QED BY <1>1, <2>1, <2>2
  <1>6. StmtBytes = FieldBytes(s, f)
    BY <1>1, <1>2, <1>3 DEF StmtBytes, FieldBytes
  <1>7. Takes(s, f) <=> NeedsUnit(cbb, f.type)
    BY <1>1, <1>2, <1>5 DEF Takes
  <1>8. Unit(s, f) = IF NeedsUnit(cbb, f.type) THEN Loaded(f.type, StmtBytes) ELSE cbb
    BY <1>5, <1>6 DEF Unit
  <1>9. Fails(s, f) <=> NeedsUnit(cbb, f.type) /\ ~Accepts(f.type, StmtBytes)
    BY <1>6, <1>7 DEF Fails
  <1>10. (~Fails(s, f) => k < Len(tr)) /\ (Fails(s, f) => outcome = "EOFError")
    BY <1>1, <1>2, <1>3, WasRead
  <1>11. Len(tr) \in Nat /\ (k < Len(tr) => IsRead(s, k) /\ tr[k + 1] = Past(s, f))
    BY <1>2, <1>3, TraceAt
  <1>12. k < Len(tr) => k + 1 \in 1 .. Len(tr)
    BY <1>3, <1>11
  <1> QED BY <1>1, <1>2, <1>3, <1>5, <1>6, <1>7, <1>8, <1>9, <1>10, <1>11, <1>12

LEMMA RunBitsFollows ==
    ASSUME ReadTypeOK, CompiledTypeOK, NEW c, Generation(c), NEW tr, Trace(tr), Follows(tr, c),
           NoBitsAroundNested, outcome # "reading", UNCHANGED readVars, RunBits
    PROVE  Follows(tr, c)'
  <1>1. PICK k, s, f : k = c[ip] /\ s = tr[k] /\ f = def[Stmt.slots[1].field]
    OBVIOUS
  <1>2. PICK unit : unit = IF NeedsUnit(cbb, f.type) THEN Loaded(f.type, StmtBytes) ELSE cbb
    OBVIOUS
  <1>3. /\ Running /\ Stmt.op = "bits"
        /\ NeedsUnit(cbb, f.type) => Accepts(f.type, StmtBytes)
        /\ cvals' = Append(cvals, Taken(unit, f.bits)) /\ csizes' = Append(csizes, None)
        /\ cbb' = AfterTake(unit, f.bits)
        /\ cpos' = IF NeedsUnit(cbb, f.type) THEN cpos + Len(StmtBytes) ELSE cpos
        /\ ip' = ip + 1 /\ UNCHANGED <<gen, coutcome>>
    BY <1>1, <1>2 DEF RunBits
  <1>4. /\ k \in 1 .. Len(def) /\ k \in 1 .. Len(tr) /\ c[ip + 1] = k + 1 /\ f = def[k]
        /\ IsBits(f) /\ cbb = s.bb /\ cpos = s.pos /\ StmtBytes = FieldBytes(s, f)
        /\ Takes(s, f) <=> NeedsUnit(cbb, f.type)
        /\ Unit(s, f) = unit
        /\ ~Fails(s, f)
    BY <1>1, <1>2, <1>3, BitsFollow
  <1>5. IsRead(s, k) /\ k + 1 \in 1 .. Len(tr) /\ tr[k + 1] = Past(s, f)
    BY <1>1, <1>3, <1>4, BitsFollow
  <1>6. vals[k] = Taken(unit, f.bits) /\ sizes[k] = None
    BY <1>4, <1>5 DEF IsRead, ValueOf, SizeOf
  <1>7. tr[k + 1].pos = cpos' /\ tr[k + 1].bb = cbb'
    BY <1>3, <1>4, <1>5 DEF Past
  <1>8. /\ Len(cvals) = k - 1 /\ Len(csizes) = k - 1 /\ coutcome = "reading"
        /\ \A i \in 1 .. k - 1 : cvals[i] = vals[i] /\ csizes[i] = sizes[i]
    BY <1>1, <1>3 DEF Follows, Running
  <1>9. cvals \in Seq(Values) /\ csizes \in Seq(Nat \cup {None}) /\ ip \in 1 .. Len(gen.blocks) + 1
    BY DEF CompiledTypeOK
  <1>10. PICK m : m = k + 1
    OBVIOUS
  <1>11. /\ Len(cvals') = m - 1 /\ Len(csizes') = m - 1
         /\ \A i \in 1 .. m - 1 : cvals'[i] = vals[i] /\ csizes'[i] = sizes[i]
    <2>1. /\ Len(cvals') = k /\ Len(csizes') = k
          /\ cvals'[k] = vals[k] /\ csizes'[k] = sizes[k]
          /\ \A i \in 1 .. k - 1 : cvals'[i] = cvals[i] /\ csizes'[i] = csizes[i]
      BY <1>3, <1>4, <1>6, <1>8, <1>9
    <2>2. m - 1 = k
      BY <1>4, <1>10
    <2>3. \A i \in 1 .. k : i = k \/ i \in 1 .. k - 1
      BY <1>4
    <2> QED BY <1>8, <2>1, <2>2, <2>3
  <1>12. Dirty(m)
    <2>1. k \in 1 .. m - 1 /\ IsBits(def[k]) /\ \A i \in k + 1 .. m - 1 : def[i].type \in Nested
      BY <1>4, <1>10
    <2> QED BY <2>1 DEF Dirty
  <1>13. ~(ip' > 1 /\ gen.blocks[ip' - 1].op = "reset")
    <2>1. ip' - 1 = ip
      BY <1>3, <1>9
    <2> QED BY <1>3, <2>1 DEF Stmt
  <1>14. PICK reset : reset = (ip' > 1 /\ gen.blocks[ip' - 1].op = "reset")
    OBVIOUS
  <1>15. m = c[ip'] /\ m \in 1 .. Len(tr) /\ cpos' = tr[m].pos /\ cbb' = tr[m].bb
         /\ coutcome' = "reading" /\ ~reset
    BY <1>3, <1>4, <1>5, <1>7, <1>8, <1>10, <1>13, <1>14
  <1> QED BY <1>3, <1>11, <1>12, <1>14, <1>15, FollowsNext

\* The generated reader stops early only where the interpreted one did, or might have.
LEMMA RunShortFollows ==
    ASSUME ReadTypeOK, CompiledTypeOK, NEW c, Generation(c), NEW tr, Trace(tr), Follows(tr, c),
           NoBitsAroundNested, outcome # "reading", UNCHANGED readVars, RunShort
    PROVE  Follows(tr, c)'
  <1>1. PICK k : k = c[ip]
    OBVIOUS
  <1>2. /\ Running /\ coutcome' = "EOFError" /\ UNCHANGED <<gen, ip, cbb, cvals, csizes>>
        /\ IF Stmt.op = "bits"
           THEN LET t == def[Stmt.slots[1].field].type IN
                NeedsUnit(cbb, t) /\ ~Accepts(t, StmtBytes)
           ELSE Len(StmtBytes) # Stmt.size
    BY DEF RunShort
  <1>3. /\ k \in 1 .. Len(tr) /\ Len(cvals) = k - 1 /\ Len(csizes) = k - 1
        /\ \A i \in 1 .. k - 1 : cvals[i] = vals[i] /\ csizes[i] = sizes[i]
        /\ tr[k].pos = cpos
    BY <1>1, <1>2 DEF Follows, Running
  <1>4. outcome = "EOFError" \/ ReadLeniently
    <2>1. CASE Stmt.op = "bits"
      <3>1. PICK s, f : s = tr[k] /\ f = def[Stmt.slots[1].field]
        OBVIOUS
      <3>2. NeedsUnit(cbb, f.type) /\ ~Accepts(f.type, StmtBytes)
        BY <1>2, <2>1, <3>1
      <3>3. Fails(s, f)
        BY <1>1, <1>2, <2>1, <3>1, <3>2, BitsFollow
      <3> QED BY <1>1, <1>2, <2>1, <3>1, <3>3, BitsFollow
    <2>2. CASE Stmt.op # "bits"
      <3>1. PICK s : s = Stmt
        OBVIOUS
      <3>2. s.op \in {"block", "bits", "reset", "nested", "dynamic"} /\ IsStatement(s, k)
            /\ Consecutive(s.slots, k, s.size) /\ Len(StmtBytes) \in Nat
        BY <1>1, <1>2, <3>1, ToRun
      <3>3. s.op # "reset"
        <4>1. SUFFICES ASSUME s.op = "reset" PROVE FALSE
          OBVIOUS
        <4>2. s.slots = <<>>
          BY <3>2, <4>1 DEF IsStatement
        <4>3. s.size = 0
          BY <3>2, <4>2 DEF Consecutive
        <4>4. stream \in Seq(Bytes) /\ cpos \in Nat
          BY DEF ReadTypeOK, CompiledTypeOK
        <4>5. PICK n \in Nat, p \in Nat : n = 0 /\ p = cpos
          BY <4>4
        <4>6. StmtBytes = Available(stream, p, n)
          BY <3>1, <4>3, <4>5 DEF StmtBytes
        <4>7. Len(Available(stream, p, n)) = n
          BY <4>4, <4>5, AllBytes
        <4> QED BY <1>2, <2>2, <3>1, <4>3, <4>5, <4>6, <4>7
      <3>4. Stmt.op \in {"block", "nested", "dynamic"}
        BY <2>2, <3>1, <3>2, <3>3
      <3> QED BY <1>1, <1>2, <1>3, <2>2, <3>4, ShortIsLenient
    <2> QED BY <2>1, <2>2
  <1>5. PICK reset : reset = (ip' > 1 /\ gen.blocks[ip' - 1].op = "reset")
    OBVIOUS
  <1>6. /\ Len(cvals') = k - 1 /\ Len(csizes') = k - 1 /\ k = c[ip']
        /\ \A i \in 1 .. k - 1 : cvals'[i] = vals[i] /\ csizes'[i] = sizes[i]
    BY <1>1, <1>2, <1>3
  <1> QED BY <1>2, <1>3, <1>4, <1>5, <1>6, FollowsNext

\* The end of the generated reader
LEMMA RunEndFollows ==
    ASSUME ReadTypeOK, CompiledTypeOK, NEW c, Generation(c), NEW tr, Trace(tr), Follows(tr, c),
           UNCHANGED readVars, RunEnd
    PROVE  Follows(tr, c)'
  <1>1. PICK k, g : k = c[ip] /\ g = gen
    OBVIOUS
  <1>2. /\ gen.finished /\ coutcome = "reading" /\ ip = Len(g.blocks) + 1 /\ coutcome' = "done"
        /\ UNCHANGED <<gen, ip, cpos, cbb, cvals, csizes>>
    BY <1>1 DEF RunEnd
  <1>3. k = Len(def) + 1
    <2>1. IsGeneration(c, g) /\ g.finished
      BY <1>1, <1>2 DEF Generation
    <2>2. g.cur_block = <<>> /\ g.field = Len(def) + 1 /\ Blocks(c, g.blocks)
      BY <2>1 DEF IsGeneration
    <2>3. c[Len(c)] = g.field
      BY <2>1, <2>2, GenIs
    <2>4. Len(c) = ip
      BY <1>2, <2>2 DEF Blocks
    <2> QED BY <1>1, <2>2, <2>3, <2>4
  <1>4. PICK reset : reset = (ip' > 1 /\ gen.blocks[ip' - 1].op = "reset")
    OBVIOUS
  <1>5. reset <=> WasReset
    BY <1>2, <1>4 DEF WasReset
  <1>6. /\ k \in 1 .. Len(tr) /\ Len(cvals') = k - 1 /\ Len(csizes') = k - 1 /\ k = c[ip']
        /\ \A i \in 1 .. k - 1 : cvals'[i] = vals[i] /\ csizes'[i] = sizes[i]
        /\ cpos' = tr[k].pos
        /\ ~Dirty(k) \/ reset => cbb' = Empty
        /\ k > 1 /\ IsBits(def[k - 1]) /\ ~reset => cbb' = tr[k].bb
    BY <1>1, <1>2, <1>5 DEF Follows
  <1>7. /\ UNCHANGED gen /\ k = Len(def) + 1
        /\ coutcome' # "EOFError" /\ coutcome' # "ValueError"
    BY <1>2, <1>3
  <1> QED BY <1>4, <1>6, <1>7, FollowsNext

LEMMA RunFollows ==
    ASSUME ReadTypeOK, CompiledTypeOK, NEW c, Generation(c), NEW tr, Trace(tr), Follows(tr, c),
           NoBitsAroundNested, outcome # "reading", UNCHANGED readVars, Run
    PROVE  Follows(tr, c)'
  <1>1. CASE RunBitsBeyondUnit
    <2>1. PICK k, s, f : k = c[ip] /\ s = tr[k] /\ f = def[Stmt.slots[1].field]
      OBVIOUS
    <2>2. PICK unit : unit = IF NeedsUnit(cbb, f.type) THEN Loaded(f.type, StmtBytes) ELSE cbb
      OBVIOUS
    <2>3. /\ Running /\ Stmt.op = "bits" /\ ~CanTake(unit, f.bits)
          /\ NeedsUnit(cbb, f.type) => Accepts(f.type, StmtBytes)
      BY <1>1, <2>1, <2>2 DEF RunBitsBeyondUnit
    <2>4. ~Fails(s, f) /\ Unit(s, f) = unit /\ IsBits(f) /\ f = def[k]
      BY <2>1, <2>2, <2>3, BitsFollow
    <2>5. IsRead(s, k)
      BY <2>1, <2>3, <2>4, BitsFollow
    <2> QED BY <2>3, <2>4, <2>5 DEF IsRead
  <1> QED BY <1>1, RunBytesFollows, RunResetFollows, RunBitsFollows, RunShortFollows, RunEndFollows
          DEF Run

-----------------------------------------------------------------------------
(* The invariant *)

LEMMA SameTrace ==
    ASSUME NEW tr, Trace(tr), UNCHANGED <<def, stream, start, pos, bb, vals, sizes>>,
           \/ UNCHANGED outcome
           \/ outcome = "reading" /\ outcome' = "done" /\ Len(vals) = Len(def)
    PROVE  Trace(tr)'
  <1>1. ASSUME NEW i \in 1 .. Len(vals)
        PROVE  IsRead(tr[i], i)' /\ (tr[i + 1] = Past(tr[i], def[i]))'
    <2>1. IsRead(tr[i], i) /\ tr[i + 1] = Past(tr[i], def[i])
      BY DEF Trace
    <2>2. PICK x : x = tr[i]
      OBVIOUS
    <2>3. IsRead(x, i)' /\ Past(x, def[i])' = Past(x, def[i])
      BY <2>1, <2>2, SameField, IsReadKept
    <2> QED BY <2>1, <2>2, <2>3
  <1>2. outcome' = "EOFError" => outcome = "EOFError"
    OBVIOUS
  <1>3. outcome' = "EOFError" =>
           Len(vals') < Len(def') /\ Fails(tr[Len(tr)], def[Len(tr)])'
    <2>1. PICK x, k : x = tr[Len(tr)] /\ k = Len(tr)
      OBVIOUS
    <2>2. Fails(x, def[k])' <=> Fails(x, def[k])
      BY SameField
    <2> QED BY <1>2, <2>1, <2>2 DEF Trace
  <1>4. /\ outcome' \in {"reading", "done"} => outcome \in {"reading", "done"}
        /\ outcome' = "done" => Len(vals) = Len(def)
        /\ outcome' # "ValueError"
    BY DEF Trace
  <1> QED BY <1>1, <1>3, <1>4 DEF Trace

\* Nothing has been read.
LEMMA NothingRead ==
    ASSUME start \in Nat, vals = <<>>, pos = start, bb = Empty, outcome = "reading"
    PROVE  \E tr : Trace(tr)
  <1>1. PICK s, tr, p : s = [pos |-> p, bb |-> Empty] /\ tr = <<s>> /\ p = start
    OBVIOUS
  <1>2. s \in States /\ s.pos = p /\ s.bb = Empty
    BY <1>1, BufferOperators DEF States
  <1>3. tr \in Seq(States) /\ Len(tr) = 1 /\ tr[1] = s /\ tr[Len(tr)] = s
    BY <1>1, <1>2
  <1>4. Len(vals) = 0
    OBVIOUS
  <1>5. Trace(tr)
    BY <1>1, <1>2, <1>3, <1>4 DEF Trace
  <1> QED BY <1>5

\* The generated reader has not started.
LEMMA StartFollows ==
    ASSUME NotStarted, vals \in Seq(Values), NEW tr, Trace(tr), NEW c, c[1] = 1
    PROVE  Follows(tr, c)
  <1>1. Len(tr) \in Nat /\ 1 \in 1 .. Len(tr) /\ tr[1].pos = start
    BY DEF Trace
  <1>2. ~WasReset /\ c[ip] = 1 /\ Len(cvals) = 0 /\ Len(csizes) = 0
    BY DEF WasReset, NotStarted
  <1> QED BY <1>1, <1>2 DEF Follows, NotStarted

LEMMA StartFollowsNext ==
    ASSUME NotStarted', vals' \in Seq(Values), NEW tr, Trace(tr)', NEW c, c[1] = 1
    PROVE  Follows(tr, c)'
  <1>1. Len(tr) \in Nat /\ 1 \in 1 .. Len(tr) /\ tr[1].pos = start'
    BY DEF Trace
  <1>2. ~WasReset' /\ c[ip'] = 1 /\ Len(cvals') = 0 /\ Len(csizes') = 0
    BY DEF WasReset, NotStarted
  <1> QED BY <1>1, <1>2 DEF Follows, NotStarted

LEMMA ReadInitTypes == ReadInit => ReadTypeOK
  <1> SUFFICES ASSUME ReadInit
               PROVE  ReadTypeOK
    OBVIOUS
  <1>1. LayoutTypeOK
    BY LayoutInitTypes DEF ReadInit
  <1>2. stream \in Seq(Bytes) /\ start \in Nat
    BY StreamsAssumption DEF ReadInit
  <1> QED BY <1>1, <1>2, BufferOperators DEF ReadInit, ReadTypeOK, Outcomes, LayoutTypeOK

LEMMA AgreementInvInit == AgreementInit => AgreementInv
  <1> SUFFICES ASSUME AgreementInit
               PROVE  AgreementInv
    OBVIOUS
  <1>1. ReadInit /\ CompiledInit
    BY DEF AgreementInit
  <1>2. ReadTypeOK
    BY <1>1, ReadInitTypes
  <1>3. ReadInv
    BY <1>1, ReadInvInit
  <1>4. def \in Seq(Fields) /\ start \in Nat /\ vals = <<>> /\ sizes = <<>> /\ pos = start
        /\ bb = Empty /\ outcome = "reading"
    BY <1>1, <1>2 DEF ReadInit, ReadTypeOK, LayoutTypeOK
  <1>5. CompiledTypeOK
    BY <1>1, <1>4, CompiledInitTypes
  <1>6. NotStarted
    BY <1>1 DEF CompiledInit, NotStarted
  <1>7. PICK c : c = <<1>>
    OBVIOUS
  <1>8. Generation(c)
    BY <1>1, <1>4, <1>7, GenerationInit
  <1>9. PICK tr : Trace(tr)
    BY <1>4, NothingRead
  <1>10. Follows(tr, c)
    <2>1. c[1] = 1 /\ vals \in Seq(Values)
      BY <1>4, <1>7
    <2> QED BY <1>6, <1>9, <2>1, StartFollows
  <1> QED BY <1>2, <1>3, <1>4, <1>5, <1>6, <1>8, <1>9, <1>10 DEF AgreementInv

\* Before the interpreted reader has ended, the generated one waits for it.
LEMMA WaitsStep ==
    ASSUME AgreementInv, NotStarted, ReadTypeOK', ReadInv', UNCHANGED <<compiledVars, def, start>>,
           gen.finished \/ UNCHANGED outcome,
           ~Laid' => vals' = <<>> /\ outcome' = "reading",
           Regular' => \E t : Trace(t)'
    PROVE  AgreementInv'
  <1>1. UNCHANGED <<gen, ip, cpos, cbb, cvals, csizes, coutcome, def, start>>
    BY DEF compiledVars
  <1>2. PICK c : Generation(c)
    BY DEF AgreementInv
  <1>3. Generation(c)'
    BY <1>1, <1>2, SameGeneration DEF Generation
  <1>4. c[1] = 1
    BY <1>2 DEF Generation, IsGeneration, Blocks
  <1>5. NotStarted' /\ CompiledTypeOK'
    BY <1>1 DEF NotStarted, CompiledTypeOK, AgreementInv
  <1>6. ~gen'.finished => outcome' = "reading"
    BY <1>1 DEF AgreementInv
  <1>7. vals' \in Seq(Values)
    BY DEF ReadTypeOK
  <1>8. Regular' => \E t : Trace(t)' /\ Follows(t, c)'
    BY <1>4, <1>5, <1>7, StartFollowsNext
  <1> QED BY <1>3, <1>5, <1>6, <1>8 DEF AgreementInv

LEMMA AgreementInvStep == AgreementInv /\ [AgreementNext]_agreementVars => AgreementInv'
  <1> SUFFICES ASSUME AgreementInv, [AgreementNext]_agreementVars
               PROVE  AgreementInv'
    OBVIOUS
  <1>1. /\ ReadTypeOK /\ ReadInv /\ CompiledTypeOK
        /\ ~Laid => vals = <<>> /\ outcome = "reading"
        /\ outcome = "reading" => NotStarted
        /\ ~gen.finished => outcome = "reading"
    BY DEF AgreementInv
  <1>2. [ReadNext]_readVars
    BY DEF AgreementNext, agreementVars, ReadNext
  <1>3. ReadTypeOK'
    BY <1>1, <1>2, ReadTypes
  <1>4. ReadInv'
    BY <1>1, <1>2, ReadInvStep
  <1>5. def \in Seq(Fields) /\ WellFormed(def) /\ start \in Nat
    BY <1>1 DEF ReadTypeOK, LayoutTypeOK
  <1>6. PICK c : Generation(c) /\ (Regular => \E tr : Trace(tr) /\ (NoBitsAroundNested => Follows(tr, c)))
    BY DEF AgreementInv
  <1>7. CASE Define /\ UNCHANGED compiledVars
    <2>1. /\ ~Laid /\ UNCHANGED <<def, stream, start, pos, bb, vals, sizes, outcome>>
      BY <1>7 DEF Define, LayoutNext, BitFieldOpens, BitFieldJoins, PlainField
    <2>2. vals = <<>> /\ outcome = "reading" /\ NotStarted /\ pos = start /\ bb = Empty
      BY <1>1, <2>1 DEF ReadInv
    <2>3. PICK t : Trace(t)
      BY <1>5, <2>2, NothingRead
    <2>4. Trace(t)'
      BY <2>1, <2>3, SameTrace
    <2> QED BY <1>3, <1>4, <1>7, <2>1, <2>2, <2>4, WaitsStep
  <1>8. CASE Generate /\ UNCHANGED readVars
    <2>1. UNCHANGED <<def, lay, offs, stream, start, pos, bb, vals, sizes, outcome>>
          /\ UNCHANGED <<ip, cpos, cbb, cvals, csizes, coutcome>>
      BY <1>8 DEF readVars, Generate
    <2>2. ~gen.finished
      BY <1>8 DEF Generate, GenNested, GenBits, GenStatic, GenDynamic, GenEnd, Generating
    <2>3. outcome = "reading" /\ NotStarted
      BY <1>1, <2>2
    <2>4. NotStarted'
      BY <2>1, <2>3 DEF NotStarted
    <2>5. PICK d : Generation(d)'
      BY <1>5, <1>6, <1>8, <2>1, GenerateStep
    <2>6. CompiledTypeOK'
      BY <1>1, <1>8, <2>1, <2>3, <2>5, GenerateTypes DEF NotStarted
    <2>7. d[1] = 1
      BY <2>5 DEF Generation, IsGeneration, Blocks
    <2>8. (~Laid => vals = <<>> /\ outcome = "reading")'
      BY <1>1, <2>1 DEF Laid
    <2>9. ASSUME Regular' PROVE \E t : Trace(t)' /\ Follows(t, d)'
      <3>1. Regular
        BY <2>1, <2>9 DEF Regular, RegularField, FollowsBits
      <3>2. PICK tr : Trace(tr)
        BY <1>6, <3>1
      <3>3. Trace(tr)'
        BY <2>1, <3>2, SameTrace
      <3>4. vals' \in Seq(Values)
        BY <1>3 DEF ReadTypeOK
      <3> QED BY <2>4, <2>7, <3>3, <3>4, StartFollowsNext
    <2> QED BY <1>3, <1>4, <2>1, <2>3, <2>4, <2>5, <2>6, <2>8, <2>9 DEF AgreementInv
  <1>9. CASE gen.finished /\ ReadField /\ UNCHANGED compiledVars
    <2>1. Reading /\ UNCHANGED <<def, lay, stream, start>>
      BY <1>9 DEF ReadField, ReadBitsOfUnit, ReadBitsOfNewUnit, ReadBitsBeyondUnit, ReadPlain, ReadShort
    <2>2. Laid /\ Laid' /\ NotStarted
      BY <1>1, <2>1 DEF Reading, Laid
    <2>3. ASSUME Regular' PROVE \E t : Trace(t)'
      <3>1. Regular
        BY <2>1, <2>3 DEF Regular, RegularField, FollowsBits
      <3>2. PICK tr : Trace(tr)
        BY <1>6, <3>1
      <3> QED BY <1>1, <1>9, <3>1, <3>2, TraceStep
    <2> QED BY <1>3, <1>4, <1>9, <2>1, <2>2, <2>3, WaitsStep
  <1>10. CASE gen.finished /\ Finish /\ UNCHANGED compiledVars
    <2>1. /\ Laid /\ outcome = "reading" /\ outcome' = "done" /\ Len(vals) = Len(def)
          /\ UNCHANGED <<def, lay, offs, stream, start, pos, bb, vals, sizes>>
      BY <1>10 DEF Finish
    <2>2. Laid' /\ NotStarted
      BY <1>1, <2>1 DEF Laid
    <2>3. ASSUME Regular' PROVE \E t : Trace(t)'
      <3>1. Regular
        BY <2>1, <2>3 DEF Regular, RegularField, FollowsBits
      <3>2. PICK tr : Trace(tr)
        BY <1>6, <3>1
      <3>3. Trace(tr)'
        BY <2>1, <3>2, SameTrace
      <3> QED BY <3>3
    <2> QED BY <1>3, <1>4, <1>10, <2>1, <2>2, <2>3, WaitsStep
  <1>11. CASE outcome # "reading" /\ Run /\ UNCHANGED readVars
    <2>1. UNCHANGED <<def, lay, offs, stream, start, pos, bb, vals, sizes, outcome>>
      BY <1>11 DEF readVars
    <2>2. UNCHANGED gen
      BY <1>11 DEF Run, RunBytes, RunReset, RunBits, RunShort, RunBitsBeyondUnit, RunEnd
    <2>3. CompiledTypeOK'
      BY <1>1, <1>6, <1>11, RunTypes
    <2>4. Generation(c)'
      BY <1>6, <2>1, <2>2, SameGeneration DEF Generation
    <2>5. (~Laid => vals = <<>> /\ outcome = "reading")'
      BY <1>1, <2>1 DEF Laid
    <2>6. ASSUME Regular'
          PROVE  \E tr : Trace(tr)' /\ (NoBitsAroundNested' => Follows(tr, c)')
      <3>1. Regular
        BY <2>1, <2>6 DEF Regular, RegularField, FollowsBits
      <3>2. PICK tr : Trace(tr) /\ (NoBitsAroundNested => Follows(tr, c))
        BY <1>6, <3>1
      <3>3. Trace(tr)'
        BY <2>1, <3>2, SameTrace
      <3>4. NoBitsAroundNested' <=> NoBitsAroundNested
        BY <2>1 DEF NoBitsAroundNested
      <3>5. NoBitsAroundNested => Follows(tr, c)'
        BY <1>1, <1>6, <1>11, <3>2, RunFollows
      <3> QED BY <3>3, <3>4, <3>5
    <2> QED BY <1>1, <1>3, <1>4, <1>11, <2>1, <2>2, <2>3, <2>4, <2>5, <2>6 DEF AgreementInv
  <1>12. CASE UNCHANGED agreementVars
    <2>1. /\ UNCHANGED <<def, lay, offs, stream, start, pos, bb, vals, sizes, outcome>>
          /\ UNCHANGED <<gen, ip, cpos, cbb, cvals, csizes, coutcome>>
      BY <1>12 DEF agreementVars, readVars, compiledVars
    <2>2. CompiledTypeOK' /\ (NotStarted' <=> NotStarted)
      BY <1>1, <2>1 DEF CompiledTypeOK, NotStarted
    <2>3. Generation(c)'
      BY <1>6, <2>1, SameGeneration DEF Generation
    <2>4. (~Laid => vals = <<>> /\ outcome = "reading")'
      BY <1>1, <2>1 DEF Laid
    <2>5. ASSUME Regular'
          PROVE  \E tr : Trace(tr)' /\ (NoBitsAroundNested' => Follows(tr, c)')
      <3>1. Regular
        BY <2>1, <2>5 DEF Regular, RegularField, FollowsBits
      <3>2. PICK tr : Trace(tr) /\ (NoBitsAroundNested => Follows(tr, c))
        BY <1>6, <3>1
      <3>3. Trace(tr)'
        BY <2>1, <3>2, SameTrace
      <3>4. NoBitsAroundNested' <=> NoBitsAroundNested
        BY <2>1 DEF NoBitsAroundNested
      <3>5. Follows(tr, c)' <=> Follows(tr, c)
        BY <2>1 DEF Follows, Dirty, WasReset, ReadLeniently
      <3> QED BY <3>2, <3>3, <3>4, <3>5
    <2> QED BY <1>1, <1>3, <1>4, <2>1, <2>2, <2>3, <2>4, <2>5 DEF AgreementInv
  <1> QED BY <1>7, <1>8, <1>9, <1>10, <1>11, <1>12 DEF AgreementNext

(***************************************************************************)
(* What both readers have gone through so far agrees, field by field.      *)
(***************************************************************************)
THEOREM AgreementInvariant == AgreementSpec => []AgreementInv
  <1> QED BY AgreementInvInit, AgreementInvStep, PTL DEF AgreementSpec

(***************************************************************************)
(* The generator and the generated reader keep their types: the fields are *)
(* all gathered when it is finished, no statement is run that is not       *)
(* there, and values and sizes are appended together.                      *)
(***************************************************************************)
THEOREM CompiledTypeCorrect == AgreementSpec => []CompiledTypeOK
  <1>1. AgreementInv => CompiledTypeOK
    BY DEF AgreementInv
  <1> QED BY <1>1, AgreementInvariant, PTL

(***************************************************************************)
(* A regular structure is read alike by the reader the Compiler generates  *)
(* and by the interpreted one, but for the two differences CompiledAgrees  *)
(* names: for every structure, stream, start and byte order, with nested   *)
(* structures of a length and without.                                     *)
(***************************************************************************)
THEOREM CompiledAgreesWithInterpreted == AgreementSpec => []CompiledAgrees
  <1>1. ASSUME AgreementInv PROVE CompiledAgrees
    <2>1. SUFFICES ASSUME BothEnded, Regular, NoBitsAroundNested
                   PROVE  SameReading
                          \/ (outcome # "ValueError" /\ coutcome = "EOFError" /\ ReadLeniently)
      BY DEF CompiledAgrees
    <2>2. PICK c, tr : Generation(c) /\ Trace(tr) /\ Follows(tr, c)
      BY <1>1, <2>1 DEF AgreementInv
    <2>3. /\ ReadTypeOK /\ CompiledTypeOK /\ outcome \in {"done", "EOFError"}
          /\ coutcome \in {"done", "EOFError"}
      BY <1>1, <2>1, <2>2 DEF AgreementInv, BothEnded, Trace, Follows, ReadTypeOK, CompiledTypeOK,
                              Outcomes, COutcomes
    <2>4. CASE coutcome = "EOFError"
      BY <2>2, <2>3, <2>4 DEF Follows, SameReading
    <2>5. CASE coutcome = "done"
      <3>1. PICK k : k = c[ip]
        OBVIOUS
      <3>2. /\ k = Len(def) + 1 /\ k \in 1 .. Len(tr) /\ Len(cvals) = k - 1 /\ Len(csizes) = k - 1
            /\ \A i \in 1 .. k - 1 : cvals[i] = vals[i] /\ csizes[i] = sizes[i]
            /\ cpos = tr[k].pos
        BY <2>2, <2>5, <3>1 DEF Follows
      <3>3. Len(tr) = Len(vals) + 1 /\ Len(vals) \in 0 .. Len(def) /\ Len(def) \in Nat
            /\ Len(sizes) = Len(vals)
        BY <2>2, <2>3 DEF Trace, ReadTypeOK, LayoutTypeOK
      <3>4. Len(vals) = Len(def) /\ k = Len(tr)
        BY <3>2, <3>3
      <3>5. outcome = "done"
        BY <2>2, <2>3, <3>3, <3>4 DEF Trace
      <3>6. pos = cpos \/ (Len(stream) <= cpos /\ cpos <= pos)
        BY <2>2, <3>2, <3>4, <3>5 DEF Trace
      <3>7. vals \in Seq(Values) /\ cvals \in Seq(Values) /\ Len(cvals) = Len(vals)
            /\ sizes \in Seq(Nat \cup {None}) /\ csizes \in Seq(Nat \cup {None})
            /\ Len(csizes) = Len(sizes)
        BY <2>3, <3>2, <3>3, <3>4 DEF ReadTypeOK, CompiledTypeOK
      <3>8. k - 1 = Len(vals)
        BY <3>3, <3>4
      <3>9. vals = cvals
        <4>1. PICK x \in Seq(Values), y \in Seq(Values) : x = vals /\ y = cvals
          BY <3>7
        <4>2. Len(x) = Len(y) /\ \A i \in 1 .. Len(x) : x[i] = y[i]
          BY <3>2, <3>7, <3>8, <4>1
        <4>3. x = y
          BY <4>2
        <4> QED BY <4>1, <4>3
      <3>10. sizes = csizes
        <4>1. PICK x \in Seq(Nat \cup {None}), y \in Seq(Nat \cup {None}) : x = sizes /\ y = csizes
          BY <3>7
        <4>2. Len(x) = Len(y) /\ \A i \in 1 .. Len(x) : x[i] = y[i]
          BY <3>2, <3>3, <3>7, <3>8, <4>1
        <4>3. x = y
          BY <4>2
        <4> QED BY <4>1, <4>3
      <3> QED BY <2>5, <3>5, <3>6, <3>9, <3>10 DEF SameReading
    <2> QED BY <2>3, <2>4, <2>5
  <1> QED BY <1>1, AgreementInvariant, PTL

=============================================================================

---------------------------- MODULE ParserProofs ----------------------------
(***************************************************************************)
(* What is proved of the registry and of loads: that the state keeps its   *)
(* types, that eol() does not fail, that declared names lead to types at   *)
(* once, that compiled structures find the types they look up, that        *)
(* anonymous members keep apart, and that names keep their meaning.        *)
(***************************************************************************)
EXTENDS LegacyParser, WellFoundedInduction, TLAPS

-----------------------------------------------------------------------------
(* The inductive invariant *)

\* A reference leads to a name.
ReferencesRefer == \A n \in references : typedefs[n] \in Words

\* A type that has a declared name is known by the name it was made with, unless
\* the caller has made that name a reference.
NamesAreFirst ==
    \A n \in DOMAIN typedefs \ references : typedefs[n] \in DOMAIN objects =>
       LET name == objects[typedefs[n]].name IN
       name \in references \/ (name \in DOMAIN typedefs /\ typedefs[name] = typedefs[n])

RegistryInv ==
    /\ DOMAIN typedefs \subseteq Words
    /\ \A n \in DOMAIN typedefs :
          typedefs[n] \in Words \cup {NoneType} \cup DOMAIN objects
    /\ references \subseteq DOMAIN typedefs
    /\ objects \in Seq(Objects)
    /\ ReferencesRefer
    /\ DeclaredNamesAreDirect
    /\ NamesAreFirst

\* What a scanner guarantees of any end of a text
LooksAhead(ts) ==
    \A i \in DOMAIN ts :
       /\ ts[i].kind \in {"NAME", "DEFS", "ENUM"} => i < Len(ts) /\ ts[i + 1].kind = "EOL"
       /\ ts[i].kind \in {"NAME", "IDENTIFIER", "DEFINE", "ENUM"} => Len(ts[i].words) > 0

IsText(ts) == ts \in Seq(Tokens) /\ LooksAhead(ts)

\* The anonymous members of a structure have numbers below n, each its own.
Apart(fields, n) ==
    /\ \A k \in DOMAIN fields :
          fields[k].name \in Words \cup ({"anonymous"} \X (0 .. n - 1))
    /\ \A j, k \in DOMAIN fields :
          j < k /\ fields[j].name \notin Words => fields[j].name # fields[k].name

AllApart(structures, n) == \A i \in DOMAIN structures : Apart(structures[i].fields, n)

\* Matches of the old syntax: an enum has a name.
IsTodo(text) ==
    /\ text \in Seq(Declarations)
    /\ \A i \in DOMAIN text : text[i].kind = "enum" => text[i].tag # <<>>

CallsInv ==
    /\ anonymous \in Nat
    /\ consts \subseteq Words
    /\ IsText(tokens)
    /\ flags \in BOOLEAN
    /\ compiled \in BOOLEAN
    /\ stack \in Seq(Calls)
    /\ outcome \in Outcomes \ {"eol failed"}
    /\ outcome # "parsing" => stack = <<>>
    /\ IsTodo(todo)
    /\ todo # <<>> => outcome # "parsing"
    /\ AllApart(stack, anonymous)
    /\ AllApart(objects, anonymous)

ParseInv == RegistryInv /\ CallsInv

-----------------------------------------------------------------------------
(* The registry *)

\* A set of numbers that is not empty has a least one.
LEMMA Least ==
    ASSUME NEW T \in SUBSET Nat, T # {}
    PROVE  \E x \in T : \A y \in T : x <= y
  <1> DEFINE R == OpToRel(<, Nat)
  <1>1. IsWellFoundedOn(R, Nat)
    BY NatLessThanWellFounded
  <1>2. \E x \in T : \A y \in T : ~ (<<y, x>> \in R)
    <2> HIDE DEF R
    <2> QED BY <1>1, WFMin
  <1>3. \A x, y \in Nat : y < x => <<y, x>> \in R
    BY DEF OpToRel
  <1>4. PICK x \in T : \A y \in T : ~ (<<y, x>> \in R)
    BY <1>2
  <1>5. ASSUME NEW y \in T PROVE x <= y
    <2>1. x \in Nat /\ y \in Nat /\ ~ (y < x)
      BY <1>3, <1>4
    <2> QED BY <2>1
  <1>6. QED
    BY <1>5

\* One reference is followed, if x is one.
Follows(x) == IF x \in DOMAIN typedefs THEN typedefs[x] ELSE x

\* g is the names and types that a name leads to, up to n references away.
Chain(g, name, n) == g = [k \in 0 .. n |-> IF k = 0 THEN name ELSE Follows(g[k - 1])]

\* There is a chain of any length: the shortest that is missing could be made longer by one.
LEMMA Chains == \A name : \A n \in Nat : \E g : Chain(g, name, n)
  <1> SUFFICES ASSUME NEW name PROVE \A n \in Nat : \E g : Chain(g, name, n)
    OBVIOUS
  <1> DEFINE T == {n \in Nat : ~ \E g : Chain(g, name, n)}
  <1> SUFFICES ASSUME T # {} PROVE FALSE
    OBVIOUS
  <1>1. PICK n \in T : \A m \in T : n <= m
    BY Least
  <1>2. CASE n = 0
    <2>1. Chain([k \in 0 .. 0 |-> name], name, 0)
      BY DEF Chain
    <2> QED BY <2>1, <1>2
  <1>3. CASE n > 0
    <2>1. n - 1 \in Nat /\ n - 1 \notin T
      BY <1>1, <1>3
    <2>2. PICK g : Chain(g, name, n - 1)
      BY <2>1
    <2> DEFINE h == [k \in 0 .. n |-> IF k = n THEN Follows(g[n - 1]) ELSE g[k]]
    <2>3. ASSUME NEW k \in 0 .. n
          PROVE  h[k] = IF k = 0 THEN name ELSE Follows(h[k - 1])
      <3>1. CASE k = n
        BY <1>3, <2>1, <3>1
      <3>2. CASE k # n
        BY <1>3, <2>1, <2>2, <3>2 DEF Chain
      <3> QED BY <3>1, <3>2
    <2>4. Chain(h, name, n)
      BY <2>3 DEF Chain
    <2> QED BY <2>4
  <1>4. QED
    BY <1>2, <1>3

\* Where a name leads is the end of a chain.
LEMMA ReachedIsEnd ==
    ASSUME NEW name, NEW n \in Nat
    PROVE  \E g : Chain(g, name, n) /\ Reached(name, n) = g[n]
  <1> DEFINE P(g) == g = [k \in 0 .. n |-> IF k = 0 THEN name
                                           ELSE IF g[k - 1] \in DOMAIN typedefs THEN typedefs[g[k - 1]]
                                           ELSE g[k - 1]]
             c == CHOOSE g : P(g)
  <1>1. \E g : P(g)
    <2>1. PICK g : Chain(g, name, n)
      BY Chains
    <2>2. P(g)
      BY <2>1 DEF Chain, Follows
    <2> HIDE DEF P
    <2> QED BY <2>2
  <1>2. P(c)
    <2> HIDE DEF P
    <2> QED BY <1>1
  <1>3. Reached(name, n) = c[n]
    BY DEF Reached
  <1> QED BY <1>2, <1>3 DEF Chain, Follows

\* What can be reached in n steps, one step after another
LEMMA ReachedSteps ==
    \A name : /\ Reached(name, 0) = name
              /\ \A n \in Nat : Reached(name, n + 1) = Follows(Reached(name, n))
  <1> TAKE name
  <1>1. ASSUME NEW g, NEW h, NEW n \in Nat, NEW m \in Nat, n <= m,
               Chain(g, name, n), Chain(h, name, m)
        PROVE  \A k \in 0 .. n : g[k] = h[k]
    <2> DEFINE T == {k \in 0 .. n : g[k] # h[k]}
    <2> SUFFICES ASSUME T # {} PROVE FALSE
      OBVIOUS
    <2>1. PICK k \in T : \A j \in T : k <= j
      <3>1. T \in SUBSET Nat
        OBVIOUS
      <3> HIDE DEF T
      <3> QED BY <3>1, Least
    <2>2. CASE k = 0
      BY <1>1, <2>1, <2>2 DEF Chain
    <2>3. CASE k # 0
      <3>1. k - 1 \in 0 .. n /\ k - 1 \notin T
        BY <2>1, <2>3
      <3>2. g[k] = Follows(g[k - 1]) /\ h[k] = Follows(h[k - 1])
        BY <1>1, <2>1, <2>3 DEF Chain
      <3> QED BY <2>1, <3>1, <3>2
    <2> QED BY <2>2, <2>3
  <1>2. Reached(name, 0) = name
    BY ReachedIsEnd DEF Chain
  <1>3. ASSUME NEW n \in Nat PROVE Reached(name, n + 1) = Follows(Reached(name, n))
    <2>1. PICK g : Chain(g, name, n) /\ Reached(name, n) = g[n]
      BY ReachedIsEnd
    <2>2. PICK h : Chain(h, name, n + 1) /\ Reached(name, n + 1) = h[n + 1]
      BY ReachedIsEnd
    <2>3. g[n] = h[n]
      BY <1>1, <2>1, <2>2
    <2>4. h[n + 1] = Follows(h[n])
      BY <2>2 DEF Chain
    <2> QED BY <2>1, <2>2, <2>3, <2>4
  <1> QED BY <1>2, <1>3

\* A name leads to a name, or to a type that some name stands for.
LEMMA ReachedType ==
    ASSUME RegistryInv, NEW w \in Words, NEW n \in Nat
    PROVE  \/ Reached(w, n) \in Words
           \/ /\ Reached(w, n) \in {NoneType} \cup DOMAIN objects
              /\ \E m \in DOMAIN typedefs : typedefs[m] = Reached(w, n)
  <1> DEFINE Good(x) ==
         \/ x \in Words
         \/ /\ x \in {NoneType} \cup DOMAIN objects
            /\ \E m \in DOMAIN typedefs : typedefs[m] = x
  <1> DEFINE T == {k \in Nat : ~Good(Reached(w, k))}
  <1>1. ASSUME T # {} PROVE FALSE
    <2>1. PICK k \in T : \A j \in T : k <= j
      <3>1. T \in SUBSET Nat
        OBVIOUS
      <3> HIDE DEF T
      <3> QED BY <1>1, <3>1, Least
    <2>2. CASE k = 0
      <3>1. Reached(w, 0) = w
        BY ReachedSteps
      <3> QED BY <2>1, <2>2, <3>1
    <2>3. CASE k # 0
      <3>1. k - 1 \in Nat /\ Good(Reached(w, k - 1))
        <4>1. k \in Nat /\ k - 1 \in Nat /\ k - 1 \notin T
          BY <2>1, <2>3
        <4> QED BY <4>1
      <3>2. Reached(w, (k - 1) + 1) = Follows(Reached(w, k - 1))
        BY <3>1, ReachedSteps
      <3>3. \A x : Good(x) => Good(Follows(x))
        BY DEF Follows, RegistryInv
      <3>4. (k - 1) + 1 = k /\ ~Good(Reached(w, k))
        BY <2>1, <2>3
      <3> HIDE DEF Good
      <3> QED BY <3>1, <3>2, <3>3, <3>4
    <2> QED BY <2>2, <2>3
  <1>2. n \notin T
    BY <1>1
  <1> QED BY <1>2

LEMMA ResolvedType ==
    ASSUME RegistryInv, NEW w \in Words, Resolve(w) # Unresolved
    PROVE  /\ Resolve(w) \in {NoneType} \cup DOMAIN objects
           /\ \E m \in DOMAIN typedefs : typedefs[m] = Resolve(w)
  <1>1. Resolve(w) = Reached(w, Hops) /\ Reached(w, Hops) \notin Words
    BY DEF Resolve
  <1>2. Hops \in Nat
    BY HopsAssumption
  <1> QED BY <1>1, <1>2, ReachedType

\* A name that is known stays known, and stands for the same.
Extends ==
    /\ DOMAIN typedefs' \subseteq Words
    /\ \A m \in DOMAIN typedefs : m \in DOMAIN typedefs' /\ typedefs'[m] = typedefs[m]

\* Where a chain ends, it stays.
LEMMA ReachedEnd ==
    ASSUME NEW w, NEW n \in Nat, Reached(w, n) \notin DOMAIN typedefs, NEW d \in Nat
    PROVE  Reached(w, n + d) = Reached(w, n)
  <1> DEFINE T == {k \in Nat : Reached(w, n + k) # Reached(w, n)}
  <1>1. ASSUME T # {} PROVE FALSE
    <2>1. PICK k \in T : \A j \in T : k <= j
      <3>1. T \in SUBSET Nat
        OBVIOUS
      <3> HIDE DEF T
      <3> QED BY <1>1, <3>1, Least
    <2>2. k # 0
      <3>1. n + 0 = n
        OBVIOUS
      <3> QED BY <2>1, <3>1
    <2>3. k - 1 \in Nat /\ Reached(w, n + (k - 1)) = Reached(w, n)
      <3>1. k \in Nat /\ k - 1 \in Nat /\ k - 1 \notin T
        BY <2>1, <2>2
      <3> QED BY <3>1
    <2>4. PICK i \in Nat : i = n + (k - 1) /\ i + 1 = n + k
      BY <2>3
    <2>5. Reached(w, i + 1) = Follows(Reached(w, i))
      BY ReachedSteps
    <2>6. Reached(w, i + 1) = Reached(w, n)
      BY <2>3, <2>4, <2>5 DEF Follows
    <2> QED BY <2>1, <2>4, <2>6
  <1> QED BY <1>1

\* If no name is lost or changed, a name that resolves keeps its meaning.
LEMMA MeaningKept ==
    ASSUME Extends, NEW w \in Words, Resolve(w) # Unresolved
    PROVE  Resolve(w)' = Resolve(w)
  <1>1. Resolve(w) = Reached(w, Hops) /\ Reached(w, Hops) \notin Words
    BY DEF Resolve
  <1>2. Hops \in Nat
    BY HopsAssumption
  <1>3. (/\ Reached(w, 0) = w
         /\ \A n \in Nat : Reached(w, n + 1) = Follows(Reached(w, n)))'
    <2>1. (\A name : /\ Reached(name, 0) = name
                     /\ \A n \in Nat : Reached(name, n + 1) = Follows(Reached(name, n)))'
      BY ReachedSteps, PTL
    <2> QED BY <2>1
  <1>4. ASSUME NEW k \in Nat, k < Hops, Reached(w, k)' = Reached(w, k)
        PROVE  Reached(w, k + 1)' = Reached(w, k + 1)
    <2>1. PICK x : x = Reached(w, k)
      OBVIOUS
    <2>2. Reached(w, k + 1) = IF x \in DOMAIN typedefs THEN typedefs[x] ELSE x
      BY <2>1, ReachedSteps DEF Follows
    <2>3. Reached(w, k + 1)' = IF x \in DOMAIN typedefs' THEN typedefs'[x] ELSE x
      BY <2>1, <1>3, <1>4 DEF Follows
    <2>4. CASE x \in DOMAIN typedefs
      BY <2>2, <2>3, <2>4 DEF Extends
    <2>5. CASE x \notin DOMAIN typedefs
      <3>1. Reached(w, k + (Hops - k)) = Reached(w, k)
        <4>1. Hops - k \in Nat
          BY <1>2, <1>4
        <4> QED BY <4>1, <2>1, <2>5, ReachedEnd
      <3>2. k + (Hops - k) = Hops
        BY <1>2
      <3>3. x \notin DOMAIN typedefs'
        BY <1>1, <2>1, <3>1, <3>2 DEF Extends
      <3> QED BY <2>2, <2>3, <2>5, <3>3
    <2> QED BY <2>4, <2>5
  <1> DEFINE T == {k \in 0 .. Hops : Reached(w, k)' # Reached(w, k)}
  <1>5. ASSUME T # {} PROVE FALSE
    <2>1. PICK k \in T : \A j \in T : k <= j
      <3>1. T \in SUBSET Nat
        BY <1>2
      <3> HIDE DEF T
      <3> QED BY <1>5, <3>1, Least
    <2>2. k # 0
      <3>1. Reached(w, 0)' = Reached(w, 0)
        BY <1>3, ReachedSteps
      <3> QED BY <2>1, <3>1
    <2>3. PICK j \in Nat : k = j + 1 /\ j < Hops
      BY <1>2, <2>1, <2>2
    <2>4. Reached(w, j)' = Reached(w, j)
      <3>1. j \notin T /\ j \in 0 .. Hops
        BY <1>2, <2>1, <2>3
      <3> QED BY <3>1
    <2>5. Reached(w, j + 1)' = Reached(w, j + 1)
      BY <1>4, <2>3, <2>4
    <2> QED BY <2>1, <2>3, <2>5
  <1>6. Reached(w, Hops)' = Reached(w, Hops)
    BY <1>2, <1>5
  <1> QED BY <1>1, <1>6 DEF Resolve

-----------------------------------------------------------------------------
(* What a step may do to the registry *)

\* Nothing is named, though a type may have been made.
NothingNamed ==
    /\ UNCHANGED <<typedefs, references>>
    /\ objects' = objects \/ \E o \in Objects : objects' = Append(objects, o)

\* A new type is given names, its own first.
TypeNamed ==
    \E o \in Objects, names \in Seq(Words) :
       /\ names # <<>>
       /\ names[1] = o.name
       /\ objects' = Append(objects, o)
       /\ typedefs' = Registered(names, Len(objects) + 1)
       /\ UNCHANGED references

\* A type that a name resolves to, or None, is given names.
MoreNames ==
    \E names \in Seq(Words), type \in {NoneType} \cup {Resolve(w) : w \in Words} :
       /\ type # Unresolved
       /\ typedefs' = Registered(names, type)
       /\ UNCHANGED <<references, objects>>

\* Names are registered for another name.
NamesReferred ==
    \E names \in Seq(Words), w \in Words :
       /\ typedefs' = Registered(names, w)
       /\ references' = references \cup {names[i] : i \in Free(names)}
       /\ UNCHANGED objects

ReferenceAdded ==
    \E name, reference \in Words : AddReference(name, reference) /\ UNCHANGED objects

ReferenceReplaced ==
    \E name, reference \in Words : ReplaceByReference(name, reference) /\ UNCHANGED objects

\* One element is added at the end.
LEMMA Appended ==
    ASSUME NEW S, NEW s \in Seq(S), NEW e \in S
    PROVE  /\ Append(s, e) \in Seq(S)
           /\ DOMAIN Append(s, e) = DOMAIN s \cup {Len(s) + 1}
           /\ Len(s) + 1 \notin DOMAIN s
           /\ \A i \in DOMAIN s : Append(s, e)[i] = s[i]
           /\ Append(s, e)[Len(s) + 1] = e
  <1>1. DOMAIN s = 1 .. Len(s) /\ Len(s) \in Nat
    OBVIOUS
  <1>2. DOMAIN Append(s, e) = 1 .. Len(s) + 1
    OBVIOUS
  <1>3. 1 .. Len(s) + 1 = 1 .. Len(s) \cup {Len(s) + 1}
    BY <1>1
  <1> QED BY <1>1, <1>2, <1>3

\* What addtype does with names that may be taken
LEMMA RegisteredNames ==
    ASSUME RegistryInv, NEW names \in Seq(Words), NEW type
    PROVE  /\ DOMAIN Registered(names, type) \subseteq Words
           /\ \A m \in DOMAIN typedefs : /\ m \in DOMAIN Registered(names, type)
                                        /\ Registered(names, type)[m] = typedefs[m]
           /\ \A m \in DOMAIN Registered(names, type) \ DOMAIN typedefs :
                 /\ Registered(names, type)[m] = type
                 /\ m \in {names[i] : i \in Free(names)}
                 /\ 1 \in Free(names)
           /\ \A i \in Free(names) : /\ names[i] \in DOMAIN Registered(names, type) \ DOMAIN typedefs
                                    /\ Registered(names, type)[names[i]] = type
  <1> DEFINE new == {names[i] : i \in Free(names)}
  <1>1. DOMAIN names = 1 .. Len(names) /\ Len(names) \in Nat
    OBVIOUS
  <1>2. \A i \in Free(names) : i \in DOMAIN names /\ names[i] \in Words /\ names[i] \notin DOMAIN typedefs
    BY <1>1 DEF Free
  <1>3. \A i \in Free(names) : 1 \in Free(names)
    <2> SUFFICES ASSUME NEW i \in Free(names) PROVE 1 \in Free(names)
      OBVIOUS
    <2>1. 1 \in DOMAIN names /\ 1 \in 1 .. i
      BY <1>1 DEF Free
    <2>2. names[1] \notin DOMAIN typedefs
      BY <2>1 DEF Free
    <2>3. \A j \in 1 .. 1 : j = 1 /\ 1 .. j - 1 = {}
      OBVIOUS
    <2> QED BY <2>1, <2>2, <2>3 DEF Free
  <1>4. new \subseteq Words /\ new \cap DOMAIN typedefs = {}
    BY <1>2
  <1>5. \A m \in new : 1 \in Free(names)
    BY <1>3
  <1>6. Registered(names, type) = [n \in DOMAIN typedefs \cup new |-> IF n \in new THEN type ELSE typedefs[n]]
    BY DEF Registered
  <1>7. DOMAIN typedefs \subseteq Words
    BY DEF RegistryInv
  <1>8. \A i \in Free(names) : names[i] \in new
    OBVIOUS
  <1> HIDE DEF new
  <1>9. \A m \in DOMAIN Registered(names, type) \ DOMAIN typedefs :
           Registered(names, type)[m] = type /\ m \in new /\ 1 \in Free(names)
    BY <1>4, <1>5, <1>6
  <1> QED BY <1>4, <1>6, <1>7, <1>8, <1>9 DEF new

LEMMA NothingNamedSafe == RegistryInv /\ NothingNamed => RegistryInv' /\ Extends
  <1> SUFFICES ASSUME RegistryInv, NothingNamed PROVE RegistryInv' /\ Extends
    OBVIOUS
  <1>1. /\ objects' \in Seq(Objects)
        /\ DOMAIN objects \subseteq DOMAIN objects'
        /\ DOMAIN objects' \subseteq DOMAIN objects \cup {Len(objects) + 1}
        /\ \A i \in DOMAIN objects : objects'[i] = objects[i]
    <2>1. CASE objects' = objects
      BY <2>1 DEF RegistryInv
    <2>2. ASSUME NEW o \in Objects, objects' = Append(objects, o)
          PROVE  <1>1!:
      BY <2>2, Appended DEF RegistryInv
    <2> QED BY <2>1, <2>2 DEF NothingNamed
  <1>3. Len(objects) + 1 \notin Words /\ Len(objects) + 1 # NoneType /\ Len(objects) + 1 \notin DOMAIN objects
    BY UnresolvedAssumption DEF RegistryInv
  <1>4. typedefs' = typedefs /\ references' = references
    BY DEF NothingNamed
  <1>5. \A n \in DOMAIN typedefs : typedefs[n] \in DOMAIN objects' => typedefs[n] \in DOMAIN objects
    BY <1>1, <1>3 DEF RegistryInv
  <1>6. NamesAreFirst'
    BY <1>1, <1>4, <1>5 DEF NamesAreFirst, RegistryInv
  <1> QED BY <1>1, <1>4, <1>6 DEF RegistryInv, ReferencesRefer, DeclaredNamesAreDirect, Extends

LEMMA TypeNamedSafe == RegistryInv /\ TypeNamed => RegistryInv' /\ Extends
  <1> SUFFICES ASSUME RegistryInv,
                      NEW o \in Objects, NEW names \in Seq(Words),
                      names # <<>>, names[1] = o.name,
                      objects' = Append(objects, o),
                      typedefs' = Registered(names, Len(objects) + 1),
                      references' = references
               PROVE  RegistryInv' /\ Extends
    BY DEF TypeNamed
  <1>1. PICK type : type = Len(objects) + 1
    OBVIOUS
  <1>2. /\ objects' \in Seq(Objects)
        /\ DOMAIN objects' = DOMAIN objects \cup {type}
        /\ \A i \in DOMAIN objects : objects'[i] = objects[i]
        /\ objects'[type] = o
    BY <1>1, Appended DEF RegistryInv
  <1>3. type \notin Words /\ type # NoneType
    BY <1>1, UnresolvedAssumption DEF RegistryInv
  <1>4. typedefs' = Registered(names, type)
    BY <1>1
  <1>5. Extends
    BY <1>4, RegisteredNames DEF Extends
  <1>6. \A m \in DOMAIN typedefs' \ DOMAIN typedefs :
           typedefs'[m] = type /\ names[1] \in DOMAIN typedefs' /\ typedefs'[names[1]] = type
    BY <1>4, RegisteredNames
  <1>7. \A m \in DOMAIN typedefs' : typedefs'[m] \in Words \cup {NoneType} \cup DOMAIN objects'
    BY <1>2, <1>5, <1>6 DEF Extends, RegistryInv
  <1>8. ReferencesRefer' /\ references' \subseteq DOMAIN typedefs'
    BY <1>5 DEF Extends, RegistryInv, ReferencesRefer
  <1>9. DeclaredNamesAreDirect'
    BY <1>3, <1>5, <1>6 DEF Extends, RegistryInv, DeclaredNamesAreDirect
  <1>10. NamesAreFirst'
    <2> SUFFICES ASSUME NEW n \in DOMAIN typedefs' \ references, typedefs'[n] \in DOMAIN objects'
                 PROVE  LET name == objects'[typedefs'[n]].name
                        IN name \in references \/ (name \in DOMAIN typedefs' /\ typedefs'[name] = typedefs'[n])
      BY DEF NamesAreFirst
    <2>1. CASE n \in DOMAIN typedefs
      <3>1. typedefs'[n] = typedefs[n] /\ typedefs[n] # type
        BY <1>1, <1>3, <1>5, <2>1, Appended DEF Extends, RegistryInv
      <3>2. typedefs[n] \in DOMAIN objects /\ objects'[typedefs'[n]] = objects[typedefs[n]]
        BY <1>2, <3>1
      <3> QED BY <1>5, <2>1, <3>1, <3>2 DEF Extends, RegistryInv, NamesAreFirst
    <2>2. CASE n \notin DOMAIN typedefs
      BY <1>2, <1>6, <2>2
    <2> QED BY <2>1, <2>2
  <1> QED BY <1>2, <1>5, <1>7, <1>8, <1>9, <1>10 DEF RegistryInv, Extends

LEMMA MoreNamesSafe == RegistryInv /\ MoreNames => RegistryInv' /\ Extends
  <1> SUFFICES ASSUME RegistryInv,
                      NEW names \in Seq(Words),
                      NEW type \in {NoneType} \cup {Resolve(w) : w \in Words},
                      type # Unresolved,
                      typedefs' = Registered(names, type),
                      references' = references, objects' = objects
               PROVE  RegistryInv' /\ Extends
    BY DEF MoreNames
  <1>1. /\ type \in {NoneType} \cup DOMAIN objects
        /\ type # NoneType => \E m \in DOMAIN typedefs : typedefs[m] = type
    BY ResolvedType
  <1>2. type \notin Words
    BY <1>1, UnresolvedAssumption DEF RegistryInv
  <1>3. Extends
    BY RegisteredNames DEF Extends
  <1>4. \A m \in DOMAIN typedefs' \ DOMAIN typedefs : typedefs'[m] = type
    BY RegisteredNames
  <1>5. \A m \in DOMAIN typedefs' : typedefs'[m] \in Words \cup {NoneType} \cup DOMAIN objects
    BY <1>1, <1>3, <1>4 DEF Extends, RegistryInv
  <1>6. ReferencesRefer' /\ references' \subseteq DOMAIN typedefs'
    BY <1>3 DEF Extends, RegistryInv, ReferencesRefer
  <1>7. DeclaredNamesAreDirect'
    BY <1>2, <1>3, <1>4 DEF Extends, RegistryInv, DeclaredNamesAreDirect
  <1>8. NamesAreFirst'
    <2> SUFFICES ASSUME NEW n \in DOMAIN typedefs' \ references, typedefs'[n] \in DOMAIN objects
                 PROVE  LET name == objects[typedefs'[n]].name
                        IN name \in references \/ (name \in DOMAIN typedefs' /\ typedefs'[name] = typedefs'[n])
      BY DEF NamesAreFirst
    \* The type has a name already that is no reference.
    <2>1. PICK m \in DOMAIN typedefs \ references : typedefs[m] = typedefs'[n]
      <3>1. CASE n \in DOMAIN typedefs
        BY <1>3, <3>1 DEF Extends
      <3>2. CASE n \notin DOMAIN typedefs
        <4>1. typedefs'[n] = type
          BY <1>4, <3>2
        <4>2. type # NoneType
          BY <4>1, UnresolvedAssumption DEF RegistryInv
        <4> QED BY <1>1, <1>2, <4>1, <4>2 DEF RegistryInv, ReferencesRefer
      <3> QED BY <3>1, <3>2
    <2> QED BY <1>3, <2>1 DEF Extends, RegistryInv, NamesAreFirst
  <1> QED BY <1>3, <1>5, <1>6, <1>7, <1>8 DEF RegistryInv, Extends

LEMMA NamesReferredSafe == RegistryInv /\ NamesReferred => RegistryInv' /\ Extends
  <1> SUFFICES ASSUME RegistryInv,
                      NEW names \in Seq(Words), NEW w \in Words,
                      typedefs' = Registered(names, w),
                      references' = references \cup {names[i] : i \in Free(names)},
                      objects' = objects
               PROVE  RegistryInv' /\ Extends
    BY DEF NamesReferred
  <1>1. Extends
    BY RegisteredNames DEF Extends
  <1>2. /\ \A m \in DOMAIN typedefs' \ DOMAIN typedefs : typedefs'[m] = w /\ m \in references'
        /\ \A m \in references' \ references : m \in DOMAIN typedefs' /\ typedefs'[m] = w
    BY RegisteredNames
  <1>3. \A m \in DOMAIN typedefs' : typedefs'[m] \in Words \cup {NoneType} \cup DOMAIN objects
    BY <1>1, <1>2 DEF Extends, RegistryInv
  <1>4. ReferencesRefer' /\ references' \subseteq DOMAIN typedefs'
    BY <1>1, <1>2 DEF Extends, RegistryInv, ReferencesRefer
  <1>5. DeclaredNamesAreDirect' /\ NamesAreFirst'
    BY <1>1, <1>2 DEF Extends, RegistryInv, DeclaredNamesAreDirect, NamesAreFirst
  <1> QED BY <1>1, <1>3, <1>4, <1>5 DEF RegistryInv, Extends

LEMMA ReferenceAddedSafe == RegistryInv /\ ReferenceAdded => RegistryInv' /\ Extends
  <1> SUFFICES ASSUME RegistryInv, NEW name \in Words, NEW reference \in Words,
                      AddReference(name, reference), objects' = objects
               PROVE  RegistryInv' /\ Extends
    BY DEF ReferenceAdded
  <1>1. /\ name \notin DOMAIN typedefs
        /\ DOMAIN typedefs' = DOMAIN typedefs \cup {name}
        /\ \A m \in DOMAIN typedefs' : typedefs'[m] = IF m = name THEN reference ELSE typedefs[m]
        /\ references' = references \cup {name}
    BY DEF AddReference, Set
  <1>2. Extends
    BY <1>1 DEF Extends, RegistryInv
  <1>3. NamesAreFirst'
    BY <1>1 DEF RegistryInv, NamesAreFirst
  <1> QED BY <1>1, <1>2, <1>3 DEF RegistryInv, ReferencesRefer, DeclaredNamesAreDirect

LEMMA ReferenceReplacedSafe == RegistryInv /\ ReferenceReplaced => RegistryInv'
  <1> SUFFICES ASSUME RegistryInv, NEW name \in Words, NEW reference \in Words,
                      ReplaceByReference(name, reference), objects' = objects
               PROVE  RegistryInv'
    BY DEF ReferenceReplaced
  <1>1. /\ name \in DOMAIN typedefs
        /\ DOMAIN typedefs' = DOMAIN typedefs
        /\ \A m \in DOMAIN typedefs' : typedefs'[m] = IF m = name THEN reference ELSE typedefs[m]
        /\ references' = references \cup {name}
    BY DEF ReplaceByReference, Set
  <1>2. NamesAreFirst'
    BY <1>1 DEF RegistryInv, NamesAreFirst
  <1> QED BY <1>1, <1>2 DEF RegistryInv, ReferencesRefer, DeclaredNamesAreDirect

-----------------------------------------------------------------------------
(* Texts *)

\* What is left of a text is one.
LEMMA AfterIsText ==
    ASSUME NEW ts, IsText(ts), NEW n \in Nat
    PROVE  IsText(After(ts, n))
  <1>1. ts \in Seq(Tokens) /\ DOMAIN ts = 1 .. Len(ts) /\ Len(ts) \in Nat
    BY DEF IsText
  <1>2. CASE n >= Len(ts)
    <2>1. After(ts, n) = <<>>
      BY <1>1, <1>2 DEF After
    <2> QED BY <2>1 DEF IsText, LooksAhead
  <1>3. CASE n < Len(ts)
    <2>1. PICK a : a = After(ts, n)
      OBVIOUS
    <2>2. /\ a \in Seq(Tokens)
          /\ Len(a) = Len(ts) - n
          /\ DOMAIN a = 1 .. Len(ts) - n
          /\ \A i \in 1 .. Len(ts) - n : a[i] = ts[i + n]
      <3>1. n + 1 \in 1 .. Len(ts) /\ Len(ts) \in 1 .. Len(ts)
        BY <1>1, <1>3
      <3>2. a = [i \in 1 .. Len(ts) - (n + 1) + 1 |-> ts[i + (n + 1) - 1]]
        BY <1>1, <2>1, <3>1 DEF After
      <3>3. Len(ts) - (n + 1) + 1 = Len(ts) - n /\ \A i \in Nat : i + (n + 1) - 1 = i + n
        BY <1>1
      <3>4. a = [i \in 1 .. Len(ts) - n |-> ts[i + n]]
        BY <3>2, <3>3
      <3>5. Len(ts) - n \in Nat /\ \A i \in 1 .. Len(ts) - n : ts[i + n] \in Tokens
        BY <1>1, <1>3
      <3> QED BY <3>4, <3>5
    <2>3. ASSUME NEW i \in DOMAIN a
          PROVE  /\ a[i].kind \in {"NAME", "DEFS", "ENUM"} => i < Len(a) /\ a[i + 1].kind = "EOL"
                 /\ a[i].kind \in {"NAME", "IDENTIFIER", "DEFINE", "ENUM"} => Len(a[i].words) > 0
      <3>1. PICK j \in DOMAIN ts : j = i + n
        BY <1>1, <1>3, <2>2
      <3>2. a[i] = ts[j]
        BY <2>2, <3>1
      <3>3. i < Len(a) => a[i + 1] = ts[j + 1]
        BY <1>1, <2>2, <3>1
      <3>4. j < Len(ts) => i < Len(a)
        BY <1>1, <2>2, <3>1
      <3> QED BY <3>2, <3>3, <3>4 DEF IsText, LooksAhead
    <2> QED BY <2>1, <2>2, <2>3 DEF IsText, LooksAhead
  <1> QED BY <1>1, <1>2, <1>3

LEMMA TailIsAfter ==
    ASSUME NEW ts, IsText(ts), ts # <<>>
    PROVE  Tail(ts) = After(ts, 1)
  BY DEF IsText, After

\* The next token, and what the scanner has seen behind it
LEMMA NextToken ==
    ASSUME NEW ts, IsText(ts), ts # <<>>
    PROVE  /\ Head(ts) \in Tokens
           /\ Ahead(ts) = Head(ts).kind
           /\ Ahead(ts) # "nothing"
           /\ IsText(Tail(ts))
           /\ Ahead(ts) \in {"NAME", "DEFS", "ENUM"} => Tail(ts) # <<>> /\ Eol(Tail(ts)) = "parsing"
           /\ Ahead(ts) \in {"NAME", "IDENTIFIER", "DEFINE", "ENUM"} => Head(ts).words[1] \in Words
  <1>1. ts \in Seq(Tokens) /\ Len(ts) \in Nat /\ 1 \in DOMAIN ts /\ Head(ts) = ts[1] /\ ts[1] \in Tokens
    BY DEF IsText
  <1>2. Ahead(ts) = ts[1].kind
    BY <1>1 DEF Ahead
  <1>3. ts[1].kind # "nothing"
    BY <1>1 DEF Tokens, TokenKinds
  <1>4. IsText(Tail(ts))
    BY TailIsAfter, AfterIsText
  <1>5. ASSUME Ahead(ts) \in {"NAME", "DEFS", "ENUM"}
        PROVE  Tail(ts) # <<>> /\ Eol(Tail(ts)) = "parsing"
    <2>1. 1 < Len(ts) /\ ts[2].kind = "EOL"
      BY <1>1, <1>2, <1>5 DEF IsText, LooksAhead
    <2>2. PICK rest : rest = Tail(ts)
      OBVIOUS
    <2>3. Len(rest) = Len(ts) - 1 /\ rest \in Seq(Tokens) /\ rest[1] = ts[2]
      BY <1>1, <2>1, <2>2
    <2>4. Tail(ts) # <<>> /\ Head(Tail(ts)) = ts[2]
      <3>1. Len(rest) >= 1
        BY <1>1, <2>1, <2>3
      <3>2. rest # <<>> /\ Head(rest) = rest[1]
        BY <2>3, <3>1
      <3> QED BY <2>2, <2>3, <3>2
    <2> QED BY <2>1, <2>4 DEF Eol, Ahead
  <1>6. ASSUME Ahead(ts) \in {"NAME", "IDENTIFIER", "DEFINE", "ENUM"}
        PROVE  Head(ts).words[1] \in Words
    <2>1. Len(ts[1].words) > 0
      BY <1>1, <1>2, <1>6 DEF IsText, LooksAhead
    <2>2. ts[1].words \in Seq(Words)
      BY <1>1 DEF Tokens
    <2> QED BY <1>1, <2>1, <2>2
  <1> QED BY <1>1, <1>2, <1>3, <1>4, <1>5, <1>6

\* _names returns names and leaves a text.
LEMMA NamesOfText ==
    ASSUME NEW ts, IsText(ts)
    PROVE  Names(ts).words \in Seq(Words) /\ IsText(Names(ts).rest)
  <1>1. PICK n \in {0, 1} : n = IF Ahead(ts) \in {"NAME", "DEFS"} THEN 1 ELSE 0
    OBVIOUS
  <1>2. n = 1 => ts # <<>>
    BY <1>1 DEF Ahead
  <1>3. (IF n = 1 THEN Head(ts).words ELSE <<>>) \in Seq(Words)
    <2>1. n = 1 => Head(ts) \in Tokens
      BY <1>2, NextToken
    <2> QED BY <2>1 DEF Tokens
  <1>4. PICK rest : rest = After(ts, n)
    OBVIOUS
  <1>5. IsText(rest)
    BY <1>4, AfterIsText
  <1>6. IsText(IF Ahead(rest) = "EOL" THEN Tail(rest) ELSE rest)
    BY <1>5, NextToken DEF Ahead
  <1>7. Names(ts) = [words |-> IF n = 1 THEN Head(ts).words ELSE <<>>,
                     rest |-> IF Ahead(rest) = "EOL" THEN Tail(rest) ELSE rest]
    BY <1>1, <1>4 DEF Names
  <1> QED BY <1>3, <1>6, <1>7

-----------------------------------------------------------------------------
(* Fields *)

LEMMA ApartFromMore ==
    ASSUME NEW n \in Nat, NEW structures, AllApart(structures, n)
    PROVE  AllApart(structures, n + 1)
  BY DEF AllApart, Apart

\* A field with a name of its own, or with the next number, keeps the fields apart.
LEMMA FieldAdded ==
    ASSUME NEW n \in Nat, NEW fields \in Seq(ParsedFields), NEW f \in ParsedFields,
           Apart(fields, n)
    PROVE  /\ f.name \in Words => Apart(Append(fields, f), n)
           /\ f.name = <<"anonymous", n>> => Apart(Append(fields, f), n + 1)
  <1>1. PICK g : g = Append(fields, f)
    OBVIOUS
  <1>2. /\ DOMAIN g = DOMAIN fields \cup {Len(fields) + 1}
        /\ \A i \in DOMAIN fields : g[i] = fields[i]
        /\ g[Len(fields) + 1] = f
    BY <1>1, Appended
  <1>3. \A i \in DOMAIN fields : i \in Nat /\ i < Len(fields) + 1 /\ ~ (Len(fields) + 1 < i)
    OBVIOUS
  <1>4. ASSUME f.name \in Words PROVE Apart(g, n)
    BY <1>2, <1>3, <1>4 DEF Apart
  <1>5. ASSUME f.name = <<"anonymous", n>> PROVE Apart(g, n + 1)
    <2>1. \A k \in DOMAIN g : g[k].name \in Words \cup ({"anonymous"} \X (0 .. n + 1 - 1))
      <3>1. 0 .. n - 1 \subseteq 0 .. n + 1 - 1 /\ n \in 0 .. n + 1 - 1
        OBVIOUS
      <3>2. \A k \in DOMAIN fields : fields[k].name \in Words \cup ({"anonymous"} \X (0 .. n + 1 - 1))
        BY <3>1 DEF Apart
      <3>3. f.name \in Words \cup ({"anonymous"} \X (0 .. n + 1 - 1))
        BY <1>5, <3>1
      <3> QED BY <1>2, <3>2, <3>3
    <2>2. \A k \in DOMAIN fields : fields[k].name \notin Words => fields[k].name # f.name
      BY <1>5 DEF Apart
    <2>3. \A j, k \in DOMAIN g : j < k /\ g[j].name \notin Words => g[j].name # g[k].name
      BY <1>2, <1>3, <2>2 DEF Apart
    <2> QED BY <2>1, <2>3 DEF Apart
  <1> QED BY <1>1, <1>4, <1>5

\* A field is added to the innermost structure.
LEMMA FieldInCall ==
    ASSUME NEW calls \in Seq(Calls), calls # <<>>, NEW n \in Nat, AllApart(calls, n),
           NEW name \in TypeNames, NEW type \in FieldTypes, NEW byName \in BOOLEAN
    PROVE  /\ WithField(calls, name, type, byName) \in Seq(Calls)
           /\ name \in Words => AllApart(WithField(calls, name, type, byName), n)
           /\ name = <<"anonymous", n>> => AllApart(WithField(calls, name, type, byName), n + 1)
  <1>1. PICK f \in ParsedFields : f = [name |-> name, type |-> type, byName |-> byName]
    BY DEF ParsedFields
  <1>2. PICK l \in DOMAIN calls : l = Len(calls)
    OBVIOUS
  <1>3. PICK c \in Calls : c = calls[l]
    OBVIOUS
  <1>4. Append(c.fields, f) \in Seq(ParsedFields)
    BY <1>1, Appended DEF Calls
  <1>5. PICK d \in Calls : d = [c EXCEPT !.fields = Append(c.fields, f)] /\ d.fields = Append(c.fields, f)
    <2>1. PICK e : e = [c EXCEPT !.fields = Append(c.fields, f)]
      OBVIOUS
    <2>2. PICK g \in Seq(ParsedFields) : g = Append(c.fields, f)
      BY <1>4
    <2>3. e \in Calls /\ e.fields = g
      BY <1>3, <2>1, <2>2 DEF Calls
    <2> QED BY <2>1, <2>2, <2>3
  <1>6. WithField(calls, name, type, byName) = [calls EXCEPT ![l] = d]
    BY <1>1, <1>2, <1>3, <1>5 DEF WithField
  <1>7. PICK w : w = [calls EXCEPT ![l] = d]
    OBVIOUS
  <1>8. w \in Seq(Calls) /\ DOMAIN w = DOMAIN calls /\ \A i \in DOMAIN calls : w[i] = IF i = l THEN d ELSE calls[i]
    BY <1>7
  <1>9. Apart(c.fields, n) /\ c.fields \in Seq(ParsedFields)
    BY <1>2, <1>3 DEF AllApart, Calls
  <1>10. name \in Words => Apart(d.fields, n)
    BY <1>1, <1>5, <1>9, FieldAdded
  <1>11. name = <<"anonymous", n>> => Apart(d.fields, n + 1)
    BY <1>1, <1>5, <1>9, FieldAdded
  <1>12. name \in Words => AllApart(w, n)
    BY <1>8, <1>10 DEF AllApart
  <1>13. name = <<"anonymous", n>> => AllApart(w, n + 1)
    BY <1>8, <1>11, ApartFromMore DEF AllApart
  <1> QED BY <1>6, <1>7, <1>12, <1>13

-----------------------------------------------------------------------------
(* The steps of the token parser *)

RegistryStep == NothingNamed \/ TypeNamed \/ MoreNames \/ NamesReferred \/ ReferenceAdded

\* The parser goes on, or the load is over.
GoesOn == IsText(tokens') /\ stack' \in Seq(Calls) /\ outcome' = "parsing"

IsOver == tokens' = <<>> /\ stack' = <<>> /\ outcome' \in Outcomes \ {"eol failed", "parsing"}

LEMMA EmptyText == IsText(<<>>) /\ IsTodo(<<>>) /\ \A n : AllApart(<<>>, n)
  <1>1. IsText(<<>>) /\ \A n : AllApart(<<>>, n)
    BY DEF IsText, LooksAhead, AllApart
  <1>2. <<>> \in Seq(Declarations)
    OBVIOUS
  <1> QED BY <1>1, <1>2 DEF IsTodo

LEMMA FirstOfJoined ==
    ASSUME NEW S, NEW s \in Seq(S), NEW t \in Seq(S), s # <<>>
    PROVE  s \o t \in Seq(S) /\ s \o t # <<>> /\ (s \o t)[1] = s[1]
  <1>1. Len(s) >= 1
    OBVIOUS
  <1>2. PICK u : u = s \o t
    OBVIOUS
  <1>3. u \in Seq(S) /\ Len(u) >= 1 /\ u[1] = s[1]
    BY <1>1, <1>2
  <1> QED BY <1>2, <1>3

LEMMA RaiseEnds ==
    ASSUME NEW exception \in Outcomes \ {"eol failed", "parsing"}, Raise(exception)
    PROVE  IsOver
  BY DEF Raise, IsOver

\* What is to be shown of a step of the parser
LEMMA CallsKept ==
    ASSUME CallsInv, (GoesOn /\ AllApart(stack', anonymous')) \/ IsOver,
           consts' \subseteq Words, flags' \in BOOLEAN, anonymous' \in Nat,
           AllApart(objects', anonymous'), compiled' = compiled, todo = <<>>, todo' = todo
    PROVE  CallsInv'
  <1>1. /\ IsText(tokens')
        /\ stack' \in Seq(Calls)
        /\ outcome' \in Outcomes \ {"eol failed"}
        /\ outcome' # "parsing" => stack' = <<>>
        /\ AllApart(stack', anonymous')
    <2>1. CASE GoesOn /\ AllApart(stack', anonymous')
      BY <2>1 DEF GoesOn, Outcomes
    <2>2. CASE IsOver
      <3>1. IsText(tokens') /\ AllApart(stack', anonymous')
        BY <2>2, EmptyText DEF IsOver
      <3>2. stack' \in Seq(Calls) /\ stack' = <<>>
        <4>1. <<>> \in Seq(Calls)
          OBVIOUS
        <4> QED BY <2>2, <4>1 DEF IsOver
      <3>3. outcome' \in Outcomes \ {"eol failed"}
        BY <2>2 DEF IsOver
      <3> QED BY <3>1, <3>2, <3>3
    <2> QED BY <2>1, <2>2
  <1> QED BY <1>1 DEF CallsInv

\* A structure with its fields apart is one more of them.
LEMMA StructureAdded ==
    ASSUME NEW S, NEW structures \in Seq(S), NEW n, AllApart(structures, n),
           NEW e \in S, Apart(e.fields, n)
    PROVE  AllApart(Append(structures, e), n)
  <1>1. PICK s : s = Append(structures, e)
    OBVIOUS
  <1>2. /\ DOMAIN s = DOMAIN structures \cup {Len(structures) + 1}
        /\ \A i \in DOMAIN structures : s[i] = structures[i]
        /\ s[Len(structures) + 1] = e
    BY <1>1, Appended
  <1> QED BY <1>1, <1>2 DEF AllApart

LEMMA DeclareSafe ==
    ASSUME CallsInv, Parsing, NEW names, NEW type, NEW ts, IsText(ts), Declare(names, type, ts)
    PROVE  /\ typedefs' = Registered(names, type)
           /\ (GoesOn /\ stack' = stack) \/ IsOver
  BY RaiseEnds DEF Declare, CallsInv, GoesOn, Parsing, Outcomes

LEMMA SimpleSafe ==
    ASSUME ParseInv, todo = <<>>, todo' = todo,
           \/ ConfigFlag \/ Constant \/ Lookup \/ EnumFails
           \/ UnexpectedToken \/ EndOfText \/ NoField
    PROVE  CallsInv' /\ RegistryStep
  <1> USE DEF ParseInv
  <1>1. CallsInv
    OBVIOUS
  <1>2. \A ts : IsText(ts) /\ Ahead(ts) # "nothing" => IsText(Tail(ts)) /\ ts # <<>>
    BY NextToken DEF Ahead
  <1>3. ASSUME ConfigFlag PROVE CallsInv' /\ RegistryStep
    <2>1. GoesOn /\ stack' = stack
      BY <1>2, <1>3 DEF CallsInv, ConfigFlag, AtTop, Parsing, GoesOn
    <2>2. CallsInv'
      BY <1>3, <2>1, CallsKept DEF CallsInv, ConfigFlag
    <2> QED BY <1>3, <2>2 DEF ConfigFlag, RegistryStep, NothingNamed
  <1>4. ASSUME Constant PROVE CallsInv' /\ RegistryStep
    <2>1. GoesOn /\ stack' = stack
      BY <1>2, <1>4 DEF CallsInv, Constant, AtTop, Parsing, GoesOn
    <2>2. Head(tokens).words[1] \in Words
      BY <1>2, <1>4, NextToken DEF CallsInv, Constant
    <2>3. CallsInv'
      BY <1>4, <2>1, <2>2, CallsKept DEF CallsInv, Constant
    <2> QED BY <1>4, <2>3 DEF Constant, RegistryStep, NothingNamed
  <1>5. ASSUME Lookup PROVE CallsInv' /\ RegistryStep
    <2>1. (GoesOn /\ stack' = stack) \/ IsOver
      BY <1>2, <1>5, RaiseEnds DEF CallsInv, Lookup, AtTop, Parsing, GoesOn, Outcomes
    <2>2. CallsInv'
      BY <1>5, <2>1, CallsKept DEF CallsInv, Lookup
    <2> QED BY <1>5, <2>2 DEF Lookup, RegistryStep, NothingNamed
  <1>6. ASSUME UnexpectedToken \/ NoField PROVE CallsInv' /\ RegistryStep
    <2>1. IsOver
      BY <1>6, RaiseEnds DEF UnexpectedToken, NoField, Outcomes
    <2>2. CallsInv'
      BY <1>6, <2>1, CallsKept DEF CallsInv, UnexpectedToken, NoField
    <2> QED BY <1>6, <2>2 DEF UnexpectedToken, NoField, RegistryStep, NothingNamed
  <1>7. ASSUME EndOfText PROVE CallsInv' /\ RegistryStep
    <2>1. IsOver
      BY <1>7 DEF EndOfText, AtTop, IsOver, Outcomes
    <2>2. CallsInv'
      BY <1>7, <2>1, CallsKept DEF CallsInv, EndOfText
    <2> QED BY <1>7, <2>2 DEF EndOfText, RegistryStep, NothingNamed
  <1>8. ASSUME EnumFails PROVE CallsInv' /\ RegistryStep
    <2>1. TokenEnumError \in {"ValueError", "ResolveError", "TypeError"}
      BY <1>8 DEF EnumFails, TokenEnumError, EnumError
    <2>2. IsOver
      BY <1>8, <2>1, RaiseEnds DEF EnumFails, Outcomes
    <2>3. CallsInv'
      BY <1>8, <2>2, CallsKept DEF CallsInv, EnumFails
    <2> QED BY <1>8, <2>3 DEF EnumFails, RegistryStep, NothingNamed
  <1> QED BY <1>3, <1>4, <1>5, <1>6, <1>7, <1>8

LEMMA TypedefSafe ==
    ASSUME ParseInv, todo = <<>>, todo' = todo, TypedefName \/ TypedefNothing
    PROVE  CallsInv' /\ RegistryStep
  <1>1. CallsInv /\ RegistryInv /\ IsText(tokens)
    BY DEF ParseInv, CallsInv
  <1>2. ASSUME TypedefName PROVE CallsInv' /\ RegistryStep
    <2>1. PICK names : names = Names(After(tokens, 2))
      OBVIOUS
    <2>2. names.words \in Seq(Words) /\ IsText(names.rest)
      BY <1>1, <2>1, AfterIsText, NamesOfText
    <2>3. PICK w : w = tokens[2].words[1]
      OBVIOUS
    <2>4. w \in Words
      <3>1. tokens # <<>> /\ Tail(tokens) # <<>> /\ Ahead(Tail(tokens)) = "IDENTIFIER"
        BY <1>2 DEF TypedefName, AtTypedef, Ahead
      <3>2. Head(Tail(tokens)).words[1] \in Words
        BY <1>1, <3>1, NextToken
      <3>3. Head(Tail(tokens)) = tokens[2]
        BY <1>1, <3>1 DEF IsText
      <3> QED BY <2>3, <3>2, <3>3
    <2>5. CASE Resolve(w) = Unresolved
      <3>1. IsOver /\ typedefs' = typedefs
        BY <1>2, <2>3, <2>5, RaiseEnds DEF TypedefName, Outcomes
      <3>2. CallsInv'
        BY <1>1, <1>2, <3>1, CallsKept DEF CallsInv, TypedefName
      <3> QED BY <1>2, <3>1, <3>2 DEF TypedefName, RegistryStep, NothingNamed
    <2>6. CASE Resolve(w) # Unresolved
      <3>1. Declare(names.words, Resolve(w), names.rest)
        BY <1>2, <2>1, <2>3, <2>6 DEF TypedefName
      <3>2. /\ typedefs' = Registered(names.words, Resolve(w))
            /\ (GoesOn /\ stack' = stack) \/ IsOver
        BY <1>1, <1>2, <2>2, <3>1, DeclareSafe DEF TypedefName, AtTypedef, AtTop
      <3>3. CallsInv'
        BY <1>1, <1>2, <3>2, CallsKept DEF CallsInv, TypedefName
      <3>4. MoreNames
        BY <1>2, <2>2, <2>4, <2>6, <3>2 DEF TypedefName, MoreNames
      <3> QED BY <3>3, <3>4 DEF RegistryStep
    <2> QED BY <2>5, <2>6
  <1>3. ASSUME TypedefNothing PROVE CallsInv' /\ RegistryStep
    <2>1. PICK names : names = Names(Tail(tokens))
      OBVIOUS
    <2>2. names.words \in Seq(Words) /\ IsText(names.rest)
      <3>1. tokens # <<>>
        BY <1>3 DEF TypedefNothing, AtTypedef, Ahead
      <3> QED BY <1>1, <2>1, <3>1, NextToken, NamesOfText
    <2>3. Declare(names.words, NoneType, names.rest)
      BY <1>3, <2>1 DEF TypedefNothing
    <2>4. /\ typedefs' = Registered(names.words, NoneType)
          /\ (GoesOn /\ stack' = stack) \/ IsOver
      BY <1>1, <1>3, <2>2, <2>3, DeclareSafe DEF TypedefNothing, AtTypedef, AtTop
    <2>5. CallsInv'
      BY <1>1, <1>3, <2>4, CallsKept DEF CallsInv, TypedefNothing
    <2>6. MoreNames
      BY <1>3, <2>2, <2>4, UnresolvedAssumption DEF TypedefNothing, MoreNames
    <2> QED BY <2>5, <2>6 DEF RegistryStep
  <1> QED BY <1>2, <1>3

LEMMA EnumSafe ==
    ASSUME ParseInv, todo = <<>>, todo' = todo, EnumDeclaration
    PROVE  CallsInv' /\ RegistryStep
  <1>1. CallsInv /\ RegistryInv /\ IsText(tokens)
    BY DEF ParseInv, CallsInv
  <1>2. tokens # <<>> /\ Ahead(tokens) = "ENUM" /\ Parsing
    BY DEF EnumDeclaration, Ahead, AtTop
  <1>3. PICK name \in Words : name = Head(tokens).words[1]
    BY <1>1, <1>2, NextToken
  <1>4. Eol(Tail(tokens)) = "parsing"
    BY <1>1, <1>2, NextToken
  <1>5. PICK o : o = [class |-> "enum", name |-> name, fields |-> <<>>,
                      compiled |-> FALSE, asked |-> FALSE]
    OBVIOUS
  <1>6. o \in Objects /\ o.name = name /\ o.fields = <<>>
    BY <1>5 DEF Objects, TypeNames
  <1>7. objects' = Append(objects, o) /\ typedefs' = Registered(<<name>>, Len(objects) + 1)
    BY <1>3, <1>5 DEF EnumDeclaration
  <1>8. (GoesOn /\ stack' = stack) \/ IsOver
    <2>1. IsText(After(tokens, 2))
      BY <1>1, AfterIsText
    <2> QED BY <1>1, <1>3, <1>4, <2>1, RaiseEnds DEF EnumDeclaration, GoesOn, Outcomes, CallsInv
  <1>9. AllApart(objects', anonymous)
    <2>1. Apart(o.fields, anonymous)
      BY <1>6 DEF Apart
    <2> QED BY <1>1, <1>6, <1>7, <2>1, StructureAdded DEF CallsInv, RegistryInv
  <1>10. CallsInv'
    BY <1>1, <1>8, <1>9, CallsKept DEF CallsInv, EnumDeclaration
  <1>11. TypeNamed
    <2>1. <<name>> \in Seq(Words) /\ <<name>> # <<>> /\ <<name>>[1] = name
      OBVIOUS
    <2> QED BY <1>6, <1>7, <2>1 DEF TypeNamed, EnumDeclaration
  <1> QED BY <1>10, <1>11 DEF RegistryStep

-----------------------------------------------------------------------------
(* The steps within structures *)

LEMMA StructText ==
    ASSUME IsText(tokens), AtStruct
    PROVE  /\ Parsing
           /\ IsText(StructTokens) /\ StructTokens # <<>>
           /\ Tag \in Seq(Words)
           /\ Tag # <<>> => Tag[1] \in Words
           /\ IsText(Body)
  <1>1. Parsing /\ StructTokens # <<>> /\ tokens # <<>>
    BY DEF AtStruct, Ahead, StructTokens, AtTypedef
  <1>2. IsText(StructTokens)
    BY <1>1, NextToken DEF StructTokens
  <1>3. PICK ts : ts = StructTokens
    OBVIOUS
  <1>4. Tag \in Seq(Words)
    <2>1. CASE Ahead(Tail(ts)) = "IDENTIFIER"
      <3>1. IsText(Tail(ts)) /\ Tail(ts) # <<>>
        BY <1>1, <1>2, <1>3, <2>1, NextToken DEF Ahead
      <3>2. Head(Tail(ts)) = ts[2] /\ Head(Tail(ts)) \in Tokens
        BY <1>1, <1>2, <1>3, <3>1, NextToken DEF IsText
      <3> QED BY <1>3, <2>1, <3>2 DEF Tag, Tokens
    <2>2. CASE Ahead(Tail(ts)) # "IDENTIFIER"
      BY <1>3, <2>2 DEF Tag
    <2> QED BY <2>1, <2>2
  <1>5. Tag # <<>> => Tag[1] \in Words
    BY <1>4
  <1>6. IsText(Body)
    BY <1>2, <1>4, AfterIsText DEF Body
  <1> QED BY <1>1, <1>2, <1>4, <1>5, <1>6

LEMMA OpenSafe ==
    ASSUME ParseInv, todo = <<>>, todo' = todo, OpenStruct
    PROVE  CallsInv' /\ RegistryStep
  <1>1. CallsInv /\ RegistryInv /\ IsText(tokens)
    BY DEF ParseInv, CallsInv
  <1>2. AtStruct /\ Body # <<>>
    BY DEF OpenStruct, Ahead
  <1>3. Parsing /\ Tag \in Seq(Words) /\ IsText(Tail(Body))
    BY <1>1, <1>2, StructText, NextToken
  <1>4. PICK c : c = [class |-> IF Head(StructTokens).kind = "UNION" THEN "union" ELSE "struct",
                      tag |-> Tag, fields |-> <<>>, typedef |-> AtTypedef, asked |-> flags]
    OBVIOUS
  <1>5. c \in Calls /\ c.fields = <<>>
    <2>1. PICK class \in {"struct", "union"} :
             class = IF Head(StructTokens).kind = "UNION" THEN "union" ELSE "struct"
      OBVIOUS
    <2>2. PICK typedef \in BOOLEAN : typedef = AtTypedef
      BY DEF AtTypedef, AtTop
    <2>3. <<>> \in Seq(ParsedFields)
      OBVIOUS
    <2>5. flags \in BOOLEAN
      BY <1>1 DEF CallsInv
    <2>4. c = [class |-> class, tag |-> Tag, fields |-> <<>>, typedef |-> typedef, asked |-> flags]
      BY <1>4, <2>1, <2>2
    <2> QED BY <1>3, <2>3, <2>4, <2>5 DEF Calls
  <1>6. stack' = Append(stack, c)
    BY <1>4 DEF OpenStruct
  <1>7. stack' \in Seq(Calls)
    BY <1>1, <1>5, <1>6, Appended DEF CallsInv
  <1>8. AllApart(stack', anonymous)
    <2>1. Apart(c.fields, anonymous)
      BY <1>5 DEF Apart
    <2> QED BY <1>1, <1>5, <1>6, <2>1, StructureAdded DEF CallsInv
  <1>9. GoesOn
    BY <1>3, <1>7 DEF GoesOn, OpenStruct, Parsing
  <1>10. CallsInv'
    BY <1>1, <1>8, <1>9, CallsKept DEF CallsInv, OpenStruct
  <1> QED BY <1>10 DEF OpenStruct, RegistryStep, NothingNamed

\* The type of a field, or none, is one that fields may have.
LEMMA TypesOfFields ==
    ASSUME RegistryInv
    PROVE  /\ NoneType \in FieldTypes
           /\ \A w \in Words : Resolve(w) # Unresolved => Resolve(w) \in FieldTypes
  BY ResolvedType DEF FieldTypes, RegistryInv

LEMMA ReferSafe ==
    ASSUME ParseInv, todo = <<>>, todo' = todo, ReferToStruct
    PROVE  CallsInv' /\ RegistryStep
  <1>1. CallsInv /\ RegistryInv /\ IsText(tokens)
    BY DEF ParseInv, CallsInv
  <1>2. AtStruct /\ Body # <<>> /\ Ahead(Body) = "NAME" /\ Tag # <<>> /\ Resolve(Tag[1]) # Unresolved
    BY DEF ReferToStruct, Ahead
  <1>3. Parsing /\ Tag[1] \in Words /\ IsText(Body)
    BY <1>1, <1>2, StructText
  <1>4. PICK type \in FieldTypes : type = Resolve(Tag[1])
    BY <1>1, <1>2, <1>3, TypesOfFields
  <1>5. UNCHANGED <<anonymous, consts, flags, compiled, objects, references>>
    BY DEF ReferToStruct
  <1>6. CASE stack # <<>>
    <2>1. Head(Body) \in Tokens /\ Head(Body).words[1] \in Words /\ Eol(Tail(Body)) = "parsing"
      BY <1>2, <1>3, NextToken
    <2>2. stack' = WithField(stack, Head(Body).words[1], type, Head(Body).byName)
      BY <1>4, <1>6 DEF ReferToStruct
    <2>3. stack' \in Seq(Calls) /\ AllApart(stack', anonymous)
      BY <1>1, <1>6, <2>1, <2>2, FieldInCall DEF CallsInv, Tokens, TypeNames
    <2>4. GoesOn /\ typedefs' = typedefs
      <3>1. IsText(After(Body, 2))
        BY <1>3, AfterIsText
      <3> QED BY <1>6, <2>1, <2>3, <3>1 DEF ReferToStruct, GoesOn
    <2>5. CallsInv'
      BY <1>1, <1>5, <2>3, <2>4, CallsKept DEF CallsInv
    <2> QED BY <1>5, <2>4, <2>5 DEF RegistryStep, NothingNamed
  <1>7. CASE stack = <<>> /\ AtTypedef
    <2>1. PICK names : names = Names(Body)
      OBVIOUS
    <2>2. names.words \in Seq(Words) /\ IsText(names.rest)
      BY <1>3, <2>1, NamesOfText
    <2>3. Declare(names.words, type, names.rest)
      BY <1>4, <1>7, <2>1 DEF ReferToStruct
    <2>4. /\ typedefs' = Registered(names.words, type)
          /\ (GoesOn /\ stack' = stack) \/ IsOver
      BY <1>1, <1>3, <2>2, <2>3, DeclareSafe
    <2>5. CallsInv'
      BY <1>1, <1>5, <2>4, CallsKept DEF CallsInv
    <2>6. MoreNames
      BY <1>2, <1>3, <1>4, <1>5, <2>2, <2>4 DEF MoreNames
    <2> QED BY <2>5, <2>6 DEF RegistryStep
  <1>8. CASE stack = <<>> /\ ~AtTypedef
    <2>1. tokens' = Body /\ UNCHANGED <<typedefs, stack, outcome>>
      BY <1>8 DEF ReferToStruct
    <2>2. GoesOn
      BY <1>1, <1>3, <2>1 DEF GoesOn, Parsing, CallsInv
    <2>3. CallsInv'
      BY <1>1, <1>5, <2>1, <2>2, CallsKept DEF CallsInv
    <2> QED BY <1>5, <2>1, <2>3 DEF RegistryStep, NothingNamed
  <1> QED BY <1>6, <1>7, <1>8

LEMMA StructFailsSafe ==
    ASSUME ParseInv, todo = <<>>, todo' = todo, StructFails
    PROVE  CallsInv' /\ RegistryStep
  <1>1. CallsInv
    BY DEF ParseInv
  <1>2. IsOver
    BY RaiseEnds DEF StructFails, Outcomes
  <1>3. CallsInv'
    BY <1>1, <1>2, CallsKept DEF CallsInv, StructFails
  <1> QED BY <1>3 DEF StructFails, RegistryStep, NothingNamed

LEMMA FieldSafe ==
    ASSUME ParseInv, todo = <<>>, todo' = todo, ParseField \/ ParseUntypedField
    PROVE  CallsInv' /\ RegistryStep
  <1>1. CallsInv /\ RegistryInv /\ IsText(tokens)
    BY DEF ParseInv, CallsInv
  <1>2. tokens # <<>> /\ Inside /\ stack # <<>>
    BY DEF ParseField, ParseUntypedField, Ahead, Inside
  <1>3. UNCHANGED <<typedefs, references, objects, anonymous, consts, flags, compiled>>
    BY DEF ParseField, ParseUntypedField
  \* A field of a type is added, and the text goes on after the NAME that ts begins with.
  <1>4. ASSUME NEW ts, IsText(ts), Ahead(ts) = "NAME", NEW type \in FieldTypes,
               stack' = WithField(stack, Head(ts).words[1], type, Head(ts).byName),
               outcome' = Eol(Tail(ts)), tokens' = After(ts, 2)
        PROVE  CallsInv'
    <2>1. ts # <<>> /\ IsText(After(ts, 2))
      BY <1>4, AfterIsText DEF Ahead
    <2>2. Head(ts) \in Tokens /\ Head(ts).words[1] \in Words /\ outcome' = "parsing"
      BY <1>4, <2>1, NextToken
    <2>3. stack' \in Seq(Calls) /\ AllApart(stack', anonymous)
      BY <1>1, <1>2, <1>4, <2>2, FieldInCall DEF CallsInv, Tokens, TypeNames
    <2>4. GoesOn
      BY <1>4, <2>1, <2>2, <2>3 DEF GoesOn
    <2> QED BY <1>1, <1>3, <2>3, <2>4, CallsKept DEF CallsInv
  <1>5. ASSUME IsOver PROVE CallsInv'
    BY <1>1, <1>3, <1>5, CallsKept DEF CallsInv
  <1>6. ASSUME ParseField PROVE CallsInv'
    <2>1. PICK w \in Words : w = Head(tokens).words[1]
      BY <1>1, <1>2, <1>6, NextToken DEF ParseField
    <2>2. PICK rest : rest = Tail(tokens)
      OBVIOUS
    <2>3. IsText(rest)
      BY <1>1, <1>2, <2>2, NextToken
    <2>4. \/ \E e \in {"ResolveError", "AttributeError", "ParserError"} : Raise(e)
          \/ /\ Resolve(w) # Unresolved /\ Ahead(rest) = "NAME"
             /\ stack' = WithField(stack, Head(rest).words[1], Resolve(w), Head(rest).byName)
             /\ outcome' = Eol(Tail(rest)) /\ tokens' = After(rest, 2)
      BY <1>6, <2>1, <2>2 DEF ParseField
    <2> QED BY <1>1, <1>4, <1>5, <2>3, <2>4, RaiseEnds, TypesOfFields DEF Outcomes
  <1>7. ASSUME ParseUntypedField PROVE CallsInv'
    BY <1>1, <1>4, <1>7, TypesOfFields DEF ParseUntypedField
  <1> QED BY <1>3, <1>6, <1>7 DEF RegistryStep, NothingNamed

\* What a call of _struct has when its body ends
LEMMA ClosingStruct ==
    ASSUME ParseInv, AtEnd
    PROVE  /\ Parsing
           /\ Closed.fields \in Seq(ParsedFields) /\ Apart(Closed.fields, anonymous)
           /\ Outer \in Seq(Calls) /\ AllApart(Outer, anonymous)
           /\ IsText(Declarators.rest)
           /\ AllNames \in Seq(Words)
           /\ NewName \in TypeNames
           /\ AllNames # <<>> => NewName = AllNames[1] /\ NewName \in Words
           /\ AllNames = <<>> => NewName = <<"anonymous", anonymous>>
           /\ Made(Closed, NewName) \in Objects
           /\ Made(Closed, NewName).name = NewName
           /\ Made(Closed, NewName).fields = Closed.fields
  <1>1. CallsInv /\ IsText(tokens) /\ stack \in Seq(Calls) /\ anonymous \in Nat
    BY DEF ParseInv, CallsInv
  <1>2. Parsing /\ stack # <<>> /\ Len(stack) \in DOMAIN stack /\ Len(stack) \in Nat \ {0}
    <2>1. Parsing /\ stack # <<>>
      BY DEF AtEnd, Inside
    <2>2. DOMAIN stack = 1 .. Len(stack) /\ Len(stack) \in Nat
      BY <1>1
    <2>3. Len(stack) # 0
      BY <1>1, <2>1
    <2> QED BY <2>1, <2>2, <2>3
  <1>3. PICK c \in Calls : c = Closed /\ Apart(c.fields, anonymous)
    <2>1. Closed \in Calls
      BY <1>1, <1>2 DEF Closed
    <2>2. Apart(stack[Len(stack)].fields, anonymous)
      BY <1>1, <1>2 DEF CallsInv, AllApart
    <2> QED BY <2>1, <2>2 DEF Closed
  <1>4. c.fields \in Seq(ParsedFields) /\ c.tag \in Seq(Words)
    BY DEF Calls
  <1>5. Outer \in Seq(Calls) /\ AllApart(Outer, anonymous)
    <2>1. PICK n \in Nat : n = Len(stack) - 1 /\ n + 1 = Len(stack)
      BY <1>2
    <2>2. PICK o : o = Outer
      OBVIOUS
    <2>3. o = SubSeq(stack, 1, n)
      BY <2>1, <2>2 DEF Outer
    <2>4. o \in Seq(Calls) /\ DOMAIN o = 1 .. n /\ \A i \in 1 .. n : o[i] = stack[i]
      BY <1>1, <2>1, <2>3
    <2>5. \A i \in 1 .. n : i \in DOMAIN stack
      BY <1>1, <2>1
    <2> QED BY <1>1, <2>2, <2>4, <2>5 DEF CallsInv, AllApart
  <1>6. Declarators.words \in Seq(Words) /\ IsText(Declarators.rest)
    <2>1. IsText(IF tokens = <<>> THEN <<>> ELSE Tail(tokens))
      BY <1>1, EmptyText, NextToken
    <2> QED BY <2>1, NamesOfText DEF Declarators
  <1>7. AllNames \in Seq(Words)
    BY <1>3, <1>4, <1>6 DEF AllNames
  <1>8. AllNames # <<>> => NewName = AllNames[1] /\ NewName \in Words
    BY <1>7 DEF NewName
  <1>9. AllNames = <<>> => NewName = <<"anonymous", anonymous>>
    BY DEF NewName
  <1>10. NewName \in TypeNames
    BY <1>1, <1>8, <1>9 DEF TypeNames
  <1>11. PICK made : made = Made(c, NewName)
    OBVIOUS
  <1>12. made \in Objects /\ made.name = NewName /\ made.fields = c.fields
    <2>1. PICK b \in BOOLEAN : b = (compiled /\ ~flags /\ Supported(c))
      OBVIOUS
    <2>2. c.class \in {"struct", "union"} /\ c.asked \in BOOLEAN
      BY DEF Calls
    <2>3. made = [class |-> c.class, name |-> NewName, fields |-> c.fields,
                  compiled |-> b, asked |-> c.asked]
      BY <1>11, <2>1 DEF Made
    <2> QED BY <1>4, <1>10, <2>2, <2>3 DEF Objects
  <1> QED BY <1>2, <1>3, <1>4, <1>5, <1>6, <1>7, <1>8, <1>9, <1>10, <1>11, <1>12

\* The new structure is apart from none, and its number is used up.
LEMMA NewTypeSafe ==
    ASSUME ParseInv, AtEnd, NewType
    PROVE  /\ anonymous' \in Nat
           /\ AllNames = <<>> => anonymous' = anonymous + 1
           /\ AllNames # <<>> => anonymous' = anonymous
           /\ AllApart(objects', anonymous')
  <1>1. /\ objects \in Seq(Objects) /\ AllApart(objects, anonymous) /\ anonymous \in Nat
    BY DEF ParseInv, CallsInv, RegistryInv
  <1>2. PICK o \in Objects : /\ objects' = Append(objects, o)
                             /\ o.fields = Closed.fields /\ Apart(o.fields, anonymous)
    BY ClosingStruct DEF NewType
  <1>3. AllApart(objects', anonymous)
    BY <1>1, <1>2, StructureAdded
  <1>4. AllApart(objects', anonymous + 1)
    BY <1>1, <1>3, ApartFromMore
  <1> QED BY <1>1, <1>3, <1>4 DEF NewType

LEMMA CloseNestedSafe ==
    ASSUME ParseInv, todo = <<>>, todo' = todo, CloseNested
    PROVE  CallsInv' /\ RegistryStep
  <1>1. CallsInv /\ RegistryInv /\ AtEnd /\ Outer # <<>> /\ NewType /\ anonymous \in Nat
    BY DEF ParseInv, CloseNested, CallsInv
  <1>2. PICK rest : rest = Declarators.rest
    OBVIOUS
  <1>3. IsText(rest) /\ Outer \in Seq(Calls) /\ AllApart(Outer, anonymous) /\ NewName \in TypeNames
    BY <1>1, <1>2, ClosingStruct
  <1>4. Len(objects) + 1 \in FieldTypes
    BY <1>1 DEF FieldTypes, RegistryInv
  <1>5. PICK n : n = anonymous'
    OBVIOUS
  <1>6. n \in Nat /\ AllApart(objects', n) /\ (AllNames = <<>> => n = anonymous + 1)
        /\ (AllNames # <<>> => n = anonymous)
    BY <1>1, <1>5, NewTypeSafe
  <1>7. (GoesOn /\ AllApart(stack', n)) \/ IsOver
    <2>1. CASE Ahead(rest) = "NAME"
      <3>1. stack' = WithField(Outer, Head(rest).words[1], Len(objects) + 1, Head(rest).byName)
            /\ outcome' = Eol(Tail(rest)) /\ tokens' = After(rest, 2)
        BY <1>2, <2>1 DEF CloseNested
      <3>2. rest # <<>> /\ IsText(After(rest, 2))
        BY <1>3, <2>1, AfterIsText DEF Ahead
      <3>3. Head(rest) \in Tokens /\ Head(rest).words[1] \in Words /\ outcome' = "parsing"
        BY <1>3, <2>1, <3>1, <3>2, NextToken
      <3>4. stack' \in Seq(Calls) /\ AllApart(stack', anonymous)
        BY <1>1, <1>3, <1>4, <3>1, <3>3, FieldInCall DEF Tokens, TypeNames
      <3>5. AllApart(stack', n)
        BY <1>1, <1>6, <3>4, ApartFromMore
      <3> QED BY <3>1, <3>2, <3>3, <3>4, <3>5 DEF GoesOn
    <2>2. CASE Ahead(rest) # "NAME"
      <3>1. stack' = WithField(Outer, NewName, Len(objects) + 1, FALSE) /\ tokens' = rest
            /\ outcome' = outcome
        BY <1>2, <2>2 DEF CloseNested
      <3>2. /\ stack' \in Seq(Calls)
            /\ NewName \in Words => AllApart(stack', anonymous)
            /\ NewName = <<"anonymous", anonymous>> => AllApart(stack', anonymous + 1)
        BY <1>1, <1>3, <1>4, <3>1, FieldInCall
      <3>3. AllApart(stack', n)
        BY <1>1, <1>6, <3>2, ClosingStruct
      <3>4. outcome' = "parsing"
        BY <1>1, <3>1, ClosingStruct DEF Parsing
      <3> QED BY <1>3, <3>1, <3>2, <3>3, <3>4 DEF GoesOn
    <2> QED BY <2>1, <2>2
  <1>8. CallsInv'
    <2>1. flags' \in BOOLEAN /\ consts' \subseteq Words /\ UNCHANGED <<compiled, todo>>
      BY <1>1 DEF CloseNested, CallsInv
    <2> QED BY <1>1, <1>5, <1>6, <1>7, <2>1, CallsKept
  <1>9. NothingNamed
    BY <1>1, ClosingStruct DEF CloseNested, NewType, NothingNamed
  <1> QED BY <1>8, <1>9 DEF RegistryStep

LEMMA CloseDeclaredSafe ==
    ASSUME ParseInv, todo = <<>>, todo' = todo, CloseDeclared
    PROVE  CallsInv' /\ RegistryStep
  <1>1. CallsInv /\ RegistryInv /\ AtEnd /\ NewType /\ anonymous \in Nat
    BY DEF ParseInv, CloseDeclared, CallsInv
  <1>2. PICK o \in Objects : objects' = Append(objects, o) /\ o.name = NewName
    BY <1>1, ClosingStruct DEF NewType
  <1>3. PICK again : again = IF Closed.typedef THEN Names(Declarators.rest)
                             ELSE [words |-> <<>>, rest |-> Declarators.rest]
    OBVIOUS
  <1>4. again.words \in Seq(Words) /\ IsText(again.rest)
    <2>1. IsText(Declarators.rest)
      BY <1>1, ClosingStruct
    <2>2. CASE Closed.typedef
      BY <1>3, <2>1, <2>2, NamesOfText
    <2>3. CASE ~Closed.typedef
      <3>1. <<>> \in Seq(Words)
        OBVIOUS
      <3> QED BY <1>3, <2>1, <2>3, <3>1
    <2> QED BY <2>2, <2>3
  <1>5. PICK names : names = AllNames \o again.words
    OBVIOUS
  <1>6. AllNames \in Seq(Words) /\ names \in Seq(Words)
    BY <1>1, <1>4, <1>5, ClosingStruct
  <1>7. UNCHANGED <<references, consts, compiled>>
    BY DEF CloseDeclared
  <1>8. CASE AllNames = <<>>
    <2>1. Raise("ParserError") /\ UNCHANGED <<typedefs, flags>>
      BY <1>8 DEF CloseDeclared
    <2>2. IsOver
      BY <2>1, RaiseEnds DEF Outcomes
    <2>3. flags' \in BOOLEAN /\ consts' \subseteq Words
      BY <1>1, <1>7, <2>1 DEF CallsInv
    <2>4. CallsInv'
      BY <1>1, <1>7, <2>2, <2>3, CallsKept, NewTypeSafe
    <2> QED BY <1>2, <1>7, <2>1, <2>4 DEF RegistryStep, NothingNamed
  <1>9. CASE AllNames # <<>>
    <2>1. /\ typedefs' = Registered(names, Len(objects) + 1)
          /\ flags' = FALSE
          /\ \/ tokens' = again.rest /\ stack' = <<>> /\ outcome' = outcome
             \/ Raise("ValueError")
      BY <1>3, <1>5, <1>9 DEF CloseDeclared
    <2>2. (GoesOn /\ AllApart(stack', anonymous')) \/ IsOver
      <3>1. CASE Raise("ValueError")
        BY <3>1, RaiseEnds DEF Outcomes
      <3>2. CASE tokens' = again.rest /\ stack' = <<>> /\ outcome' = outcome
        <4>1. <<>> \in Seq(Calls)
          OBVIOUS
        <4>2. outcome' = "parsing"
          BY <1>1, <3>2, ClosingStruct DEF Parsing
        <4> QED BY <1>4, <3>2, <4>1, <4>2, EmptyText DEF GoesOn
      <3> QED BY <2>1, <3>1, <3>2
    <2>3. CallsInv'
      <3>1. flags' \in BOOLEAN /\ consts' \subseteq Words
        BY <1>1, <1>7, <2>1 DEF CallsInv
      <3> QED BY <1>1, <1>7, <2>2, <3>1, CallsKept, NewTypeSafe
    <2>4. names # <<>> /\ names[1] = o.name
      <3>1. NewName = AllNames[1]
        BY <1>1, <1>9, ClosingStruct
      <3>2. Len(AllNames) >= 1
        BY <1>6, <1>9
      <3>3. names[1] = AllNames[1] /\ Len(names) >= 1
        BY <1>4, <1>5, <1>6, <3>2
      <3> QED BY <1>2, <1>6, <3>1, <3>3
    <2>5. TypeNamed
      BY <1>2, <1>6, <1>7, <2>1, <2>4 DEF TypeNamed
    <2> QED BY <2>3, <2>5 DEF RegistryStep
  <1> QED BY <1>8, <1>9

-----------------------------------------------------------------------------
(* The steps of the parser of the old syntax *)

LEMMA MatchAdded ==
    ASSUME NEW text, IsTodo(text), NEW d \in Declarations, d.kind = "enum" => d.tag # <<>>
    PROVE  IsTodo(Append(text, d))
  <1>1. text \in Seq(Declarations)
    BY DEF IsTodo
  <1>2. PICK s : s = Append(text, d)
    OBVIOUS
  <1>3. /\ s \in Seq(Declarations)
        /\ DOMAIN s = DOMAIN text \cup {Len(text) + 1}
        /\ \A i \in DOMAIN text : s[i] = text[i]
        /\ s[Len(text) + 1] = d
    BY <1>1, <1>2, Appended
  <1>4. \A i \in DOMAIN text : s[i].kind = "enum" => s[i].tag # <<>>
    BY <1>3 DEF IsTodo
  <1>5. \A i \in DOMAIN s : s[i].kind = "enum" => s[i].tag # <<>>
    BY <1>3, <1>4
  <1> QED BY <1>2, <1>3, <1>5 DEF IsTodo

LEMMA MatchesJoined ==
    ASSUME NEW s, NEW t, IsTodo(s), IsTodo(t)
    PROVE  IsTodo(s \o t)
  <1>1. s \in Seq(Declarations) /\ t \in Seq(Declarations)
    BY DEF IsTodo
  <1>2. PICK u : u = s \o t
    OBVIOUS
  <1>3. /\ u \in Seq(Declarations)
        /\ \A i \in DOMAIN u :
              \/ i \in DOMAIN s /\ u[i] = s[i]
              \/ i - Len(s) \in DOMAIN t /\ u[i] = t[i - Len(s)]
    BY <1>1, <1>2
  <1> QED BY <1>2, <1>3 DEF IsTodo

\* f is what has been found of the kinds up to each place of the text.
Finds(f, text, kinds, n) ==
    f = [i \in 0 .. n |-> IF i = 0 THEN <<>>
                         ELSE IF text[i].kind \in kinds THEN Append(f[i - 1], text[i])
                         ELSE f[i - 1]]

\* The function OfKind is defined by exists, as Chains does.
LEMMA FindsExist == \A text, kinds : \A n \in Nat : \E f : Finds(f, text, kinds, n)
  <1> SUFFICES ASSUME NEW text, NEW kinds PROVE \A n \in Nat : \E f : Finds(f, text, kinds, n)
    OBVIOUS
  <1> DEFINE T == {n \in Nat : ~ \E f : Finds(f, text, kinds, n)}
  <1> SUFFICES ASSUME T # {} PROVE FALSE
    OBVIOUS
  <1>1. PICK n \in T : \A m \in T : n <= m
    BY Least
  <1>2. CASE n = 0
    <2>1. Finds([k \in 0 .. 0 |-> <<>>], text, kinds, 0)
      BY DEF Finds
    <2> QED BY <2>1, <1>2
  <1>3. CASE n > 0
    <2>1. n - 1 \in Nat /\ n - 1 \notin T
      BY <1>1, <1>3
    <2>2. PICK g : Finds(g, text, kinds, n - 1)
      BY <2>1
    <2> DEFINE Next(x, k) == IF text[k].kind \in kinds THEN Append(x, text[k]) ELSE x
               h == [k \in 0 .. n |-> IF k = n THEN Next(g[n - 1], n) ELSE g[k]]
    <2>3. ASSUME NEW k \in 0 .. n
          PROVE  h[k] = IF k = 0 THEN <<>> ELSE Next(h[k - 1], k)
      <3>1. CASE k = n
        BY <1>3, <2>1, <3>1
      <3>2. CASE k # n
        <4>1. g[k] = IF k = 0 THEN <<>> ELSE Next(g[k - 1], k)
          <5>1. PICK m \in Nat : m = n - 1
            BY <2>1
          <5>2. k \in 0 .. m
            BY <1>3, <2>1, <3>2, <5>1
          <5>3. Finds(g, text, kinds, m)
            BY <2>2, <5>1
          <5> HIDE DEF T, h
          <5> QED BY <5>2, <5>3 DEF Finds
        <4>2. h[k] = g[k] /\ (k # 0 => h[k - 1] = g[k - 1])
          BY <1>3, <2>1, <3>2
        <4> HIDE DEF Next, h
        <4> QED BY <4>1, <4>2
      <3> QED BY <3>1, <3>2
    <2>4. Finds(h, text, kinds, n)
      BY <2>3 DEF Finds
    <2> QED BY <2>4
  <1>4. QED
    BY <1>2, <1>3

\* Matches that are left out or put in another order are still matches.
LEMMA PhasesAreMatches ==
    ASSUME NEW text, IsTodo(text)
    PROVE  IsTodo(InPhases(text))
  <1>1. text \in Seq(Declarations) /\ Len(text) \in Nat
    BY DEF IsTodo
  <1>2. ASSUME NEW kinds PROVE IsTodo(OfKind(text, kinds))
    <2> DEFINE P(f) == f = [i \in 0 .. Len(text) |->
                              IF i = 0 THEN <<>>
                              ELSE IF text[i].kind \in kinds THEN Append(f[i - 1], text[i])
                              ELSE f[i - 1]]
               c == CHOOSE f : P(f)
    <2>1. PICK f : Finds(f, text, kinds, Len(text))
      BY <1>1, FindsExist
    <2>2. P(f)
      BY <2>1 DEF Finds
    <2>3. P(c)
      <3> HIDE DEF P
      <3> QED BY <2>2
    <2>4. OfKind(text, kinds) = c[Len(text)]
      BY DEF OfKind
    <2>5. PICK g : g = c
      OBVIOUS
    <2>6. \A i \in 0 .. Len(text) :
             g[i] = IF i = 0 THEN <<>>
                    ELSE IF text[i].kind \in kinds THEN Append(g[i - 1], text[i])
                    ELSE g[i - 1]
      <3>1. P(g)
        BY <2>3, <2>5
      <3> QED BY <3>1
    <2>7. OfKind(text, kinds) = g[Len(text)]
      BY <2>4, <2>5
    <2> DEFINE T == {i \in 0 .. Len(text) : ~IsTodo(g[i])}
    <2>8. ASSUME T # {} PROVE FALSE
      <3>1. PICK i \in T : \A j \in T : i <= j
        <4>1. T \in SUBSET Nat
          BY <1>1
        <4> HIDE DEF T
        <4> QED BY <2>8, <4>1, Least
      <3>2. CASE i = 0
        <4>1. g[i] = <<>>
          BY <2>6, <3>1, <3>2
        <4>2. IsTodo(<<>>)
          <5>1. <<>> \in Seq(Declarations)
            OBVIOUS
          <5> QED BY <5>1 DEF IsTodo
        <4> QED BY <3>1, <4>1, <4>2
      <3>3. CASE i # 0
        <4>1. i - 1 \in 0 .. Len(text) /\ i - 1 \notin T /\ i \in DOMAIN text
          BY <1>1, <3>1, <3>3
        <4>2. IsTodo(g[i - 1])
          BY <4>1
        <4>3. text[i] \in Declarations /\ (text[i].kind = "enum" => text[i].tag # <<>>)
          BY <1>1, <4>1 DEF IsTodo
        <4>4. IsTodo(Append(g[i - 1], text[i]))
          BY <4>2, <4>3, MatchAdded
        <4>5. g[i] = IF text[i].kind \in kinds THEN Append(g[i - 1], text[i]) ELSE g[i - 1]
          BY <2>6, <3>1, <3>3
        <4> QED BY <3>1, <4>2, <4>4, <4>5
      <3> QED BY <3>2, <3>3
    <2> QED BY <1>1, <2>7, <2>8
  <1> QED BY <1>2, MatchesJoined DEF InPhases

\* The match, and what is left after it
LEMMA NextMatch ==
    ASSUME CallsInv, todo # <<>>
    PROVE  /\ IsTodo(Tail(todo))
           /\ Match \in Declarations
           /\ Match.kind = "enum" => Match.tag # <<>>
           /\ MatchNames \in Seq(Words)
           /\ Match.tag # <<>> => MatchNames # <<>> /\ MatchNames[1] = Match.tag[1]
  <1>1. todo \in Seq(Declarations) /\ Len(todo) \in Nat \ {0} /\ 1 \in DOMAIN todo
    <2>1. todo \in Seq(Declarations)
      BY DEF CallsInv, IsTodo
    <2> QED BY <2>1
  <1>2. PICK d \in Declarations : d = Match /\ d = todo[1] /\ (d.kind = "enum" => d.tag # <<>>)
    <2>1. PICK d : d = todo[1]
      OBVIOUS
    <2>2. d \in Declarations /\ d = Match
      BY <1>1, <2>1 DEF Match
    <2>3. d.kind = "enum" => d.tag # <<>>
      BY <1>1, <2>1 DEF CallsInv, IsTodo
    <2> QED BY <2>1, <2>2, <2>3
  <1>3. PICK rest : rest = Tail(todo)
    OBVIOUS
  <1>4. /\ rest \in Seq(Declarations)
        /\ DOMAIN rest = 1 .. Len(todo) - 1
        /\ \A i \in 1 .. Len(todo) - 1 : rest[i] = todo[i + 1] /\ i + 1 \in DOMAIN todo
    BY <1>1, <1>3
  <1>5. IsTodo(rest)
    BY <1>4 DEF IsTodo, CallsInv
  <1>6. d.tag \in Seq(Words) /\ d.names \in Seq(Words) /\ MatchNames = d.tag \o d.names
    BY <1>2 DEF Declarations, MatchNames
  <1>7. MatchNames \in Seq(Words) /\ (d.tag # <<>> => MatchNames # <<>> /\ MatchNames[1] = d.tag[1])
    <2>1. MatchNames \in Seq(Words)
      BY <1>6
    <2> QED BY <1>6, <2>1, FirstOfJoined
  <1> QED BY <1>2, <1>3, <1>5, <1>6, <1>7

\* What is to be shown of a step that goes through a match
LEMMA MatchKept ==
    ASSUME CallsInv, todo # <<>>, UNCHANGED <<anonymous, tokens, flags, compiled, stack>>,
           consts' \subseteq Words, AllApart(objects', anonymous),
           Proceed \/ \E e \in Outcomes \ {"eol failed", "parsing"} : Abort(e)
    PROVE  CallsInv'
  <1>1. outcome # "parsing" /\ stack = <<>>
    BY DEF CallsInv
  <1>2. IsTodo(todo')
    BY EmptyText, NextMatch DEF Proceed, Abort
  <1>3. outcome' \in Outcomes \ {"eol failed"} /\ outcome' # "parsing"
    BY <1>1 DEF Proceed, Abort, CallsInv
  <1> QED BY <1>1, <1>2, <1>3 DEF CallsInv

LEMMA RegisterSafe ==
    ASSUME NEW type, Register(type)
    PROVE  /\ typedefs' = Registered(MatchNames, type)
           /\ Proceed \/ \E e \in Outcomes \ {"eol failed", "parsing"} : Abort(e)
  BY DEF Register, Outcomes

LEMMA LegacySimpleSafe ==
    ASSUME ParseInv, LegacyConstant \/ LegacyNameless \/ LegacyOther \/ LegacyLookup
    PROVE  CallsInv' /\ RegistryStep
  <1>1. CallsInv
    BY DEF ParseInv
  <1>2. /\ todo # <<>>
        /\ UNCHANGED <<anonymous, tokens, flags, compiled, stack, typedefs, references, objects>>
    BY DEF LegacyConstant, LegacyNameless, LegacyOther, LegacyLookup, AtMatch
  <1>3. Proceed \/ \E e \in Outcomes \ {"eol failed", "parsing"} : Abort(e)
    BY DEF LegacyConstant, LegacyNameless, LegacyOther, LegacyLookup, Outcomes
  <1>4. consts' \subseteq Words
    <2>1. CASE LegacyConstant
      <3>1. Match.tag \in Seq(Words)
        BY <1>1, <1>2, NextMatch DEF Declarations
      <3>2. ToSet(Match.tag) \subseteq Words
        BY <3>1 DEF ToSet
      <3> QED BY <1>1, <2>1, <3>2 DEF LegacyConstant, CallsInv
    <2>2. CASE ~LegacyConstant
      BY <1>1, <2>2 DEF CallsInv, LegacyNameless, LegacyOther, LegacyLookup
    <2> QED BY <2>1, <2>2
  <1>5. CallsInv'
    BY <1>1, <1>2, <1>3, <1>4, MatchKept DEF CallsInv
  <1> QED BY <1>2, <1>5 DEF RegistryStep, NothingNamed

LEMMA LegacyTypedefSafe ==
    ASSUME ParseInv, LegacyTypedef
    PROVE  CallsInv' /\ RegistryStep
  <1>1. CallsInv /\ todo # <<>> /\ UNCHANGED <<anonymous, tokens, flags, compiled, stack, objects, consts>>
    BY DEF ParseInv, LegacyTypedef, AtMatch
  <1>2. PICK w : w = Match.type
    OBVIOUS
  <1>3. w \in Words /\ MatchNames \in Seq(Words)
    BY <1>1, <1>2, NextMatch DEF Declarations
  <1>4. /\ typedefs' = Registered(MatchNames, w)
        /\ Proceed \/ \E e \in Outcomes \ {"eol failed", "parsing"} : Abort(e)
    BY <1>2, RegisterSafe DEF LegacyTypedef
  <1>5. CallsInv'
    BY <1>1, <1>4, MatchKept DEF CallsInv
  <1>6. NamesReferred
    BY <1>1, <1>3, <1>4 DEF LegacyTypedef, NamesReferred
  <1> QED BY <1>5, <1>6 DEF RegistryStep

\* A type is made and named, by an enum or a structure of the old syntax.
LEMMA LegacyTypeSafe ==
    ASSUME ParseInv, todo # <<>>, UNCHANGED <<anonymous, tokens, flags, compiled, stack, references, consts>>,
           NEW o \in Objects, Apart(o.fields, anonymous), MatchNames # <<>>, o.name = MatchNames[1],
           objects' = Append(objects, o), Register(Len(objects) + 1)
    PROVE  CallsInv' /\ RegistryStep
  <1>1. CallsInv /\ RegistryInv
    BY DEF ParseInv
  <1>2. PICK type : type = Len(objects) + 1
    OBVIOUS
  <1>3. /\ typedefs' = Registered(MatchNames, type)
        /\ Proceed \/ \E e \in Outcomes \ {"eol failed", "parsing"} : Abort(e)
    BY <1>2, RegisterSafe
  <1>4. AllApart(objects', anonymous)
    BY <1>1, StructureAdded DEF CallsInv, RegistryInv
  <1>5. CallsInv'
    BY <1>1, <1>3, <1>4, MatchKept DEF CallsInv
  <1>6. TypeNamed
    BY <1>1, <1>2, <1>3, NextMatch DEF TypeNamed
  <1> QED BY <1>5, <1>6 DEF RegistryStep

\* A match raises before it has made a type.
LEMMA LegacyRaises ==
    ASSUME ParseInv, todo # <<>>,
           UNCHANGED <<anonymous, tokens, flags, compiled, stack, references, consts, typedefs, objects>>,
           NEW e \in {"ValueError", "ResolveError", "TypeError"}, Abort(e)
    PROVE  CallsInv' /\ RegistryStep
  <1>1. CallsInv'
    BY MatchKept DEF ParseInv, CallsInv, Outcomes
  <1> QED BY <1>1 DEF RegistryStep, NothingNamed

LEMMA LegacyEnumSafe ==
    ASSUME ParseInv, LegacyEnum
    PROVE  CallsInv' /\ RegistryStep
  <1>1. CallsInv /\ todo # <<>> /\ Match.kind = "enum"
        /\ UNCHANGED <<anonymous, tokens, flags, compiled, stack, references, consts>>
    BY DEF ParseInv, LegacyEnum, AtMatch
  <1>2. CASE EnumError(Match.type, Match.values) # "none"
    <2>1. EnumError(Match.type, Match.values) \in {"ValueError", "ResolveError", "TypeError"}
      BY <1>2 DEF EnumError
    <2> QED BY <1>1, <1>2, <2>1, LegacyRaises DEF LegacyEnum
  <1>3. CASE EnumError(Match.type, Match.values) = "none"
    <2>1. PICK o : o = [class |-> "enum", name |-> Match.tag[1], fields |-> <<>>,
                        compiled |-> FALSE, asked |-> FALSE]
      OBVIOUS
    <2>2. MatchNames # <<>> /\ MatchNames[1] = Match.tag[1] /\ MatchNames[1] \in Words
      BY <1>1, NextMatch
    <2>3. <<>> \in Seq(ParsedFields)
      OBVIOUS
    <2>4. o \in Objects /\ o.name = MatchNames[1] /\ o.fields = <<>>
      BY <2>1, <2>2, <2>3 DEF Objects, TypeNames
    <2>5. Apart(o.fields, anonymous)
      BY <2>4 DEF Apart
    <2>6. objects' = Append(objects, o) /\ Register(Len(objects) + 1)
      BY <1>3, <2>1 DEF LegacyEnum
    <2> QED BY <1>1, <2>2, <2>4, <2>5, <2>6, LegacyTypeSafe
  <1> QED BY <1>2, <1>3

LEMMA LegacyStructSafe ==
    ASSUME ParseInv, LegacyStruct
    PROVE  CallsInv' /\ RegistryStep
  <1>1. CallsInv /\ RegistryInv /\ todo # <<>> /\ MatchNames # <<>>
        /\ UNCHANGED <<anonymous, tokens, flags, compiled, stack, references, consts>>
    BY DEF ParseInv, LegacyStruct, AtMatch
  <1>2. CASE ~Match.body \/ \E f \in ToSet(Resolved) : f.type = Unresolved
    <2>1. PICK e \in {"ResolveError", "TypeError"} : Abort(e)
      BY <1>2 DEF LegacyStruct
    <2>2. UNCHANGED <<typedefs, objects>>
      BY <1>2 DEF LegacyStruct
    <2> QED BY <1>1, <2>1, <2>2, LegacyRaises
  <1>3. CASE ~(~Match.body \/ \E f \in ToSet(Resolved) : f.type = Unresolved)
    <2>1. PICK b \in BOOLEAN :
             b = ((Match.compile \/ compiled) /\ Supported([class |-> "struct", fields |-> Resolved]))
      OBVIOUS
    <2>2. PICK o : o = [class |-> "struct", name |-> MatchNames[1], fields |-> Resolved,
                        compiled |-> b, asked |-> FALSE]
      OBVIOUS
    <2>3. PICK fields \in Seq(LegacyFields) : fields = Match.fields
      BY <1>1, NextMatch DEF Declarations
    <2>4. PICK r : r = Resolved
      OBVIOUS
    <2>5. r = [k \in 1 .. Len(fields) |-> [fields[k] EXCEPT !.type = Resolve(fields[k].type)]]
      BY <2>3, <2>4 DEF Resolved
    <2>6. ASSUME NEW k \in 1 .. Len(fields)
          PROVE  r[k] \in ParsedFields /\ r[k].name \in Words
      <3>1. PICK f \in LegacyFields : f = fields[k]
        OBVIOUS
      <3>2. r[k] = [f EXCEPT !.type = Resolve(f.type)]
        BY <2>5, <3>1
      <3>3. f.type \in Words /\ f.name \in Words /\ f.byName \in BOOLEAN
        BY DEF LegacyFields
      <3>4. PICK type : type = Resolve(f.type)
        OBVIOUS
      <3>5. r[k] = [type |-> type, name |-> f.name, byName |-> f.byName]
        BY <3>2, <3>4 DEF LegacyFields
      <3>6. type # Unresolved
        BY <1>3, <2>4, <2>5, <3>5 DEF ToSet
      <3>7. type \in FieldTypes
        BY <1>1, <3>3, <3>4, <3>6, TypesOfFields
      <3> QED BY <3>3, <3>5, <3>7 DEF ParsedFields, TypeNames
    <2>7. r \in Seq(ParsedFields) /\ DOMAIN r = 1 .. Len(fields)
      BY <2>5, <2>6
    <2>8. MatchNames[1] \in Words
      BY <1>1, NextMatch
    <2>9. o \in Objects /\ o.name = MatchNames[1] /\ o.fields = r
      BY <2>2, <2>4, <2>7, <2>8 DEF Objects, TypeNames
    <2>10. Apart(o.fields, anonymous)
      BY <2>6, <2>7, <2>9 DEF Apart
    <2>11. objects' = Append(objects, o) /\ Register(Len(objects) + 1)
      BY <1>3, <2>1, <2>2 DEF LegacyStruct
    <2> QED BY <1>1, <2>9, <2>10, <2>11, LegacyTypeSafe
  <1> QED BY <1>2, <1>3

-----------------------------------------------------------------------------
(* Every step keeps the invariant *)

LEMMA RegistryKept ==
    ASSUME RegistryInv, RegistryStep
    PROVE  RegistryInv' /\ Extends
  BY NothingNamedSafe, TypeNamedSafe, MoreNamesSafe, NamesReferredSafe, ReferenceAddedSafe
     DEF RegistryStep

LEMMA InitSafe == LoadsInit => ParseInv
  <1> SUFFICES ASSUME LoadsInit PROVE ParseInv
    OBVIOUS
  <1>1. /\ typedefs = InitTypedefs /\ objects = InitObjects
        /\ references = {n \in DOMAIN typedefs : typedefs[n] \in Words}
        /\ anonymous = 0 /\ consts = {} /\ tokens = <<>> /\ flags = FALSE /\ compiled = TRUE
        /\ stack = <<>> /\ outcome = "new" /\ todo = <<>>
    BY DEF LoadsInit, ParserInit, RegistryInit
  <1>2. objects \in Seq(Objects) /\ \A i \in DOMAIN objects : objects[i].fields = <<>>
    BY <1>1, InitAssumption
  <1>3. ReferencesRefer /\ DeclaredNamesAreDirect
    BY <1>1 DEF ReferencesRefer, DeclaredNamesAreDirect
  <1>4. NamesAreFirst
    BY <1>1, InitAssumption DEF NamesAreFirst
  <1>5. RegistryInv
    BY <1>1, <1>2, <1>3, <1>4, InitAssumption DEF RegistryInv
  <1>6. AllApart(objects, anonymous)
    BY <1>2 DEF AllApart, Apart
  <1>7. stack \in Seq(Calls)
    <2>1. <<>> \in Seq(Calls)
      OBVIOUS
    <2> QED BY <1>1, <2>1
  <1>8. IsText(tokens) /\ IsTodo(todo) /\ AllApart(stack, anonymous)
    BY <1>1, EmptyText
  <1>9. outcome \in Outcomes \ {"eol failed", "parsing"}
    BY <1>1 DEF Outcomes
  <1>10. CallsInv
    BY <1>1, <1>6, <1>7, <1>8, <1>9 DEF CallsInv
  <1> QED BY <1>5, <1>10 DEF ParseInv

LEMMA LoadSafe ==
    ASSUME ParseInv, ~Loading,
           \/ \E text \in Texts, wanted \in BOOLEAN : Load(text, wanted) /\ todo' = todo
           \/ \E text \in LegacyTexts, wanted \in BOOLEAN : LegacyLoad(text, wanted)
    PROVE  CallsInv' /\ RegistryStep
  <1>1. CallsInv /\ outcome # "parsing" /\ todo = <<>>
    BY DEF ParseInv, Loading, Parsing
  <1>2. ASSUME NEW text \in Texts, NEW wanted \in BOOLEAN, Load(text, wanted), todo' = todo
        PROVE  CallsInv' /\ RegistryStep
    <2>1. text \in Seq(Tokens) /\ Scannable(text)
      BY TextsAssumption
    <2>2. ASSUME NEW i \in DOMAIN text
          PROVE  /\ text[i].kind \in {"NAME", "DEFS", "ENUM"} => i < Len(text) /\ text[i + 1].kind = "EOL"
                 /\ text[i].kind \in {"NAME", "IDENTIFIER", "DEFINE", "ENUM"} => Len(text[i].words) > 0
      <3>1. text[i].kind \in {"NAME", "IDENTIFIER", "DEFINE"} => Len(text[i].words) = 1
        BY <2>1 DEF Scannable
      <3>2. text[i].kind = "ENUM" => Len(text[i].words) > 1
        BY <2>1 DEF Scannable
      <3>3. text[i].kind \in {"NAME", "DEFS", "ENUM"} =>
              (IF i < Len(text) THEN text[i + 1].kind ELSE "nothing") = "EOL"
        BY <2>1 DEF Scannable
      <3>4. Len(text[i].words) \in Nat
        BY <2>1 DEF Tokens
      <3>5. text[i].kind \in {"NAME", "DEFS", "ENUM"} => i < Len(text) /\ text[i + 1].kind = "EOL"
        BY <3>3
      <3>6. text[i].kind \in {"NAME", "IDENTIFIER", "DEFINE", "ENUM"} => Len(text[i].words) > 0
        BY <3>1, <3>2, <3>4
      <3> QED BY <3>5, <3>6
    <2>3. IsText(text)
      BY <2>1, <2>2 DEF IsText, LooksAhead
    <2>4. tokens' = text /\ stack' = <<>> /\ outcome' = "parsing" /\ flags' = FALSE
          /\ compiled' = wanted
          /\ UNCHANGED <<typedefs, references, objects, anonymous, consts>>
      BY <1>2 DEF Load
    <2>5. stack' \in Seq(Calls)
      <3>1. <<>> \in Seq(Calls)
        OBVIOUS
      <3> QED BY <2>4, <3>1
    <2>6. AllApart(stack', anonymous') /\ IsText(tokens')
      BY <2>3, <2>4, EmptyText
    <2>7. CallsInv'
      BY <1>1, <1>2, <2>4, <2>5, <2>6 DEF CallsInv, Outcomes
    <2> QED BY <2>4, <2>7 DEF RegistryStep, NothingNamed
  <1>3. ASSUME NEW text \in LegacyTexts, NEW wanted \in BOOLEAN, LegacyLoad(text, wanted)
        PROVE  CallsInv' /\ RegistryStep
    <2>1. IsTodo(text)
      BY LegacyTextsAssumption DEF IsTodo
    <2>2. IsTodo(todo')
      BY <1>3, <2>1, PhasesAreMatches DEF LegacyLoad
    <2>3. outcome' = "done" /\ compiled' = wanted
          /\ UNCHANGED <<typedefs, references, objects, anonymous, consts, tokens, flags, stack>>
      BY <1>3 DEF LegacyLoad
    <2>4. CallsInv'
      BY <1>1, <2>2, <2>3 DEF CallsInv, Outcomes
    <2> QED BY <2>3, <2>4 DEF RegistryStep, NothingNamed
  <1> QED BY <1>2, <1>3

LEMMA ParseSafe ==
    ASSUME ParseInv, todo = <<>>, todo' = todo, Parse
    PROVE  CallsInv' /\ RegistryStep
  BY SimpleSafe, TypedefSafe, EnumSafe, OpenSafe, ReferSafe, StructFailsSafe,
     CloseNestedSafe, CloseDeclaredSafe, FieldSafe DEF Parse

LEMMA LegacyParseSafe ==
    ASSUME ParseInv, LegacyParse
    PROVE  CallsInv' /\ RegistryStep
  BY LegacySimpleSafe, LegacyTypedefSafe, LegacyEnumSafe, LegacyStructSafe DEF LegacyParse

LEMMA CallerSafe ==
    ASSUME ParseInv, todo' = todo, CallerAdds
    PROVE  CallsInv' /\ (ReferenceAdded \/ (ReferenceReplaced /\ Replaces))
  <1>1. CallsInv'
    BY DEF ParseInv, CallsInv, CallerAdds
  <1>2. PICK name \in CallerWords, reference \in CallerWords :
           AddReference(name, reference) \/ ReplaceByReference(name, reference)
    BY DEF CallerAdds
  <1> QED BY <1>1, <1>2, CallerWordsAssumption
          DEF CallerAdds, ReferenceAdded, ReferenceReplaced, Replaces

\* A step keeps all names, or the caller replaces one.
LEMMA StepSafe ==
    ParseInv /\ [LoadsNext]_loadVars => ParseInv' /\ (Extends \/ Replaces)
  <1> SUFFICES ASSUME ParseInv, [LoadsNext]_loadVars PROVE ParseInv' /\ (Extends \/ Replaces)
    OBVIOUS
  <1>1. ASSUME CallsInv', RegistryStep PROVE ParseInv' /\ Extends
    BY <1>1, RegistryKept DEF ParseInv
  <1>2. CASE UNCHANGED loadVars
    <2>1. CallsInv' /\ NothingNamed
      BY <1>2 DEF ParseInv, CallsInv, NothingNamed, loadVars, parserVars
    <2> QED BY <1>1, <2>1 DEF RegistryStep
  <1>3. CASE todo = <<>> /\ ParserNext /\ UNCHANGED todo
    <2>1. CASE ~Parsing /\ \E text \in Texts, wanted \in BOOLEAN : Load(text, wanted)
      <3>1. CallsInv' /\ RegistryStep
        BY <1>3, <2>1, LoadSafe DEF Loading
      <3> QED BY <1>1, <3>1
    <2>2. CASE Parse
      BY <1>1, <1>3, <2>2, ParseSafe
    <2>3. CASE CallerAdds
      <3>1. CallsInv' /\ (ReferenceAdded \/ (ReferenceReplaced /\ Replaces))
        BY <1>3, <2>3, CallerSafe
      <3> QED BY <1>1, <3>1, ReferenceReplacedSafe DEF RegistryStep, ParseInv
    <2> QED BY <1>3, <2>1, <2>2, <2>3 DEF ParserNext
  <1>4. CASE ~Loading /\ \E text \in LegacyTexts, wanted \in BOOLEAN : LegacyLoad(text, wanted)
    BY <1>1, <1>4, LoadSafe
  <1>5. CASE LegacyParse
    BY <1>1, <1>5, LegacyParseSafe
  <1> QED BY <1>2, <1>3, <1>4, <1>5 DEF LoadsNext

(***************************************************************************)
(* The inductive invariant of registry and parsers, for any definitions.   *)
(***************************************************************************)
THEOREM ParsersKeepInv == LoadsSpec => []ParseInv
  <1>1. LoadsInit => ParseInv
    BY InitSafe
  <1>2. ParseInv /\ [LoadsNext]_loadVars => ParseInv'
    BY StepSafe
  <1> QED BY <1>1, <1>2, PTL DEF LoadsSpec

(***************************************************************************)
(* Whatever is loaded, cut off or malformed, the registry holds types and  *)
(* names, and the parsers' state keeps its types.                          *)
(***************************************************************************)
THEOREM LoadsTypeCorrect == LoadsSpec => []LoadsTypeOK
  <1>1. ParseInv => LoadsTypeOK
    BY DEF ParseInv, RegistryInv, CallsInv, IsText, IsTodo, LoadsTypeOK, ParserTypeOK
  <1> QED BY <1>1, ParsersKeepInv, PTL

(***************************************************************************)
(* eol() does not fail, whatever text the scanner has split.               *)
(***************************************************************************)
THEOREM EolIsFound == LoadsSpec => []EolIsThere
  <1>1. ParseInv => EolIsThere
    BY DEF ParseInv, CallsInv, EolIsThere
  <1> QED BY <1>1, ParsersKeepInv, PTL

(***************************************************************************)
(* A declared name stands for a type and not for another name, so that the *)
(* references that resolve has to follow are those the caller and the old  *)
(* parser made.                                                            *)
(***************************************************************************)
THEOREM DeclaredNamesStandForTypes == LoadsSpec => []DeclaredNamesAreDirect
  <1>1. ParseInv => DeclaredNamesAreDirect
    BY DEF ParseInv, RegistryInv
  <1> QED BY <1>1, ParsersKeepInv, PTL

(***************************************************************************)
(* A compiled structure finds the types it was defined with by name.       *)
(***************************************************************************)
THEOREM CompiledFindsItsTypes == LoadsSpec => []CompiledSeesItsTypes
  <1>1. ParseInv => CompiledSeesItsTypes
    BY DEF ParseInv, RegistryInv, NamesAreFirst, CompiledSeesItsTypes, LookedUp, IsDeclared
  <1> QED BY <1>1, ParsersKeepInv, PTL

(***************************************************************************)
(* No anonymous structure takes the place of another in a structure.       *)
(***************************************************************************)
THEOREM AnonymousFieldsKeepApart == LoadsSpec => []AnonymousFieldsApart
  <1>1. ParseInv => AnonymousFieldsApart
    BY DEF ParseInv, CallsInv, AllApart, Apart, AnonymousFieldsApart
  <1> QED BY <1>1, ParsersKeepInv, PTL

(***************************************************************************)
(* Only a replacement by the caller changes what a name resolves to.       *)
(***************************************************************************)
THEOREM MeaningsAreKept == LoadsSpec => NamesKeepTheirMeaning
  <1>1. ParseInv /\ [LoadsNext]_loadVars
          => [Replaces \/ \A n \in Words : Resolve(n) # Unresolved => Resolve(n)' = Resolve(n)]_parserVars
    BY StepSafe, MeaningKept
  <1> QED BY <1>1, ParsersKeepInv, PTL DEF LoadsSpec, NamesKeepTheirMeaning

=============================================================================

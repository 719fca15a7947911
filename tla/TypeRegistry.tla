---------------------------- MODULE TypeRegistry ----------------------------
(***************************************************************************)
(* cstruct.py: the types of a cstruct instance and the names they go by.   *)
(* typedefs is a dictionary: a name stands for a type, or for another name *)
(* that need not exist.  A type is an object, identified by its place in   *)
(* `objects`, the sequence of all types made so far.                       *)
(***************************************************************************)
EXTENDS Naturals, Sequences, FiniteSets

CONSTANTS
    Words,          \* the names definitions use
    InitTypedefs,   \* typedefs of a new cstruct
    NoneType,       \* Python's None, where a type should be
    Unresolved,     \* what resolve raises ResolveError for
    Hops,           \* the references resolve follows: the literal 10 of the code
    MaxReferences   \* bound on the references, where the caller adds one

ASSUME HopsAssumption == Hops \in Nat

ASSUME UnresolvedAssumption ==
    /\ Words \cap Nat = {}
    /\ NoneType \notin Nat \cup Words
    /\ Unresolved \notin Nat \cup Words \cup {NoneType}

VARIABLES
    typedefs,
    references      \* the names that addtype was given a reference for

registryVars == <<typedefs, references>>

\* d[key] = value
Set(d, key, value) ==
    [k \in DOMAIN d \cup {key} |-> IF k = key THEN value ELSE d[k]]

\* Where a name leads, when n references are followed
Reached(name, n) ==
    LET after[k \in 0 .. n] ==
            IF k = 0 THEN name
            ELSE IF after[k - 1] \in DOMAIN typedefs THEN typedefs[after[k - 1]]
            ELSE after[k - 1]
    IN after[n]

\* Resolve, if a word that is no key were taken for a type
ResolveUnchecked(name) == Reached(name, Hops)

(***************************************************************************)
(* The type of a name.  A name that is unknown or leads to one, a chain of *)
(* references that is too long and a cycle all raise ResolveError.         *)
(***************************************************************************)
Resolve(name) ==
    IF Reached(name, Hops) \in Words THEN Unresolved ELSE Reached(name, Hops)

\* The names up to the first that is taken, by a type or by an earlier name
Free(names) ==
    {i \in DOMAIN names :
       \A j \in 1 .. i : /\ names[j] \notin DOMAIN typedefs
                         /\ \A h \in 1 .. j - 1 : names[h] # names[j]}

\* Registered, if addtype did not refuse a name that is taken
RegisteredOver(names, type) ==
    LET new == {names[i] : i \in DOMAIN names}
    IN [n \in DOMAIN typedefs \cup new |-> IF n \in new THEN type ELSE typedefs[n]]

\* addtype for one name after the other, until one is refused
Registered(names, type) ==
    LET new == {names[i] : i \in Free(names)}
    IN [n \in DOMAIN typedefs \cup new |-> IF n \in new THEN type ELSE typedefs[n]]

\* No addtype raised ValueError.
AllFree(names) == Free(names) = DOMAIN names

-----------------------------------------------------------------------------

RegistryInit ==
    /\ typedefs = InitTypedefs
    /\ references = {n \in DOMAIN InitTypedefs : InitTypedefs[n] \in Words}

\* addtype(name, reference) by the caller; a name that is taken is refused.
AddReference(name, reference) ==
    /\ name \notin DOMAIN typedefs
    /\ Cardinality(references) < MaxReferences
    /\ typedefs' = Set(typedefs, name, reference)
    /\ references' = references \cup {name}

\* addtype(name, reference, replace=True)
ReplaceByReference(name, reference) ==
    /\ name \in DOMAIN typedefs
    /\ Cardinality(references \cup {name}) <= MaxReferences
    /\ typedefs' = Set(typedefs, name, reference)
    /\ references' = references \cup {name}

=============================================================================

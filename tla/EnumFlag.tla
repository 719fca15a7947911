------------------------------- MODULE EnumFlag -------------------------------
(***************************************************************************)
(* types/enum.py, types/flag.py and the numbering of the members by the    *)
(* parsers: a definition is numbered member by member, then an instance is *)
(* made of a value, combined with others, and shown.  Names are numbers,   *)
(* in the order of the names' texts.                                       *)
(***************************************************************************)
EXTENDS PythonInt, SequencesExt

CONSTANTS
    MemberNames,    \* names of members, a set of numbers
    Explicit,       \* the values that follow `=`
    MaxMembers,     \* bound on the members of a definition
    Width,          \* bits of the type of the enum
    Automatic,      \* no value is given
    MaxOperations   \* bound on the operators applied to an instance

ASSUME AutomaticAssumption == Automatic \notin Int

\* Values are not negative, those given fit the type, and SignBit leaves room for
\* those that follow.
ASSUME RoomAssumption ==
    /\ Width \in Nat /\ MaxMembers \in Nat
    /\ Width + MaxMembers < SignBit
    /\ Explicit \subseteq 0 .. PowerOf2[Width] - 1

VARIABLES
    kind,           \* "enum" or "flag"
    members,        \* the definition: names, each with its value or Automatic
    numbered,       \* how many of them the parser has numbered
    nextval,        \* the parser's
    values,         \* the dictionary, in order: <<name, value>> pairs
    instance,       \* EnumInstance.value, once there is one
    operations      \* how many operators were applied to it

enumVars == <<kind, members, numbered, nextval, values, instance, operations>>

Members == [name : MemberNames, value : Explicit \cup {Automatic}]

-----------------------------------------------------------------------------
(* Numbering *)

\* Following, if a flag were numbered like an enum
FollowingByOne(v) == v + 1

\* What follows a member with this value
Following(v) == IF kind = "flag" THEN PowerOf2[BitLength(v)] ELSE v + 1

\* SetMember, if a name could come twice
SetMemberAgain(dict, name, v) == Append(dict, <<name, v>>)

\* values[key] = val: a name that is there keeps its place.
SetMember(dict, name, v) ==
    IF \E j \in DOMAIN dict : dict[j][1] = name
    THEN [j \in DOMAIN dict |-> IF dict[j][1] = name THEN <<name, v>> ELSE dict[j]]
    ELSE Append(dict, <<name, v>>)

EnumInit ==
    /\ kind \in {"enum", "flag"}
    /\ members \in UNION {[1 .. n -> Members] : n \in 1 .. MaxMembers}
    /\ numbered = 0
    /\ nextval = IF kind = "flag" THEN 1 ELSE 0
    /\ values = <<>>
    /\ instance = Automatic
    /\ operations = 0

AllNumbered == numbered = Len(members)

\* One iteration of the loop over the members
NumberMember ==
    /\ ~AllNumbered
    /\ LET m == members[numbered + 1]
           v == IF m.value = Automatic THEN nextval ELSE m.value
       IN /\ values' = SetMember(values, m.name, v)
          /\ nextval' = Following(v)
    /\ numbered' = numbered + 1
    /\ UNCHANGED <<kind, members, instance, operations>>

-----------------------------------------------------------------------------
(* Instances *)

Has(name) == \E j \in DOMAIN values : values[j][1] = name

\* self.values[attr]
ValueOf(name) == values[CHOOSE j \in DOMAIN values : values[j][1] = name][2]

\* self.reverse: of names with the same value, the last
NamesOf(v) ==
    LET places == {j \in DOMAIN values : values[j][2] = v}
    IN IF places = {} THEN {} ELSE {values[Max(places)][1]}

\* Enum._read, or a call with a number
MakeInstance ==
    /\ AllNumbered
    /\ instance = Automatic
    /\ instance' \in 0 .. PowerOf2[Width] - 1
    /\ UNCHANGED <<kind, members, numbered, nextval, values, operations>>

\* FlagInstance.__or__, __and__, __xor__ with a member, and __invert__
Combine ==
    /\ kind = "flag"
    /\ instance # Automatic
    /\ operations < MaxOperations
    /\ \E name \in MemberNames, op \in {"or", "and", "xor", "invert"} :
         /\ Has(name)
         /\ instance' = CASE op = "or" -> BitOr(instance, ValueOf(name))
                          [] op = "and" -> BitAnd(instance, ValueOf(name))
                          [] op = "xor" -> BitXor(instance, ValueOf(name))
                          [] op = "invert" -> Invert(instance)
    /\ operations' = operations + 1
    /\ UNCHANGED <<kind, members, numbered, nextval, values>>

EnumNext == NumberMember \/ MakeInstance \/ Combine

EnumSpec == EnumInit /\ [][EnumNext]_enumVars

\* Covering, if one bit were enough
Touching(v) == {m \in ToSet(values) : BitsOf(m[2]) \cap BitsOf(v) # {}}

\* The members whose bits are all in v
Covering(v) == {m \in ToSet(values) : m[2] # 0 /\ BitsOf(m[2]) \subseteq BitsOf(v)}

(***************************************************************************)
(* FlagInstance.decompose: the members in v, the last name first; if the   *)
(* first of several is v itself, it is left out.                           *)
(***************************************************************************)
Decomposed(v) ==
    LET first == CHOOSE m \in Covering(v) : \A n \in Covering(v) : n[1] <= m[1]
    IN IF Cardinality(Covering(v)) > 1 /\ first[2] = v THEN Covering(v) \ {first}
       ELSE Covering(v)

BitsIn(pairs) == UNION {BitsOf(m[2]) : m \in pairs}

\* The bits of not_covered
NotCovered(v) == BitsOf(v) \ BitsIn(Covering(v))

\* Shown, if the value were left out
ShownByName(v) ==
    IF NamesOf(v) # {} THEN [names |-> NamesOf(v), value |-> {}]
    ELSE [names |-> {m[1] : m \in Decomposed(v)}, value |-> {}]

\* __str__: the name; or those of the members of a flag; or the value itself
Shown(v) ==
    IF NamesOf(v) # {} THEN [names |-> NamesOf(v), value |-> {}]
    ELSE IF kind = "enum" \/ Covering(v) = {} THEN [names |-> {}, value |-> {v}]
    ELSE [names |-> {m[1] : m \in Decomposed(v)}, value |-> {}]

-----------------------------------------------------------------------------
(* Properties *)

(***************************************************************************)
(* The parsers and the instances keep numbers, and one value for a name.   *)
(***************************************************************************)
EnumTypeOK ==
    /\ nextval \in Nat
    /\ numbered \in 0 .. Len(members)
    /\ \A j, h \in DOMAIN values : values[j][1] = values[h][1] => j = h
    /\ \A m \in ToSet(values) : m[1] \in MemberNames /\ m[2] \in Nat
    /\ instance \in {Automatic} \cup -PowerOf2[SignBit] .. PowerOf2[SignBit] - 1

\* Names of their own, and values that did not go down
Ascending ==
    /\ Len(values) = numbered
    /\ \A j, h \in DOMAIN values : j < h => values[j][2] <= values[h][2]

(***************************************************************************)
(* The numbering (parser.py:110-116): after members with names of their    *)
(* own whose values did not go down, the number the next member gets is    *)
(* none of theirs, and for a flag it is one bit that none of them has.     *)
(***************************************************************************)
AutomaticIsFresh ==
    Ascending => \A m \in ToSet(values) :
                    /\ nextval > m[2]
                    /\ kind = "flag" => BitsOf(nextval) \cap BitsOf(m[2]) = {}

(***************************************************************************)
(* decompose: no bit of an instance is lost between the members it returns *)
(* and not_covered, and none is added; but for an instance that is itself  *)
(* a member, whose name comes last, and has bits no other member has.      *)
(***************************************************************************)
DecomposeIsWhole ==
    kind = "flag" /\ instance # Automatic =>
        \/ BitsIn(Decomposed(instance)) = BitsOf(instance) \ NotCovered(instance)
        \/ /\ NamesOf(instance) # {}
           /\ Decomposed(instance) # Covering(instance)

(***************************************************************************)
(* __str__ tells the values of an enum, or a flag, apart: values that are  *)
(* shown alike are the same, unless they have bits that no member covers.  *)
(***************************************************************************)
ShownApart ==
    instance # Automatic =>
        \A v \in 0 .. PowerOf2[Width] - 1 :
            /\ Shown(v) = Shown(instance)
            /\ kind = "flag" => NotCovered(v) \cup NotCovered(instance) = {}
            => v = instance

=============================================================================

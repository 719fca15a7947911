---------------------------- MODULE StructLayout ----------------------------
(***************************************************************************)
(* Structure._calc_offsets: the offset of every field, computed once, when *)
(* the structure is defined.  The readers seek to these offsets, so they   *)
(* are a second opinion on where a field is, next to the position the      *)
(* stream has reached.                                                     *)
(*                                                                         *)
(* An action is an iteration of the loop over the fields.  `lay` keeps the *)
(* loop variables of every iteration: lay[k] is what the loop knows before *)
(* field k, so field Len(lay) is the next one.                             *)
(***************************************************************************)
EXTENDS BitBuffer

CONSTANT Definitions    \* the structures under consideration

ASSUME DefinitionsAssumption ==
    /\ Definitions \subseteq Seq(Fields)
    /\ \A d \in Definitions : WellFormed(d)

VARIABLES
    def,    \* the fields of the structure
    lay,    \* the loop variables before each field
    offs    \* Field.offset of each field

layoutVars == <<def, lay, offs>>

LayoutState == [offset : Nat \cup {None},
                bits_type : Types \cup {None},
                bits_remaining : Int]

LayoutTypeOK ==
    /\ def \in Seq(Fields) /\ WellFormed(def)
    /\ lay \in Seq(LayoutState)
    /\ Len(lay) \in 1 .. Len(def) + 1
    /\ offs \in [DOMAIN def -> Nat \cup {None}]

-----------------------------------------------------------------------------

LayoutInit ==
    /\ def \in Definitions
    /\ lay = <<[offset |-> 0, bits_type |-> None, bits_remaining |-> 0]>>
    /\ offs = [k \in DOMAIN def |-> None]

\* The loop has seen every field.
Laid == Len(lay) = Len(def) + 1

Opens(s, f) == s.bits_remaining = 0 \/ f.type # s.bits_type

\* offset += n, unless a field of unknown length came before
Advance(offset, n) == IF offset = None THEN None ELSE offset + n

\* AfterOpening, without `offset += bits_type.size`
AfterOpeningInPlace(s, f) ==
    [offset |-> s.offset, bits_type |-> f.type, bits_remaining |-> Width(f.type) - f.bits]

AfterOpening(s, f) ==
    [offset |-> Advance(s.offset, Size[f.type]),
     bits_type |-> f.type,
     bits_remaining |-> Width(f.type) - f.bits]

AfterJoining(s, f) ==
    [offset |-> s.offset,
     bits_type |-> s.bits_type,
     bits_remaining |-> s.bits_remaining - f.bits]

\* The loop variables of the unit are left as they are.
AfterPlain(s, f) ==
    [offset |-> IF f.type \in Dynamic THEN None ELSE Advance(s.offset, Size[f.type]),
     bits_type |-> s.bits_type,
     bits_remaining |-> s.bits_remaining]

BitFieldOpens ==
    /\ ~Laid
    /\ LET k == Len(lay) IN
       /\ IsBits(def[k])
       /\ Opens(lay[k], def[k])
       /\ lay' = Append(lay, AfterOpening(lay[k], def[k]))
       /\ offs' = IF lay[k].offset = None THEN offs
                  ELSE [offs EXCEPT ![k] = lay[k].offset]
    /\ UNCHANGED def

BitFieldJoins ==
    /\ ~Laid
    /\ LET k == Len(lay) IN
       /\ IsBits(def[k])
       /\ ~Opens(lay[k], def[k])
       /\ lay' = Append(lay, AfterJoining(lay[k], def[k]))
       /\ offs' = [offs EXCEPT ![k] = None]
    /\ UNCHANGED def

PlainField ==
    /\ ~Laid
    /\ LET k == Len(lay) IN
       /\ ~IsBits(def[k])
       /\ lay' = Append(lay, AfterPlain(lay[k], def[k]))
       /\ offs' = [offs EXCEPT ![k] = lay[k].offset]
    /\ UNCHANGED def

\* What an iteration makes of the loop variables
After(s, f) ==
    IF ~IsBits(f) THEN AfterPlain(s, f)
    ELSE IF Opens(s, f) THEN AfterOpening(s, f) ELSE AfterJoining(s, f)

(***************************************************************************)
(* The loop is the chain of its iterations, and a field has the offset the *)
(* loop had reached, unless it joined a unit.                              *)
(***************************************************************************)
LayoutInv ==
    /\ lay[1] = [offset |-> 0, bits_type |-> None, bits_remaining |-> 0]
    /\ \A k \in 1 .. Len(lay) - 1 :
          /\ lay[k + 1] = After(lay[k], def[k])
          /\ offs[k] = IF IsBits(def[k]) /\ ~Opens(lay[k], def[k])
                       THEN None ELSE lay[k].offset
    /\ \A k \in Len(lay) .. Len(def) : offs[k] = None

LayoutNext == BitFieldOpens \/ BitFieldJoins \/ PlainField

-----------------------------------------------------------------------------
(***************************************************************************)
(* The definitions the layout, the readers and the writer agree about.     *)
(* The code accepts every definition; what it does with the others is      *)
(* shown by the runs that expect a violation.                              *)
(***************************************************************************)

FollowsBits(k) == k > 1 /\ IsBits(def[k - 1])

(***************************************************************************)
(* A bit field that joins a unit follows a bit field of it directly and    *)
(* has room in it; one that opens a unit while the last one has bits left  *)
(* has a type of another size.                                             *)
(***************************************************************************)
RegularField(k) ==
    LET s == lay[k]
        f == def[k]
    IN IsBits(f) =>
         IF Opens(s, f)
         THEN /\ f.bits <= Width(f.type)
              /\ FollowsBits(k) /\ s.bits_remaining # 0 =>
                   Size[f.type] # Size[s.bits_type]
         ELSE FollowsBits(k) /\ f.bits <= s.bits_remaining

Regular == \A k \in 1 .. Len(lay) - 1 : RegularField(k)

\* Every run of bit fields is one unit.
OneUnitRuns ==
    \A k \in 1 .. Len(lay) - 1 :
       IsBits(def[k]) /\ Opens(lay[k], def[k]) => ~FollowsBits(k)

=============================================================================

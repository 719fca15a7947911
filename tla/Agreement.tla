------------------------------ MODULE Agreement ------------------------------
(***************************************************************************)
(* One definition, two readers: a stream is read by the interpreted        *)
(* structure (compiled=False), and then by the compiled one, which is the  *)
(* default.  The README and the tests promise the same result.             *)
(***************************************************************************)
EXTENDS CompiledRead

agreementVars == <<readVars, compiledVars>>

AgreementInit == ReadInit /\ CompiledInit

\* One structure is read by either, from the same position.
AgreementNext ==
    \/ Define /\ UNCHANGED compiledVars
    \/ Generate /\ UNCHANGED readVars
    \/ gen.finished /\ ReadField /\ UNCHANGED compiledVars
    \/ gen.finished /\ Finish /\ UNCHANGED compiledVars
    \/ outcome # "reading" /\ Run /\ UNCHANGED readVars

AgreementSpec == AgreementInit /\ [][AgreementNext]_agreementVars

-----------------------------------------------------------------------------

\* Both readers have come to an end.
BothEnded == outcome # "reading" /\ coutcome # "reading"

\* No two bit fields have nested structures between them, and nothing else.
NoBitsAroundNested ==
    ~ \E j, k \in DOMAIN def :
         /\ j + 1 < k
         /\ IsBits(def[j]) /\ IsBits(def[k])
         /\ \A i \in j + 1 .. k - 1 : def[i].type \in Nested

\* The readers end alike, with the same values and sizes, at the same place;
\* the interpreted one may have gone beyond the end of the stream for an offset.
SameReading ==
    /\ outcome = coutcome
    /\ outcome = "done" =>
         /\ vals = cvals
         /\ sizes = csizes
         /\ pos = cpos \/ (Len(stream) <= cpos /\ cpos <= pos)

\* A field was given fewer bytes than its type has.
ReadLeniently ==
    \E k \in DOMAIN vals : ~IsBits(def[k]) /\ sizes[k] # Size[def[k].type]

(***************************************************************************)
(* Gathering fields into blocks, resetting the bit buffer only where the   *)
(* generator puts a reset, and not seeking to any offset make no           *)
(* difference: a regular structure is read alike, interpreted or compiled, *)
(* unless bit fields surround a nested structure.  On a stream that ends   *)
(* early the compiled reader fails where the interpreted one returns a     *)
(* shorter char or BytesInteger, and only there.                           *)
(***************************************************************************)
CompiledAgrees ==
    BothEnded /\ Regular /\ NoBitsAroundNested =>
       SameReading \/ (outcome # "ValueError" /\ coutcome = "EOFError" /\ ReadLeniently)

=============================================================================

------------------------------ MODULE RoundTrip ------------------------------
(***************************************************************************)
(* StructWrite and the interpreted reader of StructRead together: the      *)
(* value of a structure is written to a stream, and read from it again.    *)
(* The two share the definition and its layout, and nothing else.          *)
(***************************************************************************)
EXTENDS StructWrite, StructRead

VARIABLE phase      \* "write", and then "read"

tripVars == <<readVars, writeVars, phase>>

TripInit ==
    /\ LayoutInit
    /\ WriteInit
    /\ phase = "write"
    /\ stream = <<>>
    /\ start = 0
    /\ pos = 0
    /\ bb = Empty
    /\ vals = <<>>
    /\ sizes = <<>>
    /\ outcome = "reading"

\* The bytes written are read from the beginning.
ReadBack ==
    /\ phase = "write"
    /\ woutcome = "done"
    /\ phase' = "read"
    /\ stream' = out
    /\ UNCHANGED <<def, lay, offs, start, pos, bb, vals, sizes, outcome, writeVars>>

TripNext ==
    \/ Define /\ UNCHANGED <<writeVars, phase>>
    \/ phase = "write" /\ WriteField /\ UNCHANGED <<readVars, phase>>
    \/ ReadBack
    \/ phase = "read" /\ ReadField /\ UNCHANGED <<writeVars, phase>>
    \/ phase = "read" /\ Finish /\ UNCHANGED <<writeVars, phase>>

TripSpec == TripInit /\ [][TripNext]_tripVars

-----------------------------------------------------------------------------

\* j and k are bit fields with nothing but bit fields between them.
SameRun(j, k) == \A i \in j .. k : IsBits(def[i])

\* The fields in the unit of `wide` whose bits are above those of `wide`
Above ==
    {k \in 1 .. Len(def) \ {wide} :
       wide # 0 /\ IF BigEndian THEN k < wide /\ SameRun(k, wide)
                   ELSE k > wide /\ SameRun(wide, k)}

\* The value of field k, without the bits that it has no room for
Kept(k) == IF IsBits(def[k]) THEN Slice(Data(k), 0, def[k].bits) ELSE Data(k)

\* The data are read again, from all of the bytes and from no more.
Restores ==
    /\ outcome \in {"reading", "done"}
    /\ outcome = "done" =>
         /\ \A k \in 1 .. Len(def) \ Above : vals[k] = Kept(k) \/ (k = wide /\ ~IsBits(def[k]))
         /\ pos = Len(stream)

(***************************************************************************)
(* What is written is read again, for every value of every field: if each  *)
(* run of bit fields is one unit, a regular structure survives the round   *)
(* trip through its bytes, and uses all of them.  As write does not mask   *)
(* its data, a value that is too large for its bits changes the fields     *)
(* above it in the unit; it changes no other, and its own bits are kept.   *)
(***************************************************************************)
RoundTripRestores == phase = "read" /\ Regular /\ OneUnitRuns => Restores

(***************************************************************************)
(* The README shows `assert a.dumps() == d` for a structure of bit fields, *)
(* with no condition: what is dumped can be read back.                     *)
(***************************************************************************)
DumpsRestores == phase = "read" /\ Regular /\ wide = 0 => Restores

=============================================================================

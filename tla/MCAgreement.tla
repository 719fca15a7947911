----------------------------- MODULE MCAgreement -----------------------------
(***************************************************************************)
(* Small instances of Agreement, in both byte orders: BigEndian is FALSE,  *)
(* and Big is the same for TRUE.  The invariants of Agreement, CompiledRead *)
(* and StructRead are the same formulas in both.                           *)
(***************************************************************************)
EXTENDS Agreement, MCStructs

CONSTANT Lengths        \* the lengths of the streams

VARIABLE big            \* the byte order of this behaviour

Big == INSTANCE Agreement WITH BigEndian <- TRUE

MCStreams == {Labelled(n) : n \in Lengths}

MCInit == big \in BOOLEAN /\ IF big THEN Big!AgreementInit ELSE AgreementInit

MCNext ==
    \/ ~big /\ AgreementNext /\ UNCHANGED big
    \/ big /\ Big!AgreementNext /\ UNCHANGED big

MCSpec == MCInit /\ [][MCNext]_<<agreementVars, big>>

-----------------------------------------------------------------------------

(***************************************************************************)
(* Each step of the interpreted reader is one of FieldPlacement, in the    *)
(* byte order of the structure: the values are those of the bytes, and of  *)
(* the bits of the unit, that the field is given there.                    *)
(***************************************************************************)
PlacedInBothOrders ==
    [][IF big
       THEN Big!Regular' /\ Big!UnitsAreWhole'
              => [Big!Placement!PlacementNext]_(Big!Placement!placementVars)
       ELSE Regular' /\ UnitsAreWhole'
              => [Placement!PlacementNext]_(Placement!placementVars)]_<<readVars, big>>

=============================================================================

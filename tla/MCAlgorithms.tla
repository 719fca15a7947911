---------------------------- MODULE MCAlgorithms ----------------------------
(***************************************************************************)
(* Small instances of the four algorithms that share no state with the     *)
(* readers or with each other: a behaviour is one of one of them, while    *)
(* the variables of the others keep a value.                               *)
(***************************************************************************)
EXTENDS Arrays, MCExpression, EnumFlag, Hexdump

VARIABLE algorithm

\* A BytesInteger has the three bytes of an int24; of the others two bytes, where
\* there are more, are enough to tell the byte orders apart.
MCTypeSize ==
    [c \in Classes |-> CASE c = "bytes" -> 3
                         [] c \in {"wchar", "packed"} -> 2
                         [] OTHER -> 1]

MCCounts == {-1, 0, 1, 2}

\* Every stream too short for the largest field, just long enough, and longer
MCData == UNION {[1 .. n -> {0, 1}] : n \in 0 .. 7}

Some(S) == CHOOSE x \in S : TRUE

ArraysIdle ==
    /\ field = Some(FieldsOf)
    /\ stream = <<>>
    /\ value = NotDone
    /\ defaulted = FALSE
    /\ generated = NotDone
    /\ dumped = NotDone

ExpressionIdle ==
    /\ expression = Some(ExpressionsOf)
    /\ i = 0
    /\ levels = <<>>
    /\ buf = <<>>
    /\ result = {}
    /\ returned = FALSE

EnumIdle ==
    /\ kind = "enum"
    /\ members = <<>>
    /\ numbered = 0
    /\ nextval = 0
    /\ values = <<>>
    /\ instance = Automatic
    /\ operations = 0

HexdumpIdle ==
    /\ sizes = <<>>
    /\ coloured = FALSE
    /\ length = 0
    /\ palette = <<>>
    /\ listed = 0
    /\ cell = 0
    /\ remaining = 0
    /\ active = Normal
    /\ terminal = Normal
    /\ painted = <<>>

MCInit ==
    \/ algorithm = "arrays" /\ ArraysInit /\ ExpressionIdle /\ EnumIdle /\ HexdumpIdle
    \/ algorithm = "expression" /\ ArraysIdle /\ ExpressionInit /\ EnumIdle /\ HexdumpIdle
    \/ algorithm = "enum" /\ ArraysIdle /\ ExpressionIdle /\ EnumInit /\ HexdumpIdle
    \/ algorithm = "hexdump" /\ ArraysIdle /\ ExpressionIdle /\ EnumIdle /\ HexdumpInit

MCNext ==
    /\ \/ /\ algorithm = "arrays"
          /\ ArraysNext
          /\ UNCHANGED <<expressionVars, enumVars, hexdumpVars>>
       \/ /\ algorithm = "expression"
          /\ ExpressionNext
          /\ UNCHANGED <<arraysVars, enumVars, hexdumpVars>>
       \/ /\ algorithm = "enum"
          /\ EnumNext
          /\ UNCHANGED <<arraysVars, expressionVars, hexdumpVars>>
       \/ /\ algorithm = "hexdump"
          /\ HexdumpNext
          /\ UNCHANGED <<arraysVars, expressionVars, enumVars>>
    /\ UNCHANGED algorithm

MCSpec == MCInit /\ [][MCNext]_<<algorithm, arraysVars, expressionVars, enumVars, hexdumpVars>>

-----------------------------------------------------------------------------

\* The type invariants of the four modules, each of the states its algorithm has.
AlgorithmsTypeOK ==
    /\ algorithm = "arrays" => ArraysTypeOK
    /\ algorithm = "expression" => ExpressionTypeOK
    /\ algorithm = "enum" => EnumTypeOK
    /\ algorithm = "hexdump" => HexdumpTypeOK

=============================================================================

------------------------------- MODULE MCRead -------------------------------
(* Small instances of StructRead *)
EXTENDS StructRead, MCStructs

CONSTANT Lengths        \* the lengths of the streams

MCStreams == {Labelled(n) : n \in Lengths}

=============================================================================

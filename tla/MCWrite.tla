------------------------------- MODULE MCWrite -------------------------------
(* Small instances of StructWrite *)
EXTENDS StructWrite, MCStructs

=============================================================================

------------------------------- MODULE MCTrip -------------------------------
(***************************************************************************)
(* Small instances of StructWrite and the reader of what it wrote, for     *)
(* either byte order.                                                      *)
(***************************************************************************)
EXTENDS RoundTrip, MCStructs

=============================================================================

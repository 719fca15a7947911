------------------------------ MODULE MCObjects ------------------------------
(* Small instances of StructObjects *)
EXTENDS StructObjects

\* Read as a pointer, a byte leads into the stream, nowhere, to its end, or to
\* its last byte, from which a short cannot be read.
MCMemory == <<1, 0, 4, 3>>

=============================================================================

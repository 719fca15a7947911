------------------------------ MODULE MCStructs ------------------------------
(***************************************************************************)
(* The structures the MC modules check: all of at most MaxFields fields,   *)
(* of the types below, with every number of bits.                          *)
(***************************************************************************)
EXTENDS Integers, Sequences

CONSTANTS
    U1, U2,         \* unsigned integers of one and two bytes
    I1,             \* a signed integer of one byte
    B2,             \* a BytesInteger of two bytes
    C1,             \* char
    D1,             \* an array of dynamic size that turns out to be one byte
    N1,             \* a nested structure of one byte
    ND,             \* a nested structure without a length that turns out to be one byte
    MCTypes,        \* the types of the instance, some of those above
    MCByte,         \* the bits of a byte
    MaxFields       \* the longest structure

MCSize == [t \in MCTypes |-> IF t \in {U2, B2} THEN 2 ELSE 1]

MCInteger == MCTypes \cap {U1, U2, I1, B2}
MCSigned == MCTypes \cap {I1}
MCLenient == MCTypes \cap {B2, C1}
MCDynamic == MCTypes \cap {D1, ND}
MCNested == MCTypes \cap {N1, ND}

(***************************************************************************)
(* A bit field has at most the bits of its type, and for U1 one more: what *)
(* a unit that is too small does is part of the code.                      *)
(***************************************************************************)
MCFields ==
    {f \in [type : MCTypes, bits : 0 .. 2 * MCByte] :
       IF f.type \in MCInteger
       THEN f.bits <= MCSize[f.type] * MCByte + IF f.type = U1 THEN 1 ELSE 0
       ELSE f.bits = 0}

MCDefinitions == UNION {[1 .. n -> MCFields] : n \in 0 .. MaxFields}

\* A stream of n bytes: bit b of byte i is the source bit <<i, b>>.
Labelled(n) == [i \in 1 .. n |-> [b \in 0 .. MCByte - 1 |-> {<<i, b>>}]]

=============================================================================

------------------------------- MODULE PythonInt -------------------------------
(***************************************************************************)
(* Python's integers, where TLA+ has no operator or one that differs:      *)
(* division by a negative number, and the bits in two's complement.        *)
(***************************************************************************)
EXTENDS Integers

CONSTANT SignBit        \* numbers are in -(2 ^ SignBit) .. 2 ^ SignBit - 1

ASSUME SignBitAssumption == SignBit \in Nat \ {0}

\* 2 ^ k
PowerOf2[k \in Nat] == IF k = 0 THEN 1 ELSE 2 * PowerOf2[k - 1]

\* Division rounds down, and the remainder has the sign of the divisor.
FloorDiv(a, b) == IF b > 0 THEN a \div b ELSE (-a) \div (-b)

\* The positions of the bits of n; the one at SignBit stands for all above.
BitsOf(n) == {p \in 0 .. SignBit : (n \div PowerOf2[p]) % 2 = 1}

FromBits(S) ==
    LET weight(p) == IF p \notin S THEN 0
                     ELSE IF p = SignBit THEN -PowerOf2[p] ELSE PowerOf2[p]
        sum[p \in 0 .. SignBit] == weight(p) + IF p = 0 THEN 0 ELSE sum[p - 1]
    IN sum[SignBit]

BitAnd(a, b) == FromBits(BitsOf(a) \cap BitsOf(b))
BitOr(a, b) == FromBits(BitsOf(a) \cup BitsOf(b))
BitXor(a, b) == FromBits((BitsOf(a) \cup BitsOf(b)) \ (BitsOf(a) \cap BitsOf(b)))
Invert(n) == -n - 1

\* n.bit_length()
BitLength(n) ==
    LET fits(k) == n \in 1 - PowerOf2[k] .. PowerOf2[k] - 1
    IN CHOOSE k \in 0 .. SignBit : fits(k) /\ \A j \in 0 .. k - 1 : ~fits(j)

=============================================================================

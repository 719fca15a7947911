----------------------------- MODULE MCExpression -----------------------------
(* Small instances of Expression *)
EXTENDS Expression

\* x is both a field and a constant, c a negative constant.
MCOperands == {Num(2), Num(3), Name("x"), Name("c")}
MCContext == [w \in {"x"} |-> 1]
MCConsts == [w \in {"c", "x"} |-> IF w = "c" THEN -2 ELSE 3]

=============================================================================

\* Expressions of three operands with brackets.
SPECIFICATION ExpressionSpec
CONSTANTS
    Operands <- MCOperands
    Context <- MCContext
    Consts <- MCConsts
    SignBit = 10
INVARIANT
    NegativesInBrackets
\* evaluate returns.
CHECK_DEADLOCK FALSE

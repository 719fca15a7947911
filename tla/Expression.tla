------------------------------ MODULE Expression ------------------------------
(***************************************************************************)
(* expression.py: the sizes of arrays and the values of constants.         *)
(* evaluate takes brackets off from the inside, and puts the decimal text  *)
(* of what was in them in their place; evaluate_part splits the rest at    *)
(* operators.  A text is a sequence of tokens; a result is a set of one    *)
(* number, or empty when an exception was raised.                          *)
(***************************************************************************)
EXTENDS PythonInt, SequencesExt

CONSTANTS
    Operands,       \* numbers and names, as tokens
    Context,        \* [names -> Int]: fields read before
    Consts          \* [names -> Int]: cstruct.consts

ASSUME OperandsAssumption ==
    /\ Operands \subseteq ({"number"} \X Nat) \cup ({"name"} \X STRING)
    /\ \A w \in DOMAIN Context : Context[w] \in Int
    /\ \A w \in DOMAIN Consts : Consts[w] \in Int

VARIABLES
    expression,     \* three operands, two operators, and where brackets are
    i,              \* tokens read
    levels,         \* the texts before the brackets that are open
    buf,            \* the text since the last bracket
    result,         \* what evaluate has returned, {} before that and if it raised
    returned        \* it has

expressionVars == <<expression, i, levels, buf, result, returned>>

Operators == <<"*", "/", "%", "+", "-", ">>", "<<", "&", "^", "|">>

Num(n) == <<"number", n>>
Name(w) == <<"name", w>>
Op(o) == <<"operator", o>>
Open == <<"bracket", "(">>
Close == <<"bracket", ")">>

(***************************************************************************)
(* a o b p c, with brackets around the first two, the last two, all or no  *)
(* operands, or only one of a pair of brackets                             *)
(***************************************************************************)
Shapes == {"left", "right", "all", "flat", "open", "close"}

ExpressionsOf ==
    [shape : Shapes, a : Operands, b : Operands, c : Operands,
     o : ToSet(Operators), p : ToSet(Operators)]

Text(e) ==
    CASE e.shape = "left"  -> <<Open, e.a, Op(e.o), e.b, Close, Op(e.p), e.c>>
      [] e.shape = "right" -> <<e.a, Op(e.o), Open, e.b, Op(e.p), e.c, Close>>
      [] e.shape = "all"   -> <<Open, e.a, Op(e.o), e.b, Op(e.p), e.c, Close>>
      [] e.shape = "flat"  -> <<e.a, Op(e.o), e.b, Op(e.p), e.c>>
      [] e.shape = "open"  -> <<e.a, Op(e.o), Open, e.b, Op(e.p), e.c>>
      [] e.shape = "close" -> <<e.a, Op(e.o), e.b, Close, Op(e.p), e.c>>

\* str(value), as tokens
Str(n) == IF n < 0 THEN <<Op("-"), Num(-n)>> ELSE <<Num(n)>>

\* The operator's lambda; {} where it raises ZeroDivisionError or ValueError
Applied(o, a, b) ==
    CASE o = "*" -> {a * b}
      [] o = "/" -> IF b = 0 THEN {} ELSE {FloorDiv(a, b)}
      [] o = "%" -> IF b = 0 THEN {} ELSE {a - b * FloorDiv(a, b)}
      [] o = "+" -> {a + b}
      [] o = "-" -> {a - b}
      [] o = ">>" -> IF b < 0 THEN {} ELSE {a \div PowerOf2[b]}
      [] o = "<<" -> IF b < 0 THEN {} ELSE {a * PowerOf2[b]}
      [] o = "&" -> {BitAnd(a, b)}
      [] o = "^" -> {BitXor(a, b)}
      [] o = "|" -> {BitOr(a, b)}

\* The same for operands that may have failed
Combined(o, as, bs) == UNION {UNION {Applied(o, a, b) : b \in bs} : a \in as}

-----------------------------------------------------------------------------
(* evaluate_part *)

\* A part without operators: a field, a constant, or int(), which may fail
Atom(part) ==
    IF Len(part) # 1 THEN {}
    ELSE IF part[1][1] = "number" THEN {part[1][2]}
    ELSE IF part[1][2] \in DOMAIN Context THEN {Context[part[1][2]]}
    ELSE IF part[1][2] \in DOMAIN Consts THEN {Consts[part[1][2]]}
    ELSE {}

\* The text is '-' and digits.
IsNegative(part) == Len(part) = 2 /\ part[1] = Op("-") /\ part[2][1] = "number"

(***************************************************************************)
(* The part is split at the last occurrence of the operator that comes     *)
(* first in the list: `*` binds loosest, and each is left associative.     *)
(***************************************************************************)
Splitting(part) == {k \in DOMAIN Operators : \E j \in DOMAIN part : part[j] = Op(Operators[k])}

\* SplitAt, if it were the first occurrence
SplitAtFirst(part, o) == Min({j \in DOMAIN part : part[j] = Op(o)})

SplitAt(part, o) == Max({j \in DOMAIN part : part[j] = Op(o)})

EvaluatePart(text) ==
    LET part(p) == SubSeq(text, p[1], p[2])
        value[p \in (1 .. Len(text) + 1) \X (0 .. Len(text))] ==
            IF IsNegative(part(p)) THEN {-part(p)[2][2]}
            ELSE IF Splitting(part(p)) = {} THEN Atom(part(p))
            ELSE LET o == Operators[Min(Splitting(part(p)))]
                     at == p[1] - 1 + SplitAt(part(p), o)
                 IN Combined(o, value[<<p[1], at - 1>>], value[<<at + 1, p[2]>>])
    IN value[<<1, Len(text)>>]

-----------------------------------------------------------------------------
(* evaluate *)

ExpressionInit ==
    /\ expression \in ExpressionsOf
    /\ i = 0
    /\ levels = <<>>
    /\ buf = <<>>
    /\ result = {}
    /\ returned = FALSE

Token == Text(expression)[i + 1]

Reading ==
    /\ ~returned
    /\ i < Len(Text(expression))
    /\ i' = i + 1
    /\ UNCHANGED <<expression, result>>

OpenBracket ==
    /\ Reading
    /\ Token = Open
    /\ levels' = Append(levels, buf)
    /\ buf' = <<>>
    /\ UNCHANGED returned

\* A value that cannot be evaluated, and a bracket that was not opened, raise.
CloseBracket ==
    /\ Reading
    /\ Token = Close
    /\ IF EvaluatePart(buf) = {} \/ levels = <<>>
       THEN /\ returned' = TRUE
            /\ UNCHANGED <<levels, buf>>
       ELSE /\ \E v \in EvaluatePart(buf) : buf' = Last(levels) \o Str(v)
            /\ levels' = Front(levels)
            /\ UNCHANGED returned

CopyToken ==
    /\ Reading
    /\ Token \notin {Open, Close}
    /\ buf' = Append(buf, Token)
    /\ UNCHANGED <<levels, returned>>

\* Brackets that are still open are not looked at.
Return ==
    /\ ~returned
    /\ i = Len(Text(expression))
    /\ result' = EvaluatePart(buf)
    /\ returned' = TRUE
    /\ UNCHANGED <<expression, i, levels, buf>>

ExpressionNext == OpenBracket \/ CloseBracket \/ CopyToken \/ Return

ExpressionSpec == ExpressionInit /\ [][ExpressionNext]_expressionVars

-----------------------------------------------------------------------------
(* Properties *)

(***************************************************************************)
(* evaluate: the texts it keeps for open brackets hold no brackets, and    *)
(* what it returns is a number, if anything.                               *)
(***************************************************************************)
ExpressionTypeOK ==
    /\ expression \in ExpressionsOf
    /\ i \in 0 .. Len(Text(expression))
    /\ \A text \in ToSet(levels) \cup {buf} : {Open, Close} \cap ToSet(text) = {}
    /\ result \subseteq Int
    /\ returned \in BOOLEAN

Rank(o) == CHOOSE k \in DOMAIN Operators : Operators[k] = o

\* The value of e, with the precedence of the list where brackets leave it open
Expected(e) ==
    LET a == Atom(<<e.a>>)
        b == Atom(<<e.b>>)
        c == Atom(<<e.c>>)
        ab == Combined(e.p, Combined(e.o, a, b), c)
        bc == Combined(e.o, a, Combined(e.p, b, c))
    IN CASE e.shape = "left" -> ab
         [] e.shape = "right" -> bc
         [] e.shape = "open" -> Combined(e.p, b, c)
         [] e.shape = "close" -> {}
         [] OTHER -> IF Rank(e.o) < Rank(e.p) THEN bc ELSE ab

\* The operators that are looked for before "-"
BeforeMinus == {"*", "/", "%", "+"}

\* A negative value in brackets is not the left operand of "-" or before it.
Misread(e) ==
    LET inner(o, x, y) == \E v \in Combined(o, Atom(<<x>>), Atom(<<y>>)) : v < 0
    IN \/ e.shape = "left" /\ e.p \notin BeforeMinus \cup {"-"} /\ inner(e.o, e.a, e.b)
       \/ e.shape = "right" /\ e.o \notin BeforeMinus /\ inner(e.p, e.b, e.c)

(***************************************************************************)
(* evaluate returns the value the brackets give the expression; operators  *)
(* outside of brackets bind in the order of the list, the first loosest.   *)
(* Where the sign of a negative value in brackets is taken for the         *)
(* operator "-" it raises an exception, and never returns another value.   *)
(* A bracket that is not closed hides all before it; one that was not      *)
(* opened raises.                                                          *)
(***************************************************************************)
ValueIsExact ==
    returned => result = IF Misread(expression) THEN {} ELSE Expected(expression)

(***************************************************************************)
(* expression.py:53: to use negative values in more complex expressions,   *)
(* they must be wrapped in brackets.  Then a value in brackets can be used *)
(* with every operator, negative or not.                                   *)
(***************************************************************************)
NegativesInBrackets ==
    returned /\ expression.shape \in {"left", "right"} => result = Expected(expression)

=============================================================================

------------------------------ MODULE MCParser ------------------------------
(***************************************************************************)
(* Small instances of the two parsers: definitions made of a few words, of *)
(* the forms the parsers tell apart, and cut off at any token.             *)
(***************************************************************************)
EXTENDS LegacyParser

CONSTANTS
    U8,         \* uint8, which is predefined
    E,          \* an enum
    A, B,       \* names of structures
    N,          \* a name that is never that of a structure
    X           \* the name of a field

MCWords == {U8, E, A, B, N, X}

MCObjects == <<[class |-> "raw", name |-> U8, fields |-> <<>>, compiled |-> FALSE, asked |-> FALSE]>>
MCTypedefs == [n \in {U8} |-> 1]

Tok(kind) == <<[kind |-> kind, words |-> <<>>, byName |-> FALSE]>>
WordsTok(kind, words) == <<[kind |-> kind, words |-> words, byName |-> FALSE]>>
Id(w) == WordsTok("IDENTIFIER", <<w>>)
Nm(w) == WordsTok("NAME", <<w>>) \o Tok("EOL")
NmByName(w) == <<[kind |-> "NAME", words |-> <<w>>, byName |-> TRUE]>> \o Tok("EOL")
Defs(v, w) == WordsTok("DEFS", <<v, w>>) \o Tok("EOL")

\* A field of the text
Plain == Id(U8) \o Nm(X)
Inner == Tok("STRUCT") \o Tok("{") \o Plain \o Tok("}")

SomeFields ==
    {Plain, Id(U8) \o NmByName(X), Id(E) \o Nm(X), Id(A) \o NmByName(X), Id(B) \o NmByName(X),
     Inner \o Tok("EOL"), Inner \o Nm(B)}

MoreFields ==
    SomeFields \cup
    {Nm(X), Id(N) \o Nm(X), Id(U8) \o Id(X) \o Nm(X),
     Tok("STRUCT") \o Id(A) \o NmByName(X), Tok("STRUCT") \o Nm(A),
     Tok("STRUCT") \o Id(A) \o Tok("EOL"),
     Tok("UNION") \o Id(B) \o Tok("{") \o Plain \o Tok("}") \o Nm(X),
     Inner \o Tok("EOL") \o Nm(X), Inner \o Plain, Inner \o Tok("EOL") \o Inner \o Tok("EOL"),
     Tok("EOL"), Tok("CONFIG_FLAG"), Tok("{") \o Tok("}")}

SomeOpenings ==
    {Tok("STRUCT") \o Id(A), Tok("STRUCT"), Tok("TYPEDEF") \o Tok("STRUCT") \o Id(A)}

MoreOpenings == SomeOpenings \cup {Tok("UNION") \o Id(A), Tok("STRUCT") \o Id(B)}

SomeClosings == {Tok("EOL"), Nm(B), Defs(B, A)}

MoreClosings == SomeClosings \cup {Nm(A), <<>>}

StructTexts(openings, fields, closings) ==
    {o \o Tok("{") \o f \o Tok("}") \o c : o \in openings, f \in fields, c \in closings}

Structures ==
    StructTexts(SomeOpenings, SomeFields, SomeClosings)
    \cup StructTexts({Tok("STRUCT") \o Id(A)}, MoreFields, {Tok("EOL")})
    \cup StructTexts(MoreOpenings, {Plain, Id(B) \o NmByName(X)}, MoreClosings)

Others ==
    {WordsTok("ENUM", words) \o Tok("EOL") : words \in {<<E, U8>>, <<E, N>>, <<E, U8, X>>}}
    \cup
    {Tok("TYPEDEF") \o Nm(N),
     Tok("TYPEDEF") \o Id(A) \o Nm(B), Tok("TYPEDEF") \o Id(U8) \o Nm(A),
     WordsTok("DEFINE", <<X>>) \o WordsTok("LOOKUP", <<X>>), WordsTok("LOOKUP", <<N>>),
     Tok("TYPEDEF") \o Tok("STRUCT") \o Id(A) \o Nm(B), Tok("STRUCT") \o Id(A) \o Nm(B)}

\* The first n tokens of the text; a NAME without its semicolon is none.
Cut(text, n) ==
    [i \in 1 .. n |->
        IF i = n /\ text[i].kind = "NAME" THEN [text[i] EXCEPT !.kind = "IDENTIFIER"] ELSE text[i]]

CutOff == {Cut(t, n) : t \in {u \in Structures : Len(u) > 5}, n \in 0 .. 5}
          \cup {Cut(t, Len(t) - 1) : t \in Others}

\* A flag is given for a structure, or for what comes before it.
Flagged ==
    {Tok("CONFIG_FLAG") \o o \o Tok("STRUCT") \o Id(A) \o Tok("{") \o f \o Tok("}") \o Tok("EOL") :
        o \in {<<>>, Tok("TYPEDEF") \o Id(U8) \o Nm(N)}, f \in SomeFields}

MCTexts ==
    {t \in Structures \cup Others \cup Flagged \cup CutOff : Scannable(t)}

-----------------------------------------------------------------------------
(* Definitions of the old syntax *)

Declaration(kind, tag, names, type, fields) ==
    [kind |-> kind, tag |-> tag, names |-> names, type |-> type, body |-> TRUE,
     values |-> <<>>, fields |-> fields, compile |-> FALSE]

LField(type, byName) == <<[type |-> type, name |-> X, byName |-> byName]>>
LStruct(tag, names, field) == Declaration("struct", tag, names, U8, field)
LTypedef(type, name) == Declaration("typedef", <<name>>, <<>>, type, <<>>)
LEnum(type) == Declaration("enum", <<E>>, <<>>, type, <<>>)
LA == LStruct(<<A>>, <<>>, LField(U8, FALSE))

MCLegacyTexts ==
    {<<LStruct(<<A>>, <<>>, f)>> : f \in {LField(U8, TRUE), LField(N, FALSE), LField(B, TRUE)}}
    \cup {<<LStruct(<<>>, <<A, B>>, LField(E, FALSE)), LEnum(U8)>>,     \* the enum is first
          <<LStruct(<<B>>, <<A, B>>, LField(A, TRUE))>>,
          <<LStruct(<<>>, <<>>, LField(U8, FALSE))>>,
          <<LEnum(A)>>,
          <<LEnum(N)>>,
          <<[LEnum(U8) EXCEPT !.values = <<X>>]>>,
          <<[LA EXCEPT !.body = FALSE]>>,
          <<[LA EXCEPT !.compile = TRUE], LStruct(<<B>>, <<>>, LField(A, TRUE))>>,
          <<LTypedef(A, B), LA>>,
          <<LTypedef(A, N), LTypedef(N, A)>>,
          <<LTypedef(U8, N), LStruct(<<A>>, <<B>>, LField(N, TRUE))>>,
          <<Declaration("lookup", <<X>>, <<>>, U8, <<>>), Declaration("define", <<X>>, <<>>, U8, <<>>)>>,
          <<Declaration("other", <<A>>, <<>>, U8, <<>>), Declaration("lookup", <<N>>, <<>>, U8, <<>>)>>}

=============================================================================

----------------------------- MODULE TokenParser -----------------------------
(***************************************************************************)
(* parser.py: TokenParser, which loads definitions into a cstruct.         *)
(*                                                                         *)
(* A definition is a sequence of tokens.  The methods of the parser call   *)
(* each other recursively for nested structures; `stack` holds the calls   *)
(* of _struct that are under way, and an action is what happens between    *)
(* two points where such a call begins or ends, or a field is complete.    *)
(*                                                                         *)
(* A load that fails raises an exception and leaves in the cstruct what it *)
(* has registered until then.                                              *)
(***************************************************************************)
EXTENDS TypeRegistry

CONSTANTS
    InitObjects,    \* the types of a new cstruct
    Texts,          \* the definitions to load, as the scanner splits them
    MaxLoads,       \* bound on the loads
    CallerWords     \* the names the caller adds, and adds references to

TokenKinds == {"CONFIG_FLAG", "DEFINE", "TYPEDEF", "STRUCT", "UNION", "ENUM", "DEFS",
               "NAME", "IDENTIFIER", "{", "}", "LOOKUP", "EOL"}

(***************************************************************************)
(* A token, with the words in it: those of an ENUM are its name, its type  *)
(* (uint32 where none is written) and the constants in its values.         *)
(* `byName` marks a NAME that makes a bit field or a pointer, whose type   *)
(* generated code looks up by name.                                        *)
(***************************************************************************)
Tokens == [kind : TokenKinds, words : Seq(Words), byName : BOOLEAN]

(***************************************************************************)
(* The regular expressions of the scanner look ahead: a NAME, a list of    *)
(* NAMEs after a brace and an enum only count as such before a semicolon.  *)
(***************************************************************************)
Scannable(text) ==
    \A i \in DOMAIN text :
       LET next == IF i < Len(text) THEN text[i + 1].kind ELSE "nothing" IN
       /\ text[i].kind \in {"NAME", "DEFS", "ENUM"} => next = "EOL"
       /\ text[i].kind = "DEFS" => i > 1 /\ text[i - 1].kind = "}"
       /\ text[i].kind = "DEFS" => Len(text[i].words) > 1
       /\ text[i].kind \in {"NAME", "IDENTIFIER", "DEFINE"} => Len(text[i].words) = 1
       /\ text[i].kind = "ENUM" => Len(text[i].words) > 1

ASSUME CallerWordsAssumption == CallerWords \subseteq Words

ASSUME TextsAssumption == \A text \in Texts : text \in Seq(Tokens) /\ Scannable(text)

VARIABLES
    objects,        \* the types made so far
    anonymous,      \* cstruct._anonymous_count
    consts,         \* the names of the constants
    tokens,         \* TokenConsumer.tokens
    flags,          \* 'nocompile' in TokenConsumer.flags
    compiled,       \* the compiled argument of load
    stack,          \* the calls of _struct
    outcome,        \* how the load stands, or ended
    loads           \* the number of loads

parserVars == <<typedefs, references, objects, anonymous, consts, tokens, flags,
                compiled, stack, outcome, loads>>

\* A structure without a name is given the next number.
TypeNames == Words \cup ({"anonymous"} \X Nat)

FieldTypes == Nat \cup {NoneType}

ParsedFields == [name : TypeNames, type : FieldTypes, byName : BOOLEAN]

(***************************************************************************)
(* `asked` is not in the code: a #[nocompile] was given for the structure. *)
(***************************************************************************)
Objects == [class : {"raw", "enum", "struct", "union"}, name : TypeNames,
            fields : Seq(ParsedFields), compiled : BOOLEAN, asked : BOOLEAN]

Calls == [class : {"struct", "union"}, tag : Seq(Words), fields : Seq(ParsedFields),
          typedef : BOOLEAN, asked : BOOLEAN]

Outcomes == {"new", "parsing", "done", "ParserError", "ResolveError", "ValueError",
             "AttributeError", "KeyError", "TypeError", "eol failed"}

(***************************************************************************)
(* A new cstruct knows its types by their names, and has other names that  *)
(* refer to these.                                                         *)
(***************************************************************************)
ASSUME InitAssumption ==
    /\ DOMAIN InitTypedefs \subseteq Words
    /\ \A n \in DOMAIN InitTypedefs : InitTypedefs[n] \in Words \cup DOMAIN InitObjects
    /\ InitObjects \in Seq(Objects)
    /\ \A i \in DOMAIN InitObjects :
          /\ InitObjects[i].class = "raw"
          /\ InitObjects[i].fields = <<>>
          /\ InitObjects[i].name \in DOMAIN InitTypedefs
          /\ InitTypedefs[InitObjects[i].name] = i

\* The parser's state, and types only where the registry keeps types.
ParserTypeOK ==
    /\ DOMAIN typedefs \subseteq Words
    /\ \A n \in DOMAIN typedefs :
          typedefs[n] \in Words \cup {NoneType} \cup DOMAIN objects
    /\ references \subseteq DOMAIN typedefs
    /\ objects \in Seq(Objects)
    /\ anonymous \in Nat
    /\ consts \subseteq Words
    /\ tokens \in Seq(Tokens)
    /\ flags \in BOOLEAN
    /\ compiled \in BOOLEAN
    /\ stack \in Seq(Calls)
    /\ outcome \in Outcomes
    /\ outcome # "parsing" => stack = <<>>

-----------------------------------------------------------------------------

ParserInit ==
    /\ RegistryInit
    /\ objects = InitObjects
    /\ anonymous = 0
    /\ consts = {}
    /\ tokens = <<>>
    /\ flags = FALSE
    /\ compiled = TRUE
    /\ stack = <<>>
    /\ outcome = "new"
    /\ loads = 0

\* cstruct.load, with a parser and a token consumer of its own
Load(text, wanted) ==
    /\ loads' = loads + 1
    /\ tokens' = text
    /\ compiled' = wanted
    /\ flags' = FALSE
    /\ stack' = <<>>
    /\ outcome' = "parsing"
    /\ UNCHANGED <<typedefs, references, objects, anonymous, consts>>

Parsing == outcome = "parsing"

\* tokens.next
Ahead(ts) == IF ts = <<>> THEN "nothing" ELSE Head(ts).kind

After(ts, n) == SubSeq(ts, n + 1, Len(ts))

AtTop == Parsing /\ stack = <<>>

Inside == Parsing /\ stack # <<>>

Raise(exception) ==
    /\ outcome' = exception
    /\ tokens' = <<>>
    /\ stack' = <<>>

\* tokens.eol(), of a token that is followed by the tokens ts
Eol(ts) == IF Ahead(ts) = "EOL" THEN "parsing" ELSE "eol failed"

\* _names: the names up to the end of the declaration, and the tokens after it
Names(ts) ==
    LET n == IF Ahead(ts) \in {"NAME", "DEFS"} THEN 1 ELSE 0
        rest == After(ts, n)
    IN [words |-> IF n = 1 THEN Head(ts).words ELSE <<>>,
        rest |-> IF Ahead(rest) = "EOL" THEN Tail(rest) ELSE rest]

\* addtype for each name; the tokens that are left are ts.
Declare(names, type, ts) ==
    /\ typedefs' = Registered(names, type)
    /\ IF AllFree(names)
       THEN tokens' = ts /\ UNCHANGED <<stack, outcome>>
       ELSE Raise("ValueError")

-----------------------------------------------------------------------------
(* Declarations without a body *)

ConfigFlag ==
    /\ AtTop
    /\ Ahead(tokens) = "CONFIG_FLAG"
    /\ flags' = TRUE
    /\ tokens' = Tail(tokens)
    /\ UNCHANGED <<typedefs, references, objects, anonymous, consts, compiled, stack, outcome, loads>>

Constant ==
    /\ AtTop
    /\ Ahead(tokens) = "DEFINE"
    /\ consts' = consts \cup {Head(tokens).words[1]}
    /\ tokens' = Tail(tokens)
    /\ UNCHANGED <<typedefs, references, objects, anonymous, flags, compiled, stack, outcome, loads>>

\* The keys of a lookup have to be constants.
Lookup ==
    /\ AtTop
    /\ Ahead(tokens) = "LOOKUP"
    /\ IF \A k \in DOMAIN Head(tokens).words : Head(tokens).words[k] \in consts
       THEN tokens' = Tail(tokens) /\ UNCHANGED <<stack, outcome>>
       ELSE Raise("KeyError")
    /\ UNCHANGED <<typedefs, references, objects, anonymous, consts, flags, compiled, loads>>

(***************************************************************************)
(* What an enum raises before it is made, if anything: its values are      *)
(* evaluated first, where a name that is no constant is no number, then    *)
(* its type is resolved and asked for its length.                          *)
(***************************************************************************)
EnumError(type, values) ==
    IF \E k \in DOMAIN values : values[k] \notin consts THEN "ValueError"
    ELSE IF Resolve(type) = Unresolved THEN "ResolveError"
    ELSE IF Resolve(type) = NoneType THEN "TypeError"
    ELSE "none"

TokenEnumError == EnumError(Head(tokens).words[2], After(Head(tokens).words, 2))

EnumFails ==
    /\ AtTop
    /\ Ahead(tokens) = "ENUM"
    /\ TokenEnumError # "none"
    /\ Raise(TokenEnumError)
    /\ UNCHANGED <<typedefs, references, objects, anonymous, consts, flags, compiled, loads>>

EnumDeclaration ==
    /\ AtTop
    /\ Ahead(tokens) = "ENUM"
    /\ TokenEnumError = "none"
    /\ LET name == Head(tokens).words[1] IN
       /\ objects' = Append(objects, [class |-> "enum", name |-> name, fields |-> <<>>,
                                      compiled |-> FALSE, asked |-> FALSE])
       /\ typedefs' = Registered(<<name>>, Len(objects) + 1)
       /\ IF AllFree(<<name>>)
          THEN /\ outcome' = Eol(Tail(tokens))
               /\ tokens' = After(tokens, 2)
               /\ UNCHANGED stack
          ELSE Raise("ValueError")
    /\ UNCHANGED <<references, anonymous, consts, flags, compiled, loads>>

AtTypedef == AtTop /\ Ahead(tokens) = "TYPEDEF"

\* TypedefName, if the name were registered for the identifier
TypedefReference ==
    /\ AtTypedef
    /\ Ahead(Tail(tokens)) = "IDENTIFIER"
    /\ LET names == Names(After(tokens, 2)) IN
       Declare(names.words, tokens[2].words[1], names.rest)
    /\ UNCHANGED <<references, objects, anonymous, consts, flags, compiled, loads>>

\* typedef identifier name;
\* the type is looked up now, and not when the name is used.
TypedefName ==
    /\ AtTypedef
    /\ Ahead(Tail(tokens)) = "IDENTIFIER"
    /\ LET type == Resolve(tokens[2].words[1])
           names == Names(After(tokens, 2))
       IN IF type = Unresolved
          THEN Raise("ResolveError") /\ UNCHANGED typedefs
          ELSE Declare(names.words, type, names.rest)
    /\ UNCHANGED <<references, objects, anonymous, consts, flags, compiled, loads>>

\* typedef name; or typedef before anything else: the type is None.
TypedefNothing ==
    /\ AtTypedef
    /\ Ahead(Tail(tokens)) \notin {"IDENTIFIER", "STRUCT", "UNION"}
    /\ LET names == Names(Tail(tokens)) IN Declare(names.words, NoneType, names.rest)
    /\ UNCHANGED <<references, objects, anonymous, consts, flags, compiled, loads>>

UnexpectedToken ==
    /\ AtTop
    /\ Ahead(tokens) \in {"DEFS", "NAME", "IDENTIFIER", "{", "}", "EOL"}
    /\ Raise("ParserError")
    /\ UNCHANGED <<typedefs, references, objects, anonymous, consts, flags, compiled, loads>>

EndOfText ==
    /\ AtTop
    /\ tokens = <<>>
    /\ outcome' = "done"
    /\ UNCHANGED <<typedefs, references, objects, anonymous, consts, tokens, flags, compiled,
                   stack, loads>>

-----------------------------------------------------------------------------
(* _struct: at the top, after a typedef, or as the type of a field *)

\* The tokens _struct is called with, if it is called next
StructTokens ==
    IF AtTypedef THEN Tail(tokens) ELSE tokens

AtStruct == Parsing /\ Ahead(StructTokens) \in {"STRUCT", "UNION"}

Tag ==
    IF Ahead(Tail(StructTokens)) = "IDENTIFIER" THEN StructTokens[2].words ELSE <<>>

\* What follows the keyword and the tag
Body == After(StructTokens, 1 + Len(Tag))

\* The field is added to the innermost call.
WithField(calls, name, type, byName) ==
    [calls EXCEPT ![Len(calls)].fields =
        Append(@, [name |-> name, type |-> type, byName |-> byName])]

\* Either brace will do.
OpenStruct ==
    /\ AtStruct
    /\ Ahead(Body) \in {"{", "}"}
    /\ stack' = Append(stack, [class |-> IF Head(StructTokens).kind = "UNION"
                                         THEN "union" ELSE "struct",
                               tag |-> Tag, fields |-> <<>>, typedef |-> AtTypedef,
                               asked |-> flags])
    /\ tokens' = Tail(Body)
    /\ UNCHANGED <<typedefs, references, objects, anonymous, consts, flags, compiled, outcome, loads>>

\* struct tag name; where the tag is that of an earlier structure
ReferToStruct ==
    /\ AtStruct
    /\ Ahead(Body) = "NAME"
    /\ Tag # <<>>
    /\ Resolve(Tag[1]) # Unresolved
    /\ IF stack # <<>>
       THEN /\ stack' = WithField(stack, Head(Body).words[1], Resolve(Tag[1]), Head(Body).byName)
            /\ outcome' = Eol(Tail(Body))
            /\ tokens' = After(Body, 2)
            /\ UNCHANGED typedefs
       ELSE IF AtTypedef
       THEN Declare(Names(Body).words, Resolve(Tag[1]), Names(Body).rest)
       ELSE tokens' = Body /\ UNCHANGED <<typedefs, stack, outcome>>
    /\ UNCHANGED <<references, objects, anonymous, consts, flags, compiled, loads>>

\* The line number of a missing token is the AttributeError.
StructFails ==
    /\ AtStruct
    /\ CASE Ahead(Body) = "NAME" /\ Tag = <<>> -> Raise("ParserError")
         [] Ahead(Body) = "NAME" /\ Tag # <<>> ->
              Resolve(Tag[1]) = Unresolved /\ Raise("ResolveError")
         [] Body = <<>> -> Raise("AttributeError")
         [] OTHER -> Ahead(Body) \notin {"{", "}"} /\ Raise("ParserError")
    /\ UNCHANGED <<typedefs, references, objects, anonymous, consts, flags, compiled, loads>>

\* A structure with a field of no type is not supported, nor is a union.
Supported(call) ==
    /\ call.class = "struct"
    /\ \A k \in DOMAIN call.fields : call.fields[k].type # NoneType

Made(call, name) ==
    [class |-> call.class, name |-> name, fields |-> call.fields,
     compiled |-> compiled /\ ~flags /\ Supported(call), asked |-> call.asked]

\* The body ends at the brace, or at the end of the text.
AtEnd == Inside /\ Ahead(tokens) \in {"}", "nothing"}

Closed == stack[Len(stack)]
Declarators == Names(IF tokens = <<>> THEN <<>> ELSE Tail(tokens))
AllNames == Closed.tag \o Declarators.words
NewName == IF AllNames = <<>> THEN <<"anonymous", anonymous>> ELSE AllNames[1]
Outer == SubSeq(stack, 1, Len(stack) - 1)

\* NewType, if an anonymous structure did not use up its number
NewTypeUncounted ==
    /\ objects' = Append(objects, Made(Closed, NewName))
    /\ UNCHANGED anonymous

NewType ==
    /\ objects' = Append(objects, Made(Closed, NewName))
    /\ anonymous' = IF AllNames = <<>> THEN anonymous + 1 ELSE anonymous

\* The structure is the type of a field, which has the name of the structure
\* unless another NAME follows.
CloseNested ==
    /\ AtEnd
    /\ Outer # <<>>
    /\ NewType
    /\ flags' = FALSE
    /\ LET rest == Declarators.rest IN
       IF Ahead(rest) = "NAME"
       THEN /\ stack' = WithField(Outer, Head(rest).words[1], Len(objects) + 1, Head(rest).byName)
            /\ outcome' = Eol(Tail(rest))
            /\ tokens' = After(rest, 2)
       ELSE /\ stack' = WithField(Outer, NewName, Len(objects) + 1, FALSE)
            /\ tokens' = rest
            /\ UNCHANGED outcome
    /\ UNCHANGED <<typedefs, references, consts, compiled, loads>>

\* After a typedef, names are taken a second time.
CloseDeclared ==
    /\ AtEnd
    /\ Outer = <<>>
    /\ NewType
    /\ LET again == IF Closed.typedef THEN Names(Declarators.rest)
                    ELSE [words |-> <<>>, rest |-> Declarators.rest]
           names == AllNames \o again.words
       IN IF AllNames = <<>>
          THEN Raise("ParserError") /\ UNCHANGED <<typedefs, flags>>
          ELSE /\ typedefs' = Registered(names, Len(objects) + 1)
               /\ IF AllFree(names)
                  THEN tokens' = again.rest /\ stack' = <<>> /\ UNCHANGED outcome
                  ELSE Raise("ValueError")
               /\ flags' = FALSE
    /\ UNCHANGED <<references, consts, compiled, loads>>

-----------------------------------------------------------------------------
(* _parse_field, for a field that is no nested structure *)

\* ParseField, if any word would do for a name
ParseFieldUnchecked ==
    /\ Inside
    /\ Ahead(tokens) = "IDENTIFIER"
    /\ LET type == Resolve(Head(tokens).words[1])
           rest == Tail(tokens)
       IN CASE type = Unresolved -> Raise("ResolveError")
            [] type # Unresolved /\ rest = <<>> -> Raise("AttributeError")
            [] type # Unresolved /\ Ahead(rest) \in {"NAME", "IDENTIFIER"} ->
                 /\ stack' = WithField(stack, Head(rest).words[1], type, Head(rest).byName)
                 /\ outcome' = Eol(Tail(rest))
                 /\ tokens' = After(rest, 2)
            [] OTHER -> Raise("ParserError")
    /\ UNCHANGED <<typedefs, references, objects, anonymous, consts, flags, compiled, loads>>

ParseField ==
    /\ Inside
    /\ Ahead(tokens) = "IDENTIFIER"
    /\ LET type == Resolve(Head(tokens).words[1])
           rest == Tail(tokens)
       IN CASE type = Unresolved -> Raise("ResolveError")
            [] type # Unresolved /\ rest = <<>> -> Raise("AttributeError")
            [] type # Unresolved /\ Ahead(rest) = "NAME" ->
                 /\ stack' = WithField(stack, Head(rest).words[1], type, Head(rest).byName)
                 /\ outcome' = Eol(Tail(rest))
                 /\ tokens' = After(rest, 2)
            [] OTHER -> Raise("ParserError")
    /\ UNCHANGED <<typedefs, references, objects, anonymous, consts, flags, compiled, loads>>

\* A NAME alone is a field whose type is None.
ParseUntypedField ==
    /\ Inside
    /\ Ahead(tokens) = "NAME"
    /\ stack' = WithField(stack, Head(tokens).words[1], NoneType, Head(tokens).byName)
    /\ outcome' = Eol(Tail(tokens))
    /\ tokens' = After(tokens, 2)
    /\ UNCHANGED <<typedefs, references, objects, anonymous, consts, flags, compiled, loads>>

\* NoField, if the exception were left out: nothing consumes the token.
NoFieldIgnored ==
    /\ Inside
    /\ Ahead(tokens) \in {"CONFIG_FLAG", "DEFINE", "TYPEDEF", "ENUM", "DEFS", "{",
                          "LOOKUP", "EOL"}
    /\ UNCHANGED parserVars

NoField ==
    /\ Inside
    /\ Ahead(tokens) \in {"CONFIG_FLAG", "DEFINE", "TYPEDEF", "ENUM", "DEFS", "{",
                          "LOOKUP", "EOL"}
    /\ Raise("ParserError")
    /\ UNCHANGED <<typedefs, references, objects, anonymous, consts, flags, compiled, loads>>

Parse ==
    \/ ConfigFlag \/ Constant \/ Lookup \/ EnumFails \/ EnumDeclaration
    \/ TypedefName \/ TypedefNothing \/ UnexpectedToken \/ EndOfText
    \/ OpenStruct \/ ReferToStruct \/ StructFails \/ CloseNested \/ CloseDeclared
    \/ ParseField \/ ParseUntypedField \/ NoField

\* The caller adds references between the loads.
CallerAdds ==
    /\ ~Parsing
    /\ \E name, reference \in CallerWords :
          AddReference(name, reference) \/ ReplaceByReference(name, reference)
    /\ UNCHANGED <<objects, anonymous, consts, tokens, flags, compiled, stack, outcome, loads>>

ParserNext ==
    \/ ~Parsing /\ loads < MaxLoads /\ \E text \in Texts, wanted \in BOOLEAN : Load(text, wanted)
    \/ Parse
    \/ CallerAdds

-----------------------------------------------------------------------------
Replaces == \E name, reference \in CallerWords : ReplaceByReference(name, reference)

(***************************************************************************)
(* No load, whether it succeeds or fails halfway, and no addtype that does *)
(* not replace changes what a name means once it resolves: structures that *)
(* are made before and after agree on the types they name.                 *)
(***************************************************************************)
NamesKeepTheirMeaning ==
    [][Replaces \/ \A n \in Words : Resolve(n) # Unresolved => Resolve(n)' = Resolve(n)]_parserVars

(***************************************************************************)
(* Whatever references have been added, the names that definitions declare *)
(* are no references, but for the typedefs of the old parser, so that no   *)
(* chain of them grows beyond what resolve follows.                        *)
(***************************************************************************)
DeclaredNamesAreDirect ==
    \A n \in DOMAIN typedefs \ references : typedefs[n] \notin Words

\* The code generated for field f looks up its type by the name of the type.
LookedUp(f) == f.type \in DOMAIN objects /\ (f.byName \/ objects[f.type].class = "enum")

\* A definition has registered the type, under any name.
IsDeclared(type) == \E n \in DOMAIN typedefs \ references : typedefs[n] = type

(***************************************************************************)
(* A compiled structure looks up the types of pointers, enums and bit      *)
(* fields by name each time it reads.  It finds the types it was defined   *)
(* with, after any loads, also those that failed between two names of a    *)
(* declaration, unless the name was given to a reference instead.          *)
(***************************************************************************)
CompiledSeesItsTypes ==
    \A i \in DOMAIN objects : objects[i].compiled =>
       \A k \in DOMAIN objects[i].fields :
          LET f == objects[i].fields[k]
              name == objects[f.type].name
          IN LookedUp(f) /\ IsDeclared(f.type) /\ name \notin references =>
                name \in DOMAIN typedefs /\ typedefs[name] = f.type

(***************************************************************************)
(* eol() cannot fail: where the parser calls it the scanner has seen the   *)
(* semicolon.  (Its error message uses a method TokenConsumer lacks.)      *)
(***************************************************************************)
EolIsThere == outcome # "eol failed"

(***************************************************************************)
(* The anonymous structures within a structure have different names, so    *)
(* that none takes the place of another in the fields, the sizes or the    *)
(* lookup of the structure, whatever was loaded, or failed to, before.     *)
(***************************************************************************)
AnonymousFieldsApart ==
    \A i \in DOMAIN objects :
       LET fields == objects[i].fields IN
       \A j, k \in DOMAIN fields :
          j < k /\ fields[j].name \notin Words => fields[j].name # fields[k].name

(***************************************************************************)
(* test_config_flag_nocompile asserts '+compiled' not in repr(...) for a   *)
(* structure that follows #[nocompile].                                    *)
(***************************************************************************)
FlagsAreHonoured == \A i \in DOMAIN objects : objects[i].asked => ~objects[i].compiled

=============================================================================

---------------------------- MODULE LegacyParser ----------------------------
(***************************************************************************)
(* parser.py: CStyleParser, which loads definitions with DEF_LEGACY, and   *)
(* the loads of either parser into one cstruct.                            *)
(*                                                                         *)
(* Its regular expressions find the declarations one kind at a time, so    *)
(* that all constants come first, then all enums, then structures and      *)
(* typedefs, and what no expression matches is passed over.  A definition  *)
(* is the sequence of the matches.                                         *)
(***************************************************************************)
EXTENDS TokenParser, SequencesExt

CONSTANT LegacyTexts    \* the definitions to load with DEF_LEGACY

VARIABLE todo           \* the matches that are still to be gone through

loadVars == <<parserVars, todo>>

LegacyFields == [type : Words, name : Words, byName : BOOLEAN]

(***************************************************************************)
(* "other" has the form of a structure or typedef and is neither.  tag is  *)
(* the first name of a match, or no name, and names are those after the    *)
(* body; type is what an enum, a typedef or a "struct" without a body      *)
(* refer to; values are the constants in the values of an enum; compile    *)
(* stands for #compile.                                                    *)
(***************************************************************************)
Declarations ==
    [kind : {"define", "enum", "struct", "typedef", "other", "lookup"},
     tag : Seq(Words), names : Seq(Words), type : Words, values : Seq(Words),
     body : BOOLEAN, fields : Seq(LegacyFields), compile : BOOLEAN]

ASSUME LegacyTextsAssumption ==
    \A text \in LegacyTexts :
       /\ text \in Seq(Declarations)
       /\ \A i \in DOMAIN text : text[i].kind = "enum" => text[i].tag # <<>>

OfKind(text, kinds) ==
    LET found[i \in 0 .. Len(text)] ==
            IF i = 0 THEN <<>>
            ELSE IF text[i].kind \in kinds THEN Append(found[i - 1], text[i])
            ELSE found[i - 1]
    IN found[Len(text)]

\* parse: the kinds of declarations, one after the other
InPhases(text) ==
    OfKind(text, {"define"}) \o OfKind(text, {"enum"})
    \o OfKind(text, {"struct", "typedef", "other"}) \o OfKind(text, {"lookup"})

Loading == Parsing \/ todo # <<>>

-----------------------------------------------------------------------------

\* cstruct.load with DEF_LEGACY; the outcome is "done" unless an error is raised.
LegacyLoad(text, wanted) ==
    /\ loads' = loads + 1
    /\ todo' = InPhases(text)
    /\ compiled' = wanted
    /\ outcome' = "done"
    /\ UNCHANGED <<typedefs, references, objects, anonymous, consts, tokens, flags, stack>>

Match == Head(todo)

Proceed == todo' = Tail(todo) /\ UNCHANGED outcome

Abort(exception) == todo' = <<>> /\ outcome' = exception

MatchNames == Match.tag \o Match.names

\* addtype for one name after the other, whatever a type or a reference
Register(type) ==
    /\ typedefs' = Registered(MatchNames, type)
    /\ IF AllFree(MatchNames) THEN Proceed ELSE Abort("ValueError")

AtMatch(kinds) ==
    /\ todo # <<>>
    /\ Match.kind \in kinds
    /\ UNCHANGED <<anonymous, tokens, flags, compiled, stack, loads>>

LegacyConstant ==
    /\ AtMatch({"define"})
    /\ consts' = consts \cup ToSet(Match.tag)
    /\ Proceed
    /\ UNCHANGED <<typedefs, references, objects>>

LegacyEnum ==
    /\ AtMatch({"enum"})
    /\ IF EnumError(Match.type, Match.values) # "none"
       THEN Abort(EnumError(Match.type, Match.values)) /\ UNCHANGED <<typedefs, objects>>
       ELSE /\ objects' = Append(objects, [class |-> "enum", name |-> Match.tag[1],
                                           fields |-> <<>>, compiled |-> FALSE, asked |-> FALSE])
            /\ Register(Len(objects) + 1)
    /\ UNCHANGED <<references, consts>>

\* "No name for struct", of a structure or of what looks like one
LegacyNameless ==
    /\ AtMatch({"struct", "typedef", "other"})
    /\ MatchNames = <<>>
    /\ Abort("ParserError")
    /\ UNCHANGED <<typedefs, references, objects, consts>>

\* _parse_fields: the types are resolved before the structure has a name.
Resolved ==
    [k \in DOMAIN Match.fields |->
        [Match.fields[k] EXCEPT !.type = Resolve(Match.fields[k].type)]]

LegacyStruct ==
    /\ AtMatch({"struct"})
    /\ MatchNames # <<>>
    /\ LET wanted == Match.compile \/ compiled
           supported == Supported([class |-> "struct", fields |-> Resolved])
       IN IF ~Match.body \/ \E f \in ToSet(Resolved) : f.type = Unresolved
          THEN /\ Abort(IF Match.body THEN "ResolveError" ELSE "TypeError")
               /\ UNCHANGED <<typedefs, objects>>
          ELSE /\ objects' = Append(objects, [class |-> "struct", name |-> MatchNames[1],
                                              fields |-> Resolved,
                                              compiled |-> wanted /\ supported, asked |-> FALSE])
               /\ Register(Len(objects) + 1)
    /\ UNCHANGED <<references, consts>>

\* The name is registered for another name, which need not exist.
LegacyTypedef ==
    /\ AtMatch({"typedef"})
    /\ MatchNames # <<>>
    /\ Register(Match.type)
    /\ references' = references \cup {MatchNames[i] : i \in Free(MatchNames)}
    /\ UNCHANGED <<objects, consts>>

LegacyOther ==
    /\ AtMatch({"other"})
    /\ MatchNames # <<>>
    /\ Proceed
    /\ UNCHANGED <<typedefs, references, objects, consts>>

LegacyLookup ==
    /\ AtMatch({"lookup"})
    /\ IF ToSet(Match.tag) \subseteq consts THEN Proceed ELSE Abort("KeyError")
    /\ UNCHANGED <<typedefs, references, objects, consts>>

LegacyParse ==
    \/ LegacyConstant \/ LegacyEnum \/ LegacyNameless \/ LegacyStruct
    \/ LegacyTypedef \/ LegacyOther \/ LegacyLookup

LoadsInit == ParserInit /\ todo = <<>>

LoadsNext ==
    \/ todo = <<>> /\ ParserNext /\ UNCHANGED todo
    \/ ~Loading /\ loads < MaxLoads
       /\ \E text \in LegacyTexts, wanted \in BOOLEAN : LegacyLoad(text, wanted)
    \/ LegacyParse

(***************************************************************************)
(* load runs to its end in the thread that called it.                      *)
(***************************************************************************)
LoadsSpec ==
    /\ LoadsInit
    /\ [][LoadsNext]_loadVars
    /\ WF_loadVars((todo = <<>> /\ Parse /\ UNCHANGED todo) \/ LegacyParse)

-----------------------------------------------------------------------------

\* ParserTypeOK, and what is left of a definition of the old syntax.
LoadsTypeOK == ParserTypeOK /\ todo \in Seq(Declarations)

(***************************************************************************)
(* Every load comes to an end: each step consumes a token or a match,      *)
(* closes a structure or raises, also at the end of a text that is cut     *)
(* short.                                                                  *)
(***************************************************************************)
LoadsEnd == Loading ~> ~Loading

=============================================================================

----------------------------- MODULE MCConverters -----------------------------
\* User and Pet.  User's schema may gain and lose a field and an enum value, change
\* a field's type, have a field that cannot be converted, choose its own ID, be
\* left to AutoFill or not be generated; Pet may be there or not.
EXTENDS Converters, TLC

MCNodes == <<"Pet", "User">>
MCFields == {"age"}
MCTypes == {"int32", "string"}
MCConsts == {"ACTIVE"}

Gone == [exists |-> FALSE, generated |-> "author", id |-> "option",
         fields |-> [f \in MCFields |-> "none"], enum |-> {}, convertible |-> TRUE]
Bare == [Gone EXCEPT !.exists = TRUE]
Aged == [Bare EXCEPT !.fields = [age |-> "int32"]]
MCSchemas ==
  [Pet |-> {Gone, Bare},
   User |-> {Gone, Bare, Aged,
             [Aged EXCEPT !.fields = [age |-> "string"]],
             [Bare EXCEPT !.enum = {"ACTIVE"}],
             [Aged EXCEPT !.convertible = FALSE],
             [Bare EXCEPT !.id = "string"],
             [Bare EXCEPT !.generated = "no"],
             [Bare EXCEPT !.generated = "filled"]}]

Sound ==
  [complete |-> TRUE, identifiers |-> TRUE, idType |-> "int64", policy |-> "strict",
   from |-> "module", absolute |-> FALSE]
MCOptionSets ==
  {Sound, [Sound EXCEPT !.from = "ent", !.absolute = TRUE],
   [Sound EXCEPT !.policy = "warn", !.from = "ent"], [Sound EXCEPT !.idType = "int"],
   [Sound EXCEPT !.identifiers = FALSE], [Sound EXCEPT !.complete = FALSE]}

\* entc's own layout, where the schemas are within the ent package, and the one of the
\* READMEs, where they are beside it.
Project(schemas, ent) ==
  [dirs |-> {<<>>, <<"p">>, <<"p", "db">>, schemas, ent}, module |-> <<"p">>, schema |-> schemas,
   ent |-> ent, goMod |-> <<"p">> :> <<"example.com">>, entPackage |-> <<"example.com">> \o Tail(ent)]
MCLayouts ==
  {Project(<<"p", "ent", "schema">>, <<"p", "ent">>),
   Project(<<"p", "db", "schema">>, <<"p", "db", "ent">>)}

MCUserFiles == {"User"}
=============================================================================

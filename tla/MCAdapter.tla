------------------------------ MODULE MCAdapter ------------------------------
(***************************************************************************)
(* Two schemas with edges to each other.  User has a field of a nested     *)
(* message that comes with its file, and may have one that names Pet; Pet  *)
(* has one that only names a type, which other code registers at some      *)
(* moment or never, and then in another package of the same file.  That    *)
(* code may also register User's type, in another file.  The graphs differ *)
(* from a sound one in one annotation, in the order and the packages of    *)
(* the schemas and in whether Pet is generated.                            *)
(***************************************************************************)
EXTENDS Adapter

MCSchema == {"User", "Pet"}
MCMember == {"User.id", "User.name", "User.plan", "User.note", "User.pets",
             "Pet.id", "Pet.kind", "Pet.tag", "Pet.owner"}
MCSchemaOf == [m \in MCMember |->
  IF m \in {"User.id", "User.name", "User.plan", "User.note", "User.pets"} THEN "User" ELSE "Pet"]
MCTypeOf == [m \in MCMember |->
  CASE m \in {"User.plan", "User.note", "Pet.tag"}    -> "message"
    [] m \in {"User.pets", "Pet.owner"}  -> "edge"
    [] m = "Pet.kind"                    -> "badenum"
    [] OTHER                             -> "own"]
MCKindOf == [m \in MCMember |->
  CASE m \in {"User.id", "Pet.id"} -> "id" [] MCTypeOf[m] = "edge" -> "edge" [] OTHER -> "field"]
MCPosition == [m \in MCMember |->
  CASE MCKindOf[m] = "id"              -> 0
    [] m \in {"User.name", "Pet.kind"} -> 1
    [] m \in {"User.plan", "Pet.tag"}  -> 2
    [] m = "User.note"                 -> 3
    [] OTHER                           -> 4]
MCTargetOf == [m \in MCMember |-> IF m = "User.pets" THEN "Pet" ELSE "User"]

Plan == [pkg |-> "shared", path |-> <<"Account", "Plan">>]
Tag == [pkg |-> "tags", path |-> <<"Tag">>]
MCNameOf == [m \in MCMember |-> 
  CASE m = "User.plan" -> Plan
    [] m = "User.note" -> [pkg |-> "entpb", path |-> <<"Pet">>]
    [] OTHER           -> Tag]
MCFileGiven == [m \in MCMember |-> IF m = "User.plan" THEN "shared.proto" ELSE NoFile]
MCExternal == [n \in {Tag, Plan} |-> IF n = Tag THEN "shared.proto" ELSE "plan.proto"]

\* For the runs of single claims: nobody else registers,
\* - the type that Pet names without a file is User's, and
\* - the field that names Pet comes with the file of Pet's package.
Nobody == [n \in {} |-> NoFile]
OwnFileGiven == [MCFileGiven EXCEPT !["User.note"] = "entpb.proto"]
OneName == [MCNameOf EXCEPT !["Pet.tag"] = Plan]

MCPackage == {"", "entpb", "pet"}
MCFileOf == [p \in MCPackage |-> IF p = "pet" THEN "pet.proto" ELSE "entpb.proto"]
MCFile == {"entpb.proto", "pet.proto", "shared.proto", "plan.proto"}

Ok(n) == [field |-> "ok", num |-> n, skip |-> FALSE]
Bare == [field |-> "none", num |-> 0, skip |-> FALSE]
Skipped == [field |-> "none", num |-> 0, skip |-> TRUE]
Broken == [field |-> "bad", num |-> 0, skip |-> FALSE]

Base == [m \in MCMember |->
  CASE MCKindOf[m] = "id"   -> Bare
    [] m \in {"Pet.kind", "User.note"} -> Skipped
    [] OTHER                -> Ok(MCPosition[m] + 1)]

\* What may become of one member of the sound graph.
Options == [m \in MCMember |->
  CASE m = "User.id"    -> {Ok(1), Ok(5)}
    [] m = "User.name"  -> {Ok(1), Ok(3), Ok(0), Ok(100), Bare, Broken}
    [] m = "User.plan"  -> {Skipped}
    [] m = "User.note"  -> {Ok(4)}
    [] m = "User.pets"  -> {Skipped}
    [] m = "Pet.kind"   -> {Ok(2)}
    [] m = "Pet.tag"    -> {Skipped}
    [] m = "Pet.owner"  -> {Skipped, Bare, Ok(1)}
    [] OTHER            -> {Base[m]}]

\* One change; or Pet names no type, and one of the two edges is skipped.
Variants ==
  UNION {{[Base EXCEPT ![m] = a] : a \in Options[m]} : m \in MCMember}
    \cup {[Base EXCEPT !["Pet.tag"] = Skipped, ![e] = Skipped] : e \in {"User.pets", "Pet.owner"}}

Annotated ==
  {[nodes |-> ord, members |-> MCMember, ann |-> v, ownID |-> [s \in MCSchema |-> FALSE],
    msg |-> [s \in MCSchema |-> IF s = "Pet" THEN pet ELSE "on"],
    pkg |-> [s \in MCSchema |-> IF s = "Pet" THEN pp ELSE up]] :
     ord \in {<<"User", "Pet">>, <<"Pet", "User">>},
     v \in Variants, pet \in {"on", "off", "bad"},
     up \in {"entpb", ""}, pp \in {"entpb", "pet"}}

\* One more of each kind has an ID that its author declared and did not annotate.
MCGraphs == Annotated \cup {[g EXCEPT !.ownID["Pet"] = TRUE] : g \in {h \in Annotated : h.ann = Base}}
=============================================================================

----------------------------- MODULE MCExtension -----------------------------
(***************************************************************************)
(* Two schemas in two packages.  User has an ID, a field and an edge to    *)
(* Pet; Pet has an ID and a field.  FixGraph finds one number for User's   *)
(* field and edge, which the author may also write on User's ID or field.  *)
(***************************************************************************)
EXTENDS Extension

MCSchema == {"User", "Pet"}
MCMember == {"User.id", "User.name", "User.pets", "Pet.id", "Pet.tag"}
MCSchemaOf == [m \in MCMember |-> IF m \in {"Pet.id", "Pet.tag"} THEN "Pet" ELSE "User"]
MCKindOf == [m \in MCMember |->
  CASE m \in {"User.id", "Pet.id"} -> "id" [] m = "User.pets" -> "edge" [] OTHER -> "field"]
MCTypeOf == [m \in MCMember |-> IF m = "User.pets" THEN "edge" ELSE "own"]
MCTargetOf == [m \in MCMember |-> "Pet"]
MCPosition == [m \in MCMember |-> IF MCKindOf[m] = "id" THEN 0 ELSE IF MCKindOf[m] = "edge" THEN 2 ELSE 1]
MCHashOf == [m \in MCMember |->
  CASE m = "User.pets" -> 19998 [] m = "User.name" -> 18998 [] OTHER -> 50]

Blank == [field |-> "none", num |-> 0, skip |-> FALSE]
Ok(n) == [field |-> "ok", num |-> n, skip |-> FALSE]
MCMarks == [m \in MCMember |->
  CASE m = "User.name" -> {Blank, Ok(1), Ok(7), Ok(20000)}
    [] m = "User.pets" -> {Blank, [Blank EXCEPT !.skip = TRUE]}
    [] m = "Pet.tag"   -> {Blank, Ok(2)}
    [] m = "User.id"   -> {Blank, Ok(20000)}
    [] OTHER           -> {Blank}]
MCMsgMarks == [s \in MCSchema |-> IF s = "Pet" THEN {"none", "off", "on"} ELSE {"none", "bad"}]

MCPackage == {"", "entpb", "pet"}
MCFileOf == [p \in MCPackage |-> IF p = "pet" THEN "pet.proto" ELSE "entpb.proto"]
MCFile == {"entpb.proto", "pet.proto"}
MCPackageGiven == [s \in MCSchema |-> IF s = "Pet" THEN "pet" ELSE "entpb"]
MCOwnID == [s \in MCSchema |-> FALSE]
MCNodeOrder == <<"Pet", "User">>
=============================================================================

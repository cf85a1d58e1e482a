--------------------------- MODULE MCFieldNumbers ---------------------------
(***************************************************************************)
(* Two schemas.  User has an ID, two fields and an edge; Pet has an ID,    *)
(* which may have User's ID number.  The hashes are chosen at the corners  *)
(* of stableFieldNumber: nick (18998) and friends (19998) both come to     *)
(* 20000, one moved there and one mapped there, and age wraps around the   *)
(* modulus to 6.                                                           *)
(***************************************************************************)
EXTENDS FieldNumbers

MCSchema == {"User", "Pet"}
MCMember == {"User.id", "User.nick", "User.age", "User.friends", "Pet.id"}

MCSchemaOf == [m \in MCMember |-> IF m = "Pet.id" THEN "Pet" ELSE "User"]

MCKindOf == [m \in MCMember |->
  CASE m \in {"User.id", "Pet.id"} -> "id"
    [] m = "User.friends"          -> "edge"
    [] OTHER                       -> "field"]

MCHashOf == [m \in MCMember |->
  CASE m = "User.nick"    -> 18998
    [] m = "User.friends" -> 19998
    [] m = "User.age"     -> 536870914
    [] OTHER              -> 0]

Skipped == [Unmarked EXCEPT !.skip = TRUE]
Broken == [Unmarked EXCEPT !.field = "bad"]

MCMarks == [m \in MCMember |->
  CASE m = "User.id"      -> {Unmarked, Numbered(1)}
    [] m = "User.nick"    -> {Unmarked, [Numbered(6) EXCEPT !.skip = TRUE]}
    [] m = "User.age"     -> {Unmarked, Numbered(1), Numbered(20000), Broken}
    [] m = "User.friends" -> {Unmarked, Numbered(6), Skipped}
    [] OTHER              -> {Unmarked}]

MCMsgMarks == [s \in MCSchema |-> IF s = "User" THEN {"none", "bad"} ELSE {"none", "off"}]

=============================================================================

-------------------------------- MODULE Convert --------------------------------
(***************************************************************************)
(* The conversion of one field: entproto gives it a type in protobuf,      *)
(* entconv works out how to convert it (NewConverter) and renders two      *)
(* functions, which the Go compiler accepts or not; the program then takes *)
(* values from the ent struct to the message and back, any number of times.*)
(*                                                                         *)
(* The fields of a schema are converted independently of each other.  One  *)
(* is taken through, any that an author may write.                         *)
(*                                                                         *)
(* A type of protobuf goes by its name in Go.  A pointer that may be nil   *)
(* has the values <<>> and <<x>>; everything else only has <<x>>.  A time  *)
(* is counted in half seconds, as a value with a fraction of a second.     *)
(***************************************************************************)
EXTENDS GoTypes, Enums, TLC

CONSTANTS
  FieldConfs, \* the fields an author may write
  MaxHops     \* bounds how often a value is taken across

\* ent's field types, but for json and Other, and the Go type of their values.
EntGo ==
  [t \in NumericTypes \cup {"bool", "string", "bytes", "time", "enum"} |->
     CASE t = "bytes" -> "[]byte" [] t = "time" -> "time.Time" [] t = "enum" -> "Status"
       [] OTHER -> t]

\* go: the author's Go type, also that of a UUID or JSON column, "" without one;
\* as: entproto.Type's type, "" without one; variable: its name in ToProto.
Field ==
  [type : DOMAIN EntGo \cup {"uuid", "json", "other"}, go : {""} \cup DOMAIN Named,
   as : {"", "message", "bool", "string", "bytes", "int32", "int64", "sint64", "uint32", "uint64"}
          \cup Floats,
   nillable : BOOLEAN, id : BOOLEAN, variable : {"e", "v", "other"}, enum : Enum]

TypeMap ==
  [bool |-> "bool", string |-> "string", bytes |-> "[]byte", uuid |-> "[]byte",
   time |-> "int64", enum |-> "Enum", float32 |-> "float32", float64 |-> "float64",
   int |-> "int64", int8 |-> "int32", int16 |-> "int32", int32 |-> "int32",
   int64 |-> "int64", uint |-> "uint32", uint8 |-> "uint32", uint16 |-> "uint32", uint32 |-> "uint32",
   uint64 |-> "uint64"]
Lists == {"[]string", "[]int32", "[]int64", "[]uint32", "[]uint64"}
Elements ==
  [l \in Lists |->
     CASE l = "[]string" -> "string" [] l = "[]int32" -> "int32" [] l = "[]int64" -> "int64"
       [] l = "[]uint32" -> "uint32" [] l = "[]uint64" -> "uint64"]

\* The type in protobuf, and the Go type that ent gives the values.
PbTypeOf(f) ==
  IF f.as # "" THEN (IF f.as = "bytes" THEN "[]byte" ELSE f.as)
  ELSE IF f.type = "json" THEN Elements[f.go] ELSE TypeMap[f.type]
GoOf(f) == IF f.go # "" THEN f.go ELSE EntGo[f.type]

\* What ent's field builders see to; and that no field is an integer on one side and a
\* float on the other, for floats have no numbers for values here.
ASSUME ConvertAssumption ==
  /\ FieldConfs \subseteq Field
  /\ \A f \in FieldConfs :
       /\ f.type \in {"uuid", "json", "other"} => f.go # ""
       /\ f.type = "uuid" => "value" \in Named[f.go].methods
       /\ f.type = "enum" => f.as = "" /\ f.go = ""
       /\ f.nillable => f.type # "json" /\ f.as # "message"
       /\ f.as # "" \/ f.type \in DOMAIN TypeMap =>
            \/ {PbTypeOf(f), Under(GoOf(f))} \cap Floats = {}
            \/ {PbTypeOf(f), Under(GoOf(f))} \cap IntTypes = {}
  /\ 0 \in Numbers /\ Numbers \subseteq Int
  /\ MaxHops \in Nat

VARIABLES
  field,  \* the field as the author has it
  stage,  \* how far the generation of its converter came, or why it was refused
  zero,   \* what findByNumber returned for 0
  conv,   \* its Converter
  trail   \* the values of the ent struct and the message, in turn, and where it began

vars == <<field, stage, zero, conv, trail>>

-----------------------------------------------------------------------------
(* entproto: the descriptor                                                  *)

PbType == PbTypeOf(field)
Supported ==
  \/ field.as # "" \/ field.type \in DOMAIN TypeMap
  \/ (field.type = "json" /\ field.go \in DOMAIN Elements)
Repeated == field.as = "" /\ field.type = "json"

IsProto3Optional == field.nillable /\ ~Repeated /\ PbType # "message"
IsProto3OptionalPointer == IsProto3Optional /\ PbType # "[]byte"

\* The type of the field in the .pb.go file, without the pointer of an optional one.
PbGo ==
  IF Repeated THEN field.go
  ELSE CASE PbType = "message" -> "*Message" [] PbType = "sint64" -> "int64"
         [] OTHER -> PbType

-----------------------------------------------------------------------------
(* entconv: NewConverter                                                     *)

Go == GoOf(field)
Has == IF field.go # "" THEN Named[field.go].methods ELSE {}
Valuer == "value" \in Has
ValueScanner == {"value", "scan"} \subseteq Has
Marshaler == "marshal" \in Has

\* unrendered: one of the directives that the template has nothing for.
Nothing ==
  [toProto |-> "", unix |-> FALSE, toProtoConstructor |-> FALSE,
   toEnt |-> "", toEntConstructor |-> FALSE, unrendered |-> FALSE]

BasicTypeConversion ==
  [Nothing EXCEPT
    !.toProto =
      IF \/ PbType \in {"int32", "uint32", "uint64", "float32"} /\ Go # PbType
         \/ PbType = "int64" /\ ~Valuer /\ Go # PbType
         \/ PbType = "float64" /\ Valuer
      THEN PbType ELSE "",
    !.unrendered = \/ Valuer /\ PbType \in {"bool", "string", "[]byte", "int64"}
                   \/ Marshaler /\ PbType = "[]byte"]

Basis ==
  IF PbType = "Enum" THEN [Nothing EXCEPT !.toProtoConstructor = TRUE] ELSE BasicTypeConversion

\* The case of the ent field's type that applies; "none" where there is none.
Case ==
  CASE field.id -> "id"
    [] ~field.id /\ (Marshaler \/ ValueScanner) -> "methods"
    [] ~field.id /\ ~(Marshaler \/ ValueScanner) ->
         CASE field.type \in {"bool", "bytes", "string"} -> "same"
           [] field.type \in NumericTypes -> "numeric"
           [] field.type = "json" /\ field.go \notin DOMAIN Elements -> "none"
           [] field.type \in {"uuid", "other"} -> "none"
           [] OTHER -> field.type

NewConverter ==
  IF PbType = "message" THEN Nothing
  ELSE CASE Case \in {"id", "numeric"} -> [Basis EXCEPT !.toEnt = Go]
         [] Case = "methods" -> [Basis EXCEPT !.unrendered = TRUE]
         [] Case = "time" ->
              [Basis EXCEPT !.toProto = "int64", !.unix = TRUE, !.toEnt = "time.Unix"]
         [] Case = "enum" -> [Basis EXCEPT !.toEntConstructor = TRUE]
         [] Case = "json" /\ field.go # "[]string" -> [Basis EXCEPT !.toProto = ""]
         [] OTHER -> Basis

Renderable(c) ==
  c.toProto # "" \/ c.unix \/ c.toProtoConstructor \/ c.toEnt # "" \/ c.toEntConstructor

\* Mutant: what the template has nothing for is not an error.
MapsAnything == PbType = "message" \/ (PbType # "sint64" /\ Case # "none")

Maps ==
  \/ PbType = "message"
  \/ /\ PbType # "sint64" /\ Case # "none"
     /\ NewConverter.unrendered => Renderable(NewConverter)

\* validateMessageFieldEntShape: the names of the types without their packages.
ShapeFits ==
  PbType = "message" => field.go # "" /\ Named[field.go].name = "*Message"

-----------------------------------------------------------------------------
(* The template, and the Go compiler                                         *)

ToProtoCompiles(c) ==
  LET type == IF c.unix THEN "int64"
              ELSE IF c.toProtoConstructor THEN "Enum"
              ELSE IF c.toProto # "" THEN c.toProto ELSE Go
  IN  /\ IF c.unix THEN Go = "time.Time"
         ELSE IF c.toProtoConstructor THEN Go = "Status" ELSE Convertible(Go, type)
      /\ IF IsProto3OptionalPointer THEN type = PbGo ELSE Assignable(type, PbGo)
      \* The variable is one of the function's own, or hides the message.
      /\ field.variable = "other" \/ (field.variable = "e" /\ field.nillable)

ToEntCompiles(c) ==
  LET type == IF c.toEntConstructor THEN "Status"
              ELSE IF c.toEnt = "time.Unix" THEN "time.Time"
              ELSE IF c.toEnt # "" THEN c.toEnt ELSE PbGo
  IN  /\ CASE c.toEntConstructor -> PbGo = "Enum"
           [] c.toEnt = "time.Unix" -> PbGo = "int64"
           [] OTHER -> Convertible(PbGo, type)
      /\ IF field.nillable THEN type = Go ELSE Assignable(type, Go)

Compiles(c) == ToProtoCompiles(c) /\ ToEntCompiles(c)

-----------------------------------------------------------------------------
(* The generated functions                                                   *)

Zero(go) ==
  CASE Under(go) \in IntTypes \cup {"Enum", "time.Time"} -> 0
    [] Under(go) \in Literals -> "nil"
    [] OTHER -> ""

\* Of slices of bytes the empty one too; of what is passed on as it is, any other.
Values(go) ==
  CASE Under(go) \in IntTypes -> Holds(Under(go))
    [] go = "time.Time" -> (0 - Modulus[64]) .. (Modulus[64] - 1)
    [] go = "Enum" -> Numbers
    [] go = "Status" -> DOMAIN Normalized \cup {""}
    [] Under(go) = "[]byte" -> {"nil", "empty", "some"}
    [] OTHER -> {Zero(go), "some"}

EntValues == {<<x>> : x \in Values(Go)} \cup (IF field.nillable THEN {<<>>} ELSE {})
PbValues ==
  {<<x>> : x \in Values(PbGo)} \cup (IF IsProto3OptionalPointer THEN {<<>>} ELSE {})

\* A type conversion changes the value of integers only.
Converted(x, from, to) ==
  IF {Under(from), Under(to)} \subseteq IntTypes THEN Wrap(x, Under(to)) ELSE x

\* Mutant: a time is sent as it is.
ProtoValueAsIs(x) ==
  IF conv.toProtoConstructor THEN EnumToProto(field.enum, x) ELSE x

ProtoValue(x) ==
  CASE conv.unix -> x \div 2
    [] conv.toProtoConstructor -> EnumToProto(field.enum, x)
    [] conv.toProto # "" /\ ~conv.unix -> Converted(x, Go, conv.toProto)
    [] OTHER -> x

EntValue(x) ==
  CASE conv.toEntConstructor -> EnumToEnt(field.enum, x)
    [] conv.toEnt = "time.Unix" -> 2 * x
    [] conv.toEnt \notin {"", "time.Unix"} -> Converted(x, PbGo, conv.toEnt)
    [] OTHER -> x

ToProtoField(v) ==
  IF v # <<>> THEN <<ProtoValue(v[1])>>
  ELSE IF IsProto3OptionalPointer THEN <<>> ELSE <<Zero(PbGo)>>

Absent(m) == IsProto3Optional /\ m = (IF IsProto3OptionalPointer THEN <<>> ELSE <<"nil">>)

\* Mutant: what is absent becomes a zero.
ToEntFieldZero(m) == IF Absent(m) THEN <<Zero(Go)>> ELSE <<EntValue(m[1])>>

ToEntField(m) == IF Absent(m) THEN <<>> ELSE <<EntValue(m[1])>>

-----------------------------------------------------------------------------
(* The steps                                                                 *)

IsEnum == field.type = "enum"

\* The generation goes on, or ends with an error.
Move(from, to) ==
  /\ stage = from /\ stage' = to
  /\ UNCHANGED <<field, trail>>

Unsupported == Move("edited", "unsupported") /\ ~Supported /\ UNCHANGED <<zero, conv>>

RefuseEnum ==
  /\ Move("edited", "enum refused") /\ Supported /\ IsEnum
  /\ zero' \in FindByNumber(field.enum, 0) /\ ~Verify(field.enum, zero')
  /\ UNCHANGED conv

ToProtoFieldDescriptor ==
  /\ Move("edited", "described") /\ Supported
  /\ IF IsEnum
     THEN zero' \in FindByNumber(field.enum, 0) /\ Verify(field.enum, zero')
     ELSE UNCHANGED zero
  /\ UNCHANGED conv

EnumLinks == IsEnum => LinksEnum(EnumDescriptor(field.enum))

CannotLink == Move("described", "not linked") /\ ~EnumLinks /\ UNCHANGED <<zero, conv>>
Link == Move("described", "linked") /\ EnumLinks /\ UNCHANGED <<zero, conv>>

\* validateProtoContracts, before any file is written.
RefuseField == Move("linked", "refused") /\ ~(ShapeFits /\ Maps) /\ UNCHANGED <<zero, conv>>
AcceptField ==
  /\ Move("linked", "accepted") /\ ShapeFits /\ Maps
  /\ conv' = NewConverter
  /\ UNCHANGED zero

Compile ==
  /\ Move("accepted", IF Compiles(conv) THEN "compiled" ELSE "broken")
  /\ UNCHANGED <<zero, conv>>

\* A program has an entity or a message and takes it across.
Start(side, x) ==
  /\ stage = "compiled" /\ trail.values = <<>>
  /\ trail' = [side |-> side, values |-> <<x>>]
  /\ UNCHANGED <<field, stage, zero, conv>>

Here ==
  CASE Len(trail.values) % 2 = 1 -> trail.side
    [] OTHER -> IF trail.side = "ent" THEN "pb" ELSE "ent"

Hop(x) ==
  /\ Len(trail.values) \in 1..MaxHops
  /\ trail' = [trail EXCEPT !.values = Append(@, x)]
  /\ UNCHANGED <<field, stage, zero, conv>>

Current == trail.values[Len(trail.values)]
ToProto == trail.values # <<>> /\ Here = "ent" /\ Hop(ToProtoField(Current))
ToEnt == trail.values # <<>> /\ Here = "pb" /\ Hop(ToEntField(Current))

NoTrail == [side |-> "ent", values |-> <<>>]

Init ==
  /\ field \in FieldConfs
  /\ stage = "edited" /\ zero = "" /\ conv = Nothing /\ trail = NoTrail

Next ==
  \/ Unsupported \/ RefuseEnum \/ ToProtoFieldDescriptor
  \/ CannotLink \/ Link
  \/ RefuseField \/ AcceptField \/ Compile
  \/ (stage = "compiled" /\ \E v \in EntValues : Start("ent", v))
  \/ (stage = "compiled" /\ \E m \in PbValues : Start("pb", m))
  \/ ToProto \/ ToEnt

Spec == Init /\ [][Next]_vars

-----------------------------------------------------------------------------
(* Properties.                                                               *)

\* Every variable stays in its range (the field is constant); what the functions
\* return is a value of the type they return it in, however often it was across.
TypeOK ==
  /\ stage \in {"edited", "unsupported", "enum refused", "described", "not linked",
                "linked", "refused", "accepted", "compiled", "broken"}
  /\ zero \in DOMAIN Normalized \cup {""}
  /\ DOMAIN conv = DOMAIN Nothing
  /\ Len(trail.values) <= MaxHops + 1
  /\ trail.values # <<>> => Current \in (IF Here = "ent" THEN EntValues ELSE PbValues)
  /\ stage # "compiled" => trail = NoTrail

\* What the READMEs say is converted: the types of the table, integers with another
\* integer type given to them, messages; and what the code takes care of beyond that,
\* lists in JSON and numbers with a Go type of their own kind, except for float64, for
\* which the code does not.  IDs are strings and numbers.
InTable ==
  /\ field.type # "other" /\ Has = {} /\ field.variable = "other"
  /\ IF field.as = "message" THEN field.go = "*Message"
     ELSE /\ field.as # "" => {field.type, field.as} \subseteq IntTypes
          /\ \/ field.go = ""
             \/ field.type = "json" /\ field.go \in DOMAIN Elements
             \/ field.type \in NumericTypes \ {"float64"} /\ Under(field.go) = field.type
          /\ field.id => field.type \in {"string"} \cup NumericTypes

\* A Go type with Value or MarshalBinary for strings, bools, bytes or UUIDs, or for a
\* field of ent's Other.  (For other fields, and for Scan alone: CustomTypesFailFast.)
ConvertsItself ==
  /\ ~field.id /\ Has \cap {"value", "marshal"} # {} /\ Supported
  /\ field.type \in {"string", "bool", "bytes", "uuid", "other"}
  /\ PbType \in {"string", "bool", "[]byte"}

\* The converter of a field that the documentation allows is generated and compiles;
\* a Go type that converts itself is refused before anything is written.
DocumentedConverts ==
  /\ InTable => stage \notin {"unsupported", "refused", "broken"}
  /\ ConvertsItself => stage \notin {"accepted", "compiled", "broken"}

\* src/entconv/README.md:182-185: a Go type that implements driver.Valuer, sql.Scanner
\* or encoding.BinaryMarshaler ends the generation with an error rather than in code
\* that does not compile.
CustomTypesFailFast == Has # {} => stage # "broken"

\* An ent value that the message has room for, or the other way round.
Fits(side, x) ==
  CASE conv.unix -> side = "pb" \/ x % 2 = 0
    [] conv.toEntConstructor ->
         IF side = "ent"
         THEN x \in Declared(field.enum) \/ (x = "" /\ field.enum.default = "")
         ELSE x = 0 \/ \E v \in Declared(field.enum) : field.enum.options[v] = x
    [] {Under(Go), PbGo} \subseteq IntTypes -> x \in Holds(Under(Go)) /\ x \in Holds(PbGo)
    [] OTHER -> ~(side = "ent" /\ field.nillable /\ x = "nil")

\* A value that fits comes back from a trip to the other side as it was, and so does
\* nil.  One that does not, a large integer, a time within a second, an enum value of
\* another version or a pointer to a nil slice, changes on the first trip and on none
\* after it: what is read, converted and written over and over does not drift.
RoundTrips ==
  LET v == trail.values
  IN  /\ Len(v) >= 3 /\ (v[1] = <<>> \/ Fits(trail.side, v[1][1])) => v[3] = v[1]
      /\ Len(v) >= 5 => v[5] = v[3]

\* Values with numbers and names of their own, of which exactly the default is zero
\* and stands first, or none.
SoundEnum(e) ==
  /\ DOMAIN e.options = Declared(e) /\ IsInjective(e.options)
  /\ {v \in DOMAIN e.options : e.options[v] = 0} = {e.default} \ {""}
  /\ e.default # "" => e.values[1] = e.default
  /\ \A v, w \in Declared(e) : Normalized[v] = Normalized[w] => v = w
  /\ e.default = "" /\ ~e.omitFieldPrefix =>
       \A v \in Declared(e) : Normalized[v] # "UNSPECIFIED"

\* Whether an enum is accepted depends on the schema alone and not on the order in
\* which findByNumber goes over a map: Verify and the linker together let exactly the
\* sound ones through, and whatever Verify leaves to chance the linker refuses.
EnumVerdictFits ==
  IsEnum =>
    /\ stage \in {"enum refused", "not linked"} => ~SoundEnum(field.enum)
    /\ stage \in {"linked", "refused", "accepted", "compiled", "broken"} =>
         SoundEnum(field.enum)

\* What makes it inductive: which enums have come to each stage.
EnumJudged ==
  IsEnum =>
    /\ stage = "enum refused" =>
         \E z \in FindByNumber(field.enum, 0) : ~Verify(field.enum, z)
    /\ stage \notin {"edited", "unsupported", "enum refused"} =>
         \E z \in FindByNumber(field.enum, 0) : Verify(field.enum, z)
    /\ stage = "not linked" => ~EnumLinks
    /\ stage \in {"linked", "refused", "accepted", "compiled", "broken"} => EnumLinks
=============================================================================

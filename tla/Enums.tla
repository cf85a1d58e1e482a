--------------------------------- MODULE Enums ---------------------------------
(***************************************************************************)
(* entproto.Enum: an annotation gives each value of an ent enum a protobuf *)
(* number.  Verify compares it with the field, toProtoEnumDescriptor makes *)
(* the descriptor, and the linker has rules of its own for that.           *)
(***************************************************************************)
EXTENDS Integers, Sequences, FiniteSets, Functions

CONSTANTS
  Normalized, \* [enum value -> its identifier in capitals]
  Numbers     \* the numbers that annotations and messages have, 0 among them

\* options: the annotation; default: the field's, "" without one.  ent refuses empty
\* values, repeated ones and a default that is none of them.
Declared(e) == Range(e.values)
Annotations == UNION {[S -> Numbers] : S \in {T \in SUBSET DOMAIN Normalized : IsFiniteSet(T)}}
Enum ==
  {e \in [values : Seq(DOMAIN Normalized), options : Annotations,
          default : DOMAIN Normalized \cup {""}, omitFieldPrefix : BOOLEAN] :
     /\ IsInjective(e.values) /\ "" \notin Declared(e)
     /\ e.default \in Declared(e) \cup {""}}

\* findByNumber ranges over a map: any option of the number may come first.
FindByNumber(e, n) ==
  LET found == {v \in DOMAIN e.options : e.options[v] = n}
  IN  IF found = {} THEN {""} ELSE found

\* zero: what findByNumber found for 0.
Verify(e, zero) ==
  /\ Cardinality(DOMAIN e.options) = Len(e.values)
  /\ \A v \in Declared(e) : v \in DOMAIN e.options
  /\ \A v, w \in Declared(e) : Normalized[v] = Normalized[w] => v = w
  /\ zero = e.default

\* Mutant: the annotation is expected to have the zero value.
EnumDescriptorAsAnnotated(e) ==
  [i \in 1..Len(e.values) |->
    [number |-> e.options[e.values[i]],
     name |-> <<~e.omitFieldPrefix, Normalized[e.values[i]]>>]]

\* A name is its identifier and whether the field's name is put before it.  (snake
\* leaves identifiers in capitals alone but for the case, which ToUpper restores.)
EnumDescriptor(e) ==
  (IF e.default # "" THEN <<>>
   ELSE <<[number |-> 0, name |-> <<TRUE, "UNSPECIFIED">>]>>)
  \o [i \in 1..Len(e.values) |->
       [number |-> e.options[e.values[i]],
        name |-> <<~e.omitFieldPrefix, Normalized[e.values[i]]>>]]

\* protobuf wants the first value to be zero, and no number or name twice.
LinksEnum(d) ==
  /\ d # <<>> /\ d[1].number = 0
  /\ \A i, j \in 1..Len(d) : d[i].number = d[j].number \/ d[i].name = d[j].name => i = j

\* PbEnumValueConstName goes by the number to the constant of a value.
PbEnumValueConst(e, v) == CHOOSE c \in Range(EnumDescriptor(e)) : c.number = e.options[v]

\* The maps the generated converter looks values up in, and what it returns for
\* those that are not there.
EnumToProto(e, v) == IF v \in Declared(e) THEN PbEnumValueConst(e, v).number ELSE 0
EnumToEnt(e, n) ==
  IF \E v \in Declared(e) : PbEnumValueConst(e, v).number = n
  THEN CHOOSE v \in Declared(e) : PbEnumValueConst(e, v).number = n
  ELSE ""
=============================================================================

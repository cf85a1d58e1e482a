-------------------------------- MODULE GoTypes --------------------------------
(***************************************************************************)
(* What the generated converters need of Go: which types are assignable    *)
(* and convertible to each other, and what a conversion between integer    *)
(* types does to a value.                                                  *)
(*                                                                         *)
(* A type is its name.  The predeclared ones, time.Time, the enum types of *)
(* ent and protobuf and the type literals stand for themselves; the types  *)
(* that authors define are in Named.                                       *)
(***************************************************************************)
EXTENDS Integers, FiniteSets

CONSTANTS
  Modulus,  \* [width -> how many values an integer of it has]
  Word,     \* the width of int and uint
  Named     \* [author's type -> its underlying type, its methods, its name]

Signed == {"int", "int8", "int16", "int32", "int64"}
Unsigned == {"uint", "uint8", "uint16", "uint32", "uint64"}
IntTypes == Signed \cup Unsigned
Floats == {"float32", "float64"}
NumericTypes == IntTypes \cup Floats
Methods == {"value", "scan", "marshal"}

\* Type literals can be assigned to and from a type defined by them.
Literals ==
  {"[]byte", "[16]byte", "[]string", "[]int32", "[]int64", "[]uint32", "[]uint64",
   "*Message", "map"}

Under(t) == IF t \in DOMAIN Named THEN Named[t].under ELSE t

\* name: without its package, as canonicalProtoGoType compares it.  A type that authors
\* define is none of Go's or of the generators'; an underlying type is its own.
ASSUME GoAssumption ==
  /\ Modulus \in [{8, 16, 32, 64} -> {n \in Nat : n % 2 = 0 /\ n > 0}]
  /\ \A v, w \in {8, 16, 32, 64} : v < w =>
       Modulus[v] < Modulus[w] /\ Modulus[w] % Modulus[v] = 0
  /\ Word \in {32, 64}
  /\ DOMAIN Named \cap (NumericTypes \cup
       {"", "bool", "string", "[]byte", "time.Time", "time.Unix", "Enum", "Status"}) = {}
  /\ \A t \in DOMAIN Named :
       /\ Named[t].methods \subseteq Methods
       /\ Under(Named[t].under) = Named[t].under
       /\ Named[t].under \notin {"time.Time", "Enum", "Status"}
       /\ t \in Literals => Named[t].under = t /\ Named[t].name = t

Assignable(from, to) ==
  from = to \/ (Under(from) = Under(to) /\ {from, to} \cap Literals # {})

Convertible(from, to) ==
  \/ Under(from) = Under(to)
  \/ {Under(from), Under(to)} \subseteq NumericTypes
  \/ <<Under(from), Under(to)>> \in
       {<<"[]byte", "[16]byte">>, <<"[]byte", "string">>, <<"string", "[]byte">>}
  \/ Under(from) \in IntTypes /\ Under(to) = "string"

Bits ==
  [int |-> Word, int8 |-> 8, int16 |-> 16, int32 |-> 32, int64 |-> 64,
   uint |-> Word, uint8 |-> 8, uint16 |-> 16, uint32 |-> 32, uint64 |-> 64]

Low(t) == IF t \in Signed THEN -(Modulus[Bits[t]] \div 2) ELSE 0
Holds(t) == Low(t) .. (Low(t) + Modulus[Bits[t]] - 1)

\* A conversion to an integer type keeps the low bits.
Wrap(x, t) == ((x - Low(t)) % Modulus[Bits[t]]) + Low(t)
=============================================================================

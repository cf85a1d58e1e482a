------------------------------- MODULE MCConvert -------------------------------
\* Every field type, nillable or not, the ID types, Go types with every set of
\* methods that a converter could meet, overrides of integers by each other and of
\* others by what does not fit; enums of up to three values under every annotation
\* with numbers from 0 to 2.  Widths are cut down to 2, 3, 4 and 5 bits.
EXTENDS Convert

MCModulus == 8 :> 4 @@ 16 :> 8 @@ 32 :> 16 @@ 64 :> 32

Custom(under, methods) == [under |-> under, methods |-> methods, name |-> under]
Literal(t, name) == t :> [under |-> t, methods |-> {}, name |-> name]
MCNamed ==
  "Level" :> Custom("int32", {}) @@ "Tiny" :> Custom("int8", {})
  @@ "Ratio" :> Custom("float64", {}) @@ "Word" :> Custom("uint", {})
  @@ "Label" :> Custom("string", {}) @@ "Blob" :> Custom("[]byte", {}) @@ "Flag" :> Custom("bool", {})
  @@ "sql.NullString" :> Custom("struct", {"value", "scan"})
  @@ "sql.NullInt64" :> Custom("struct", {"value", "scan"})
  @@ "Money" :> Custom("int32", {"value", "scan"}) @@ "Sum" :> Custom("int64", {"value"})
  @@ "Packed" :> Custom("int64", {"marshal"}) @@ "Text" :> Custom("string", {"value"})
  @@ "Sealed" :> Custom("[]byte", {"marshal"}) @@ "Mode" :> Custom("bool", {"value", "scan"})
  @@ "Tag" :> Custom("string", {"scan"})
  @@ "Weight" :> Custom("float64", {"value", "scan"})
  @@ "uuid.UUID" :> Custom("[16]byte", Methods)
  @@ Literal("[]string", "[]string") @@ Literal("[]int32", "[]int32")
  @@ Literal("[]int64", "[]int64") @@ Literal("[]uint32", "[]uint32") @@ Literal("[]uint64", "[]uint64")
  @@ Literal("map", "map") @@ Literal("*Message", "*Message")
  @@ "*other.Message" :> [under |-> "*other.Message", methods |-> {}, name |-> "*Message"]

MCNormalized == "low" :> "LOW" @@ "high" :> "HIGH" @@ "high!" :> "HIGH" @@ "unspecified" :> "UNSPECIFIED"

NoEnum == [values |-> <<>>, options |-> <<>>, default |-> "", omitFieldPrefix |-> FALSE]
Plain(type, go) ==
  [type |-> type, go |-> go, as |-> "", nillable |-> FALSE, id |-> FALSE,
   variable |-> "other", enum |-> NoEnum]
NilOrNot(S) == S \cup {[f EXCEPT !.nillable = TRUE] : f \in S}

Scalars == {Plain(t, "") : t \in DOMAIN EntGo \ {"enum"}}
Customs ==
  {Plain("int32", "Level"), Plain("int8", "Tiny"), Plain("float64", "Ratio"), Plain("uint", "Word"),
   Plain("string", "Label"), Plain("bytes", "Blob"), Plain("bool", "Flag"),
   Plain("string", "sql.NullString"), Plain("int64", "sql.NullInt64"), Plain("int32", "Money"),
   Plain("int64", "Sum"), Plain("int64", "Packed"), Plain("string", "Text"), Plain("string", "Tag"),
   Plain("bytes", "Sealed"), Plain("bool", "Mode"), Plain("float64", "Weight"),
   Plain("uuid", "uuid.UUID"), Plain("other", "sql.NullString")}
Overridden ==
  {[Plain(t, "") EXCEPT !.as = p] : t \in IntTypes, p \in {"int32", "int64", "uint32", "uint64"}}
  \cup {[Plain(t, "") EXCEPT !.as = p] : t \in {"string", "time", "int"}, p \in {"sint64", "bytes", "string"}}
Variables == {[Plain(t, "") EXCEPT !.variable = v] : t \in {"string", "int"}, v \in {"e", "v"}}
JSON ==
  {Plain("json", g) : g \in DOMAIN Elements \cup {"map"}}
  \cup {[Plain("json", g) EXCEPT !.as = "message"] : g \in {"*Message", "*other.Message", "map"}}
  \cup {[Plain("json", "[]int32") EXCEPT !.as = "int64"], [Plain("string", "") EXCEPT !.as = "message"]}
IDs ==
  {[Plain(t, "") EXCEPT !.id = TRUE] : t \in {"int", "int64", "uint", "uint64", "string"}}
  \cup {[Plain("uuid", "uuid.UUID") EXCEPT !.id = TRUE], [Plain("int64", "Packed") EXCEPT !.id = TRUE],
        [Plain("string", "Label") EXCEPT !.id = TRUE]}

EnumsOf(values) ==
  {[values |-> values, options |-> o, default |-> d, omitFieldPrefix |-> p] :
     o \in UNION {[S -> 0..2] : S \in {Range(values), Range(values) \ {values[1]},
                                       (Range(values) \ {values[1]}) \cup {"high!"}}},
     d \in Range(values) \cup {""}, p \in BOOLEAN}
MCEnums ==
  UNION {EnumsOf(v) : v \in {<<"low">>, <<"low", "high">>, <<"high", "high!">>,
                             <<"unspecified", "low">>, <<"low", "high", "unspecified">>}}
Status == {[Plain("enum", "") EXCEPT !.enum = e] : e \in MCEnums}

MCFieldConfs ==
  NilOrNot(Scalars \cup Customs \cup Overridden \cup Variables \cup Status) \cup JSON \cup IDs
=============================================================================

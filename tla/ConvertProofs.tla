------------------------------ MODULE ConvertProofs ------------------------------
(***************************************************************************)
(* Proofs about the conversion of a field (module Convert), for any field  *)
(* an author may write, any enum with any annotation, and all integer      *)
(* types at any width.                                                     *)
(***************************************************************************)
EXTENDS Convert, FiniteSetTheorems, SequenceTheorems, TLAPS

-----------------------------------------------------------------------------
(* Enums.                                                                    *)

LEMMA EnumTyped ==
  ASSUME NEW e \in Enum
  PROVE  /\ e.values \in Seq(DOMAIN Normalized) /\ e.options \in Annotations
         /\ e.omitFieldPrefix \in BOOLEAN
         /\ IsInjective(e.values) /\ "" \notin Declared(e) /\ e.default \in Declared(e) \cup {""}
BY Zenon DEF Enum

LEMMA DeclaredValues ==
  ASSUME NEW e \in Enum
  PROVE  /\ Len(e.values) \in Nat /\ Declared(e) = {e.values[i] : i \in 1..Len(e.values)}
         /\ \A i, j \in 1..Len(e.values) : e.values[i] = e.values[j] => i = j
         /\ IsFiniteSet(Declared(e)) /\ Cardinality(Declared(e)) = Len(e.values)
<1>1. /\ Len(e.values) \in Nat /\ e.values \in [1..Len(e.values) -> DOMAIN Normalized]
      /\ DOMAIN e.values = 1..Len(e.values)
  BY EnumTyped, LenProperties
<1>2. Declared(e) = {e.values[i] : i \in 1..Len(e.values)}
  BY <1>1, Zenon DEF Declared, Range
<1>3. \A i, j \in 1..Len(e.values) : e.values[i] = e.values[j] => i = j
  BY <1>1, EnumTyped, Zenon DEF IsInjective
<1>4. IsFiniteSet(1..Len(e.values)) /\ Cardinality(1..Len(e.values)) = Len(e.values)
  BY <1>1, FS_Interval
<1>5. e.values \in Surjection(1..Len(e.values), Declared(e))
  BY <1>1, <1>2 DEF Surjection
<1>6. e.values \in Injection(1..Len(e.values), Declared(e))
  BY <1>1, <1>2, EnumTyped DEF Injection
<1>7. IsFiniteSet(Declared(e)) /\ Cardinality(Declared(e)) = Cardinality(1..Len(e.values))
  BY <1>4, <1>5, <1>6, FS_Surjection
<1>. QED  BY <1>1, <1>2, <1>3, <1>4, <1>7

\* The descriptor has a value for each of the enum's, after that for "not specified".
Shift(e) == IF e.default # "" THEN 0 ELSE 1
Entry(e, i) ==
  [number |-> e.options[e.values[i]], name |-> <<~e.omitFieldPrefix, Normalized[e.values[i]]>>]

LEMMA Descriptor ==
  ASSUME NEW e \in Enum
  PROVE  /\ Len(EnumDescriptor(e)) = Len(e.values) + Shift(e)
         /\ \A i \in 1..Len(e.values) : EnumDescriptor(e)[i + Shift(e)] = Entry(e, i)
         /\ e.default = "" => EnumDescriptor(e)[1] = [number |-> 0, name |-> <<TRUE, "UNSPECIFIED">>]
<1>. DEFINE n == Len(e.values)
            own == [i \in 1..n |-> Entry(e, i)]
            any == [number |-> 0, name |-> <<TRUE, "UNSPECIFIED">>]
            D == EnumDescriptor(e)
            Goal == /\ Len(D) = n + Shift(e) /\ \A i \in 1..n : D[i + Shift(e)] = Entry(e, i)
                    /\ e.default = "" => D[1] = any
<1>1. n \in Nat
  BY DeclaredValues
<1>2. D = (IF e.default # "" THEN <<>> ELSE <<any>>) \o own
  BY Zenon DEF EnumDescriptor, Entry
<1>. DEFINE S == {any} \cup {Entry(e, i) : i \in 1..n}
<1>. HIDE DEF D, n, any
<1>3. own \in Seq(S) /\ Len(own) = n /\ \A i \in 1..n : own[i] = Entry(e, i)
  BY <1>1
<1>. HIDE DEF own, S
<1>4. ASSUME e.default # "" PROVE Goal
  <2>1. D = own
    BY <1>2, <1>3, <1>4, ConcatEmptySeq
  <2>2. Shift(e) = 0 /\ n + 0 = n /\ \A i \in 1..n : i + 0 = i
    <3>1. Shift(e) = 0
      BY <1>4, Zenon DEF Shift
    <3>. QED  BY <1>1, <3>1
  <2>. QED  BY <1>3, <1>4, <2>1, <2>2
<1>5. ASSUME e.default = "" PROVE Goal
  <2>1. D = <<any>> \o own
    BY <1>2, <1>5
  <2>2. any \in S
    BY DEF S
  <2>3. <<any>> \in Seq(S) /\ Len(<<any>>) = 1 /\ <<any>>[1] = any
    BY <2>2
  <2>4. /\ Len(D) = 1 + n
        /\ \A i \in 1..(1 + n) : D[i] = IF i <= 1 THEN <<any>>[i] ELSE own[i - 1]
    BY <1>1, <1>3, <2>1, <2>3, ConcatProperties
  <2>5. D[1] = any
    BY <1>1, <2>3, <2>4
  <2>6. \A i \in 1..n : D[i + 1] = own[i]
    <3>1. \A i \in 1..n : i + 1 \in 1..(1 + n) /\ ~(i + 1 <= 1) /\ (i + 1) - 1 = i
      BY <1>1
    <3>. QED  BY <2>4, <3>1
  <2>7. Shift(e) = 1 /\ 1 + n = n + 1
    <3>1. Shift(e) = 1
      BY <1>5, Zenon DEF Shift
    <3>. QED  BY <1>1, <3>1
  <2>. QED  BY <1>3, <2>4, <2>5, <2>6, <2>7
<1>6. Goal
  BY <1>4, <1>5
<1>. QED  BY <1>6, Zenon DEF D, n, any

\* Two names are alike when their identifiers are, and both stand with the field's
\* name or without.
LEMMA EntryName ==
  ASSUME NEW e \in Enum, NEW i
  PROVE  /\ Entry(e, i).name = <<~e.omitFieldPrefix, Normalized[e.values[i]]>>
         /\ Entry(e, i).number = e.options[e.values[i]]
         /\ Entry(e, i).name = <<TRUE, "UNSPECIFIED">> <=>
              ~e.omitFieldPrefix /\ Normalized[e.values[i]] = "UNSPECIFIED"
<1>. DEFINE id == Normalized[e.values[i]]
<1>1. Entry(e, i).name = <<~e.omitFieldPrefix, id>> /\ Entry(e, i).number = e.options[e.values[i]]
  BY Zenon DEF Entry
<1>2. \A p, q, a, b : <<p, a>> = <<q, b>> => p = q /\ a = b
  OBVIOUS
<1>. HIDE DEF id
<1>3. Entry(e, i).name = <<TRUE, "UNSPECIFIED">> => ~e.omitFieldPrefix /\ id = "UNSPECIFIED"
  <2>1. <<~e.omitFieldPrefix, id>> = <<TRUE, "UNSPECIFIED">> =>
          (~e.omitFieldPrefix) = TRUE /\ id = "UNSPECIFIED"
    BY <1>2, Zenon
  <2>. QED  BY <1>1, <2>1, Zenon
<1>4. ~e.omitFieldPrefix /\ id = "UNSPECIFIED" => Entry(e, i).name = <<TRUE, "UNSPECIFIED">>
  <2>. SUFFICES ASSUME ~e.omitFieldPrefix, id = "UNSPECIFIED"
                PROVE  Entry(e, i).name = <<TRUE, "UNSPECIFIED">>
    OBVIOUS
  <2>1. (~e.omitFieldPrefix) = TRUE
    BY Zenon
  <2>. QED  BY <1>1, <2>1, Zenon
<1>. QED  BY <1>1, <1>3, <1>4, Zenon DEF id

LEMMA EntryNames ==
  ASSUME NEW e \in Enum, NEW i, NEW j
  PROVE  Entry(e, i).name = Entry(e, j).name <=> Normalized[e.values[i]] = Normalized[e.values[j]]
<1>. DEFINE id(k) == Normalized[e.values[k]]
<1>1. /\ Entry(e, i).name = <<~e.omitFieldPrefix, id(i)>>
      /\ Entry(e, j).name = <<~e.omitFieldPrefix, id(j)>>
  BY Zenon DEF Entry
<1>2. \A p, q, a, b : <<p, a>> = <<q, b>> => p = q /\ a = b
  OBVIOUS
<1>. HIDE DEF id
<1>3. <<~e.omitFieldPrefix, id(i)>> = <<~e.omitFieldPrefix, id(j)>> => id(i) = id(j)
  BY <1>2, Zenon
<1>4. Entry(e, i).name = Entry(e, j).name <=> id(i) = id(j)
  BY <1>1, <1>3, Zenon
<1>. QED  BY <1>4, Zenon DEF id

\* What the linker asks of the descriptor, said of the enum.
LinkRules(e) ==
  /\ e.default # "" => e.options[e.values[1]] = 0
  /\ \A i, j \in 1..Len(e.values) : e.options[e.values[i]] = e.options[e.values[j]] => i = j
  /\ \A i, j \in 1..Len(e.values) : Normalized[e.values[i]] = Normalized[e.values[j]] => i = j
  /\ e.default = "" =>
       \A i \in 1..Len(e.values) :
         /\ e.options[e.values[i]] # 0
         /\ ~(~e.omitFieldPrefix /\ Normalized[e.values[i]] = "UNSPECIFIED")

LEMMA NotEmpty ==
  ASSUME NEW n \in Nat, NEW i \in 1..n
  PROVE  1 \in 1..n
OBVIOUS

LEMMA HasDefault ==
  ASSUME NEW e \in Enum, e.default # ""
  PROVE  1 \in 1..Len(e.values) /\ Shift(e) = 0
<1>. DEFINE n == Len(e.values)
<1>1. e.default \in Declared(e)
  BY EnumTyped, Zenon
<1>2. n \in Nat /\ Declared(e) = {e.values[i] : i \in 1..n}
  BY DeclaredValues, Zenon
<1>3. PICK i \in 1..n : e.default = e.values[i]
  BY <1>1, <1>2, Zenon
<1>. HIDE DEF n
<1>4. n \in Nat /\ i \in 1..n
  BY <1>2, <1>3, Zenon
<1>5. 1 \in 1..n
  BY <1>4, NotEmpty, Zenon
<1>. QED  BY <1>5, Zenon DEF Shift, n

LEMMA LinksByRules ==
  ASSUME NEW e \in Enum
  PROVE  LinksEnum(EnumDescriptor(e)) <=> LinkRules(e)
<1>. DEFINE n == Len(e.values)
            d == EnumDescriptor(e)
            Num(i) == e.options[e.values[i]]
            Id(i) == Normalized[e.values[i]]
            Pre == ~e.omitFieldPrefix
            Distinct == \A i, j \in 1..Len(d) : d[i].number = d[j].number \/ d[i].name = d[j].name => i = j
            Apart == \A i, j \in 1..n : (Num(i) = Num(j) => i = j) /\ (Id(i) = Id(j) => i = j)
            NotAny == \A i \in 1..n : Num(i) # 0 /\ ~(Pre /\ Id(i) = "UNSPECIFIED")
<1>1. n \in Nat /\ Len(d) = n + Shift(e)
  BY DeclaredValues, Descriptor
<1>0. /\ \A i \in 1..n : d[i + Shift(e)] = Entry(e, i)
      /\ e.default = "" => d[1] = [number |-> 0, name |-> <<TRUE, "UNSPECIFIED">>]
  BY Descriptor, Zenon
<1>1a. \A i :
         /\ Entry(e, i).number = Num(i)
         /\ Entry(e, i).name = <<TRUE, "UNSPECIFIED">> <=> Pre /\ Id(i) = "UNSPECIFIED"
  BY EntryName, Zenon
<1>1b. \A i, j : Entry(e, i).name = Entry(e, j).name <=> Id(i) = Id(j)
  BY EntryNames, Zenon
<1>2. \A i \in 1..n : d[i + Shift(e)].number = Num(i)
  BY <1>0, <1>1a, Zenon
<1>3. \A i, j \in 1..n : d[i + Shift(e)].name = d[j + Shift(e)].name <=> Id(i) = Id(j)
  <2>. SUFFICES ASSUME NEW i \in 1..n, NEW j \in 1..n
                PROVE  d[i + Shift(e)].name = d[j + Shift(e)].name <=> Id(i) = Id(j)
    OBVIOUS
  <2>1. d[i + Shift(e)] = Entry(e, i) /\ d[j + Shift(e)] = Entry(e, j)
    BY <1>0, Zenon
  <2>2. Entry(e, i).name = Entry(e, j).name <=> Id(i) = Id(j)
    BY <1>1b, Zenon
  <2>. QED  BY <2>1, <2>2, Zenon
<1>4. LinksEnum(d) <=> d # <<>> /\ d[1].number = 0 /\ Distinct
  BY Zenon DEF LinksEnum
<1>5. ASSUME e.default # "" PROVE LinksEnum(d) <=> LinkRules(e)
  <2>1. Shift(e) = 0 /\ 1 \in 1..n
    BY <1>5, HasDefault
  <2>2. LinkRules(e) <=> Num(1) = 0 /\ Apart
    BY <1>5, Zenon DEF LinkRules
  <2>. HIDE DEF n, d, Num, Id, Distinct, Apart, Pre, NotAny
  <2>3. Len(d) = n /\ \A i \in 1..n : i + Shift(e) = i
    BY <1>1, <2>1
  <2>4. d # <<>>
    <3>1. Len(<<>>) = 0 /\ n # 0
      BY <1>1, <2>1
    <3>. QED  BY <2>3, <3>1
  <2>5. d[1].number = Num(1)
    BY <1>2, <2>1, <2>3
  <2>6. Distinct <=> Apart
    <3>1. \A i, j \in 1..n :
            /\ d[i].number = d[j].number <=> Num(i) = Num(j)
            /\ d[i].name = d[j].name <=> Id(i) = Id(j)
      <4>. SUFFICES ASSUME NEW i \in 1..n, NEW j \in 1..n
                    PROVE  /\ d[i].number = d[j].number <=> Num(i) = Num(j)
                           /\ d[i].name = d[j].name <=> Id(i) = Id(j)
        OBVIOUS
      <4>1. i + Shift(e) = i /\ j + Shift(e) = j
        BY <2>3
      <4>2. /\ d[i + Shift(e)].number = Num(i) /\ d[j + Shift(e)].number = Num(j)
            /\ d[i + Shift(e)].name = d[j + Shift(e)].name <=> Id(i) = Id(j)
        BY <1>2, <1>3, Zenon
      <4>. QED  BY <4>1, <4>2, Zenon
    <3>2. Len(d) = n
      BY <2>3
    <3>3. Distinct => Apart
      <4>. SUFFICES ASSUME Distinct, NEW i \in 1..n, NEW j \in 1..n, Num(i) = Num(j) \/ Id(i) = Id(j)
                    PROVE  i = j
        BY DEF Apart
      <4>. QED  BY <3>1, <3>2, Zenon DEF Distinct
    <3>4. Apart => Distinct
      <4>. SUFFICES ASSUME Apart, NEW i \in 1..n, NEW j \in 1..n,
                           d[i].number = d[j].number \/ d[i].name = d[j].name
                    PROVE  i = j
        BY <3>2 DEF Distinct
      <4>. QED  BY <3>1, Zenon DEF Apart
    <3>. QED  BY <3>3, <3>4
  <2>. QED  BY <1>4, <2>2, <2>4, <2>5, <2>6
<1>6. ASSUME e.default = "" PROVE LinksEnum(d) <=> LinkRules(e)
  <2>1. Shift(e) = 1
    BY <1>6, Zenon DEF Shift
  <2>2. LinkRules(e) <=> Apart /\ NotAny
    BY <1>6, Zenon DEF LinkRules
  <2>3. d[1] = [number |-> 0, name |-> <<TRUE, "UNSPECIFIED">>]
    BY <1>0, <1>6, Zenon
  <2>. DEFINE any == [number |-> 0, name |-> <<TRUE, "UNSPECIFIED">>]
  <2>3a. any.number = 0 /\ any.name = <<TRUE, "UNSPECIFIED">>
    BY Zenon
  <2>4. d[1].number = 0 /\ d[1].name = <<TRUE, "UNSPECIFIED">>
    BY <2>3, <2>3a, Zenon
  <2>5. \A i \in 1..n : d[i + 1].name = d[1].name <=> Pre /\ Id(i) = "UNSPECIFIED"
    <3>. SUFFICES ASSUME NEW i \in 1..n
                  PROVE  d[i + 1].name = d[1].name <=> Pre /\ Id(i) = "UNSPECIFIED"
      OBVIOUS
    <3>1. d[i + 1] = Entry(e, i)
      BY <1>0, <2>1, Zenon
    <3>2. Entry(e, i).name = <<TRUE, "UNSPECIFIED">> <=> Pre /\ Id(i) = "UNSPECIFIED"
      BY <1>1a, Zenon
    <3>. QED  BY <2>4, <3>1, <3>2, Zenon
  <2>. HIDE DEF n, d, Num, Id, Distinct, Apart, Pre, NotAny
  <2>6. \A i \in 1..n : d[i + 1].number = Num(i)
    BY <1>2, <2>1
  <2>7. \A i, j \in 1..n : d[i + 1].name = d[j + 1].name <=> Id(i) = Id(j)
    BY <1>3, <2>1
  <2>8. Len(d) = n + 1 /\ d # <<>>
    <3>1. Len(<<>>) = 0 /\ n + 1 # 0
      BY <1>1
    <3>. QED  BY <1>1, <2>1, <3>1
  <2>9. ASSUME Distinct PROVE Apart
    <3>. SUFFICES ASSUME NEW i \in 1..n, NEW j \in 1..n, Num(i) = Num(j) \/ Id(i) = Id(j)
                  PROVE  i = j
      BY DEF Apart
    <3>1. i + 1 \in 1..Len(d) /\ j + 1 \in 1..Len(d)
      BY <1>1, <2>8
    <3>2. d[i + 1].number = d[j + 1].number \/ d[i + 1].name = d[j + 1].name
      BY <2>6, <2>7
    <3>3. i + 1 = j + 1
      BY <2>9, <3>1, <3>2, Zenon DEF Distinct
    <3>. QED  BY <1>1, <3>3
  <2>10. ASSUME Distinct PROVE NotAny
    <3>. SUFFICES ASSUME NEW i \in 1..n, Num(i) = 0 \/ (Pre /\ Id(i) = "UNSPECIFIED")
                  PROVE  FALSE
      BY DEF NotAny
    <3>1. i + 1 \in 1..Len(d) /\ 1 \in 1..Len(d) /\ i + 1 # 1
      BY <1>1, <2>8
    <3>2. d[i + 1].number = d[1].number \/ d[i + 1].name = d[1].name
      BY <2>4, <2>5, <2>6
    <3>. QED  BY <2>10, <3>1, <3>2, Zenon DEF Distinct
  <2>11. ASSUME Apart, NotAny PROVE Distinct
    <3>. SUFFICES ASSUME NEW i \in 1..Len(d), NEW j \in 1..Len(d),
                         d[i].number = d[j].number \/ d[i].name = d[j].name
                  PROVE  i = j
      BY DEF Distinct
    <3>1. \A k \in 1..Len(d) : k = 1 \/ (k - 1 \in 1..n /\ (k - 1) + 1 = k)
      BY <1>1, <2>8
    <3>2. CASE i = 1 /\ j = 1
      BY <3>2
    <3>3. CASE i = 1 /\ j # 1
      <4>1. j - 1 \in 1..n /\ (j - 1) + 1 = j
        BY <3>1, <3>3
      <4>2. d[j].number = Num(j - 1) /\ (d[j].name = d[1].name <=> Pre /\ Id(j - 1) = "UNSPECIFIED")
        BY <2>5, <2>6, <4>1
      <4>. QED  BY <2>4, <2>11, <3>3, <4>1, <4>2, Zenon DEF NotAny
    <3>4. CASE i # 1 /\ j = 1
      <4>1. i - 1 \in 1..n /\ (i - 1) + 1 = i
        BY <3>1, <3>4
      <4>2. d[i].number = Num(i - 1) /\ (d[i].name = d[1].name <=> Pre /\ Id(i - 1) = "UNSPECIFIED")
        BY <2>5, <2>6, <4>1
      <4>. QED  BY <2>4, <2>11, <3>4, <4>1, <4>2, Zenon DEF NotAny
    <3>5. CASE i # 1 /\ j # 1
      <4>1. /\ i - 1 \in 1..n /\ (i - 1) + 1 = i
            /\ j - 1 \in 1..n /\ (j - 1) + 1 = j
        BY <3>1, <3>5
      <4>2. Num(i - 1) = Num(j - 1) \/ Id(i - 1) = Id(j - 1)
        BY <2>6, <2>7, <4>1
      <4>3. i - 1 = j - 1
        BY <2>11, <4>1, <4>2, Zenon DEF Apart
      <4>. QED  BY <4>1, <4>3
    <3>. QED  BY <3>2, <3>3, <3>4, <3>5
  <2>. QED  BY <1>4, <2>2, <2>4, <2>8, <2>9, <2>10, <2>11
<1>. QED  BY <1>5, <1>6

\* What findByNumber may return for 0.
LEMMA FoundForZero ==
  ASSUME NEW e \in Enum
  PROVE  FindByNumber(e, 0) = (IF {v \in DOMAIN e.options : e.options[v] = 0} = {} THEN {""}
                               ELSE {v \in DOMAIN e.options : e.options[v] = 0})
BY Zenon DEF FindByNumber

\* Verify counts the options, finds every value among them, and so has them all.
LEMMA AllAnnotated ==
  ASSUME NEW e \in Enum, Cardinality(DOMAIN e.options) = Len(e.values),
         \A v \in Declared(e) : v \in DOMAIN e.options
  PROVE  DOMAIN e.options = Declared(e)
<1>1. IsFiniteSet(DOMAIN e.options)
  <2>1. PICK S \in {T \in SUBSET DOMAIN Normalized : IsFiniteSet(T)} : e.options \in [S -> Numbers]
    BY EnumTyped, Zenon DEF Annotations
  <2>. QED  BY <2>1, Zenon
<1>2. Declared(e) \subseteq DOMAIN e.options
  BY Zenon
<1>3. Cardinality(Declared(e)) = Cardinality(DOMAIN e.options)
  BY DeclaredValues, Zenon
<1>. QED  BY <1>1, <1>2, <1>3, FS_Subset, Zenon

\* An enum that Verify and the linker let through is sound.
LEMMA AcceptedIsSound ==
  ASSUME NEW e \in Enum, NEW z \in FindByNumber(e, 0), Verify(e, z), LinksEnum(EnumDescriptor(e))
  PROVE  SoundEnum(e)
<1>. DEFINE n == Len(e.values)
            found == {v \in DOMAIN e.options : e.options[v] = 0}
<1>1. /\ Declared(e) = {e.values[i] : i \in 1..n}
      /\ "" \notin Declared(e) /\ e.default \in Declared(e) \cup {""}
  BY DeclaredValues, EnumTyped, Zenon
<1>2. DOMAIN e.options = Declared(e)
  BY AllAnnotated, Zenon DEF Verify
<1>3. z = e.default /\ \A v, w \in Declared(e) : Normalized[v] = Normalized[w] => v = w
  BY Zenon DEF Verify
<1>4. LinkRules(e)
  BY LinksByRules, Zenon
<1>5. \A v, w \in Declared(e) : e.options[v] = e.options[w] => v = w
  <2>. SUFFICES ASSUME NEW v \in Declared(e), NEW w \in Declared(e), e.options[v] = e.options[w]
                PROVE  v = w
    BY Zenon
  <2>1. PICK i \in 1..n : v = e.values[i]
    BY <1>1, Zenon
  <2>2. PICK j \in 1..n : w = e.values[j]
    BY <1>1, Zenon
  <2>3. i = j
    BY <1>4, <2>1, <2>2, Zenon DEF LinkRules
  <2>. QED  BY <2>1, <2>2, <2>3, Zenon
<1>6. IsInjective(e.options)
  BY <1>2, <1>5, Zenon DEF IsInjective
<1>7. z \in (IF found = {} THEN {""} ELSE found)
  BY FoundForZero, Zenon
<1>8. ASSUME e.default = "" PROVE found = {}
  <2>. SUFFICES ASSUME NEW v \in Declared(e), e.options[v] = 0
                PROVE  FALSE
    BY <1>2, Zenon
  <2>1. PICK i \in 1..n : v = e.values[i]
    BY <1>1, Zenon
  <2>. QED  BY <1>4, <1>8, <2>1, Zenon DEF LinkRules
<1>9. ASSUME e.default # "" PROVE found = {e.default}
  <2>1. e.default \in found
    BY <1>3, <1>7, <1>9, Zenon
  <2>. QED  BY <1>2, <1>5, <2>1, Zenon
<1>10. found = {e.default} \ {""}
  BY <1>8, <1>9, Zenon
<1>11. ASSUME e.default # "" PROVE e.values[1] = e.default
  <2>1. e.values[1] \in found
    <3>1. 1 \in 1..n
      BY <1>11, HasDefault, Zenon
    <3>2. e.options[e.values[1]] = 0
      BY <1>4, <1>11, Zenon DEF LinkRules
    <3>. QED  BY <1>1, <1>2, <3>1, <3>2, Zenon
  <2>. QED  BY <1>9, <1>11, <2>1, Zenon
<1>12. ASSUME e.default = "", ~e.omitFieldPrefix
       PROVE  \A v \in Declared(e) : Normalized[v] # "UNSPECIFIED"
  BY <1>1, <1>4, <1>12, Zenon DEF LinkRules
<1>. QED  BY <1>2, <1>3, <1>6, <1>10, <1>11, <1>12, Zenon DEF SoundEnum

\* And both let a sound one through, whatever findByNumber returned.
LEMMA SoundIsAccepted ==
  ASSUME NEW e \in Enum, SoundEnum(e)
  PROVE  /\ \A z \in FindByNumber(e, 0) : Verify(e, z)
         /\ LinksEnum(EnumDescriptor(e))
<1>. DEFINE n == Len(e.values)
            found == {v \in DOMAIN e.options : e.options[v] = 0}
<1>1. /\ DOMAIN e.options = Declared(e) /\ found = {e.default} \ {""}
      /\ e.default # "" => e.values[1] = e.default
      /\ \A v, w \in Declared(e) : Normalized[v] = Normalized[w] => v = w
      /\ e.default = "" /\ ~e.omitFieldPrefix => \A v \in Declared(e) : Normalized[v] # "UNSPECIFIED"
      /\ IsInjective(e.options)
  BY Zenon DEF SoundEnum
<1>2. /\ Declared(e) = {e.values[i] : i \in 1..n}
      /\ \A i, j \in 1..n : e.values[i] = e.values[j] => i = j
      /\ Cardinality(Declared(e)) = n
  BY DeclaredValues, Zenon
<1>3. \A v, w \in Declared(e) : e.options[v] = e.options[w] => v = w
  BY <1>1, Zenon DEF IsInjective
<1>4. \A i \in 1..n : e.values[i] \in Declared(e)
  BY <1>2, Zenon
<1>5. ASSUME NEW z \in FindByNumber(e, 0) PROVE Verify(e, z)
  <2>1. z \in (IF found = {} THEN {""} ELSE found)
    BY <1>5, FoundForZero, Zenon
  <2>2. z = e.default
    <3>1. CASE e.default = ""
      <4>1. found = {}
        BY <1>1, <3>1, Zenon
      <4>. QED  BY <2>1, <3>1, <4>1, Zenon
    <3>2. CASE e.default # ""
      <4>1. found = {e.default}
        BY <1>1, <3>2, Zenon
      <4>. QED  BY <2>1, <4>1, Zenon
    <3>. QED  BY <3>1, <3>2
  <2>. QED  BY <1>1, <1>2, <2>2, Zenon DEF Verify
<1>6. LinkRules(e)
  <2>1. e.default # "" => e.options[e.values[1]] = 0
    BY <1>1, Zenon
  <2>2. \A i, j \in 1..n : e.options[e.values[i]] = e.options[e.values[j]] => i = j
    BY <1>2, <1>3, <1>4, Zenon
  <2>3. \A i, j \in 1..n : Normalized[e.values[i]] = Normalized[e.values[j]] => i = j
    BY <1>1, <1>2, <1>4, Zenon
  <2>4. ASSUME e.default = "", NEW i \in 1..n
        PROVE  /\ e.options[e.values[i]] # 0
               /\ ~(~e.omitFieldPrefix /\ Normalized[e.values[i]] = "UNSPECIFIED")
    <3>1. found = {}
      BY <1>1, <2>4, Zenon
    <3>. QED  BY <1>1, <1>4, <2>4, <3>1, Zenon
  <2>. QED  BY <2>1, <2>2, <2>3, <2>4, Zenon DEF LinkRules
<1>. QED  BY <1>5, <1>6, LinksByRules, Zenon

-----------------------------------------------------------------------------
(* The stages of the field.                                                  *)

Judged == field \in FieldConfs /\ EnumJudged

LEMMA JudgedStep ==
  ASSUME Judged, [Next]_vars
  PROVE  Judged'
<1>1. CASE Unsupported
  BY <1>1, Zenon DEF Unsupported, Move, Judged, EnumJudged, IsEnum
<1>2. CASE RefuseEnum
  BY <1>2, Zenon DEF RefuseEnum, Move, Judged, EnumJudged, IsEnum
<1>3. CASE ToProtoFieldDescriptor
  BY <1>3, Zenon DEF ToProtoFieldDescriptor, Move, Judged, EnumJudged, IsEnum
<1>4. CASE CannotLink
  BY <1>4, Zenon DEF CannotLink, Move, Judged, EnumJudged, IsEnum, EnumLinks
<1>5. CASE Link
  BY <1>5, Zenon DEF Link, Move, Judged, EnumJudged, IsEnum, EnumLinks
<1>6. CASE RefuseField
  BY <1>6, Zenon DEF RefuseField, Move, Judged, EnumJudged, IsEnum, EnumLinks
<1>7. CASE AcceptField
  BY <1>7, Zenon DEF AcceptField, Move, Judged, EnumJudged, IsEnum, EnumLinks
<1>8. CASE Compile
  <2>1. stage = "accepted" /\ stage' \in {"compiled", "broken"} /\ field' = field
    BY <1>8, Zenon DEF Compile, Move
  <2>. QED  BY <2>1, Zenon DEF Judged, EnumJudged, IsEnum, EnumLinks
<1>9. ASSUME field' = field, stage' = stage PROVE Judged'
  BY <1>9, Zenon DEF Judged, EnumJudged, IsEnum, EnumLinks
<1>10. ASSUME NEW side, NEW x, Start(side, x) PROVE Judged'
  BY <1>9, <1>10, Zenon DEF Start
<1>11. CASE ToProto
  BY <1>9, <1>11, Zenon DEF ToProto, Hop
<1>12. CASE ToEnt
  BY <1>9, <1>12, Zenon DEF ToEnt, Hop
<1>13. CASE UNCHANGED vars
  BY <1>9, <1>13, Zenon DEF vars
<1>. QED
  BY <1>1, <1>2, <1>3, <1>4, <1>5, <1>6, <1>7, <1>8, <1>10, <1>11, <1>12, <1>13, Zenon DEF Next

LEMMA VerdictFromJudged ==
  ASSUME Judged
  PROVE  EnumVerdictFits
<1>. SUFFICES ASSUME IsEnum PROVE EnumVerdictFits
  BY Zenon DEF EnumVerdictFits
<1>1. field.enum \in Enum
  BY ConvertAssumption, Zenon DEF Judged, Field
<1>2. ASSUME stage = "enum refused" PROVE ~SoundEnum(field.enum)
  BY <1>1, <1>2, SoundIsAccepted, Zenon DEF Judged, EnumJudged
<1>3. ASSUME stage = "not linked" PROVE ~SoundEnum(field.enum)
  BY <1>1, <1>3, SoundIsAccepted, Zenon DEF Judged, EnumJudged, EnumLinks
<1>4. ASSUME stage \in {"linked", "refused", "accepted", "compiled", "broken"}
      PROVE  SoundEnum(field.enum)
  BY <1>1, <1>4, AcceptedIsSound, Zenon DEF Judged, EnumJudged, EnumLinks
<1>. QED  BY <1>2, <1>3, <1>4, Zenon DEF EnumVerdictFits

\* The enums that Verify and the linker accept are the sound ones, for every enum and
\* annotation and in whatever order findByNumber goes over its map.
THEOREM EnumVerdictCorrect == Spec => []EnumVerdictFits
<1>1. Init => Judged
  BY Zenon DEF Init, Judged, EnumJudged
<1>2. Judged /\ [Next]_vars => Judged'
  BY JudgedStep, Zenon
<1>3. Judged => EnumVerdictFits
  BY VerdictFromJudged, Zenon
<1>. QED  BY <1>1, <1>2, <1>3, PTL DEF Spec

-----------------------------------------------------------------------------
(* Conversions between integers.                                             *)

Width == {8, 16, 32, 64}

\* A remainder differs from the number by a multiple of the divisor.
LEMMA Remainder ==
  ASSUME NEW M \in Nat, M > 0, NEW x \in Int
  PROVE  x % M \in 0..(M - 1) /\ \E a \in Int : x % M = x + a * M
<1>1. x % M \in 0..(M - 1) /\ x = M * (x \div M) + (x % M) /\ x \div M \in Int
  OBVIOUS
<1>2. PICK q \in Int : q = x \div M
  BY <1>1
<1>3. -q \in Int /\ x % M = x + (-q) * M
  BY <1>1, <1>2
<1>. QED  BY <1>1, <1>3

\* Of the numbers that differ by multiples of M only one is in a range of M.
LEMMA OneInRange ==
  ASSUME NEW M \in Nat, M > 0, NEW L \in Int, NEW x \in L..(L + M - 1), NEW y \in L..(L + M - 1),
         NEW c \in Int, x = y + c * M
  PROVE  x = y
<1>1. CASE c >= 1
  <2>1. c * M >= M
    BY <1>1
  <2>. QED  BY <2>1
<1>2. CASE c <= -1
  <2>1. c * M <= -M
    BY <1>2
  <2>. QED  BY <2>1
<1>3. CASE c = 0
  BY <1>3
<1>. QED  BY <1>1, <1>2, <1>3

LEMMA Moduli ==
  ASSUME NEW v \in Width, NEW w \in Width
  PROVE  /\ Modulus[v] \in Nat /\ Modulus[v] > 0 /\ Modulus[v] % 2 = 0
         /\ \/ \E k \in Nat : Modulus[w] = k * Modulus[v]
            \/ \E k \in Nat : Modulus[v] = k * Modulus[w]
<1>1. \A u \in Width : Modulus[u] \in Nat /\ Modulus[u] > 0 /\ Modulus[u] % 2 = 0
  <2>1. Modulus \in [{8, 16, 32, 64} -> {n \in Nat : n % 2 = 0 /\ n > 0}]
    BY GoAssumption, Zenon
  <2>. QED  BY <2>1 DEF Width
<1>2. ASSUME NEW u \in Width, NEW t \in Width, u < t
      PROVE  \E k \in Nat : Modulus[t] = k * Modulus[u]
  <2>1. Modulus[t] % Modulus[u] = 0
    <3>1. \A v1, w1 \in {8, 16, 32, 64} : v1 < w1 =>
            Modulus[v1] < Modulus[w1] /\ Modulus[w1] % Modulus[v1] = 0
      BY GoAssumption, Zenon
    <3>. QED  BY <1>2, <3>1 DEF Width
  <2>. DEFINE M == Modulus[u]
              N == Modulus[t]
  <2>2. M \in Nat /\ M > 0 /\ N \in Nat /\ N % M = 0
    BY <1>1, <2>1
  <2>. HIDE DEF M, N
  <2>3. N = M * (N \div M) + (N % M) /\ N \div M \in Nat
    BY <2>2
  <2>4. PICK k \in Nat : k = N \div M
    BY <2>3
  <2>5. N = k * M
    BY <2>2, <2>3, <2>4
  <2>. QED  BY <2>5 DEF M, N
<1>3. v = w => Modulus[w] = 1 * Modulus[v]
  BY <1>1
<1>4. v = w \/ v < w \/ w < v
  BY DEF Width
<1>. QED  BY <1>1, <1>2, <1>3, <1>4

LEMMA Ranges ==
  ASSUME NEW t \in IntTypes
  PROVE  /\ Bits[t] \in Width /\ Low(t) \in Int
         /\ Holds(t) = Low(t)..(Low(t) + Modulus[Bits[t]] - 1)
<1>1. Bits[t] \in Width
  <2>1. Word \in {32, 64}
    BY GoAssumption, Zenon
  <2>2. t \in {"int", "int8", "int16", "int32", "int64", "uint", "uint8", "uint16", "uint32", "uint64"}
    BY DEF IntTypes, Signed, Unsigned
  <2>. QED  BY <2>1, <2>2 DEF Bits, Width
<1>2. Modulus[Bits[t]] \in Nat
  BY <1>1, Moduli
<1>. QED  BY <1>1, <1>2 DEF Low, Holds

\* What a conversion does is add a multiple of the target's modulus.
LEMMA WrapAdds ==
  ASSUME NEW t \in IntTypes, NEW x \in Int
  PROVE  /\ Wrap(x, t) \in Holds(t) /\ Holds(t) \subseteq Int
         /\ \E a \in Int : Wrap(x, t) = x + a * Modulus[Bits[t]]
<1>. DEFINE M == Modulus[Bits[t]]
            L == Low(t)
<1>1. M \in Nat /\ M > 0 /\ L \in Int /\ Holds(t) = L..(L + M - 1) /\ Wrap(x, t) = ((x - L) % M) + L
  BY Ranges, Moduli DEF Wrap
<1>. HIDE DEF M, L
<1>2. (x - L) % M \in 0..(M - 1) /\ \E a \in Int : (x - L) % M = (x - L) + a * M
  <2>1. x - L \in Int
    BY <1>1
  <2>. QED  BY <1>1, <2>1, Remainder
<1>3. PICK a \in Int : (x - L) % M = (x - L) + a * M
  BY <1>2
<1>4. PICK p \in Int : p = a * M
  BY <1>1
<1>5. Wrap(x, t) = x + p /\ Wrap(x, t) \in L..(L + M - 1)
  BY <1>1, <1>2, <1>3, <1>4
<1>6. Wrap(x, t) = x + a * M
  BY <1>4, <1>5
<1>. QED  BY <1>1, <1>5, <1>6 DEF M

LEMMA WrapSame ==
  ASSUME NEW t \in IntTypes, NEW x \in Holds(t)
  PROVE  Wrap(x, t) = x
<1>. DEFINE M == Modulus[Bits[t]]
            L == Low(t)
<1>1. M \in Nat /\ M > 0 /\ L \in Int /\ Holds(t) = L..(L + M - 1) /\ x \in Int
  BY Ranges, Moduli
<1>2. PICK a \in Int : Wrap(x, t) = x + a * M
  BY <1>1, WrapAdds
<1>3. Wrap(x, t) \in Holds(t)
  BY <1>1, WrapAdds
<1>. HIDE DEF M, L
<1>. QED  BY <1>1, <1>2, <1>3, OneInRange

\* By way of a type that is as wide or wider a number comes back.
LEMMA WrapThrough ==
  ASSUME NEW s \in IntTypes, NEW t \in IntTypes, NEW k \in Nat,
         Modulus[Bits[s]] = k * Modulus[Bits[t]], NEW y \in Holds(t)
  PROVE  Wrap(Wrap(y, s), t) = y
<1>. DEFINE M == Modulus[Bits[t]]
            L == Low(t)
            z == Wrap(y, s)
<1>1. M \in Nat /\ M > 0 /\ L \in Int /\ Holds(t) = L..(L + M - 1) /\ y \in Int
  BY Ranges, Moduli
<1>2. PICK a \in Int : z = y + a * (k * M)
  BY <1>1, WrapAdds
<1>3. z \in Int
  BY <1>1, <1>2
<1>4. PICK b \in Int : Wrap(z, t) = z + b * M
  BY <1>3, WrapAdds
<1>5. Wrap(z, t) \in Holds(t)
  BY <1>3, WrapAdds
<1>. HIDE DEF M, L, z
<1>6. a * k + b \in Int /\ Wrap(z, t) = y + (a * k + b) * M
  <2>1. a * (k * M) + b * M = (a * k + b) * M
    BY <1>1
  <2>2. a * (k * M) \in Int /\ b * M \in Int
    BY <1>1
  <2>. QED  BY <1>1, <1>2, <1>4, <2>1, <2>2
<1>7. PICK c \in Int : Wrap(z, t) = y + c * M
  BY <1>6
<1>8. Wrap(z, t) = y
  BY <1>1, <1>5, <1>7, OneInRange
<1>. QED  BY <1>8 DEF z

\* There and back once more changes nothing, and nothing the first time when the
\* other type has the number too.
LEMMA WrapTwice ==
  ASSUME NEW s \in IntTypes, NEW t \in IntTypes, NEW x \in Holds(s)
  PROVE  /\ Wrap(Wrap(Wrap(Wrap(x, t), s), t), s) = Wrap(Wrap(x, t), s)
         /\ x \in Holds(t) => Wrap(Wrap(x, t), s) = x
<1>1. x \in Int /\ Wrap(x, t) \in Holds(t)
  BY WrapAdds
<1>2. CASE \E k \in Nat : Modulus[Bits[t]] = k * Modulus[Bits[s]]
  BY <1>2, WrapThrough
<1>3. CASE \E k \in Nat : Modulus[Bits[s]] = k * Modulus[Bits[t]]
  <2>1. \A y \in Holds(t) : Wrap(Wrap(y, s), t) = y
    BY <1>3, WrapThrough
  <2>. QED  BY <1>1, <2>1, WrapSame
<1>4. x \in Holds(t) => Wrap(Wrap(x, t), s) = x
  BY WrapSame
<1>. QED  BY <1>2, <1>3, <1>4, Ranges, Moduli

-----------------------------------------------------------------------------
(* Types.                                                                    *)

Predeclared ==
  NumericTypes \cup {"", "bool", "string", "[]byte", "time.Time", "time.Unix", "Enum", "Status"}

LEMMA UnderOfNamed ==
  ASSUME NEW t
  PROVE  /\ t \in Predeclared \cup Literals => Under(t) = t
         /\ Under(t) \in {"time.Time", "Enum", "Status"} => Under(t) = t
         /\ Under(Under(t)) = Under(t)
<1>1. /\ DOMAIN Named \cap Predeclared = {}
      /\ t \in DOMAIN Named =>
           /\ Under(Named[t].under) = Named[t].under
           /\ Named[t].under \notin {"time.Time", "Enum", "Status"}
           /\ t \in Literals => Named[t].under = t /\ Named[t].name = t
  BY GoAssumption, Zenon DEF Predeclared
<1>2. CASE t \in DOMAIN Named
  <2>1. Under(t) = Named[t].under
    BY <1>2, Zenon DEF Under
  <2>. QED  BY <1>1, <1>2, <2>1, Zenon
<1>3. CASE t \notin DOMAIN Named
  <2>1. Under(t) = t
    BY <1>3, Zenon DEF Under
  <2>. QED  BY <2>1, Zenon
<1>. QED  BY <1>2, <1>3, Zenon

LEMMA ElementTypes ==
  /\ DOMAIN Elements = Lists
  /\ \A t \in Lists : Elements[t] \in {"string", "int32", "int64", "uint32", "uint64"}
  /\ Elements["[]string"] = "string"
BY DEF Elements, Lists

LEMMA EntTypes ==
  /\ DOMAIN EntGo = NumericTypes \cup {"bool", "string", "bytes", "time", "enum"}
  /\ EntGo["bool"] = "bool" /\ EntGo["string"] = "string" /\ EntGo["bytes"] = "[]byte"
  /\ EntGo["time"] = "time.Time" /\ EntGo["enum"] = "Status"
  /\ \A t \in NumericTypes : EntGo[t] = t
BY DEF EntGo, NumericTypes, IntTypes, Signed, Unsigned, Floats

PbTypes ==
  {"message", "bool", "string", "[]byte", "sint64", "Enum", "int32", "int64", "uint32",
   "uint64", "float32", "float64"}

LEMMA FieldTyped ==
  ASSUME NEW f \in FieldConfs
  PROVE  /\ f.type \in DOMAIN EntGo \cup {"uuid", "json", "other"} /\ f.go \in {""} \cup DOMAIN Named
         /\ f.as \in PbTypes \cup {"", "bytes"} /\ f.as # "Enum" /\ f.as # "[]byte"
         /\ f.nillable \in BOOLEAN /\ f.id \in BOOLEAN /\ f.variable \in {"e", "v", "other"}
         /\ f.enum \in Enum
<1>1. f \in Field
  BY ConvertAssumption, Zenon
<1>2. f.as \in {"", "message", "bool", "string", "bytes", "int32", "int64", "sint64", "uint32", "uint64"}
               \cup Floats
  BY <1>1, Zenon DEF Field
<1>3. f.as \in PbTypes \cup {"", "bytes"} /\ f.as # "Enum" /\ f.as # "[]byte"
  BY <1>2 DEF PbTypes, Floats
<1>. QED  BY <1>1, <1>3, Zenon DEF Field

\* The type in protobuf of a field that has one.
LEMMA MappedTypes ==
  /\ DOMAIN TypeMap = NumericTypes \cup {"bool", "string", "bytes", "uuid", "time", "enum"}
  /\ \A t \in DOMAIN TypeMap : TypeMap[t] \in PbTypes /\ (TypeMap[t] = "Enum" <=> t = "enum")
  /\ \A t \in DOMAIN TypeMap : TypeMap[t] \notin {"message", "sint64"}
  /\ \A t \in NumericTypes : TypeMap[t] \in NumericTypes
  /\ \A t \in {"bool", "string"} : TypeMap[t] = t
  /\ TypeMap["bytes"] = "[]byte" /\ TypeMap["time"] = "int64"
BY DEF TypeMap, PbTypes, NumericTypes, IntTypes, Signed, Unsigned, Floats

LEMMA PbTyped ==
  ASSUME field \in FieldConfs, Supported
  PROVE  /\ PbType \in PbTypes /\ (PbType = "Enum" <=> IsEnum)
         /\ Repeated => field.go \in Lists /\ PbType = Elements[field.go] /\ ~field.nillable
         /\ PbType = "message" => field.as = "message"
<1>1. /\ field.type \in DOMAIN EntGo \cup {"uuid", "json", "other"}
      /\ field.as \in PbTypes \cup {"", "bytes"} /\ field.as # "Enum" /\ field.as # "[]byte"
      /\ field.type = "enum" => field.as = ""
      /\ field.type = "json" => ~field.nillable
  BY FieldTyped, ConvertAssumption, Zenon
<1>2. CASE field.as # ""
  <2>1. PbType = (IF field.as = "bytes" THEN "[]byte" ELSE field.as) /\ ~Repeated
    BY <1>2, Zenon DEF PbType, PbTypeOf, Repeated
  <2>2. "[]byte" \in PbTypes
    BY DEF PbTypes
  <2>3. field.type # "enum"
    BY <1>1, <1>2
  <2>. QED  BY <1>1, <1>2, <2>1, <2>2, <2>3, Zenon DEF IsEnum
<1>3. CASE field.as = "" /\ field.type = "json"
  <2>1. field.go \in Lists
    BY <1>3, MappedTypes, ElementTypes DEF Supported, NumericTypes, IntTypes, Signed, Unsigned, Floats
  <2>2. PbType = Elements[field.go]
    BY <1>3, Zenon DEF PbType, PbTypeOf
  <2>3. PbType \in PbTypes /\ PbType # "Enum" /\ PbType # "message"
    BY <2>1, <2>2, ElementTypes DEF PbTypes
  <2>. QED  BY <1>1, <1>3, <2>1, <2>2, <2>3, Zenon DEF IsEnum, Repeated
<1>4. CASE field.as = "" /\ field.type # "json"
  <2>1. field.type \in DOMAIN TypeMap /\ PbType = TypeMap[field.type] /\ ~Repeated
    BY <1>4, Zenon DEF Supported, PbType, PbTypeOf, Repeated
  <2>. QED  BY <1>4, <2>1, MappedTypes, Zenon DEF IsEnum
<1>. QED  BY <1>2, <1>3, <1>4, Zenon

LEMMA PbGoTyped ==
  ASSUME field \in FieldConfs, Supported
  PROVE  /\ ~Repeated /\ PbType \notin {"message", "sint64"} => PbGo = PbType
         /\ PbType = "message" => PbGo = "*Message" /\ ~Repeated
         /\ Repeated => PbGo = field.go
         /\ PbGo \in Predeclared \cup Literals /\ PbGo \notin {"time.Time", "Status"}
         /\ PbGo = "Enum" <=> PbType = "Enum"
<1>1. PbType \in PbTypes /\ (Repeated => field.go \in Lists /\ PbType = Elements[field.go])
  BY PbTyped, Zenon
<1>2. Lists \subseteq Literals
  BY DEF Lists, Literals
<1>3. CASE Repeated
  <2>1. PbGo = field.go
    BY <1>3, Zenon DEF PbGo
  <2>2. PbType \notin {"message", "Enum"}
    BY <1>1, <1>3, ElementTypes
  <2>3. PbGo \in Literals /\ PbGo \notin {"time.Time", "Status", "Enum"}
    BY <1>1, <1>2, <1>3, <2>1 DEF Lists
  <2>. QED  BY <1>3, <2>1, <2>2, <2>3, Zenon
<1>4. CASE ~Repeated
  <2>1. PbGo = (CASE PbType = "message" -> "*Message" [] PbType = "sint64" -> "int64" [] OTHER -> PbType)
    BY <1>4, Zenon DEF PbGo
  <2>2. PbGo = IF PbType = "message" THEN "*Message" ELSE IF PbType = "sint64" THEN "int64" ELSE PbType
    BY <2>1
  <2>3. /\ PbGo \in Predeclared \cup Literals /\ PbGo \notin {"time.Time", "Status"}
        /\ PbGo = "Enum" <=> PbType = "Enum"
    BY <1>1, <2>2 DEF PbTypes, Predeclared, Literals, NumericTypes, IntTypes, Signed, Unsigned, Floats
  <2>. QED  BY <1>4, <2>2, <2>3, Zenon
<1>. QED  BY <1>3, <1>4

\* Which case of NewConverter's second switch applies.
LEMMA Cases ==
  ASSUME field \in FieldConfs
  PROVE  LET plain == ~field.id /\ ~(Marshaler \/ ValueScanner)
         IN  /\ Case = "id" <=> field.id
             /\ Case = "methods" <=> ~field.id /\ (Marshaler \/ ValueScanner)
             /\ Case = "same" <=> plain /\ field.type \in {"bool", "bytes", "string"}
             /\ Case = "numeric" <=> plain /\ field.type \in NumericTypes
             /\ Case = "time" <=> plain /\ field.type = "time"
             /\ Case = "enum" <=> plain /\ field.type = "enum"
             /\ Case = "json" <=> plain /\ field.type = "json" /\ field.go \in Lists
             /\ Case = "none" <=> plain /\ (\/ field.type \in {"uuid", "other"}
                                            \/ field.type = "json" /\ field.go \notin Lists)
<1>1. field.id \in BOOLEAN /\ field.type \in DOMAIN EntGo \cup {"uuid", "json", "other"}
  BY FieldTyped, Zenon
<1>2. field.type \in NumericTypes \cup {"bool", "string", "bytes", "time", "enum", "uuid", "json", "other"}
  BY <1>1, EntTypes, Zenon
<1>3. CASE field.id
  <2>1. Case = "id"
    BY <1>3 DEF Case
  <2>. QED  BY <1>3, <2>1
<1>4. CASE ~field.id /\ (Marshaler \/ ValueScanner)
  <2>1. Case = "methods"
    BY <1>4 DEF Case
  <2>. QED  BY <1>4, <2>1
<1>5. CASE ~field.id /\ ~(Marshaler \/ ValueScanner)
  <2>1. Case = (CASE field.type \in {"bool", "bytes", "string"} -> "same"
                  [] field.type \in NumericTypes -> "numeric"
                  [] field.type = "json" /\ field.go \notin DOMAIN Elements -> "none"
                  [] field.type \in {"uuid", "other"} -> "none"
                  [] OTHER -> field.type)
    BY <1>5 DEF Case
  <2>. QED  BY <1>2, <1>5, <2>1, ElementTypes DEF NumericTypes, IntTypes, Signed, Unsigned, Floats
<1>. QED  BY <1>3, <1>4, <1>5

\* What NewConverter puts in a converter.
BasicToProto ==
  IF \/ PbType \in {"int32", "uint32", "uint64", "float32"} /\ Go # PbType
     \/ PbType = "int64" /\ ~Valuer /\ Go # PbType
     \/ PbType = "float64" /\ Valuer
  THEN PbType ELSE ""

Directives ==
  {"toProto", "unix", "toProtoConstructor", "toEnt", "toEntConstructor", "unrendered"}

LEMMA BasisIs ==
  /\ DOMAIN Basis = Directives
  /\ Basis.toProto = (IF PbType = "Enum" THEN "" ELSE BasicToProto)
  /\ Basis.toEnt = ""
  /\ Basis.toProtoConstructor <=> PbType = "Enum"
  /\ ~Basis.unix /\ ~Basis.toEntConstructor
  /\ Basis.unrendered <=> /\ PbType # "Enum"
                          /\ \/ Valuer /\ PbType \in {"bool", "string", "[]byte", "int64"}
                             \/ Marshaler /\ PbType = "[]byte"
<1>0. DOMAIN Nothing = Directives
  BY DEF Nothing, Directives
<1>1. CASE PbType = "Enum"
  <2>1. Basis = [Nothing EXCEPT !.toProtoConstructor = TRUE]
    BY <1>1, Zenon DEF Basis
  <2>2. DOMAIN Basis = Directives
    BY <1>0, <2>1 DEF Directives
  <2>. QED  BY <1>1, <2>2, Zenon DEF Basis, Nothing
<1>2. CASE PbType # "Enum"
  <2>1. Basis = BasicTypeConversion
    BY <1>2, Zenon DEF Basis
  <2>2. /\ BasicTypeConversion.toProto = BasicToProto /\ BasicTypeConversion.toEnt = ""
        /\ ~BasicTypeConversion.unix /\ ~BasicTypeConversion.toEntConstructor
        /\ ~BasicTypeConversion.toProtoConstructor
    BY Zenon DEF BasicTypeConversion, BasicToProto, Nothing
  <2>3. BasicTypeConversion.unrendered <=>
          \/ Valuer /\ PbType \in {"bool", "string", "[]byte", "int64"}
          \/ Marshaler /\ PbType = "[]byte"
    BY Zenon DEF BasicTypeConversion, Nothing
  <2>4. DOMAIN BasicTypeConversion = Directives
    BY <1>0, Zenon DEF BasicTypeConversion
  <2>. QED  BY <1>2, <2>1, <2>2, <2>3, <2>4, Zenon
<1>. QED  BY <1>1, <1>2

LEMMA ConverterIs ==
  ASSUME PbType # "message"
  PROVE  LET c == NewConverter
         IN  /\ c.toProto = CASE Case = "time" -> "int64"
                              [] Case = "json" /\ field.go # "[]string" -> ""
                              [] OTHER -> Basis.toProto
             /\ c.toEnt = CASE Case \in {"id", "numeric"} -> Go
                            [] Case = "time" -> "time.Unix"
                            [] OTHER -> ""
             /\ c.unix <=> Case = "time"
             /\ c.toProtoConstructor <=> PbType = "Enum"
             /\ c.toEntConstructor <=> Case = "enum"
             /\ c.unrendered <=> Case = "methods" \/ Basis.unrendered
<1>0. /\ DOMAIN Basis = Directives /\ "toProto" \in Directives /\ "unix" \in Directives
      /\ "toEnt" \in Directives /\ "toEntConstructor" \in Directives /\ "unrendered" \in Directives
  BY BasisIs, Zenon DEF Directives
<1>1. NewConverter =
        CASE Case \in {"id", "numeric"} -> [Basis EXCEPT !.toEnt = Go]
          [] Case = "methods" -> [Basis EXCEPT !.unrendered = TRUE]
          [] Case = "time" -> [Basis EXCEPT !.toProto = "int64", !.unix = TRUE, !.toEnt = "time.Unix"]
          [] Case = "enum" -> [Basis EXCEPT !.toEntConstructor = TRUE]
          [] Case = "json" /\ field.go # "[]string" -> [Basis EXCEPT !.toProto = ""]
          [] OTHER -> Basis
  BY Zenon DEF NewConverter
<1>2. CASE Case \in {"id", "numeric"}
  <2>1. NewConverter = [Basis EXCEPT !.toEnt = Go]
    BY <1>1, <1>2
  <2>2. /\ NewConverter.toProto = Basis.toProto /\ NewConverter.toEnt = Go
        /\ NewConverter.unix = Basis.unix /\ NewConverter.toProtoConstructor = Basis.toProtoConstructor
        /\ NewConverter.toEntConstructor = Basis.toEntConstructor /\ NewConverter.unrendered = Basis.unrendered
    BY <1>0, <2>1 DEF Directives
  <2>. QED  BY <1>2, <2>2, BasisIs
<1>3. CASE Case = "methods"
  <2>1. NewConverter = [Basis EXCEPT !.unrendered = TRUE]
    BY <1>1, <1>3
  <2>2. /\ NewConverter.toProto = Basis.toProto /\ NewConverter.toEnt = Basis.toEnt
        /\ NewConverter.unix = Basis.unix /\ NewConverter.toProtoConstructor = Basis.toProtoConstructor
        /\ NewConverter.toEntConstructor = Basis.toEntConstructor /\ NewConverter.unrendered = TRUE
    BY <1>0, <2>1 DEF Directives
  <2>. QED  BY <1>3, <2>2, BasisIs
<1>4. CASE Case = "time"
  <2>1. NewConverter = [Basis EXCEPT !.toProto = "int64", !.unix = TRUE, !.toEnt = "time.Unix"]
    BY <1>1, <1>4
  <2>2. /\ NewConverter.toProto = "int64" /\ NewConverter.toEnt = "time.Unix"
        /\ NewConverter.unix = TRUE /\ NewConverter.toProtoConstructor = Basis.toProtoConstructor
        /\ NewConverter.toEntConstructor = Basis.toEntConstructor /\ NewConverter.unrendered = Basis.unrendered
    BY <1>0, <2>1 DEF Directives
  <2>. QED  BY <1>4, <2>2, BasisIs
<1>5. CASE Case = "enum"
  <2>1. NewConverter = [Basis EXCEPT !.toEntConstructor = TRUE]
    BY <1>1, <1>5
  <2>2. /\ NewConverter.toProto = Basis.toProto /\ NewConverter.toEnt = Basis.toEnt
        /\ NewConverter.unix = Basis.unix /\ NewConverter.toProtoConstructor = Basis.toProtoConstructor
        /\ NewConverter.toEntConstructor = TRUE /\ NewConverter.unrendered = Basis.unrendered
    BY <1>0, <2>1 DEF Directives
  <2>. QED  BY <1>5, <2>2, BasisIs
<1>6. CASE Case = "json" /\ field.go # "[]string"
  <2>1. NewConverter = [Basis EXCEPT !.toProto = ""]
    BY <1>1, <1>6
  <2>2. /\ NewConverter.toProto = "" /\ NewConverter.toEnt = Basis.toEnt
        /\ NewConverter.unix = Basis.unix /\ NewConverter.toProtoConstructor = Basis.toProtoConstructor
        /\ NewConverter.toEntConstructor = Basis.toEntConstructor /\ NewConverter.unrendered = Basis.unrendered
    BY <1>0, <2>1 DEF Directives
  <2>. QED  BY <1>6, <2>2, BasisIs
<1>7. CASE Case \notin {"id", "numeric", "methods", "time", "enum"} /\ ~(Case = "json" /\ field.go # "[]string")
  <2>1. NewConverter = Basis
    BY <1>1, <1>7
  <2>. QED  BY <1>7, <2>1, BasisIs
<1>. QED  BY <1>2, <1>3, <1>4, <1>5, <1>6, <1>7

\* The Go type of ent's value: none of the generators' names but for times and enums.
LEMMA GoTyped ==
  ASSUME field \in FieldConfs
  PROVE  /\ Go \notin {"", "time.Unix", "Enum"}
         /\ Go = "Status" => IsEnum
         /\ Go = "time.Time" => field.type = "time" /\ field.go = ""
         /\ IsEnum => Go = "Status" /\ Has = {}
         /\ field.go # "" => Go = field.go /\ Go \in DOMAIN Named
         /\ field.go = "" => Go = EntGo[field.type] /\ field.type \in DOMAIN EntGo /\ Has = {}
<1>1. /\ field.type \in DOMAIN EntGo \cup {"uuid", "json", "other"}
      /\ field.go \in {""} \cup DOMAIN Named
      /\ field.type \in {"uuid", "json", "other"} => field.go # ""
      /\ field.type = "enum" => field.go = ""
  BY FieldTyped, ConvertAssumption, Zenon
<1>2. DOMAIN Named \cap Predeclared = {}
  BY GoAssumption, Zenon DEF Predeclared
<1>3. /\ "" \in Predeclared /\ "time.Unix" \in Predeclared /\ "Enum" \in Predeclared
      /\ "Status" \in Predeclared /\ "time.Time" \in Predeclared
  BY DEF Predeclared
<1>4. CASE field.go # ""
  <2>1. Go = field.go /\ Go \in DOMAIN Named
    BY <1>1, <1>4, Zenon DEF Go, GoOf
  <2>2. Go \notin {"", "time.Unix", "Enum", "Status", "time.Time"}
    BY <1>2, <1>3, <2>1, Zenon
  <2>. QED  BY <1>1, <1>4, <2>1, <2>2, Zenon DEF IsEnum
<1>5. CASE field.go = ""
  <2>1. Go = EntGo[field.type] /\ field.type \in DOMAIN EntGo /\ Has = {}
    BY <1>1, <1>5, Zenon DEF Go, GoOf, Has
  <2>2. /\ Go \notin {"", "time.Unix", "Enum"}
        /\ Go = "Status" => field.type = "enum"
        /\ Go = "time.Time" => field.type = "time"
        /\ field.type = "enum" => Go = "Status"
    BY <2>1, EntTypes DEF NumericTypes, IntTypes, Signed, Unsigned, Floats
  <2>. QED  BY <1>5, <2>1, <2>2, Zenon DEF IsEnum
<1>. QED  BY <1>4, <1>5

\* The three ways in which a converter that compiles can work: times, enums, and all
\* others, which convert between types, if at all, with the same underlying type, or
\* between numbers.
Plainly(c) == ~c.unix /\ ~c.toProtoConstructor /\ ~c.toEntConstructor

LEMMA CompiledMessage ==
  ASSUME field \in FieldConfs, Supported, PbType = "message", Compiles(NewConverter)
  PROVE  /\ Plainly(NewConverter) /\ NewConverter.toProto = "" /\ NewConverter.toEnt = ""
         /\ Under(Go) = Under(PbGo)
<1>1. NewConverter = Nothing
  BY Zenon DEF NewConverter
<1>2. Plainly(Nothing) /\ Nothing.toProto = "" /\ Nothing.toEnt = ""
  BY Zenon DEF Nothing, Plainly
<1>3. ~IsProto3OptionalPointer
  BY Zenon DEF IsProto3OptionalPointer, IsProto3Optional
<1>4. Assignable(Go, PbGo)
  BY <1>1, <1>2, <1>3, Zenon DEF Compiles, ToProtoCompiles, Plainly
<1>. QED  BY <1>1, <1>2, <1>4, Zenon DEF Assignable

\* What the compiler makes sure of in a converter without constructors.
LEMMA CompiledPlainly ==
  ASSUME NEW c, Plainly(c), Compiles(c), c.toEnt # "time.Unix"
  PROVE  /\ LET type == IF c.toProto # "" THEN c.toProto ELSE Go
            IN  Convertible(Go, type) /\ Under(type) = Under(PbGo)
         /\ LET type == IF c.toEnt # "" THEN c.toEnt ELSE PbGo
            IN  Convertible(PbGo, type) /\ Under(type) = Under(Go)
<1>1. Plainly(c) /\ ToProtoCompiles(c) /\ ToEntCompiles(c)
  BY DEF Compiles
<1>2. LET type == IF c.toProto # "" THEN c.toProto ELSE Go
      IN  Convertible(Go, type) /\ (type = PbGo \/ Assignable(type, PbGo))
  BY <1>1, Zenon DEF ToProtoCompiles, Plainly
<1>3. LET type == IF c.toEnt # "" THEN c.toEnt ELSE PbGo
      IN  Convertible(PbGo, type) /\ (type = Go \/ Assignable(type, Go))
  <2>. DEFINE type == IF c.toEnt # "" THEN c.toEnt ELSE PbGo
  <2>1. ~c.toEntConstructor
    BY <1>1 DEF Plainly
  <2>2. Convertible(PbGo, type)
    BY <1>1, <2>1 DEF ToEntCompiles
  <2>3. type = Go \/ Assignable(type, Go)
    BY <1>1, <2>1, Zenon DEF ToEntCompiles
  <2>. QED  BY <2>2, <2>3
<1>. QED  BY <1>2, <1>3, Zenon DEF Assignable

TimeShape(c) ==
  /\ c.unix /\ ~c.toProtoConstructor /\ ~c.toEntConstructor /\ c.toEnt = "time.Unix"
  /\ Go = "time.Time" /\ PbGo = "int64" /\ PbType # "[]byte"

EnumShape(c) ==
  /\ IsEnum /\ ~c.unix /\ c.toProtoConstructor /\ c.toEntConstructor
  /\ c.toProto = "" /\ c.toEnt = "" /\ Go = "Status" /\ PbGo = "Enum" /\ PbType = "Enum"

SameUnder == Under(Go) = Under(PbGo)
BothNumbers(S) == PbGo \in S /\ Under(Go) \in S

PlainShape(c) ==
  /\ Plainly(c) /\ Go \notin {"time.Time", "Status"}
  /\ c.toProto \in {"", PbGo} /\ c.toEnt \in {"", Go}
  /\ SameUnder \/ (c.toProto # "" /\ c.toEnt # "" /\ (BothNumbers(IntTypes) \/ BothNumbers(Floats)))

LEMMA CompiledTime ==
  ASSUME field \in FieldConfs, Supported, PbType # "message", Case = "time",
         Compiles(NewConverter)
  PROVE  TimeShape(NewConverter)
<1>1. field.type = "time"
  BY Cases, Zenon
<1>2. PbType # "Enum"
  BY <1>1, PbTyped, Zenon DEF IsEnum
<1>3. /\ NewConverter.unix /\ ~NewConverter.toProtoConstructor /\ ~NewConverter.toEntConstructor
      /\ NewConverter.toEnt = "time.Unix"
  BY <1>2, ConverterIs
<1>4. Go = "time.Time"
  BY <1>3, Zenon DEF Compiles, ToProtoCompiles
<1>5. PbGo = "int64"
  BY <1>3 DEF Compiles, ToEntCompiles
<1>6. PbType # "[]byte"
  <2>1. ~Repeated
    BY <1>1 DEF Repeated
  <2>. QED  BY <1>5, <2>1, PbGoTyped
<1>. QED  BY <1>3, <1>4, <1>5, <1>6, Zenon DEF TimeShape

LEMMA CompiledEnum ==
  ASSUME field \in FieldConfs, Supported, IsEnum, Compiles(NewConverter)
  PROVE  EnumShape(NewConverter)
<1>1. /\ PbType = "Enum" /\ PbGo = "Enum" /\ Go = "Status" /\ Has = {}
      /\ field.type = "enum"
  BY PbTyped, PbGoTyped, GoTyped, Zenon DEF IsEnum
<1>2. ~Marshaler /\ ~ValueScanner
  BY <1>1, Zenon DEF Marshaler, ValueScanner
<1>3. Case = "enum" \/ Case = "id"
  BY <1>1, <1>2, Cases
<1>4. Under(Go) = "Status" /\ Under(PbGo) = "Enum"
  BY <1>1, UnderOfNamed, Zenon DEF Predeclared
<1>5. Case = "enum"
  <2>. SUFFICES ASSUME Case = "id"
                PROVE  FALSE
    BY <1>3
  <2>1. NewConverter.toEnt = "Status" /\ ~NewConverter.toEntConstructor
    BY <1>1, ConverterIs
  <2>2. Convertible("Enum", "Status")
    BY <1>1, <2>1 DEF Compiles, ToEntCompiles
  <2>. QED  BY <1>1, <1>4, <2>2 DEF Convertible, NumericTypes, IntTypes, Signed, Unsigned, Floats
<1>6. /\ ~NewConverter.unix /\ NewConverter.toProtoConstructor /\ NewConverter.toEntConstructor
      /\ NewConverter.toProto = "" /\ NewConverter.toEnt = ""
  BY <1>1, <1>5, BasisIs, ConverterIs
<1>. QED  BY <1>1, <1>6, Zenon DEF EnumShape

LEMMA CompiledPlain ==
  ASSUME field \in FieldConfs, Supported, PbType # "message", Case # "time", ~IsEnum,
         Compiles(NewConverter)
  PROVE  PlainShape(NewConverter)
<1>. DEFINE c == NewConverter
<1>1. PbType \in PbTypes /\ PbType # "Enum" /\ field.type # "enum"
  BY PbTyped, Zenon DEF IsEnum
<1>2. Case # "enum"
  BY <1>1, Cases
<1>3. Plainly(c) /\ c.toEnt \in {"", Go} /\ c.toEnt # "time.Unix"
  <2>1. Go # "time.Unix"
    BY GoTyped, Zenon
  <2>. QED  BY <1>1, <1>2, <2>1, ConverterIs DEF Plainly
<1>4. c.toProto = "" \/ (c.toProto = PbType /\ PbType \in NumericTypes)
  <2>1. BasicToProto = "" \/ (BasicToProto = PbType /\ PbType \in NumericTypes)
    BY DEF BasicToProto, NumericTypes, IntTypes, Signed, Unsigned, Floats
  <2>. QED  BY <1>1, <2>1, BasisIs, ConverterIs
<1>5. /\ LET type == IF c.toProto # "" THEN c.toProto ELSE Go
         IN  Convertible(Go, type) /\ Under(type) = Under(PbGo)
      /\ LET type == IF c.toEnt # "" THEN c.toEnt ELSE PbGo
         IN  Convertible(PbGo, type) /\ Under(type) = Under(Go)
  BY <1>3, CompiledPlainly
<1>6. Go \notin {"time.Time", "Status"}
  <2>1. Go # "Status"
    BY GoTyped, Zenon
  <2>2. Go # "time.Time"
    <3>. SUFFICES ASSUME Go = "time.Time"
                  PROVE  FALSE
      OBVIOUS
    <3>1. field.type = "time" /\ Has = {}
      BY GoTyped, Zenon
    <3>2. ~Marshaler /\ ~ValueScanner
      BY <3>1, Zenon DEF Marshaler, ValueScanner
    <3>3. Case = "id"
      BY <3>1, <3>2, Cases
    <3>4. Under(Go) = "time.Time" /\ PbGo # "time.Time" /\ Under(PbGo) = PbGo
      BY UnderOfNamed, PbGoTyped, Zenon DEF Predeclared
    <3>5. Convertible(PbGo, Go)
      BY <1>5, <3>3, ConverterIs
    <3>. QED  BY <3>4, <3>5 DEF Convertible, NumericTypes, IntTypes, Signed, Unsigned, Floats
  <2>. QED  BY <2>1, <2>2
<1>. HIDE DEF c
<1>7. c.toProto = "" \/ (c.toProto = PbGo /\ PbGo \in NumericTypes)
  <2>1. Under(PbGo) = PbGo
    BY PbGoTyped, UnderOfNamed, Zenon
  <2>2. PbType \in NumericTypes => Under(PbType) = PbType
    BY UnderOfNamed, Zenon DEF Predeclared
  <2>. QED  BY <1>4, <1>5, <2>1, <2>2
<1>8. ASSUME c.toProto = "" \/ c.toEnt = ""
      PROVE  PlainShape(c)
  <2>1. SameUnder
    BY <1>5, <1>8 DEF SameUnder
  <2>. QED  BY <1>3, <1>6, <1>7, <2>1, Zenon DEF PlainShape
<1>9. ASSUME c.toProto # "", c.toEnt # ""
      PROVE  PlainShape(c)
  <2>1. PbGo \in NumericTypes /\ c.toProto = PbGo /\ c.toEnt = Go
    BY <1>3, <1>7, <1>9
  <2>2. Under(PbGo) = PbGo /\ Convertible(PbGo, Go)
    BY <1>5, <1>9, <2>1, UnderOfNamed, Zenon DEF Predeclared
  <2>3. Under(Go) = PbGo \/ Under(Go) \in NumericTypes \/ (PbGo \in IntTypes /\ Under(Go) = "string")
    BY <2>1, <2>2 DEF Convertible, NumericTypes, IntTypes, Signed, Unsigned, Floats
  <2>4. Convertible(Go, PbGo)
    BY <1>5, <1>9, <2>1
  <2>5. Under(Go) \in NumericTypes
    BY <2>1, <2>2, <2>3, <2>4 DEF Convertible, NumericTypes, IntTypes, Signed, Unsigned, Floats
  <2>6. BothNumbers(IntTypes) \/ BothNumbers(Floats)
    <3>1. PbType = PbGo
      BY <1>4, <1>9, <2>1
    <3>2. ~Repeated
      <4>1. PbGo \notin Lists
        BY <2>1 DEF Lists, NumericTypes, IntTypes, Signed, Unsigned, Floats
      <4>. QED  BY <4>1, PbTyped, PbGoTyped, Zenon
    <3>3. field.as # "" \/ field.type \in DOMAIN TypeMap
      BY <3>2, Zenon DEF Supported, Repeated
    <3>4. {PbType, Under(Go)} \cap Floats = {} \/ {PbType, Under(Go)} \cap IntTypes = {}
      BY <3>3, ConvertAssumption, Zenon DEF PbType, Go
    <3>. QED  BY <2>1, <2>5, <3>1, <3>4 DEF BothNumbers, NumericTypes
  <2>. QED  BY <1>3, <1>6, <1>9, <2>1, <2>6, Zenon DEF PlainShape
<1>10. PlainShape(c)
  BY <1>8, <1>9, Zenon
<1>. QED  BY <1>10 DEF c

LEMMA CompiledShape ==
  ASSUME field \in FieldConfs, Supported, Compiles(NewConverter)
  PROVE  TimeShape(NewConverter) \/ EnumShape(NewConverter) \/ PlainShape(NewConverter)
<1>1. CASE PbType = "message"
  <2>1. PbGo = "*Message"
    BY <1>1, PbGoTyped, Zenon
  <2>2. Under(PbGo) = "*Message"
    BY <2>1, UnderOfNamed, Zenon DEF Literals
  <2>3. Go \notin {"time.Time", "Status"}
    <3>1. Under("time.Time") = "time.Time" /\ Under("Status") = "Status"
      BY UnderOfNamed, Zenon DEF Predeclared
    <3>2. Under(Go) = "*Message"
      BY <1>1, <2>2, CompiledMessage, Zenon
    <3>. QED  BY <3>1, <3>2
  <2>4. PlainShape(NewConverter)
    BY <1>1, <2>3, CompiledMessage, Zenon DEF PlainShape, SameUnder
  <2>. QED  BY <2>4
<1>2. CASE PbType # "message" /\ Case = "time"
  BY <1>2, CompiledTime
<1>3. CASE IsEnum
  BY <1>3, CompiledEnum
<1>4. CASE PbType # "message" /\ Case # "time" /\ ~IsEnum
  BY <1>4, CompiledPlain
<1>. QED  BY <1>1, <1>2, <1>3, <1>4

-----------------------------------------------------------------------------
(* Values.                                                                   *)

\* What values a type has depends on its underlying type alone.
ValuesUnder(u) ==
  IF u \in IntTypes THEN Holds(u)
  ELSE IF u = "time.Time" THEN (0 - Modulus[64]) .. (Modulus[64] - 1)
  ELSE IF u = "Enum" THEN Numbers
  ELSE IF u = "Status" THEN DOMAIN Normalized \cup {""}
  ELSE IF u = "[]byte" THEN {"nil", "empty", "some"}
  ELSE {IF u \in Literals THEN "nil" ELSE "", "some"}

LEMMA ValuesOf ==
  ASSUME NEW t
  PROVE  Values(t) = ValuesUnder(Under(t)) /\ Zero(t) \in Values(t)
<1>. DEFINE u == Under(t)
<1>1. /\ t = "time.Time" <=> u = "time.Time"
      /\ t = "Enum" <=> u = "Enum"
      /\ t = "Status" <=> u = "Status"
  BY UnderOfNamed, Zenon DEF Predeclared
<1>. HIDE DEF u
<1>2. Values(t) = CASE u \in IntTypes -> Holds(u)
                    [] t = "time.Time" -> (0 - Modulus[64]) .. (Modulus[64] - 1)
                    [] t = "Enum" -> Numbers
                    [] t = "Status" -> DOMAIN Normalized \cup {""}
                    [] u = "[]byte" -> {"nil", "empty", "some"}
                    [] OTHER -> {Zero(t), "some"}
  BY DEF Values, u
<1>3. Zero(t) = IF u \in IntTypes \cup {"Enum", "time.Time"} THEN 0
                ELSE IF u \in Literals THEN "nil" ELSE ""
  <2>1. Zero(t) = CASE u \in IntTypes \cup {"Enum", "time.Time"} -> 0
                    [] u \in Literals -> "nil"
                    [] OTHER -> ""
    BY Zenon DEF Zero, u
  <2>2. u \in Literals => u \notin IntTypes \cup {"Enum", "time.Time"}
    BY DEF Literals, IntTypes, Signed, Unsigned
  <2>. QED  BY <2>1, <2>2
<1>4. Values(t) = ValuesUnder(u)
  <2>1. u \in IntTypes => u \notin {"time.Time", "Enum", "Status", "[]byte"}
    BY DEF IntTypes, Signed, Unsigned
  <2>. HIDE DEF Zero
  <2>. QED  BY <1>1, <1>2, <1>3, <2>1 DEF ValuesUnder
<1>5. ASSUME u \in IntTypes
      PROVE  Zero(t) \in Values(t)
  <2>1. Bits[u] \in Width /\ Low(u) = (IF u \in Signed THEN -(Modulus[Bits[u]] \div 2) ELSE 0)
    BY <1>5, Ranges DEF Low
  <2>2. Modulus[Bits[u]] \in Nat /\ Modulus[Bits[u]] > 0 /\ Modulus[Bits[u]] % 2 = 0
    BY <2>1, Moduli
  <2>3. 0 \in Low(u)..(Low(u) + Modulus[Bits[u]] - 1)
    BY <2>1, <2>2
  <2>. QED  BY <1>3, <1>4, <1>5, <2>3, Ranges DEF ValuesUnder
<1>6. ASSUME u = "time.Time"
      PROVE  Zero(t) \in Values(t)
  <2>1. Modulus[64] \in Nat /\ Modulus[64] > 0
    BY Moduli DEF Width
  <2>. QED  BY <1>3, <1>4, <1>6, <2>1 DEF ValuesUnder, IntTypes, Signed, Unsigned
<1>7. ASSUME u = "Enum"
      PROVE  Zero(t) \in Values(t)
  <2>1. 0 \in Numbers
    BY ConvertAssumption, Zenon
  <2>. QED  BY <1>3, <1>4, <1>7, <2>1 DEF ValuesUnder, IntTypes, Signed, Unsigned
<1>8. ASSUME u \notin IntTypes /\ u \notin {"time.Time", "Enum"}
      PROVE  Zero(t) \in Values(t)
  BY <1>3, <1>4, <1>8 DEF ValuesUnder, Literals
<1>. QED  BY <1>4, <1>5, <1>6, <1>7, <1>8, Zenon DEF u

\* Times in half seconds and their whole seconds.
LEMMA TimeValues ==
  ASSUME NEW x \in Int
  PROVE  LET times == (0 - Modulus[64]) .. (Modulus[64] - 1)
         IN  /\ x \in times => x \div 2 \in Holds("int64")
             /\ x \in Holds("int64") => 2 * x \in times /\ (2 * x) \div 2 = x
             /\ x % 2 = 0 => 2 * (x \div 2) = x
             /\ (2 * (x \div 2)) % 2 = 0
<1>1. "int64" \in IntTypes /\ "int64" \in Signed /\ Bits["int64"] = 64
  BY DEF IntTypes, Signed, Bits
<1>. DEFINE M == Modulus[64]
<1>2. M \in Nat /\ M > 0 /\ M % 2 = 0
  BY Moduli DEF Width
<1>3. Holds("int64") = (-(M \div 2)) .. (-(M \div 2) + M - 1)
  BY <1>1, Ranges DEF Low
<1>. HIDE DEF M
<1>4. x \in (0 - M) .. (M - 1) => x \div 2 \in Holds("int64")
  BY <1>2, <1>3
<1>5. x \in Holds("int64") => 2 * x \in (0 - M) .. (M - 1) /\ (2 * x) \div 2 = x
  BY <1>2, <1>3
<1>6. (x % 2 = 0 => 2 * (x \div 2) = x) /\ (2 * (x \div 2)) % 2 = 0
  OBVIOUS
<1>. QED  BY <1>4, <1>5, <1>6 DEF M

LEMMA DescriptorDomain ==
  ASSUME NEW e \in Enum
  PROVE  DOMAIN EnumDescriptor(e) = 1..(Len(e.values) + Shift(e))
<1>. DEFINE n == Len(e.values)
            own == [i \in 1..n |-> Entry(e, i)]
            any == [number |-> 0, name |-> <<TRUE, "UNSPECIFIED">>]
            S == {any} \cup {Entry(e, i) : i \in 1..n}
            first == IF e.default # "" THEN <<>> ELSE <<any>>
<1>1. n \in Nat
  BY DeclaredValues
<1>2. EnumDescriptor(e) = first \o own
  BY Zenon DEF EnumDescriptor, Entry
<1>. HIDE DEF n, any
<1>3. own \in Seq(S)
  BY <1>1
<1>4. first \in Seq(S)
  <2>1. any \in S
    BY DEF S
  <2>2. <<>> \in Seq(S) /\ <<any>> \in Seq(S)
    BY <2>1
  <2>. QED  BY <2>2, Zenon
<1>. HIDE DEF own, S, first
<1>5. EnumDescriptor(e) \in Seq(S)
  BY <1>2, <1>3, <1>4
<1>6. DOMAIN EnumDescriptor(e) = 1..Len(EnumDescriptor(e))
  BY <1>5
<1>. QED  BY <1>6, Descriptor

\* The maps of a sound enum: to the number of a value, and back to the value of the number.
LEMMA EnumMaps ==
  ASSUME NEW e \in Enum, SoundEnum(e)
  PROVE  /\ \A v : EnumToProto(e, v) = IF v \in Declared(e) THEN e.options[v] ELSE 0
         /\ \A v \in Declared(e) : e.options[v] \in Numbers
         /\ \A n : IF \E v \in Declared(e) : e.options[v] = n
                   THEN EnumToEnt(e, n) \in Declared(e) /\ e.options[EnumToEnt(e, n)] = n
                   ELSE EnumToEnt(e, n) = ""
<1>1. DOMAIN e.options = Declared(e)
  BY Zenon DEF SoundEnum
<1>2. \A v \in Declared(e) : e.options[v] \in Numbers
  <2>1. PICK S : e.options \in [S -> Numbers]
    BY EnumTyped, Zenon DEF Annotations
  <2>. QED  BY <1>1, <2>1
<1>3. ASSUME NEW v \in Declared(e)
      PROVE  PbEnumValueConst(e, v).number = e.options[v]
  <2>1. PICK i \in 1..Len(e.values) : v = e.values[i]
    BY DeclaredValues, Zenon
  <2>2. EnumDescriptor(e)[i + Shift(e)] = Entry(e, i) /\ Entry(e, i).number = e.options[v]
    BY <2>1, Descriptor, EntryName, Zenon
  <2>3. Entry(e, i) \in Range(EnumDescriptor(e))
    <3>1. i + Shift(e) \in 1..(Len(e.values) + Shift(e))
      <4>1. Len(e.values) \in Nat /\ Shift(e) \in {0, 1}
        BY DeclaredValues DEF Shift
      <4>2. Shift(e) = 0 \/ Shift(e) = 1
        BY <4>1
      <4>. QED  BY <2>1, <4>1, <4>2
    <3>. QED  BY <2>2, <3>1, DescriptorDomain, Zenon DEF Range
  <2>. QED  BY <2>2, <2>3, Zenon DEF PbEnumValueConst
<1>4. \A v : EnumToProto(e, v) = IF v \in Declared(e) THEN e.options[v] ELSE 0
  BY <1>3, Zenon DEF EnumToProto
<1>5. ASSUME NEW n
      PROVE  IF \E v \in Declared(e) : e.options[v] = n
             THEN EnumToEnt(e, n) \in Declared(e) /\ e.options[EnumToEnt(e, n)] = n
             ELSE EnumToEnt(e, n) = ""
  <2>1. CASE \E v \in Declared(e) : e.options[v] = n
    <3>1. \E v \in Declared(e) : PbEnumValueConst(e, v).number = n
      BY <1>3, <2>1, Zenon
    <3>2. EnumToEnt(e, n) = CHOOSE v \in Declared(e) : PbEnumValueConst(e, v).number = n
      BY <3>1, Zenon DEF EnumToEnt
    <3>3. EnumToEnt(e, n) \in Declared(e) /\ PbEnumValueConst(e, EnumToEnt(e, n)).number = n
      BY <3>1, <3>2, Zenon
    <3>. QED  BY <1>3, <2>1, <3>3, Zenon
  <2>2. CASE ~\E v \in Declared(e) : e.options[v] = n
    <3>1. ~\E v \in Declared(e) : PbEnumValueConst(e, v).number = n
      BY <1>3, <2>2, Zenon
    <3>. QED  BY <2>2, <3>1, Zenon DEF EnumToEnt
  <2>. QED  BY <2>1, <2>2, Zenon
<1>. QED  BY <1>2, <1>4, <1>5, Zenon

\* What the two functions do to values: those that fit come back, and a second trip
\* changes nothing.
TripsFit ==
  /\ \A x \in Values(Go) :
       /\ ProtoValue(x) \in Values(PbGo)
       /\ EntValue(ProtoValue(EntValue(ProtoValue(x)))) = EntValue(ProtoValue(x))
       /\ Fits("ent", x) => EntValue(ProtoValue(x)) = x
  /\ \A y \in Values(PbGo) :
       /\ EntValue(y) \in Values(Go)
       /\ ProtoValue(EntValue(ProtoValue(EntValue(y)))) = ProtoValue(EntValue(y))
       /\ Fits("pb", y) => ProtoValue(EntValue(y)) = y
  /\ PbType = "[]byte" =>
       \A x : /\ ProtoValue(x) = x /\ EntValue(x) = x
              /\ Fits("ent", x) => ~(field.nillable /\ x = "nil")

LEMMA TimeTrips ==
  ASSUME TimeShape(conv)
  PROVE  TripsFit
<1>1. /\ conv.unix /\ ~conv.toProtoConstructor /\ ~conv.toEntConstructor /\ conv.toEnt = "time.Unix"
      /\ PbType # "[]byte" /\ Go = "time.Time" /\ PbGo = "int64"
  BY Zenon DEF TimeShape
<1>0. Under(Go) \notin IntTypes
  <2>1. Under(Go) = "time.Time"
    BY <1>1, UnderOfNamed, Zenon DEF Predeclared
  <2>. QED  BY <2>1 DEF IntTypes, Signed, Unsigned
<1>2. /\ \A x : ProtoValue(x) = x \div 2 /\ EntValue(x) = 2 * x
      /\ \A x : Fits("ent", x) => x % 2 = 0
  <2>. SUFFICES ASSUME NEW x
                PROVE  /\ ProtoValue(x) = x \div 2 /\ EntValue(x) = 2 * x
                       /\ Fits("ent", x) => x % 2 = 0
    OBVIOUS
  <2>1. ProtoValue(x) = x \div 2
    BY <1>1, Zenon DEF ProtoValue
  <2>2. EntValue(x) = 2 * x
    BY <1>1, Zenon DEF EntValue
  <2>3. Fits("ent", x) => x % 2 = 0
    BY <1>0, <1>1, Zenon DEF Fits
  <2>. QED  BY <2>1, <2>2, <2>3
<1>3. /\ Values(Go) = (0 - Modulus[64]) .. (Modulus[64] - 1)
      /\ Values(PbGo) = Holds("int64") /\ Values(Go) \subseteq Int /\ Values(PbGo) \subseteq Int
  <2>1. Under(Go) = "time.Time" /\ Under(PbGo) = "int64"
    <3>1. "int64" \in Predeclared /\ "time.Time" \in Predeclared
      BY DEF Predeclared, NumericTypes, IntTypes, Signed
    <3>. QED  BY <1>1, <3>1, UnderOfNamed, Zenon
  <2>2. "int64" \in IntTypes /\ "time.Time" \notin IntTypes
    BY DEF IntTypes, Signed, Unsigned
  <2>3. Values(Go) = ValuesUnder("time.Time") /\ Values(PbGo) = ValuesUnder("int64")
    BY <2>1, ValuesOf
  <2>4. Values(PbGo) = Holds("int64") /\ Holds("int64") \subseteq Int
    BY <2>2, <2>3, WrapAdds DEF ValuesUnder
  <2>5. Values(Go) = (0 - Modulus[64]) .. (Modulus[64] - 1)
    BY <2>2, <2>3, Zenon DEF ValuesUnder
  <2>. QED  BY <2>4, <2>5
<1>4. \A x \in Values(Go) :
        /\ x \div 2 \in Values(PbGo) /\ (x % 2 = 0 => 2 * (x \div 2) = x)
        /\ 2 * ((2 * (x \div 2)) \div 2) = 2 * (x \div 2)
  BY <1>3, TimeValues
<1>5. \A y \in Values(PbGo) : 2 * y \in Values(Go) /\ (2 * y) \div 2 = y
  BY <1>3, TimeValues
<1>. QED  BY <1>1, <1>2, <1>4, <1>5 DEF TripsFit

LEMMA EnumTrips ==
  ASSUME field \in FieldConfs, EnumShape(conv), SoundEnum(field.enum)
  PROVE  TripsFit
<1>. DEFINE e == field.enum
<1>1. /\ IsEnum /\ ~conv.unix /\ conv.toProtoConstructor /\ conv.toEntConstructor
      /\ conv.toProto = "" /\ conv.toEnt = "" /\ Go = "Status" /\ PbGo = "Enum" /\ PbType = "Enum"
  BY Zenon DEF EnumShape
<1>0. Under(Go) \notin IntTypes
  <2>1. Under(Go) = "Status"
    BY <1>1, UnderOfNamed, Zenon DEF Predeclared
  <2>. QED  BY <2>1 DEF IntTypes, Signed, Unsigned
<1>2. e \in Enum
  BY FieldTyped
<1>3. /\ \A x : ProtoValue(x) = EnumToProto(e, x) /\ EntValue(x) = EnumToEnt(e, x)
      /\ \A x : Fits("ent", x) => x \in Declared(e) \/ (x = "" /\ e.default = "")
      /\ \A x : Fits("pb", x) => x = 0 \/ \E v \in Declared(e) : e.options[v] = x
  <2>. SUFFICES ASSUME NEW x
                PROVE  /\ ProtoValue(x) = EnumToProto(e, x) /\ EntValue(x) = EnumToEnt(e, x)
                       /\ Fits("ent", x) => x \in Declared(e) \/ (x = "" /\ e.default = "")
                       /\ Fits("pb", x) => x = 0 \/ \E v \in Declared(e) : e.options[v] = x
    OBVIOUS
  <2>1. ProtoValue(x) = EnumToProto(e, x)
    BY <1>1, Zenon DEF ProtoValue
  <2>2. EntValue(x) = EnumToEnt(e, x)
    BY <1>1, Zenon DEF EntValue
  <2>3. Fits("ent", x) => x \in Declared(e) \/ (x = "" /\ e.default = "")
    BY <1>0, <1>1, Zenon DEF Fits
  <2>4. Fits("pb", x) => x = 0 \/ \E v \in Declared(e) : e.options[v] = x
    BY <1>0, <1>1, Zenon DEF Fits
  <2>. QED  BY <2>1, <2>2, <2>3, <2>4
<1>4. Values(Go) = DOMAIN Normalized \cup {""} /\ Values(PbGo) = Numbers /\ 0 \in Numbers
  <2>1. Under(Go) = "Status" /\ Under(PbGo) = "Enum"
    BY <1>1, UnderOfNamed, Zenon DEF Predeclared
  <2>2. "Status" \notin IntTypes /\ "Enum" \notin IntTypes
    BY DEF IntTypes, Signed, Unsigned
  <2>3. Values(Go) = ValuesUnder("Status") /\ Values(PbGo) = ValuesUnder("Enum")
    BY <2>1, ValuesOf
  <2>. QED  BY <2>2, <2>3, ConvertAssumption, Zenon DEF ValuesUnder
<1>5. /\ \A v : ProtoValue(v) = IF v \in Declared(e) THEN e.options[v] ELSE 0
      /\ \A v \in Declared(e) : e.options[v] \in Numbers
      /\ \A n : IF \E v \in Declared(e) : e.options[v] = n
                THEN EntValue(n) \in Declared(e) /\ e.options[EntValue(n)] = n
                ELSE EntValue(n) = ""
  BY <1>2, <1>3, EnumMaps, Zenon
<1>6. /\ \A v, w \in Declared(e) : e.options[v] = e.options[w] => v = w
      /\ \A v \in Declared(e) : e.options[v] = 0 <=> v = e.default
      /\ "" \notin Declared(e) /\ e.default \in Declared(e) \cup {""}
      /\ Declared(e) \subseteq DOMAIN Normalized
  <2>1. /\ DOMAIN e.options = Declared(e) /\ IsInjective(e.options)
        /\ {v \in DOMAIN e.options : e.options[v] = 0} = {e.default} \ {""}
    BY Zenon DEF SoundEnum
  <2>2. "" \notin Declared(e) /\ e.default \in Declared(e) \cup {""}
    BY <1>2, EnumTyped
  <2>3. \A v \in Declared(e) : e.options[v] = 0 <=> v = e.default
    BY <2>1, <2>2, Zenon
  <2>4. \A v, w \in Declared(e) : e.options[v] = e.options[w] => v = w
    BY <2>1, Zenon DEF IsInjective
  <2>5. Declared(e) \subseteq DOMAIN Normalized
    <3>1. e.values \in Seq(DOMAIN Normalized)
      BY <1>2, EnumTyped
    <3>2. \A i \in 1..Len(e.values) : e.values[i] \in DOMAIN Normalized
      BY <3>1, ElementOfSeq
    <3>. QED  BY <1>2, <3>2, DeclaredValues
  <2>. QED  BY <2>2, <2>3, <2>4, <2>5
<1>. HIDE DEF e, ProtoValue, EntValue
<1>7. \A x : ProtoValue(x) \in Numbers /\ EntValue(x) \in Declared(e) \cup {""}
  BY <1>4, <1>5, Zenon
<1>8. \A v \in Declared(e) : EntValue(ProtoValue(v)) = v
  BY <1>5, <1>6, Zenon
<1>9. ProtoValue("") = 0 /\ EntValue(0) = e.default
  <2>1. ProtoValue("") = 0
    BY <1>5, <1>6, Zenon
  <2>2. CASE e.default = ""
    <3>1. ~\E v \in Declared(e) : e.options[v] = 0
      BY <1>6, <2>2, Zenon
    <3>2. EntValue(0) = ""
      BY <1>5, <3>1, Zenon
    <3>. QED  BY <2>1, <2>2, <3>2, Zenon
  <2>3. CASE e.default # ""
    <3>1. e.default \in Declared(e) /\ e.options[e.default] = 0
      BY <1>6, <2>3, Zenon
    <3>2. EntValue(0) \in Declared(e) /\ e.options[EntValue(0)] = 0
      BY <1>5, <3>1, Zenon
    <3>. QED  BY <1>6, <2>1, <3>2, Zenon
  <2>. QED  BY <2>2, <2>3
<1>10. ProtoValue(e.default) = 0
  BY <1>5, <1>6, <1>9, Zenon
<1>11. \A n : (\E v \in Declared(e) : e.options[v] = n) => ProtoValue(EntValue(n)) = n
  BY <1>5, Zenon
<1>12. \A n : (\A v \in Declared(e) : e.options[v] # n) => EntValue(n) = ""
  BY <1>5, Zenon
<1>13. \A x : x \notin Declared(e) => ProtoValue(x) = 0
  BY <1>5, Zenon
<1>14. ASSUME NEW x \in Values(Go)
       PROVE  /\ ProtoValue(x) \in Values(PbGo)
              /\ EntValue(ProtoValue(EntValue(ProtoValue(x)))) = EntValue(ProtoValue(x))
              /\ Fits("ent", x) => EntValue(ProtoValue(x)) = x
  <2>1. CASE x \in Declared(e)
    BY <1>4, <1>7, <1>8, <2>1, Zenon
  <2>2. CASE x \notin Declared(e)
    <3>1. EntValue(ProtoValue(x)) = e.default /\ ProtoValue(x) = 0
      BY <1>9, <1>13, <2>2, Zenon
    <3>2. Fits("ent", x) => x = e.default
      BY <1>3, <2>2, Zenon
    <3>. QED  BY <1>4, <1>9, <1>10, <3>1, <3>2, Zenon
  <2>. QED  BY <2>1, <2>2, Zenon
<1>15. ASSUME NEW y \in Values(PbGo)
       PROVE  /\ EntValue(y) \in Values(Go)
              /\ ProtoValue(EntValue(ProtoValue(EntValue(y)))) = ProtoValue(EntValue(y))
              /\ Fits("pb", y) => ProtoValue(EntValue(y)) = y
  <2>0. EntValue(y) \in Values(Go)
    BY <1>4, <1>6, <1>7, Zenon
  <2>1. CASE \E v \in Declared(e) : e.options[v] = y
    BY <1>11, <2>0, <2>1, Zenon
  <2>2. CASE ~\E v \in Declared(e) : e.options[v] = y
    <3>1. ProtoValue(EntValue(y)) = 0
      BY <1>9, <1>12, <2>2, Zenon
    <3>2. Fits("pb", y) => y = 0
      BY <1>3, <2>2, Zenon
    <3>. QED  BY <1>9, <1>10, <2>0, <3>1, <3>2, Zenon
  <2>. QED  BY <2>1, <2>2, Zenon
<1>. QED  BY <1>1, <1>14, <1>15 DEF TripsFit

LEMMA PlainValues ==
  ASSUME field \in FieldConfs, Supported, PlainShape(conv)
  PROVE  /\ \A x : /\ ProtoValue(x) = IF conv.toProto # "" THEN Converted(x, Go, PbGo) ELSE x
                   /\ EntValue(x) = IF conv.toEnt # "" THEN Converted(x, PbGo, Go) ELSE x
         /\ Under(PbGo) = PbGo
         /\ \A s, x : {Under(Go), PbGo} \subseteq IntTypes =>
              (Fits(s, x) <=> x \in Holds(Under(Go)) /\ x \in Holds(PbGo))
         /\ \A x : ~({Under(Go), PbGo} \subseteq IntTypes) =>
              (Fits("ent", x) <=> ~(field.nillable /\ x = "nil"))
<1>1. /\ ~conv.unix /\ ~conv.toProtoConstructor /\ ~conv.toEntConstructor
      /\ conv.toProto \in {"", PbGo} /\ conv.toEnt \in {"", Go}
      /\ Go # "time.Unix" /\ Under(PbGo) = PbGo
  BY GoTyped, PbGoTyped, UnderOfNamed, Zenon DEF PlainShape, Plainly
<1>2. ASSUME NEW x
      PROVE  ProtoValue(x) = IF conv.toProto # "" THEN Converted(x, Go, PbGo) ELSE x
  <2>1. ProtoValue(x) = IF conv.toProto # "" THEN Converted(x, Go, conv.toProto) ELSE x
    BY <1>1, Zenon DEF ProtoValue
  <2>. QED  BY <1>1, <2>1, Zenon
<1>3. ASSUME NEW x
      PROVE  EntValue(x) = IF conv.toEnt # "" THEN Converted(x, PbGo, Go) ELSE x
  <2>1. EntValue(x) = IF conv.toEnt # "" THEN Converted(x, PbGo, conv.toEnt) ELSE x
    BY <1>1 DEF EntValue
  <2>. QED  BY <1>1, <2>1, Zenon
<1>4. ASSUME NEW s, NEW x, {Under(Go), PbGo} \subseteq IntTypes
      PROVE  Fits(s, x) <=> x \in Holds(Under(Go)) /\ x \in Holds(PbGo)
  BY <1>1, <1>4, Zenon DEF Fits
<1>5. ASSUME NEW x, ~({Under(Go), PbGo} \subseteq IntTypes)
      PROVE  Fits("ent", x) <=> ~(field.nillable /\ x = "nil")
  BY <1>1, <1>5, Zenon DEF Fits
<1>. QED  BY <1>1, <1>2, <1>3, <1>4, <1>5, Zenon

LEMMA PlainTrips ==
  ASSUME field \in FieldConfs, Supported, PlainShape(conv)
  PROVE  TripsFit
<1>. DEFINE u == Under(Go)
            ints == {u, PbGo} \subseteq IntTypes
<1>0. SameUnder \/ (conv.toProto # "" /\ conv.toEnt # "" /\ (BothNumbers(IntTypes) \/ BothNumbers(Floats)))
  BY Zenon DEF PlainShape
<1>1. /\ \A x : /\ ProtoValue(x) = IF conv.toProto # "" THEN Converted(x, Go, PbGo) ELSE x
                /\ EntValue(x) = IF conv.toEnt # "" THEN Converted(x, PbGo, Go) ELSE x
      /\ Under(PbGo) = PbGo
      /\ \A s, x : ints => (Fits(s, x) <=> x \in Holds(u) /\ x \in Holds(PbGo))
      /\ \A x : ~ints => (Fits("ent", x) <=> ~(field.nillable /\ x = "nil"))
  BY PlainValues, Zenon
<1>2. \A x : /\ Converted(x, Go, PbGo) = IF ints THEN Wrap(x, PbGo) ELSE x
             /\ Converted(x, PbGo, Go) = IF ints THEN Wrap(x, u) ELSE x
  <2>1. {Under(Go), Under(PbGo)} = {u, PbGo} /\ {Under(PbGo), Under(Go)} = {u, PbGo}
    BY <1>1
  <2>. QED  BY <1>1, <2>1, Zenon DEF Converted
<1>3. Values(Go) = ValuesUnder(u) /\ Values(PbGo) = ValuesUnder(PbGo)
  BY <1>1, ValuesOf, Zenon
<1>4. ~ints => \A x : ProtoValue(x) = x /\ EntValue(x) = x
  BY <1>1, <1>2, Zenon
<1>5. PbType = "[]byte" => ~ints /\ \A x : Fits("ent", x) => ~(field.nillable /\ x = "nil")
  <2>1. PbType = "[]byte" => PbGo \notin IntTypes
    <3>1. PbType = "[]byte" => ~Repeated
      BY PbTyped, ElementTypes, Zenon
    <3>2. PbType = "[]byte" => PbGo = "[]byte"
      BY <3>1, PbGoTyped
    <3>. QED  BY <3>2 DEF IntTypes, Signed, Unsigned
  <2>. QED  BY <1>1, <2>1
<1>. HIDE DEF u, ints
<1>6. ASSUME SameUnder, ints
      PROVE  TripsFit
  <2>1. u = PbGo /\ u \in IntTypes /\ Values(Go) = Holds(u) /\ Values(PbGo) = Holds(u)
    BY <1>1, <1>3, <1>6 DEF SameUnder, ValuesUnder, ints, u
  <2>2. \A x \in Holds(u) : ProtoValue(x) = x /\ EntValue(x) = x
    BY <1>1, <1>2, <1>6, <2>1, WrapSame
  <2>. QED  BY <1>4, <1>5, <1>6, <2>1, <2>2, Zenon DEF TripsFit
<1>7. ASSUME ~ints
      PROVE  TripsFit
  <2>1. Values(Go) = Values(PbGo)
    <3>1. CASE SameUnder
      BY <1>1, <1>3, <3>1 DEF SameUnder, u
    <3>2. CASE ~SameUnder
      <4>1. u \in Floats /\ PbGo \in Floats
        BY <1>0, <1>7, <3>2 DEF BothNumbers, ints, u
      <4>2. \A t \in Floats : ValuesUnder(t) = {"", "some"}
        BY DEF Floats, ValuesUnder, IntTypes, Signed, Unsigned, Literals
      <4>. QED  BY <1>3, <4>1, <4>2
    <3>. QED  BY <3>1, <3>2
  <2>. QED  BY <1>4, <1>5, <1>7, <2>1, Zenon DEF TripsFit
<1>8. ASSUME ~SameUnder, ints
      PROVE  TripsFit
  <2>1. u \in IntTypes /\ PbGo \in IntTypes
    BY <1>8 DEF ints
  <2>2. Values(Go) = Holds(u) /\ Values(PbGo) = Holds(PbGo)
    BY <1>3, <2>1 DEF ValuesUnder
  <2>3. \A x : ProtoValue(x) = Wrap(x, PbGo) /\ EntValue(x) = Wrap(x, u)
    BY <1>0, <1>1, <1>2, <1>8, Zenon
  <2>4. ASSUME NEW x \in Values(Go)
        PROVE  /\ ProtoValue(x) \in Values(PbGo)
               /\ EntValue(ProtoValue(EntValue(ProtoValue(x)))) = EntValue(ProtoValue(x))
               /\ Fits("ent", x) => EntValue(ProtoValue(x)) = x
    <3>1. x \in Holds(u) /\ x \in Int
      BY <2>1, <2>2, <2>4, WrapAdds
    <3>2. /\ Wrap(x, PbGo) \in Holds(PbGo)
          /\ Wrap(Wrap(Wrap(Wrap(x, PbGo), u), PbGo), u) = Wrap(Wrap(x, PbGo), u)
          /\ x \in Holds(PbGo) => Wrap(Wrap(x, PbGo), u) = x
      BY <2>1, <3>1, WrapAdds, WrapTwice
    <3>. QED  BY <1>1, <1>8, <2>2, <2>3, <3>2, Zenon
  <2>5. ASSUME NEW y \in Values(PbGo)
        PROVE  /\ EntValue(y) \in Values(Go)
               /\ ProtoValue(EntValue(ProtoValue(EntValue(y)))) = ProtoValue(EntValue(y))
               /\ Fits("pb", y) => ProtoValue(EntValue(y)) = y
    <3>1. y \in Holds(PbGo) /\ y \in Int
      BY <2>1, <2>2, <2>5, WrapAdds
    <3>2. /\ Wrap(y, u) \in Holds(u)
          /\ Wrap(Wrap(Wrap(Wrap(y, u), PbGo), u), PbGo) = Wrap(Wrap(y, u), PbGo)
          /\ y \in Holds(u) => Wrap(Wrap(y, u), PbGo) = y
      BY <2>1, <3>1, WrapAdds, WrapTwice
    <3>. QED  BY <1>1, <1>8, <2>2, <2>3, <3>2, Zenon
  <2>. QED  BY <1>5, <1>8, <2>4, <2>5, Zenon DEF TripsFit
<1>. QED  BY <1>6, <1>7, <1>8

\* A converter that compiles works.
LEMMA CompiledTrips ==
  ASSUME field \in FieldConfs, Supported, conv = NewConverter, Compiles(conv),
         IsEnum => SoundEnum(field.enum)
  PROVE  TripsFit
<1>1. TimeShape(conv) \/ EnumShape(conv) \/ PlainShape(conv)
  BY CompiledShape
<1>2. EnumShape(conv) => IsEnum
  BY Zenon DEF EnumShape
<1>. QED  BY <1>1, <1>2, TimeTrips, EnumTrips, PlainTrips

\* The same of the fields, where nil goes across too.
RoundTrip(v) == ToEntField(ToProtoField(v))
TripRound(m) == ToProtoField(ToEntField(m))

LEMMA FieldTrips ==
  ASSUME field \in FieldConfs, Supported, TripsFit
  PROVE  /\ \A v \in EntValues :
              /\ ToProtoField(v) \in PbValues
              /\ RoundTrip(RoundTrip(v)) = RoundTrip(v)
              /\ v = <<>> \/ Fits("ent", v[1]) => RoundTrip(v) = v
         /\ \A m \in PbValues :
              /\ ToEntField(m) \in EntValues
              /\ TripRound(TripRound(m)) = TripRound(m)
              /\ m = <<>> \/ Fits("pb", m[1]) => TripRound(m) = m
<1>. DEFINE opt == IsProto3Optional
            ptr == IsProto3OptionalPointer
            F(v) == ToProtoField(v)
            G(m) == ToEntField(m)
            P(x) == ProtoValue(x)
            E(x) == EntValue(x)
<1>1. /\ ptr => opt
      /\ opt => field.nillable
      /\ field.nillable => opt
      /\ opt /\ ~ptr => PbType = "[]byte"
  <2>1. field.nillable => ~Repeated /\ PbType # "message"
    <3>1. field.nillable => field.type # "json" /\ field.as # "message"
      BY ConvertAssumption, Zenon
    <3>. QED  BY <3>1, PbTyped, Zenon DEF Repeated
  <2>. QED  BY <2>1, Zenon DEF IsProto3OptionalPointer, IsProto3Optional
<1>2. /\ \A x \in Values(Go) :
           /\ P(x) \in Values(PbGo) /\ E(P(E(P(x)))) = E(P(x))
           /\ Fits("ent", x) => E(P(x)) = x
      /\ \A y \in Values(PbGo) :
           /\ E(y) \in Values(Go) /\ P(E(P(E(y)))) = P(E(y))
           /\ Fits("pb", y) => P(E(y)) = y
      /\ opt /\ ~ptr => \A x : /\ P(x) = x /\ E(x) = x
                               /\ Fits("ent", x) => x # "nil"
  BY <1>1, Zenon DEF TripsFit
<1>3. Zero(PbGo) \in Values(PbGo) /\ (opt /\ ~ptr => Zero(PbGo) = "nil")
  <2>1. ASSUME opt, ~ptr
        PROVE  Zero(PbGo) = "nil"
    <3>1. PbType = "[]byte" /\ ~Repeated
      BY <1>1, <2>1 DEF IsProto3Optional
    <3>2. PbGo = "[]byte"
      BY <3>1, PbGoTyped, Zenon
    <3>3. Under(PbGo) = "[]byte"
      BY <3>2, UnderOfNamed, Zenon DEF Predeclared
    <3>. QED  BY <3>3 DEF Zero, Literals, IntTypes, Signed, Unsigned
  <2>. QED  BY <2>1, ValuesOf
<1>4. /\ EntValues = {<<x>> : x \in Values(Go)} \cup (IF opt THEN {<<>>} ELSE {})
      /\ PbValues = {<<y>> : y \in Values(PbGo)} \cup (IF ptr THEN {<<>>} ELSE {})
  BY <1>1, Zenon DEF EntValues, PbValues
<1>5. \A v : F(v) = IF v # <<>> THEN <<P(v[1])>> ELSE IF ptr THEN <<>> ELSE <<Zero(PbGo)>>
  BY Zenon DEF ToProtoField
<1>6. \A m : G(m) = IF opt /\ m = (IF ptr THEN <<>> ELSE <<"nil">>) THEN <<>> ELSE <<E(m[1])>>
  BY Zenon DEF ToEntField, Absent
<1>. HIDE DEF opt, ptr, F, G, P, E
<1>7. \A x, y : <<x>> # <<>> /\ <<x>>[1] = x /\ (<<x>> = <<y>> <=> x = y)
  OBVIOUS
<1>8. /\ ptr => F(<<>>) = <<>> /\ G(<<>>) = <<>>
      /\ opt /\ ~ptr => F(<<>>) = <<"nil">> /\ G(<<"nil">>) = <<>>
  BY <1>1, <1>3, <1>5, <1>6, <1>7
<1>9. \A x : F(<<x>>) = <<P(x)>>
  BY <1>5, <1>7
<1>10. \A y : ~(opt /\ ~ptr /\ y = "nil") => G(<<y>>) = <<E(y)>>
  BY <1>6, <1>7
<1>11. ASSUME NEW v \in EntValues
       PROVE  /\ F(v) \in PbValues
              /\ G(F(G(F(v)))) = G(F(v))
              /\ v = <<>> \/ Fits("ent", v[1]) => G(F(v)) = v
  <2>1. CASE v = <<>>
    <3>1. opt
      BY <1>4, <1>7, <2>1
    <3>2. F(v) \in PbValues
      BY <1>3, <1>4, <1>8, <2>1, <3>1
    <3>. QED  BY <1>8, <2>1, <3>1, <3>2, Zenon
  <2>2. CASE v # <<>>
    <3>1. PICK x \in Values(Go) : v = <<x>>
      BY <1>4, <2>2
    <3>2. F(v) = <<P(x)>> /\ P(x) \in Values(PbGo) /\ F(v) \in PbValues /\ v[1] = x
      BY <1>2, <1>4, <1>7, <1>9, <3>1
    <3>3. CASE opt /\ ~ptr /\ P(x) = "nil"
      <4>1. P(x) = x
        BY <1>2, <3>3
      <4>2. F(v) = <<"nil">> /\ G(F(v)) = <<>> /\ G(F(<<>>)) = <<>>
        BY <1>8, <3>2, <3>3, Zenon
      <4>3. ~Fits("ent", x)
        BY <1>2, <3>3, <4>1
      <4>. QED  BY <2>2, <3>2, <4>2, <4>3, Zenon
    <3>4. CASE ~(opt /\ ~ptr /\ P(x) = "nil")
      <4>1. G(F(v)) = <<E(P(x))>>
        BY <1>10, <3>2, <3>4
      <4>2. F(G(F(v))) = <<P(E(P(x)))>>
        BY <1>9, <4>1
      <4>3. ~(opt /\ ~ptr /\ P(E(P(x))) = "nil")
        BY <1>2, <3>4
      <4>4. G(F(G(F(v)))) = <<E(P(E(P(x))))>>
        BY <1>10, <4>2, <4>3
      <4>. QED  BY <1>2, <2>2, <3>1, <3>2, <4>1, <4>4
    <3>. QED  BY <3>3, <3>4
  <2>. QED  BY <2>1, <2>2
<1>12. ASSUME NEW m \in PbValues
       PROVE  /\ G(m) \in EntValues
              /\ F(G(F(G(m)))) = F(G(m))
              /\ m = <<>> \/ Fits("pb", m[1]) => F(G(m)) = m
  <2>1. CASE m = <<>>
    <3>1. ptr /\ opt
      BY <1>1, <1>4, <1>7, <2>1
    <3>. QED  BY <1>4, <1>8, <2>1, <3>1
  <2>2. CASE m # <<>>
    <3>1. PICK y \in Values(PbGo) : m = <<y>>
      BY <1>4, <2>2
    <3>2. CASE opt /\ ~ptr /\ y = "nil"
      <4>1. G(m) = <<>> /\ F(G(m)) = m /\ <<>> \in EntValues
        BY <1>4, <1>8, <3>1, <3>2
      <4>. QED  BY <4>1, Zenon
    <3>3. CASE ~(opt /\ ~ptr /\ y = "nil")
      <4>1. G(m) = <<E(y)>> /\ E(y) \in Values(Go) /\ G(m) \in EntValues /\ m[1] = y
        BY <1>2, <1>4, <1>7, <1>10, <3>1, <3>3
      <4>2. F(G(m)) = <<P(E(y))>>
        BY <1>9, <4>1
      <4>3. ~(opt /\ ~ptr /\ P(E(y)) = "nil")
        BY <1>2, <3>3
      <4>4. G(F(G(m))) = <<E(P(E(y)))>>
        BY <1>10, <4>2, <4>3
      <4>5. F(G(F(G(m)))) = <<P(E(P(E(y))))>>
        BY <1>9, <4>4
      <4>. QED  BY <1>2, <2>2, <3>1, <4>1, <4>2, <4>5
    <3>. QED  BY <3>2, <3>3
  <2>. QED  BY <2>1, <2>2
<1>. QED  BY <1>11, <1>12, Zenon DEF F, G, RoundTrip, TripRound

-----------------------------------------------------------------------------
(* A value on its way across.                                                *)

SideAt(s, i) == IF i % 2 = 1 THEN s ELSE IF s = "ent" THEN "pb" ELSE "ent"
SideValues(s) == IF s = "ent" THEN EntValues ELSE PbValues
Across(s, v) == IF s = "ent" THEN ToProtoField(v) ELSE ToEntField(v)

\* The values that a walk from side s has come by.
Walk(s, vs) ==
  /\ s \in {"ent", "pb"} /\ vs \in Seq(EntValues \cup PbValues)
  /\ \A i \in 1..Len(vs) : vs[i] \in SideValues(SideAt(s, i))
  /\ \A i \in 1..(Len(vs) - 1) : vs[i + 1] = Across(SideAt(s, i), vs[i])

LEMMA Sides ==
  ASSUME NEW s \in {"ent", "pb"}, NEW i \in Nat
  PROVE  /\ SideAt(s, 1) = s /\ SideAt(s, i) \in {"ent", "pb"}
         /\ SideAt(s, i + 1) = (IF SideAt(s, i) = "ent" THEN "pb" ELSE "ent")
         /\ SideAt(s, i + 2) = SideAt(s, i)
<1>1. i % 2 = 0 \/ i % 2 = 1
  OBVIOUS
<1>2. i % 2 = 1 => (i + 1) % 2 = 0 /\ (i + 2) % 2 = 1
  OBVIOUS
<1>3. i % 2 = 0 => (i + 1) % 2 = 1 /\ (i + 2) % 2 = 0
  OBVIOUS
<1>. QED  BY <1>1, <1>2, <1>3 DEF SideAt

LEMMA WalkOn ==
  ASSUME field \in FieldConfs, Supported, TripsFit,
         NEW s, NEW vs, Walk(s, vs), Len(vs) >= 1
  PROVE  Walk(s, Append(vs, Across(SideAt(s, Len(vs)), vs[Len(vs)])))
<1>. DEFINE n == Len(vs)
            x == Across(SideAt(s, n), vs[n])
            ws == Append(vs, x)
            U == EntValues \cup PbValues
<1>1. /\ s \in {"ent", "pb"} /\ vs \in Seq(U) /\ n \in Nat /\ n >= 1
      /\ \A i \in 1..n : vs[i] \in SideValues(SideAt(s, i))
      /\ \A i \in 1..(n - 1) : vs[i + 1] = Across(SideAt(s, i), vs[i])
  BY Zenon, LenProperties DEF Walk
<1>2. x \in SideValues(SideAt(s, n + 1))
  <2>1. vs[n] \in SideValues(SideAt(s, n))
    BY <1>1
  <2>2. CASE SideAt(s, n) = "ent"
    <3>1. SideAt(s, n + 1) = "pb"
      BY <1>1, <2>2, Sides
    <3>. QED  BY <2>1, <2>2, <3>1, FieldTrips DEF SideValues, Across
  <2>3. CASE SideAt(s, n) = "pb"
    <3>1. SideAt(s, n + 1) = "ent"
      BY <1>1, <2>3, Sides
    <3>. QED  BY <2>1, <2>3, <3>1, FieldTrips DEF SideValues, Across
  <2>. QED  BY <1>1, <2>2, <2>3, Sides
<1>3. x \in U
  BY <1>2, Zenon DEF SideValues
<1>. HIDE DEF n, x, U
<1>4. /\ ws \in Seq(U) /\ Len(ws) = n + 1 /\ ws[n + 1] = x
      /\ \A i \in 1..n : ws[i] = vs[i]
  BY <1>1, <1>3, AppendProperties DEF n
<1>. HIDE DEF ws
<1>5. \A i \in 1..Len(ws) : ws[i] \in SideValues(SideAt(s, i))
  <2>1. \A i \in 1..(n + 1) : i \in 1..n \/ i = n + 1
    BY <1>1
  <2>. QED  BY <1>1, <1>2, <1>4, <2>1
<1>6. \A i \in 1..(Len(ws) - 1) : ws[i + 1] = Across(SideAt(s, i), ws[i])
  <2>1. \A i \in 1..(n + 1 - 1) : i \in 1..n /\ ((i \in 1..(n - 1) /\ i + 1 \in 1..n) \/ i = n)
    BY <1>1
  <2>2. x = Across(SideAt(s, n), vs[n])
    BY DEF x
  <2>. QED  BY <1>1, <1>4, <2>1, <2>2
<1>7. Walk(s, ws)
  BY <1>1, <1>4, <1>5, <1>6 DEF Walk, U
<1>. QED  BY <1>7 DEF ws, x, n

LEMMA WalkReturns ==
  ASSUME field \in FieldConfs, Supported, TripsFit, NEW s, NEW vs, Walk(s, vs)
  PROVE  /\ Len(vs) >= 3 /\ (vs[1] = <<>> \/ Fits(s, vs[1][1])) => vs[3] = vs[1]
         /\ Len(vs) >= 5 => vs[5] = vs[3]
<1>. DEFINE There(v) == IF s = "ent" THEN RoundTrip(v) ELSE TripRound(v)
<1>1. /\ s \in {"ent", "pb"} /\ Len(vs) \in Nat
      /\ \A i \in 1..Len(vs) : vs[i] \in SideValues(SideAt(s, i))
      /\ \A i \in 1..(Len(vs) - 1) : vs[i + 1] = Across(SideAt(s, i), vs[i])
  BY Zenon, LenProperties DEF Walk
<1>2. /\ SideAt(s, 1) = s /\ SideAt(s, 3) = s
      /\ SideAt(s, 2) = (IF s = "ent" THEN "pb" ELSE "ent")
      /\ SideAt(s, 4) = (IF s = "ent" THEN "pb" ELSE "ent")
  BY DEF SideAt
<1>3. ASSUME Len(vs) >= 3
      PROVE  vs[1] \in SideValues(s) /\ vs[3] = There(vs[1])
  <2>1. vs[2] = Across(SideAt(s, 1), vs[1]) /\ vs[3] = Across(SideAt(s, 2), vs[2])
    <3>1. 1 \in 1..(Len(vs) - 1) /\ 2 \in 1..(Len(vs) - 1) /\ 1 + 1 = 2 /\ 2 + 1 = 3
      BY <1>1, <1>3
    <3>. QED  BY <1>1, <3>1
  <2>2. vs[1] \in SideValues(s)
    BY <1>1, <1>2, <1>3
  <2>. QED  BY <1>1, <1>2, <2>1, <2>2 DEF Across, RoundTrip, TripRound
<1>4. ASSUME Len(vs) >= 5
      PROVE  vs[5] = There(vs[3])
  <2>1. vs[4] = Across(SideAt(s, 3), vs[3]) /\ vs[5] = Across(SideAt(s, 4), vs[4])
    <3>1. 3 \in 1..(Len(vs) - 1) /\ 4 \in 1..(Len(vs) - 1) /\ 3 + 1 = 4 /\ 4 + 1 = 5
      BY <1>1, <1>4
    <3>. QED  BY <1>1, <3>1
  <2>. QED  BY <1>1, <1>2, <2>1 DEF Across, RoundTrip, TripRound
<1>5. ASSUME NEW v \in SideValues(s)
      PROVE  There(There(v)) = There(v) /\ (v = <<>> \/ Fits(s, v[1]) => There(v) = v)
  <2>1. CASE s = "ent"
    BY <1>5, <2>1, FieldTrips, Zenon DEF SideValues
  <2>2. CASE s = "pb"
    BY <1>5, <2>2, FieldTrips DEF SideValues
  <2>. QED  BY <1>1, <2>1, <2>2
<1>. HIDE DEF There
<1>6. Len(vs) >= 5 => Len(vs) >= 3
  BY <1>1
<1>. QED  BY <1>3, <1>4, <1>5, <1>6, Zenon

\* While the field and its converter stay, so do the values and the functions.
LEMMA SameField ==
  ASSUME field' = field, conv' = conv
  PROVE  /\ EntValues' = EntValues /\ PbValues' = PbValues
         /\ \A v : ToProtoField(v)' = ToProtoField(v) /\ ToEntField(v)' = ToEntField(v)
<1>1. PbType' = PbType /\ Go' = Go
  BY Zenon DEF PbType, Go
<1>2. Repeated' <=> Repeated
  BY Zenon DEF Repeated
<1>3. PbGo' = PbGo
  BY <1>1, <1>2 DEF PbGo
<1>4. (IsProto3Optional' <=> IsProto3Optional) /\ (IsProto3OptionalPointer' <=> IsProto3OptionalPointer)
  BY <1>1, <1>2, Zenon DEF IsProto3Optional, IsProto3OptionalPointer
<1>5. EntValues' = EntValues
  BY <1>1, Zenon DEF EntValues
<1>6. PbValues' = PbValues
  BY <1>3, <1>4 DEF PbValues
<1>7. ASSUME NEW x
      PROVE  ProtoValue(x)' = ProtoValue(x) /\ EntValue(x)' = EntValue(x)
  BY <1>1, <1>3 DEF ProtoValue, EntValue
<1>8. ASSUME NEW v
      PROVE  ToProtoField(v)' = ToProtoField(v) /\ ToEntField(v)' = ToEntField(v)
  BY <1>3, <1>4, <1>7 DEF ToProtoField, ToEntField, Absent
<1>. QED  BY <1>5, <1>6, <1>8

LEMMA SameWalk ==
  ASSUME field' = field, conv' = conv, Walk(trail'.side, trail'.values)
  PROVE  Walk(trail.side, trail.values)'
BY SameField DEF Walk, SideValues, Across, SideAt

\* And what is made of the field.
LEMMA SameVerdicts ==
  ASSUME field' = field
  PROVE  /\ (Supported' <=> Supported) /\ (ShapeFits' <=> ShapeFits) /\ (Maps' <=> Maps)
         /\ NewConverter' = NewConverter
         /\ conv' = conv => (Compiles(conv)' <=> Compiles(conv))
         /\ (InTable' <=> InTable) /\ (ConvertsItself' <=> ConvertsItself) /\ (IsEnum' <=> IsEnum)
<1>1. PbType' = PbType /\ Go' = Go /\ Has' = Has
  BY Zenon DEF PbType, Go, Has
<1>2. /\ Repeated' <=> Repeated
      /\ Supported' <=> Supported
      /\ Valuer' <=> Valuer
      /\ ValueScanner' <=> ValueScanner
      /\ Marshaler' <=> Marshaler
      /\ IsEnum' <=> IsEnum
  BY <1>1, Zenon DEF Repeated, Supported, Valuer, ValueScanner, Marshaler, IsEnum
<1>3. PbGo' = PbGo
  BY <1>1, <1>2 DEF PbGo
<1>4. (IsProto3Optional' <=> IsProto3Optional) /\ (IsProto3OptionalPointer' <=> IsProto3OptionalPointer)
  BY <1>1, <1>2, Zenon DEF IsProto3Optional, IsProto3OptionalPointer
<1>5. ShapeFits' <=> ShapeFits
  BY <1>1, Zenon DEF ShapeFits
<1>6. Case' = Case
  BY <1>2 DEF Case
<1>7. Basis' = Basis
  <2>1. BasicTypeConversion' = BasicTypeConversion
    BY <1>1, <1>2, Zenon DEF BasicTypeConversion, Nothing
  <2>. QED  BY <1>1, <2>1, Zenon DEF Basis, Nothing
<1>8. NewConverter' = NewConverter
  BY <1>1, <1>6, <1>7 DEF NewConverter, Nothing
<1>9. Maps' <=> Maps
  BY <1>1, <1>6, <1>8, Zenon DEF Maps, Renderable
<1>10. ASSUME conv' = conv
       PROVE  Compiles(conv)' <=> Compiles(conv)
  <2>1. ToProtoCompiles(conv)' <=> ToProtoCompiles(conv)
    BY <1>1, <1>3, <1>4, <1>10, Zenon DEF ToProtoCompiles
  <2>2. ToEntCompiles(conv)' <=> ToEntCompiles(conv)
    BY <1>1, <1>3, <1>4, <1>10, Zenon DEF ToEntCompiles
  <2>. QED  BY <2>1, <2>2, Zenon DEF Compiles
<1>11. (InTable' <=> InTable) /\ (ConvertsItself' <=> ConvertsItself)
  BY <1>1, <1>2, Zenon DEF InTable, ConvertsItself
<1>. QED  BY <1>2, <1>5, <1>8, <1>9, <1>10, <1>11, Zenon

-----------------------------------------------------------------------------
(* What the documentation promises.                                          *)

\* The parts of a field that the documentation allows, by its type.
LEMMA Allowed ==
  ASSUME field \in FieldConfs, InTable
  PROVE  /\ field.type \notin {"other", "uuid"} /\ ~Valuer /\ ~ValueScanner /\ ~Marshaler
         /\ field.variable = "other"
         /\ \/ field.as = "message" /\ field.go = "*Message"
            \/ field.as \in IntTypes /\ field.type \in IntTypes
            \/ field.as = ""
         /\ field.as # "message" =>
              /\ field.go = "" \/ field.type = "json" \/ (field.type \in NumericTypes \ {"float64"} /\ Under(field.go) = field.type)
              /\ field.type = "json" => field.go \in Lists
              /\ field.id => field.type \in {"string"} \cup NumericTypes
<1>1. /\ field.type # "other" /\ Has = {} /\ field.variable = "other"
      /\ IF field.as = "message" THEN field.go = "*Message"
         ELSE /\ field.as # "" => {field.type, field.as} \subseteq IntTypes
              /\ \/ field.go = ""
                 \/ field.type = "json" /\ field.go \in DOMAIN Elements
                 \/ field.type \in NumericTypes \ {"float64"} /\ Under(field.go) = field.type
              /\ field.id => field.type \in {"string"} \cup NumericTypes
  BY Zenon DEF InTable
<1>2. /\ field.type \in {"uuid", "json", "other"} => field.go # ""
      /\ field.type = "uuid" => "value" \in Named[field.go].methods
  BY ConvertAssumption, Zenon
<1>3. ~Valuer /\ ~ValueScanner /\ ~Marshaler
  BY <1>1, Zenon DEF Valuer, ValueScanner, Marshaler
<1>4. field.type # "uuid"
  BY <1>1, <1>2, Zenon DEF Has
<1>5. field.as # "message" /\ field.type = "json" => field.go \in Lists
  <2>1. "json" \notin NumericTypes
    BY DEF NumericTypes, IntTypes, Signed, Unsigned, Floats
  <2>. QED  BY <1>1, <1>2, <2>1, ElementTypes, Zenon
<1>. QED  BY <1>1, <1>3, <1>4, <1>5, Zenon

LEMMA DocumentedMessage ==
  ASSUME field \in FieldConfs, InTable, field.as = "message"
  PROVE  Supported /\ ShapeFits /\ Maps /\ Compiles(NewConverter)
<1>1. field.go = "*Message" /\ field.variable = "other"
  BY Zenon DEF InTable
<1>2. Supported /\ PbType = "message" /\ ~Repeated
  BY Zenon DEF Supported, PbType, PbTypeOf, Repeated
<1>3. Maps /\ NewConverter = Nothing
  BY <1>2, Zenon DEF Maps, NewConverter
<1>4. Go = "*Message" /\ "*Message" \in DOMAIN Named
  BY <1>1, GoTyped
<1>5. ShapeFits
  <2>1. "*Message" \in Literals
    BY DEF Literals
  <2>2. Named["*Message"].name = "*Message"
    BY <1>4, <2>1, GoAssumption, Zenon
  <2>. QED  BY <1>1, <2>2 DEF ShapeFits
<1>6. PbGo = "*Message"
  BY <1>2 DEF PbGo
<1>7. ~Nothing.unix /\ ~Nothing.toProtoConstructor /\ ~Nothing.toEntConstructor
      /\ Nothing.toProto = "" /\ Nothing.toEnt = ""
  BY Zenon DEF Nothing
<1>8. ~field.nillable /\ ~IsProto3OptionalPointer
  <2>1. field.nillable => field.as # "message"
    BY ConvertAssumption, Zenon
  <2>. QED  BY <1>2, <2>1, Zenon DEF IsProto3OptionalPointer, IsProto3Optional
<1>9. Convertible(Go, Go) /\ Assignable(Go, Go)
  BY Zenon DEF Convertible, Assignable
<1>10. ToProtoCompiles(Nothing)
  BY <1>1, <1>4, <1>6, <1>7, <1>8, <1>9, Zenon DEF ToProtoCompiles
<1>11. ToEntCompiles(Nothing)
  BY <1>4, <1>6, <1>7, <1>8, <1>9, Zenon DEF ToEntCompiles
<1>. QED  BY <1>2, <1>3, <1>5, <1>10, <1>11, Zenon DEF Compiles

\* What a converter without constructors needs.
LEMMA PlainCompiles ==
  ASSUME NEW c, Plainly(c), c.toEnt # "time.Unix", field.variable = "other",
         LET type == IF c.toProto # "" THEN c.toProto ELSE Go
         IN  Convertible(Go, type) /\ type = PbGo,
         LET type == IF c.toEnt # "" THEN c.toEnt ELSE PbGo
         IN  Convertible(PbGo, type) /\ type = Go
  PROVE  Compiles(c)
<1>1. ToProtoCompiles(c)
  BY Zenon DEF ToProtoCompiles, Plainly, Assignable
<1>2. ToEntCompiles(c)
  BY DEF ToEntCompiles, Plainly, Assignable
<1>. QED  BY <1>1, <1>2 DEF Compiles

\* No message, no methods: everything is known of the converter.
LEMMA AllowedConverter ==
  ASSUME field \in FieldConfs, InTable, field.as # "message", Supported
  PROVE  /\ PbType # "message" /\ ShapeFits /\ Case # "methods"
         /\ PbType # "sint64" /\ (Maps <=> Case # "none")
         /\ field.type = "json" <=> Repeated
<1>1. /\ ~Valuer /\ ~ValueScanner /\ ~Marshaler
      /\ field.as \in IntTypes \/ field.as = ""
      /\ field.as \in IntTypes => field.type \in IntTypes
  <2>1. "" \notin IntTypes
    BY DEF IntTypes, Signed, Unsigned
  <2>. QED  BY <2>1, Allowed, Zenon
<1>2. PbType # "message" /\ ShapeFits
  BY PbTyped, Zenon DEF ShapeFits
<1>3. Case # "methods"
  BY <1>1, Cases
<1>4. ~NewConverter.unrendered
  <2>1. ~Basis.unrendered
    BY <1>1, BasisIs
  <2>. QED  BY <1>2, <1>3, <2>1, ConverterIs
<1>5. PbType # "sint64"
  <2>1. CASE field.as \in IntTypes
    BY <2>1 DEF PbType, PbTypeOf, IntTypes, Signed, Unsigned
  <2>2. CASE field.as = "" /\ field.type = "json"
    BY <2>2, PbTyped, ElementTypes DEF Repeated
  <2>3. CASE field.as = "" /\ field.type # "json"
    BY <2>3, MappedTypes, Zenon DEF PbType, PbTypeOf, Supported
  <2>. QED  BY <1>1, <2>1, <2>2, <2>3
<1>6. field.type = "json" <=> Repeated
  <2>1. "json" \notin IntTypes
    BY DEF IntTypes, Signed, Unsigned
  <2>. QED  BY <1>1, <2>1, Zenon DEF Repeated
<1>. QED  BY <1>2, <1>3, <1>4, <1>5, <1>6, Zenon DEF Maps

LEMMA DocumentedNumber ==
  ASSUME field \in FieldConfs, InTable, field.as # "message", field.type \in NumericTypes
  PROVE  Supported /\ ShapeFits /\ Maps /\ Compiles(NewConverter)
<1>1. /\ ~Valuer /\ ~ValueScanner /\ ~Marshaler /\ field.variable = "other"
      /\ field.as \in IntTypes \/ field.as = ""
      /\ field.as \in IntTypes => field.type \in IntTypes
      /\ field.type # "json"
      /\ field.go = "" \/ (field.type # "float64" /\ Under(field.go) = field.type)
  <2>1. field.type # "json" /\ "" \notin IntTypes
    BY DEF NumericTypes, IntTypes, Signed, Unsigned, Floats
  <2>. QED  BY <2>1, Allowed, Zenon
<1>2. Supported
  BY MappedTypes, Zenon DEF Supported
<1>3. /\ PbType # "message" /\ ShapeFits /\ Case \notin {"methods", "none"} /\ Maps /\ ~Repeated
      /\ PbType # "sint64" /\ Case \in {"id", "numeric"}
  <2>1. field.type \notin {"uuid", "other", "json"}
    BY DEF NumericTypes, IntTypes, Signed, Unsigned, Floats
  <2>2. Case \in {"id", "numeric"}
    BY <1>1, Cases
  <2>. QED  BY <1>1, <1>2, <2>2, AllowedConverter
<1>4. PbGo = PbType
  BY <1>2, <1>3, PbGoTyped, Zenon
<1>5. PbType \in NumericTypes /\ (PbType = "float64" => field.type = "float64")
  <2>1. CASE field.as \in IntTypes
    <3>1. PbType = field.as
      BY <2>1 DEF PbType, PbTypeOf, IntTypes, Signed, Unsigned
    <3>. QED  BY <2>1, <3>1 DEF NumericTypes, IntTypes, Signed, Unsigned
  <2>2. CASE field.as = ""
    <3>1. PbType = TypeMap[field.type]
      BY <1>1, <2>2, Zenon DEF PbType, PbTypeOf
    <3>2. \A t \in NumericTypes : TypeMap[t] = "float64" => t = "float64"
      BY DEF TypeMap, NumericTypes, IntTypes, Signed, Unsigned, Floats
    <3>. QED  BY <3>1, <3>2, MappedTypes
  <2>. QED  BY <1>1, <2>1, <2>2
<1>6. /\ Under(Go) = field.type /\ Go \notin {"", "time.Unix"}
      /\ field.type = "float64" => Go = "float64"
  <2>1. CASE field.go = ""
    <3>1. Go = field.type
      BY <2>1, GoTyped, EntTypes, Zenon
    <3>2. Under(Go) = field.type
      BY <3>1, UnderOfNamed, Zenon DEF Predeclared
    <3>. QED  BY <3>1, <3>2, GoTyped, Zenon
  <2>2. CASE field.go # ""
    BY <1>1, <2>2, GoTyped, Zenon
  <2>. QED  BY <2>1, <2>2
<1>7. PbType \in {"int32", "int64", "uint32", "uint64", "float32", "float64"}
  BY <1>2, <1>5, PbTyped DEF PbTypes, NumericTypes, IntTypes, Signed, Unsigned, Floats
<1>8. Basis.toProto = IF Go # PbType THEN PbType ELSE ""
  <2>1. BasicToProto = IF Go # PbType THEN PbType ELSE ""
    BY <1>1, <1>5, <1>6, <1>7 DEF BasicToProto
  <2>. QED  BY <1>7, <2>1, BasisIs
<1>. DEFINE c == NewConverter
<1>9. c.toProto = Basis.toProto /\ c.toEnt = Go /\ Plainly(c)
  <2>1. c.toProto = Basis.toProto /\ c.toEnt = Go
    BY <1>3, ConverterIs
  <2>2. ~c.unix /\ ~c.toProtoConstructor /\ ~c.toEntConstructor
    BY <1>3, <1>7, ConverterIs
  <2>. QED  BY <2>1, <2>2, Zenon DEF Plainly
<1>10. Convertible(Go, PbGo) /\ Convertible(PbGo, Go) /\ Convertible(Go, Go)
  <2>1. Under(PbGo) = PbType
    BY <1>4, <1>5, UnderOfNamed, Zenon DEF Predeclared
  <2>. QED  BY <1>5, <1>6, <2>1 DEF Convertible
<1>. HIDE DEF c
<1>11. Compiles(c)
  <2>1. (IF c.toProto # "" THEN c.toProto ELSE Go) = PbGo
    BY <1>4, <1>7, <1>8, <1>9
  <2>2. (IF c.toEnt # "" THEN c.toEnt ELSE PbGo) = Go
    BY <1>6, <1>9
  <2>. QED  BY <1>1, <1>6, <1>9, <1>10, <2>1, <2>2, PlainCompiles
<1>. QED  BY <1>2, <1>3, <1>11 DEF c

LEMMA DocumentedList ==
  ASSUME field \in FieldConfs, InTable, field.as # "message", field.type = "json"
  PROVE  Supported /\ ShapeFits /\ Maps /\ Compiles(NewConverter)
<1>1. /\ field.go \in Lists /\ field.variable = "other" /\ ~field.id
      /\ ~Valuer /\ ~ValueScanner /\ ~Marshaler
  <2>1. "json" \notin {"string"} \cup NumericTypes
    BY DEF NumericTypes, IntTypes, Signed, Unsigned, Floats
  <2>. QED  BY <2>1, Allowed, Zenon
<1>2. Supported
  BY <1>1, ElementTypes, Zenon DEF Supported
<1>3. PbType # "message" /\ ShapeFits /\ Case = "json" /\ Maps /\ Repeated
  BY <1>1, <1>2, AllowedConverter, Cases
<1>4. PbGo = Go /\ Go # "" /\ Go # "time.Unix"
  <2>1. field.go # ""
    BY <1>1 DEF Lists
  <2>. QED  BY <1>2, <1>3, <2>1, PbGoTyped, GoTyped, Zenon
<1>5. PbType # "Enum" /\ (field.go = "[]string" => PbType = "string")
  BY <1>1, <1>2, <1>3, PbTyped, ElementTypes
<1>. DEFINE c == NewConverter
<1>6. c.toProto = "" /\ c.toEnt = "" /\ Plainly(c)
  <2>1. field.go = "[]string" => BasicToProto = ""
    BY <1>5 DEF BasicToProto
  <2>2. c.toProto = "" /\ c.toEnt = ""
    BY <1>3, <1>5, <2>1, BasisIs, ConverterIs
  <2>3. ~c.unix /\ ~c.toProtoConstructor /\ ~c.toEntConstructor
    BY <1>3, <1>5, ConverterIs
  <2>. QED  BY <2>2, <2>3, Zenon DEF Plainly
<1>7. Convertible(Go, Go)
  BY Zenon DEF Convertible
<1>. HIDE DEF c
<1>8. Compiles(c)
  BY <1>1, <1>4, <1>6, <1>7, PlainCompiles
<1>. QED  BY <1>2, <1>3, <1>8 DEF c

LEMMA DocumentedSame ==
  ASSUME field \in FieldConfs, InTable, field.as # "message",
         field.type \in {"bool", "string", "bytes"}
  PROVE  Supported /\ ShapeFits /\ Maps /\ Compiles(NewConverter)
<1>1. /\ field.go = "" /\ field.as = "" /\ field.variable = "other"
      /\ field.id => field.type = "string"
      /\ ~Valuer /\ ~ValueScanner /\ ~Marshaler
  <2>1. /\ "bool" \notin NumericTypes /\ "string" \notin NumericTypes /\ "bytes" \notin NumericTypes
        /\ "bool" \notin IntTypes /\ "string" \notin IntTypes /\ "bytes" \notin IntTypes
    BY DEF NumericTypes, IntTypes, Signed, Unsigned, Floats
  <2>2. field.type # "json" /\ field.type \notin NumericTypes /\ field.type \notin IntTypes
    BY <2>1
  <2>. QED  BY <2>1, <2>2, Allowed, Zenon
<1>2. Supported /\ PbType = TypeMap[field.type]
  <2>1. field.type # "json"
    OBVIOUS
  <2>. QED  BY <1>1, <2>1, MappedTypes, Zenon DEF Supported, PbType, PbTypeOf
<1>3. /\ PbType # "message" /\ ShapeFits /\ Case \in {"id", "same"} /\ Maps /\ ~Repeated
      /\ PbType # "sint64"
  <2>1. Case \in {"id", "same"}
    BY <1>1, Cases
  <2>. QED  BY <1>2, <2>1, AllowedConverter
<1>4. PbGo = PbType /\ Go = PbType /\ PbType \in {"bool", "string", "[]byte"}
  <2>1. PbType = EntGo[field.type] /\ PbType \in {"bool", "string", "[]byte"}
    BY <1>2, MappedTypes, EntTypes
  <2>. QED  BY <1>1, <1>2, <1>3, <2>1, PbGoTyped, GoTyped, Zenon
<1>. DEFINE c == NewConverter
<1>6. c.toProto = "" /\ c.toEnt \in {"", Go} /\ Plainly(c)
  <2>1. BasicToProto = ""
    BY <1>4 DEF BasicToProto
  <2>2. c.toProto = "" /\ c.toEnt \in {"", Go}
    BY <1>3, <1>4, <2>1, BasisIs, ConverterIs
  <2>3. ~c.unix /\ ~c.toProtoConstructor /\ ~c.toEntConstructor
    BY <1>3, <1>4, ConverterIs
  <2>. QED  BY <2>2, <2>3, Zenon DEF Plainly
<1>7. Convertible(Go, Go)
  BY Zenon DEF Convertible
<1>. HIDE DEF c
<1>8. Compiles(c)
  BY <1>1, <1>4, <1>6, <1>7, PlainCompiles
<1>. QED  BY <1>2, <1>3, <1>8 DEF c

LEMMA DocumentedConstructors ==
  ASSUME field \in FieldConfs, InTable, field.as # "message", field.type \in {"time", "enum"}
  PROVE  Supported /\ ShapeFits /\ Maps /\ Compiles(NewConverter)
<1>1. /\ field.go = "" /\ field.as = "" /\ field.variable = "other" /\ ~field.id
      /\ ~Valuer /\ ~ValueScanner /\ ~Marshaler
  <2>1. /\ field.type # "json" /\ field.type # "string" /\ field.type \notin NumericTypes
        /\ field.type \notin IntTypes
    BY DEF NumericTypes, IntTypes, Signed, Unsigned, Floats
  <2>. QED  BY <2>1, Allowed, Zenon
<1>2. Supported /\ PbType = TypeMap[field.type]
  <2>1. field.type # "json"
    OBVIOUS
  <2>. QED  BY <1>1, <2>1, MappedTypes, Zenon DEF Supported, PbType, PbTypeOf
<1>3. /\ PbType # "message" /\ ShapeFits /\ Case = field.type /\ Maps /\ ~Repeated
      /\ PbType # "sint64"
  <2>1. Case = field.type
    BY <1>1, Cases
  <2>. QED  BY <1>2, <2>1, AllowedConverter
<1>4. /\ PbGo = PbType /\ Go = EntGo[field.type]
      /\ field.type = "time" => PbType = "int64" /\ Go = "time.Time"
      /\ field.type = "enum" => PbType = "Enum" /\ Go = "Status"
  <2>1. PbGo = PbType /\ Go = EntGo[field.type]
    BY <1>1, <1>2, <1>3, PbGoTyped, GoTyped, Zenon
  <2>2. field.type = "enum" => PbType = "Enum"
    BY <1>2, PbTyped, Zenon DEF IsEnum
  <2>3. /\ field.type = "time" => PbType = "int64" /\ Go = "time.Time"
        /\ field.type = "enum" => Go = "Status"
    BY <1>2, <2>1, MappedTypes, EntTypes
  <2>. QED  BY <2>1, <2>2, <2>3
<1>. DEFINE c == NewConverter
<1>5. CASE field.type = "time"
  <2>1. /\ c.toEnt = "time.Unix" /\ c.unix /\ ~c.toProtoConstructor /\ ~c.toEntConstructor
    BY <1>3, <1>4, <1>5, ConverterIs
  <2>. HIDE DEF c
  <2>2. ToProtoCompiles(c)
    BY <1>1, <1>4, <1>5, <2>1, Zenon DEF ToProtoCompiles, Assignable
  <2>3. ToEntCompiles(c)
    BY <1>1, <1>4, <1>5, <2>1 DEF ToEntCompiles, Assignable
  <2>. QED  BY <1>2, <1>3, <2>2, <2>3, Zenon DEF Compiles, c
<1>6. CASE field.type = "enum"
  <2>1. c.toEnt = "" /\ ~c.unix /\ c.toProtoConstructor /\ c.toEntConstructor
    BY <1>3, <1>4, <1>6, ConverterIs
  <2>. HIDE DEF c
  <2>2. ToProtoCompiles(c)
    BY <1>1, <1>4, <1>6, <2>1, Zenon DEF ToProtoCompiles, Assignable
  <2>3. ToEntCompiles(c)
    BY <1>1, <1>4, <1>6, <2>1 DEF ToEntCompiles, Assignable
  <2>. QED  BY <1>2, <1>3, <2>2, <2>3, Zenon DEF Compiles, c
<1>. QED  BY <1>5, <1>6

LEMMA Documented ==
  ASSUME field \in FieldConfs, InTable
  PROVE  Supported /\ ShapeFits /\ Maps /\ Compiles(NewConverter)
<1>1. \/ field.as = "message" \/ field.type \in NumericTypes \/ field.type = "json"
      \/ field.type \in {"bool", "string", "bytes"} \/ field.type \in {"time", "enum"}
  <2>1. field.type \in NumericTypes \cup {"bool", "string", "bytes", "time", "enum", "json"}
    BY FieldTyped, EntTypes, Allowed
  <2>. QED  BY <2>1
<1>. QED  BY <1>1, DocumentedMessage, DocumentedNumber, DocumentedList, DocumentedSame,
             DocumentedConstructors

\* A type that converts itself ends the generation.
LEMMA Refused ==
  ASSUME field \in FieldConfs, ConvertsItself
  PROVE  ~Maps
<1>1. /\ ~field.id /\ Supported /\ (Valuer \/ Marshaler)
      /\ field.type \in {"string", "bool", "bytes", "uuid", "other"}
      /\ PbType \in {"string", "bool", "[]byte"}
  BY DEF ConvertsItself, Valuer, Marshaler
<1>2. PbType # "message" /\ PbType # "Enum"
  BY <1>1
<1>3. CASE Marshaler \/ ValueScanner
  <2>1. Case = "methods"
    BY <1>1, <1>3, Cases
  <2>2. NewConverter.unrendered
    BY <1>2, <2>1, ConverterIs
  <2>3. BasicToProto = ""
    BY <1>1 DEF BasicToProto
  <2>4. /\ NewConverter.toProto = "" /\ ~NewConverter.unix /\ ~NewConverter.toProtoConstructor
        /\ NewConverter.toEnt = "" /\ ~NewConverter.toEntConstructor
    BY <1>2, <2>1, <2>3, BasisIs, ConverterIs
  <2>. QED  BY <1>2, <2>2, <2>4, Zenon DEF Maps, Renderable
<1>4. CASE ~(Marshaler \/ ValueScanner) /\ field.type \in {"uuid", "other"}
  <2>1. Case = "none"
    BY <1>1, <1>4, Cases
  <2>. QED  BY <1>2, <2>1, Zenon DEF Maps
<1>5. CASE ~(Marshaler \/ ValueScanner) /\ field.type \in {"string", "bool", "bytes"}
  <2>1. Case = "same"
    BY <1>1, <1>5, Cases
  <2>2. NewConverter.unrendered
    <3>1. Basis.unrendered
      BY <1>1, <1>2, <1>5, BasisIs
    <3>. QED  BY <1>2, <3>1, ConverterIs
  <2>3. BasicToProto = ""
    BY <1>1 DEF BasicToProto
  <2>4. /\ NewConverter.toProto = "" /\ ~NewConverter.unix /\ ~NewConverter.toProtoConstructor
        /\ NewConverter.toEnt = "" /\ ~NewConverter.toEntConstructor
    BY <1>2, <2>1, <2>3, BasisIs, ConverterIs
  <2>. QED  BY <1>2, <2>2, <2>4, Zenon DEF Maps, Renderable
<1>. QED  BY <1>1, <1>3, <1>4, <1>5

-----------------------------------------------------------------------------
(* The generation.                                                           *)

\* What is known of the field at each stage.
FieldJudged ==
  /\ field \in FieldConfs
  /\ stage = "unsupported" => ~Supported
  /\ stage \notin {"edited", "unsupported"} => Supported
  /\ stage = "refused" => ~(ShapeFits /\ Maps)
  /\ stage \in {"accepted", "compiled", "broken"} => ShapeFits /\ Maps /\ conv = NewConverter
  /\ stage = "compiled" => Compiles(conv)
  /\ stage = "broken" => ~Compiles(conv)

Stages ==
  {"edited", "unsupported", "enum refused", "described", "not linked", "linked", "refused",
   "accepted", "compiled", "broken"}

\* Where the variables stay, but for the trail.
StageTyped ==
  /\ stage \in Stages
  /\ zero \in DOMAIN Normalized \cup {""}
  /\ DOMAIN conv = DOMAIN Nothing

\* The values of the trail have come from each other, and only a converter that compiles
\* has one.
TrailFits ==
  /\ trail = [side |-> trail.side, values |-> trail.values]
  /\ Walk(trail.side, trail.values)
  /\ Len(trail.values) <= MaxHops + 1
  /\ stage # "compiled" => trail = NoTrail

LEMMA ConverterDomain == DOMAIN NewConverter = DOMAIN Nothing
<1>1. DOMAIN Basis = DOMAIN Nothing
  <2>1. DOMAIN Nothing = Directives
    BY DEF Nothing, Directives
  <2>. QED  BY <2>1, BasisIs
<1>2. \A g : /\ DOMAIN [Basis EXCEPT !.toEnt = g] = DOMAIN Basis
             /\ DOMAIN [Basis EXCEPT !.unrendered = g] = DOMAIN Basis
             /\ DOMAIN [Basis EXCEPT !.toProto = g] = DOMAIN Basis
             /\ DOMAIN [Basis EXCEPT !.toEntConstructor = g] = DOMAIN Basis
  OBVIOUS
<1>3. DOMAIN [Basis EXCEPT !.toProto = "int64", !.unix = TRUE, !.toEnt = "time.Unix"] = DOMAIN Basis
  OBVIOUS
<1>. QED  BY <1>1, <1>2, <1>3 DEF NewConverter

LEMMA FoundIsValue ==
  ASSUME field \in FieldConfs, NEW z \in FindByNumber(field.enum, 0)
  PROVE  z \in DOMAIN Normalized \cup {""}
<1>1. field.enum.options \in Annotations
  BY FieldTyped, EnumTyped, Zenon
<1>2. DOMAIN field.enum.options \subseteq DOMAIN Normalized
  BY <1>1 DEF Annotations
<1>. QED  BY <1>2 DEF FindByNumber

LEMMA InitJudged == Init => StageTyped /\ FieldJudged /\ TrailFits
<1>. SUFFICES ASSUME Init
              PROVE  StageTyped /\ FieldJudged /\ TrailFits
  OBVIOUS
<1>1. StageTyped
  BY DEF Init, StageTyped, Stages
<1>2. FieldJudged
  BY DEF Init, FieldJudged
<1>3. TrailFits
  <2>1. trail.side = "ent" /\ trail.values = <<>> /\ trail = NoTrail
    BY DEF Init, NoTrail
  <2>2. trail = [side |-> trail.side, values |-> trail.values]
    BY <2>1 DEF NoTrail
  <2>3. Walk("ent", <<>>)
    BY DEF Walk
  <2>4. Len(<<>>) <= MaxHops + 1
    <3>1. MaxHops \in Nat
      BY ConvertAssumption, Zenon
    <3>. QED  BY <3>1
  <2>. QED  BY <2>1, <2>2, <2>3, <2>4 DEF TrailFits
<1>. QED  BY <1>1, <1>2, <1>3

LEMMA StageStep ==
  ASSUME StageTyped, FieldJudged, TrailFits, [Next]_vars
  PROVE  StageTyped' /\ FieldJudged'
<1>. USE DEF StageTyped, FieldJudged
<1>1. field' = field
  BY DEF Next, vars, Move, Unsupported, RefuseEnum, ToProtoFieldDescriptor, CannotLink, Link,
     RefuseField, AcceptField, Compile, Start, ToProto, ToEnt, Hop
<1>2. /\ (Supported' <=> Supported) /\ (ShapeFits' <=> ShapeFits) /\ (Maps' <=> Maps)
      /\ NewConverter' = NewConverter /\ (conv' = conv => (Compiles(conv)' <=> Compiles(conv)))
  BY <1>1, SameVerdicts, Zenon
<1>3. CASE Unsupported
  BY <1>1, <1>2, <1>3, Zenon DEF Unsupported, Move, Stages
<1>4. CASE RefuseEnum
  BY <1>1, <1>2, <1>4, FoundIsValue, Zenon DEF RefuseEnum, Move, Stages
<1>5. CASE ToProtoFieldDescriptor
  BY <1>1, <1>2, <1>5, FoundIsValue, Zenon DEF ToProtoFieldDescriptor, Move, Stages
<1>6. CASE CannotLink
  BY <1>1, <1>2, <1>6, Zenon DEF CannotLink, Move, Stages
<1>7. CASE Link
  BY <1>1, <1>2, <1>7, Zenon DEF Link, Move, Stages
<1>8. CASE RefuseField
  BY <1>1, <1>2, <1>8, Zenon DEF RefuseField, Move, Stages
<1>9. CASE AcceptField
  BY <1>1, <1>2, <1>9, ConverterDomain, Zenon DEF AcceptField, Move, Stages
<1>10. CASE Compile
  BY <1>1, <1>2, <1>10, Zenon DEF Compile, Move, Stages
<1>11. CASE UNCHANGED <<field, stage, zero, conv>>
  BY <1>1, <1>2, <1>11, Zenon
<1>. QED  BY <1>3, <1>4, <1>5, <1>6, <1>7, <1>8, <1>9, <1>10, <1>11
          DEF Next, vars, Start, ToProto, ToEnt, Hop

LEMMA TrailStep ==
  ASSUME FieldJudged, TrailFits, EnumVerdictFits, [Next]_vars
  PROVE  TrailFits'
<1>. DEFINE n == Len(trail.values)
<1>1. /\ trail = [side |-> trail.side, values |-> trail.values] /\ Walk(trail.side, trail.values)
      /\ n <= MaxHops + 1 /\ (stage # "compiled" => trail = NoTrail) /\ MaxHops \in Nat
      /\ n \in Nat /\ trail.side \in {"ent", "pb"}
  <2>1. MaxHops \in Nat
    BY ConvertAssumption, Zenon
  <2>2. Len(trail.values) \in Nat /\ trail.side \in {"ent", "pb"}
    BY LenProperties, Zenon DEF TrailFits, Walk
  <2>. QED  BY <2>1, <2>2, Zenon DEF TrailFits
<1>2. ASSUME stage # "compiled", UNCHANGED trail
      PROVE  TrailFits'
  <2>1. trail' = NoTrail
    BY <1>1, <1>2
  <2>2. NoTrail.side = "ent" /\ NoTrail.values = <<>> /\ NoTrail = [side |-> NoTrail.side, values |-> NoTrail.values]
    BY DEF NoTrail
  <2>3. Walk("ent", <<>>)'
    BY DEF Walk
  <2>4. Len(<<>>) <= MaxHops + 1
    BY <1>1
  <2>. QED  BY <2>1, <2>2, <2>3, <2>4 DEF TrailFits
<1>3. ASSUME UNCHANGED vars
      PROVE  TrailFits'
  <2>1. Walk(trail'.side, trail'.values)
    BY <1>1, <1>3 DEF vars
  <2>2. Walk(trail.side, trail.values)'
    BY <1>3, <2>1, SameWalk DEF vars
  <2>. QED  BY <1>1, <1>3, <2>2 DEF TrailFits, vars, NoTrail
<1>4. ASSUME NEW s \in {"ent", "pb"}, NEW x \in SideValues(s), Start(s, x)
      PROVE  TrailFits'
  <2>1. trail' = [side |-> s, values |-> <<x>>] /\ UNCHANGED <<field, stage, zero, conv>> /\ stage = "compiled"
    BY <1>4 DEF Start
  <2>2. trail'.side = s /\ trail'.values = <<x>>
    BY <2>1
  <2>3. Walk(s, <<x>>)
    <3>1. x \in EntValues \cup PbValues
      BY <1>4, Zenon DEF SideValues
    <3>2. <<x>> \in Seq(EntValues \cup PbValues) /\ Len(<<x>>) = 1 /\ <<x>>[1] = x
      BY <3>1
    <3>3. SideAt(s, 1) = s
      BY Sides
    <3>. QED  BY <1>4, <3>2, <3>3 DEF Walk
  <2>4. Walk(trail.side, trail.values)'
    BY <2>1, <2>2, <2>3, SameWalk
  <2>5. Len(<<x>>) <= MaxHops + 1
    BY <1>1
  <2>. QED  BY <2>1, <2>2, <2>4, <2>5 DEF TrailFits
<1>5. ASSUME trail.values # <<>>, Hop(Across(Here, Current))
      PROVE  TrailFits'
  <2>1. stage = "compiled"
    BY <1>1, <1>5 DEF NoTrail
  <2>2. Supported /\ conv = NewConverter /\ Compiles(conv) /\ field \in FieldConfs
    BY <2>1 DEF FieldJudged
  <2>3. TripsFit
    BY <2>1, <2>2, CompiledTrips DEF EnumVerdictFits
  <2>4. /\ n \in 1..MaxHops /\ UNCHANGED <<field, stage, zero, conv>>
        /\ trail' = [trail EXCEPT !.values = Append(trail.values, Across(Here, Current))]
    BY <1>5 DEF Hop
  <2>5. Here = SideAt(trail.side, n)
    BY <1>1 DEF Here, SideAt
  <2>6. /\ trail'.side = trail.side
        /\ trail'.values = Append(trail.values, Across(SideAt(trail.side, n), trail.values[n]))
        /\ trail' = [side |-> trail'.side, values |-> trail'.values]
    BY <1>1, <2>4, <2>5 DEF Current
  <2>7. Walk(trail'.side, trail'.values)
    BY <1>1, <2>2, <2>3, <2>4, <2>6, WalkOn
  <2>8. Walk(trail.side, trail.values)'
    BY <2>4, <2>7, SameWalk
  <2>9. Len(trail'.values) <= MaxHops + 1
    <3>1. Len(trail'.values) = n + 1
      BY <1>1, <2>6, AppendProperties DEF Walk
    <3>. QED  BY <1>1, <2>4, <3>1
  <2>. QED  BY <2>1, <2>4, <2>6, <2>8, <2>9, Zenon DEF TrailFits
<1>6. CASE \/ Unsupported \/ RefuseEnum \/ ToProtoFieldDescriptor
           \/ CannotLink \/ Link \/ RefuseField \/ AcceptField \/ Compile
  BY <1>2, <1>6 DEF Unsupported, RefuseEnum, ToProtoFieldDescriptor, CannotLink, Link,
     RefuseField, AcceptField, Compile, Move
<1>7. CASE \/ \E v \in EntValues : Start("ent", v)
           \/ \E m \in PbValues : Start("pb", m)
  BY <1>4, <1>7 DEF SideValues
<1>8. CASE ToProto
  BY <1>5, <1>8 DEF ToProto, Across
<1>9. CASE ToEnt
  BY <1>5, <1>9 DEF ToEnt, Across
<1>. QED  BY <1>3, <1>6, <1>7, <1>8, <1>9 DEF Next

\* How far the field came says what it is, and a program only has converters that work.
THEOREM GenerationJudged == Spec => [](StageTyped /\ FieldJudged /\ TrailFits)
<1>1. StageTyped /\ FieldJudged /\ TrailFits /\ EnumVerdictFits /\ [Next]_vars
        => (StageTyped /\ FieldJudged /\ TrailFits)'
  BY StageStep, TrailStep
<1>. QED  BY <1>1, InitJudged, EnumVerdictCorrect, PTL DEF Spec

\* Every value that comes across is one of its type, and the generation has no other
\* outcomes.
THEOREM TypeCorrect == Spec => []TypeOK
<1>1. StageTyped /\ FieldJudged /\ TrailFits => TypeOK
  <2>. SUFFICES ASSUME StageTyped, FieldJudged, TrailFits
                PROVE  TypeOK
    OBVIOUS
  <2>1. /\ Walk(trail.side, trail.values) /\ Len(trail.values) <= MaxHops + 1
        /\ stage # "compiled" => trail = NoTrail
    BY DEF TrailFits
  <2>2. ASSUME trail.values # <<>>
        PROVE  Current \in (IF Here = "ent" THEN EntValues ELSE PbValues)
    <3>1. Len(trail.values) \in 1..Len(trail.values) /\ Len(trail.values) \in Nat
      <4>1. trail.values \in Seq(EntValues \cup PbValues)
        BY <2>1 DEF Walk
      <4>. QED  BY <2>2, <4>1, EmptySeq, LenProperties
    <3>2. Here = SideAt(trail.side, Len(trail.values))
      BY <3>1 DEF Here, SideAt
    <3>. QED  BY <2>1, <3>1, <3>2 DEF Walk, SideValues, Current
  <2>. QED  BY <2>1, <2>2, Zenon DEF TypeOK, StageTyped, Stages
<1>. QED  BY <1>1, GenerationJudged, PTL

\* What fits comes back as it was, and nothing changes after the first trip: for all
\* integer types at any widths, times, enums and nil.
THEOREM RoundTripsCorrect == Spec => []RoundTrips
<1>1. StageTyped /\ FieldJudged /\ TrailFits /\ EnumVerdictFits => RoundTrips
  <2>. SUFFICES ASSUME FieldJudged, TrailFits, EnumVerdictFits
                PROVE  RoundTrips
    OBVIOUS
  <2>1. CASE stage # "compiled"
    <3>1. Len(trail.values) = 0
      BY <2>1 DEF TrailFits, NoTrail
    <3>. QED  BY <3>1 DEF RoundTrips
  <2>2. CASE stage = "compiled"
    <3>1. TripsFit /\ Supported /\ field \in FieldConfs
      BY <2>2, CompiledTrips DEF FieldJudged, EnumVerdictFits
    <3>. QED  BY <3>1, WalkReturns, Zenon DEF RoundTrips, TrailFits
  <2>. QED  BY <2>1, <2>2
<1>. QED  BY <1>1, GenerationJudged, EnumVerdictCorrect, PTL

\* A field that the documentation allows is converted by code that compiles; one whose
\* Go type has Value or MarshalBinary, where it says so, ends the generation.
THEOREM DocumentedCorrect == Spec => []DocumentedConverts
<1>1. StageTyped /\ FieldJudged /\ TrailFits => DocumentedConverts
  BY Documented, Refused, Zenon DEF DocumentedConverts, FieldJudged
<1>. QED  BY <1>1, GenerationJudged, PTL
=============================================================================

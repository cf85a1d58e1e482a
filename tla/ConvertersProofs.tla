---------------------------- MODULE ConvertersProofs ----------------------------
(***************************************************************************)
(* Proofs about entconv's generation (module Converters), for any schemas, *)
(* messages and options, any project layout and any history of generations *)
(* that succeed, fail or are killed.                                       *)
(***************************************************************************)
EXTENDS Converters, FiniteSetTheorems, SequenceTheorems, WellFoundedInduction, TLAPS

USE ConvertersAssumption DEF ConvertersAssumption

LEMMA NodesInOrder ==
  /\ Len(Nodes) \in Nat
  /\ \A i \in 1..Len(Nodes) : Nodes[i] \in Node
BY DEF Node

\* What the checks say depends on the artifacts and the options alone.
LEMMA SameArtifacts ==
  ASSUME UNCHANGED artifacts, UNCHANGED opts
  PROVE  /\ ToGenerate' = ToGenerate /\ Missing' = Missing
         /\ \A n : Converter(n)' = Converter(n)
         /\ \A c : Holds(c)' <=> Holds(c)
<1> USE DEF artifacts
<1>1. ToGenerate' = ToGenerate /\ Missing' = Missing /\ InGraph' = InGraph /\ InProto' = InProto
  BY DEF ToGenerate, Missing, InGraph, InProto
<1>2. \A n : Expected(n)' = Expected(n)
  BY DEF Expected
<1>3. \A n : Converter(n)' = Converter(n)
  BY <1>2 DEF Converter
<1>4. \A n : /\ ProtoContract(n)' <=> ProtoContract(n)
             /\ EnumConstReferences(n)' <=> EnumConstReferences(n)
  BY <1>2 DEF ProtoContract, EnumConstReferences
<1>5. ValidateOptions' <=> ValidateOptions
  BY DEF ValidateOptions
<1>6. EntDir' = EntDir
  BY DEF EntDir, SchemaPath, Cwd
<1>7. IDTypesVerified' <=> IDTypesVerified
  BY <1>1, <1>2, <1>6 DEF IDTypesVerified
<1>8. \A c : Holds(c)' <=> Holds(c)
  BY <1>1, <1>4, <1>5, <1>7 DEF Holds
<1>. QED  BY <1>1, <1>3, <1>8

LEMMA ChecksListed ==
  /\ Len(Checks) = 6
  /\ Checks[1] = "options" /\ Checks[2] = "id type" /\ Checks[3] = "missing"
  /\ Checks[4] = "no types" /\ Checks[5] = "contract" /\ Checks[6] = "enum"
  /\ Refusals = {"options", "id type", "missing", "no types", "contract", "enum"}
<1>1. /\ Len(Checks) = 6
      /\ Checks[1] = "options" /\ Checks[2] = "id type" /\ Checks[3] = "missing"
      /\ Checks[4] = "no types" /\ Checks[5] = "contract" /\ Checks[6] = "enum"
  BY DEF Checks
<1>2. 1..6 = {1, 2, 3, 4, 5, 6}
  OBVIOUS
<1>. QED  BY <1>1, <1>2 DEF Refusals

LEMMA PassedMeans ==
  ASSUME Passed(Len(Checks))
  PROVE  /\ ValidateOptions /\ IDTypesVerified
         /\ Missing = {} \/ opts.policy = "warn"
         /\ \A n \in ToGenerate : ProtoContract(n) /\ EnumConstReferences(n)
<1>0. \A i \in 1..6 : Holds(Checks[i])
  BY ChecksListed DEF Passed
<1>1. Holds(Checks[1]) /\ Holds(Checks[2]) /\ Holds(Checks[3]) /\ Holds(Checks[5]) /\ Holds(Checks[6])
  BY <1>0
<1>2. Holds("options") /\ Holds("id type") /\ Holds("missing") /\ Holds("contract") /\ Holds("enum")
  BY <1>1, ChecksListed
<1>. QED  BY <1>2 DEF Holds

\* The IDs of a .pb.go file.
LEMMA PbTyped == \A i \in IDType : PbOf[i] \in PbIDType
BY DEF IDType, PbOf, PbIDType

\* What the graph has for a schema with an ID type that the options may name.
LEMMA ExpectedTyped ==
  ASSUME TypeOK, ValidateOptions, NEW n \in Node
  PROVE  Converter(n) \in File
<1>1. schema[n] \in Schema
  BY DEF TypeOK
<1>2. opts.idType \in IDType
  BY DEF TypeOK, Options, ValidateOptions
<1>3. Expected(n) \in Mapping
  BY <1>1, <1>2 DEF Expected, Mapping, Schema
<1>. QED  BY <1>3 DEF Converter, File

LEMMA FilesTyped ==
  /\ None \in File /\ Torn \subseteq File /\ [kind |-> "user"] \in File
  /\ ~HasHeader(None) /\ None \notin Torn
  /\ \A n : HasHeader(Converter(n)) /\ Converter(n) \notin Torn
BY DEF None, Torn, File, HasHeader, Converter

LEMMA WhatEventsDo ==
  ASSUME NEW directory, Event(directory)
  PROVE  /\ pc = "idle" /\ pc' = pc /\ next' = next /\ events < MaxEvents /\ events' = events + 1
         /\ files' = directory /\ before' = directory
         /\ opts' = NoOptions /\ warned' = {} /\ verdict' = "none"
BY DEF Event

\* What happens around the generations leaves nothing to say of the last one.
LEMMA EventProgress ==
  ASSUME TypeOK, NEW directory, Event(directory)
  PROVE  Progress' /\ DamageBounded'
BY WhatEventsDo, ChecksListed DEF Progress, DamageBounded

-----------------------------------------------------------------------------

LEMMA FreshTyped ==
  ASSUME TypeOK
  PROVE  /\ FreshEntID \in [Node -> {"none"} \cup IDType]
         /\ \A n \in Node : FreshProto[n] = None \/ FreshProto[n] \in Message
<1>1. \A n \in Node : ProjectIDOf(n) \in IDType
  BY DEF TypeOK, Schema, ProjectIDOf
<1>2. \A n \in Node : ProjectMessage(n) \in Message
  BY <1>1, PbTyped DEF TypeOK, Schema, ProjectMessage, Message
<1>. QED  BY <1>1, <1>2 DEF FreshEntID, FreshProto

LEMMA TypeStep == ASSUME IInv, [Next]_vars PROVE TypeOK'
<1> USE DEF TypeOK, artifacts
<1>1. TypeOK
  BY DEF IInv
<1>2. CASE Refuse
  <2>1. PICK i \in 1..Len(Checks) : EndWith(Checks[i]) /\ warned' \in {Missing, {}}
    BY <1>2 DEF Refuse
  <2>2. Checks[i] \in Refusals /\ Missing \subseteq Node
    BY DEF Refusals, Missing, InGraph
  <2>. QED  BY <1>1, <1>2, <2>1, <2>2, NodesInOrder DEF Refuse, EndWith
<1>3. CASE CannotLoad
  <2>1. Missing \subseteq Node
    BY DEF Missing, InGraph
  <2>2. warned' \subseteq Node
    BY <1>1, <1>3, <2>1 DEF CannotLoad
  <2>. QED  BY <1>1, <1>3, <2>2, NodesInOrder DEF CannotLoad, EndWith
<1>4. CASE PrepareGenerator
  BY <1>1, <1>4 DEF PrepareGenerator, Missing, InGraph
<1>5. ASSUME NEW n \in Node, RemoveStaleConverter(n) PROVE TypeOK'
  BY <1>1, <1>5, FilesTyped DEF RemoveStaleConverter
<1>6. CASE StartWriting
  BY <1>1, <1>6, NodesInOrder DEF StartWriting
<1>7. CASE WriteConverter
  <2>1. PICK i \in 1..Len(Nodes) :
          AtType(i) /\ files' = [files EXCEPT ![Nodes[i]] = Converter(Nodes[i])] /\ next' = i + 1
    BY <1>7 DEF WriteConverter
  <2>2. pc = "write"
    BY <2>1 DEF AtType
  <2>3. Converter(Nodes[i]) \in File
    BY <1>1, <2>2, ExpectedTyped, PassedMeans, NodesInOrder DEF IInv, Progress, AllPassed
  <2>. HIDE DEF TypeOK
  <2>4. files' \in [Node -> File] /\ next' \in 1..(Len(Nodes) + 1)
    BY <1>1, <2>1, <2>3, NodesInOrder DEF TypeOK
  <2>. QED  BY <1>1, <1>7, <2>4 DEF WriteConverter, TypeOK
<1>8. CASE CannotFormat
  BY <1>1, <1>8, NodesInOrder DEF CannotFormat, EndWith
<1>9. CASE CannotWrite
  BY <1>1, <1>9, FilesTyped, NodesInOrder DEF CannotWrite, EndWith
<1>10. CASE Return
  BY <1>1, <1>10, NodesInOrder DEF Return, EndWith
<1>11. ASSUME NEW o \in OptionSets, GenerateConverterFile(o) PROVE TypeOK'
  BY <1>1, <1>11, NodesInOrder DEF GenerateConverterFile
<1>12. CASE Kill
  BY <1>1, <1>12, NodesInOrder DEF Kill, EndWith
<1>13. ASSUME NEW directory \in [Node -> File], Event(directory)
       PROVE  /\ files' \in [Node -> File] /\ before' \in [Node -> File] /\ opts' \in Options
              /\ pc' = pc /\ next' = next /\ warned' = {} /\ verdict' = "none"
              /\ events' \in 0..MaxEvents
  <2>1. NoOptions \in Options
    BY DEF NoOptions, Options
  <2>2. events \in 0..MaxEvents
    BY <1>1
  <2>. HIDE DEF TypeOK
  <2>. QED  BY <1>13, <2>1, <2>2, WhatEventsDo
<1>14. CASE GenerateEnt
  BY <1>1, <1>13, <1>14, FreshTyped DEF GenerateEnt
<1>15. CASE GenerateProto
  BY <1>1, <1>13, <1>15, FreshTyped DEF GenerateProto
<1>16. ASSUME NEW n \in Node, EditSchema(n) PROVE TypeOK'
  <2>1. schema' \in [Node -> Schema]
    BY <1>1, <1>16 DEF EditSchema
  <2>. QED  BY <1>1, <1>13, <1>16, <2>1 DEF EditSchema
<1>17. ASSUME NEW n \in UserFiles, AddUserFile(n) PROVE TypeOK'
  <2>1. [files EXCEPT ![n] = [kind |-> "user"]] \in [Node -> File]
    BY <1>1, FilesTyped
  <2>. QED  BY <1>1, <1>13, <1>17, <2>1 DEF AddUserFile
<1>18. CASE UNCHANGED vars
  BY <1>1, <1>18 DEF vars
<1>. QED
  BY <1>2, <1>3, <1>4, <1>5, <1>6, <1>7, <1>8, <1>9, <1>10, <1>11, <1>12, <1>14, <1>15,
     <1>16, <1>17, <1>18 DEF Next, Generation, Around

-----------------------------------------------------------------------------

LEMMA SameVerdicts ==
  ASSUME UNCHANGED artifacts, UNCHANGED opts
  PROVE  /\ \A i : Passed(i)' <=> Passed(i)
         /\ warned' = warned => (AllPassed' <=> AllPassed)
         /\ verdict' = verdict => (Reason' <=> Reason)
<1>1. \A i : Passed(i)' <=> Passed(i)
  BY SameArtifacts DEF Passed
<1>2. Missing' = Missing /\ \A c : Holds(c)' <=> Holds(c)
  BY SameArtifacts
<1>. QED  BY <1>1, <1>2 DEF AllPassed, Reason

\* However far it has come, a generation has removed files of its own and written
\* converters, and done nothing else.
LEMMA BrokenOff ==
  ASSUME TypeOK, Progress, pc # "idle", NEW n \in Node, files[n] # before[n]
  PROVE  \/ files[n] = None /\ HasHeader(before[n])
         \/ n \in ToGenerate /\ files[n] = Converter(n)
<1>1. CASE pc = "prepare"
  BY <1>1 DEF Progress
<1>2. CASE pc = "clean"
  BY <1>2 DEF Progress, Cleared
<1>3. CASE pc = "write"
  BY <1>3 DEF Progress, Cleared, Replaced, Written
<1>. QED  BY <1>1, <1>2, <1>3 DEF TypeOK

\* One that ends there, without another file or with a torn one.
LEMMA EndsBounded ==
  ASSUME TypeOK, Progress, pc # "idle", UNCHANGED <<artifacts, opts, before>>,
         verdict' \in {"format", "write", "killed"},
         \/ UNCHANGED files
         \/ /\ verdict' = "write"
            /\ \E n \in ToGenerate, t \in Torn : n \in Node /\ files' = [files EXCEPT ![n] = t]
  PROVE  DamageBounded'
<1> DEFINE changed == {n \in Node : files'[n] # before[n]}
           torn == {n \in changed : files'[n] \in Torn}
<1>1. ToGenerate' = ToGenerate /\ \A n : Converter(n)' = Converter(n)
  BY SameArtifacts
<1>2. PICK r \in SUBSET ToGenerate :
        /\ \A n, m \in r : n = m
        /\ \A n \in r : files'[n] \in Torn /\ verdict' = "write"
        /\ \A n \in Node \ r : files'[n] = files[n]
  <2>1. CASE UNCHANGED files
    <3>1. {} \in SUBSET ToGenerate
      OBVIOUS
    <3>. QED  BY <2>1, <3>1
  <2>2. ASSUME NEW n \in ToGenerate, NEW t \in Torn, n \in Node, verdict' = "write",
               files' = [files EXCEPT ![n] = t]
        PROVE  \E s \in SUBSET ToGenerate :
                 /\ \A m, k \in s : m = k
                 /\ \A m \in s : files'[m] \in Torn /\ verdict' = "write"
                 /\ \A m \in Node \ s : files'[m] = files[m]
    <3>1. files'[n] \in Torn /\ \A m \in Node \ {n} : files'[m] = files[m]
      BY <2>2 DEF TypeOK
    <3>2. {n} \in SUBSET ToGenerate /\ \A m, k \in {n} : m = k
      OBVIOUS
    <3>. QED  BY <2>2, <3>1, <3>2
  <2>. QED  BY <2>1, <2>2
<1>3. ASSUME NEW n \in changed
      PROVE  \/ files'[n] = None /\ HasHeader(before[n])
             \/ n \in ToGenerate /\ files'[n] = Converter(n)
             \/ n \in ToGenerate /\ files'[n] \in Torn /\ verdict' = "write" /\ n \in r
  BY <1>2, BrokenOff
<1>4. torn \subseteq r
  BY <1>3, FilesTyped
<1>5. Cardinality(torn) <= 1
  <2>1. torn = {} \/ \E n : torn = {n}
    BY <1>2, <1>4
  <2> HIDE DEF torn
  <2>2. CASE torn = {}
    BY <2>2, FS_EmptySet
  <2>3. CASE \E n : torn = {n}
    <3>1. PICK n : torn = {n}
      BY <2>3
    <3>2. Cardinality({n}) = 1
      BY FS_Singleton, Zenon
    <3>. QED  BY <3>1, <3>2
  <2>. QED  BY <2>1, <2>2, <2>3
<1>6. \A n \in changed : before[n].kind = "user" => n \in ToGenerate
  BY <1>3 DEF HasHeader
<1>7. verdict' \notin {"load"} \cup Refusals
  BY ChecksListed
<1>. QED  BY <1>1, <1>3, <1>5, <1>6, <1>7 DEF DamageBounded, HasHeader

LEMMA LeastNatural ==
  ASSUME NEW S \in SUBSET Nat, S # {}
  PROVE  \E i \in S : \A j \in S : i <= j
<1>1. PICK i \in S : \A j \in S : <<j, i>> \notin OpToRel(<, Nat)
  BY NatLessThanWellFounded, WFMin, Zenon
<1>2. ASSUME NEW j \in S PROVE i <= j
  <2>1. j < i => <<j, i>> \in OpToRel(<, Nat)
    BY DEF OpToRel
  <2>2. ~(j < i)
    BY <1>1, <2>1
  <2>. QED  BY <2>2
<1>. QED  BY <1>2

\* The loop ends when every type has been written.
LEMMA AllWritten ==
  ASSUME TypeOK, pc = "write", \A i \in 1..Len(Nodes) : ~AtType(i)
  PROVE  Written = ToGenerate
<1> DEFINE ahead == {i \in next..Len(Nodes) : Nodes[i] \in ToGenerate}
<1>1. ahead = {}
  <2> SUFFICES ASSUME ahead # {} PROVE FALSE
    OBVIOUS
  <2>0. ahead \in SUBSET Nat
    BY NodesInOrder DEF TypeOK
  <2> HIDE DEF ahead
  <2>1. PICK i \in ahead : \A j \in ahead : i <= j
    BY <2>0, LeastNatural
  <2> USE DEF ahead
  <2>. QED  BY <2>1, NodesInOrder DEF AtType, TypeOK
<1>2. ASSUME NEW n \in ToGenerate PROVE \E i \in 1..(next - 1) : Nodes[i] = n
  <2>1. PICK i \in 1..Len(Nodes) : Nodes[i] = n
    BY DEF ToGenerate, InGraph, Node
  <2>. QED  BY <1>1, <2>1, NodesInOrder DEF TypeOK
<1>. QED  BY <1>2 DEF Written

LEMMA ProgressStep == ASSUME IInv, TypeOK', [Next]_vars PROVE Progress' /\ DamageBounded'
<1> USE DEF IInv, Progress
<1>1. CASE Refuse
  <2>1. PICK i \in 1..Len(Checks) : Passed(i - 1) /\ ~Holds(Checks[i]) /\ EndWith(Checks[i])
    BY <1>1 DEF Refuse
  <2>2. /\ pc = "prepare" /\ pc' = "idle" /\ verdict' = Checks[i] /\ verdict' \in Refusals
        /\ files' = files /\ before' = before /\ UNCHANGED artifacts /\ UNCHANGED opts
    BY <1>1, <2>1 DEF Refuse, EndWith, Refusals
  <2>3. verdict' \notin {"none", "done", "format", "write", "killed"}
    BY <2>2, ChecksListed
  <2>4. Reason'
    <3>1. Passed(i - 1)' /\ ~Holds(Checks[i])'
      BY <2>1, <2>2, SameVerdicts, SameArtifacts
    <3>. QED  BY <2>2, <3>1 DEF Reason
  <2>. QED  BY <2>2, <2>3, <2>4 DEF DamageBounded
<1>2. CASE CannotLoad
  BY <1>2, ChecksListed DEF CannotLoad, EndWith, DamageBounded
<1>3. CASE PrepareGenerator
  <2>1. AllPassed'
    BY <1>3, SameVerdicts, SameArtifacts DEF PrepareGenerator, AllPassed
  <2>. QED  BY <1>3, <2>1, ChecksListed DEF PrepareGenerator, DamageBounded
<1>4. ASSUME NEW n \in Node, RemoveStaleConverter(n) PROVE Progress' /\ DamageBounded'
  <2>1. AllPassed'
    BY <1>4, SameVerdicts DEF RemoveStaleConverter
  <2>2. HasHeader(files[n]) /\ files' = [files EXCEPT ![n] = None] /\ before' = before
    BY <1>4 DEF RemoveStaleConverter
  <2>3. files[n] \in {before[n], Cleared(n)}
    BY <1>4 DEF RemoveStaleConverter
  <2>4. Cleared(n) = None
    BY <2>2, <2>3, FilesTyped DEF Cleared
  <2>5. \A m \in Node : files'[m] \in {before[m], Cleared(m)}
    BY <1>4, <2>2, <2>4 DEF RemoveStaleConverter, TypeOK
  <2>6. \A m \in Node : files'[m] \in {before[m], Cleared(m)}'
    BY <2>2, <2>5 DEF Cleared
  <2>. QED  BY <1>4, <2>1, <2>6, ChecksListed DEF RemoveStaleConverter, DamageBounded
<1>5. CASE StartWriting
  <2>1. AllPassed'
    BY <1>5, SameVerdicts DEF StartWriting
  <2>2. Written' = {}
    BY <1>5 DEF StartWriting, Written
  <2>3. \A n \in Node : files'[n] = Cleared(n)'
    BY <1>5 DEF StartWriting, Cleared
  <2>. QED  BY <1>5, <2>1, <2>2, <2>3, ChecksListed DEF StartWriting, DamageBounded, Replaced
<1>6. CASE WriteConverter
  <2>1. PICK i \in 1..Len(Nodes) :
          AtType(i) /\ files' = [files EXCEPT ![Nodes[i]] = Converter(Nodes[i])] /\ next' = i + 1
    BY <1>6 DEF WriteConverter
  <2>2. /\ pc = "write" /\ pc' = "write" /\ verdict = "none" /\ verdict' = "none"
        /\ UNCHANGED artifacts /\ UNCHANGED <<opts, before, warned>>
    BY <1>6, <2>1 DEF WriteConverter, AtType
  <2>3. AllPassed'
    BY <2>2, SameVerdicts
  <2>4. ToGenerate' = ToGenerate /\ \A n : Converter(n)' = Converter(n) /\ Cleared(n)' = Cleared(n)
    BY <2>2, SameArtifacts DEF Cleared
  <2>5. Written' = Written \cup {Nodes[i]}
    <3>1. \A n \in ToGenerate : (\E j \in 1..(next' - 1) : Nodes[j] = n) <=>
            (\E j \in 1..(next - 1) : Nodes[j] = n) \/ n = Nodes[i]
      BY <2>1, NodesInOrder DEF AtType, TypeOK
    <3>. QED  BY <2>1, <2>4, <3>1 DEF Written, AtType
  <2>6. Replaced(Written)'
    <3>1. ASSUME NEW n \in Node
          PROVE  files'[n] = IF n \in Written' THEN Converter(n) ELSE Cleared(n)
      <4>1. CASE n = Nodes[i]
        BY <2>1, <2>5, <4>1 DEF TypeOK
      <4>2. CASE n # Nodes[i]
        BY <2>1, <2>2, <2>5, <4>2 DEF TypeOK, Replaced
      <4>. QED  BY <4>1, <4>2
    <3>. QED  BY <2>4, <3>1 DEF Replaced
  <2>. QED  BY <2>2, <2>3, <2>6, ChecksListed DEF DamageBounded
<1>7. CASE CannotFormat
  <2>1. pc = "write" /\ verdict' = "format" /\ pc' = "idle"
        /\ UNCHANGED <<artifacts, opts, before, files>>
    BY <1>7 DEF CannotFormat, AtType, EndWith
  <2>. QED  BY <2>1, EndsBounded, ChecksListed
<1>8. CASE CannotWrite
  <2>1. /\ pc = "write" /\ verdict' = "write" /\ pc' = "idle"
        /\ UNCHANGED <<artifacts, opts, before>>
        /\ \E n \in ToGenerate, t \in Torn : n \in Node /\ files' = [files EXCEPT ![n] = t]
    BY <1>8, NodesInOrder DEF CannotWrite, AtType, EndWith
  <2>. QED  BY <2>1, EndsBounded, ChecksListed
<1>9. CASE Return
  <2>1. /\ pc = "write" /\ pc' = "idle" /\ verdict' = "done" /\ UNCHANGED artifacts
        /\ UNCHANGED <<opts, before, files, warned>> /\ \A i \in 1..Len(Nodes) : ~AtType(i)
    BY <1>9 DEF Return, EndWith
  <2>2. AllPassed'
    BY <2>1, SameVerdicts
  <2>3. Written = ToGenerate
    BY <2>1, AllWritten
  <2>4. Replaced(ToGenerate)'
    BY <2>1, <2>3, SameArtifacts DEF Replaced, Cleared
  <2>. QED  BY <2>1, <2>2, <2>4, ChecksListed DEF DamageBounded
<1>10. ASSUME NEW o \in OptionSets, GenerateConverterFile(o) PROVE Progress' /\ DamageBounded'
  BY <1>10, ChecksListed DEF GenerateConverterFile, DamageBounded
<1>11. CASE Kill
  <2>1. pc # "idle" /\ verdict' = "killed" /\ pc' = "idle"
        /\ UNCHANGED <<artifacts, opts, before, files>>
    BY <1>11 DEF Kill, EndWith
  <2>. QED  BY <2>1, EndsBounded, ChecksListed
<1>12. ASSUME NEW n \in Node, EditSchema(n) \/ (n \in UserFiles /\ AddUserFile(n))
       PROVE  Progress' /\ DamageBounded'
  BY <1>12, EventProgress DEF EditSchema, AddUserFile
<1>13. CASE GenerateEnt \/ GenerateProto
  BY <1>13, EventProgress DEF GenerateEnt, GenerateProto
<1>14. CASE UNCHANGED vars
  <2>1. /\ UNCHANGED artifacts /\ UNCHANGED <<opts, pc, next, files, before, warned, verdict>>
    BY <1>14 DEF vars
  <2>2. ToGenerate' = ToGenerate /\ \A n : Converter(n)' = Converter(n) /\ Cleared(n)' = Cleared(n)
    BY <2>1, SameArtifacts DEF Cleared
  <2>3. Written' = Written /\ (AllPassed' <=> AllPassed) /\ (Reason' <=> Reason)
    BY <2>1, <2>2, SameVerdicts DEF Written
  <2>4. Progress'
    BY <2>1, <2>2, <2>3 DEF Replaced
  <2>5. DamageBounded'
    BY <2>1, <2>2 DEF DamageBounded
  <2>. QED  BY <2>4, <2>5
<1>. QED
  BY <1>1, <1>2, <1>3, <1>4, <1>5, <1>6, <1>7, <1>8, <1>9, <1>10, <1>11, <1>12, <1>13, <1>14
  DEF Next, Generation, Around

LEMMA InvInit == Init => IInv
<1> SUFFICES ASSUME Init PROVE IInv
  OBVIOUS
<1>1. /\ pc = "idle" /\ next = 1 /\ verdict = "none" /\ warned = {} /\ events = 0
      /\ opts = NoOptions /\ files = [n \in Node |-> None] /\ before = files
      /\ layout \in Layouts /\ entID = [n \in Node |-> "none"] /\ pb = FreshProto
  BY DEF Init
<1>2. schema \in [Node -> Schema]
  <2>1. /\ schema \in [Node -> UNION {Schemas[n] : n \in Node}]
        /\ \A n \in Node : schema[n] \in Schemas[n]
    BY DEF Init
  <2>. QED  BY <2>1
<1>3. \A n \in Node : pb[n] = None \/ pb[n] \in Message
  <2>1. \A n \in Node : ProjectIDOf(n) \in IDType
    BY <1>2 DEF Schema, ProjectIDOf
  <2>2. \A n \in Node : ProjectMessage(n) \in Message
    BY <1>2, <2>1, PbTyped DEF Schema, ProjectMessage, Message
  <2>. QED  BY <1>1, <2>2 DEF FreshProto
<1>4. NoOptions \in Options
  BY DEF NoOptions, Options
<1>5. TypeOK
  BY <1>1, <1>2, <1>3, <1>4, FilesTyped, NodesInOrder DEF TypeOK
<1>6. Progress /\ DamageBounded
  BY <1>1, ChecksListed DEF Progress, DamageBounded
<1>. QED  BY <1>5, <1>6 DEF IInv

\* The inductive invariant: what a generation has done to the directory so far, and
\* that what it found when it was prepared still holds of the artifacts.
THEOREM InvHolds == Spec => []IInv
<1>1. IInv /\ [Next]_vars => IInv'
  BY TypeStep, ProgressStep DEF IInv
<1>. QED  BY InvInit, <1>1, PTL DEF Spec

\* Every variable stays in its range.
THEOREM TypeCorrect == Spec => []TypeOK
<1>1. IInv => TypeOK
  BY DEF IInv
<1>. QED  BY InvHolds, <1>1, PTL

\* A refused generation changes nothing, and one that breaks off in GenerateAll leaves
\* every file old, removed or new, and at most one torn.
THEOREM DamageCorrect == Spec => []DamageBounded
<1>1. IInv => DamageBounded
  BY DEF IInv
<1>. QED  BY InvHolds, <1>1, PTL

\* After a generation the directory has the converters of the types it was to
\* generate and none else (removeStaleConverters, GenerateAll), and no schema is left
\* out without a warning (matchTypes).
THEOREM DirectoryCorrect == Spec => []DirectoryFits
<1>1. IInv => DirectoryFits
  <2> SUFFICES ASSUME IInv, verdict = "done", NEW n \in Node
               PROVE  /\ IF n \in ToGenerate THEN files[n] = Converter(n)
                         ELSE files[n].kind \in {"none", "user", "empty"}
                      /\ schema[n].exists /\ files[n].kind # "converter" =>
                           n \in warned /\ opts.policy = "warn"
    BY DEF DirectoryFits, ToGenerate
  <2>1. AllPassed /\ files[n] = IF n \in ToGenerate THEN Converter(n) ELSE Cleared(n)
    BY DEF IInv, Progress, Replaced
  <2>2. Cleared(n).kind \in {"none", "user", "empty"}
    BY DEF Cleared, HasHeader, IInv, TypeOK, File, None
  <2>3. Converter(n).kind = "converter"
    BY DEF Converter
  <2>4. Missing = {} \/ opts.policy = "warn"
    BY <2>1, PassedMeans DEF AllPassed
  <2>5. schema[n].exists /\ n \notin ToGenerate => n \in Missing
    BY DEF ToGenerate, Missing, InGraph
  <2>. QED  BY <2>1, <2>2, <2>3, <2>4, <2>5 DEF AllPassed
<1>. QED  BY InvHolds, <1>1, PTL

\* A message that protoc generated from the schema as it is passes the checks on it.
LEMMA FreshMessage ==
  ASSUME TypeOK, pb = FreshProto, opts.idType = ProjectID, NEW n \in ToGenerate,
         schema[n].convertible, schema[n].generated = "author"
  PROVE  ProtoContract(n) /\ EnumConstReferences(n)
<1>1. n \in Node /\ pb[n] = ProjectMessage(n)
  BY DEF ToGenerate, InGraph, InProto, FreshProto
<1>2. /\ ProjectMessage(n).id = PbOf[Expected(n).id]
      /\ ProjectMessage(n).fields = Expected(n).fields
      /\ ProjectMessage(n).enum = Expected(n).enum
  BY DEF ProjectMessage, ProjectIDOf, Expected
<1>. QED  BY <1>1, <1>2 DEF ProtoContract, EnumConstReferences

\* prepareGenerator refuses nothing without a reason in the schemas, when nothing is
\* stale and the options are the project's.
THEOREM FreshCorrect == Spec => []FreshAccepted
<1>1. IInv => FreshAccepted
  <2> SUFFICES ASSUME IInv, verdict \in Refusals, pb = FreshProto,
                      entID \in {FreshEntID, [n \in Node |-> "none"]},
                      ValidateOptions, opts.idType = ProjectID,
                      ~ \E n \in InGraph : ~schema[n].convertible \/ schema[n].generated = "filled",
                      ~ \E n \in InGraph : schema[n].generated = "no" /\ opts.policy = "strict",
                      ~ \A n \in InGraph : schema[n].generated = "no"
               PROVE  FALSE
    BY DEF FreshAccepted
  <2> USE DEF IInv
  <2>1. ~Holds(verdict)
    BY DEF Progress, Reason
  <2>2. InProto \cap InGraph = {n \in InGraph : schema[n].generated # "no"}
    <3>1. \A n \in InGraph : n \in Node /\ (pb[n] # None <=> schema[n].generated # "no")
      BY DEF InGraph, FreshProto, ProjectMessage, None
    <3>. QED  BY <3>1 DEF InProto
  <2>3. IDTypesVerified
    <3>1. \A n \in InGraph : n \in Node /\ Expected(n).id = ProjectIDOf(n)
      BY DEF InGraph, Expected, ProjectIDOf
    <3>. QED  BY <3>1 DEF IDTypesVerified, FreshEntID, InGraph
  <2>4. Missing = {} \/ opts.policy = "warn"
    BY <2>2 DEF Missing, ValidateOptions
  <2>5. ToGenerate # {}
    BY <2>2 DEF ToGenerate
  <2>6. ASSUME NEW n \in ToGenerate PROVE ProtoContract(n) /\ EnumConstReferences(n)
    <3>1. n \in InGraph /\ schema[n].generated # "no" /\ schema[n] \in Schema
      BY <2>2 DEF ToGenerate, TypeOK, InGraph
    <3>2. schema[n].convertible /\ schema[n].generated = "author"
      BY <3>1 DEF Schema
    <3>. QED  BY <3>2, FreshMessage
  <2>. QED  BY <2>1, <2>3, <2>4, <2>5, <2>6 DEF Holds
<1>. QED  BY InvHolds, <1>1, PTL

-----------------------------------------------------------------------------
(* Paths and directories.                                                    *)

Name == STRING \ {".."}
\* With "..", of which the provers do not know that it is a string.
Word == STRING \cup {".."}

LEMMA PieceOfSeq ==
  ASSUME NEW S, NEW s \in Seq(S), NEW m \in Nat \ {0}, NEW n \in Int, n <= Len(s)
  PROVE  /\ SubSeq(s, m, n) \in Seq(S)
         /\ Len(SubSeq(s, m, n)) = IF m <= n THEN n - m + 1 ELSE 0
         /\ \A i \in 1..(n - m + 1) : SubSeq(s, m, n)[i] = s[m + i - 1]
<1>1. \A i \in m..n : s[i] \in S
  BY ElementOfSeq, LenProperties
<1>. QED  BY <1>1, SubSeqProperties

LEMMA SeqOfNames == ASSUME NEW s \in Seq(Name) PROVE s \in Seq(Word)
<1>1. Name \subseteq Word
  BY DEF Name, Word
<1>. QED  BY <1>1, SeqMonotonic

LEMMA DropTake ==
  ASSUME NEW S, NEW s \in Seq(S), NEW c \in 0..Len(s), NEW n \in 1..(Len(s) - c)
  PROVE  SubSeq(SubSeq(s, c + 1, Len(s)), 1, n) = SubSeq(s, c + 1, c + n)
<1>1. Len(s) \in Nat
  BY LenProperties
<1> DEFINE t == SubSeq(s, c + 1, Len(s))
<1>2. t \in Seq(S) /\ Len(t) = Len(s) - c /\ \A i \in 1..(Len(s) - c) : t[i] = s[c + i]
  <2>1. c + 1 \in Nat \ {0} /\ Len(s) \in Int
    BY <1>1
  <2>. QED  BY <1>1, <2>1, PieceOfSeq
<1> HIDE DEF t
<1> DEFINE a == SubSeq(t, 1, n)
           b == SubSeq(s, c + 1, c + n)
<1>3. a \in Seq(S) /\ Len(a) = n /\ \A i \in 1..n : a[i] = t[i]
  BY <1>1, <1>2, PieceOfSeq
<1>4. b \in Seq(S) /\ Len(b) = n /\ \A i \in 1..n : b[i] = s[c + i]
  <2>1. c + 1 \in Nat \ {0} /\ c + n \in Int /\ c + n <= Len(s)
    BY <1>1
  <2>. QED  BY <1>1, <2>1, PieceOfSeq
<1>5. \A i \in 1..n : a[i] = b[i]
  BY <1>1, <1>2, <1>3, <1>4
<1>6. a = b
  BY <1>3, <1>4, <1>5, SeqEqual
<1>. QED  BY <1>6 DEF t

\* What follows a prefix.
LEMMA RestOfConcat ==
  ASSUME NEW s \in Seq(Word), NEW t \in Seq(Word)
  PROVE  /\ IsPrefix(s, s \o t)
         /\ SubSeq(s \o t, Len(s) + 1, Len(s \o t)) = t
<1>1. /\ s \o t \in Seq(Word) /\ Len(s \o t) = Len(s) + Len(t)
      /\ Len(s) \in Nat /\ Len(t) \in Nat
      /\ \A i \in 1..(Len(s) + Len(t)) : (s \o t)[i] = IF i <= Len(s) THEN s[i] ELSE t[i - Len(s)]
  BY ConcatProperties, LenProperties
<1> DEFINE u == s \o t
           r == SubSeq(u, Len(s) + 1, Len(u))
           h == SubSeq(u, 1, Len(s))
           g == SubSeq(s, 1, Len(s))
<1>2. /\ r \in Seq(Word) /\ Len(r) = Len(t)
      /\ \A i \in 1..Len(t) : r[i] = u[Len(s) + i]
  <2>1. Len(s) + 1 \in Nat \ {0} /\ Len(u) \in Int
    BY <1>1
  <2>. QED  BY <1>1, <2>1, PieceOfSeq
<1>3. r = t
  BY <1>1, <1>2, SeqEqual
<1>4. /\ h \in Seq(Word) /\ Len(h) = Len(s) /\ \A i \in 1..Len(s) : h[i] = u[i]
      /\ g \in Seq(Word) /\ Len(g) = Len(s) /\ \A i \in 1..Len(s) : g[i] = s[i]
  BY <1>1, PieceOfSeq
<1>5. h = g
  BY <1>1, <1>4, SeqEqual
<1>. QED  BY <1>1, <1>3, <1>5 DEF IsPrefix

LEMMA PrefixAndRest ==
  ASSUME NEW m \in Seq(Word), NEW d \in Seq(Word), IsPrefix(m, d)
  PROVE  /\ Len(m) \in Nat /\ Len(d) \in Nat /\ Len(m) <= Len(d)
         /\ SubSeq(d, 1, Len(m)) = m
         /\ m \o SubSeq(d, Len(m) + 1, Len(d)) = d
<1>1. Len(m) \in Nat /\ Len(d) \in Nat /\ Len(m) <= Len(d)
  BY LenProperties DEF IsPrefix
<1>2. SubSeq(m, 1, Len(m)) = m
  BY <1>1, SubSeqFull
<1>3. SubSeq(d, 1, Len(m)) = m
  BY <1>2 DEF IsPrefix
<1> DEFINE r == SubSeq(d, Len(m) + 1, Len(d))
<1>4. r \in Seq(Word) /\ Len(r) = Len(d) - Len(m)
      /\ \A i \in 1..Len(r) : r[i] = d[Len(m) + i]
  <2>1. Len(m) + 1 \in Nat \ {0} /\ Len(d) \in Int
    BY <1>1
  <2>. QED  BY <1>1, <2>1, PieceOfSeq
<1>5. \A i \in 1..Len(m) : m[i] = d[i]
  BY <1>1, <1>3, PieceOfSeq
<1> HIDE DEF r
<1>6. /\ m \o r \in Seq(Word) /\ Len(m \o r) = Len(d)
      /\ \A i \in 1..Len(d) : (m \o r)[i] = IF i <= Len(m) THEN m[i] ELSE r[i - Len(m)]
  BY <1>1, <1>4, ConcatProperties
<1>7. \A i \in 1..Len(d) : (m \o r)[i] = d[i]
  BY <1>1, <1>4, <1>5, <1>6
<1>8. m \o r = d
  BY <1>6, <1>7, SeqEqual
<1>. QED  BY <1>1, <1>3, <1>8 DEF r

Ups(k) == [i \in 1..k |-> ".."]

LEMMA UpsSeq == ASSUME NEW k \in Nat
                PROVE  Ups(k) \in Seq(Word) /\ Len(Ups(k)) = k /\ \A i \in 1..k : Ups(k)[i] = ".."
<1>1. Ups(k) \in [1..k -> Word]
  BY DEF Ups, Word
<1>2. Ups(k) \in Seq(Word)
  BY <1>1, SeqDef
<1>3. Len(Ups(k)) = k
  BY <1>1, <1>2, LenProperties
<1>. QED  BY <1>2, <1>3 DEF Ups

\* A relative path goes up, and then down by names.
LEMMA AbsRelative ==
  ASSUME NEW cwd \in Seq(Word), NEW k \in 0..Len(cwd), NEW names \in Seq(Name)
  PROVE  Abs(Path(FALSE, Ups(k) \o names), cwd) = SubSeq(cwd, 1, Len(cwd) - k) \o names
<1> DEFINE u == Ups(k) \o names
           S == {i \in DOMAIN u : u[i] = ".."}
<1>1. /\ k \in Nat /\ names \in Seq(Word) /\ Len(names) \in Nat
      /\ Ups(k) \in Seq(Word) /\ Len(Ups(k)) = k /\ \A i \in 1..k : Ups(k)[i] = ".."
  <2>1. k \in Nat
    BY LenProperties
  <2>2. names \in Seq(Word) /\ Len(names) \in Nat
    BY SeqOfNames, LenProperties
  <2>. QED  BY <2>1, <2>2, UpsSeq
<1>2. /\ u \in Seq(Word) /\ Len(u) = k + Len(names)
      /\ \A i \in 1..(k + Len(names)) : u[i] = IF i <= k THEN Ups(k)[i] ELSE names[i - k]
  <2>1. PICK a \in Seq(Word) : a = Ups(k)
    BY <1>1
  <2>2. PICK b \in Seq(Word) : b = names
    BY <1>1
  <2>3. /\ a \o b \in Seq(Word) /\ Len(a \o b) = Len(a) + Len(b)
        /\ \A i \in 1..(Len(a) + Len(b)) : (a \o b)[i] = IF i <= Len(a) THEN a[i] ELSE b[i - Len(a)]
    BY ConcatProperties
  <2>. QED  BY <1>1, <2>1, <2>2, <2>3
<1>3. DOMAIN u = 1..(k + Len(names))
  BY <1>2, LenProperties
<1>4. \A i \in 1..Len(names) : names[i] # ".."
  BY ElementOfSeq DEF Name
<1>5. S = 1..k
  BY <1>1, <1>2, <1>3, <1>4
<1>6. Cardinality(S) = k
  <2>1. Cardinality(1..k) = k
    BY <1>1, FS_Interval
  <2>. QED  BY <1>5, <2>1
<1>7. SubSeq(u, k + 1, Len(u)) = names
  BY <1>1, RestOfConcat
<1> HIDE DEF u
<1>8. Abs(Path(FALSE, u), cwd) = SubSeq(cwd, 1, Len(cwd) - Cardinality(S)) \o
                                 SubSeq(u, Cardinality(S) + 1, Len(u))
  BY DEF Abs, Path
<1>. QED  BY <1>6, <1>7, <1>8 DEF u

LEMMA AbsAbsolute == ASSUME NEW names, NEW cwd PROVE Abs(Path(TRUE, names), cwd) = names
BY DEF Abs, Path

\* Rel goes up to a directory above both, as far down as there is one.
LEMMA RelShape ==
  ASSUME NEW cwd \in Seq(Word), NEW dir \in Seq(Word)
  PROVE  \E c \in 0..Len(cwd) :
           /\ c <= Len(dir) /\ SubSeq(cwd, 1, c) = SubSeq(dir, 1, c)
           /\ \A m \in Seq(Word) : IsPrefix(m, cwd) /\ IsPrefix(m, dir) => Len(m) <= c
           /\ Rel(cwd, dir) = Path(FALSE, Ups(Len(cwd) - c) \o SubSeq(dir, c + 1, Len(dir)))
<1> DEFINE C == CommonPrefixes({cwd, dir})
<1>1. Len(cwd) \in Nat /\ Len(dir) \in Nat
  BY LenProperties
<1>2. \A m : m \in C => m \in Seq(Word) /\ IsPrefix(m, cwd) /\ IsPrefix(m, dir)
  <2>1. \A s \in {cwd, dir} : \A k \in 0..Len(s) : SubSeq(s, 1, k) \in Seq(Word)
    BY <1>1, PieceOfSeq
  <2>2. ASSUME NEW m \in C PROVE m \in Seq(Word) /\ IsPrefix(m, cwd) /\ IsPrefix(m, dir)
    <3>1. PICK s \in {cwd, dir} : m \in Prefixes(s)
      BY <2>2, Zenon DEF CommonPrefixes
    <3>2. m \in Seq(Word)
      BY <2>1, <3>1 DEF Prefixes
    <3>. QED  BY <2>2, <3>2, Zenon DEF CommonPrefixes
  <2>. QED  BY <2>2
<1>3. \A m \in Seq(Word) : IsPrefix(m, cwd) /\ IsPrefix(m, dir) => m \in C
  <2>1. \A m \in Seq(Word) : IsPrefix(m, cwd) => m = SubSeq(cwd, 1, Len(m)) /\ Len(m) \in 0..Len(cwd)
    BY PrefixAndRest
  <2>. QED  BY <2>1 DEF CommonPrefixes, Prefixes
<1>4. \E m \in C : \A o \in C : Len(o) <= Len(m)
  <2> DEFINE gaps == {Len(cwd) - Len(m) : m \in C}
  <2>1. \A m \in C : Len(m) \in 0..Len(cwd)
    BY <1>2, PrefixAndRest
  <2>2. gaps \in SUBSET Nat
    <3>1. \A m \in C : Len(cwd) - Len(m) \in Nat
      BY <1>1, <2>1
    <3>. HIDE DEF C
    <3>. QED  BY <3>1
  <2>3. <<>> \in C
    <3>1. <<>> \in Seq(Word) /\ Len(<<>>) = 0
      BY EmptySeq
    <3>2. SubSeq(<<>>, 1, 0) = <<>> /\ SubSeq(cwd, 1, 0) = <<>> /\ SubSeq(dir, 1, 0) = <<>>
      BY SubSeqEmpty
    <3>3. IsPrefix(<<>>, cwd) /\ IsPrefix(<<>>, dir)
      BY <1>1, <3>1, <3>2 DEF IsPrefix
    <3>. HIDE DEF C
    <3>. QED  BY <1>3, <3>1, <3>3
  <2>4. gaps # {}
    BY <2>3
  <2> HIDE DEF gaps
  <2>5. PICK g \in gaps : \A h \in gaps : g <= h
    BY <2>2, <2>4, LeastNatural
  <2>6. PICK m \in C : g = Len(cwd) - Len(m)
    BY <2>5 DEF gaps
  <2>7. ASSUME NEW o \in C PROVE Len(o) <= Len(m)
    <3>1. Len(cwd) - Len(m) <= Len(cwd) - Len(o)
      BY <2>5, <2>6 DEF gaps
    <3>. QED  BY <1>1, <2>1, <3>1
  <2>. QED  BY <2>7
<1> HIDE DEF C
<1>5. PICK m \in C : m = LongestCommonPrefix({cwd, dir}) /\ \A o \in C : Len(o) <= Len(m)
  BY <1>4 DEF LongestCommonPrefix, C
<1> DEFINE c == Len(m)
<1>6. c \in 0..Len(cwd) /\ c <= Len(dir) /\ SubSeq(cwd, 1, c) = SubSeq(dir, 1, c)
  <2>1. m \in Seq(Word) /\ IsPrefix(m, cwd) /\ IsPrefix(m, dir)
    BY <1>2, <1>5
  <2>2. /\ c \in Nat /\ c <= Len(cwd) /\ SubSeq(cwd, 1, c) = m
        /\ c <= Len(dir) /\ SubSeq(dir, 1, c) = m
    BY <2>1, PrefixAndRest
  <2>. QED  BY <1>1, <2>2
<1>7. Rel(cwd, dir) = Path(FALSE, Ups(Len(cwd) - c) \o SubSeq(dir, c + 1, Len(dir)))
  BY <1>5 DEF Rel, Ups
<1>. QED  BY <1>3, <1>5, <1>6, <1>7

LEMMA Associative ==
  \A s, t, u \in Seq(Word) : (s \o t) \o u = s \o (t \o u)
BY ConcatAssociative

LEMMA FrontOfConcat ==
  ASSUME NEW s \in Seq(Word), NEW t \in Seq(Word), NEW j \in 0..(Len(s) + Len(t))
  PROVE  SubSeq(s \o t, 1, j) = IF j <= Len(s) THEN SubSeq(s, 1, j)
                                ELSE s \o SubSeq(t, 1, j - Len(s))
<1>1. /\ s \o t \in Seq(Word) /\ Len(s \o t) = Len(s) + Len(t)
      /\ \A i \in 1..(Len(s) + Len(t)) : (s \o t)[i] = IF i <= Len(s) THEN s[i] ELSE t[i - Len(s)]
  BY ConcatProperties
<1>2. Len(s) \in Nat /\ Len(t) \in Nat
  BY LenProperties
<1> DEFINE h == SubSeq(s \o t, 1, j)
<1>3. h \in Seq(Word) /\ Len(h) = j /\ \A i \in 1..j : h[i] = (s \o t)[i]
  BY <1>1, <1>2, PieceOfSeq
<1>4. CASE j <= Len(s)
  <2> DEFINE g == SubSeq(s, 1, j)
  <2>1. g \in Seq(Word) /\ Len(g) = j /\ \A i \in 1..j : g[i] = s[i]
    BY <1>2, <1>4, PieceOfSeq
  <2>2. h = g
    <3>1. \A i \in 1..j : h[i] = g[i]
      BY <1>1, <1>2, <1>3, <1>4, <2>1
    <3>. QED  BY <1>3, <2>1, <3>1, SeqEqual
  <2>. QED  BY <1>4, <2>2
<1>5. CASE j > Len(s)
  <2> DEFINE r == SubSeq(t, 1, j - Len(s))
  <2>1. /\ r \in Seq(Word) /\ Len(r) = j - Len(s)
        /\ \A i \in 1..(j - Len(s)) : r[i] = t[i]
    <3>1. j - Len(s) \in Int /\ j - Len(s) <= Len(t) /\ 1 <= j - Len(s)
      BY <1>2, <1>5
    <3>. QED  BY <3>1, PieceOfSeq
  <2> HIDE DEF r
  <2>2. /\ s \o r \in Seq(Word) /\ Len(s \o r) = Len(s) + Len(r)
        /\ \A i \in 1..(Len(s) + Len(r)) : (s \o r)[i] = IF i <= Len(s) THEN s[i] ELSE r[i - Len(s)]
    BY <2>1, ConcatProperties
  <2>3. Len(s \o r) = j
    BY <1>2, <2>1, <2>2
  <2>4. \A i \in 1..j : h[i] = (s \o r)[i]
    <3>1. ASSUME NEW i \in 1..j PROVE h[i] = (s \o r)[i]
      <4>1. i \in 1..(Len(s) + Len(t)) /\ i \in 1..(Len(s) + Len(r))
        BY <1>2, <2>1
      <4>2. CASE i <= Len(s)
        BY <1>1, <1>3, <2>2, <4>1, <4>2
      <4>3. CASE ~(i <= Len(s))
        <5>1. i - Len(s) \in 1..(j - Len(s))
          BY <1>2, <4>3
        <5>2. r[i - Len(s)] = t[i - Len(s)]
          BY <2>1, <5>1
        <5>. QED  BY <1>1, <1>3, <2>2, <4>1, <4>3, <5>2
      <4>. QED  BY <4>2, <4>3
    <3>. QED  BY <3>1
  <2>5. h = s \o r
    BY <1>3, <2>2, <2>3, <2>4, SeqEqual
  <2>. QED  BY <1>2, <1>5, <2>5 DEF r
<1>. QED  BY <1>2, <1>4, <1>5

LEMMA FrontOfUps == ASSUME NEW k \in Nat, NEW j \in 0..k PROVE SubSeq(Ups(k), 1, j) = Ups(j)
<1>1. /\ Ups(k) \in Seq(Word) /\ Len(Ups(k)) = k /\ \A i \in 1..k : Ups(k)[i] = ".."
      /\ Ups(j) \in Seq(Word) /\ Len(Ups(j)) = j /\ \A i \in 1..j : Ups(j)[i] = ".."
  <2>1. j \in Nat
    OBVIOUS
  <2>. QED  BY <2>1, UpsSeq
<1>2. /\ SubSeq(Ups(k), 1, j) \in Seq(Word) /\ Len(SubSeq(Ups(k), 1, j)) = j
      /\ \A i \in 1..j : SubSeq(Ups(k), 1, j)[i] = Ups(k)[i]
  BY <1>1, PieceOfSeq
<1>3. \A i \in 1..j : SubSeq(Ups(k), 1, j)[i] = Ups(j)[i]
  BY <1>1, <1>2
<1>. QED  BY <1>1, <1>2, <1>3, SeqEqual

\* The directories that are passed on the way from cwd to a directory by Rel.
Passing(cwd, dir, c, j) ==
  IF j <= Len(cwd) - c THEN SubSeq(cwd, 1, Len(cwd) - j) ELSE SubSeq(dir, 1, j - (Len(cwd) - c) + c)

LEMMA RelPassing ==
  ASSUME NEW cwd \in Seq(Word), NEW dir \in Seq(Name)
  PROVE  \E c \in 0..Len(cwd) :
           /\ c <= Len(dir) /\ SubSeq(cwd, 1, c) = SubSeq(dir, 1, c)
           /\ \A m \in Seq(Word) : IsPrefix(m, cwd) /\ IsPrefix(m, dir) => Len(m) <= c
           /\ Rel(cwd, dir) = Path(FALSE, Rel(cwd, dir).names)
           /\ Rel(cwd, dir).names \in Seq(Word)
           /\ Len(Rel(cwd, dir).names) = Len(cwd) - c + (Len(dir) - c)
           /\ \A j \in 0..Len(Rel(cwd, dir).names), rest \in Seq(Name) :
                Abs(Path(FALSE, SubSeq(Rel(cwd, dir).names, 1, j) \o rest), cwd)
                  = Passing(cwd, dir, c, j) \o rest
<1>1. dir \in Seq(Word) /\ Len(dir) \in Nat /\ Len(cwd) \in Nat
  BY SeqOfNames, LenProperties
<1>2. PICK c \in 0..Len(cwd) :
           /\ c <= Len(dir) /\ SubSeq(cwd, 1, c) = SubSeq(dir, 1, c)
           /\ \A m \in Seq(Word) : IsPrefix(m, cwd) /\ IsPrefix(m, dir) => Len(m) <= c
           /\ Rel(cwd, dir) = Path(FALSE, Ups(Len(cwd) - c) \o SubSeq(dir, c + 1, Len(dir)))
  BY <1>1, RelShape
<1> DEFINE k == Len(cwd) - c
           t == SubSeq(dir, c + 1, Len(dir))
           names == Ups(k) \o t
<1>3. k \in Nat /\ k \in 0..Len(cwd)
  BY <1>1
<1>4. t \in Seq(Name) /\ t \in Seq(Word) /\ Len(t) = Len(dir) - c
  <2>1. t \in Seq(Name) /\ Len(t) = Len(dir) - c
    <3>1. c + 1 \in Nat \ {0} /\ Len(dir) \in Int /\ c <= Len(dir)
      BY <1>1, <1>2
    <3>2. /\ SubSeq(dir, c + 1, Len(dir)) \in Seq(Name)
          /\ Len(SubSeq(dir, c + 1, Len(dir))) = IF c + 1 <= Len(dir) THEN Len(dir) - (c + 1) + 1 ELSE 0
      BY <3>1, PieceOfSeq
    <3>. QED  BY <3>1, <3>2
  <2>. QED  BY <2>1, SeqOfNames
<1>5. Rel(cwd, dir).names = names /\ Rel(cwd, dir) = Path(FALSE, names)
  <2>1. \A x : Path(FALSE, x).names = x
    BY DEF Path
  <2>. QED  BY <1>2, <2>1
<1>6. Ups(k) \in Seq(Word) /\ Len(Ups(k)) = k
  BY <1>3, UpsSeq
<1> HIDE DEF t
<1>7. names \in Seq(Word) /\ Len(names) = k + (Len(dir) - c)
  BY <1>4, <1>6, ConcatProperties
<1> HIDE DEF k, names
<1>8. ASSUME NEW j \in 0..Len(names), NEW rest \in Seq(Name)
      PROVE  Abs(Path(FALSE, SubSeq(names, 1, j) \o rest), cwd) = Passing(cwd, dir, c, j) \o rest
  <2>1. j \in Nat /\ j \in 0..(Len(Ups(k)) + Len(t))
    BY <1>1, <1>3, <1>4, <1>6, <1>7
  <2>2. SubSeq(names, 1, j) = IF j <= k THEN SubSeq(Ups(k), 1, j) ELSE Ups(k) \o SubSeq(t, 1, j - k)
    BY <1>4, <1>6, <2>1, FrontOfConcat DEF names
  <2>3. CASE j <= k
    <3>1. j \in 0..k /\ j \in 0..Len(cwd)
      BY <1>3, <2>1, <2>3
    <3>2. SubSeq(names, 1, j) = Ups(j)
      BY <1>3, <2>2, <2>3, <3>1, FrontOfUps
    <3>3. Abs(Path(FALSE, Ups(j) \o rest), cwd) = SubSeq(cwd, 1, Len(cwd) - j) \o rest
      BY <3>1, AbsRelative
    <3>4. Passing(cwd, dir, c, j) = SubSeq(cwd, 1, Len(cwd) - j)
      BY <2>3 DEF Passing, k
    <3>. QED  BY <3>2, <3>3, <3>4
  <2>4. CASE ~(j <= k)
    <3> DEFINE r == SubSeq(t, 1, j - k)
    <3>0. j > k
      BY <1>3, <2>1, <2>4
    <3>1. j - k \in 1..Len(t) /\ j - k \in Int
      BY <1>1, <1>3, <1>4, <1>6, <2>1, <3>0
    <3>2. r \in Seq(Name) /\ r \in Seq(Word)
      <4>1. r \in Seq(Name)
        BY <1>4, <3>1, PieceOfSeq
      <4>. QED  BY <4>1, SeqOfNames
    <3>3. rest \in Seq(Word)
      BY SeqOfNames
    <3>4. SubSeq(dir, 1, c) \in Seq(Word)
      BY <1>1, <1>2, PieceOfSeq
    <3>5. SubSeq(dir, 1, c) \o r = SubSeq(dir, 1, j - k + c)
      <4>1. r = SubSeq(dir, c + 1, c + (j - k))
        <5>1. c \in 0..Len(dir) /\ j - k \in 1..(Len(dir) - c)
          BY <1>1, <1>2, <1>4, <3>1
        <5>2. \A n \in 1..(Len(dir) - c) :
                SubSeq(SubSeq(dir, c + 1, Len(dir)), 1, n) = SubSeq(dir, c + 1, c + n)
          BY <1>1, <5>1, DropTake
        <5>3. r = SubSeq(SubSeq(dir, c + 1, Len(dir)), 1, j - k)
          BY DEF t
        <5>. QED  BY <5>1, <5>2, <5>3
      <4>2. /\ 1 \in 1..(Len(dir) + 1) /\ c \in (1 - 1)..Len(dir) /\ c + (j - k) \in c..Len(dir)
        BY <1>1, <1>2, <1>4, <3>1
      <4>3. SubSeq(dir, 1, c) \o SubSeq(dir, c + 1, c + (j - k)) = SubSeq(dir, 1, c + (j - k))
        BY <1>1, <4>2, ConcatAdjacentSubSeq
      <4>4. c + (j - k) = j - k + c
        BY <1>1, <3>1
      <4>. QED  BY <4>1, <4>3, <4>4
    <3> HIDE DEF r
    <3>6. r \o rest \in Seq(Name)
      BY <3>2, ConcatProperties
    <3>7. (Ups(k) \o r) \o rest = Ups(k) \o (r \o rest)
      BY <1>6, <3>2, <3>3, Associative
    <3>8. Abs(Path(FALSE, Ups(k) \o (r \o rest)), cwd) = SubSeq(cwd, 1, Len(cwd) - k) \o (r \o rest)
      BY <1>3, <3>6, AbsRelative
    <3>9. Len(cwd) - k = c
      BY <1>1 DEF k
    <3>10. (SubSeq(dir, 1, c) \o r) \o rest = SubSeq(dir, 1, c) \o (r \o rest)
      BY <3>2, <3>3, <3>4, Associative
    <3>11. SubSeq(names, 1, j) = Ups(k) \o r
      BY <2>2, <2>4 DEF r
    <3>12. Passing(cwd, dir, c, j) = SubSeq(dir, 1, j - k + c)
      BY <1>3, <2>1, <2>4 DEF Passing, k
    <3>. QED  BY <1>2, <3>5, <3>7, <3>8, <3>9, <3>10, <3>11, <3>12
  <2>. QED  BY <2>3, <2>4
<1>. QED  BY <1>2, <1>5, <1>7, <1>8 DEF k

\* What the ent package's import path and directory have in common.
Below(l) == SubSeq(l.ent, Len(l.module) + 1, Len(l.ent))

LEMMA LayoutDirs ==
  ASSUME NEW l \in Layouts
  PROVE  /\ l.module \in Seq(Word) /\ l.module \in DOMAIN l.goMod /\ Len(l.module) \in Nat
         /\ \A d \in {l.schema, l.ent} :
              /\ d \in Seq(Name) /\ d \in Seq(Word) /\ Len(d) \in Nat
              /\ IsPrefix(l.module, d) /\ Len(l.module) <= Len(d)
              /\ SubSeq(d, 1, Len(l.module)) = l.module
              /\ \A k \in 0..Len(d) : SubSeq(d, 1, k) \in DOMAIN l.goMod => k <= Len(l.module)
<1>1. l.module \in Seq(STRING) /\ OneModule(l)
  OBVIOUS
<1>2. l.module \in Seq(Word)
  <2>1. STRING \subseteq Word
    BY DEF Word
  <2>. QED  BY <1>1, <2>1, SeqMonotonic
<1>3. Len(l.module) \in Nat
  BY <1>2, LenProperties
<1>4. ASSUME NEW d \in {l.schema, l.ent}
      PROVE  /\ d \in Seq(Name) /\ d \in Seq(Word) /\ Len(d) \in Nat
             /\ IsPrefix(l.module, d) /\ Len(l.module) <= Len(d)
             /\ SubSeq(d, 1, Len(l.module)) = l.module
             /\ \A k \in 0..Len(d) : SubSeq(d, 1, k) \in DOMAIN l.goMod => k <= Len(l.module)
  <2>1. /\ d \in Seq(Name) /\ IsPrefix(l.module, d)
        /\ \A k \in (Len(l.module) + 1)..Len(d) : SubSeq(d, 1, k) \notin DOMAIN l.goMod
    BY <1>1, Zenon DEF OneModule, Name
  <2>2. d \in Seq(Word)
    BY <2>1, SeqOfNames
  <2>3. Len(d) \in Nat /\ Len(l.module) <= Len(d) /\ SubSeq(d, 1, Len(l.module)) = l.module
    BY <1>2, <2>1, <2>2, PrefixAndRest
  <2>4. \A k \in 0..Len(d) : SubSeq(d, 1, k) \in DOMAIN l.goMod => k <= Len(l.module)
    BY <1>3, <2>1, <2>3
  <2>. QED  BY <2>1, <2>2, <2>3, <2>4
<1>5. l.module \in DOMAIN l.goMod
  BY <1>1, Zenon DEF OneModule
<1>. QED  BY <1>2, <1>3, <1>4, <1>5

LEMMA PackageDir ==
  ASSUME NEW l \in Layouts
  PROVE  /\ Below(l) \in Seq(Name) /\ l.module \o Below(l) = l.ent /\ l.ent \in l.dirs
         /\ IsPrefix(l.goMod[l.module], l.entPackage)
         /\ SubSeq(l.entPackage, Len(l.goMod[l.module]) + 1, Len(l.entPackage)) = Below(l)
<1>1. /\ l.goMod[l.module] \in Seq(STRING) /\ l.ent \in l.dirs
      /\ l.entPackage = l.goMod[l.module] \o Below(l)
  BY Zenon DEF OneModule, Below
<1>2. /\ l.module \in Seq(Word) /\ Len(l.module) \in Nat /\ l.ent \in Seq(Name) /\ l.ent \in Seq(Word)
      /\ Len(l.ent) \in Nat /\ IsPrefix(l.module, l.ent)
  BY LayoutDirs
<1>3. l.goMod[l.module] \in Seq(Word)
  <2>1. STRING \subseteq Word
    BY DEF Word
  <2>. QED  BY <1>1, <2>1, SeqMonotonic
<1>4. Below(l) \in Seq(Name)
  <2>1. Len(l.module) + 1 \in Nat \ {0} /\ Len(l.ent) \in Int /\ Len(l.ent) <= Len(l.ent)
    BY <1>2
  <2>. QED  BY <1>2, <2>1, PieceOfSeq DEF Below
<1>5. Below(l) \in Seq(Word)
  BY <1>4, SeqOfNames
<1>6. l.module \o Below(l) = l.ent
  BY <1>2, PrefixAndRest DEF Below
<1>7. /\ IsPrefix(l.goMod[l.module], l.goMod[l.module] \o Below(l))
      /\ SubSeq(l.goMod[l.module] \o Below(l), Len(l.goMod[l.module]) + 1,
                Len(l.goMod[l.module] \o Below(l))) = Below(l)
  BY <1>3, <1>5, RestOfConcat
<1>. QED  BY <1>1, <1>4, <1>6, <1>7

\* On the relative way to the schemas no go.mod is passed but that of their module,
\* and from there it is the same names down to the ent package.
LEMMA RelativeWay ==
  ASSUME NEW l \in Layouts, NEW cwd \in {l.module, l.ent}, NEW names, names = Rel(cwd, l.schema).names
  PROVE  /\ Rel(cwd, l.schema) = Path(FALSE, names) /\ Len(names) \in Nat
         /\ Abs(Path(FALSE, names), cwd) = l.schema
         /\ \A j \in 0..Len(names) :
              Abs(Path(FALSE, SubSeq(names, 1, j)), cwd) \in DOMAIN l.goMod =>
                /\ Abs(Path(FALSE, SubSeq(names, 1, j)), cwd) = l.module
                /\ Abs(Path(FALSE, SubSeq(names, 1, j) \o Below(l)), cwd) = l.ent
                /\ cwd = l.module => j = 0
         /\ cwd = l.module => Abs(Path(FALSE, SubSeq(names, 1, 0)), cwd) = l.module
<1> DEFINE dir == l.schema
           m == Len(l.module)
<1>1. /\ l.module \in Seq(Word) /\ l.module \in DOMAIN l.goMod /\ m \in Nat
      /\ dir \in Seq(Name) /\ dir \in Seq(Word) /\ Len(dir) \in Nat /\ IsPrefix(l.module, dir)
      /\ \A k \in 0..Len(dir) : SubSeq(dir, 1, k) \in DOMAIN l.goMod => k <= m
  BY LayoutDirs
<1>2. SubSeq(l.module, 1, m) = l.module
  BY <1>1, SubSeqFull
<1>3. /\ cwd \in Seq(Word) /\ Len(cwd) \in Nat /\ IsPrefix(l.module, cwd) /\ m <= Len(cwd)
      /\ SubSeq(cwd, 1, m) = l.module
      /\ \A k \in 0..Len(cwd) : SubSeq(cwd, 1, k) \in DOMAIN l.goMod => k <= m
  <2>1. CASE cwd = l.ent
    BY <2>1, LayoutDirs
  <2>2. CASE cwd = l.module
    <3>1. IsPrefix(l.module, l.module)
      BY <1>1 DEF IsPrefix
    <3>. QED  BY <1>1, <1>2, <2>2, <3>1
  <2>. QED  BY <2>1, <2>2
<1>4. PICK c \in 0..Len(cwd) :
           /\ c <= Len(dir) /\ SubSeq(cwd, 1, c) = SubSeq(dir, 1, c)
           /\ \A o \in Seq(Word) : IsPrefix(o, cwd) /\ IsPrefix(o, dir) => Len(o) <= c
           /\ Rel(cwd, dir) = Path(FALSE, names) /\ names \in Seq(Word)
           /\ Len(names) = Len(cwd) - c + (Len(dir) - c)
           /\ \A j \in 0..Len(names), rest \in Seq(Name) :
                Abs(Path(FALSE, SubSeq(names, 1, j) \o rest), cwd) = Passing(cwd, dir, c, j) \o rest
  <2>1. \E c \in 0..Len(cwd) :
           /\ c <= Len(dir) /\ SubSeq(cwd, 1, c) = SubSeq(dir, 1, c)
           /\ \A o \in Seq(Word) : IsPrefix(o, cwd) /\ IsPrefix(o, dir) => Len(o) <= c
           /\ Rel(cwd, dir) = Path(FALSE, Rel(cwd, dir).names) /\ Rel(cwd, dir).names \in Seq(Word)
           /\ Len(Rel(cwd, dir).names) = Len(cwd) - c + (Len(dir) - c)
           /\ \A j \in 0..Len(Rel(cwd, dir).names), rest \in Seq(Name) :
                Abs(Path(FALSE, SubSeq(Rel(cwd, dir).names, 1, j) \o rest), cwd)
                  = Passing(cwd, dir, c, j) \o rest
    BY <1>1, <1>3, RelPassing
  <2>. QED  BY <2>1, Zenon
<1>5. m <= c
  BY <1>1, <1>3, <1>4
<1>6. /\ Len(names) \in Nat /\ c \in Nat /\ c <= Len(cwd) /\ c <= Len(dir)
      /\ Len(names) = Len(cwd) - c + (Len(dir) - c) /\ names \in Seq(Word)
  <2>1. names \in Seq(Word) /\ Len(names) = Len(cwd) - c + (Len(dir) - c) /\ c <= Len(dir)
    BY <1>4
  <2>2. c \in Nat /\ c <= Len(cwd)
    BY <1>3
  <2>. HIDE DEF dir
  <2>. QED  BY <1>1, <1>3, <2>1, <2>2
<1>7. <<>> \in Seq(Name)
  BY EmptySeq
<1>8. ASSUME NEW j \in 0..Len(names)
      PROVE  Abs(Path(FALSE, SubSeq(names, 1, j)), cwd) = Passing(cwd, dir, c, j)
  <2>1. SubSeq(names, 1, j) \in Seq(Word)
    <3>1. names \in Seq(Word) /\ j \in Int /\ j <= Len(names)
      BY <1>6
    <3>. QED  BY <3>1, PieceOfSeq
  <2>2. SubSeq(names, 1, j) \o <<>> = SubSeq(names, 1, j)
    BY <2>1, ConcatEmptySeq
  <2>3. Passing(cwd, dir, c, j) \in Seq(Word)
    <3>1. CASE j <= Len(cwd) - c
      <4>1. Len(cwd) - j \in Int /\ Len(cwd) - j <= Len(cwd)
        BY <1>3
      <4>2. SubSeq(cwd, 1, Len(cwd) - j) \in Seq(Word)
        BY <1>3, <4>1, PieceOfSeq
      <4>. QED  BY <3>1, <4>2 DEF Passing
    <3>2. CASE ~(j <= Len(cwd) - c)
      <4>1. j - (Len(cwd) - c) + c \in Int /\ j - (Len(cwd) - c) + c <= Len(dir)
        BY <1>1, <1>3, <1>6
      <4>2. SubSeq(dir, 1, j - (Len(cwd) - c) + c) \in Seq(Word)
        BY <1>1, <4>1, PieceOfSeq
      <4>. QED  BY <3>2, <4>2 DEF Passing
    <3>. QED  BY <3>1, <3>2
  <2>4. Passing(cwd, dir, c, j) \o <<>> = Passing(cwd, dir, c, j)
    BY <2>3, ConcatEmptySeq
  <2>. QED  BY <1>4, <1>7, <2>2, <2>4
<1>9. ASSUME NEW j \in 0..Len(names), Passing(cwd, dir, c, j) \in DOMAIN l.goMod
      PROVE  j = Len(cwd) - m /\ j <= Len(cwd) - c /\ Passing(cwd, dir, c, j) = l.module
  <2>1. CASE j <= Len(cwd) - c
    <3>1. Passing(cwd, dir, c, j) = SubSeq(cwd, 1, Len(cwd) - j)
      BY <2>1 DEF Passing
    <3>2. Len(cwd) - j \in 0..Len(cwd)
      BY <1>3, <1>4, <2>1
    <3>3. Len(cwd) - j <= m
      BY <1>3, <1>9, <3>1, <3>2
    <3>4. Len(cwd) - j = m
      BY <1>1, <1>3, <1>4, <1>5, <2>1, <3>3
    <3>5. j = Len(cwd) - m
      BY <1>1, <1>3, <3>4
    <3>. QED  BY <1>3, <2>1, <3>1, <3>4, <3>5
  <2>2. CASE ~(j <= Len(cwd) - c)
    <3> DEFINE k == j - (Len(cwd) - c) + c
    <3>1. Passing(cwd, dir, c, j) = SubSeq(dir, 1, k)
      BY <2>2 DEF Passing
    <3>2. k \in 0..Len(dir) /\ k > c
      BY <1>1, <1>3, <1>6, <2>2
    <3>3. k <= m
      <4>. HIDE DEF k
      <4>. QED  BY <1>1, <1>9, <3>1, <3>2
    <3>. QED  BY <1>1, <1>5, <3>2, <3>3
  <2>. QED  BY <2>1, <2>2
<1>10. Abs(Path(FALSE, names), cwd) = l.schema
  <2>1. SubSeq(names, 1, Len(names)) = names
    BY <1>4, SubSeqFull
  <2>2. Abs(Path(FALSE, names), cwd) = Passing(cwd, dir, c, Len(names))
    <3>1. Len(names) \in 0..Len(names)
      BY <1>6
    <3>2. Abs(Path(FALSE, SubSeq(names, 1, Len(names))), cwd) = Passing(cwd, dir, c, Len(names))
      BY <1>8, <3>1
    <3>. QED  BY <2>1, <3>2
  <2>3. SubSeq(dir, 1, Len(dir)) = dir
    BY <1>1, SubSeqFull
  <2>4. CASE Len(names) <= Len(cwd) - c
    <3>1. c = Len(dir) /\ Len(cwd) - Len(names) = c
      <4> HIDE DEF dir
      <4>1. Len(dir) \in Nat
        BY <1>1 DEF dir
      <4>2. Len(cwd) \in Nat
        BY <1>3
      <4>3. /\ c \in Nat /\ c <= Len(dir) /\ Len(names) <= Len(cwd) - c
            /\ Len(names) = Len(cwd) - c + (Len(dir) - c)
        BY <1>6, <2>4
      <4>4. ASSUME NEW x \in Nat, NEW y \in Nat, NEW z, NEW w \in Nat,
                   w <= y, z <= x - w, z = x - w + (y - w)
            PROVE  w = y /\ x - z = w
        BY <4>4
      <4>. QED  BY <4>1, <4>2, <4>3, <4>4
    <3>2. Passing(cwd, dir, c, Len(names)) = SubSeq(cwd, 1, Len(cwd) - Len(names))
      BY <2>4 DEF Passing
    <3>. QED  BY <1>4, <2>2, <2>3, <3>1, <3>2
  <2>5. CASE ~(Len(names) <= Len(cwd) - c)
    <3>1. Len(names) - (Len(cwd) - c) + c = Len(dir)
      BY <1>1, <1>3, <1>6
    <3>2. Passing(cwd, dir, c, Len(names)) = SubSeq(dir, 1, Len(names) - (Len(cwd) - c) + c)
      BY <2>5 DEF Passing
    <3>. QED  BY <2>2, <2>3, <3>1, <3>2
  <2>. QED  BY <2>4, <2>5
<1>11. ASSUME NEW j \in 0..Len(names), Abs(Path(FALSE, SubSeq(names, 1, j)), cwd) \in DOMAIN l.goMod
       PROVE  /\ Abs(Path(FALSE, SubSeq(names, 1, j)), cwd) = l.module
              /\ Abs(Path(FALSE, SubSeq(names, 1, j) \o Below(l)), cwd) = l.ent
              /\ cwd = l.module => j = 0
  <2>1. Abs(Path(FALSE, SubSeq(names, 1, j)), cwd) = Passing(cwd, dir, c, j)
    BY <1>8
  <2>2. j = Len(cwd) - m /\ Passing(cwd, dir, c, j) = l.module
    BY <1>9, <1>11, <2>1
  <2>3. Below(l) \in Seq(Name) /\ l.module \o Below(l) = l.ent
    BY PackageDir
  <2>4. Abs(Path(FALSE, SubSeq(names, 1, j) \o Below(l)), cwd) = l.ent
    BY <1>4, <2>2, <2>3
  <2>5. cwd = l.module => j = 0
    BY <1>1, <2>2
  <2>. QED  BY <2>1, <2>2, <2>4, <2>5
<1>12. ASSUME cwd = l.module
       PROVE  Abs(Path(FALSE, SubSeq(names, 1, 0)), cwd) = l.module
  <2>1. 0 \in 0..Len(names) /\ 0 <= Len(cwd) - c /\ Len(cwd) - 0 = m
    <3>1. Len(cwd) = m
      BY <1>12
    <3>. HIDE DEF m, dir
    <3>. QED  BY <1>1, <1>5, <1>6, <3>1
  <2>2. Passing(cwd, dir, c, 0) = SubSeq(cwd, 1, m)
    BY <2>1 DEF Passing
  <2>. QED  BY <1>3, <1>8, <2>1, <2>2
<1>. QED  BY <1>4, <1>6, <1>10, <1>11, <1>12

LEMMA PathParts == ASSUME NEW b, NEW x PROVE Path(b, x).absolute = b /\ Path(b, x).names = x
BY DEF Path

\* FindModuleRoot, by the number of names that are left of the path.
LEMMA RootsAlong ==
  ASSUME NEW goMod, NEW cwd, NEW b, NEW names, NEW q
  PROVE  q \in FindModuleRoot(goMod, Path(b, names), cwd) <=>
           \E k \in 0..Len(names) :
             /\ q = Path(b, SubSeq(names, 1, k))
             /\ Abs(Path(b, SubSeq(names, 1, k)), cwd) \in DOMAIN goMod
             /\ \A j \in 0..Len(names) :
                  Abs(Path(b, SubSeq(names, 1, j)), cwd) \in DOMAIN goMod =>
                    Len(SubSeq(names, 1, j)) <= Len(SubSeq(names, 1, k))
<1> DEFINE p == Path(b, names)
           Up(k) == Path(p.absolute, SubSeq(p.names, 1, k))
           above == {Up(k) : k \in 0..Len(p.names)}
           roots == {r \in above : Abs(r, cwd) \in DOMAIN goMod}
<1>1. p.absolute = b /\ p.names = names /\ \A x : Path(b, x).names = x
  BY PathParts
<1>2. ASSUME NEW k PROVE Up(k) = Path(b, SubSeq(names, 1, k)) /\ Up(k).names = SubSeq(names, 1, k)
  BY <1>1
<1>3. FindModuleRoot(goMod, p, cwd) = {r \in roots : \A o \in roots : Len(o.names) <= Len(r.names)}
  BY Zenon DEF FindModuleRoot
<1> HIDE DEF p, Up
<1>4. \A r : r \in roots <=> \E k \in 0..Len(names) : r = Up(k) /\ Abs(Up(k), cwd) \in DOMAIN goMod
  BY <1>1
<1> HIDE DEF roots
<1>5. q \in FindModuleRoot(goMod, p, cwd) <=> q \in roots /\ \A o \in roots : Len(o.names) <= Len(q.names)
  BY <1>3
<1>6. q \in FindModuleRoot(goMod, p, cwd) <=>
        \E k \in 0..Len(names) :
          /\ q = Up(k) /\ Abs(Up(k), cwd) \in DOMAIN goMod
          /\ \A j \in 0..Len(names) : Abs(Up(j), cwd) \in DOMAIN goMod => Len(Up(j).names) <= Len(Up(k).names)
  BY <1>4, <1>5, Zenon
<1>. QED  BY <1>2, <1>6 DEF p

\* The same for the absolute path of the schemas: it ends at their module.
LEMMA AbsoluteRoot ==
  ASSUME NEW l \in Layouts, NEW cwd, NEW q
  PROVE  q \in FindModuleRoot(l.goMod, Path(TRUE, l.schema), cwd) <=> q = Path(TRUE, l.module)
<1> DEFINE dir == l.schema
           m == Len(l.module)
<1>1. /\ l.module \in DOMAIN l.goMod /\ m \in Nat
      /\ dir \in Seq(Word) /\ Len(dir) \in Nat /\ m <= Len(dir) /\ SubSeq(dir, 1, m) = l.module
      /\ \A k \in 0..Len(dir) : SubSeq(dir, 1, k) \in DOMAIN l.goMod => k <= m
  BY LayoutDirs
<1>2. \A k : Abs(Path(TRUE, SubSeq(dir, 1, k)), cwd) = SubSeq(dir, 1, k)
  BY AbsAbsolute
<1>3. \A k \in 0..Len(dir) : Len(SubSeq(dir, 1, k)) = k
  BY <1>1, PieceOfSeq
<1>4. q \in FindModuleRoot(l.goMod, Path(TRUE, l.schema), cwd) <=>
        \E k \in 0..Len(dir) :
          /\ q = Path(TRUE, SubSeq(dir, 1, k)) /\ SubSeq(dir, 1, k) \in DOMAIN l.goMod
          /\ \A j \in 0..Len(dir) : SubSeq(dir, 1, j) \in DOMAIN l.goMod =>
                                   Len(SubSeq(dir, 1, j)) <= Len(SubSeq(dir, 1, k))
  <2>1. q \in FindModuleRoot(l.goMod, Path(TRUE, l.schema), cwd) <=>
          \E k \in 0..Len(dir) :
            /\ q = Path(TRUE, SubSeq(dir, 1, k))
            /\ Abs(Path(TRUE, SubSeq(dir, 1, k)), cwd) \in DOMAIN l.goMod
            /\ \A j \in 0..Len(dir) :
                 Abs(Path(TRUE, SubSeq(dir, 1, j)), cwd) \in DOMAIN l.goMod =>
                   Len(SubSeq(dir, 1, j)) <= Len(SubSeq(dir, 1, k))
    BY RootsAlong, Zenon
  <2>. QED  BY <1>2, <2>1, Zenon
<1> HIDE DEF dir, m
<1>5. m \in 0..Len(dir)
  BY <1>1
<1>6. ASSUME NEW k \in 0..Len(dir), SubSeq(dir, 1, k) \in DOMAIN l.goMod,
             \A j \in 0..Len(dir) : SubSeq(dir, 1, j) \in DOMAIN l.goMod =>
                                   Len(SubSeq(dir, 1, j)) <= Len(SubSeq(dir, 1, k))
      PROVE  k = m
  <2>1. k <= m
    BY <1>1, <1>6
  <2>2. m <= k
    BY <1>1, <1>3, <1>5, <1>6
  <2>. QED  BY <1>1, <2>1, <2>2
<1>7. \A j \in 0..Len(dir) : SubSeq(dir, 1, j) \in DOMAIN l.goMod =>
                             Len(SubSeq(dir, 1, j)) <= Len(SubSeq(dir, 1, m))
  BY <1>1, <1>3, <1>5
<1>. QED  BY <1>1, <1>4, <1>5, <1>6, <1>7

\* Wherever the search for go.mod ends, it maps the import path onto the ent package.
LEMMA RootsMapped ==
  ASSUME NEW l \in Layouts, NEW cwd \in {l.module, l.ent},
         NEW p \in {Path(TRUE, l.schema), Rel(cwd, l.schema)},
         NEW q \in FindModuleRoot(l.goMod, p, cwd)
  PROVE  Abs(q, cwd) = l.module /\ Abs(Path(q.absolute, q.names \o Below(l)), cwd) = l.ent
<1>1. \A b, x : Path(b, x).absolute = b /\ Path(b, x).names = x
  BY PathParts
<1>2. l.module \o Below(l) = l.ent
  BY PackageDir
<1>3. CASE p = Path(TRUE, l.schema)
  <2>1. q = Path(TRUE, l.module)
    BY <1>3, AbsoluteRoot
  <2>2. Abs(q, cwd) = l.module
    BY <2>1, AbsAbsolute
  <2>3. Path(q.absolute, q.names \o Below(l)) = Path(TRUE, l.ent)
    BY <1>1, <1>2, <2>1, Zenon
  <2>. QED  BY <2>2, <2>3, AbsAbsolute
<1>4. CASE p = Rel(cwd, l.schema)
  <2> DEFINE names == Rel(cwd, l.schema).names
  <2>1. p = Path(FALSE, names)
    BY <1>4, RelativeWay
  <2>2. \A j \in 0..Len(names) :
          Abs(Path(FALSE, SubSeq(names, 1, j)), cwd) \in DOMAIN l.goMod =>
            /\ Abs(Path(FALSE, SubSeq(names, 1, j)), cwd) = l.module
            /\ Abs(Path(FALSE, SubSeq(names, 1, j) \o Below(l)), cwd) = l.ent
    BY RelativeWay
  <2> HIDE DEF names
  <2>3. PICK k \in 0..Len(names) :
          /\ q = Path(FALSE, SubSeq(names, 1, k))
          /\ Abs(Path(FALSE, SubSeq(names, 1, k)), cwd) \in DOMAIN l.goMod
    <3>1. q \in FindModuleRoot(l.goMod, Path(FALSE, names), cwd)
      BY <2>1, Zenon
    <3>2. \E k \in 0..Len(names) :
            /\ q = Path(FALSE, SubSeq(names, 1, k))
            /\ Abs(Path(FALSE, SubSeq(names, 1, k)), cwd) \in DOMAIN l.goMod
            /\ \A j \in 0..Len(names) :
                 Abs(Path(FALSE, SubSeq(names, 1, j)), cwd) \in DOMAIN l.goMod =>
                   Len(SubSeq(names, 1, j)) <= Len(SubSeq(names, 1, k))
      BY <3>1, RootsAlong, Zenon
    <3>. QED  BY <3>2, Zenon
  <2>4. Abs(q, cwd) = l.module
    BY <2>2, <2>3, Zenon
  <2>5. Path(q.absolute, q.names \o Below(l)) = Path(FALSE, SubSeq(names, 1, k) \o Below(l))
    BY <1>1, <2>3, Zenon
  <2>. QED  BY <2>2, <2>3, <2>4, <2>5, Zenon
<1>. QED  BY <1>3, <1>4

LEMMA RootFound ==
  ASSUME NEW l \in Layouts, NEW cwd \in {l.module, l.ent},
         NEW p \in {Path(TRUE, l.schema), Rel(cwd, l.schema)},
         p = Path(TRUE, l.schema) \/ cwd = l.module
  PROVE  FindModuleRoot(l.goMod, p, cwd) # {}
<1>1. CASE p = Path(TRUE, l.schema)
  BY <1>1, AbsoluteRoot
<1>2. CASE p = Rel(cwd, l.schema) /\ cwd = l.module
  <2> DEFINE names == Rel(cwd, l.schema).names
             Passed0(j) == Abs(Path(FALSE, SubSeq(names, 1, j)), cwd)
  <2>1. p = Path(FALSE, names) /\ Len(names) \in Nat /\ Passed0(0) = l.module
    BY <1>2, RelativeWay
  <2>2. \A j \in 0..Len(names) : Passed0(j) \in DOMAIN l.goMod => j = 0
    BY <1>2, RelativeWay
  <2>3. l.module \in DOMAIN l.goMod
    BY LayoutDirs
  <2>4. Len(SubSeq(names, 1, 0)) = 0
    BY SubSeqEmpty, EmptySeq
  <2>5. \A j \in 0..Len(names) : Passed0(j) \in DOMAIN l.goMod =>
                                Len(SubSeq(names, 1, j)) <= Len(SubSeq(names, 1, 0))
    <3>1. \A j \in 0..Len(names) : Passed0(j) \in DOMAIN l.goMod =>
                                Len(SubSeq(names, 1, j)) = 0
      BY <2>2, <2>4, Zenon
    <3>. HIDE DEF Passed0
    <3>. QED  BY <2>4, <3>1
  <2>6. 0 \in 0..Len(names)
    BY <2>1
  <2> HIDE DEF names
  <2>7. Path(FALSE, SubSeq(names, 1, 0)) \in FindModuleRoot(l.goMod, Path(FALSE, names), cwd)
    <3>1. Passed0(0) \in DOMAIN l.goMod
      BY <2>1, <2>3, Zenon
    <3>2. \E k \in 0..Len(names) :
            /\ Path(FALSE, SubSeq(names, 1, 0)) = Path(FALSE, SubSeq(names, 1, k))
            /\ Passed0(k) \in DOMAIN l.goMod
            /\ \A j \in 0..Len(names) : Passed0(j) \in DOMAIN l.goMod =>
                  Len(SubSeq(names, 1, j)) <= Len(SubSeq(names, 1, k))
      BY <2>5, <2>6, <3>1, Zenon
    <3>. QED  BY <3>2, RootsAlong, Zenon
  <2>. QED  BY <2>1, <2>7
<1>. QED  BY <1>1, <1>2

\* ResolveEntDir finds the ent package, but for a relative path from within it.
LEMMA EntDirFound ==
  ASSUME NEW l \in Layouts, NEW cwd \in {l.module, l.ent},
         NEW p \in {Path(TRUE, l.schema), Rel(cwd, l.schema)},
         \/ p = Path(TRUE, l.schema) \/ cwd = l.module
         \/ l.ent = Front(l.schema) \o <<"ent">>
  PROVE  l.ent \in ResolveEntDir(l.dirs, l.goMod, p, cwd, l.entPackage)
<1> DEFINE Found == FindModuleRoot(l.goMod, p, cwd)
           Module(root) == l.goMod[Abs(root, cwd)]
           disk == DiskDirForImportPath(l.goMod, p, cwd, l.entPackage)
           mapped == {Abs(d, cwd) : d \in disk} \cap l.dirs
           beside == {EntDirBesideSchema(p, cwd)} \cap l.dirs
<1>1. /\ l.ent \in l.dirs /\ IsPrefix(l.goMod[l.module], l.entPackage)
      /\ SubSeq(l.entPackage, Len(l.goMod[l.module]) + 1, Len(l.entPackage)) = Below(l)
  BY PackageDir
<1>2. \A q \in Found : Abs(q, cwd) = l.module /\ Abs(Path(q.absolute, q.names \o Below(l)), cwd) = l.ent
  BY RootsMapped
<1>3. disk = {Path(q.absolute, q.names \o Below(l)) : q \in Found}
  <2> DEFINE Rest(q) == SubSeq(l.entPackage, Len(Module(q)) + 1, Len(l.entPackage))
  <2>1. disk = {Path(q.absolute, q.names \o Rest(q)) :
                  q \in {r \in Found : IsPrefix(Module(r), l.entPackage)}}
    BY Zenon DEF DiskDirForImportPath
  <2>2. {r \in Found : IsPrefix(Module(r), l.entPackage)} = Found
    <3>. HIDE DEF Found
    <3>. QED  BY <1>1, <1>2
  <2>3. \A q \in Found : Rest(q) = Below(l)
    <3>. HIDE DEF Found
    <3>. QED  BY <1>1, <1>2
  <2>. HIDE DEF Found, Module, disk, Rest
  <2>. QED  BY <2>1, <2>2, <2>3
<1> HIDE DEF disk, Found
<1>4. mapped = IF Found # {} THEN {l.ent} ELSE {}
  BY <1>1, <1>2, <1>3
<1>5. ResolveEntDir(l.dirs, l.goMod, p, cwd, l.entPackage) = IF mapped # {} THEN mapped ELSE beside
  BY Zenon DEF ResolveEntDir, disk
<1> HIDE DEF mapped, beside
<1>6. CASE Found # {}
  BY <1>4, <1>5, <1>6
<1>7. CASE Found = {}
  <2>1. l.ent = Front(l.schema) \o <<"ent">>
    BY <1>7, RootFound DEF Found
  <2>2. Abs(p, cwd) = l.schema
    <3>1. Abs(Path(TRUE, l.schema), cwd) = l.schema
      BY AbsAbsolute
    <3>2. Abs(Rel(cwd, l.schema), cwd) = l.schema
      BY RelativeWay
    <3>. QED  BY <3>1, <3>2
  <2>3. EntDirBesideSchema(p, cwd) = l.ent
    BY <2>1, <2>2, Zenon DEF EntDirBesideSchema
  <2>. QED  BY <1>1, <1>4, <1>5, <1>7, <2>3 DEF beside
<1>. QED  BY <1>6, <1>7

-----------------------------------------------------------------------------
(* What a generation that succeeds writes, and what is there.                *)

\* Wherever the ent package is found, verifyIDTypesAgainstSource has read it.
LEMMA EntIDsFit ==
  TypeOK /\ IDTypesVerified =>
    \/ \A n \in InGraph : entID[n] \in {"none", Expected(n).id}
    \/ opts.from = "ent" /\ ~opts.absolute /\ layout.ent # Front(layout.schema) \o <<"ent">>
<1> SUFFICES ASSUME TypeOK, layout.ent \notin EntDir
             PROVE  /\ opts.from = "ent" /\ ~opts.absolute
                    /\ layout.ent # Front(layout.schema) \o <<"ent">>
  BY Zenon DEF IDTypesVerified
<1>1. layout \in Layouts
  BY DEF TypeOK
<1>2. opts.from \in {"module", "ent"}
  BY DEF TypeOK, Options
<1>3. Cwd \in {layout.module, layout.ent} /\ (opts.from = "module" => Cwd = layout.module)
  BY <1>2 DEF Cwd
<1>4. /\ SchemaPath \in {Path(TRUE, layout.schema), Rel(Cwd, layout.schema)}
      /\ opts.absolute => SchemaPath = Path(TRUE, layout.schema)
  BY Zenon DEF SchemaPath
<1>5. ~(\/ SchemaPath = Path(TRUE, layout.schema) \/ Cwd = layout.module
        \/ layout.ent = Front(layout.schema) \o <<"ent">>)
  BY <1>1, <1>3, <1>4, EntDirFound, Zenon DEF EntDir
<1>. QED  BY <1>2, <1>3, <1>4, <1>5, Zenon

\* The converters that a generation leaves compile against the messages and name the
\* IDs of the ent structs (GenerateConverterFile).
THEOREM FitCorrect == Spec => []ConvertersFit
<1>1. TypeOK /\ Progress => ConvertersFit
  <2> SUFFICES ASSUME TypeOK, Progress, verdict = "done",
                      NEW n \in Node, files[n].kind = "converter"
               PROVE  LET m == files[n].message
                      IN  /\ schema[n].exists /\ pb[n] # None
                          /\ PbOf[m.id] = pb[n].id
                          /\ \/ entID[n] \in {"none", m.id}
                             \/ /\ opts.from = "ent" /\ ~opts.absolute
                                /\ layout.ent # Front(layout.schema) \o <<"ent">>
                          /\ \A f \in Fields : m.fields[f] # "none" => m.fields[f] = pb[n].fields[f]
                          /\ m.enum \subseteq pb[n].enum
    BY Zenon DEF ConvertersFit
  <2>1. Replaced(ToGenerate) /\ Passed(Len(Checks))
    BY Zenon DEF Progress, AllPassed
  <2>2. IDTypesVerified /\ \A o \in ToGenerate : ProtoContract(o) /\ EnumConstReferences(o)
    BY <2>1, PassedMeans
  <2>3. n \in ToGenerate
    <3>1. ASSUME n \notin ToGenerate PROVE FALSE
      <4>1. files[n] = Cleared(n)
        BY <2>1, <3>1 DEF Replaced
      <4>2. ~HasHeader(files[n])
        BY <4>1 DEF Cleared, HasHeader, None
      <4>. QED  BY <4>2 DEF HasHeader
    <3>. QED  BY <3>1
  <2>4. files[n] = Converter(n)
    BY <2>1, <2>3 DEF Replaced
  <2>5. files[n].message = Expected(n)
    BY <2>4 DEF Converter
  <2>6. schema[n].exists /\ pb[n] # None /\ n \in InGraph
    BY <2>3 DEF ToGenerate, InGraph, InProto
  <2>7. ProtoContract(n) /\ EnumConstReferences(n)
    BY <2>2, <2>3
  <2>. QED
    BY <2>2, <2>5, <2>6, <2>7, EntIDsFit, Zenon DEF ProtoContract, EnumConstReferences
<1>. QED  BY InvHolds, <1>1, PTL DEF IInv
=============================================================================

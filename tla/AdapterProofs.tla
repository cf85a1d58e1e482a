----------------------------- MODULE AdapterProofs -----------------------------
(***************************************************************************)
(* Proofs about LoadAdapter (module Adapter), for any schemas, members and *)
(* annotations, any order of the nodes, and whatever other code registers. *)
(***************************************************************************)
EXTENDS Adapter, SequenceTheorems, TLAPS

\* The assumptions, as they are needed below.
LEMMA Constants ==
  /\ SchemaOf \in [Member -> Schema] /\ KindOf \in [Member -> {"id", "field", "edge"}]
  /\ TypeOf \in [Member -> MemberType]
  /\ \A m \in Member : TypeOf[m] = "edge" => TargetOf[m] \in Schema
  /\ NoFile \notin File /\ Names \subseteq MessageName
  /\ FileOf \in [Package -> File]
BY AdapterAssumption DEF AdapterAssumption

LEMMA Assumed ==
  /\ \A m \in Member : KindOf[m] = "edge" <=> TypeOf[m] = "edge"
  /\ \A m \in Member : TypeOf[m] = "message" => FileGiven[m] \in File \cup {NoFile}
  /\ \A n \in DOMAIN External : External[n] \in File
BY AdapterAssumption DEF AdapterAssumption

-----------------------------------------------------------------------------
(* The graph and its members.                                                *)

LEMMA GraphTyped ==
  ASSUME TypeOK
  PROVE  /\ graph.nodes \in Seq(Schema) /\ EachOnce(graph.nodes)
         /\ graph.members \subseteq Member /\ graph.ann \in [Member -> Mark]
         /\ graph.msg \in [Schema -> {"none", "bad", "off", "on"}]
         /\ graph.pkg \in [Schema -> Package] /\ graph.ownID \in [Schema -> BOOLEAN]
<1>1. graph \in Graph /\ EachOnce(graph.nodes)
  BY AdapterAssumption DEF TypeOK, AdapterAssumption
<1>. QED  BY <1>1 DEF Graph

LEMMA Packages ==
  ASSUME TypeOK, NEW s \in Schema
  PROVE  PackageOf(s) \in Package \ {""} /\ FileOf[PackageOf(s)] \in File
<1>1. graph.pkg[s] \in Package
  BY GraphTyped
<1>2. "entpb" \in Package
  BY AdapterAssumption DEF AdapterAssumption, DefaultProtoPackageName
<1>. QED  BY <1>1, <1>2, Constants DEF PackageOf, DefaultProtoPackageName

\* Different packages have different files.
LEMMA FilesApart ==
  ASSUME TypeOK, NEW s \in Schema, NEW t \in Schema, FileOf[PackageOf(s)] = FileOf[PackageOf(t)]
  PROVE  PackageOf(s) = PackageOf(t)
BY Packages, AdapterAssumption DEF AdapterAssumption

LEMMA MemberErrors ==
  ASSUME NEW m \in Member
  PROVE  MemberError(m) \in {"", "unannotated", "undecodable", "overflow", "reserved",
                              "unsupported", "enum", "target"}
BY DEF MemberError, NumberError, TypeError

LEMMA KeptMembers ==
  ASSUME TypeOK, NEW s \in Schema
  PROVE  /\ Kept(s) \subseteq Member /\ Kept(s) \subseteq graph.members
         /\ \A m \in Kept(s) : SchemaOf[m] = s
         /\ Kept(s) = Unskipped(Members(s, {"id", "field"})) \cup Unskipped(Members(s, {"edge"}))
<1>1. graph.members \subseteq Member
  BY GraphTyped
<1>. QED  BY <1>1 DEF Kept, Unskipped, Members

\* The target of an edge that was built is a schema with a message of its own.
LEMMA EdgeName ==
  ASSUME NEW m \in Member, TypeOf[m] = "edge"
  PROVE  /\ ShortName(TypeName(m)) = TargetOf[m] /\ TargetOf[m] \in Schema
         /\ MemberError(m) = "" => graph.msg[TargetOf[m]] = "on"
<1>2. ASSUME NEW p, NEW t PROVE ShortName(MessageOf(p, t)) = t
  <2>1. MessageOf(p, t).path = <<t>>
    BY DEF MessageOf
  <2>2. ShortName(MessageOf(p, t)) = <<t>>[Len(<<t>>)]
    BY <2>1, Zenon DEF ShortName
  <2>. QED  BY <2>2, SMT
<1>3. \E p : TypeName(m) = MessageOf(p, TargetOf[m])
  BY DEF TypeName
<1>4. MemberError(m) = "" => graph.msg[TargetOf[m]] = "on"
  BY DEF MemberError, TypeError
<1>. QED  BY <1>2, <1>3, <1>4, Constants, Zenon

LEMMA MessageTypeName ==
  ASSUME NEW m \in Member, TypeOf[m] = "message"
  PROVE  TypeName(m) = NameOf[m] /\ NameOf[m] \in Names /\ ~Unqualified(m)
BY DEF TypeName, Names, Unqualified

LEMMA RegisteredName ==
  ASSUME TypeOK, NEW m
  PROVE  /\ Registered(m) => TypeName(m) \in Names /\ registry[TypeName(m)] \in File
         /\ m \in Member /\ TypeOf[m] = "message" =>
              (Registered(m) <=> registry[NameOf[m]] # NoFile)
<1>1. registry \in [Names -> File \cup {NoFile}]
  BY DEF TypeOK
<1>2. Registered(m) => TypeName(m) \in Names /\ registry[TypeName(m)] \in File
  BY <1>1 DEF Registered
<1>3. ASSUME m \in Member, TypeOf[m] = "message"
      PROVE  Registered(m) <=> registry[NameOf[m]] # NoFile
  BY <1>1, <1>3, MessageTypeName, Zenon DEF Registered
<1>. QED  BY <1>2, <1>3

\* A message is among those that enclose it, and they are of its package.
LEMMA EnclosingNames ==
  ASSUME NEW n \in MessageName
  PROVE  /\ n \in Enclosing(n) /\ Enclosing(n) \subseteq MessageName
         /\ \A k \in Enclosing(n) : k.pkg = n.pkg
<1>1. /\ n = [pkg |-> n.pkg, path |-> n.path] /\ n.pkg \in STRING
      /\ n.path \in Seq(STRING) /\ n.path # <<>>
  BY DEF MessageName
<1>2. Len(n.path) \in Nat /\ Len(n.path) > 0
  BY <1>1
<1>3. SubSeq(n.path, 1, Len(n.path)) = n.path
  BY <1>1, <1>2, SMT
<1>4. n \in Enclosing(n)
  <2>1. n = [pkg |-> n.pkg, path |-> SubSeq(n.path, 1, Len(n.path))]
    BY <1>1, <1>3, Zenon
  <2>2. Len(n.path) \in 1..Len(n.path)
    BY <1>2
  <2>. QED  BY <2>1, <2>2, Zenon DEF Enclosing
<1>5. ASSUME NEW k \in Enclosing(n) PROVE k \in MessageName /\ k.pkg = n.pkg
  <2>1. PICK i \in 1..Len(n.path) : k = [pkg |-> n.pkg, path |-> SubSeq(n.path, 1, i)]
    BY DEF Enclosing
  <2>2. SubSeq(n.path, 1, i) \in Seq(STRING) /\ Len(SubSeq(n.path, 1, i)) = i
    BY <1>1, <1>2, SMT
  <2>3. SubSeq(n.path, 1, i) # <<>>
    BY <2>2, SMT
  <2>. QED  BY <1>1, <2>1, <2>2, <2>3 DEF MessageName
<1>. QED  BY <1>4, <1>5

-----------------------------------------------------------------------------
(* The nodes still to visit.                                                 *)

LEMMA FirstWaiting ==
  ASSUME TypeOK, todo # <<>>, \A i, j \in 1..Len(todo) : todo[i] = todo[j] => i = j
  PROVE  /\ Head(todo) \in Waiting /\ Tail(todo) \in Seq(Schema)
         /\ {Tail(todo)[i] : i \in 1..Len(Tail(todo))} = Waiting \ {Head(todo)}
         /\ \A i, j \in 1..Len(Tail(todo)) : Tail(todo)[i] = Tail(todo)[j] => i = j
<1>0. todo \in Seq(Schema)
  BY DEF TypeOK
<1>1. Len(todo) \in Nat /\ Len(todo) > 0
  BY <1>0, SMT
<1>2. /\ Tail(todo) \in Seq(Schema) /\ Len(Tail(todo)) = Len(todo) - 1
      /\ \A i \in 1..Len(Tail(todo)) : Tail(todo)[i] = todo[i + 1]
      /\ Head(todo) = todo[1]
  BY <1>0, <1>1, SMT
<1>3. \A j \in 1..Len(todo) : j # 1 => j - 1 \in 1..Len(Tail(todo)) /\ (j - 1) + 1 = j
  BY <1>1, <1>2
<1>4. \A i \in 1..Len(Tail(todo)) : i + 1 \in 1..Len(todo) /\ i + 1 # 1
  BY <1>1, <1>2
<1>5. {Tail(todo)[i] : i \in 1..Len(Tail(todo))} \subseteq Waiting \ {Head(todo)}
  BY <1>1, <1>2, <1>4 DEF Waiting
<1>6. Waiting \ {Head(todo)} \subseteq {Tail(todo)[i] : i \in 1..Len(Tail(todo))}
  <2>. SUFFICES ASSUME NEW s \in Waiting, s # Head(todo)
                PROVE  s \in {Tail(todo)[i] : i \in 1..Len(Tail(todo))}
    OBVIOUS
  <2>1. PICK j \in 1..Len(todo) : s = todo[j]
    BY DEF Waiting
  <2>2. j # 1
    BY <1>2, <2>1
  <2>. QED  BY <1>2, <1>3, <2>1, <2>2
<1>7. Head(todo) \in Waiting
  BY <1>1, <1>2 DEF Waiting
<1>8. \A i, j \in 1..Len(Tail(todo)) : Tail(todo)[i] = Tail(todo)[j] => i = j
  BY <1>1, <1>2, <1>4
<1>. QED  BY <1>2, <1>5, <1>6, <1>7, <1>8
-----------------------------------------------------------------------------
(* What other steps leave as it is.                                          *)

LEMMA SameGraph ==
  ASSUME graph' = graph
  PROVE  /\ \A s : PackageOf(s)' = PackageOf(s) /\ Kept(s)' = Kept(s)
         /\ \A s, K : Members(s, K)' = Members(s, K)
         /\ \A S : Unskipped(S)' = Unskipped(S) /\ NumberedTwice(S)' = NumberedTwice(S)
         /\ \A m : /\ TypeName(m)' = TypeName(m) /\ Unqualified(m)' = Unqualified(m)
                   /\ MemberError(m)' = MemberError(m) /\ Number(m)' = Number(m)
<1>1. \A s : PackageOf(s)' = PackageOf(s)
  BY Zenon DEF PackageOf
<1>2. \A s, K : Members(s, K)' = Members(s, K)
  BY Zenon DEF Members
<1>3. \A S : Unskipped(S)' = Unskipped(S)
  BY Zenon DEF Unskipped, ann
<1>4. \A s : Kept(s)' = Kept(s)
  BY Zenon DEF Kept, Unskipped, ann, Members
<1>5. \A m : Number(m)' = Number(m)
  BY Zenon DEF Number, ImplicitID, ann
<1>6. \A S : NumberedTwice(S)' = NumberedTwice(S)
  BY Zenon DEF NumberedTwice, Number, ImplicitID, ann
<1>7. \A m : TypeName(m)' = TypeName(m) /\ Unqualified(m)' = Unqualified(m)
  BY Zenon DEF TypeName, Unqualified, PackageOf
<1>8. \A m : MemberError(m)' = MemberError(m)
  <2>1. ASSUME NEW m PROVE NumberError(m)' = NumberError(m)
    BY SMT DEF NumberError, Number, ImplicitID, ann
  <2>2. ASSUME NEW m PROVE TypeError(m)' = TypeError(m)
    BY SMT DEF TypeError
  <2>. QED  BY <2>1, <2>2, Zenon DEF MemberError
<1>. QED  BY <1>1, <1>2, <1>3, <1>4, <1>5, <1>6, <1>7, <1>8, Zenon

\* An entry of the registry is there for good.
Grows == /\ \A n \in Names : registry[n] # NoFile => registry'[n] = registry[n]
         /\ \A f \in File : stubs[f] \subseteq stubs'[f] /\ deps[f] \subseteq deps'[f]

LEMMA RegisteredStays ==
  ASSUME TypeOK, TypeOK', graph' = graph, Grows
  PROVE  /\ \A m : Registered(m) => Registered(m)' /\ registry'[TypeName(m)] = registry[TypeName(m)]
         /\ \A m \in Member : Built(m) => Built(m)'
         /\ \A s \in Schema : Known(s) => Known(s)'
         /\ \A s \in Schema : Quarrels(s) => Quarrels(s)'
<1>1. ASSUME NEW m, Registered(m)
      PROVE  Registered(m)' /\ registry'[TypeName(m)] = registry[TypeName(m)]
  <2>1. TypeName(m) \in Names /\ registry[TypeName(m)] \in File /\ ~Unqualified(m)
    BY <1>1, RegisteredName DEF Registered
  <2>2. registry[TypeName(m)] # NoFile
    BY <2>1, Constants
  <2>3. registry'[TypeName(m)] = registry[TypeName(m)]
    BY <2>1, <2>2 DEF Grows
  <2>4. DOMAIN registry' = Names
    BY DEF TypeOK
  <2>5. TypeName(m)' = TypeName(m) /\ Unqualified(m)' = Unqualified(m)
    BY SameGraph, Zenon
  <2>. QED  BY <2>1, <2>2, <2>3, <2>4, <2>5, Zenon DEF Registered
<1>2. ASSUME NEW m \in Member, Built(m) PROVE Built(m)'
  <2>1. MemberError(m)' = ""
    BY <1>2, SameGraph, Zenon DEF Built
  <2>2. Registers(m) => NameOf[m] \in Names
    BY MessageTypeName DEF Registers
  <2>3. Registers(m) => registry'[NameOf[m]] # NoFile
    BY <1>2, <2>2 DEF Built, Grows
  <2>. QED  BY <2>1, <2>3, Zenon DEF Built, Registers
<1>3. ASSUME NEW s \in Schema, Known(s) PROVE Known(s)'
  <2>1. Kept(s)' = Kept(s) /\ Kept(s) \subseteq Member
    BY SameGraph, KeptMembers, Zenon
  <2>2. \A m \in Kept(s) : TypeOf[m] = "message" => NameOf[m] \in Names
    BY <2>1, MessageTypeName
  <2>3. \A m \in Kept(s) : TypeOf[m] = "message" =>
          registry'[NameOf[m]] # NoFile \/ ShortName(NameOf[m]) \in Schema
    BY <1>3, <2>2 DEF Known, Grows
  <2>. QED  BY <2>1, <2>3, Zenon DEF Known, ShortName
<1>4. ASSUME NEW s \in Schema, Quarrels(s) PROVE Quarrels(s)'
  <2>1. PICK m \in Kept(s), n \in Names :
          /\ Refers(m) /\ Registered(m)
          /\ registry[n] = registry[TypeName(m)] /\ n.pkg # TypeName(m).pkg
    BY <1>4 DEF Quarrels
  <2>2. Registered(m)' /\ registry'[TypeName(m)] = registry[TypeName(m)]
    BY <1>1, <2>1
  <2>3. registry'[n] = registry[n]
    <3>1. registry[n] # NoFile
      BY <2>1, RegisteredName, Constants
    <3>. QED  BY <3>1 DEF Grows
  <2>4. TypeName(m)' = TypeName(m) /\ Kept(s)' = Kept(s)
    BY SameGraph, Zenon
  <2>5. registry'[n] = registry'[TypeName(m)']
    BY <2>1, <2>2, <2>3, <2>4
  <2>. QED  BY <2>1, <2>2, <2>4, <2>5, Zenon DEF Quarrels, Refers
<1>. QED  BY <1>1, <1>2, <1>3, <1>4
\* What was found of a dependency is there for good.
LEMMA SettledStays ==
  ASSUME TypeOK, TypeOK', graph' = graph, began' = began, Grows,
         NEW m \in Member, NEW D, NEW E, D \subseteq File, D \subseteq E, Settled(m, D)
  PROVE  /\ E = out' => Settled(m, out)'
         /\ E = deps'[FileOf[PackageOf(SchemaOf[m])']] => Settled(m, deps[FileOf[PackageOf(SchemaOf[m])]])'
<1>1. \/ Registered(m)' /\ \E f \in E : TypeName(m)' \in stubs'[f]
      \/ Imported(m)' /\ (Away(m)' => ImportOf(m)' \in E)
  <2>1. CASE Registered(m) /\ \E f \in D : TypeName(m) \in stubs[f]
    <3>1. PICK f \in D : TypeName(m) \in stubs[f]
      BY <2>1
    <3>2. TypeName(m)' \in stubs'[f]
      BY <3>1, SameGraph DEF Grows
    <3>. QED  BY <2>1, <3>1, <3>2, RegisteredStays
  <2>2. CASE Imported(m) /\ (Away(m) => ImportOf(m) \in D)
    <3>1. Imported(m)' <=> Imported(m)
      BY SameGraph, Zenon DEF Imported, ShortName
    <3>2. (Away(m)' <=> Away(m)) /\ ImportOf(m)' = ImportOf(m)
      BY SameGraph, Zenon DEF Away, ImportOf, ShortName, TypeName, PackageOf, MessageOf
    <3>. QED  BY <2>2, <3>1, <3>2
  <2>. QED  BY <2>1, <2>2 DEF Settled
<1>2. ASSUME E = out' PROVE Settled(m, out)'
  BY <1>1, <1>2, Zenon DEF Settled
<1>3. ASSUME E = deps'[FileOf[PackageOf(SchemaOf[m])']]
      PROVE  Settled(m, deps[FileOf[PackageOf(SchemaOf[m])]])'
  BY <1>1, <1>3, Zenon DEF Settled
<1>. QED  BY <1>2, <1>3

LEMMA AccountedStays ==
  ASSUME TypeOK, TypeOK', graph' = graph, began' = began, Grows, NEW s \in Schema, NEW f \in File,
         Accounted(Kept(s), f)
  PROVE  Accounted(Kept(s), f)'
<1>1. CASE stubs[f] # {}
  <2>1. stubs'[f] # {}
    BY <1>1 DEF Grows
  <2>. QED  BY <2>1, Zenon DEF Accounted
<1>2. CASE \E m \in Kept(s) : Refers(m) /\ Imported(m) /\ Away(m) /\ f = ImportOf(m)
  <2>1. PICK m \in Kept(s) : Refers(m) /\ Imported(m) /\ Away(m) /\ f = ImportOf(m)
    BY <1>2
  <2>2. Imported(m)' /\ Away(m)' /\ ImportOf(m)' = ImportOf(m) /\ Kept(s)' = Kept(s)
    BY <2>1, SameGraph, Zenon
    DEF Imported, ShortName, Away, ImportOf, TypeName, PackageOf, MessageOf
  <2>. QED  BY <2>1, <2>2, Zenon DEF Accounted, Refers
<1>. QED  BY <1>1, <1>2 DEF Accounted

LEMMA CausedStays ==
  ASSUME TypeOK, TypeOK', graph' = graph, Grows, NEW s \in Schema, NEW e, Caused(s, e), errors'[s] = e
  PROVE  Caused(s, errors[s])'
<1>1. Kept(s)' = Kept(s)
  BY SameGraph, Zenon
<1>2. e = "duplicate" => NumberedTwice(Kept(s))'
  <2>1. NumberedTwice(Kept(s))' <=> NumberedTwice(Kept(s))
    BY SameGraph, Zenon DEF NumberedTwice
  <2>. QED  BY <2>1, Zenon DEF Caused
<1>3. e = "conflict" => Quarrels(s)'
  BY RegisteredStays, Zenon DEF Caused
<1>4. e \in {"unknown", "message"} => LeansOnRegistry(s)'
  BY <1>1, Zenon DEF Caused, LeansOnRegistry
<1>5. e \notin {"", "skipped", "duplicate", "conflict", "unknown", "message"} =>
        \E m \in Kept(s)' : MemberError(m)' = e
  <2>1. \A m : MemberError(m)' = MemberError(m)
    BY SameGraph, Zenon
  <2>. QED  BY <1>1, <2>1, Zenon DEF Caused
<1>. QED  BY <1>2, <1>3, <1>4, <1>5, Zenon DEF Caused

LEMMA JudgedStays ==
  ASSUME TypeOK, TypeOK', graph' = graph, began' = began, Grows, filed \subseteq filed',
         NEW s \in Schema, Judged(s), errors'[s] = errors[s], message'[s] = message[s]
  PROVE  Judged(s)'
<1>1. Kept(s)' = Kept(s) /\ Kept(s) \subseteq Member /\ graph.msg' = graph.msg
  BY SameGraph, KeptMembers, Zenon
<1>2. Sound(s) <=> Sound(s)'
  BY <1>1, SameGraph, Zenon DEF Sound
<1>3. /\ Known(s) => Known(s)'
      /\ \A m \in Member : Built(m) => Built(m)'
  BY RegisteredStays
<1>4. ErrorFits(s)'
  <2>1. ErrorFits(s)
    BY DEF Judged
  <2>2. (errors[s] = "skipped" <=> graph.msg[s] # "on")'
    BY <1>1, <2>1 DEF ErrorFits
  <2>3. (errors[s] = "" => Sound(s) /\ Known(s) /\ s \in filed /\ message[s] = Kept(s))'
    <3>1. errors[s] = "" => Sound(s) /\ Known(s) /\ s \in filed /\ message[s] = Kept(s)
      BY <2>1, Zenon DEF ErrorFits
    <3>. QED  BY <1>1, <1>2, <1>3, <3>1
  <2>4. Caused(s, errors[s])'
    <3>1. Caused(s, errors[s])
      BY <2>1, Zenon DEF ErrorFits
    <3>. QED  BY <3>1, CausedStays
  <2>. QED  BY <2>2, <2>3, <2>4, Zenon DEF ErrorFits
<1>5. ASSUME errors'[s] = "", NEW m \in Kept(s)
      PROVE  Built(m)' /\ (Refers(m) => Settled(m, deps[FileOf[PackageOf(s)]])')
  <2>1. Built(m) /\ (Refers(m) => Settled(m, deps[FileOf[PackageOf(s)]])) /\ m \in Member
    BY <1>1, <1>5, Zenon DEF Judged
  <2>2. ASSUME Settled(m, deps[FileOf[PackageOf(s)]])
        PROVE  Settled(m, deps[FileOf[PackageOf(s)]])'
    <3>1. /\ FileOf[PackageOf(s)] \in File /\ PackageOf(s)' = PackageOf(s)
          /\ deps[FileOf[PackageOf(s)]] \subseteq File
      BY Packages, SameGraph DEF TypeOK
    <3>2. deps[FileOf[PackageOf(s)]] \subseteq deps'[FileOf[PackageOf(s)']]
      BY <3>1 DEF Grows
    <3>3. SchemaOf[m] = s
      BY <1>5, KeptMembers
    <3>. QED  BY <2>1, <2>2, <3>1, <3>2, <3>3, SettledStays, Zenon
  <2>. QED  BY <1>3, <2>1, <2>2
<1>. QED  BY <1>1, <1>4, <1>5, Zenon DEF Judged, Refers
-----------------------------------------------------------------------------
(* Every step keeps the types.                                               *)

LEMMA FailTyped ==
  ASSUME TypeOK, NEW s \in Schema, NEW e, Fail(s, e),
         e \in {"skipped", "unannotated", "undecodable", "overflow", "reserved", "unsupported",
               "enum", "target", "duplicate", "unknown", "conflict", "message"}
  PROVE  /\ errors' \in [Schema -> {"", "skipped", "unannotated", "undecodable", "overflow",
              "reserved", "unsupported", "enum", "target", "duplicate", "unknown", "conflict",
              "message"}]
         /\ errors' = [errors EXCEPT ![s] = e]
         /\ pc' = "nodes" /\ cur' = {} /\ pending' = {} /\ fields' = {} /\ out' = {}
BY DEF Fail, TypeOK

LEMMA FirstMembers == ASSUME TypeOK, NEW m \in First(pending) PROVE m \in pending /\ m \in Member
BY DEF First, TypeOK

LEMMA UnskippedMembers ==
  ASSUME TypeOK, NEW s \in Schema, NEW K
  PROVE  Unskipped(Members(s, K)) \subseteq Member
BY GraphTyped DEF Unskipped, Members

LEMMA TypeStep == ASSUME TypeOK, Progress, [Next]_vars PROVE TypeOK'
<1>. USE Constants
<1>1. CASE StartLoad
  BY <1>1, GraphTyped DEF StartLoad, TypeOK, Ended
<1>2. ASSUME NEW s \in Schema, VisitNode(s) PROVE TypeOK'
  <2>1. Tail(todo) \in Seq(Schema)
    <3>1. todo \in Seq(Schema) /\ todo # <<>>
      BY <1>2 DEF VisitNode, TypeOK
    <3>. QED  BY <3>1, SMT
  <2>2. CASE graph.msg[s] # "on"
    <3>1. Fail(s, "skipped")
      BY <1>2, <2>2 DEF VisitNode
    <3>. QED  BY <1>2, <2>1, <3>1, FailTyped DEF VisitNode, TypeOK
  <2>3. CASE graph.msg[s] = "on"
    <3>1. /\ pc' = "fields" /\ cur' = {s} /\ todo' = Tail(todo)
          /\ pending' = Unskipped(Members(s, {"id", "field"}))
          /\ UNCHANGED <<graph, registry, message, filed, deps, stubs, fields, out, errors>>
      BY <1>2, <2>3, Zenon DEF VisitNode
    <3>2. pending' \subseteq Member
      BY <3>1, UnskippedMembers
    <3>. QED  BY <2>1, <3>1, <3>2 DEF TypeOK
  <2>. QED  BY <2>2, <2>3
<1>3. ASSUME NEW m \in Member, BuildMember(m) PROVE TypeOK'
  <2>1. m \in pending /\ SchemaOf[m] \in Schema
    BY <1>3, FirstMembers DEF BuildMember
  <2>2. CASE MemberError(m) # ""
    <3>1. Fail(SchemaOf[m], MemberError(m))
      BY <1>3, <2>2 DEF BuildMember
    <3>. QED  BY <1>3, <2>1, <2>2, <3>1, FailTyped, MemberErrors DEF BuildMember, TypeOK
  <2>3. CASE MemberError(m) = "" /\ Registers(m) /\ ~Registrable(m)
    BY <1>3, <2>3 DEF BuildMember, TypeOK, Panic
  <2>4. CASE MemberError(m) = "" /\ ~(Registers(m) /\ ~Registrable(m))
    <3>1. Registers(m) => FileGiven[m] \in File
      BY Assumed DEF Registers
    <3>2. registry' \in [Names -> File \cup {NoFile}]
      BY <1>3, <2>4, <3>1 DEF BuildMember, TypeOK
    <3>. QED  BY <1>3, <2>1, <2>4, <3>2 DEF BuildMember, TypeOK
  <2>. QED  BY <2>2, <2>3, <2>4
<1>4. ASSUME NEW s \in Schema, BuildEdges(s) PROVE TypeOK'
  BY <1>4, UnskippedMembers DEF BuildEdges, TypeOK, files
<1>5. ASSUME NEW s \in Schema, FinishMessage(s) PROVE TypeOK'
  <2>1. CASE NumberedTwice(fields)
    <3>1. Fail(s, "duplicate")
      BY <1>5, <2>1 DEF FinishMessage
    <3>. QED  BY <1>5, <2>1, <3>1, FailTyped DEF FinishMessage, TypeOK
  <2>2. CASE ~NumberedTwice(fields)
    <3>1. /\ message' = [message EXCEPT ![s] = fields] /\ filed' = filed \cup {s}
          /\ pc' = "deps" /\ pending' = {m \in fields : Refers(m)} /\ fields' = {}
          /\ UNCHANGED <<cur, out, errors, graph, registry, todo, deps, stubs>>
      BY <1>5, <2>2, Zenon DEF FinishMessage
    <3>2. pending' \subseteq Member /\ message' \in [Schema -> SUBSET Member]
      BY <3>1 DEF TypeOK
    <3>. QED  BY <3>1, <3>2 DEF TypeOK
  <2>. QED  BY <2>1, <2>2
<1>6. ASSUME NEW m \in Member, ExtractDep(m) PROVE TypeOK'
  <2>1. PICK s \in cur : IF Registered(m) THEN AddToStub(s, m) ELSE ImportSchema(s, m) /\ UNCHANGED stubs
    BY <1>6 DEF ExtractDep
  <2>2. s \in Schema /\ pc = "deps" /\ UNCHANGED <<graph, registry, todo, message, filed, deps, began, last>>
    <3>1. cur \in {{}} \cup {{t} : t \in Schema}
      BY DEF TypeOK
    <3>2. s \in Schema
      BY <3>1
    <3>. QED  BY <1>6, <3>2, Zenon DEF ExtractDep
  <2>3. CASE Registered(m) /\ \E k \in stubs[registry[TypeName(m)]] : k.pkg # TypeName(m).pkg
    <3>1. Fail(s, "conflict") /\ UNCHANGED stubs
      BY <2>1, <2>3, Zenon DEF AddToStub
    <3>. QED  BY <2>2, <3>1, FailTyped DEF TypeOK
  <2>4. CASE Registered(m) /\ ~\E k \in stubs[registry[TypeName(m)]] : k.pkg # TypeName(m).pkg
    <3>1. /\ stubs' = [stubs EXCEPT ![registry[TypeName(m)]] = @ \cup Enclosing(TypeName(m))]
          /\ out' = out \cup {registry[TypeName(m)]} /\ pending' = pending \ {m}
          /\ UNCHANGED <<pc, cur, fields, errors>>
      BY <2>1, <2>4, Zenon DEF AddToStub
    <3>2. registry[TypeName(m)] \in File /\ Enclosing(TypeName(m)) \subseteq MessageName
      BY <2>4, RegisteredName, EnclosingNames
    <3>. QED  BY <2>2, <3>1, <3>2 DEF TypeOK
  <2>5. CASE ~Registered(m)
    <3>1. ImportSchema(s, m) /\ UNCHANGED stubs
      BY <2>1, <2>5
    <3>2. CASE \E e \in {"unknown", "message"} : Fail(s, e)
      BY <2>2, <3>1, <3>2, FailTyped DEF TypeOK
    <3>3. CASE ~\E e \in {"unknown", "message"} : Fail(s, e)
      <4>1. /\ ShortName(TypeName(m)) \in Schema
            /\ out' = out \/ out' = out \cup {FileOf[PackageOf(ShortName(TypeName(m)))]}
            /\ pending' = pending \ {m} /\ UNCHANGED <<pc, cur, fields, errors>>
        BY <3>1, <3>3 DEF ImportSchema
      <4>2. FileOf[PackageOf(ShortName(TypeName(m)))] \in File
        BY <4>1, Packages
      <4>. QED  BY <2>2, <3>1, <4>1, <4>2 DEF TypeOK
    <3>. QED  BY <3>2, <3>3
  <2>. QED  BY <2>3, <2>4, <2>5
<1>7. ASSUME NEW s \in Schema, NodeDone(s) PROVE TypeOK'
  <2>1. /\ deps' = [deps EXCEPT ![FileOf[PackageOf(s)]] = @ \cup out]
        /\ pc = "deps" /\ pending = {} /\ pc' = "nodes" /\ cur' = {} /\ out' = {}
        /\ UNCHANGED <<graph, registry, todo, pending, fields, message, filed, stubs, errors>>
    BY <1>7, Zenon DEF NodeDone
  <2>2. deps' \in [File -> SUBSET File]
    BY <2>1, Packages DEF TypeOK
  <2>3. fields = {}
    BY <2>1 DEF Progress
  <2>. QED  BY <2>1, <2>2, <2>3 DEF TypeOK
<1>8. CASE Link
  BY <1>8 DEF Link, TypeOK, Ended, walk, files
<1>9. CASE Return
  BY <1>9 DEF Return, TypeOK, Ended, files
<1>10. ASSUME NEW n \in DOMAIN External, RegisterCustomType(n) PROVE TypeOK'
  BY <1>10, Assumed DEF RegisterCustomType, TypeOK, walk, files
<1>11. CASE UNCHANGED vars
  BY <1>11 DEF vars, TypeOK, walk, files
<1>. QED
  BY <1>1, <1>2, <1>3, <1>4, <1>5, <1>6, <1>7, <1>8, <1>9, <1>10, <1>11 DEF Next, LoadAdapter
-----------------------------------------------------------------------------
(* The registry, and what was found in it.                                   *)

LEMMA StubsAdded ==
  ASSUME TypeOK, StubsRegistered, NEW s, NEW m, AddToStub(s, m), Registered(m), registry' = registry
  PROVE  StubsRegistered' /\ \A f \in File : stubs[f] \subseteq stubs'[f]
<1>1. CASE stubs' = stubs
  BY <1>1, Zenon DEF StubsRegistered
<1>2. CASE stubs' # stubs
  <2>1. stubs' = [stubs EXCEPT ![registry[TypeName(m)]] = @ \cup Enclosing(TypeName(m))]
    BY <1>2, Zenon DEF AddToStub
  <2>2. TypeName(m) \in Names /\ registry[TypeName(m)] \in File /\ stubs \in [File -> SUBSET MessageName]
    BY RegisteredName DEF TypeOK
  <2>3. \A k \in Enclosing(TypeName(m)) : k.pkg = TypeName(m).pkg
    BY <2>2, EnclosingNames, Constants
  <2>4. \A f \in File : stubs'[f] = IF f = registry[TypeName(m)]
                                    THEN stubs[f] \cup Enclosing(TypeName(m)) ELSE stubs[f]
    BY <2>1, <2>2
  <2>5. ASSUME NEW f \in File, NEW k \in stubs'[f]
        PROVE  \E n \in Names : registry'[n] = f /\ k.pkg = n.pkg
    <3>1. CASE k \in stubs[f]
      BY <3>1 DEF StubsRegistered
    <3>2. CASE k \notin stubs[f]
      <4>1. f = registry[TypeName(m)] /\ k \in Enclosing(TypeName(m))
        BY <2>4, <2>5, <3>2
      <4>. QED  BY <2>2, <2>3, <4>1
    <3>. QED  BY <3>1, <3>2
  <2>. QED  BY <2>4, <2>5 DEF StubsRegistered
<1>. QED  BY <1>1, <1>2

\* Every step but the start of a load lets the registry, stubs and dependencies grow.
LEMMA GrowStep ==
  ASSUME TypeOK, Progress, TypeOK', [Next]_vars
  PROVE  /\ \A n \in Names : registry[n] # NoFile => registry'[n] = registry[n]
         /\ StubsRegistered' /\ RegistryGrows'
         /\ ~StartLoad => Grows /\ graph' = graph /\ began' = began
<1>. DEFINE Kept1 == \A n \in Names : registry[n] # NoFile => registry'[n] = registry[n]
<1>1. ASSUME registry' = registry, began' = began, graph' = graph, stubs' = stubs, deps' = deps
      PROVE  Kept1 /\ StubsRegistered' /\ RegistryGrows' /\ Grows /\ graph' = graph /\ began' = began
  <2>1. StubsRegistered'
    BY <1>1, Zenon DEF Progress, StubsRegistered
  <2>2. RegistryGrows'
    BY <1>1, Zenon DEF Progress, RegistryGrows
  <2>. QED  BY <1>1, <2>1, <2>2 DEF Grows
<1>2. ASSUME NEW n0 \in Names, NEW f0 \in File, registry[n0] \in {NoFile, f0},
             registry' = [registry EXCEPT ![n0] = f0],
             began' = began, graph' = graph, stubs' = stubs, deps' = deps
      PROVE  Kept1 /\ StubsRegistered' /\ RegistryGrows' /\ Grows /\ graph' = graph /\ began' = began
  <2>1. Kept1
    BY <1>2 DEF TypeOK
  <2>2. StubsRegistered'
    <3>1. ASSUME NEW f \in File, NEW k \in stubs[f] PROVE \E n \in Names : registry'[n] = f /\ k.pkg = n.pkg
      <4>1. PICK n \in Names : registry[n] = f /\ k.pkg = n.pkg
        BY DEF Progress, StubsRegistered
      <4>2. registry[n] # NoFile
        BY <4>1, Constants
      <4>. QED  BY <2>1, <4>1, <4>2
    <3>. QED  BY <1>2, <3>1 DEF StubsRegistered
  <2>3. RegistryGrows'
    <3>1. \A n \in Names : began[n] # NoFile => registry[n] = began[n]
      BY DEF Progress, RegistryGrows
    <3>. QED  BY <1>2, <2>1, <3>1 DEF RegistryGrows
  <2>. QED  BY <1>2, <2>1, <2>2, <2>3 DEF Grows
<1>3. CASE StartLoad
  <2>1. registry' = registry /\ began' = registry /\ stubs' = [f \in File |-> {}]
    BY <1>3 DEF StartLoad
  <2>2. StubsRegistered'
    BY <2>1 DEF StubsRegistered
  <2>3. RegistryGrows'
    BY <2>1, Zenon DEF RegistryGrows
  <2>. QED  BY <1>3, <2>1, <2>2, <2>3
<1>4. ASSUME NEW s \in Schema, VisitNode(s) \/ BuildEdges(s) \/ FinishMessage(s)
      PROVE  Kept1 /\ StubsRegistered' /\ RegistryGrows' /\ Grows /\ graph' = graph /\ began' = began
  <2>1. /\ registry' = registry /\ began' = began /\ graph' = graph /\ stubs' = stubs /\ deps' = deps
    BY <1>4 DEF VisitNode, BuildEdges, FinishMessage, files
  <2>. QED  BY <1>1, <2>1
<1>5. ASSUME NEW s \in Schema, NodeDone(s)
      PROVE  Kept1 /\ StubsRegistered' /\ RegistryGrows' /\ Grows /\ graph' = graph /\ began' = began
  <2>1. /\ registry' = registry /\ began' = began /\ graph' = graph /\ stubs' = stubs
        /\ deps' = [deps EXCEPT ![FileOf[PackageOf(s)]] = @ \cup out]
    BY <1>5 DEF NodeDone
  <2>2. \A f \in File : deps[f] \subseteq deps'[f]
    <3>1. deps \in [File -> SUBSET File]
      BY DEF TypeOK
    <3>2. deps' = [f \in File |-> IF f = FileOf[PackageOf(s)] THEN deps[f] \cup out ELSE deps[f]]
      BY <2>1, <3>1, Zenon
    <3>. QED  BY <3>2
  <2>3. StubsRegistered'
    BY <2>1, Zenon DEF Progress, StubsRegistered
  <2>4. RegistryGrows'
    BY <2>1, Zenon DEF Progress, RegistryGrows
  <2>. QED  BY <2>1, <2>2, <2>3, <2>4 DEF Grows
<1>6. ASSUME NEW m \in Member, BuildMember(m)
      PROVE  Kept1 /\ StubsRegistered' /\ RegistryGrows' /\ Grows /\ graph' = graph /\ began' = began
  <2>1. began' = began /\ graph' = graph /\ stubs' = stubs /\ deps' = deps
    BY <1>6 DEF BuildMember
  <2>2. CASE registry' = registry
    BY <1>1, <2>1, <2>2
  <2>3. CASE registry' # registry
    <3>1. /\ Registers(m) /\ Registrable(m) /\ registry' = [registry EXCEPT ![NameOf[m]] = FileGiven[m]]
      BY <1>6, <2>3, Zenon DEF BuildMember, Panic
    <3>2. NameOf[m] \in Names /\ FileGiven[m] \in File
      BY <3>1, MessageTypeName, Assumed DEF Registers
    <3>3. registry[NameOf[m]] \in {NoFile, FileGiven[m]}
      BY <3>1 DEF Registrable
    <3>. QED  BY <1>2, <2>1, <3>1, <3>2, <3>3
  <2>. QED  BY <2>2, <2>3
<1>7. ASSUME NEW m \in Member, ExtractDep(m)
      PROVE  Kept1 /\ StubsRegistered' /\ RegistryGrows' /\ Grows /\ graph' = graph /\ began' = began
  <2>1. registry' = registry /\ began' = began /\ graph' = graph /\ deps' = deps
    BY <1>7 DEF ExtractDep
  <2>2. CASE stubs' = stubs
    BY <1>1, <2>1, <2>2
  <2>3. CASE stubs' # stubs
    <3>1. PICK s \in cur : Registered(m) /\ AddToStub(s, m)
      BY <1>7, <2>3, Zenon DEF ExtractDep
    <3>2. StubsRegistered' /\ \A f \in File : stubs[f] \subseteq stubs'[f]
      BY <2>1, <3>1, StubsAdded DEF Progress
    <3>3. RegistryGrows'
      BY <2>1, Zenon DEF Progress, RegistryGrows
    <3>. QED  BY <2>1, <3>2, <3>3 DEF Grows
  <2>. QED  BY <2>2, <2>3
<1>8. ASSUME Link \/ Return \/ UNCHANGED vars
      PROVE  Kept1 /\ StubsRegistered' /\ RegistryGrows' /\ Grows /\ graph' = graph /\ began' = began
  <2>1. registry' = registry /\ began' = began /\ graph' = graph /\ stubs' = stubs /\ deps' = deps
    BY <1>8 DEF Link, Return, vars, files
  <2>. QED  BY <1>1, <2>1
<1>9. ASSUME NEW n \in DOMAIN External, RegisterCustomType(n)
      PROVE  Kept1 /\ StubsRegistered' /\ RegistryGrows' /\ Grows /\ graph' = graph /\ began' = began
  <2>1. /\ registry[n] = NoFile /\ registry' = [registry EXCEPT ![n] = External[n]]
        /\ began' = began /\ graph' = graph /\ stubs' = stubs /\ deps' = deps
    BY <1>9 DEF RegisterCustomType, files
  <2>2. n \in Names /\ External[n] \in File
    BY Assumed DEF Names
  <2>. QED  BY <1>2, <2>1, <2>2
<1>. QED
  BY <1>3, <1>4, <1>5, <1>6, <1>7, <1>8, <1>9, Zenon DEF Next, LoadAdapter
-----------------------------------------------------------------------------
(* The walk.                                                                 *)

LEMMA DepStays ==
  ASSUME TypeOK, TypeOK', DepsAccounted, Grows, graph' = graph, began' = began, filed \subseteq filed',
         Past \subseteq Past', \A s \in Past : errors'[s] = errors[s],
         NEW f \in File, NEW g \in deps[f]
  PROVE  \/ stubs'[g] # {}
         \/ \E s \in filed' : /\ errors'[s] = "" /\ s \in Past' /\ FileOf[PackageOf(s)'] = f
                            /\ Accounted(Kept(s), g)'
<1>1. g \in File
  BY DEF TypeOK
<1>2. CASE stubs[g] # {}
  BY <1>1, <1>2 DEF Grows
<1>3. CASE \E s \in filed : /\ errors[s] = "" /\ s \in Past /\ FileOf[PackageOf(s)] = f
                            /\ Accounted(Kept(s), g)
  <2>1. PICK s \in filed : /\ errors[s] = "" /\ s \in Past /\ FileOf[PackageOf(s)] = f
                          /\ Accounted(Kept(s), g)
    BY <1>3
  <2>2. s \in Schema
    BY DEF TypeOK
  <2>3. Accounted(Kept(s), g)' /\ PackageOf(s)' = PackageOf(s)
    BY <1>1, <2>1, <2>2, AccountedStays, SameGraph
  <2>. QED  BY <2>1, <2>3
<1>. QED  BY <1>2, <1>3 DEF DepsAccounted

LEMMA DepsStay ==
  ASSUME TypeOK, TypeOK', DepsAccounted, Grows, graph' = graph, began' = began, filed \subseteq filed',
         deps' = deps, Past \subseteq Past', \A s \in Past : errors'[s] = errors[s]
  PROVE  DepsAccounted'
BY DepStays, Zenon DEF DepsAccounted

LEMMA WalkOn ==
  ASSUME TypeOK, TypeOK', Walked, Grows, graph' = graph, began' = began, todo' = todo,
         filed \subseteq filed', cur' = cur \/ cur' = {},
         \A s \in Schema \ cur : errors'[s] = errors[s] /\ message'[s] = message[s],
         cur' = {} => \A s \in cur : Judged(s)',
         \A s \in cur' : AtNode(s)',
         deps' = deps \/ DepsAccounted'
  PROVE  Walked'
<1>1. /\ Waiting' = Waiting /\ Past \subseteq Past' /\ Past' \subseteq Past \cup cur
      /\ Past \subseteq Schema \ cur /\ cur \cap Waiting = {} /\ Waiting \subseteq Schema
  <2>1. Waiting' = Waiting
    BY DEF Waiting
  <2>2. cur \cap Waiting = {}
    BY DEF Walked, AtNode
  <2>3. Waiting \subseteq Schema
    <3>1. todo \in Seq(Schema)
      BY DEF TypeOK
    <3>. QED  BY <3>1 DEF Waiting
  <2>. QED  BY <2>1, <2>2, <2>3 DEF Past
<1>2. (\A i, j \in 1..Len(todo) : todo[i] = todo[j] => i = j)'
  BY DEF Walked
<1>3. (\A s \in Waiting : errors[s] = "")'
  <2>1. \A s \in Waiting : errors[s] = "" /\ s \in Schema \ cur
    BY <1>1 DEF Walked
  <2>. QED  BY <1>1, <2>1
<1>4. ASSUME NEW s \in Past' PROVE Judged(s)'
  <2>1. CASE s \in Past
    <3>1. s \in Schema /\ errors'[s] = errors[s] /\ message'[s] = message[s] /\ Judged(s)
      BY <1>1, <2>1 DEF Walked
    <3>. QED  BY <3>1, JudgedStays
  <2>2. CASE s \notin Past
    <3>1. s \in cur /\ s \notin cur'
      BY <1>1, <1>4, <2>2 DEF Past
    <3>. QED  BY <3>1
  <2>. QED  BY <2>1, <2>2
<1>5. DepsAccounted'
  <2>1. \A s \in Past : errors'[s] = errors[s]
    BY <1>1
  <2>. QED  BY <1>1, <2>1, DepsStay DEF Walked
<1>. QED  BY <1>2, <1>3, <1>4, <1>5, Zenon DEF Walked

\* A step that ends the parse of a node, and no other part of the walk.
LEMMA FailWalks ==
  ASSUME TypeOK, TypeOK', Walked, Grows, graph' = graph, began' = began, todo' = todo,
         filed' = filed, message' = message, deps' = deps,
         NEW s \in Schema, NEW e, cur = {s}, Fail(s, e), e \notin {"", "skipped"},
         Caused(s, e)
  PROVE  Walked'
<1>1. /\ errors' = [errors EXCEPT ![s] = e] /\ cur' = {}
      /\ \A t \in Schema : errors'[t] = IF t = s THEN e ELSE errors[t]
  BY DEF Fail, TypeOK
<1>2. graph.msg[s] = "on"
  BY DEF Walked, AtNode
<1>3. errors'[s] = e
  BY <1>1
<1>4. Caused(s, errors[s])'
  BY <1>3, CausedStays
<1>5. ErrorFits(s)'
  <2>1. (errors[s] = "skipped" <=> graph.msg[s] # "on")'
    BY <1>2, <1>3
  <2>2. errors'[s] # ""
    BY <1>3
  <2>. QED  BY <1>4, <2>1, <2>2, Zenon DEF ErrorFits
<1>6. Judged(s)'
  BY <1>3, <1>5, Zenon DEF Judged
<1>7. \A t \in Schema \ cur : errors'[t] = errors[t] /\ message'[t] = message[t]
  BY <1>1
<1>. QED  BY <1>1, <1>6, <1>7, WalkOn
LEMMA AtCur ==
  ASSUME TypeOK, Progress, pc \in {"fields", "edges", "deps"}
  PROVE  /\ Walked
         /\ \E s \in Schema : cur = {s} /\ AtNode(s)
         /\ pc # "deps" => \A m \in pending : cur = {SchemaOf[m]} /\ SchemaOf[m] \in Schema
                                          /\ m \in Kept(SchemaOf[m])
<1>1. Walked
  BY DEF Progress
<1>2. PICK s \in Schema : cur = {s}
  BY DEF Progress, TypeOK
<1>3. AtNode(s)
  BY <1>1, <1>2 DEF Walked
<1>4. ASSUME pc # "deps", NEW m \in pending PROVE m \in Kept(s)
  <2>1. fields \cup pending \subseteq
          Unskipped(Members(s, {"id", "field"})) \cup Unskipped(Members(s, {"edge"}))
    <3>1. CASE pc = "fields"
      BY <1>3, <3>1 DEF AtNode
    <3>2. CASE pc = "edges"
      BY <1>3, <3>2 DEF AtNode
    <3>. QED  BY <1>4, <3>1, <3>2
  <2>. QED  BY <1>4, <2>1, KeptMembers
<1>. QED  BY <1>1, <1>2, <1>3, <1>4, KeptMembers

LEMMA VisitStep ==
  ASSUME TypeOK, Progress, TypeOK', Grows, graph' = graph, began' = began,
         NEW s \in Schema, VisitNode(s)
  PROVE  Walked'
<1>1. /\ Walked /\ cur = {} /\ fields = {} /\ todo # <<>> /\ s = Head(todo) /\ todo' = Tail(todo)
      /\ message' = message /\ filed' = filed /\ deps' = deps
  BY DEF Progress, TypeOK, VisitNode
<1>2. /\ s \in Waiting /\ Waiting' = Waiting \ {s}
      /\ (\A i, j \in 1..Len(todo) : todo[i] = todo[j] => i = j)'
  <2>1. \A i, j \in 1..Len(todo) : todo[i] = todo[j] => i = j
    BY <1>1, Zenon DEF Walked
  <2>2. /\ s \in Waiting
        /\ {Tail(todo)[i] : i \in 1..Len(Tail(todo))} = Waiting \ {s}
        /\ \A i, j \in 1..Len(Tail(todo)) : Tail(todo)[i] = Tail(todo)[j] => i = j
    BY <1>1, <2>1, FirstWaiting, Zenon
  <2>3. Waiting' = {todo'[i] : i \in 1..Len(todo')}
    BY Zenon DEF Waiting
  <2>4. Waiting' = Waiting \ {s}
    BY <1>1, <2>2, <2>3, Zenon
  <2>. QED  BY <1>1, <2>2, <2>4, Zenon
<1>3. \A t \in Schema : t # s => errors'[t] = errors[t]
  BY DEF VisitNode, Fail, TypeOK
<1>4. cur' \in {{}, {s}} /\ Past' = Past \cup ({s} \ cur') /\ s \notin Past
  <2>1. cur' \in {{}, {s}}
    BY DEF VisitNode, Fail
  <2>. QED  BY <1>1, <1>2, <2>1 DEF Past
<1>5. \A t \in Waiting : t \in Schema
  <2>1. todo \in Seq(Schema)
    BY DEF TypeOK
  <2>. QED  BY <2>1 DEF Waiting
<1>6. ASSUME NEW t \in Past PROVE Judged(t)'
  <2>1. t \in Schema /\ t # s /\ Judged(t)
    BY <1>1, <1>4, <1>6 DEF Walked, Past
  <2>. QED  BY <1>1, <1>3, <2>1, JudgedStays
<1>7. DepsAccounted'
  <2>1. \A t \in Past : errors'[t] = errors[t]
    BY <1>3, <1>4 DEF Past
  <2>2. Past \subseteq Past'
    BY <1>4
  <2>. QED  BY <1>1, <2>1, <2>2, DepsStay DEF Walked
<1>8. CASE graph.msg[s] # "on"
  <2>1. Fail(s, "skipped")
    BY <1>8 DEF VisitNode
  <2>2. errors'[s] = "skipped" /\ cur' = {}
    <3>1. errors' = [errors EXCEPT ![s] = "skipped"] /\ cur' = {}
      BY <2>1, Zenon DEF Fail
    <3>. QED  BY <3>1 DEF TypeOK
  <2>3. ErrorFits(s)'
    BY <1>8, <2>2, Zenon DEF ErrorFits, Caused
  <2>4. Judged(s)'
    BY <2>2, <2>3, Zenon DEF Judged
  <2>5. (\A t \in Past : Judged(t))'
    BY <1>4, <1>6, <2>4
  <2>6. (\A t \in Waiting : errors[t] = "")'
    BY <1>1, <1>2, <1>3, <1>5 DEF Walked
  <2>. QED  BY <1>2, <1>7, <2>2, <2>5, <2>6, Zenon DEF Walked
<1>9. CASE graph.msg[s] = "on"
  <2>1. /\ pc' = "fields" /\ cur' = {s} /\ errors' = errors /\ fields' = {}
        /\ pending' = Unskipped(Members(s, {"id", "field"}))
    BY <1>1, <1>9 DEF VisitNode
  <2>2. errors'[s] = "" /\ s \notin Waiting'
    BY <1>1, <1>2, <2>1 DEF Walked
  <2>3. pending' = Unskipped(Members(s, {"id", "field"}))'
    BY <2>1, SameGraph, Zenon DEF Unskipped, ann, Members
  <2>4. AtNode(s)'
    BY <1>9, <2>1, <2>2, <2>3 DEF AtNode
  <2>5. (\A t \in Past : Judged(t))'
    BY <1>4, <1>6, <2>1
  <2>6. (\A t \in Waiting : errors[t] = "")'
    BY <1>1, <1>2, <2>1 DEF Walked
  <2>7. (\A t \in cur : AtNode(t))'
    BY <2>1, <2>4
  <2>. QED  BY <1>2, <1>7, <2>5, <2>6, <2>7, Zenon DEF Walked
<1>. QED  BY <1>8, <1>9

LEMMA BuildStep ==
  ASSUME TypeOK, Progress, TypeOK', Grows, graph' = graph, began' = began,
         NEW m \in Member, BuildMember(m)
  PROVE  pc' = "panic" \/ Walked'
<1>1. /\ pc \in {"fields", "edges"} /\ m \in pending
      /\ todo' = todo /\ filed' = filed /\ message' = message /\ deps' = deps /\ stubs' = stubs
  BY DEF BuildMember, First
<1>2. PICK s \in Schema : cur = {s} /\ AtNode(s) /\ s = SchemaOf[m] /\ m \in Kept(s) /\ Walked
  BY <1>1, AtCur
<1>3. CASE MemberError(m) # ""
  <2>1. Fail(s, MemberError(m))
    BY <1>2, <1>3 DEF BuildMember
  <2>2. MemberError(m) \notin {"", "skipped", "duplicate", "conflict", "unknown", "message"}
    BY <1>3, MemberErrors
  <2>3. Caused(s, MemberError(m))
    BY <1>2, <2>2, Zenon DEF Caused
  <2>. QED  BY <1>1, <1>2, <2>1, <2>2, <2>3, FailWalks
<1>4. CASE MemberError(m) = "" /\ Registers(m) /\ ~Registrable(m)
  BY <1>4 DEF BuildMember, Panic
<1>5. CASE MemberError(m) = "" /\ ~(Registers(m) /\ ~Registrable(m))
  <2>1. /\ registry' = IF Registers(m) THEN [registry EXCEPT ![NameOf[m]] = FileGiven[m]] ELSE registry
        /\ fields' = fields \cup {m} /\ pending' = pending \ {m}
        /\ pc' = pc /\ cur' = cur /\ out' = out /\ errors' = errors
    BY <1>5, Zenon DEF BuildMember
  <2>2. Built(m)'
    <3>1. MemberError(m)' = ""
      BY <1>5, SameGraph, Zenon
    <3>2. Registers(m) => NameOf[m] \in Names /\ FileGiven[m] # NoFile
      BY MessageTypeName DEF Registers
    <3>3. Registers(m) => registry'[NameOf[m]] # NoFile
      BY <2>1, <3>2 DEF TypeOK
    <3>. QED  BY <3>1, <3>3, Zenon DEF Built, Registers
  <2>3. (\A k \in fields : Built(k))'
    <3>1. \A k \in fields : Built(k) /\ k \in Member
      BY <1>2 DEF AtNode, TypeOK
    <3>. QED  BY <2>1, <2>2, <3>1, RegisteredStays
  <2>4. fields' \cup pending' = fields \cup pending
    BY <1>1, <2>1
  <2>5. AtNode(s)'
    <3>1. (graph.msg[s] = "on" /\ errors[s] = "" /\ s \notin Waiting)'
      BY <1>1, <1>2, <2>1, Zenon DEF AtNode, Waiting
    <3>2. /\ pc = "fields" => fields \cup pending = Unskipped(Members(s, {"id", "field"}))
          /\ pc = "edges" => fields \cup pending =
               Unskipped(Members(s, {"id", "field"})) \cup Unskipped(Members(s, {"edge"}))
      BY <1>2, Zenon DEF AtNode
    <3>3. \A K : Unskipped(Members(s, K))' = Unskipped(Members(s, K))
      BY Zenon DEF Unskipped, Members, ann
    <3>4. pc' # "deps"
      BY <1>1, <2>1
    <3>5. /\ pc' = "fields" => fields' \cup pending' = Unskipped(Members(s, {"id", "field"}))'
          /\ pc' = "edges" => fields' \cup pending' =
               Unskipped(Members(s, {"id", "field"}))' \cup Unskipped(Members(s, {"edge"}))'
      BY <2>1, <2>4, <3>2, <3>3, Zenon
    <3>. QED  BY <2>3, <3>1, <3>4, <3>5, Zenon DEF AtNode
  <2>6. cur' = {s}
    BY <1>2, <2>1
  <2>. QED  BY <1>1, <1>2, <2>1, <2>5, <2>6, WalkOn
<1>. QED  BY <1>3, <1>4, <1>5

LEMMA EdgesStep ==
  ASSUME TypeOK, Progress, TypeOK', Grows, graph' = graph, began' = began,
         NEW s \in Schema, BuildEdges(s)
  PROVE  Walked'
<1>1. /\ pc = "fields" /\ pc' = "edges" /\ s \in cur /\ pending = {}
      /\ pending' = Unskipped(Members(s, {"edge"}))
      /\ registry' = registry /\ todo' = todo /\ cur' = cur /\ fields' = fields
      /\ filed' = filed /\ message' = message /\ deps' = deps /\ errors' = errors
  BY DEF BuildEdges, files
<1>2. cur = {s} /\ AtNode(s) /\ Walked
  BY <1>1, AtCur
<1>3. fields = Unskipped(Members(s, {"id", "field"}))
  BY <1>1, <1>2, Zenon DEF AtNode
<1>4. \A K : Unskipped(Members(s, K))' = Unskipped(Members(s, K))
  BY Zenon DEF Unskipped, Members, ann
<1>5. (graph.msg[s] = "on" /\ errors[s] = "" /\ s \notin Waiting)'
  BY <1>1, <1>2, Zenon DEF AtNode, Waiting
<1>6. (\A k \in fields : Built(k))'
  <2>1. \A k \in fields : Built(k) /\ k \in Member
    BY <1>2 DEF AtNode, TypeOK
  <2>. QED  BY <1>1, <2>1, RegisteredStays
<1>7. pc' # "fields" /\ pc' # "deps"
  BY <1>1
<1>8. fields' \cup pending' =
        Unskipped(Members(s, {"id", "field"}))' \cup Unskipped(Members(s, {"edge"}))'
  <2>1. fields' = Unskipped(Members(s, {"id", "field"}))'
    BY <1>1, <1>3, <1>4
  <2>2. pending' = Unskipped(Members(s, {"edge"}))'
    BY <1>1, <1>4
  <2>. QED  BY <2>1, <2>2, Zenon
<1>9. AtNode(s)'
  BY <1>5, <1>6, <1>7, <1>8, Zenon DEF AtNode
<1>. QED  BY <1>1, <1>2, <1>9, WalkOn
LEMMA FinishStep ==
  ASSUME TypeOK, Progress, TypeOK', Grows, graph' = graph, began' = began,
         NEW s \in Schema, FinishMessage(s)
  PROVE  Walked'
<1>1. /\ pc = "edges" /\ s \in cur /\ pending = {} /\ out = {}
      /\ todo' = todo /\ deps' = deps /\ registry' = registry
  BY DEF FinishMessage, Progress
<1>2. cur = {s} /\ AtNode(s) /\ Walked
  BY <1>1, AtCur
<1>3. fields = Kept(s) /\ \A k \in fields : Built(k) /\ k \in Member
  <2>1. fields \cup pending =
          Unskipped(Members(s, {"id", "field"})) \cup Unskipped(Members(s, {"edge"}))
    BY <1>1, <1>2, Zenon DEF AtNode
  <2>2. fields = Kept(s)
    BY <1>1, <2>1, KeptMembers
  <2>3. \A k \in fields : Built(k)
    BY <1>2, Zenon DEF AtNode
  <2>. QED  BY <2>2, <2>3, KeptMembers
<1>4. CASE NumberedTwice(fields)
  <2>1. Fail(s, "duplicate") /\ message' = message /\ filed' = filed
    BY <1>4 DEF FinishMessage
  <2>2. Caused(s, "duplicate")
    BY <1>3, <1>4 DEF Caused
  <2>. QED  BY <1>1, <1>2, <2>1, <2>2, FailWalks
<1>5. CASE ~NumberedTwice(fields)
  <2>1. /\ message' = [message EXCEPT ![s] = fields] /\ filed' = filed \cup {s} /\ pc' = "deps"
        /\ pending' = {m \in fields : Refers(m)} /\ fields' = {}
        /\ cur' = cur /\ out' = out /\ errors' = errors
    BY <1>5, Zenon DEF FinishMessage
  <2>2. message'[s] = Kept(s) /\ \A t \in Schema : t # s => message'[t] = message[t]
    BY <1>3, <2>1 DEF TypeOK
  <2>3. Kept(s)' = Kept(s) /\ (NumberedTwice(Kept(s))' <=> NumberedTwice(Kept(s)))
    BY SameGraph, Zenon DEF NumberedTwice
  <2>4. (graph.msg[s] = "on" /\ errors[s] = "" /\ s \notin Waiting)'
    BY <1>1, <1>2, <2>1, Zenon DEF AtNode, Waiting
  <2>5. (message[s] = Kept(s) /\ s \in filed /\ ~NumberedTwice(Kept(s)))'
    BY <1>3, <1>5, <2>1, <2>2, <2>3
  <2>6. (\A m \in pending : m \in Kept(s) /\ Refers(m))'
    BY <1>3, <2>1, <2>3 DEF Refers
  <2>7. (\A m \in Kept(s) : Built(m) /\ (Refers(m) => m \in pending \/ Settled(m, out)))'
    <3>1. \A m \in Kept(s) : Built(m)' /\ (Refers(m) => m \in pending')
      BY <1>3, <2>1, RegisteredStays
    <3>. QED  BY <2>3, <3>1, Zenon DEF Refers
  <2>8. fields' = {} /\ out' = {} /\ pc' # "fields" /\ pc' # "edges"
    BY <1>1, <2>1
  <2>9. AtNode(s)'
    BY <2>4, <2>5, <2>6, <2>7, <2>8, Zenon DEF AtNode
  <2>10. (\A t \in cur : AtNode(t))' /\ cur' # {}
    BY <1>2, <2>1, <2>9
  <2>11. \A t \in Schema \ cur : errors'[t] = errors[t] /\ message'[t] = message[t]
    BY <1>2, <2>1, <2>2
  <2>. QED  BY <1>1, <1>2, <2>1, <2>10, <2>11, WalkOn
<1>. QED  BY <1>4, <1>5

\* A dependency that is found, in the registry or among the schemas.
LEMMA FoundStep ==
  ASSUME TypeOK, Progress, TypeOK', Grows, graph' = graph, began' = began,
         pc = "deps", pc' = "deps", NEW s \in Schema, cur = {s}, AtNode(s), Walked,
         NEW m \in pending, NEW f \in File, out' = out \/ out' = out \cup {f},
         pending' = pending \ {m}, Settled(m, out)', out' = out \/ Accounted(Kept(s), f)',
         UNCHANGED <<cur, fields, errors, registry, todo, message, filed, deps>>
  PROVE  Walked'
<1>1. Kept(s)' = Kept(s) /\ (NumberedTwice(Kept(s))' <=> NumberedTwice(Kept(s)))
  BY SameGraph, Zenon DEF NumberedTwice
<1>2. (graph.msg[s] = "on" /\ errors[s] = "" /\ s \notin Waiting)'
  BY Zenon DEF AtNode, Waiting
<1>3. (message[s] = Kept(s) /\ s \in filed /\ ~NumberedTwice(Kept(s)))'
  BY <1>1, Zenon DEF AtNode
<1>4. (\A k \in pending : k \in Kept(s) /\ Refers(k))'
  <2>1. \A k \in pending : k \in Kept(s) /\ Refers(k)
    BY Zenon DEF AtNode
  <2>. QED  BY <1>1, <2>1 DEF Refers
<1>5. (\A k \in Kept(s) : Built(k) /\ (Refers(k) => k \in pending \/ Settled(k, out)))'
  <2>1. ASSUME NEW k \in Kept(s) PROVE Built(k)' /\ (Refers(k) => k \in pending' \/ Settled(k, out)')
    <3>1. Built(k) /\ (Refers(k) => k \in pending \/ Settled(k, out)) /\ k \in Member
      BY KeptMembers, Zenon DEF AtNode
    <3>2. out \subseteq out' /\ out \subseteq File
      BY DEF TypeOK
    <3>3. Settled(k, out) => Settled(k, out)'
      BY <3>1, <3>2, SettledStays, Zenon
    <3>. QED  BY <3>1, <3>3, RegisteredStays
  <2>. QED  BY <1>1, <2>1, Zenon DEF Refers
<1>6. (\A g \in out : Accounted(Kept(s), g))'
  <2>1. ASSUME NEW g \in out PROVE Accounted(Kept(s), g)'
    <3>1. Accounted(Kept(s), g) /\ g \in File
      BY Zenon DEF AtNode, TypeOK
    <3>. QED  BY <3>1, AccountedStays
  <2>. QED  BY <2>1, Zenon
<1>7. (\A k \in fields : Built(k))'
  <2>1. \A k \in fields : Built(k) /\ k \in Member
    BY DEF AtNode, TypeOK
  <2>. QED  BY <2>1, RegisteredStays
<1>8. AtNode(s)'
  BY <1>2, <1>3, <1>4, <1>5, <1>6, <1>7, Zenon DEF AtNode
<1>. QED  BY <1>8, WalkOn
LEMMA DepStep ==
  ASSUME TypeOK, Progress, TypeOK', Grows, graph' = graph, began' = began,
         NEW m \in Member, ExtractDep(m)
  PROVE  Walked'
<1>1. /\ pc = "deps" /\ m \in pending
      /\ registry' = registry /\ todo' = todo /\ message' = message /\ filed' = filed /\ deps' = deps
  BY DEF ExtractDep, First
<1>2. PICK s \in Schema : cur = {s} /\ AtNode(s) /\ Walked
  BY <1>1, AtCur
<1>3. IF Registered(m) THEN AddToStub(s, m) ELSE ImportSchema(s, m) /\ UNCHANGED stubs
  BY <1>2, Zenon DEF ExtractDep
<1>4. m \in Kept(s) /\ Refers(m) /\ Built(m) /\ SchemaOf[m] = s
  BY <1>1, <1>2, KeptMembers, Zenon DEF AtNode
<1>5. CASE Registered(m)
  <2>1. TypeName(m) \in Names /\ registry[TypeName(m)] \in File
    BY <1>5, RegisteredName
  <2>2. CASE \E k \in stubs[registry[TypeName(m)]] : k.pkg # TypeName(m).pkg
    <3>1. Fail(s, "conflict")
      BY <1>3, <1>5, <2>2, Zenon DEF AddToStub
    <3>2. PICK k \in stubs[registry[TypeName(m)]] : k.pkg # TypeName(m).pkg
      BY <2>2
    <3>3. PICK n \in Names : registry[n] = registry[TypeName(m)] /\ k.pkg = n.pkg
      BY <2>1 DEF Progress, StubsRegistered
    <3>4. Quarrels(s)
      BY <1>4, <1>5, <3>2, <3>3 DEF Quarrels
    <3>5. Caused(s, "conflict")
      BY <3>4 DEF Caused
    <3>. QED  BY <1>1, <1>2, <3>1, <3>5, FailWalks
  <2>3. CASE ~\E k \in stubs[registry[TypeName(m)]] : k.pkg # TypeName(m).pkg
    <3>0. PICK f \in File : f = registry[TypeName(m)]
      BY <2>1
    <3>1. /\ stubs' = [stubs EXCEPT ![f] = @ \cup Enclosing(TypeName(m))]
          /\ out' = out \cup {f} /\ pending' = pending \ {m}
          /\ pc' = pc /\ cur' = cur /\ fields' = fields /\ errors' = errors
      BY <1>3, <1>5, <2>3, <3>0, Zenon DEF AddToStub
    <3>2. TypeName(m) \in stubs'[f]
      <4>1. TypeName(m) \in Enclosing(TypeName(m))
        BY <2>1, EnclosingNames, Constants
      <4>. QED  BY <2>1, <3>1, <4>1 DEF TypeOK
    <3>3. TypeName(m)' = TypeName(m) /\ Registered(m)'
      BY <1>5, SameGraph, RegisteredStays
    <3>4. Settled(m, out)'
      <4>1. f \in out'
        BY <3>1
      <4>. QED  BY <3>2, <3>3, <4>1, Zenon DEF Settled
    <3>5. Accounted(Kept(s), f)'
      <4>1. stubs'[f] # {}
        BY <3>2
      <4>. QED  BY <4>1, Zenon DEF Accounted
    <3>. QED  BY <1>1, <1>2, <3>1, <3>4, <3>5, FoundStep
  <2>. QED  BY <2>2, <2>3
<1>6. CASE ~Registered(m)
  <2>. DEFINE t == ShortName(TypeName(m))
  <2>1. ImportSchema(s, m) /\ stubs' = stubs
    BY <1>3, <1>6
  <2>2. TypeOf[m] = "edge" \/ TypeOf[m] = "message"
    BY <1>4 DEF Refers
  <2>3. TypeOf[m] = "message" => FileGiven[m] = NoFile /\ registry[NameOf[m]] = NoFile
    <3>1. TypeOf[m] = "message" => registry[NameOf[m]] = NoFile
      BY <1>6, RegisteredName
    <3>. QED  BY <1>4, <3>1, Zenon DEF Built, Registers
  <2>4. TypeOf[m] = "edge" => t \in Schema /\ graph.msg[t] = "on"
    BY <1>4, EdgeName DEF Built
  <2>5. CASE t \notin Schema \/ graph.msg[t] \in {"none", "bad"}
    <3>1. PICK e \in {"unknown", "message"} : Fail(s, e)
      BY <2>1, <2>5 DEF ImportSchema
    <3>2. LeansOnRegistry(s)
      BY <1>4, <2>2, <2>3, <2>4, <2>5 DEF LeansOnRegistry
    <3>3. e \notin {"", "skipped"} /\ Caused(s, e)
      BY <3>1, <3>2 DEF Caused
    <3>. QED  BY <1>1, <1>2, <3>1, <3>3, FailWalks
  <2>6. CASE ~(t \notin Schema \/ graph.msg[t] \in {"none", "bad"})
    <3>1. /\ out' = IF PackageOf(t) = PackageOf(s) THEN out ELSE out \cup {FileOf[PackageOf(t)]}
          /\ pending' = pending \ {m}
          /\ pc' = pc /\ cur' = cur /\ fields' = fields /\ errors' = errors
      BY <2>1, <2>6, Zenon DEF ImportSchema
    <3>2. Imported(m)
      <4>1. TypeOf[m] = "message" => began[NameOf[m]] = NoFile
        BY <2>3, MessageTypeName, Zenon DEF Progress, RegistryGrows
      <4>. QED  BY <2>3, <2>6, <4>1, Zenon DEF Imported
    <3>3. Imported(m)' /\ (Away(m)' <=> Away(m)) /\ ImportOf(m)' = ImportOf(m)
      BY <3>2, SameGraph, Zenon
      DEF Imported, ShortName, Away, ImportOf, TypeName, PackageOf, MessageOf
    <3>4. /\ (Away(m) <=> PackageOf(t) # PackageOf(s)) /\ ImportOf(m) = FileOf[PackageOf(t)]
      BY <1>4, Zenon DEF Away, ImportOf
    <3>5. Away(m) => ImportOf(m) \in out'
      BY <3>1, <3>4
    <3>6. Settled(m, out)'
      BY <3>3, <3>5, Zenon DEF Settled
    <3>7. ImportOf(m) \in File
      BY <2>6, <3>4, Packages
    <3>8. out' = out \/ Accounted(Kept(s), ImportOf(m))'
      <4>1. CASE ~Away(m)
        BY <3>1, <3>4, <4>1
      <4>2. CASE Away(m)
        <5>1. Kept(s)' = Kept(s) /\ Refers(m)'
          BY <1>4, SameGraph, Zenon DEF Refers
        <5>. QED  BY <1>4, <3>3, <4>2, <5>1, Zenon DEF Accounted
      <4>. QED  BY <4>1, <4>2
    <3>9. out' = out \/ out' = out \cup {ImportOf(m)}
      BY <3>1, <3>4
    <3>10. \A f : f = ImportOf(m) => out' = out \/ Accounted(Kept(s), f)'
      BY <3>3, <3>8, Zenon DEF Accounted
    <3>11. PICK f \in File : f = ImportOf(m)
      BY <3>7
    <3>. QED  BY <1>1, <1>2, <3>1, <3>6, <3>9, <3>10, <3>11, FoundStep
  <2>. QED  BY <2>5, <2>6
<1>. QED  BY <1>5, <1>6
LEMMA DoneStep ==
  ASSUME TypeOK, Progress, TypeOK', Grows, graph' = graph, began' = began,
         NEW s \in Schema, NodeDone(s)
  PROVE  Walked'
<1>1. /\ pc = "deps" /\ s \in cur /\ pending = {} /\ cur' = {}
      /\ deps' = [deps EXCEPT ![FileOf[PackageOf(s)]] = @ \cup out]
      /\ registry' = registry /\ todo' = todo /\ message' = message /\ filed' = filed
      /\ stubs' = stubs /\ errors' = errors
  BY DEF NodeDone
<1>2. cur = {s} /\ AtNode(s) /\ Walked
  BY <1>1, AtCur
<1>3. /\ graph.msg[s] = "on" /\ errors[s] = "" /\ message[s] = Kept(s) /\ s \in filed
      /\ ~NumberedTwice(Kept(s))
      /\ \A m \in Kept(s) : Built(m) /\ (Refers(m) => Settled(m, out))
      /\ \A f \in out : Accounted(Kept(s), f)
  BY <1>1, <1>2, Zenon DEF AtNode
<1>4. Kept(s)' = Kept(s) /\ PackageOf(s)' = PackageOf(s) /\ graph.msg' = graph.msg
  BY SameGraph, Zenon
<1>5. Sound(s)'
  <2>1. Sound(s)
    BY <1>3, Zenon DEF Sound, Built
  <2>. QED  BY <2>1, SameGraph, Zenon DEF Sound
<1>6. Known(s)'
  <2>1. ASSUME NEW m \in Kept(s), TypeOf[m] = "message"
        PROVE  registry[NameOf[m]] # NoFile \/ ShortName(NameOf[m]) \in Schema
    <3>1. Settled(m, out) /\ m \in Member
      BY <1>3, <2>1, KeptMembers DEF Refers
    <3>. QED  BY <2>1, <3>1, RegisteredName, MessageTypeName, Zenon DEF Settled, Imported
  <2>2. Known(s)
    BY <2>1, Zenon DEF Known
  <2>. QED  BY <2>2, RegisteredStays
<1>7. ErrorFits(s)'
  <2>1. errors'[s] = "" /\ (graph.msg[s] = "on")' /\ message'[s] = Kept(s)' /\ s \in filed'
    BY <1>1, <1>3, <1>4
  <2>2. /\ (errors[s] = "skipped" <=> graph.msg[s] # "on")'
        /\ Caused(s, errors[s])'
    BY <2>1 DEF Caused
  <2>. QED  BY <1>5, <1>6, <2>1, <2>2, Zenon DEF ErrorFits
<1>8. FileOf[PackageOf(s)] \in File /\ out \subseteq File
  BY Packages DEF TypeOK
<1>9. \A f \in File : deps'[f] = IF f = FileOf[PackageOf(s)] THEN deps[f] \cup out ELSE deps[f]
  <2>1. deps \in [File -> SUBSET File]
    BY DEF TypeOK
  <2>. QED  BY <1>1, <1>8, <2>1
<1>10. out \subseteq deps'[FileOf[PackageOf(s)']]
  BY <1>4, <1>8, <1>9
<1>11. ASSUME NEW m \in Kept(s)
       PROVE  Built(m)' /\ (Refers(m) => Settled(m, deps[FileOf[PackageOf(s)]])')
  <2>1. m \in Member /\ SchemaOf[m] = s /\ Built(m) /\ (Refers(m) => Settled(m, out))
    BY <1>3, KeptMembers, Zenon
  <2>2. Settled(m, out) => Settled(m, deps[FileOf[PackageOf(s)]])'
    BY <1>8, <1>10, <2>1, SettledStays, Zenon
  <2>. QED  BY <2>1, <2>2, RegisteredStays
<1>12. Judged(s)'
  BY <1>4, <1>7, <1>11, Zenon DEF Judged, Refers
<1>13. DepsAccounted'
  <2>1. Past' = Past \cup {s}
    <3>1. s \notin Waiting /\ Waiting' = Waiting
      BY <1>1, <1>2 DEF AtNode, Waiting
    <3>. QED  BY <1>1, <1>2, <3>1 DEF Past
  <2>2. ASSUME NEW f \in File, NEW g \in deps'[f]
        PROVE  \/ stubs'[g] # {}
               \/ \E t \in filed' : /\ errors'[t] = "" /\ t \in Past' /\ FileOf[PackageOf(t)'] = f
                                  /\ Accounted(Kept(t), g)'
    <3>1. CASE g \in deps[f]
      BY <1>1, <1>2, <2>1, <3>1, DepStays DEF Walked
    <3>2. CASE g \notin deps[f]
      <4>1. f = FileOf[PackageOf(s)] /\ g \in out
        BY <1>9, <2>2, <3>2
      <4>2. Accounted(Kept(s), g)'
        BY <1>3, <1>8, <4>1, AccountedStays
      <4>. QED  BY <1>1, <1>3, <1>4, <2>1, <4>1, <4>2
    <3>. QED  BY <3>1, <3>2
  <2>. QED  BY <2>2, Zenon DEF DepsAccounted
<1>. QED  BY <1>1, <1>2, <1>12, <1>13, WalkOn
-----------------------------------------------------------------------------
(* The other steps.                                                          *)

LEMMA StartStep == ASSUME TypeOK, TypeOK', StartLoad PROVE Walked'
<1>1. /\ todo' = graph.nodes /\ cur' = {} /\ errors' = [s \in Schema |-> ""]
      /\ deps' = [f \in File |-> {}]
  BY DEF StartLoad, TypeOK, Ended
<1>2. graph.nodes \in Seq(Schema) /\ EachOnce(graph.nodes)
  BY GraphTyped
<1>3. \A i \in 1..Len(graph.nodes) : graph.nodes[i] \in Schema
  BY <1>2
<1>4. \A i, j \in 1..Len(graph.nodes) : graph.nodes[i] = graph.nodes[j] => i = j
  BY <1>2, <1>3, Zenon DEF EachOnce
<1>5. Schema \subseteq Waiting'
  <2>1. \A s \in Schema : \E i \in 1..Len(graph.nodes) : graph.nodes[i] = s
    BY <1>2, Zenon DEF EachOnce
  <2>. QED  BY <1>1, <2>1, Zenon DEF Waiting
<1>6. Past' = {}
  BY <1>5 DEF Past
<1>7. (\A i, j \in 1..Len(todo) : todo[i] = todo[j] => i = j)'
  BY <1>1, <1>4, Zenon
<1>8. (\A s \in Waiting : errors[s] = "")'
  <2>1. Waiting' \subseteq Schema
    BY <1>1, <1>3, Zenon DEF Waiting
  <2>. QED  BY <1>1, <2>1
<1>9. DepsAccounted'
  BY <1>1 DEF DepsAccounted
<1>10. (\A s \in Past : Judged(s))' /\ (\A s \in cur : AtNode(s))'
  BY <1>1, <1>6
<1>. QED  BY <1>7, <1>8, <1>9, <1>10, Zenon DEF Walked

LEMMA RegisterStep ==
  ASSUME TypeOK, TypeOK', Walked, Grows, graph' = graph, began' = began,
         UNCHANGED <<walk, files>>, pc' = pc \/ cur = {}
  PROVE  Walked'
<1>1. /\ todo' = todo /\ cur' = cur /\ pending' = pending /\ fields' = fields /\ out' = out
      /\ message' = message /\ filed' = filed /\ deps' = deps /\ stubs' = stubs /\ errors' = errors
  BY DEF walk, files
<1>2. ASSUME NEW s \in cur PROVE AtNode(s)'
  <2>1. s \in Schema /\ AtNode(s) /\ pc' = pc
    <3>1. cur \in {{}} \cup {{t} : t \in Schema}
      BY DEF TypeOK
    <3>2. s \in Schema /\ cur # {}
      BY <1>2, <3>1
    <3>. QED  BY <1>2, <3>2 DEF Walked
  <2>2. /\ Kept(s)' = Kept(s) /\ (NumberedTwice(Kept(s))' <=> NumberedTwice(Kept(s)))
        /\ \A K : Unskipped(Members(s, K))' = Unskipped(Members(s, K))
    <3>1. Kept(s)' = Kept(s) /\ (NumberedTwice(Kept(s))' <=> NumberedTwice(Kept(s)))
      BY SameGraph, Zenon DEF NumberedTwice
    <3>2. \A K : Unskipped(Members(s, K))' = Unskipped(Members(s, K))
      BY SameGraph, Zenon DEF Unskipped, ann
    <3>. QED  BY <3>1, <3>2
  <2>3. (graph.msg[s] = "on" /\ errors[s] = "" /\ s \notin Waiting)'
    BY <1>1, <2>1, Zenon DEF AtNode, Waiting
  <2>4. (\A m \in fields : Built(m))'
    <3>1. \A m \in fields : Built(m) /\ m \in Member
      BY <2>1 DEF AtNode, TypeOK
    <3>. QED  BY <1>1, <3>1, RegisteredStays
  <2>5. /\ pc' = "fields" => fields' \cup pending' = Unskipped(Members(s, {"id", "field"}))'
        /\ pc' = "edges" => fields' \cup pending' =
             Unskipped(Members(s, {"id", "field"}))' \cup Unskipped(Members(s, {"edge"}))'
    <3>1. /\ pc = "fields" => fields \cup pending = Unskipped(Members(s, {"id", "field"}))
          /\ pc = "edges" => fields \cup pending =
               Unskipped(Members(s, {"id", "field"})) \cup Unskipped(Members(s, {"edge"}))
      BY <2>1, Zenon DEF AtNode
    <3>. QED  BY <1>1, <2>1, <2>2, <3>1, Zenon
  <2>6. ASSUME pc' = "deps"
        PROVE  /\ message'[s] = Kept(s)' /\ s \in filed' /\ ~NumberedTwice(Kept(s))'
               /\ \A m \in pending' : m \in Kept(s)' /\ Refers(m)'
               /\ \A m \in Kept(s)' : Built(m)' /\ (Refers(m)' => m \in pending' \/ Settled(m, out)')
               /\ \A f \in out' : Accounted(Kept(s), f)'
    <3>1. /\ message[s] = Kept(s) /\ s \in filed /\ ~NumberedTwice(Kept(s))
          /\ \A m \in pending : m \in Kept(s) /\ Refers(m)
          /\ \A m \in Kept(s) : Built(m) /\ (Refers(m) => m \in pending \/ Settled(m, out))
          /\ \A f \in out : Accounted(Kept(s), f)
      BY <2>1, <2>6, Zenon DEF AtNode
    <3>2. ASSUME NEW m \in Kept(s)
          PROVE  Built(m)' /\ (Refers(m) => m \in pending' \/ Settled(m, out)')
      <4>1. m \in Member /\ out \subseteq File /\ out \subseteq out'
        BY <1>1, <2>1, KeptMembers DEF TypeOK
      <4>2. Settled(m, out) => Settled(m, out)'
        BY <4>1, SettledStays, Zenon
      <4>. QED  BY <1>1, <3>1, <4>1, <4>2, RegisteredStays
    <3>3. \A f \in out : Accounted(Kept(s), f)'
      BY <2>1, <3>1, AccountedStays DEF TypeOK
    <3>. QED  BY <1>1, <2>2, <3>1, <3>2, <3>3, Zenon DEF Refers
  <2>. QED  BY <2>3, <2>4, <2>5, <2>6, Zenon DEF AtNode
<1>3. cur' = {} => \A s \in cur : Judged(s)'
  BY <1>1
<1>. QED  BY <1>1, <1>2, <1>3, WalkOn

LEMMA SameLinks ==
  ASSUME graph' = graph, UNCHANGED files
  PROVE  Dangling' = Dangling /\ (Links' <=> Links)
<1>1. /\ message' = message /\ filed' = filed /\ deps' = deps /\ stubs' = stubs /\ errors' = errors
  BY DEF files
<1>2. Dangling' = Dangling
  BY <1>1, Zenon DEF Dangling, Failed, FieldReferencesSchema, Referenced, ShortName, ann
<1>3. /\ StubFiles' = StubFiles /\ OwnFiles' = OwnFiles
      /\ \A f : In(f)' = In(f) /\ Imports(f)' = Imports(f) /\ Provided(f)' = Provided(f)
  BY <1>1, Zenon DEF StubFiles, OwnFiles, In, Imports, Provided, PackageOf, MessageOf
<1>4. Cyclic' <=> Cyclic
  BY <1>3, Zenon DEF Cyclic
<1>5. \A f, m : Resolves(f, TypeName(m))' <=> Resolves(f, TypeName(m))
  BY <1>3, SameGraph, Zenon DEF Resolves
<1>6. \A m : (Legal(Number(m))' <=> Legal(Number(m))) /\ (Refers(m)' <=> Refers(m))
  <2>1. ASSUME NEW m PROVE Legal(Number(m))' <=> Legal(Number(m))
    <3>1. Number(m)' = Number(m)
      BY SameGraph, Zenon
    <3>. QED  BY <3>1, Zenon
  <2>. QED  BY <2>1, Zenon DEF Refers
<1>7. Links' <=> Links
  BY <1>1, <1>3, <1>4, <1>5, <1>6, Zenon DEF Links
<1>. QED  BY <1>2, <1>7

\* Where a step of the walk may lead.
Placed ==
  /\ pc' \in {"nodes", "fields", "edges", "deps", "panic"}
  /\ pc' \in {"fields", "edges", "deps"} => cur' # {}
  /\ pc' \in {"fields", "edges"} => out' = {}
  /\ pc' = "deps" => fields' = {}

LEMMA WalkPlaced ==
  ASSUME TypeOK, Progress, LoadAdapter, ~Link
  PROVE  Placed
<1>1. ASSUME NEW s \in Schema, VisitNode(s) PROVE Placed
  <2>1. out = {}
    BY <1>1 DEF VisitNode, TypeOK
  <2>2. CASE graph.msg[s] # "on"
    BY <1>1, <2>2 DEF VisitNode, Fail, Placed
  <2>3. CASE graph.msg[s] = "on"
    BY <1>1, <2>1, <2>3 DEF VisitNode, Placed
  <2>. QED  BY <2>2, <2>3
<1>2. ASSUME NEW s \in Schema, BuildEdges(s) PROVE Placed
  BY <1>2 DEF BuildEdges, Placed, Progress
<1>3. ASSUME NEW s \in Schema, FinishMessage(s) PROVE Placed
  <2>1. CASE NumberedTwice(fields)
    BY <1>3, <2>1 DEF FinishMessage, Fail, Placed
  <2>2. CASE ~NumberedTwice(fields)
    BY <1>3, <2>2 DEF FinishMessage, Placed
  <2>. QED  BY <2>1, <2>2
<1>4. ASSUME NEW s \in Schema, NodeDone(s) PROVE Placed
  BY <1>4 DEF NodeDone, Placed
<1>5. ASSUME NEW m \in Member, BuildMember(m) PROVE Placed
  <2>1. CASE MemberError(m) # ""
    BY <1>5, <2>1 DEF BuildMember, Fail, Placed
  <2>2. CASE MemberError(m) = "" /\ Registers(m) /\ ~Registrable(m)
    BY <1>5, <2>2 DEF BuildMember, Panic, Placed
  <2>3. CASE MemberError(m) = "" /\ ~(Registers(m) /\ ~Registrable(m))
    <3>1. pc \in {"fields", "edges"} /\ pc' = pc /\ cur' = cur /\ out' = out
      BY <1>5, <2>3 DEF BuildMember
    <3>. QED  BY <3>1 DEF Placed, Progress
  <2>. QED  BY <2>1, <2>2, <2>3
<1>6. ASSUME NEW m \in Member, ExtractDep(m) PROVE Placed
  <2>1. PICK s \in cur : IF Registered(m) THEN AddToStub(s, m) ELSE ImportSchema(s, m) /\ UNCHANGED stubs
    BY <1>6 DEF ExtractDep
  <2>2. pc = "deps" /\ cur # {} /\ fields = {}
    BY <1>6, <2>1 DEF ExtractDep, Progress
  <2>3. \/ \E e \in {"conflict", "unknown", "message"} : Fail(s, e)
        \/ pc' = pc /\ cur' = cur /\ fields' = fields
    BY <2>1 DEF AddToStub, ImportSchema
  <2>4. CASE \E e \in {"conflict", "unknown", "message"} : Fail(s, e)
    BY <2>4 DEF Fail, Placed
  <2>. QED  BY <2>2, <2>3, <2>4 DEF Placed
<1>. QED  BY <1>1, <1>2, <1>3, <1>4, <1>5, <1>6 DEF LoadAdapter

LEMMA WalkStep ==
  ASSUME TypeOK, Progress, TypeOK', Grows, graph' = graph, began' = began, LoadAdapter, ~Link
  PROVE  pc' = "panic" \/ Walked'
BY VisitStep, BuildStep, EdgesStep, FinishStep, DepStep, DoneStep DEF LoadAdapter

\* Only what is to be generated is filed.
LEMMA FiledStep ==
  ASSUME TypeOK, Progress, [Next]_vars
  PROVE  \A s \in filed' : graph'.msg[s] = "on"
<1>. DEFINE Steady == filed' = filed /\ graph' = graph
<1>1. ASSUME NEW s \in Schema, FinishMessage(s)
      PROVE  \A t \in filed' : graph'.msg[t] = "on"
  <2>1. pc = "edges" /\ s \in cur /\ graph' = graph /\ (filed' = filed \/ filed' = filed \cup {s})
    BY <1>1 DEF FinishMessage
  <2>2. graph.msg[s] = "on"
    BY <2>1, AtCur DEF AtNode
  <2>. QED  BY <2>1, <2>2 DEF Progress
<1>2. CASE StartLoad
  BY <1>2 DEF StartLoad
<1>3. ASSUME NEW s \in Schema, VisitNode(s) \/ BuildEdges(s) \/ NodeDone(s) PROVE Steady
  BY <1>3 DEF VisitNode, BuildEdges, NodeDone, files
<1>4. ASSUME NEW m \in Member, BuildMember(m) \/ ExtractDep(m) PROVE Steady
  BY <1>4 DEF BuildMember, ExtractDep
<1>5. CASE Link \/ Return \/ UNCHANGED vars
  BY <1>5 DEF Link, Return, vars, files, Progress
<1>6. ASSUME NEW n \in DOMAIN External, RegisterCustomType(n) PROVE Steady
  BY <1>6 DEF RegisterCustomType, files
<1>. QED  BY <1>1, <1>2, <1>3, <1>4, <1>5, <1>6 DEF Next, LoadAdapter, Progress

LEMMA ProgressStep == ASSUME TypeOK, Progress, TypeOK', [Next]_vars PROVE Progress'
<1>1. StubsRegistered' /\ RegistryGrows' /\ (~StartLoad => Grows /\ graph' = graph /\ began' = began)
  BY GrowStep
<1>2. \A s \in filed' : graph'.msg[s] = "on"
  BY FiledStep
<1>3. CASE StartLoad
  <2>1. pc' = "nodes" /\ Walked'
    BY <1>3, StartStep DEF StartLoad
  <2>. QED  BY <1>1, <1>2, <2>1 DEF Progress, Ended
<1>4. CASE LoadAdapter /\ ~Link
  <2>1. Placed /\ ~StartLoad
    <3>1. pc # "idle"
      BY <1>4 DEF LoadAdapter, VisitNode, BuildEdges, FinishMessage, NodeDone, BuildMember, ExtractDep
    <3>. QED  BY <1>4, <3>1, WalkPlaced DEF StartLoad
  <2>2. pc' = "panic" \/ Walked'
    BY <1>1, <1>4, <2>1, WalkStep
  <2>. QED  BY <1>1, <1>2, <2>1, <2>2 DEF Progress, Placed, Ended
<1>5. CASE Link
  <2>1. /\ pc = "nodes" /\ todo = <<>> /\ UNCHANGED <<graph, registry, walk, files, began, last>>
        /\ pc' = IF Dangling # {} THEN "dangling" ELSE IF Links THEN "ready" ELSE "unlinked"
    BY <1>5, Zenon DEF Link
  <2>2. pc' \in Ended /\ cur = {} /\ todo' = <<>> /\ ~StartLoad
    BY <2>1 DEF Ended, TypeOK, StartLoad, walk
  <2>3. Walked'
    BY <1>1, <2>1, <2>2, RegisterStep DEF Progress
  <2>4. Dangling' = Dangling /\ (Links' <=> Links)
    BY <2>1, SameLinks
  <2>. QED  BY <1>1, <1>2, <2>1, <2>2, <2>3, <2>4 DEF Progress, Ended
<1>6. CASE Return
  <2>1. pc' = "idle"
    BY <1>6 DEF Return
  <2>. QED  BY <1>1, <1>2, <2>1 DEF Progress, Ended
<1>7. CASE (\E n \in DOMAIN External : RegisterCustomType(n)) \/ UNCHANGED vars
  <2>1. pc' = pc /\ graph' = graph /\ UNCHANGED <<walk, files>>
    BY <1>7 DEF RegisterCustomType, vars
  <2>2. todo' = todo /\ cur' = cur /\ fields' = fields /\ out' = out
    BY <2>1 DEF walk
  <2>3. ~StartLoad
    BY <2>1 DEF StartLoad
  <2>4. pc' \notin {"idle", "panic"} => Walked'
    BY <1>1, <2>1, <2>3, RegisterStep DEF Progress
  <2>5. Dangling' = Dangling /\ (Links' <=> Links)
    BY <2>1, SameLinks
  <2>. QED  BY <1>1, <1>2, <2>1, <2>2, <2>4, <2>5 DEF Progress
<1>. QED  BY <1>3, <1>4, <1>5, <1>6, <1>7 DEF Next

\* No load has begun.
Fresh ==
  /\ graph \in Graphs /\ registry = [n \in Names |-> NoFile] /\ began = registry
  /\ pc = "idle" /\ todo = <<>> /\ cur = {} /\ pending = {} /\ fields = {} /\ out = {}
  /\ message = [s \in Schema |-> {}] /\ filed = {}
  /\ deps = [f \in File |-> {}] /\ stubs = [f \in File |-> {}] /\ errors = [s \in Schema |-> ""]

LEMMA FreshInv == Fresh => IInv
<1>. SUFFICES ASSUME Fresh PROVE IInv
  OBVIOUS
<1>. USE Constants
<1>1. TypeOK
  <2>1. /\ graph \in Graphs /\ registry \in [Names -> File \cup {NoFile}]
        /\ pc = "idle" /\ cur = {} /\ pending = {} /\ fields = {} /\ out = {}
    BY DEF Fresh
  <2>2. todo \in Seq(Schema)
    <3>1. todo = <<>>
      BY DEF Fresh
    <3>. QED  BY <3>1, SMT
  <2>3. message \in [Schema -> SUBSET Member] /\ filed \subseteq Schema
    BY DEF Fresh
  <2>4. deps \in [File -> SUBSET File] /\ stubs \in [File -> SUBSET MessageName]
    BY DEF Fresh
  <2>5. errors = [s \in Schema |-> ""]
    BY DEF Fresh
  <2>. QED  BY <2>1, <2>2, <2>3, <2>4, <2>5 DEF TypeOK
<1>2. Progress
  BY <1>1 DEF Fresh, Progress, StubsRegistered, RegistryGrows, Ended
<1>. QED  BY <1>1, <1>2 DEF IInv

LEMMA FreshNext == Fresh' => IInv'
BY FreshInv, PTL

LEMMA InvInit == Init => IInv
BY FreshInv DEF Init, Fresh

LEMMA InvStep == IInv /\ [Next]_vars => IInv'
BY TypeStep, ProgressStep DEF IInv

\* Wherever LoadAdapter is, the schemas it has passed are judged as their annotations
\* and the registry have it, and what it has built of the current one is sound.
THEOREM InvHolds == Spec => []IInv
BY InvInit, InvStep, PTL DEF Spec
-----------------------------------------------------------------------------
(* What the invariant says of a load that has ended.                         *)

\* Every variable stays in its range.
THEOREM TypeCorrect == Spec => []TypeOK
<1>1. IInv => TypeOK
  BY DEF IInv
<1>. QED  BY <1>1, InvHolds, PTL

LEMMA AllJudged ==
  ASSUME IInv, pc \in Ended
  PROVE  \A s \in Schema : Judged(s)
<1>1. Walked /\ todo = <<>> /\ cur = {}
  BY DEF IInv, Progress, TypeOK, Ended
<1>2. Waiting = {}
  BY <1>1 DEF Waiting
<1>. QED  BY <1>1, <1>2 DEF Walked, Past

\* Which schemas LoadAdapter turns down can be read off their annotations, and a
\* message has the members its author did not skip.
THEOREM ErrorsCorrect == Spec => []ErrorsFitGraph
<1>1. IInv => ErrorsFitGraph
  BY AllJudged DEF ErrorsFitGraph, Judged
<1>. QED  BY <1>1, InvHolds, PTL

\* A member of an accepted schema, and what was found of the type it names.
LEMMA Accepted ==
  ASSUME IInv, pc \in Ended, NEW s \in Schema, ~Failed(s)
  PROVE  /\ s \in filed /\ message[s] = Kept(s)
         /\ \A m \in Kept(s) : Built(m) /\ (Refers(m) => Settled(m, deps[FileOf[PackageOf(s)]]))
<1>1. Judged(s) /\ errors[s] = ""
  BY AllJudged DEF Failed
<1>. QED  BY <1>1, Zenon DEF Judged, ErrorFits

\* linkDependencyError lets no accepted schema through that needs a failed one.
LEMMA NoneDangling ==
  ASSUME IInv, pc \in {"ready", "unlinked"}, NEW s \in Schema, ~Failed(s), NEW m \in Kept(s),
         Refers(m), ShortName(TypeName(m)) \in Schema, ~OddID(m)
  PROVE  ~Failed(ShortName(TypeName(m)))
<1>1. TypeOK /\ Dangling = {} /\ pc \in Ended
  BY DEF IInv, Progress, Ended
<1>2. m \in Member /\ m \in graph.members /\ SchemaOf[m] = s /\ Built(m)
  BY <1>1, KeptMembers, Accepted
<1>3. CASE TypeOf[m] = "edge"
  <2>1. ShortName(TypeName(m)) = TargetOf[m] /\ Referenced(m) = TargetOf[m]
    BY <1>2, <1>3, EdgeName DEF Referenced
  <2>. QED  BY <1>1, <1>2, <1>3, <2>1, Zenon DEF Dangling
<1>4. CASE TypeOf[m] = "message"
  <2>1. TypeName(m) = NameOf[m] /\ Referenced(m) = ShortName(NameOf[m])
    BY <1>2, <1>4, MessageTypeName DEF Referenced
  <2>2. KindOf[m] = "field"
    BY <1>2, <1>4, Constants, Assumed DEF OddID
  <2>3. ann[m].field = "ok"
    <3>1. ann[m].field \in {"none", "bad", "ok"}
      BY <1>1, <1>2, GraphTyped DEF ann, Mark
    <3>2. NumberError(m) = ""
      BY <1>2, MemberErrors DEF Built, MemberError
    <3>. QED  BY <2>2, <3>1, <3>2 DEF NumberError, ImplicitID
  <2>4. FieldReferencesSchema(m)
    BY <1>4, <2>1, <2>2, <2>3, Zenon DEF FieldReferencesSchema
  <2>. QED  BY <1>1, <1>2, <2>1, <2>4, Zenon DEF Dangling
<1>. QED  BY <1>3, <1>4 DEF Refers

\* An accepted schema that needs a failed one is named together with it: no such
\* pair is left to the linker, and none in what LoadAdapter returns.
THEOREM RootCauseCorrect == Spec => []RootCauseNamed
<1>1. ASSUME IInv, pc \in {"ready", "unlinked"}, NEW m \in Member,
             ~Failed(SchemaOf[m]), m \in message[SchemaOf[m]], Refers(m), ~Registered(m), ~OddID(m)
      PROVE  ~Failed(ShortName(TypeName(m)))
  <2>1. pc \in Ended /\ SchemaOf[m] \in Schema
    BY <1>1, Constants DEF Ended
  <2>2. m \in Kept(SchemaOf[m]) /\ Settled(m, deps[FileOf[PackageOf(SchemaOf[m])]])
    BY <1>1, <2>1, Accepted
  <2>3. ShortName(TypeName(m)) \in Schema
    BY <1>1, <2>2, Zenon DEF Settled, Imported
  <2>. QED  BY <1>1, <2>1, <2>2, <2>3, NoneDangling
<1>2. IInv => RootCauseNamed
  BY <1>1, Zenon DEF RootCauseNamed
<1>. QED  BY <1>2, InvHolds, PTL
-----------------------------------------------------------------------------
(* What the linker turns down.                                               *)

\* What UnlinkedExplained lays at the author's door.
IllMember(s, m) ==
  \/ ~Legal(Number(m))
  \/ Failed(s) /\ Refers(m)
  \/ Refers(m) /\ TypeName(m).pkg = ""
  \/ /\ TypeOf[m] = "message" /\ FileGiven[m] = NoFile /\ began[NameOf[m]] = NoFile
     /\ ShortName(NameOf[m]) \in Schema
     /\ NameOf[m] # MessageOf(PackageOf(ShortName(NameOf[m])), ShortName(NameOf[m]))
  \/ Refers(m) /\ OddID(m)
Entwined == \E s, t \in filed :
  /\ PackageOf(s) # PackageOf(t)
  /\ \E m \in message[s] : Refers(m) /\ ShortName(TypeName(m)) \in Schema
  /\ \E k \in message[t] : Refers(k) /\ ShortName(TypeName(k)) \in Schema
Blameless ==
  /\ \A s \in filed : \A m \in message[s] : ~IllMember(s, m)
  /\ ~Entwined
  /\ \A s \in filed : FileOf[PackageOf(s)] \notin StubFiles

\* The name by which a blameless member calls a schema is that of its message.
LEMMA GoodName ==
  ASSUME IInv, NEW s \in Schema, NEW m \in Kept(s), Refers(m), Imported(m), ~IllMember(s, m)
  PROVE  TypeName(m) = MessageOf(PackageOf(ShortName(TypeName(m))), ShortName(TypeName(m)))
<1>. DEFINE t == ShortName(TypeName(m))
<1>1. TypeOK /\ m \in Member /\ SchemaOf[m] = s /\ t \in Schema
  BY KeptMembers DEF IInv, Imported
<1>2. CASE TypeOf[m] = "edge"
  <2>1. t = TargetOf[m]
    BY <1>1, <1>2, EdgeName
  <2>2. CASE graph.pkg[s] = graph.pkg[t]
    <3>1. PackageOf(s) = PackageOf(t)
      BY <2>2, Zenon DEF PackageOf
    <3>2. TypeName(m) = MessageOf(PackageOf(s), t)
      BY <1>1, <1>2, <2>1, <2>2 DEF TypeName
    <3>. QED  BY <3>1, <3>2
  <2>3. CASE graph.pkg[s] # graph.pkg[t]
    <3>1. TypeName(m) = MessageOf(graph.pkg[t], t)
      BY <1>1, <1>2, <2>1, <2>3 DEF TypeName
    <3>2. TypeName(m).pkg = graph.pkg[t]
      <4>1. \A p, k : MessageOf(p, k).pkg = p
        BY DEF MessageOf
      <4>. QED  BY <3>1, <4>1, Zenon
    <3>3. PackageOf(t) = graph.pkg[t]
      BY <3>2, Zenon DEF PackageOf, IllMember
    <3>. QED  BY <3>1, <3>3
  <2>. QED  BY <2>2, <2>3
<1>3. CASE TypeOf[m] = "message"
  <2>1. TypeName(m) = NameOf[m]
    BY <1>1, <1>3, MessageTypeName
  <2>. QED  BY <1>1, <1>3, <2>1, Zenon DEF IllMember, Imported
<1>. QED  BY <1>2, <1>3 DEF Refers

\* What a blameless accepted schema imports is linked with it.
LEMMA SchemaFiled ==
  ASSUME IInv, pc = "unlinked", Blameless, NEW s \in Schema, ~Failed(s), NEW m \in Kept(s),
         Refers(m), Imported(m)
  PROVE  /\ ShortName(TypeName(m)) \in Schema /\ ShortName(TypeName(m)) \in filed
         /\ ImportOf(m) \in OwnFiles /\ ImportOf(m) \notin StubFiles
         /\ m \in message[s] /\ s \in filed /\ ~IllMember(s, m)
<1>1. pc \in Ended /\ pc \in {"ready", "unlinked"}
  BY DEF Ended
<1>2. s \in filed /\ message[s] = Kept(s)
  BY <1>1, Accepted
<1>3. m \in message[s] /\ ~IllMember(s, m)
  BY <1>2 DEF Blameless
<1>4. ShortName(TypeName(m)) \in Schema /\ ~OddID(m)
  BY <1>3, Zenon DEF Imported, IllMember
<1>5. ~Failed(ShortName(TypeName(m)))
  BY <1>1, <1>4, NoneDangling
<1>6. ShortName(TypeName(m)) \in filed
  BY <1>1, <1>4, <1>5, Accepted
<1>. QED  BY <1>2, <1>3, <1>4, <1>6, Zenon DEF ImportOf, OwnFiles, Blameless

\* Every import of a package's file is that of a stub, or is there for a member of
\* an accepted schema of the package.
LEMMA ImportMade ==
  ASSUME IInv, pc = "unlinked", NEW f \in OwnFiles, NEW g \in Imports(f), g \notin StubFiles
  PROVE  \E s \in Schema : /\ ~Failed(s) /\ FileOf[PackageOf(s)] = f
                         /\ \E m \in Kept(s) : Refers(m) /\ Imported(m) /\ Away(m) /\ g = ImportOf(m)
<1>1. TypeOK /\ DepsAccounted
  BY DEF IInv, Progress, Walked
<1>2. f \in File /\ g \in deps[f]
  BY <1>1, Packages DEF TypeOK, OwnFiles, Imports
<1>3. g \in File
  BY <1>1, <1>2 DEF TypeOK
<1>4. stubs[g] = {}
  BY <1>3 DEF StubFiles
<1>5. PICK s \in filed : errors[s] = "" /\ FileOf[PackageOf(s)] = f /\ Accounted(Kept(s), g)
  BY <1>1, <1>2, <1>4, Zenon DEF DepsAccounted
<1>6. s \in Schema /\ ~Failed(s)
  BY <1>1, <1>5 DEF TypeOK, Failed
<1>. QED  BY <1>4, <1>5, <1>6, Zenon DEF Accounted

LEMMA BlamelessAcyclic == ASSUME IInv, pc = "unlinked", Blameless PROVE ~Cyclic
<1>. SUFFICES ASSUME NEW S \in SUBSET (OwnFiles \cup StubFiles), S # {},
                     \A f \in S : Imports(f) \cap S # {}
              PROVE  FALSE
  BY DEF Cyclic
<1>1. TypeOK
  BY DEF IInv
<1>2. \A f \in S : f \in OwnFiles /\ f \notin StubFiles
  BY DEF Imports
<1>3. PICK f \in S : TRUE
  OBVIOUS
<1>4. PICK g \in S : g \in Imports(f)
  BY <1>3
<1>5. PICK h \in S : h \in Imports(g)
  BY <1>4
<1>6. PICK s \in Schema : /\ ~Failed(s) /\ FileOf[PackageOf(s)] = f
                       /\ \E m \in Kept(s) : Refers(m) /\ Imported(m) /\ Away(m) /\ g = ImportOf(m)
  BY <1>2, <1>3, <1>4, ImportMade
<1>7. PICK t \in Schema : /\ ~Failed(t) /\ FileOf[PackageOf(t)] = g
                       /\ \E k \in Kept(t) : Refers(k) /\ Imported(k) /\ Away(k) /\ h = ImportOf(k)
  BY <1>2, <1>4, <1>5, ImportMade
<1>8. PICK m \in Kept(s) : Refers(m) /\ Imported(m) /\ Away(m) /\ g = ImportOf(m)
  BY <1>6
<1>9. PICK k \in Kept(t) : Refers(k) /\ Imported(k) /\ Away(k) /\ h = ImportOf(k)
  BY <1>7
<1>10. /\ ShortName(TypeName(m)) \in Schema /\ m \in message[s] /\ s \in filed
  BY <1>6, <1>8, SchemaFiled
<1>11. /\ ShortName(TypeName(k)) \in Schema /\ k \in message[t] /\ t \in filed
  BY <1>7, <1>9, SchemaFiled
<1>12. PackageOf(s) # PackageOf(t)
  <2>1. PackageOf(ShortName(TypeName(m))) = PackageOf(t)
    BY <1>1, <1>7, <1>10, <1>8, FilesApart DEF ImportOf
  <2>2. SchemaOf[m] = s
    BY <1>1, <1>8, KeptMembers
  <2>. QED  BY <1>8, <2>1, <2>2 DEF Away
<1>13. Entwined
  BY <1>10, <1>11, <1>12, <1>8, <1>9 DEF Entwined
<1>. QED  BY <1>13 DEF Blameless

LEMMA BlamelessResolves ==
  ASSUME IInv, pc = "unlinked", Blameless, NEW f \in OwnFiles, NEW s \in In(f),
         NEW m \in message[s], Refers(m)
  PROVE  Resolves(f, TypeName(m))
<1>1. TypeOK /\ pc \in Ended
  BY DEF IInv, Ended
<1>2. s \in filed /\ s \in Schema /\ FileOf[PackageOf(s)] = f /\ f \notin StubFiles
  BY <1>1 DEF In, TypeOK
<1>3. ~IllMember(s, m)
  BY <1>2 DEF Blameless
<1>4. ~Failed(s)
  BY <1>3 DEF IllMember
<1>5. m \in Kept(s) /\ SchemaOf[m] = s /\ Settled(m, deps[f])
  BY <1>1, <1>2, <1>4, Accepted, KeptMembers
<1>6. Imports(f) = deps[f] /\ deps[f] \subseteq File
  BY <1>1, <1>2, Packages DEF Imports, TypeOK
<1>7. CASE Registered(m) /\ \E g \in deps[f] : TypeName(m) \in stubs[g]
  <2>1. PICK g \in deps[f] : TypeName(m) \in stubs[g]
    BY <1>7
  <2>2. g \in StubFiles
    BY <1>6, <2>1 DEF StubFiles
  <2>. QED  BY <1>6, <2>1, <2>2 DEF Resolves, Provided
<1>8. CASE Imported(m) /\ (Away(m) => ImportOf(m) \in deps[f])
  <2>. DEFINE t == ShortName(TypeName(m))
  <2>1. /\ t \in filed /\ ImportOf(m) \notin StubFiles /\ ImportOf(m) = FileOf[PackageOf(t)]
    BY <1>2, <1>4, <1>5, <1>8, SchemaFiled DEF ImportOf
  <2>2. TypeName(m) = MessageOf(PackageOf(t), t)
    BY <1>2, <1>3, <1>5, <1>8, GoodName
  <2>3. t \in In(ImportOf(m))
    BY <2>1 DEF In
  <2>4. TypeName(m) \in Provided(ImportOf(m))
    BY <2>1, <2>2, <2>3, Zenon DEF Provided
  <2>5. ImportOf(m) \in {f} \cup Imports(f)
    BY <1>2, <1>5, <1>6, <1>8, <2>1 DEF Away
  <2>. QED  BY <2>4, <2>5 DEF Resolves
<1>. QED  BY <1>5, <1>7, <1>8 DEF Settled

LEMMA BlamelessImports ==
  ASSUME IInv, pc = "unlinked", Blameless, NEW f \in OwnFiles
  PROVE  Imports(f) \subseteq OwnFiles \cup StubFiles
<1>. SUFFICES ASSUME NEW g \in Imports(f), g \notin StubFiles PROVE g \in OwnFiles
  OBVIOUS
<1>1. PICK s \in Schema : /\ ~Failed(s)
                       /\ \E m \in Kept(s) : Refers(m) /\ Imported(m) /\ g = ImportOf(m)
  BY ImportMade
<1>. QED  BY <1>1, SchemaFiled

\* Descriptors that are linked in vain are the author's doing, and a load over
\* schemas without fault never ends in the linker.
THEOREM UnlinkedCorrect == Spec => []UnlinkedExplained
<1>1. ASSUME IInv, pc = "unlinked" PROVE ~Blameless
  <2>1. ~Links
    BY <1>1 DEF IInv, Progress
  <2>. SUFFICES ASSUME Blameless PROVE Links
    BY <2>1
  <2>2. ~Cyclic
    BY <1>1, BlamelessAcyclic
  <2>3. ASSUME NEW f \in OwnFiles
        PROVE  Imports(f) \subseteq OwnFiles \cup StubFiles
    BY <1>1, BlamelessImports
  <2>4. ASSUME NEW f \in OwnFiles, NEW s \in In(f), NEW m \in message[s]
        PROVE  Legal(Number(m)) /\ (Refers(m) => Resolves(f, TypeName(m)))
    <3>1. s \in filed
      BY DEF In
    <3>. QED  BY <1>1, <3>1, BlamelessResolves DEF Blameless, IllMember
  <2>. QED  BY <2>2, <2>3, <2>4, Zenon DEF Links
<1>2. ASSUME IInv, pc = "unlinked" PROVE UnlinkedExplained
  BY <1>1, <1>2, Zenon DEF Blameless, IllMember, Entwined, UnlinkedExplained
<1>3. IInv => UnlinkedExplained
  BY <1>2, Zenon DEF UnlinkedExplained
<1>. QED  BY <1>3, InvHolds, PTL

-----------------------------------------------------------------------------
(* Files of packages and stubs.                                              *)

\* No one registers a type with the file of a package.
StubsApart == \A p \in Package \ {""} :
  /\ \A m \in Member : TypeOf[m] = "message" => FileGiven[m] # FileOf[p]
  /\ \A n \in DOMAIN External : External[n] # FileOf[p]

RegistryApart == \A p \in Package \ {""}, n \in Names : registry[n] # FileOf[p]

LEMMA ApartStep ==
  ASSUME StubsApart, IInv, RegistryApart, [Next]_vars
  PROVE  RegistryApart'
<1>1. ASSUME registry' = registry PROVE RegistryApart'
  BY <1>1, Zenon DEF RegistryApart
<1>2. ASSUME NEW n \in Names, NEW f, registry' = [registry EXCEPT ![n] = f],
             \A p \in Package \ {""} : FileOf[p] # f
      PROVE  RegistryApart'
  <2>1. \A k \in Names : registry'[k] = registry[k] \/ registry'[k] = f
    BY <1>2 DEF IInv, TypeOK
  <2>. QED  BY <1>2, <2>1, Zenon DEF RegistryApart
<1>3. ASSUME NEW m \in Member, BuildMember(m) PROVE RegistryApart'
  <2>1. CASE registry' = registry
    BY <1>1, <2>1
  <2>2. CASE registry' # registry
    <3>1. Registers(m) /\ registry' = [registry EXCEPT ![NameOf[m]] = FileGiven[m]]
      BY <1>3, <2>2, Zenon DEF BuildMember, Panic
    <3>2. NameOf[m] \in Names /\ \A p \in Package \ {""} : FileOf[p] # FileGiven[m]
      BY <3>1, MessageTypeName DEF Registers, StubsApart
    <3>. QED  BY <1>2, <3>1, <3>2
  <2>. QED  BY <2>1, <2>2
<1>4. ASSUME NEW n \in DOMAIN External, RegisterCustomType(n) PROVE RegistryApart'
  BY <1>2, <1>4 DEF RegisterCustomType, StubsApart, Names
<1>5. CASE StartLoad
  BY <1>1, <1>5 DEF StartLoad
<1>6. ASSUME NEW s \in Schema, VisitNode(s) \/ BuildEdges(s) \/ FinishMessage(s) \/ NodeDone(s)
      PROVE  RegistryApart'
  BY <1>1, <1>6 DEF VisitNode, BuildEdges, FinishMessage, NodeDone
<1>7. ASSUME NEW m \in Member, ExtractDep(m) PROVE RegistryApart'
  BY <1>1, <1>7 DEF ExtractDep
<1>8. CASE Link \/ Return \/ UNCHANGED vars
  BY <1>1, <1>8 DEF Link, Return, vars
<1>. QED  BY <1>3, <1>4, <1>5, <1>6, <1>7, <1>8 DEF Next, LoadAdapter

\* Unless a type is registered with the file of a package, the file of every
\* accepted schema is among those that are written.
THEOREM OwnedCorrect == ASSUME StubsApart PROVE Spec => []OwnedFilesWritten
<1>1. Init => RegistryApart
  <2>1. \A p \in Package : FileOf[p] # NoFile
    BY Constants
  <2>. QED  BY <2>1 DEF Init, RegistryApart
<1>2. RegistryApart /\ IInv /\ [Next]_vars => RegistryApart'
  BY ApartStep
<1>3. ASSUME IInv, RegistryApart, pc = "ready", NEW s \in Schema, ~Failed(s)
      PROVE  FileOf[PackageOf(s)] \in Generated
  <2>1. TypeOK /\ StubsRegistered /\ s \in filed
    BY <1>3, Accepted DEF IInv, Progress, Ended
  <2>2. FileOf[PackageOf(s)] \in OwnFiles
    BY <2>1 DEF OwnFiles
  <2>3. FileOf[PackageOf(s)] \notin StubFiles
    BY <1>3, <2>1, Packages DEF StubFiles, StubsRegistered, RegistryApart
  <2>. QED  BY <2>2, <2>3 DEF Generated
<1>4. IInv /\ RegistryApart => OwnedFilesWritten
  BY <1>3, Zenon DEF OwnedFilesWritten
<1>. QED  BY <1>1, <1>2, <1>4, InvHolds, PTL DEF Spec
=============================================================================

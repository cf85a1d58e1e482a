---------------------------- MODULE ExtensionProofs ----------------------------
(***************************************************************************)
(* Proofs about the extension (module Extension), for any schemas, members *)
(* and annotations, whatever the author edits between two generations and  *)
(* wherever a generation is broken off.  They put together what is proved  *)
(* of its parts: FixGraph in FieldNumbersProofs, LoadAdapter in            *)
(* AdapterProofs.                                                          *)
(***************************************************************************)
EXTENDS Extension, TLAPS

FP == INSTANCE FieldNumbersProofs WITH
  todo <- fixTodo, cur <- fixCur, pending <- fixPending, pc <- fixPc

\* The extension hands LoadAdapter a graph of this kind.
WellFormed == {g \in A!Graph : A!EachOnce(g.nodes)}

AP == INSTANCE AdapterProofs WITH
  pc <- adPc, NameOf <- [m \in Member |-> <<>>], FileGiven <- [m \in Member |-> NoFile],
  External <- [n \in {} |-> NoFile], Graphs <- WellFormed

-----------------------------------------------------------------------------
(* The assumptions of the two parts.                                         *)

Numbering ==
  /\ SchemaOf \in [Member -> Schema]
  /\ KindOf \in [Member -> {"id", "field", "edge"}]
  /\ HashOf \in [Member -> Nat]
  /\ Marks \in [Member -> SUBSET FP!Mark]
  /\ MsgMarks \in [Schema -> SUBSET FP!MsgMark]
  /\ \A m1, m2 \in Member :
       KindOf[m1] = "id" /\ KindOf[m2] = "id" /\ SchemaOf[m1] = SchemaOf[m2] => m1 = m2

Adapting ==
  /\ SchemaOf \in [Member -> Schema]
  /\ KindOf \in [Member -> {"id", "field", "edge"}]
  /\ TypeOf \in [Member -> AP!MemberType]
  /\ Position \in [Member -> Nat]
  /\ \A m, k \in Member :
       SchemaOf[m] = SchemaOf[k] /\ KindOf[m] # "edge" /\ KindOf[k] = "edge" => Position[m] < Position[k]
  /\ \A m \in Member : KindOf[m] = "edge" <=> TypeOf[m] = "edge"
  /\ \A m \in Member : TypeOf[m] = "edge" => TargetOf[m] \in Schema
  /\ \A m \in Member : TypeOf[m] = "message" => [k \in Member |-> NoFile][m] \in File \cup {NoFile}
  /\ NoFile \notin File
  /\ AP!Names \subseteq AP!MessageName
  /\ \A n \in AP!Names : n.pkg = "" => Len(n.path) = 1
  /\ \A n \in DOMAIN [k \in {} |-> NoFile] : [k \in {} |-> NoFile][n] \in File
  /\ AP!DefaultProtoPackageName \in Package
  /\ FileOf \in [Package -> File]
  /\ \A p, q \in Package \ {""} : FileOf[p] = FileOf[q] => p = q
  /\ \A g \in WellFormed : g \in AP!Graph /\ AP!EachOnce(g.nodes)

LEMMA SameMarks == FP!Mark = F!Mark /\ FP!MsgMark = F!MsgMark
BY DEF FP!Mark, F!Mark, FP!MsgMark, F!MsgMark

LEMMA NumberingHolds == Numbering
BY ExtensionAssumption, SameMarks DEF ExtensionAssumption, Numbering

LEMMA NoMessages ==
  /\ TypeOf \in [Member -> AP!MemberType \ {"message"}] /\ \A m \in Member : TypeOf[m] # "message"
  /\ AP!Names = {}
<1>1. A!MemberType = AP!MemberType
  BY DEF A!MemberType, AP!MemberType
<1>2. TypeOf \in [Member -> AP!MemberType \ {"message"}]
  BY <1>1, ExtensionAssumption DEF ExtensionAssumption
<1>3. \A m \in Member : TypeOf[m] # "message"
  BY <1>2
<1>. QED  BY <1>2, <1>3 DEF AP!Names

LEMMA SameGraphs == A!Graph = AP!Graph /\ \A nodes : A!EachOnce(nodes) <=> AP!EachOnce(nodes)
BY Zenon DEF A!Graph, AP!Graph, A!Mark, AP!Mark, A!EachOnce, AP!EachOnce

LEMMA AdaptingHolds == Adapting
<1>1. TypeOf \in [Member -> AP!MemberType]
  BY NoMessages
<1>2. AP!Names \subseteq AP!MessageName /\ \A n \in AP!Names : n.pkg = "" => Len(n.path) = 1
  BY NoMessages
<1>3. AP!DefaultProtoPackageName \in Package
  BY ExtensionAssumption DEF ExtensionAssumption, A!DefaultProtoPackageName, AP!DefaultProtoPackageName
<1>4. \A g \in WellFormed : g \in AP!Graph /\ AP!EachOnce(g.nodes)
  BY SameGraphs, Zenon DEF WellFormed
<1>. QED  BY <1>1, <1>2, <1>3, <1>4, ExtensionAssumption DEF ExtensionAssumption, Adapting

\* What is proved of the two parts, under these assumptions.
LEMMA FixStep ==
  ASSUME FP!VInv, FP!MessagesOn, [FP!Next]_(FP!vars)
  PROVE  FP!VInv' /\ FP!MessagesOn'
<1>1. FP!VInv'
  BY NumberingHolds, FP!VInvStep DEF Numbering
<1>2. FP!TypeOK
  BY Zenon DEF FP!VInv, FP!IInv
<1>3. FP!MessagesOn'
  BY <1>2, NumberingHolds, FP!MessagesOnStep DEF Numbering
<1>. QED  BY <1>1, <1>3

LEMMA FixBlank == FP!Blank' => FP!VInv' /\ FP!MessagesOn'
BY NumberingHolds, FP!BlankNext DEF Numbering

LEMMA LoadStep == AP!IInv /\ [AP!Next]_(AP!vars) => AP!IInv'
BY AdaptingHolds, AP!InvStep DEF Adapting

LEMMA LoadFresh == AP!Fresh' => AP!IInv'
BY AdaptingHolds, AP!FreshNext DEF Adapting

LEMMA LoadJudged ==
  ASSUME AP!IInv, adPc \in {"dangling", "ready", "unlinked"}
  PROVE  \A s \in Schema : AP!ErrorFits(s)
<1>1. \A s \in Schema : AP!Judged(s)
  BY AdaptingHolds, AP!AllJudged DEF Adapting, AP!Ended
<1>. QED  BY <1>1, Zenon DEF AP!Judged

-----------------------------------------------------------------------------
(* The steps of the two parts, as the proofs about them name them.           *)

LEMMA EditIsStep == F!Edit => FP!Next
BY Zenon DEF F!Edit, F!Declare, F!Drop, F!Annotate, F!AnnotateSchema, F!Unmarked, F!NoNumber,
  F!graph, F!walk, FP!Edit, FP!Declare, FP!Drop, FP!Annotate, FP!AnnotateSchema, FP!Unmarked,
  FP!NoNumber, FP!graph, FP!walk, FP!Next

LEMMA LoadIsStep == F!LoadGraph => FP!Next
BY Zenon DEF F!LoadGraph, F!Unmarked, F!NoNumber, F!source, FP!LoadGraph, FP!Unmarked, FP!NoNumber,
  FP!source, FP!Next

LEMMA SameNumbers ==
  \A m : /\ F!StableFieldNumber(m) = FP!StableFieldNumber(m) /\ F!OwnNumber(m) = FP!OwnNumber(m)
         /\ F!Settled(m) <=> FP!Settled(m)
<1>1. F!MaxFieldNumber = FP!MaxFieldNumber /\ F!IDFieldNumber = FP!IDFieldNumber
  BY SMT DEF F!MaxFieldNumber, FP!MaxFieldNumber, F!IDFieldNumber, FP!IDFieldNumber
<1>2. \A m : F!StableFieldNumber(m) = FP!StableFieldNumber(m)
  BY <1>1, SMT DEF F!StableFieldNumber, FP!StableFieldNumber
<1>3. \A m : F!Settled(m) <=> FP!Settled(m)
  BY Zenon DEF F!Settled, FP!Settled, F!Annotated, FP!Annotated
<1>. QED  BY <1>1, <1>2, <1>3, Zenon DEF F!OwnNumber, FP!OwnNumber

LEMMA FixIsStep == F!FixGraph => FP!Next
<1>1. ASSUME NEW s, F!FixNode(s) PROVE FP!FixNode(s)
  BY <1>1, Zenon DEF F!FixNode, FP!FixNode, F!source, FP!source
<1>2. ASSUME NEW s, F!ExtractExistFieldID(s) PROVE FP!ExtractExistFieldID(s)
  BY <1>2, Zenon DEF F!ExtractExistFieldID, FP!ExtractExistFieldID, F!ExistFieldIDs, FP!ExistFieldIDs,
    F!Numbers, FP!Numbers, F!InSchema, FP!InSchema, F!OfKind, FP!OfKind, F!source, FP!source,
    F!graph, FP!graph
<1>3. ASSUME NEW s, NEW from, NEW to, F!NextLoop(s, from, to) PROVE FP!NextLoop(s, from, to)
  BY <1>3, Zenon DEF F!NextLoop, FP!NextLoop, F!InSchema, FP!InSchema, F!OfKind, FP!OfKind,
    F!source, FP!source, F!graph, FP!graph
<1>4. ASSUME NEW m, NEW n, F!SetNumber(m, n) PROVE FP!SetNumber(m, n)
  BY <1>4, Zenon DEF F!SetNumber, FP!SetNumber, F!Numbered, FP!Numbered
<1>5. ASSUME NEW m, F!Leave(m) PROVE FP!Leave(m)
  BY <1>5, Zenon DEF F!Leave, FP!Leave
<1>6. ASSUME NEW m, F!AddAnnotationForID(m) PROVE FP!AddAnnotationForID(m)
  BY <1>4, <1>5, <1>6, SameNumbers, Zenon DEF F!AddAnnotationForID, FP!AddAnnotationForID, F!source,
    FP!source, F!IDFieldNumber, FP!IDFieldNumber
<1>7. ASSUME NEW m, F!AddAnnotation(m) PROVE FP!AddAnnotation(m)
  <2>1. \A n : F!SetNumber(m, n) => FP!SetNumber(m, n)
    BY <1>4
  <2>2. F!SetNumber(m, F!StableFieldNumber(m)) => FP!SetNumber(m, FP!StableFieldNumber(m))
    BY <2>1, SameNumbers, Zenon
  <2>. QED  BY <1>5, <1>7, <2>2, SameNumbers, Zenon DEF F!AddAnnotation, FP!AddAnnotation, F!source, FP!source
<1>8. F!NodeDone => FP!NodeDone
  BY Zenon DEF F!NodeDone, FP!NodeDone, F!source, FP!source, F!graph, FP!graph
<1>9. F!Succeed => FP!Succeed
  BY Zenon DEF F!Succeed, FP!Succeed, F!Filled, FP!Filled, F!source, FP!source, F!graph, FP!graph,
    F!walk, FP!walk
<1>. QED  BY <1>1, <1>2, <1>3, <1>6, <1>7, <1>8, <1>9, Zenon DEF F!FixGraph, FP!FixGraph, FP!Next

\* What reads the graph and the files reads them alike.
LEMMA SameReadings ==
  /\ \A s : A!PackageOf(s) = AP!PackageOf(s)
  /\ \A m : A!Number(m) = AP!Number(m)
  /\ \A f : A!In(f) = AP!In(f)
  /\ A!StubFiles = AP!StubFiles /\ A!Generated = AP!Generated
<1>1. \A s : A!PackageOf(s) = AP!PackageOf(s)
  BY Zenon DEF A!PackageOf, AP!PackageOf, A!DefaultProtoPackageName, AP!DefaultProtoPackageName
<1>2. \A m : A!Number(m) = AP!Number(m)
  BY Zenon DEF A!Number, AP!Number, A!ImplicitID, AP!ImplicitID, A!ann, AP!ann, A!IDFieldNumber,
    AP!IDFieldNumber
<1>3. A!StubFiles = AP!StubFiles
  BY Zenon DEF A!StubFiles, AP!StubFiles
<1>4. \A f : A!In(f) = AP!In(f)
  <2>1. \A f : {s \in filed : FileOf[A!PackageOf(s)] = f} = {s \in filed : FileOf[AP!PackageOf(s)] = f}
    BY <1>1
  <2>. QED  BY <1>3, <2>1, Zenon DEF A!In, AP!In
<1>5. A!OwnFiles = AP!OwnFiles
  BY <1>1 DEF A!OwnFiles, AP!OwnFiles
<1>. QED  BY <1>1, <1>2, <1>3, <1>4, <1>5, Zenon DEF A!Generated, AP!Generated

LEMMA SameMembers ==
  /\ \A S : A!Unskipped(S) = AP!Unskipped(S) /\ A!First(S) = AP!First(S)
  /\ \A s, K : A!Members(s, K) = AP!Members(s, K)
  /\ \A S : A!NumberedTwice(S) <=> AP!NumberedTwice(S)
  /\ \A m : A!Refers(m) <=> AP!Refers(m)
<1>1. \A S : A!NumberedTwice(S) <=> AP!NumberedTwice(S)
  BY SameReadings, Zenon DEF A!NumberedTwice, AP!NumberedTwice
<1>2. \A S : A!Unskipped(S) = AP!Unskipped(S) /\ A!First(S) = AP!First(S)
  BY Zenon DEF A!Unskipped, AP!Unskipped, A!First, AP!First, A!ann, AP!ann
<1>3. \A s, K : A!Members(s, K) = AP!Members(s, K)
  BY Zenon DEF A!Members, AP!Members
<1>4. \A m : A!Refers(m) <=> AP!Refers(m)
  BY Zenon DEF A!Refers, AP!Refers
<1>. QED  BY <1>1, <1>2, <1>3, <1>4

LEMMA SameErrors == \A m : A!MemberError(m) = AP!MemberError(m)
<1>1. \A m : A!ImplicitID(m) <=> AP!ImplicitID(m)
  BY Zenon DEF A!ImplicitID, AP!ImplicitID, A!ann, AP!ann
<1>2. \A m : A!NumberError(m) = AP!NumberError(m)
  <2>. TAKE m
  <2>1. A!Number(m) = AP!Number(m)
    BY SameReadings
  <2>. QED
    BY <1>1, <2>1, Zenon DEF A!NumberError, AP!NumberError, A!ann, AP!ann, A!IDFieldNumber, AP!IDFieldNumber
<1>3. \A m : A!TypeError(m) = AP!TypeError(m)
  BY SMT DEF A!TypeError, AP!TypeError
<1>. QED  BY <1>2, <1>3, Zenon DEF A!MemberError, AP!MemberError

LEMMA SameNames ==
  /\ \A m : A!TypeName(m) = AP!TypeName(m) /\ (A!Unqualified(m) <=> AP!Unqualified(m))
  /\ \A n : A!ShortName(n) = AP!ShortName(n) /\ A!Enclosing(n) = AP!Enclosing(n)
  /\ \A m : A!Registered(m) <=> AP!Registered(m)
  /\ \A p, s : A!MessageOf(p, s) = AP!MessageOf(p, s)
<1>1. \A p, s : A!MessageOf(p, s) = AP!MessageOf(p, s)
  BY Zenon DEF A!MessageOf, AP!MessageOf
<1>2. \A m : A!TypeName(m) = AP!TypeName(m)
  <2>. TAKE m
  <2>1. A!MessageOf(A!PackageOf(SchemaOf[m]), TargetOf[m])
          = AP!MessageOf(AP!PackageOf(SchemaOf[m]), TargetOf[m])
    BY <1>1, SameReadings, Zenon
  <2>2. A!MessageOf(graph.pkg[TargetOf[m]], TargetOf[m])
          = AP!MessageOf(graph.pkg[TargetOf[m]], TargetOf[m])
    BY <1>1, SameReadings, Zenon
  <2>. QED  BY <2>1, <2>2, SMT DEF A!TypeName, AP!TypeName
<1>3. \A m : A!Unqualified(m) <=> AP!Unqualified(m)
  BY Zenon DEF A!Unqualified, AP!Unqualified
<1>4. \A n : A!ShortName(n) = AP!ShortName(n)
  BY Zenon DEF A!ShortName, AP!ShortName
<1>5. \A n : A!Enclosing(n) = AP!Enclosing(n)
  BY Zenon DEF A!Enclosing, AP!Enclosing
<1>. QED  BY <1>1, <1>2, <1>3, <1>4, <1>5, Zenon DEF A!Registered, AP!Registered

LEMMA SameFail == \A s, e : A!Fail(s, e) => AP!Fail(s, e)
BY Zenon DEF A!Fail, AP!Fail

LEMMA SameLinking == A!Dangling = AP!Dangling /\ (A!Links <=> AP!Links)
<1>1. \A s : A!Failed(s) <=> AP!Failed(s)
  BY Zenon DEF A!Failed, AP!Failed
<1>2. \A m : A!FieldReferencesSchema(m) <=> AP!FieldReferencesSchema(m)
  BY SameNames, Zenon DEF A!FieldReferencesSchema, AP!FieldReferencesSchema, A!ann, AP!ann
<1>3. \A m : A!Referenced(m) = AP!Referenced(m)
  <2>. TAKE m
  <2>1. A!ShortName([k \in Member |-> <<>>][m]) = AP!ShortName([k \in Member |-> <<>>][m])
    BY SameNames
  <2>. QED  BY <2>1, SMT DEF A!Referenced, AP!Referenced
<1>4. A!Dangling = AP!Dangling
  BY <1>1, <1>2, <1>3, SMT DEF A!Dangling, AP!Dangling
<1>5. \A f : A!Imports(f) = AP!Imports(f)
  BY SameReadings, Zenon DEF A!Imports, AP!Imports
<1>6. A!OwnFiles = AP!OwnFiles
  BY SameReadings, SMT DEF A!OwnFiles, AP!OwnFiles
<1>7. A!Cyclic <=> AP!Cyclic
  BY <1>5, <1>6, SameReadings, SMT DEF A!Cyclic, AP!Cyclic
<1>8. \A f : A!Provided(f) = AP!Provided(f)
  BY SameReadings, SameNames, SMT DEF A!Provided, AP!Provided
<1>9. \A f, n : A!Resolves(f, n) <=> AP!Resolves(f, n)
  BY <1>5, <1>8, Zenon DEF A!Resolves, AP!Resolves
<1>10. \A n : A!Legal(n) <=> AP!Legal(n)
  <2>1. A!MaxValidNumber = AP!MaxValidNumber
    BY SMT DEF A!MaxValidNumber, AP!MaxValidNumber
  <2>. QED  BY <2>1, SMT DEF A!Legal, AP!Legal
<1>11. A!Links <=> AP!Links
  BY <1>5, <1>6, <1>7, <1>9, <1>10, SameReadings, SameMembers, SameNames, Zenon DEF A!Links, AP!Links
<1>. QED  BY <1>4, <1>11

LEMMA StartIsStep == A!StartLoad => AP!StartLoad
BY Zenon DEF A!StartLoad, AP!StartLoad

LEMMA LoadAdapterIsStep == A!LoadAdapter => AP!Next
<1>1. ASSUME NEW s, A!VisitNode(s) PROVE AP!VisitNode(s)
  BY <1>1, SameFail, SameMembers, Zenon DEF A!VisitNode, AP!VisitNode
<1>2. ASSUME NEW s, A!BuildEdges(s) PROVE AP!BuildEdges(s)
  BY <1>2, SameMembers, Zenon DEF A!BuildEdges, AP!BuildEdges, A!files, AP!files
<1>3. ASSUME NEW s, A!FinishMessage(s) PROVE AP!FinishMessage(s)
  <2>1. {m \in fields : A!Refers(m)} = {m \in fields : AP!Refers(m)}
    BY SameMembers
  <2>. QED  BY <1>3, <2>1, SameFail, SameMembers, Zenon DEF A!FinishMessage, AP!FinishMessage
<1>4. ASSUME NEW s, A!NodeDone(s) PROVE AP!NodeDone(s)
  BY <1>4, SameReadings, Zenon DEF A!NodeDone, AP!NodeDone
<1>5. ASSUME NEW m, A!BuildMember(m) PROVE AP!BuildMember(m)
  <2>1. A!Registers(m) <=> AP!Registers(m)
    BY Zenon DEF A!Registers, AP!Registers
  <2>2. A!Registrable(m) <=> AP!Registrable(m)
    BY Zenon DEF A!Registrable, AP!Registrable
  <2>3. A!Panic => AP!Panic
    BY Zenon DEF A!Panic, AP!Panic
  <2>. QED
    BY <1>5, <2>1, <2>2, <2>3, SameErrors, SameFail, SameMembers, Zenon DEF A!BuildMember, AP!BuildMember
<1>6. ASSUME NEW m, A!ExtractDep(m) PROVE AP!ExtractDep(m)
  <2>1. ASSUME NEW s, A!AddToStub(s, m) PROVE AP!AddToStub(s, m)
    BY <2>1, SameFail, SameNames, Zenon DEF A!AddToStub, AP!AddToStub
  <2>2. ASSUME NEW s, A!ImportSchema(s, m) PROVE AP!ImportSchema(s, m)
    BY <2>2, SameFail, SameNames, SameReadings, Zenon DEF A!ImportSchema, AP!ImportSchema
  <2>. QED  BY <1>6, <2>1, <2>2, SameMembers, SameNames, Zenon DEF A!ExtractDep, AP!ExtractDep
<1>7. A!Link => AP!Link
  BY SameLinking, Zenon DEF A!Link, AP!Link, A!walk, AP!walk, A!files, AP!files
<1>. QED
  BY <1>1, <1>2, <1>3, <1>4, <1>5, <1>6, <1>7, Zenon DEF A!LoadAdapter, AP!LoadAdapter, AP!Next

-----------------------------------------------------------------------------
(* The inductive invariant.                                                  *)

Handed == stage \in {"load", "write", "done"}

IInv ==
  /\ FP!VInv /\ FP!MessagesOn
  /\ StageFits
  /\ Handed => AP!IInv

LEMMA FixKept == UNCHANGED <<source, fix>> => UNCHANGED FP!vars
BY Zenon DEF source, fix, FP!vars, FP!source, FP!graph, FP!walk

LEMMA AdapterKept == UNCHANGED adapter => UNCHANGED AP!vars
BY Zenon DEF adapter, AP!vars, AP!walk, AP!files

LEMMA RestIsFresh ==
  ASSUME AtRest, graph \in WellFormed
  PROVE  AP!Fresh
<1>. HIDE DEF WellFormed
<1>1. registry = [n \in AP!Names |-> NoFile]
  BY NoMessages DEF AtRest
<1>. QED  BY <1>1 DEF AtRest, AP!Fresh

RestsOnGraph == AtRest /\ graph \in WellFormed

LEMMA RestIsFreshNext == RestsOnGraph' => AP!Fresh'
<1>1. RestsOnGraph => AP!Fresh
  BY RestIsFresh DEF RestsOnGraph
<1>. QED  BY <1>1, PTL

\* What is handed over is a graph such as LoadAdapter expects.
LEMMA FoundWellFormed == ASSUME FP!TypeOK PROVE GraphFound \in WellFormed
<1>1. /\ present \subseteq Member /\ ann \in [Member -> A!Mark]
      /\ msg \in [Schema -> F!MsgMark] /\ gmsg \in [Schema -> {"none", "bad", "off", "on"}]
  BY DEF FP!TypeOK, FP!Mark, A!Mark, FP!MsgMark, F!MsgMark
<1>2. [s \in Schema |-> IF msg[s] = "none" THEN A!DefaultProtoPackageName ELSE PackageGiven[s]]
        \in [Schema -> Package]
  BY ExtensionAssumption DEF ExtensionAssumption
<1>3. NodeOrder \in Seq(Schema) /\ A!EachOnce(NodeOrder) /\ OwnID \in [Schema -> BOOLEAN]
  BY ExtensionAssumption DEF ExtensionAssumption
<1>4. GraphFound \in A!Graph
  BY <1>1, <1>2, <1>3 DEF GraphFound, A!Graph
<1>5. GraphFound.nodes = NodeOrder
  BY DEF GraphFound
<1>. QED  BY <1>3, <1>4, <1>5, Zenon DEF WellFormed


LEMMA LoadAdapterKeeps ==
  ASSUME A!StartLoad \/ A!LoadAdapter
  PROVE  graph' = graph /\ (adPc # "panic" => adPc' # "panic")
<1>1. ASSUME NEW s PROVE A!VisitNode(s) \/ A!BuildEdges(s) \/ A!FinishMessage(s) \/ A!NodeDone(s) =>
        graph' = graph /\ (adPc # "panic" => adPc' # "panic")
  BY DEF A!VisitNode, A!BuildEdges, A!FinishMessage, A!NodeDone, A!Fail
<1>2. ASSUME NEW m \in Member, A!BuildMember(m) PROVE graph' = graph /\ (adPc # "panic" => adPc' # "panic")
  <2>1. ~A!Registers(m)
    BY NoMessages DEF A!Registers
  <2>. QED  BY <1>2, <2>1 DEF A!BuildMember, A!Fail
<1>3. ASSUME NEW m, A!ExtractDep(m) PROVE graph' = graph /\ (adPc # "panic" => adPc' # "panic")
  BY <1>3 DEF A!ExtractDep, A!AddToStub, A!ImportSchema, A!Fail
<1>4. A!StartLoad \/ A!Link => graph' = graph /\ (adPc # "panic" => adPc' # "panic")
  BY DEF A!StartLoad, A!Link
<1>. QED  BY <1>1, <1>2, <1>3, <1>4 DEF A!LoadAdapter

\* A step of the extension that is not its own is one of its parts.
LEMMA FixPart ==
  ASSUME IInv, [Next]_vars
  PROVE  FP!VInv' /\ FP!MessagesOn'
<1>1. CASE EditSchemas \/ Generate \/ FixGraph
  <2>1. FP!Next
    BY <1>1, EditIsStep, LoadIsStep, FixIsStep, Zenon DEF EditSchemas, Generate, FixGraph
  <2>. QED  BY <2>1, FixStep DEF IInv
<1>2. CASE HandOver \/ LoadAdapter \/ CheckSchemas \/ (\E f \in File : WriteFile(f)) \/ BreakOff \/ Done
           \/ UNCHANGED vars
  <2>1. UNCHANGED <<source, fix>>
    BY <1>2, Zenon DEF HandOver, LoadAdapter, CheckSchemas, WriteFile, BreakOff, Done, vars
  <2>. QED  BY <2>1, FixKept, FixStep DEF IInv
<1>3. CASE Exit
  <2>1. FP!TypeOK /\ FP!BookOwn
    BY Zenon DEF IInv, FP!VInv, FP!IInv
  <2>2. /\ UNCHANGED source /\ book' = book
        /\ ann' = [m \in Member |-> F!Unmarked] /\ gmsg' = [s \in Schema |-> "none"]
        /\ fixTodo' = {} /\ fixCur' = {} /\ fixPending' = {} /\ exist' = {} /\ fixPc' = "idle"
    BY <1>3, Zenon DEF Exit
  <2>3. FP!TypeOK'
    BY <2>1, <2>2 DEF FP!TypeOK, source, F!Unmarked, F!NoNumber, FP!Mark, FP!MsgMark
  <2>4. FP!BookOwn'
    BY <2>1, <2>2, Zenon DEF FP!BookOwn
  <2>5. \A m \in Member : ann'[m] = FP!Unmarked
    BY <2>2 DEF F!Unmarked, F!NoNumber, FP!Unmarked, FP!NoNumber
  <2>6. FP!Blank'
    BY <2>2, <2>3, <2>4, <2>5, Zenon DEF FP!Blank
  <2>. QED  BY <2>6, FixBlank
<1>. QED  BY <1>1, <1>2, <1>3, Zenon DEF Next, Run

LEMMA AdapterPart ==
  ASSUME IInv, [Next]_vars, Handed'
  PROVE  AP!IInv'
<1>1. CASE LoadAdapter
  <2>1. Handed /\ (A!StartLoad \/ A!LoadAdapter)
    BY <1>1 DEF LoadAdapter, Handed
  <2>2. AP!Next
    BY <2>1, StartIsStep, LoadAdapterIsStep, Zenon DEF AP!Next
  <2>. QED  BY <2>1, <2>2, LoadStep DEF IInv
<1>2. CASE CheckSchemas \/ (\E f \in File : WriteFile(f)) \/ Done \/ UNCHANGED vars
  <2>1. UNCHANGED adapter
    BY <1>2, Zenon DEF CheckSchemas, WriteFile, Done, vars
  <2>2. Handed
    BY <1>2 DEF CheckSchemas, WriteFile, Done, vars, own, Handed
  <2>. QED  BY <2>1, <2>2, AdapterKept, LoadStep, Zenon DEF IInv
<1>3. CASE HandOver
  <2>1. FP!TypeOK
    BY Zenon DEF IInv, FP!VInv, FP!IInv
  <2>2. graph' \in WellFormed
    BY <1>3, <2>1, FoundWellFormed, Zenon DEF HandOver
  <2>3. AtRest
    BY <1>3 DEF HandOver, IInv, StageFits
  <2>4. AtRest'
    BY <1>3, <2>3 DEF HandOver, AtRest
  <2>5. RestsOnGraph'
    BY <2>2, <2>4, Zenon DEF RestsOnGraph, WellFormed, A!Graph, A!Mark, A!EachOnce
  <2>. QED  BY <2>5, RestIsFreshNext, LoadFresh
<1>4. CASE EditSchemas \/ Generate \/ FixGraph \/ BreakOff \/ Exit
  <2>1. stage' \notin {"load", "write", "done"}
    BY <1>4 DEF EditSchemas, Generate, FixGraph, BreakOff, Exit
  <2>. QED  BY <2>1, Zenon DEF Handed
<1>. QED  BY <1>1, <1>2, <1>3, <1>4, Zenon DEF Next, Run

-----------------------------------------------------------------------------
(* What the adapter has made of a graph it was handed.                       *)

LEMMA KeptFound ==
  ASSUME graph = GraphFound
  PROVE  /\ AP!ann = ann /\ graph.msg = gmsg
         /\ \A s : AP!Kept(s) = {m \in present : SchemaOf[m] = s /\ KindOf[m] \in {"id", "field", "edge"}
                                               /\ ~ann[m].skip}
<1>1. graph.members = present /\ graph.ann = ann /\ graph.msg = gmsg
  BY DEF GraphFound
<1>. QED  BY <1>1 DEF AP!ann, AP!Kept, AP!Unskipped, AP!Members

LEMMA KeptMembers ==
  ASSUME IInv, Handed, NEW s
  PROVE  AP!Kept(s) = {m \in present : SchemaOf[m] = s /\ ~ann[m].skip}
<1>1. present \subseteq Member
  BY DEF IInv, FP!VInv, FP!IInv, FP!TypeOK
<1>2. \A m \in Member : KindOf[m] \in {"id", "field", "edge"}
  BY ExtensionAssumption DEF ExtensionAssumption
<1>3. graph = GraphFound
  BY DEF IInv, StageFits, HandedOver, Handed
<1>. QED  BY <1>1, <1>2, <1>3, KeptFound

\* Once the graph is handed over, a member's annotation is the author's, or the
\* number FixGraph put where the author left a place.
LEMMA Annotations ==
  ASSUME IInv, Handed, NEW m \in present
  PROVE  /\ m \in Member /\ mark[m] \in F!Mark /\ ann[m] \in F!Mark
         /\ \/ ann[m] = mark[m]
            \/ /\ autoFill /\ mark[m].field = "none" /\ ~mark[m].skip
               /\ ann[m] = F!Numbered(F!OwnNumber(m))
<1>1. FP!TypeOK /\ FP!AnnFromMark
  BY Zenon DEF IInv, FP!VInv, FP!IInv
<1>2. /\ m \in Member /\ mark[m] \in FP!Mark /\ ann[m] \in FP!Mark
  BY <1>1 DEF FP!TypeOK
<1>3. fixPc = (IF autoFill THEN "ok" ELSE "nodes") /\ (~autoFill => ann[m] = mark[m])
  BY DEF IInv, StageFits, HandedOver, Unfilled, Handed
<1>4. ann[m] = mark[m] \/ (FP!Wants(m) /\ ann[m] = FP!Numbered(FP!OwnNumber(m)))
  BY <1>1, <1>3 DEF FP!AnnFromMark
<1>5. FP!Numbered(FP!OwnNumber(m)) = F!Numbered(F!OwnNumber(m))
  BY SameNumbers, Zenon DEF FP!Numbered, F!Numbered
<1>. QED  BY <1>2, <1>3, <1>4, <1>5, SameMarks DEF FP!Wants

LEMMA KeptNumber ==
  ASSUME IInv, Handed, adPc = "ready", NEW s \in Schema, errors[s] = "", NEW m \in AP!Kept(s)
  PROVE  A!Number(m) = IF Given(m) THEN mark[m].num ELSE F!OwnNumber(m)
<1>1. m \in present
  BY KeptMembers
<1>2. AP!NumberError(m) = ""
  <2>1. AP!Sound(s)
    BY LoadJudged DEF IInv, AP!ErrorFits
  <2>2. AP!MemberError(m) = ""
    BY <2>1, Zenon DEF AP!Sound
  <2>. QED  BY <2>2 DEF AP!MemberError
<1>3. AP!ann = ann
  BY KeptFound DEF IInv, StageFits, HandedOver, Handed
<1>4. ann[m].field # "bad" /\ (ann[m].field = "none" => AP!ImplicitID(m))
  BY <1>2, <1>3 DEF AP!NumberError
<1>5. ann[m].field \in {"none", "ok", "bad"}
  BY <1>1, Annotations DEF F!Mark
<1>6. CASE ann[m].field = "ok"
  <2>1. AP!Number(m) = ann[m].num
    BY <1>3, <1>6 DEF AP!Number, AP!ImplicitID
  <2>2. A!Number(m) = ann[m].num
    BY <2>1, SameReadings
  <2>3. CASE ann[m] = mark[m]
    BY <1>6, <2>2, <2>3 DEF Given
  <2>4. CASE mark[m].field = "none" /\ ann[m] = F!Numbered(F!OwnNumber(m))
    <3>1. \A n : F!Numbered(n).num = n
      BY DEF F!Numbered
    <3>2. ~Given(m)
      BY <2>4 DEF Given
    <3>. QED  BY <2>2, <2>4, <3>1, <3>2
  <2>. QED  BY <1>1, <2>3, <2>4, Annotations
<1>7. CASE AP!ImplicitID(m)
  <2>1. AP!Number(m) = 1 /\ KindOf[m] = "id" /\ ann[m].field = "none"
    BY <1>3, <1>7 DEF AP!Number, AP!ImplicitID, AP!IDFieldNumber
  <2>2. ~Given(m)
    BY <1>1, <2>1, Annotations DEF Given, F!Numbered
  <2>. QED  BY <2>1, <2>2, SameReadings DEF F!OwnNumber, F!IDFieldNumber
<1>. QED  BY <1>4, <1>5, <1>6, <1>7

\* No stub is ever made, for no field names a message of its own.
LEMMA NoStubs == ASSUME IInv, Handed PROVE A!StubFiles = {}
<1>1. \A f \in File : stubs[f] = {}
  BY NoMessages DEF IInv, AP!IInv, AP!Progress, AP!StubsRegistered, AP!TypeOK
<1>. QED  BY <1>1 DEF A!StubFiles

\* When no schema failed, the messages are those of the schemas that generate one,
\* with the members their authors keep.
LEMMA MessagesMade ==
  ASSUME IInv, Handed, adPc = "ready", Broken = {}
  PROVE  /\ \A s \in Schema : errors[s] \in {"", "skipped"} /\ (errors[s] = "" <=> gmsg[s] = "on")
         /\ \A s \in Schema : s \in filed <=> gmsg[s] = "on"
         /\ \A s \in filed : s \in Schema /\ errors[s] = "" /\ message[s] = AP!Kept(s)
<1>1. \A s \in Schema : errors[s] \in {"", "skipped"}
  BY DEF Broken
<1>2. graph.msg = gmsg
  BY KeptFound DEF IInv, StageFits, HandedOver, Handed
<1>3. \A s \in Schema : /\ errors[s] = "skipped" <=> gmsg[s] # "on"
                        /\ errors[s] = "" => s \in filed /\ message[s] = AP!Kept(s)
  BY <1>2, LoadJudged DEF IInv, AP!ErrorFits
<1>4. filed \subseteq Schema /\ \A s \in filed : gmsg[s] = "on"
  BY <1>2 DEF IInv, AP!IInv, AP!TypeOK, AP!Progress
<1>. QED  BY <1>1, <1>3, <1>4

LEMMA ContentOwn ==
  ASSUME IInv, stage = "write", NEW f, NEW r \in Content(f), ~r.given
  PROVE  r.num = F!OwnNumber(r.member)
<1>1. Handed /\ adPc = "ready" /\ Broken = {}
  BY DEF Handed, IInv, StageFits, WrittenFits
<1>2. PICK s \in A!In(f) : \E m \in message[s] :
        r = [member |-> m, num |-> A!Number(m), given |-> mark[m].field = "ok"]
  BY DEF Content
<1>3. PICK m \in message[s] :
        r = [member |-> m, num |-> A!Number(m), given |-> mark[m].field = "ok"]
  BY <1>2
<1>4. s \in filed
  BY DEF A!In
<1>5. s \in Schema /\ errors[s] = "" /\ m \in AP!Kept(s)
  BY <1>1, <1>4, MessagesMade
<1>6. ~Given(m)
  BY <1>3 DEF Given
<1>. QED  BY <1>1, <1>3, <1>5, <1>6, KeptNumber

-----------------------------------------------------------------------------
(* Each step keeps what belongs to the stage it comes to.                    *)

LEMMA SameReadingsNext ==
  ASSUME UNCHANGED <<source, fix, adapter>>
  PROVE  /\ A!Generated' = A!Generated /\ Broken' = Broken /\ Skipped' = Skipped
         /\ \A f : Content(f)' = Content(f)
         /\ GraphFound' = GraphFound /\ (Unfilled => Unfilled') /\ (AtRest => AtRest')
<1>. USE DEF source, fix, adapter
<1>1. \A s : A!PackageOf(s)' = A!PackageOf(s)
  BY DEF A!PackageOf, A!DefaultProtoPackageName
<1>2. A!StubFiles' = A!StubFiles
  BY DEF A!StubFiles
<1>3. A!OwnFiles' = A!OwnFiles
  BY <1>1 DEF A!OwnFiles
<1>4. A!Generated' = A!Generated
  BY <1>2, <1>3, Zenon DEF A!Generated
<1>5. ASSUME NEW f PROVE Content(f)' = Content(f)
  <2>1. A!In(f)' = A!In(f)
    BY <1>1, <1>2 DEF A!In
  <2>2. \A m : A!Number(m)' = A!Number(m)
    BY DEF A!Number, A!ImplicitID, A!ann
  <2>. QED  BY <2>1, <2>2 DEF Content
<1>6. Broken' = Broken /\ Skipped' = Skipped
  BY DEF Broken, Skipped
<1>7. GraphFound' = GraphFound
  BY DEF GraphFound
<1>8. (Unfilled => Unfilled') /\ (AtRest => AtRest')
  BY Zenon DEF Unfilled, AtRest
<1>. QED  BY <1>4, <1>5, <1>6, <1>7, <1>8

LEMMA DiskKept == OwnOnDisk /\ disk' = disk => OwnOnDisk'
BY Zenon DEF OwnOnDisk

LEMMA EditFits == ASSUME IInv, EditSchemas PROVE StageFits'
<1>1. stage = "idle" /\ UNCHANGED <<adapter, stage, disk>> /\ AtRest /\ OwnOnDisk
  BY DEF EditSchemas, IInv, StageFits
<1>2. AtRest' /\ OwnOnDisk'
  BY <1>1, DiskKept, Zenon DEF AtRest, adapter
<1>. QED  BY <1>1, <1>2 DEF StageFits

LEMMA GenerateFits == ASSUME IInv, Generate PROVE StageFits'
<1>1. stage = "idle" /\ UNCHANGED <<adapter, disk>> /\ AtRest /\ OwnOnDisk /\ stage' \in {"fix", "failed"}
  BY DEF Generate, IInv, StageFits
<1>2. AtRest' /\ OwnOnDisk'
  BY <1>1, DiskKept, Zenon DEF AtRest, adapter
<1>3. fixPc' = "nodes" /\ Unfilled'
  <2>1. present \subseteq Member
    BY DEF IInv, FP!VInv, FP!IInv, FP!TypeOK
  <2>. QED  BY <2>1 DEF Generate, F!LoadGraph, F!source, Unfilled
<1>. QED  BY <1>1, <1>2, <1>3 DEF StageFits

LEMMA FixFits == ASSUME IInv, FixGraph PROVE StageFits'
<1>1. /\ stage = "fix" /\ UNCHANGED <<adapter, autoFill, disk>> /\ AtRest /\ OwnOnDisk /\ autoFill
      /\ stage' \in {"fix", "failed"}
  BY DEF FixGraph, IInv, StageFits
<1>2. AtRest' /\ OwnOnDisk'
  BY <1>1, DiskKept, Zenon DEF AtRest, adapter
<1>. QED  BY <1>1, <1>2 DEF StageFits

LEMMA HandOverFits == ASSUME IInv, HandOver PROVE StageFits'
<1>1. /\ stage = "fix" /\ UNCHANGED <<source, fix, adPc, autoFill, disk>> /\ AtRest /\ OwnOnDisk
      /\ stage' = "load" /\ graph' = GraphFound /\ fixPc = IF autoFill THEN "ok" ELSE "nodes"
      /\ ~autoFill => Unfilled
  BY DEF HandOver, IInv, StageFits
<1>2. GraphFound' = GraphFound /\ (Unfilled => Unfilled') /\ fixPc' = fixPc
  BY <1>1 DEF GraphFound, Unfilled, source, fix
<1>3. HandedOver' /\ OwnOnDisk'
  BY <1>1, <1>2, DiskKept DEF HandedOver, AtRest
<1>. QED  BY <1>1, <1>2, <1>3 DEF StageFits

LEMMA LoadFits == ASSUME IInv, LoadAdapter PROVE StageFits'
<1>1. /\ stage = "load" /\ UNCHANGED <<source, fix, own>> /\ HandedOver /\ OwnOnDisk
      /\ ~autoFill => fixPc = "nodes" /\ Unfilled
  BY DEF LoadAdapter, IInv, StageFits
<1>2. /\ GraphFound' = GraphFound /\ (Unfilled => Unfilled') /\ fixPc' = fixPc
      /\ autoFill' = autoFill /\ stage' = stage /\ disk' = disk
  BY <1>1 DEF GraphFound, Unfilled, source, fix, own
<1>3. graph' = graph /\ adPc' # "panic"
  BY <1>1, LoadAdapterKeeps DEF LoadAdapter, HandedOver
<1>4. HandedOver' /\ OwnOnDisk'
  BY <1>1, <1>2, <1>3, DiskKept DEF HandedOver
<1>. QED  BY <1>1, <1>2, <1>4 DEF StageFits

LEMMA GeneratedFiles == ASSUME IInv, Handed PROVE A!Generated \subseteq File
<1>1. AP!TypeOK
  BY DEF IInv, AP!IInv
<1>2. \A s \in Schema : FileOf[AP!PackageOf(s)] \in File
  BY <1>1, AdaptingHolds, AP!Packages DEF Adapting
<1>3. filed \subseteq Schema
  BY <1>1 DEF AP!TypeOK
<1>. QED  BY <1>2, <1>3, SameReadings DEF AP!Generated, AP!OwnFiles

LEMMA CheckFits == ASSUME IInv, CheckSchemas PROVE StageFits'
<1>1. /\ stage = "load" /\ UNCHANGED <<source, fix, adapter, autoFill, disk>> /\ HandedOver /\ OwnOnDisk
      /\ ~autoFill => fixPc = "nodes" /\ Unfilled
  BY DEF CheckSchemas, IInv, StageFits
<1>2. /\ UNCHANGED <<source, fix, adapter>> /\ autoFill' = autoFill /\ disk' = disk
      /\ fixPc' = fixPc /\ adPc' = adPc /\ graph' = graph
  BY <1>1 DEF fix, adapter
<1>3. OwnOnDisk'
  BY <1>1, DiskKept
<1>4. CASE stage' = "failed"
  BY <1>3, <1>4 DEF StageFits
<1>5. CASE stage' # "failed"
  <2>1. /\ stage' = "write" /\ adPc = "ready" /\ Broken = {} /\ unwritten' = A!Generated
        /\ warned' = IF autoFill THEN {} ELSE Skipped
    BY <1>5, Zenon DEF CheckSchemas
  <2>2. HandedOver'
    BY <1>1, <1>2, SameReadingsNext DEF HandedOver
  <2>3. WrittenFits'
    BY <1>2, <2>1, SameReadingsNext DEF WrittenFits
  <2>4. ~autoFill' => fixPc' = "nodes" /\ Unfilled'
    BY <1>1, <1>2, SameReadingsNext
  <2>. QED  BY <1>3, <2>1, <2>2, <2>3, <2>4 DEF StageFits
<1>. QED  BY <1>4, <1>5

LEMMA WriteFits == ASSUME IInv, NEW f \in File, WriteFile(f) PROVE StageFits'
<1>1. /\ stage = "write" /\ stage' = stage /\ HandedOver /\ WrittenFits /\ OwnOnDisk
      /\ UNCHANGED <<source, fix, adapter>> /\ autoFill' = autoFill /\ warned' = warned
      /\ ~autoFill => fixPc = "nodes" /\ Unfilled
      /\ disk' = [disk EXCEPT ![f] = Content(f)] /\ unwritten' = unwritten \ {f}
  BY DEF WriteFile, IInv, StageFits
<1>2. fixPc' = fixPc /\ adPc' = adPc /\ graph' = graph
  BY <1>1 DEF fix, adapter
<1>3. disk'[f] = Content(f) /\ \A g \in File : g # f => disk'[g] = disk[g]
  BY <1>1 DEF OwnOnDisk
<1>4. OwnOnDisk'
  <2>1. DOMAIN disk' = File
    BY <1>1 DEF OwnOnDisk
  <2>2. \A r \in Content(f) : ~r.given => r.num = F!OwnNumber(r.member)
    BY <1>1, ContentOwn
  <2>3. ASSUME NEW g \in File, NEW r \in disk'[g], ~r.given PROVE r.num = F!OwnNumber(r.member)
    BY <1>1, <1>3, <2>2, <2>3, Zenon DEF OwnOnDisk
  <2>. QED  BY <2>1, <2>3, Zenon DEF OwnOnDisk
<1>5. HandedOver'
  BY <1>1, <1>2, SameReadingsNext, Zenon DEF HandedOver
<1>6. WrittenFits'
  <2>1. A!Generated \subseteq File
    BY <1>1, GeneratedFiles DEF Handed
  <2>2. \A g \in A!Generated \ unwritten' : disk'[g] = Content(g)
    BY <1>1, <1>3, <2>1 DEF WrittenFits
  <2>3. \A g : Content(g)' = Content(g)
    BY <1>1, SameReadingsNext
  <2>. QED  BY <1>1, <1>2, <2>2, <2>3, SameReadingsNext DEF WrittenFits
<1>7. ~autoFill' => fixPc' = "nodes" /\ Unfilled'
  BY <1>1, <1>2, SameReadingsNext
<1>. QED  BY <1>1, <1>4, <1>5, <1>6, <1>7 DEF StageFits

LEMMA BreakFits == ASSUME IInv, BreakOff PROVE StageFits'
<1>1. OwnOnDisk /\ stage' = "failed" /\ (disk' = disk \/ \E f \in unwritten : disk' = [disk EXCEPT ![f] = {}])
  BY DEF BreakOff, IInv, StageFits
<1>2. DOMAIN disk' = File /\ \A f \in File : disk'[f] = disk[f] \/ disk'[f] = {}
  BY <1>1 DEF OwnOnDisk
<1>3. OwnOnDisk'
  BY <1>1, <1>2, Zenon DEF OwnOnDisk
<1>. QED  BY <1>1, <1>3 DEF StageFits

LEMMA DoneFits == ASSUME IInv, Done PROVE StageFits'
<1>1. /\ stage = "write" /\ stage' = "done" /\ HandedOver /\ WrittenFits /\ OwnOnDisk /\ unwritten = {}
      /\ UNCHANGED <<source, fix, adapter>> /\ autoFill' = autoFill /\ warned' = warned
      /\ ~autoFill => fixPc = "nodes" /\ Unfilled
      /\ disk' = disk /\ unwritten' = unwritten
  BY DEF Done, IInv, StageFits
<1>2. fixPc' = fixPc /\ adPc' = adPc /\ graph' = graph
  BY <1>1 DEF fix, adapter
<1>3. HandedOver' /\ OwnOnDisk'
  BY <1>1, <1>2, SameReadingsNext, DiskKept, Zenon DEF HandedOver
<1>4. WrittenFits'
  BY <1>1, <1>2, SameReadingsNext DEF WrittenFits
<1>5. ~autoFill' => fixPc' = "nodes" /\ Unfilled'
  BY <1>1, <1>2, SameReadingsNext
<1>. QED  BY <1>1, <1>3, <1>4, <1>5 DEF StageFits

LEMMA ExitFits == ASSUME IInv, Exit PROVE StageFits'
<1>1. stage' = "idle" /\ OwnOnDisk'
  BY DiskKept DEF Exit, IInv, StageFits
<1>2. AtRest'
  BY Zenon DEF Exit, AtRest
<1>. QED  BY <1>1, <1>2 DEF StageFits

LEMMA InvInit == Init => IInv
<1>. SUFFICES ASSUME Init PROVE IInv
  OBVIOUS
<1>1. FP!VInv /\ FP!MessagesOn
  <2>1. FP!Init
    BY Zenon DEF Init, FP!Init, F!OfKind, FP!OfKind, F!Unmarked, FP!Unmarked, F!NoNumber, FP!NoNumber
  <2>2. FP!VInv
    BY <2>1, NumberingHolds, FP!VInvInit DEF Numbering
  <2>. QED  BY <2>1, <2>2, Zenon DEF FP!MessagesOn, FP!Init
<1>2. StageFits
  <2>1. AtRest /\ stage = "idle"
    BY Zenon DEF Init, AtRest
  <2>2. OwnOnDisk
    BY DEF Init, OwnOnDisk
  <2>. QED  BY <2>1, <2>2 DEF StageFits
<1>3. ~Handed
  BY DEF Init, Handed
<1>. QED  BY <1>1, <1>2, <1>3 DEF IInv

LEMMA InvStep == IInv /\ [Next]_vars => IInv'
<1>. SUFFICES ASSUME IInv, [Next]_vars PROVE IInv'
  OBVIOUS
<1>1. FP!VInv' /\ FP!MessagesOn'
  BY FixPart
<1>2. Handed' => AP!IInv'
  BY AdapterPart
<1>3. ASSUME Next PROVE StageFits'
  BY <1>3, EditFits, GenerateFits, FixFits, HandOverFits, LoadFits, CheckFits, WriteFits, BreakFits,
     DoneFits, ExitFits, Zenon DEF Next, Run
<1>4. ASSUME UNCHANGED vars PROVE StageFits'
  <2>1. /\ UNCHANGED <<source, fix, adapter>> /\ stage' = stage /\ autoFill' = autoFill
        /\ warned' = warned /\ unwritten' = unwritten /\ disk' = disk
        /\ fixPc' = fixPc /\ adPc' = adPc /\ graph' = graph
    BY <1>4 DEF vars, own, fix, adapter
  <2>2. (HandedOver => HandedOver') /\ (OwnOnDisk => OwnOnDisk')
    BY <2>1, SameReadingsNext, DiskKept DEF HandedOver
  <2>3. WrittenFits => WrittenFits'
    BY <2>1, SameReadingsNext DEF WrittenFits
  <2>. QED  BY <2>1, <2>2, <2>3, SameReadingsNext DEF IInv, StageFits
<1>. QED  BY <1>1, <1>2, <1>3, <1>4 DEF IInv

\* Wherever a generation is, what it has handed over and written so far is what the
\* schemas say.
THEOREM InvHolds == Spec => []IInv
BY InvInit, InvStep, PTL DEF Spec

-----------------------------------------------------------------------------
(* What the invariant says of a generation.                                  *)

\* Files change only when FixGraph and LoadAdapter have found no schema at fault.
THEOREM WritesAfterChecks == Spec => SchemaErrorsWriteNothing
<1>1. ASSUME IInv, [Next]_vars, disk' # disk
      PROVE  Broken = {} /\ adPc = "ready" /\ (autoFill => fixPc = "ok")
  <2>1. stage = "write"
    BY <1>1, Zenon DEF Next, Run, EditSchemas, Generate, FixGraph, HandOver, LoadAdapter, CheckSchemas,
      WriteFile, BreakOff, Done, Exit, vars, own
  <2>. QED  BY <1>1, <2>1 DEF IInv, StageFits, WrittenFits, HandedOver
<1>2. IInv /\ [Next]_vars =>
        [disk' # disk => Broken = {} /\ adPc = "ready" /\ (autoFill => fixPc = "ok")]_vars
  BY <1>1
<1>. QED  BY <1>2, InvHolds, PTL DEF Spec, SchemaErrorsWriteNothing

\* A number no author gave stays the same in the files from one generation to the
\* next, broken off or not, because it is always the member's own.
THEOREM DiskStable == Spec => NumbersStayOnDisk
<1>. DEFINE Stays == \A f \in File : \A r \in disk[f], q \in disk'[f] :
       r.member = q.member /\ ~r.given /\ ~q.given => r.num = q.num
<1>1. IInv => OwnOnDisk
  BY DEF IInv, StageFits
<1>2. OwnOnDisk /\ OwnOnDisk' => Stays
  BY Zenon DEF OwnOnDisk
<1>3. OwnOnDisk /\ OwnOnDisk' => [Stays]_disk
  BY <1>2
<1>. QED  BY <1>1, <1>3, InvHolds, PTL DEF NumbersStayOnDisk

\* Which schemas generate a message, as FixGraph leaves them.
LEMMA WhoIsOn ==
  ASSUME IInv, Handed, NEW s \in Schema
  PROVE  /\ gmsg[s] = "on" <=> Published(s)
         /\ autoFill /\ gmsg[s] # "on" => msg[s] = "off"
<1>1. /\ FP!TypeOK /\ FP!MsgFromMsg /\ FP!MessagesOn /\ FP!VerdictFitsSchemas
  BY Zenon DEF IInv, FP!VInv, FP!IInv
<1>2. fixPc = (IF autoFill THEN "ok" ELSE "nodes") /\ (~autoFill => gmsg[s] = msg[s])
  BY DEF IInv, StageFits, HandedOver, Unfilled, Handed
<1>3. msg[s] \in {"none", "bad", "off", "on"} /\ gmsg[s] \in {"none", "bad", "off", "on"}
  BY <1>1 DEF FP!TypeOK, FP!MsgMark
<1>4. gmsg[s] = msg[s] \/ (msg[s] = "none" /\ gmsg[s] = "on")
  BY <1>1, <1>2 DEF FP!MsgFromMsg
<1>5. autoFill => gmsg[s] # "none" /\ msg[s] # "bad"
  BY <1>1, <1>2 DEF FP!MessagesOn, FP!VerdictFitsSchemas, FP!Rejected
<1>. QED  BY <1>2, <1>3, <1>4, <1>5 DEF Published

\* After a generation the files hold what the schemas declare, under the numbers
\* their authors or FixGraph gave.
THEOREM FilesCorrect == Spec => []FilesFitSchemas
<1>1. ASSUME IInv, stage = "done", NEW f \in File, Expected(f) # {}
      PROVE  disk[f] = Expected(f)
  <2>1. Handed /\ adPc = "ready" /\ Broken = {} /\ graph = GraphFound /\ unwritten = {}
    BY <1>1 DEF Handed, IInv, StageFits, WrittenFits, HandedOver
  <2>. DEFINE M == {k \in present : /\ ~mark[k].skip
                                  /\ Published(SchemaOf[k]) /\ FileOf[A!PackageOf(SchemaOf[k])] = f}
              Row(m) == [member |-> m, num |-> A!Number(m), given |-> mark[m].field = "ok"]
              Entry(m) == [member |-> m, num |-> IF Given(m) THEN mark[m].num ELSE F!OwnNumber(m),
                           given |-> Given(m)]
  <2>2. present \subseteq Member
    BY <1>1 DEF IInv, FP!VInv, FP!IInv, FP!TypeOK
  <2>3. \A m \in Member : SchemaOf[m] \in Schema
    BY ExtensionAssumption DEF ExtensionAssumption
  <2>4. A!In(f) = {s \in Schema : gmsg[s] = "on" /\ FileOf[A!PackageOf(s)] = f}
    BY <1>1, <2>1, NoStubs, MessagesMade DEF A!In
  <2>5. \A m \in present : ann[m].skip <=> mark[m].skip
    <3>. TAKE m \in present
    <3>1. ann[m] = mark[m] \/ (~mark[m].skip /\ ann[m] = F!Numbered(F!OwnNumber(m)))
      BY <1>1, <2>1, Annotations
    <3>2. ~F!Numbered(F!OwnNumber(m)).skip
      BY Zenon DEF F!Numbered
    <3>. QED  BY <3>1, <3>2, Zenon
  <2>6. \A s \in A!In(f) : message[s] = AP!Kept(s) /\ s \in Schema /\ errors[s] = ""
    BY <1>1, <2>1, <2>4, MessagesMade
  <2>7. \A s \in A!In(f) : message[s] = {m \in present : SchemaOf[m] = s /\ ~mark[m].skip}
    BY <1>1, <2>1, <2>5, <2>6, KeptMembers
  <2>8. \A m : m \in M <=> \E s \in A!In(f) : m \in message[s]
    BY <1>1, <2>1, <2>2, <2>3, <2>4, <2>7, WhoIsOn
  <2>9. \A s \in A!In(f) : \A m \in message[s] : Row(m) = Entry(m)
    <3>1. ASSUME NEW s \in A!In(f), NEW m \in message[s]
          PROVE  A!Number(m) = IF Given(m) THEN mark[m].num ELSE F!OwnNumber(m)
      BY <1>1, <2>1, <2>6, KeptNumber
    <3>. QED  BY <3>1, Zenon DEF Given
  <2>10. Content(f) = {Entry(m) : m \in M}
    <3>1. Content(f) = UNION {{Row(m) : m \in message[s]} : s \in A!In(f)}
      BY Zenon DEF Content
    <3>. HIDE DEF M, Row, Entry
    <3>. QED  BY <2>8, <2>9, <3>1
  <2>11. Expected(f) = {Entry(m) : m \in M}
    BY Zenon DEF Expected
  <2>12. f \in A!Generated
    <3>1. PICK m : m \in M
      BY <1>1, <2>11
    <3>2. PICK s \in A!In(f) : m \in message[s]
      BY <2>8, <3>1
    <3>. QED  BY <1>1, <2>1, <3>2, NoStubs DEF A!In, A!Generated, A!OwnFiles
  <2>. QED  BY <1>1, <2>1, <2>10, <2>11, <2>12 DEF IInv, StageFits, WrittenFits
<1>2. IInv => FilesFitSchemas
  BY <1>1, Zenon DEF FilesFitSchemas
<1>. QED  BY <1>2, InvHolds, PTL

\* A schema whose message is not in the files is named in the warning, or its author
\* turned it off and relies on AutoFill.
THEOREM NothingVanishes == Spec => []NoSchemaVanishesSilently
<1>1. ASSUME IInv, stage = "done", NEW s \in Schema
      PROVE  (Published(s) /\ s \in filed) \/ s \in warned \/ (autoFill /\ msg[s] = "off")
  <2>1. /\ Handed /\ adPc = "ready" /\ Broken = {} /\ warned = IF autoFill THEN {} ELSE Skipped
    BY <1>1 DEF Handed, IInv, StageFits, WrittenFits
  <2>2. CASE gmsg[s] = "on"
    BY <1>1, <2>1, <2>2, MessagesMade, WhoIsOn
  <2>3. CASE gmsg[s] # "on"
    <3>1. s \in Skipped
      BY <1>1, <2>1, <2>3, MessagesMade DEF Skipped
    <3>. QED  BY <1>1, <2>1, <2>3, <3>1, WhoIsOn
  <2>. QED  BY <2>2, <2>3
<1>2. IInv => NoSchemaVanishesSilently
  BY <1>1, Zenon DEF NoSchemaVanishesSilently
<1>. QED  BY <1>2, InvHolds, PTL

\* With AutoFill, a member that counts has a number: the author's, or its own, which
\* is legal and no other member's.
LEMMA NumberedByFix ==
  ASSUME IInv, Handed, autoFill, NEW s \in Schema, gmsg[s] = "on", NEW m \in AP!Kept(s)
  PROVE  /\ m \in present /\ SchemaOf[m] = s /\ ann[m].field = "ok" /\ A!Number(m) = ann[m].num
         /\ Given(m) => mark[m].num = ann[m].num
         /\ ~Given(m) => FP!Filled(m)
<1>1. m \in present /\ SchemaOf[m] = s /\ ~ann[m].skip
  BY KeptMembers
<1>2. fixPc = "ok" /\ AP!ann = ann
  BY KeptFound DEF IInv, StageFits, HandedOver, Handed
<1>3. ~FP!Rejected(s) /\ (FP!Generated(s) => \A k \in FP!InSchema(s) : FP!Settled(k))
  BY <1>2 DEF IInv, FP!VInv, FP!VerdictFitsSchemas
<1>4. FP!Generated(s)
  <2>1. FP!MsgFromMsg
    BY Zenon DEF IInv, FP!VInv
  <2>. QED  BY <1>2, <2>1 DEF FP!MsgFromMsg, FP!Generated
<1>5. m \in FP!InSchema(s)
  BY <1>1 DEF FP!InSchema
<1>6. ann[m].field # "none"
  BY <1>1, <1>3, <1>4, <1>5 DEF FP!Settled, FP!Annotated
<1>7. mark[m].field # "bad"
  BY <1>3, <1>4, <1>5 DEF FP!Rejected
<1>8. /\ mark[m].field \in {"none", "ok", "bad"}
      /\ ann[m] = mark[m] \/ (mark[m].field = "none" /\ ann[m] = F!Numbered(F!OwnNumber(m)))
  BY <1>1, Annotations DEF F!Mark
<1>9. F!Numbered(F!OwnNumber(m)).field = "ok"
  BY DEF F!Numbered
<1>10. ann[m].field = "ok"
  BY <1>6, <1>7, <1>8, <1>9
<1>11. A!Number(m) = ann[m].num
  BY <1>2, <1>10, SameReadings DEF AP!Number, AP!ImplicitID
<1>. QED  BY <1>1, <1>7, <1>8, <1>10, <1>11 DEF Given, FP!Filled

LEMMA FilledSound ==
  ASSUME IInv
  PROVE  /\ FP!NoNumberTwice
         /\ \A m \in present : FP!Filled(m) =>
              ann[m].num \in 1..MaxInt32 /\ (KindOf[m] # "id" => ann[m].num # 1)
<1>1. FP!NoNumberTwice /\ FP!FilledOwn /\ present \subseteq Member
  BY Zenon DEF IInv, FP!VInv, FP!IInv, FP!TypeOK
<1>2. MaxInt32 \in Int /\ FP!MaxFieldNumber <= MaxInt32
  <2>1. F!MaxFieldNumber = FP!MaxFieldNumber
    BY SMT DEF F!MaxFieldNumber, FP!MaxFieldNumber
  <2>. QED  BY <2>1, ExtensionAssumption DEF ExtensionAssumption
<1>3. FP!MaxFieldNumber \in Int /\ FP!MaxFieldNumber > 20999
  BY NumberingHolds, FP!MaxFieldNumberLarge DEF Numbering
<1>4. ASSUME NEW m \in present, FP!Filled(m)
      PROVE  ann[m].num \in 1..MaxInt32 /\ (KindOf[m] # "id" => ann[m].num # 1)
  <2>1. ann[m].num = FP!OwnNumber(m)
    BY <1>1, <1>4 DEF FP!FilledOwn
  <2>2. FP!StableFieldNumber(m) \in 2..FP!MaxFieldNumber
    BY <1>1, NumberingHolds, FP!StableFieldNumberRange DEF Numbering
  <2>. QED  BY <1>2, <1>3, <2>1, <2>2 DEF FP!OwnNumber, FP!IDFieldNumber
<1>. QED  BY <1>1, <1>4

\* Schemas that FixGraph numbered are turned down only for what their authors wrote.
THEOREM AutoFillNeverBlamed == Spec => []AutoFillBlameless
<1>1. ASSUME IInv, autoFill, stage = "load", Loaded, NEW s \in Schema
      PROVE  LET M == {m \in present : SchemaOf[m] = s}
             IN  /\ errors[s] \in {"", "skipped", "target", "unsupported", "enum", "duplicate",
                                   "reserved", "overflow"}
                 /\ errors[s] = "skipped" => msg[s] = "off"
                 /\ errors[s] = "target" => \E m \in M : KindOf[m] = "edge" /\ msg[TargetOf[m]] = "off"
                 /\ errors[s] = "duplicate" =>
                      \E m \in M : \E k \in M \ {m} : Given(m) /\ Given(k) /\ mark[m].num = mark[k].num
                 /\ errors[s] = "reserved" => \E m \in M : Given(m) /\ mark[m].num = A!IDFieldNumber
                 /\ errors[s] = "overflow" =>
                      \E m \in M : Given(m) /\ mark[m].num \notin -MaxInt32..MaxInt32
                 /\ errors[s] \in {"unsupported", "enum"} => \E m \in M : TypeOf[m] \in {"json", "badenum"}
  <2>. DEFINE M == {m \in present : SchemaOf[m] = s}
  <2>1. Handed /\ adPc \in {"dangling", "ready", "unlinked"} /\ graph = GraphFound
    BY <1>1 DEF Handed, Loaded, IInv, StageFits, HandedOver
  <2>2. AP!ErrorFits(s) /\ graph.msg = gmsg /\ AP!ann = ann
    BY <1>1, <2>1, LoadJudged, KeptFound DEF IInv
  <2>3. AP!Caused(s, errors[s]) /\ (errors[s] = "skipped" <=> gmsg[s] # "on")
    BY <2>2, Zenon DEF AP!ErrorFits
  <2>4. \A t \in Schema : gmsg[t] # "on" => msg[t] = "off"
    BY <1>1, <2>1, WhoIsOn
  <2>5. ASSUME gmsg[s] = "on", NEW m \in AP!Kept(s)
        PROVE  /\ m \in M /\ m \in present /\ m \in Member
               /\ ann[m].field = "ok" /\ A!Number(m) = ann[m].num /\ AP!Number(m) = ann[m].num
               /\ Given(m) => mark[m].num = ann[m].num
               /\ ~Given(m) => FP!Filled(m)
    BY <1>1, <2>1, <2>5, NumberedByFix, Annotations, SameReadings
  <2>6. AP!TypeOK
    BY <1>1, <2>1 DEF IInv, AP!IInv
  <2>7. errors[s] \notin {"conflict", "unknown", "message"}
    <3>1. ~AP!LeansOnRegistry(s)
      <4>1. \A m \in AP!Kept(s) : m \in Member
        BY <1>1, <2>1, KeptMembers, Annotations
      <4>. QED  BY <4>1, NoMessages DEF AP!LeansOnRegistry
    <3>2. ~AP!Quarrels(s)
      BY NoMessages DEF AP!Quarrels
    <3>. QED  BY <2>3, <3>1, <3>2 DEF AP!Caused
  <2>8. CASE errors[s] = "duplicate"
    <3>1. gmsg[s] = "on" /\ AP!NumberedTwice(AP!Kept(s))
      BY <2>3, <2>8 DEF AP!Caused
    <3>2. PICK m \in AP!Kept(s) : \E k \in AP!Kept(s) \ {m} : AP!Number(m) = AP!Number(k)
      BY <3>1, Zenon DEF AP!NumberedTwice
    <3>3. PICK k \in AP!Kept(s) \ {m} : AP!Number(m) = AP!Number(k)
      BY <3>2
    <3>4. ~FP!Filled(m) /\ ~FP!Filled(k)
      BY <1>1, <2>5, <3>1, <3>3, FilledSound DEF FP!NoNumberTwice
    <3>5. Given(m) /\ Given(k) /\ mark[m].num = mark[k].num /\ m \in M /\ k \in M
      BY <2>5, <3>1, <3>3, <3>4
    <3>. QED  BY <2>8, <3>3, <3>5
  <2>9. CASE errors[s] \in {"unannotated", "undecodable", "overflow", "reserved",
                            "unsupported", "enum", "target"}
    <3>1. gmsg[s] = "on" /\ \E m \in AP!Kept(s) : AP!MemberError(m) = errors[s]
      BY <2>3, <2>9 DEF AP!Caused
    <3>2. PICK m \in AP!Kept(s) : AP!MemberError(m) = errors[s]
      BY <3>1
    <3>3. /\ m \in M /\ m \in present /\ m \in Member
          /\ ann[m].field = "ok" /\ AP!Number(m) = ann[m].num
          /\ Given(m) => mark[m].num = ann[m].num
          /\ ~Given(m) => FP!Filled(m)
      BY <2>5, <3>1
    <3>4. errors[s] \notin {"unannotated", "undecodable"}
      BY <2>2, <3>2, <3>3 DEF AP!MemberError, AP!NumberError, AP!TypeError
    <3>5. ASSUME errors[s] = "overflow" PROVE Given(m) /\ mark[m].num \notin -MaxInt32..MaxInt32
      <4>1. ann[m].num \notin -MaxInt32..MaxInt32
        BY <3>2, <3>3, <3>5 DEF AP!MemberError, AP!NumberError, AP!TypeError
      <4>2. MaxInt32 \in Int
        BY ExtensionAssumption DEF ExtensionAssumption
      <4>. QED  BY <1>1, <3>3, <4>1, <4>2, FilledSound
    <3>6. ASSUME errors[s] = "reserved" PROVE Given(m) /\ mark[m].num = A!IDFieldNumber
      <4>1. ann[m].num = 1 /\ KindOf[m] # "id"
        BY <3>2, <3>3, <3>6 DEF AP!MemberError, AP!NumberError, AP!TypeError, AP!IDFieldNumber
      <4>. QED  BY <1>1, <3>3, <4>1, FilledSound DEF A!IDFieldNumber
    <3>7. ASSUME errors[s] \in {"unsupported", "enum"} PROVE TypeOf[m] \in {"json", "badenum"}
      BY <3>2, <3>7 DEF AP!MemberError, AP!NumberError, AP!TypeError
    <3>8. ASSUME errors[s] = "target" PROVE KindOf[m] = "edge" /\ msg[TargetOf[m]] = "off"
      <4>1. TypeOf[m] = "edge" /\ gmsg[TargetOf[m]] # "on"
        BY <2>2, <3>2, <3>8 DEF AP!MemberError, AP!NumberError, AP!TypeError
      <4>2. KindOf[m] = "edge" /\ TargetOf[m] \in Schema
        BY <3>3, <4>1, ExtensionAssumption DEF ExtensionAssumption
      <4>. QED  BY <2>4, <4>1, <4>2
    <3>. QED  BY <2>9, <3>1, <2>3, <3>3, <3>4, <3>5, <3>6, <3>7, <3>8
  <2>10. CASE errors[s] \in {"", "skipped"}
    BY <2>3, <2>4, <2>10
  <2>11. errors[s] \in {"", "skipped", "unannotated", "undecodable", "overflow", "reserved",
       "unsupported", "enum", "target", "duplicate", "unknown", "conflict", "message"}
    BY <2>6 DEF AP!TypeOK
  <2>. QED  BY <2>7, <2>8, <2>9, <2>10, <2>11
<1>2. IInv => AutoFillBlameless
  BY <1>1, Zenon DEF AutoFillBlameless
<1>. QED  BY <1>2, InvHolds, PTL
==============================================================================

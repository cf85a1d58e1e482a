------------------------------- MODULE Adapter -------------------------------
(***************************************************************************)
(* entproto/adapter.go: LoadAdapter turns the annotated schemas of an ent  *)
(* graph into protobuf file descriptors, one file for each package.        *)
(*                                                                         *)
(* Node after node becomes a message, member after member (ID, fields,     *)
(* edges); a schema that fails is noted and the walk goes on.  The files   *)
(* are then linked together with stub files for messages defined outside   *)
(* the schemas, which the process-wide registry (module CustomTypes) knows *)
(* by name.  A process may load adapters as often as it likes, and other   *)
(* code of the process may register types at any moment.                   *)
(*                                                                         *)
(* A message is named by its package and its path of nested names.  Files  *)
(* are opaque.  Nodes and members come in the order the graph has them in. *)
(***************************************************************************)
EXTENDS Integers, FiniteSets, Sequences

CONSTANTS
  Schema,        \* the nodes of the graph, by name
  Member,        \* their IDs, fields and edges
  SchemaOf,      \* [Member -> Schema]
  KindOf,        \* [Member -> {"id", "field", "edge"}]
  Position,      \* [Member -> Nat]: the order within a schema
  TypeOf,        \* [Member -> MemberType]
  TargetOf,      \* [Member -> Schema]: where an edge leads
  NameOf,        \* [Member -> MessageName]: the message a message field names
  FileGiven,     \* [Member -> File \cup {NoFile}]: pbfield.ProtoFile
  Package,       \* protobuf packages, "" for a package the author left empty
  FileOf,        \* [Package -> File]: relFileName
  File,          \* paths of .proto files
  NoFile,
  External,      \* [a set of message names -> File]: what other code registers
  MaxInt32,      \* the largest number a descriptor can hold
  Graphs         \* the annotated graphs to load: see Graph below

DefaultProtoPackageName == "entpb"
IDFieldNumber == 1

\* "own" is an ent type with a protobuf counterpart, "enum" and "badenum" an
\* enum that Verify accepts or not, "json" a type without counterpart, "message"
\* a field whose annotation has an explicit message type and "edge" an edge.
MemberType == {"own", "enum", "badenum", "json", "message", "edge"}

\* field: the Field annotation is absent, undecodable or there; skip: Skip is.
Mark == [field : {"none", "bad", "ok"}, num : Int, skip : BOOLEAN]

\* What the author wrote: marks of members; message annotations of schemas,
\* their packages, whether the ID field is declared by the author, and the order
\* of the nodes.
Graph == [nodes : Seq(Schema), members : SUBSET Member,
          ann : [Member -> Mark],
          msg : [Schema -> {"none", "bad", "off", "on"}],
          pkg : [Schema -> Package],
          ownID : [Schema -> BOOLEAN]]

\* The graph has one node of each name.
EachOnce(nodes) ==
  \A s \in Schema : \E i \in 1..Len(nodes) :
    nodes[i] = s /\ \A j \in 1..Len(nodes) : nodes[j] = s => j = i

\* A message has a package, perhaps none, and the names it is nested in.  Nested in
\* another without a package, it is taken for one in a package of all names but the last
\* (registerCustomType), and named like that here.
MessageName == [pkg : STRING, path : Seq(STRING) \ {<<>>}]

\* The message of a schema, in package p.
MessageOf(p, s) == [pkg |-> p, path |-> <<s>>]

\* The names of messages that fields or other code may ask the registry for.
Names == DOMAIN External \cup {NameOf[m] : m \in {k \in Member : TypeOf[k] = "message"}}

ASSUME AdapterAssumption ==
  /\ SchemaOf \in [Member -> Schema]
  /\ KindOf \in [Member -> {"id", "field", "edge"}]
  /\ TypeOf \in [Member -> MemberType]
  /\ Position \in [Member -> Nat]
  /\ \A m, k \in Member :
       SchemaOf[m] = SchemaOf[k] /\ KindOf[m] # "edge" /\ KindOf[k] = "edge" => Position[m] < Position[k]
  /\ \A m \in Member : KindOf[m] = "edge" <=> TypeOf[m] = "edge"
  /\ \A m \in Member : TypeOf[m] = "edge" => TargetOf[m] \in Schema
  /\ \A m \in Member : TypeOf[m] = "message" => FileGiven[m] \in File \cup {NoFile}
  /\ NoFile \notin File
  /\ Names \subseteq MessageName
  /\ \A n \in Names : n.pkg = "" => Len(n.path) = 1
  /\ \A n \in DOMAIN External : External[n] \in File
  /\ DefaultProtoPackageName \in Package
  /\ FileOf \in [Package -> File]
  /\ \A p, q \in Package \ {""} : FileOf[p] = FileOf[q] => p = q
  /\ \A g \in Graphs : g \in Graph /\ EachOnce(g.nodes)

VARIABLES
  graph,         \* the graph to load
  registry,      \* customTypeRegistry: the file of each name, or NoFile
  pc,            \* where LoadAdapter is
  todo,          \* nodes parse has still to visit, in order
  cur,           \* the node it works on: {s}, or {} between nodes
  pending,       \* members of the node its current loop has still to visit
  fields,        \* members of the message descriptor under construction
  out,           \* dependencies of that message found so far
  message,       \* the finished descriptors: a set of members for each schema
  filed,         \* schemas whose message was appended to a package's file
  deps,          \* the Dependency list of each package's file
  stubs,         \* customStubs: the messages of each stub file
  errors,        \* what went wrong with each schema; "" if nothing
  began,         \* the registry as this load found it
  last           \* how the last load ended

walk == <<todo, cur, pending, fields, out>>
files == <<message, filed, deps, stubs, errors>>
vars == <<graph, registry, pc, walk, files, began, last>>

-----------------------------------------------------------------------------

ann == graph.ann
Members(s, K) == {m \in graph.members : SchemaOf[m] = s /\ KindOf[m] \in K}
Unskipped(S) == {m \in S : ~ann[m].skip}
First(S) == {m \in S : \A k \in S : Position[m] <= Position[k]}

\* protoPackageName of a schema with a message annotation.
PackageOf(s) == IF graph.pkg[s] = "" THEN DefaultProtoPackageName ELSE graph.pkg[s]

\* The default ID is number 1 unless annotated otherwise; the graph is not
\* touched for it.
ImplicitID(m) ==
  KindOf[m] = "id" /\ ~graph.ownID[SchemaOf[m]] /\ ann[m].field = "none"
Number(m) == IF ImplicitID(m) THEN IDFieldNumber ELSE ann[m].num


\* What is wrong with a member's number, for fields and edges alike.
NumberError(m) ==
  CASE ann[m].field = "none" /\ ~ImplicitID(m)        -> "unannotated"
    [] ann[m].field = "bad"                           -> "undecodable"
    [] Number(m) \notin -MaxInt32..MaxInt32           -> "overflow"
    [] Number(m) = IDFieldNumber /\ KindOf[m] # "id"  -> "reserved"
    [] OTHER                                          -> ""

\* What is wrong with a member's type.  An edge needs a target that is itself
\* turned into a message.
TypeError(m) ==
  CASE TypeOf[m] = "json"                                        -> "unsupported"
    [] TypeOf[m] = "badenum"                                     -> "enum"
    [] TypeOf[m] = "edge" /\ graph.msg[TargetOf[m]] # "on"       -> "target"
    [] OTHER                                                     -> ""

\* toProtoFieldDescriptor and extractEdgeFieldDescriptor
MemberError(m) == IF NumberError(m) # "" THEN NumberError(m) ELSE TypeError(m)

\* The message type a member's descriptor names.  Schemas that declare the same
\* package name each other without it.
TypeName(m) ==
  IF TypeOf[m] = "message" THEN NameOf[m]
  ELSE LET s == SchemaOf[m]  t == TargetOf[m]
       IN  IF graph.pkg[s] = graph.pkg[t] THEN MessageOf(PackageOf(s), t)
           ELSE MessageOf(graph.pkg[t], t)
Unqualified(m) ==
  TypeOf[m] = "edge" /\ graph.pkg[SchemaOf[m]] = graph.pkg[TargetOf[m]]
Refers(m) == TypeOf[m] \in {"message", "edge"}

\* The graph's node that a type name ends in, if there is one.
ShortName(n) == n.path[Len(n.path)]

-----------------------------------------------------------------------------
(* parse: messages                                                           *)

\* LoadAdapter is called.
StartLoad ==
  /\ pc = "idle"
  /\ pc' = "nodes"
  /\ todo' = graph.nodes
  /\ message' = [s \in Schema |-> {}] /\ filed' = {}
  /\ deps' = [f \in File |-> {}] /\ stubs' = [f \in File |-> {}]
  /\ errors' = [s \in Schema |-> ""]
  /\ began' = registry
  /\ UNCHANGED <<graph, registry, cur, pending, fields, out, last>>

\* Mutant: what was built of the failed message is kept.
FailKeepsFields(s, e) ==
  /\ errors' = [errors EXCEPT ![s] = e]
  /\ pc' = "nodes" /\ cur' = {} /\ pending' = {} /\ out' = {} /\ UNCHANGED fields

\* The node's parse is over, with an error.
Fail(s, e) ==
  /\ errors' = [errors EXCEPT ![s] = e]
  /\ pc' = "nodes" /\ cur' = {} /\ pending' = {} /\ fields' = {} /\ out' = {}

\* A schema without a message annotation, with one that does not decode and
\* with one that turns generation off count as skipped alike.
VisitNode(s) ==
  /\ pc = "nodes" /\ todo # <<>> /\ s = Head(todo)
  /\ todo' = Tail(todo)
  /\ IF graph.msg[s] # "on"
     THEN Fail(s, "skipped")
     ELSE /\ pc' = "fields" /\ cur' = {s}
          /\ pending' = Unskipped(Members(s, {"id", "field"}))
          /\ UNCHANGED <<fields, out, errors>>
  /\ UNCHANGED <<graph, registry, message, filed, deps, stubs, began, last>>

\* A message field that comes with its file registers its type: for good, and
\* before anything else of the schema is known to be in order.
Registers(m) == TypeOf[m] = "message" /\ FileGiven[m] # NoFile

\* Mutant: a type that is registered cannot be registered again.
RegistrableOnce(m) == NameOf[m].pkg # "" /\ registry[NameOf[m]] = NoFile

\* registerCustomType panics over a name that is not qualified, and
\* registerCustomTypeDetails over one that is registered with another file.
Registrable(m) == NameOf[m].pkg # "" /\ registry[NameOf[m]] \in {NoFile, FileGiven[m]}

Panic ==
  /\ pc' = "panic" /\ cur' = {} /\ pending' = {} /\ fields' = {} /\ out' = {}
  /\ UNCHANGED <<registry, errors>>

BuildMember(m) ==
  /\ pc \in {"fields", "edges"} /\ m \in First(pending)
  /\ IF MemberError(m) # ""
     THEN Fail(SchemaOf[m], MemberError(m)) /\ UNCHANGED registry
     ELSE IF Registers(m) /\ ~Registrable(m)
     THEN Panic
     ELSE /\ registry' = IF Registers(m)
                         THEN [registry EXCEPT ![NameOf[m]] = FileGiven[m]] ELSE registry
          /\ fields' = fields \cup {m} /\ pending' = pending \ {m}
          /\ UNCHANGED <<pc, cur, out, errors>>
  /\ UNCHANGED <<graph, todo, message, filed, deps, stubs, began, last>>

BuildEdges(s) ==
  /\ pc = "fields" /\ s \in cur /\ pending = {}
  /\ pc' = "edges"
  /\ pending' = Unskipped(Members(s, {"edge"}))
  /\ UNCHANGED <<graph, registry, todo, cur, fields, out, files, began, last>>

NumberedTwice(S) == \E m \in S : \E k \in S \ {m} : Number(m) = Number(k)

\* Mutant: numbers are not compared.
FinishUncompared(s) ==
  /\ pc = "edges" /\ s \in cur /\ pending = {}
  /\ message' = [message EXCEPT ![s] = fields] /\ filed' = filed \cup {s}
  /\ pc' = "deps" /\ pending' = {m \in fields : Refers(m)} /\ fields' = {}
  /\ UNCHANGED <<cur, out, errors, graph, registry, todo, deps, stubs, began, last>>

\* The message is complete: it goes into its package's file, before its
\* dependencies are looked at.
FinishMessage(s) ==
  /\ pc = "edges" /\ s \in cur /\ pending = {}
  /\ IF NumberedTwice(fields)
     THEN Fail(s, "duplicate") /\ UNCHANGED <<message, filed>>
     ELSE /\ message' = [message EXCEPT ![s] = fields]
          /\ filed' = filed \cup {s}
          /\ pc' = "deps"
          /\ pending' = {m \in fields : Refers(m)}
          /\ fields' = {}
          /\ UNCHANGED <<cur, out, errors>>
  /\ UNCHANGED <<graph, registry, todo, deps, stubs, began, last>>

-----------------------------------------------------------------------------
(* parse: dependencies                                                       *)

\* The registry is asked first, with the name as it stands in the descriptor.
Registered(m) ==
  ~Unqualified(m) /\ TypeName(m) \in DOMAIN registry /\ registry[TypeName(m)] # NoFile

\* A message and the messages it is nested in.
Enclosing(n) == {[pkg |-> n.pkg, path |-> SubSeq(n.path, 1, i)] : i \in 1..Len(n.path)}

\* Mutant: the stub is declared in the file that needs it.
AddToOwnFile(s, m) ==
  LET f == FileOf[PackageOf(s)]
  IN  /\ stubs' = [stubs EXCEPT ![f] = @ \cup Enclosing(TypeName(m))]
      /\ out' = out /\ pending' = pending \ {m}
      /\ UNCHANGED <<pc, cur, fields, errors>>

\* addCustomTypeToStub
AddToStub(s, m) ==
  LET n == TypeName(m)  f == registry[n]
  IN  IF \E k \in stubs[f] : k.pkg # n.pkg
      THEN Fail(s, "conflict") /\ UNCHANGED stubs
      ELSE /\ stubs' = [stubs EXCEPT ![f] = @ \cup Enclosing(n)]
           /\ out' = out \cup {f} /\ pending' = pending \ {m}
           /\ UNCHANGED <<pc, cur, fields, errors>>

\* Mutant: nothing is imported for schemas.
ImportNothing(s, m) ==
  IF ShortName(TypeName(m)) \notin Schema
  THEN Fail(s, "unknown")
  ELSE pending' = pending \ {m} /\ UNCHANGED <<pc, cur, fields, out, errors>>

\* The file of another schema's package is imported, the own one is not.
ImportSchema(s, m) ==
  LET t == ShortName(TypeName(m))
  IN  IF t \notin Schema
      THEN Fail(s, "unknown")
      ELSE IF graph.msg[t] \in {"none", "bad"}
      THEN Fail(s, "message")
      ELSE /\ out' = IF PackageOf(t) = PackageOf(s) THEN out
                     ELSE out \cup {FileOf[PackageOf(t)]}
           /\ pending' = pending \ {m}
           /\ UNCHANGED <<pc, cur, fields, errors>>

\* extractDepPaths, one field of the message.
ExtractDep(m) ==
  /\ pc = "deps" /\ m \in First(pending)
  /\ \E s \in cur :
       IF Registered(m) THEN AddToStub(s, m) ELSE ImportSchema(s, m) /\ UNCHANGED stubs
  /\ UNCHANGED <<graph, registry, todo, message, filed, deps, began, last>>

NodeDone(s) ==
  /\ pc = "deps" /\ s \in cur /\ pending = {}
  /\ deps' = [deps EXCEPT ![FileOf[PackageOf(s)]] = @ \cup out]
  /\ pc' = "nodes" /\ cur' = {} /\ out' = {}
  /\ UNCHANGED <<graph, registry, todo, pending, fields, message, filed, stubs, errors, began, last>>

-----------------------------------------------------------------------------
(* Linking                                                                   *)

Failed(s) == errors[s] # ""

\* linkDependencyError: members of sound schemas that name a failed one.
FieldReferencesSchema(m) ==
  /\ TypeOf[m] = "message" /\ KindOf[m] = "field" /\ ann[m].field = "ok"
  /\ ShortName(NameOf[m]) \in Schema
Referenced(m) == IF TypeOf[m] = "edge" THEN TargetOf[m] ELSE ShortName(NameOf[m])
\* Mutant: edges are left to the linker.
DanglingFields ==
  {m \in graph.members : /\ ~Failed(SchemaOf[m])
                         /\ FieldReferencesSchema(m) /\ Failed(Referenced(m))}

Dangling ==
  {m \in graph.members : /\ ~Failed(SchemaOf[m])
                         /\ TypeOf[m] = "edge" \/ FieldReferencesSchema(m)
                         /\ Failed(Referenced(m))}

\* The descriptors that go to the linker.  Of two with one file name the stub
\* is taken.
StubFiles == {f \in File : stubs[f] # {}}
OwnFiles == {FileOf[PackageOf(s)] : s \in filed}
In(f) == IF f \in StubFiles THEN {} ELSE {s \in filed : FileOf[PackageOf(s)] = f}
Provided(f) == IF f \in StubFiles THEN stubs[f] ELSE {MessageOf(PackageOf(s), s) : s \in In(f)}
Imports(f) == IF f \in StubFiles THEN {} ELSE deps[f]

MaxValidNumber == 536870911
Legal(n) == n \in 1..MaxValidNumber /\ n \notin 19000..19999

\* desc.CreateFileDescriptors: every import is there, imports do not go round in
\* a circle, numbers are legal, and a file's type names are its own or in one
\* of its imports.
Cyclic == \E S \in SUBSET (OwnFiles \cup StubFiles) :
  S # {} /\ \A f \in S : Imports(f) \cap S # {}
Resolves(f, n) == \E g \in {f} \cup Imports(f) : n \in Provided(g)
Links ==
  /\ ~Cyclic
  /\ \A f \in OwnFiles :
       /\ Imports(f) \subseteq OwnFiles \cup StubFiles
       /\ \A s \in In(f) : \A m \in message[s] :
            Legal(Number(m)) /\ (Refers(m) => Resolves(f, TypeName(m)))

\* GeneratedFileDescriptors
Generated == OwnFiles \ StubFiles

\* All nodes are done: failed schemas that others need end the load, and so does
\* what the linker does not accept.
Link ==
  /\ pc = "nodes" /\ todo = <<>>
  /\ pc' = IF Dangling # {} THEN "dangling" ELSE IF Links THEN "ready" ELSE "unlinked"
  /\ UNCHANGED <<graph, registry, walk, files, began, last>>

\* LoadAdapter has returned or panicked, and its caller is done with the result.
Return ==
  /\ pc \in {"dangling", "ready", "unlinked", "panic"}
  /\ pc' = "idle"
  /\ last' = [end |-> pc, found |-> began,
               failed |-> IF pc = "ready" THEN {s \in Schema : Failed(s)} ELSE {},
               files |-> IF pc = "ready" THEN Generated ELSE {}]
  /\ UNCHANGED <<graph, registry, todo, cur, pending, fields, out, files, began>>

\* Other code of the process registers a type.
RegisterCustomType(n) ==
  /\ registry[n] = NoFile
  /\ registry' = [registry EXCEPT ![n] = External[n]]
  /\ UNCHANGED <<graph, pc, walk, files, began, last>>

-----------------------------------------------------------------------------

Init ==
  /\ graph \in Graphs
  /\ registry = [n \in Names |-> NoFile]
  /\ pc = "idle"
  /\ todo = <<>> /\ cur = {} /\ pending = {} /\ fields = {} /\ out = {}
  /\ message = [s \in Schema |-> {}] /\ filed = {}
  /\ deps = [f \in File |-> {}] /\ stubs = [f \in File |-> {}]
  /\ errors = [s \in Schema |-> ""]
  /\ began = registry
  /\ last = [end |-> "none", found |-> registry, failed |-> {}, files |-> {}]

LoadAdapter ==
  \/ \E s \in Schema : VisitNode(s) \/ BuildEdges(s) \/ FinishMessage(s) \/ NodeDone(s)
  \/ \E m \in Member : BuildMember(m) \/ ExtractDep(m)
  \/ Link

Next ==
  \/ StartLoad
  \/ LoadAdapter
  \/ Return
  \/ \E n \in DOMAIN External : RegisterCustomType(n)

Spec == Init /\ [][Next]_vars

-----------------------------------------------------------------------------
(* Properties.                                                               *)

Ended == {"dangling", "ready", "unlinked"}

\* Every variable stays in its range, and what parse keeps for one message is
\* gone when it turns to the next.
TypeOK ==
  /\ graph \in Graphs
  /\ registry \in [Names -> File \cup {NoFile}]
  /\ pc \in Ended \cup {"idle", "nodes", "fields", "edges", "deps", "panic"}
  /\ todo \in Seq(Schema) /\ cur \in {{}} \cup {{s} : s \in Schema}
  /\ pending \subseteq Member /\ fields \subseteq Member /\ out \subseteq File
  /\ message \in [Schema -> SUBSET Member] /\ filed \subseteq Schema
  /\ deps \in [File -> SUBSET File] /\ stubs \in [File -> SUBSET MessageName]
  /\ errors \in [Schema -> {"", "skipped", "unannotated", "undecodable", "overflow", "reserved",
       "unsupported", "enum", "target", "duplicate", "unknown", "conflict", "message"}]
  /\ pc \notin {"fields", "edges", "deps"} =>
       cur = {} /\ pending = {} /\ fields = {} /\ out = {}

\* What the proto contract of a schema asks of its members, taken together.
Kept(s) == Unskipped(Members(s, {"id", "field", "edge"}))
Sound(s) == ~NumberedTwice(Kept(s)) /\ \A m \in Kept(s) : MemberError(m) = ""
Known(s) == \A m \in Kept(s) : TypeOf[m] = "message" =>
  registry[NameOf[m]] # NoFile \/ ShortName(NameOf[m]) \in Schema
Quarrels(s) == \E m \in Kept(s), n \in Names :
  /\ Refers(m) /\ Registered(m)
  /\ registry[n] = registry[TypeName(m)] /\ n.pkg # TypeName(m).pkg
LeansOnRegistry(s) == \E m \in Kept(s) : TypeOf[m] = "message" /\ FileGiven[m] = NoFile

\* What lies behind an error: two numbers that are the same, a member that has this
\* very error, or the registry.
Caused(s, e) ==
  /\ e = "duplicate" => NumberedTwice(Kept(s))
  /\ e = "conflict" => Quarrels(s)
  /\ e \in {"unknown", "message"} => LeansOnRegistry(s)
  /\ e \notin {"", "skipped", "duplicate", "conflict", "unknown", "message"} =>
       \E m \in Kept(s) : MemberError(m) = e

\* Which schemas fail can be read off the annotations, whatever the order of the
\* walk: those without message generation are skipped, an unsound one is never
\* accepted, and a sound one fails only when the registry did not know a type it
\* names or puts another package's type in the same file; an accepted message has
\* the members its author did not skip, and no others.
ErrorFits(s) ==
  /\ errors[s] = "skipped" <=> graph.msg[s] # "on"
  /\ errors[s] = "" => Sound(s) /\ Known(s) /\ s \in filed /\ message[s] = Kept(s)
  /\ Caused(s, errors[s])
ErrorsFitGraph == pc \in Ended => \A s \in Schema : ErrorFits(s)

\* The file of every accepted schema is among those entproto writes.  That needs stubs
\* with files of their own, which the graphs of MCAdapter.cfg give them: one with the
\* file of a package takes its place (AddToStub), as AdapterOwnStub.cfg shows.
OwnedFilesWritten ==
  pc = "ready" => \A s \in Schema : ~Failed(s) => FileOf[PackageOf(s)] \in Generated

\* linkDependencyError goes through fields and edges: an ID that is a message, odd as
\* that would be, it does not look at.
OddID(m) == KindOf[m] = "id" /\ TypeOf[m] = "message"

\* When an accepted schema needs one that failed, the load ends by naming the
\* two, and never in the linker.
RootCauseNamed ==
  pc \in {"ready", "unlinked"} =>
    \A m \in Member : ~Failed(SchemaOf[m]) /\ m \in message[SchemaOf[m]] /\ Refers(m) =>
      Registered(m) \/ ~Failed(ShortName(TypeName(m))) \/ OddID(m)

\* The linker turns files down only for what the author did: a number protobuf
\* does not allow, a package left empty that another package's edge needs,
\* packages that need each other, a message field that names a schema's message
\* by a wrong package and that no one had registered when the load began, one
\* whose own schema failed over a type it names, or a type registered with the
\* file of a schema's package.
UnlinkedExplained ==
  pc = "unlinked" =>
    \/ \E s \in filed : \E m \in message[s] :
         \/ ~Legal(Number(m))
         \/ Failed(s) /\ Refers(m)
         \/ Refers(m) /\ TypeName(m).pkg = ""
         \/ /\ TypeOf[m] = "message" /\ FileGiven[m] = NoFile /\ began[NameOf[m]] = NoFile
            /\ ShortName(NameOf[m]) \in Schema
            /\ NameOf[m] # MessageOf(PackageOf(ShortName(NameOf[m])), ShortName(NameOf[m]))
         \/ Refers(m) /\ OddID(m)
    \/ \E s, t \in filed :
         /\ PackageOf(s) # PackageOf(t)
         /\ \E m \in message[s] : Refers(m) /\ ShortName(TypeName(m)) \in Schema
         /\ \E k \in message[t] : Refers(k) /\ ShortName(TypeName(k)) \in Schema
    \/ \E s \in filed : FileOf[PackageOf(s)] \in StubFiles

Same(a, b) == a.end = b.end /\ a.failed = b.failed /\ a.files = b.files

\* A load that returned is never followed by one that panics, and one that finds
\* the registry as the load before found it, and leaves it so, ends like that.
LoadRepeatable ==
  [][last.end \in Ended =>
       /\ last'.end # "panic"
       /\ registry = last.found => Same(last, last')]_last

\* A reference that is skipped in the .proto files stops no load.
SkippedNeverDangles == pc = "dangling" => \E m \in Dangling : ~ann[m].skip

\* What makes the properties above inductive.  A schema the walk has come past is
\* judged; of the one it is at, the members built so far are sound, and those whose
\* dependencies were looked at have their file: a stub that declares the type, or
\* that of the schema's package.  Stubs come from the registry, which only grows.
Waiting == {todo[i] : i \in 1..Len(todo)}
Past == Schema \ (Waiting \cup cur)

Built(m) == MemberError(m) = "" /\ (Registers(m) => registry[NameOf[m]] # NoFile)

\* By way of which schema m's dependency was found, if not in the registry.
Imported(m) ==
  /\ ShortName(TypeName(m)) \in Schema
  /\ TypeOf[m] = "message" => FileGiven[m] = NoFile /\ began[NameOf[m]] = NoFile
Away(m) == PackageOf(ShortName(TypeName(m))) # PackageOf(SchemaOf[m])
ImportOf(m) == FileOf[PackageOf(ShortName(TypeName(m)))]
Settled(m, found) ==
  \/ Registered(m) /\ \E f \in found : TypeName(m) \in stubs[f]
  \/ Imported(m) /\ (Away(m) => ImportOf(m) \in found)
Accounted(S, f) ==
  stubs[f] # {} \/ \E m \in S : Refers(m) /\ Imported(m) /\ Away(m) /\ f = ImportOf(m)

Judged(s) ==
  /\ ErrorFits(s)
  /\ errors[s] = "" => \A m \in Kept(s) :
       Built(m) /\ (Refers(m) => Settled(m, deps[FileOf[PackageOf(s)]]))

AtNode(s) ==
  LET own == Unskipped(Members(s, {"id", "field"}))
      edges == Unskipped(Members(s, {"edge"}))
  IN  /\ graph.msg[s] = "on" /\ errors[s] = "" /\ s \notin Waiting
      /\ \A m \in fields : Built(m)
      /\ pc = "fields" => fields \cup pending = own
      /\ pc = "edges" => fields \cup pending = own \cup edges
      /\ pc = "deps" =>
           /\ message[s] = Kept(s) /\ s \in filed /\ ~NumberedTwice(Kept(s))
           /\ \A m \in pending : m \in Kept(s) /\ Refers(m)
           /\ \A m \in Kept(s) : Built(m) /\ (Refers(m) => m \in pending \/ Settled(m, out))
           /\ \A f \in out : Accounted(Kept(s), f)

StubsRegistered ==
  \A f \in File : \A k \in stubs[f] : \E n \in Names : registry[n] = f /\ k.pkg = n.pkg
RegistryGrows == \A n \in Names : began[n] # NoFile => registry[n] = began[n]
DepsAccounted ==
  \A f \in File : \A g \in deps[f] :
    \/ stubs[g] # {}
    \/ \E s \in filed : /\ errors[s] = "" /\ s \in Past /\ FileOf[PackageOf(s)] = f
                      /\ Accounted(Kept(s), g)

Walked ==
  /\ \A i, j \in 1..Len(todo) : todo[i] = todo[j] => i = j
  /\ \A s \in Waiting : errors[s] = ""
  /\ \A s \in Past : Judged(s)
  /\ \A s \in cur : AtNode(s)
  /\ DepsAccounted

Progress ==
  /\ StubsRegistered /\ RegistryGrows
  /\ pc \in {"fields", "edges", "deps"} => cur # {}
  /\ pc \in {"fields", "edges"} => out = {}
  /\ pc = "deps" => fields = {}
  /\ \A s \in filed : graph.msg[s] = "on"
  /\ pc \notin {"idle", "panic"} => Walked
  /\ pc \in Ended => todo = <<>>
  /\ pc \in {"ready", "unlinked"} => Dangling = {}
  /\ pc = "unlinked" => ~Links

IInv == TypeOK /\ Progress
=============================================================================

------------------------------ MODULE Converters ------------------------------
(***************************************************************************)
(* entconv: GenerateConverterFile reads the ent schemas, the ID types of   *)
(* the ent package generated from them and the .pb.go file that protoc     *)
(* generated, refuses what does not fit together, and then replaces the    *)
(* converters of an output directory file by file.                         *)
(*                                                                         *)
(* Three programs and the author work on these artifacts in turn, so any   *)
(* of them may be older than the schemas; a generation may break off at    *)
(* any step and leave the directory as it is.                              *)
(*                                                                         *)
(* A message is an ID type, the type of each field and the enum constants  *)
(* declared with it.  Types are those of the .pb.go file, compared without *)
(* their package, which they are given without; only IDs have a type of    *)
(* ent's too.                                                              *)
(***************************************************************************)
EXTENDS PackageDirs

CONSTANTS
  Nodes,      \* the names of schemas, in the order of the graph: a sequence
  Fields,     \* the names of fields
  Types,      \* the Go types of their protobuf fields
  Consts,     \* the names of enum values
  Schemas,    \* [node -> the schemas the author may write]
  Layouts,    \* where a project may have its directories
  ProjectID,  \* the IDType that the ent package and the .proto files have
  OptionSets, \* the Options that GenerateConverterFile may be called with
  UserFiles,  \* the files the author may put into the directory
  MaxEvents   \* bounds what happens around the generations

Node == {Nodes[i] : i \in 1..Len(Nodes)}
IDType == {"int", "int64", "uint", "uint64", "string"}

\* The type an ent ID has in a .pb.go file, where int and int64 are the same.
PbOf == [int |-> "int64", int64 |-> "int64", uint |-> "uint32", uint64 |-> "uint64",
         string |-> "string"]
PbIDType == {"int64", "uint32", "uint64", "string"}

\* generated: who numbers the schema for its .proto file, the author or AutoFill, or
\* that it has none.  convertible: each field's converter is accepted (Convert).
Schema ==
  [exists : BOOLEAN, generated : {"no", "author", "filled"}, id : {"option"} \cup IDType,
   fields : [Fields -> Types \cup {"none"}], enum : SUBSET Consts, convertible : BOOLEAN]
\* Message is one of the .pb.go file, Mapping what the graph has for it.
Message ==
  [id : PbIDType, fields : [Fields -> Types \cup {"none"}], enum : SUBSET Consts]
Mapping ==
  [id : IDType, fields : [Fields -> Types \cup {"none"}], enum : SUBSET Consts]
None == [kind |-> "none"]
File == [kind : {"none", "user", "empty", "cut"}]
          \cup [kind : {"converter"}, message : Mapping]
\* from: where the program is started, in the module's directory or, as go generate
\* does it, in the ent package's; absolute: what kind of path SchemaPath is.
Options ==
  [complete : BOOLEAN, identifiers : BOOLEAN, idType : IDType \cup {"bad"},
   policy : {"strict", "warn", "bad"}, from : {"module", "ent"}, absolute : BOOLEAN]
NoOptions ==
  [complete |-> FALSE, identifiers |-> FALSE, idType |-> "bad", policy |-> "bad",
   from |-> "module", absolute |-> FALSE]

\* The schemas and the ent package are in one module, with no other module on the way
\* to them, and the package's import path is the one that Go gives its directory.
OneModule(l) ==
  /\ l.module \in DOMAIN l.goMod /\ l.goMod[l.module] \in Seq(STRING)
  /\ \A d \in {l.schema, l.ent} :
       /\ d \in Seq(STRING \ {".."}) /\ IsPrefix(l.module, d)
       /\ \A k \in (Len(l.module) + 1)..Len(d) : SubSeq(d, 1, k) \notin DOMAIN l.goMod
  /\ l.ent \in l.dirs
  /\ l.entPackage = l.goMod[l.module] \o SubSeq(l.ent, Len(l.module) + 1, Len(l.ent))

ASSUME ConvertersAssumption ==
  /\ Nodes \in Seq(STRING)
  /\ \A n \in Node : Schemas[n] \subseteq Schema
  /\ ProjectID \in IDType
  /\ \A l \in Layouts : l.module \in Seq(STRING) /\ OneModule(l)
  /\ OptionSets \subseteq Options
  /\ UserFiles \subseteq Node
  /\ MaxEvents \in Nat

VARIABLES
  layout,    \* the project's directories
  schema,    \* the author's schemas
  entID,     \* the ID type of each generated ent struct, "none" without one
  pb,        \* the messages of the .pb.go file
  files,     \* the output directory: the file named after each node
  before,    \* the same when the generation began, or something else happened
  opts,      \* the Options of the generation, or the last one
  pc, next,  \* where it is, which of its types it is at
  warned,    \* what WarningHandler was told
  verdict,   \* how the last generation ended; "none" when something changed since
  events

artifacts == <<layout, schema, entID, pb>>
vars == <<artifacts, files, before, opts, pc, next, warned, verdict, events>>

-----------------------------------------------------------------------------
(* prepareGenerator                                                          *)

ValidateOptions ==
  opts.complete /\ opts.idType # "bad" /\ opts.policy \in {"strict", "warn"}

\* Mutant: the option's ID type is every schema's.
ExpectedOfOption(n) ==
  [id |-> opts.idType, fields |-> schema[n].fields, enum |-> schema[n].enum]

\* What the graph has for a node's message: loadEntGraph gives it the option's
\* ID type, unless the schema has its own.
Expected(n) ==
  [id |-> IF schema[n].id = "option" THEN opts.idType ELSE schema[n].id,
   fields |-> schema[n].fields, enum |-> schema[n].enum]

InGraph == {n \in Node : schema[n].exists}
InProto == {n \in Node : pb[n] # None}

Cwd == IF opts.from = "module" THEN layout.module ELSE layout.ent
SchemaPath == IF opts.absolute THEN Path(TRUE, layout.schema) ELSE Rel(Cwd, layout.schema)
EntDir == ResolveEntDir(layout.dirs, layout.goMod, SchemaPath, Cwd, layout.entPackage)

\* verifyIDTypesAgainstSource trusts the option where it finds no ent struct.
IDTypesVerified ==
  \/ \A n \in InGraph : entID[n] \in {"none", Expected(n).id}
  \/ layout.ent \notin EntDir

\* matchTypes: the types that have both, and those without a message.
ToGenerate == InGraph \cap InProto
Missing == InGraph \ InProto

\* Mutant: a field that the message does not have is left to the compiler.
FieldPresentOrNot(n) ==
  /\ schema[n].generated = "author"
  /\ pb[n].id = PbOf[Expected(n).id]
  /\ \A f \in Fields : "none" \in {Expected(n).fields[f], pb[n].fields[f]}
                         \/ pb[n].fields[f] = Expected(n).fields[f]
  /\ schema[n].convertible

\* Every field that the graph maps is in the message with the protobuf type it should
\* have, and can be converted; which of ent's types an ID has does not always show in it.
\* The adapter has a field map of what the author numbered: the schemas are loaded
\* afresh, without what FixGraph filled in for the .proto file.
ProtoContract(n) ==
  /\ schema[n].generated = "author"
  /\ pb[n].id = PbOf[Expected(n).id]
  /\ \A f \in Fields : Expected(n).fields[f] # "none" => pb[n].fields[f] = Expected(n).fields[f]
  /\ schema[n].convertible

EnumConstReferences(n) == Expected(n).enum \subseteq pb[n].enum

\* The checks in their order, by the error each of them ends in.
Checks == <<"options", "id type", "missing", "no types", "contract", "enum">>
Refusals == {Checks[i] : i \in 1..Len(Checks)}

Holds(check) ==
  /\ check = "options" => ValidateOptions
  /\ check = "id type" => IDTypesVerified
  /\ check = "missing" => Missing = {} \/ opts.policy = "warn"
  /\ check = "no types" => ToGenerate # {}
  /\ check = "contract" => \A n \in ToGenerate : ProtoContract(n)
  /\ check = "enum" => \A n \in ToGenerate : EnumConstReferences(n)
Passed(i) == \A j \in 1..i : Holds(Checks[j])

EndWith(v) == pc' = "idle" /\ next' = 1 /\ verdict' = v

Refuse ==
  /\ pc = "prepare"
  /\ \E i \in 1..Len(Checks) :
       /\ Passed(i - 1) /\ ~Holds(Checks[i])
       /\ warned' = IF i > 3 THEN Missing ELSE {}
       /\ EndWith(Checks[i])
  /\ UNCHANGED <<artifacts, files, before, opts, events>>

\* The schemas or the .pb.go file cannot be loaded, or, after the warning, the adapter.
CannotLoad ==
  /\ pc = "prepare"
  /\ \/ Passed(1) /\ UNCHANGED warned
     \/ Passed(4) /\ warned' = Missing
  /\ EndWith("load")
  /\ UNCHANGED <<artifacts, files, before, opts, events>>

PrepareGenerator ==
  /\ pc = "prepare"
  /\ Passed(Len(Checks))
  /\ warned' = Missing
  /\ pc' = "clean"
  /\ UNCHANGED <<artifacts, files, before, opts, next, verdict, events>>

-----------------------------------------------------------------------------
(* GenerateAll                                                               *)

\* Mutant: only a converter that is whole is the generator's own.
WholeConverter(file) == file.kind = "converter"

\* Mutant: every .go file is the generator's own.
AnyFile(file) == file.kind # "none"

\* A file is the generator's own when it begins with its header, cut off or not.
HasHeader(file) == file.kind \in {"converter", "cut"}

RemoveStaleConverter(n) ==
  /\ pc = "clean" /\ HasHeader(files[n])
  /\ files' = [files EXCEPT ![n] = None]
  /\ UNCHANGED <<artifacts, before, opts, pc, next, warned, verdict, events>>

\* Mutant: counts from zero.
StartWritingAtZero ==
  /\ pc = "clean" /\ \A n \in Node : ~HasHeader(files[n])
  /\ pc' = "write" /\ next' = 0
  /\ UNCHANGED <<artifacts, files, before, opts, warned, verdict, events>>

StartWriting ==
  /\ pc = "clean" /\ \A n \in Node : ~HasHeader(files[n])
  /\ pc' = "write" /\ next' = 1
  /\ UNCHANGED <<artifacts, files, before, opts, warned, verdict, events>>

Converter(n) == [kind |-> "converter", message |-> Expected(n)]

\* The loop is at the i-th node, the next of those to generate in the graph's order.
AtType(i) ==
  /\ pc = "write" /\ i \in next..Len(Nodes) /\ Nodes[i] \in ToGenerate
  /\ \A j \in next..(i - 1) : Nodes[j] \notin ToGenerate

WriteConverter ==
  /\ opts.identifiers
  /\ \E i \in 1..Len(Nodes) :
       /\ AtType(i)
       /\ files' = [files EXCEPT ![Nodes[i]] = Converter(Nodes[i])]
       /\ next' = i + 1
  /\ UNCHANGED <<artifacts, before, opts, pc, warned, verdict, events>>

\* A package name or alias that is no identifier shows when the code is formatted.
CannotFormat ==
  /\ ~opts.identifiers /\ \E i \in 1..Len(Nodes) : AtType(i)
  /\ EndWith("format")
  /\ UNCHANGED <<artifacts, files, before, opts, warned, events>>

\* os.WriteFile empties the file before it writes to it.
Torn == {[kind |-> "empty"], [kind |-> "cut"]}

CannotWrite ==
  /\ opts.identifiers
  /\ \E i \in 1..Len(Nodes), t \in Torn :
       AtType(i) /\ files' = [files EXCEPT ![Nodes[i]] = t]
  /\ EndWith("write")
  /\ UNCHANGED <<artifacts, before, opts, warned, events>>

Return ==
  /\ pc = "write" /\ \A i \in 1..Len(Nodes) : ~AtType(i)
  /\ EndWith("done")
  /\ UNCHANGED <<artifacts, files, before, opts, warned, events>>

-----------------------------------------------------------------------------
(* What happens around it                                                    *)

GenerateConverterFile(o) ==
  /\ pc = "idle"
  /\ pc' = "prepare" /\ opts' = o
  /\ before' = files /\ warned' = {} /\ verdict' = "none"
  /\ next' = 1
  /\ UNCHANGED <<artifacts, files, events>>

\* The process is stopped; while it writes that leaves what CannotWrite leaves.
Kill ==
  /\ pc # "idle" /\ events < MaxEvents
  /\ EndWith("killed") /\ events' = events + 1
  /\ UNCHANGED <<artifacts, files, before, opts, warned>>

Event(directory) ==
  /\ pc = "idle" /\ events < MaxEvents /\ events' = events + 1
  /\ files' = directory /\ before' = directory
  /\ opts' = NoOptions /\ warned' = {} /\ verdict' = "none"
  /\ UNCHANGED <<pc, next>>

EditSchema(n) ==
  /\ Event(files)
  /\ \E s \in Schemas[n] : schema' = [schema EXCEPT ![n] = s]
  /\ UNCHANGED <<layout, entID, pb>>

ProjectIDOf(n) == IF schema[n].id = "option" THEN ProjectID ELSE schema[n].id
ProjectMessage(n) ==
  [id |-> PbOf[ProjectIDOf(n)], fields |-> schema[n].fields, enum |-> schema[n].enum]

\* entc's generator writes a struct for every schema; entproto, with AutoFill, and
\* protoc have a message for every schema but those that are to have none.
FreshEntID == [n \in Node |-> IF schema[n].exists THEN ProjectIDOf(n) ELSE "none"]
FreshProto == [n \in Node |-> IF schema[n].exists /\ schema[n].generated # "no"
                               THEN ProjectMessage(n) ELSE None]

GenerateEnt ==
  /\ Event(files)
  /\ entID' = FreshEntID
  /\ UNCHANGED <<layout, schema, pb>>

GenerateProto ==
  /\ Event(files)
  /\ pb' = FreshProto
  /\ UNCHANGED <<layout, schema, entID>>

AddUserFile(n) ==
  /\ files[n].kind \in {"none", "empty"}
  /\ Event([files EXCEPT ![n] = [kind |-> "user"]])
  /\ UNCHANGED artifacts

-----------------------------------------------------------------------------

Init ==
  /\ layout \in Layouts
  /\ schema \in [Node -> UNION {Schemas[n] : n \in Node}]
  /\ \A n \in Node : schema[n] \in Schemas[n]
  /\ entID = [n \in Node |-> "none"]
  /\ pb = FreshProto
  /\ files = [n \in Node |-> None] /\ before = files
  /\ opts = NoOptions
  /\ pc = "idle" /\ next = 1
  /\ warned = {} /\ verdict = "none" /\ events = 0

Generation ==
  \/ Refuse \/ CannotLoad \/ PrepareGenerator
  \/ \E n \in Node : RemoveStaleConverter(n)
  \/ StartWriting \/ WriteConverter \/ CannotFormat \/ CannotWrite \/ Return

Around ==
  \/ \E o \in OptionSets : GenerateConverterFile(o)
  \/ Kill \/ GenerateEnt \/ GenerateProto
  \/ \E n \in Node : EditSchema(n)
  \/ \E n \in UserFiles : AddUserFile(n)

Next == Generation \/ Around

Spec == Init /\ [][Next]_vars

-----------------------------------------------------------------------------
(* Properties.                                                               *)

\* Every variable stays in its range.
TypeOK ==
  /\ layout \in Layouts
  /\ schema \in [Node -> Schema] /\ entID \in [Node -> {"none"} \cup IDType]
  /\ \A n \in Node : pb[n] = None \/ pb[n] \in Message
  /\ files \in [Node -> File] /\ before \in [Node -> File]
  /\ opts \in Options
  /\ pc \in {"idle", "prepare", "clean", "write"}
  /\ next \in 1..(Len(Nodes) + 1)
  /\ warned \subseteq Node
  /\ verdict \in {"none", "done", "load", "format", "write", "killed"}
                   \cup Refusals
  /\ events \in 0..MaxEvents

\* The converters of a generation that succeeds compile against the .pb.go file,
\* however old it is: each field and enum constant they name is there and has the
\* type they give it; and their IDs have the type of the ent structs there are, wherever
\* a project has them and the program is started.  The .pb.go file alone cannot vouch
\* for that: int and int64 are one type in it.  (All but one way: started below the module's
\* directory with a relative SchemaPath, the search for go.mod ends where it was
\* started, and the structs are only found in a directory ent beside the schemas.)
ConvertersFit ==
  verdict = "done" => \A n \in Node : files[n].kind = "converter" =>
    LET m == files[n].message
    IN  /\ schema[n].exists /\ pb[n] # None
        /\ PbOf[m.id] = pb[n].id
        /\ \/ entID[n] \in {"none", m.id}
           \/ /\ opts.from = "ent" /\ ~opts.absolute
              /\ layout.ent # Front(layout.schema) \o <<"ent">>
        /\ \A f \in Fields : m.fields[f] # "none" => m.fields[f] = pb[n].fields[f]
        /\ m.enum \subseteq pb[n].enum

\* After a generation that succeeds the directory fits the artifacts.  What earlier
\* ones left behind makes no difference: no converter is left of a schema that is gone
\* or was renamed, broken off or not.  (A file that was emptied has no header and
\* stays.)  And no schema is left out silently: it has a converter, or the generation
\* was told to go on and warned of it by name.
DirectoryFits ==
  verdict = "done" => \A n \in Node :
    /\ IF n \in InGraph \cap InProto
       THEN files[n] = Converter(n)
       ELSE files[n].kind \in {"none", "user", "empty"}
    /\ schema[n].exists /\ files[n].kind # "converter" => n \in warned /\ opts.policy = "warn"

\* Nothing is refused without reason.  When the .pb.go file was generated after the
\* schemas were last edited, and so were the ent structs if there are any, and the
\* options are those of the project, a refusal means that a schema cannot be converted,
\* that one has no message although all are wanted, or that AutoFill numbered one:
\* then entconv refuses what the same project's entproto generated.
FreshAccepted ==
  /\ verdict \in Refusals
  /\ pb = FreshProto /\ entID \in {FreshEntID, [n \in Node |-> "none"]}
  /\ ValidateOptions /\ opts.idType = ProjectID
  => \/ \E n \in InGraph : ~schema[n].convertible \/ schema[n].generated = "filled"
     \/ \E n \in InGraph : schema[n].generated = "no" /\ opts.policy = "strict"
     \/ \A n \in InGraph : schema[n].generated = "no"

\* A generation that is refused leaves the directory as it was.  One that breaks
\* off later leaves each file as it was, without it if it was its own, or with its
\* new converter; at most one is torn, and of a user's files only those that have
\* the name of a converter are lost.
DamageBounded ==
  /\ verdict \in {"load"} \cup Refusals => files = before
  /\ verdict \in {"format", "write", "killed"} =>
       LET changed == {n \in Node : files[n] # before[n]}
       IN  /\ \A n \in changed :
                \/ files[n] = None /\ HasHeader(before[n])
                \/ n \in ToGenerate /\ files[n] = Converter(n)
                \/ n \in ToGenerate /\ files[n] \in Torn /\ verdict = "write"
           /\ Cardinality({n \in changed : files[n] \in Torn}) <= 1
           /\ \A n \in changed : before[n].kind = "user" => n \in ToGenerate

\* What makes the properties above inductive.  Where a generation is says what it has
\* done to the directory so far, and what it found when it was prepared still holds of
\* the artifacts, until something else happens to them.
Reason == \E i \in 1..Len(Checks) : verdict = Checks[i] /\ Passed(i - 1) /\ ~Holds(verdict)
AllPassed == Passed(Len(Checks)) /\ warned = Missing
Cleared(n) == IF HasHeader(before[n]) THEN None ELSE before[n]
Written == {n \in ToGenerate : \E i \in 1..(next - 1) : Nodes[i] = n}
Replaced(S) == \A n \in Node : files[n] = IF n \in S THEN Converter(n) ELSE Cleared(n)

Progress ==
  /\ pc # "idle" => verdict = "none"
  /\ pc = "prepare" => files = before
  /\ pc \in {"clean", "write"} \/ verdict = "done" => AllPassed
  /\ pc = "clean" => \A n \in Node : files[n] \in {before[n], Cleared(n)}
  /\ pc = "write" => Replaced(Written)
  /\ verdict = "done" => Replaced(ToGenerate)
  /\ verdict \in Refusals => Reason

IInv == TypeOK /\ Progress /\ DamageBounded
=============================================================================

------------------------------ MODULE Extension ------------------------------
(***************************************************************************)
(* entproto/extension.go: the ent extension that writes the .proto files.  *)
(* It puts the other two parts together: with AutoFill, FixGraph (module   *)
(* FieldNumbers) numbers the graph that ent loaded; LoadAdapter (module    *)
(* Adapter) makes descriptors of it; and when every schema came out right  *)
(* or was skipped, the files are written.                                  *)
(*                                                                         *)
(* The model runs it the way a project does: the author edits the schemas, *)
(* a generation runs in a process of its own and may be broken off while   *)
(* it writes, the files stay on disk, and so on.  A project turns AutoFill *)
(* on or off between two generations as it likes.                          *)
(***************************************************************************)
EXTENDS Integers, FiniteSets, Sequences

CONSTANTS
  Schema, Member, SchemaOf, KindOf, HashOf, Marks, MsgMarks,   \* as in FieldNumbers
  Position, TypeOf, TargetOf, Package, FileOf, File, NoFile,   \* as in Adapter
  MaxInt32,
  NodeOrder,      \* the nodes of the graph, as ent sorts them
  PackageGiven,   \* [Schema -> Package]: the package a message annotation names
  OwnID,          \* [Schema -> BOOLEAN]: the author declares the ID field
  MaxEdits        \* bound: how many edits the author makes

VARIABLES
  present, mark, msg, ann, gmsg, exist, book,   \* of FieldNumbers, with its
  fixTodo, fixCur, fixPending, fixPc,           \*   todo, cur, pending and pc
  graph, registry, todo, cur, pending, fields, out, message, filed, deps, stubs, errors,
  began, last, adPc,                            \* of Adapter, with its pc
  autoFill,       \* Extension.autoFill
  stage,          \* where the generation is
  warned,         \* schemas the warning on stderr lists
  unwritten,      \* files PrintProtosToFileSystem has still to write
  disk,           \* the members each file holds, with their numbers
  edits           \* how many edits the author has made

source == <<present, mark, msg>>
fix == <<ann, gmsg, fixTodo, fixCur, fixPending, exist, fixPc, book>>
adapter == <<graph, registry, todo, cur, pending, fields, out, message, filed, deps, stubs,
             errors, began, last, adPc>>
own == <<autoFill, stage, warned, unwritten, disk, edits>>
vars == <<source, fix, adapter, own>>

F == INSTANCE FieldNumbers WITH
  todo <- fixTodo, cur <- fixCur, pending <- fixPending, pc <- fixPc

\* The schemas name no type from outside, and no one registers any.
A == INSTANCE Adapter WITH
  pc <- adPc, NameOf <- [m \in Member |-> <<>>], FileGiven <- [m \in Member |-> NoFile],
  External <- [n \in {} |-> NoFile], Graphs <- {}

ASSUME ExtensionAssumption ==
  /\ SchemaOf \in [Member -> Schema]
  /\ KindOf \in [Member -> {"id", "field", "edge"}]
  /\ HashOf \in [Member -> Nat]
  /\ Marks \in [Member -> SUBSET F!Mark]
  /\ MsgMarks \in [Schema -> SUBSET F!MsgMark]
  /\ \A m1, m2 \in Member :
       KindOf[m1] = "id" /\ KindOf[m2] = "id" /\ SchemaOf[m1] = SchemaOf[m2] => m1 = m2
  /\ TypeOf \in [Member -> A!MemberType \ {"message"}]
  /\ Position \in [Member -> Nat]
  /\ \A m, k \in Member :
       SchemaOf[m] = SchemaOf[k] /\ KindOf[m] # "edge" /\ KindOf[k] = "edge" => Position[m] < Position[k]
  /\ \A m \in Member : KindOf[m] = "edge" <=> TypeOf[m] = "edge"
  /\ \A m \in Member : TypeOf[m] = "edge" => TargetOf[m] \in Schema
  /\ NoFile \notin File
  /\ A!DefaultProtoPackageName \in Package
  /\ FileOf \in [Package -> File]
  /\ \A p, q \in Package \ {""} : FileOf[p] = FileOf[q] => p = q
  /\ NodeOrder \in Seq(Schema) /\ A!EachOnce(NodeOrder)
  /\ PackageGiven \in [Schema -> Package] /\ OwnID \in [Schema -> BOOLEAN]
  /\ MaxInt32 \in Int /\ MaxInt32 >= F!MaxFieldNumber

-----------------------------------------------------------------------------

\* The graph as LoadAdapter finds it.  The annotation FixGraph gives a schema
\* that has none names the default package.
GraphFound ==
  [nodes |-> NodeOrder, members |-> present, ann |-> ann, msg |-> gmsg,
   pkg |-> [s \in Schema |->
     IF msg[s] = "none" THEN A!DefaultProtoPackageName ELSE PackageGiven[s]],
   ownID |-> OwnID]

NoGraph ==
  [nodes |-> <<>>, members |-> {}, ann |-> [m \in Member |-> F!Unmarked],
   msg |-> [s \in Schema |-> "none"], pkg |-> [s \in Schema |-> ""], ownID |-> OwnID]

EditSchemas ==
  /\ stage = "idle" /\ edits < MaxEdits
  /\ F!Edit
  /\ edits' = edits + 1
  /\ UNCHANGED <<adapter, autoFill, stage, warned, unwritten, disk>>

\* ent loads the graph and runs its own generators, which may fail.
Generate ==
  /\ stage = "idle"
  /\ autoFill' \in BOOLEAN
  /\ stage' \in {"fix", "failed"}
  /\ F!LoadGraph
  /\ warned' = {}
  /\ UNCHANGED <<adapter, unwritten, disk, edits>>

FixGraph ==
  /\ stage = "fix" /\ autoFill
  /\ F!FixGraph
  /\ stage' = IF fixPc' = "err" THEN "failed" ELSE stage
  /\ UNCHANGED <<adapter, autoFill, warned, unwritten, disk, edits>>

\* Mutant: FixGraph is left out.
HandOverUnfixed ==
  /\ stage = "fix"
  /\ graph' = GraphFound
  /\ stage' = "load"
  /\ UNCHANGED <<source, fix, registry, todo, cur, pending, fields, out, message, filed, deps,
                 stubs, errors, began, last, adPc, autoFill, warned, unwritten, disk, edits>>

\* Without AutoFill the graph goes to LoadAdapter as ent loaded it.
HandOver ==
  /\ stage = "fix" /\ fixPc = IF autoFill THEN "ok" ELSE "nodes"
  /\ graph' = GraphFound
  /\ stage' = "load"
  /\ UNCHANGED <<source, fix, registry, todo, cur, pending, fields, out, message, filed, deps,
                 stubs, errors, began, last, adPc, autoFill, warned, unwritten, disk, edits>>

LoadAdapter ==
  /\ stage = "load"
  /\ A!StartLoad \/ A!LoadAdapter
  /\ UNCHANGED <<source, fix, own>>

Loaded == adPc \in {"ready", "dangling", "unlinked", "panic"}
Skipped == {s \in Schema : errors[s] = "skipped"}
Broken == {s \in Schema : errors[s] \notin {"", "skipped"}}

\* Mutant: a schema that failed is left out like one that is skipped.
CheckLinked ==
  /\ stage = "load" /\ Loaded
  /\ IF adPc # "ready"
     THEN stage' = "failed" /\ UNCHANGED <<warned, unwritten>>
     ELSE /\ stage' = "write"
          /\ warned' = IF autoFill THEN {} ELSE Skipped
          /\ unwritten' = A!Generated
  /\ UNCHANGED <<source, fix, adapter, autoFill, disk, edits>>

\* Mutant: with AutoFill on or off, no skipped schema is spoken of.
CheckSilently ==
  /\ stage = "load" /\ Loaded
  /\ IF adPc # "ready" \/ Broken # {}
     THEN stage' = "failed" /\ UNCHANGED <<warned, unwritten>>
     ELSE stage' = "write" /\ unwritten' = A!Generated /\ UNCHANGED warned
  /\ UNCHANGED <<source, fix, adapter, autoFill, disk, edits>>

\* generate asks for every schema's file.  One that failed ends the run before
\* anything is written; skipped ones are reported unless AutoFill is on.
CheckSchemas ==
  /\ stage = "load" /\ Loaded
  /\ IF adPc # "ready" \/ Broken # {}
     THEN stage' = "failed" /\ UNCHANGED <<warned, unwritten>>
     ELSE /\ stage' = "write"
          /\ warned' = IF autoFill THEN {} ELSE Skipped
          /\ unwritten' = A!Generated
  /\ UNCHANGED <<source, fix, adapter, autoFill, disk, edits>>

\* What a file holds: the members of its messages, each with its number and
\* whether the author wrote that number.
Content(f) ==
  UNION {{[member |-> m, num |-> A!Number(m), given |-> mark[m].field = "ok"] : m \in message[s]} :
           s \in A!In(f)}

WriteFile(f) ==
  /\ stage = "write" /\ f \in unwritten
  /\ disk' = [disk EXCEPT ![f] = Content(f)]
  /\ unwritten' = unwritten \ {f}
  /\ UNCHANGED <<source, fix, adapter, autoFill, stage, warned, edits>>

\* An error of the file system, or the process is killed.  A file that was being
\* written is left incomplete: here, empty.
BreakOff ==
  /\ stage = "write" /\ unwritten # {}
  /\ \/ UNCHANGED disk
     \/ \E f \in unwritten : disk' = [disk EXCEPT ![f] = {}]
  /\ stage' = "failed"
  /\ UNCHANGED <<source, fix, adapter, autoFill, warned, unwritten, edits>>

Done ==
  /\ stage = "write" /\ unwritten = {}
  /\ stage' = "done"
  /\ UNCHANGED <<source, fix, adapter, autoFill, warned, unwritten, disk, edits>>

\* The process ends: all but the schemas and the files is gone.
Exit ==
  /\ stage \in {"done", "failed"}
  /\ stage' = "idle" /\ warned' = {} /\ autoFill' = FALSE
  /\ ann' = [m \in Member |-> F!Unmarked] /\ gmsg' = [s \in Schema |-> "none"]
  /\ fixTodo' = {} /\ fixCur' = {} /\ fixPending' = {} /\ exist' = {} /\ fixPc' = "idle"
  /\ graph' = NoGraph
  /\ registry' = [n \in {} |-> NoFile] /\ began' = registry'
  /\ adPc' = "idle" /\ todo' = <<>> /\ cur' = {} /\ pending' = {} /\ fields' = {} /\ out' = {}
  /\ message' = [s \in Schema |-> {}] /\ filed' = {}
  /\ deps' = [f \in File |-> {}] /\ stubs' = [f \in File |-> {}]
  /\ errors' = [s \in Schema |-> ""]
  /\ unwritten' = {}
  /\ UNCHANGED <<source, book, last, disk, edits>>

-----------------------------------------------------------------------------

Init ==
  /\ present = F!OfKind("id")
  /\ mark = [m \in Member |-> F!Unmarked] /\ msg = [s \in Schema |-> "none"]
  /\ ann = [m \in Member |-> F!Unmarked] /\ gmsg = [s \in Schema |-> "none"]
  /\ fixTodo = {} /\ fixCur = {} /\ fixPending = {} /\ exist = {} /\ fixPc = "idle"
  /\ graph = NoGraph
  /\ registry = [n \in {} |-> NoFile] /\ began = registry
  /\ adPc = "idle" /\ todo = <<>> /\ cur = {} /\ pending = {} /\ fields = {} /\ out = {}
  /\ message = [s \in Schema |-> {}] /\ filed = {}
  /\ deps = [f \in File |-> {}] /\ stubs = [f \in File |-> {}]
  /\ errors = [s \in Schema |-> ""]
  /\ unwritten = {}
  /\ book = [m \in Member |-> F!NoNumber]
  /\ last = [end |-> "none", found |-> registry, failed |-> {}, files |-> {}]
  /\ autoFill = FALSE /\ stage = "idle" /\ warned = {} /\ edits = 0
  /\ disk = [f \in File |-> {}]

Run ==
  \/ FixGraph \/ HandOver \/ LoadAdapter \/ CheckSchemas
  \/ (\E f \in File : WriteFile(f)) \/ BreakOff \/ Done \/ Exit

Next == EditSchemas \/ Generate \/ Run

Spec == Init /\ [][Next]_vars

\* A generation that has begun runs on.
FairSpec == Spec /\ WF_vars(Run)

-----------------------------------------------------------------------------
(* Properties.                                                               *)

Given(m) == mark[m].field = "ok"
Published(s) == msg[s] = "on" \/ (autoFill /\ msg[s] = "none")
Expected(f) ==
  {[member |-> m, num |-> IF Given(m) THEN mark[m].num ELSE F!OwnNumber(m), given |-> Given(m)] :
     m \in {k \in present : /\ ~mark[k].skip
                            /\ Published(SchemaOf[k]) /\ FileOf[A!PackageOf(SchemaOf[k])] = f}}

\* After a generation that succeeded the files hold exactly what the schemas
\* declare: every member that is not skipped of every published schema, in the
\* file of its package, under the number its author or FixGraph gave it; nothing
\* of a dropped member, an earlier generation or one that was broken off is left.
FilesFitSchemas ==
  stage = "done" => \A f \in File : Expected(f) # {} => disk[f] = Expected(f)

\* No schema is missing from the files unnoticed: it is there, the warning names
\* it, or its author turned it off and relies on AutoFill for the others.
NoSchemaVanishesSilently ==
  stage = "done" => \A s \in Schema :
    (Published(s) /\ s \in filed) \/ s \in warned \/ (autoFill /\ msg[s] = "off")

\* When LoadAdapter turns a schema down that FixGraph numbered, the author's own
\* annotations and types are the reason: no number is missing, and none that FixGraph
\* chose is taken twice, reserved or out of range.
AutoFillBlameless ==
  autoFill /\ stage = "load" /\ Loaded => \A s \in Schema :
    LET M == {m \in present : SchemaOf[m] = s}
    IN  /\ errors[s] \in {"", "skipped", "target", "unsupported", "enum", "duplicate", "reserved", "overflow"}
        /\ errors[s] = "skipped" => msg[s] = "off"
        /\ errors[s] = "target" => \E m \in M : KindOf[m] = "edge" /\ msg[TargetOf[m]] = "off"
        /\ errors[s] = "duplicate" =>
             \E m \in M : \E k \in M \ {m} : Given(m) /\ Given(k) /\ mark[m].num = mark[k].num
        /\ errors[s] = "reserved" => \E m \in M : Given(m) /\ mark[m].num = A!IDFieldNumber
        /\ errors[s] = "overflow" =>
             \E m \in M : Given(m) /\ mark[m].num \notin -MaxInt32..MaxInt32
        /\ errors[s] \in {"unsupported", "enum"} => \E m \in M : TypeOf[m] \in {"json", "badenum"}

\* A generation that fails over a schema fails before it changes a file.
SchemaErrorsWriteNothing ==
  [][disk' # disk => Broken = {} /\ adPc = "ready" /\ (autoFill => fixPc = "ok")]_vars

\* A member whose number the author does not give keeps its number in the files
\* from one generation to the next, whatever else was edited in between, with
\* AutoFill or without.
NumbersStayOnDisk ==
  [][\A f \in File : \A r \in disk[f], q \in disk'[f] :
       r.member = q.member /\ ~r.given /\ ~q.given => r.num = q.num]_disk

\* What makes the properties above inductive: what has been handed over is what the
\* schemas say, at most filled up by FixGraph, and each file that has been written is
\* that of its package; a number that no author gave is on disk as the member's own.
AtRest ==
  /\ registry = [n \in {} |-> NoFile] /\ began = registry
  /\ adPc = "idle" /\ todo = <<>> /\ cur = {} /\ pending = {} /\ fields = {} /\ out = {}
  /\ message = [s \in Schema |-> {}] /\ filed = {}
  /\ deps = [f \in File |-> {}] /\ stubs = [f \in File |-> {}] /\ errors = [s \in Schema |-> ""]

Unfilled == gmsg = msg /\ \A m \in present : ann[m] = mark[m]

HandedOver ==
  /\ graph = GraphFound /\ adPc # "panic"
  /\ fixPc = IF autoFill THEN "ok" ELSE "nodes"

WrittenFits ==
  /\ adPc = "ready" /\ Broken = {} /\ warned = IF autoFill THEN {} ELSE Skipped
  /\ unwritten \subseteq A!Generated
  /\ \A f \in A!Generated \ unwritten : disk[f] = Content(f)

OwnOnDisk ==
  /\ DOMAIN disk = File
  /\ \A f \in File : \A r \in disk[f] : ~r.given => r.num = F!OwnNumber(r.member)

StageFits ==
  /\ stage \in {"idle", "fix", "load", "write", "done", "failed"}
  /\ stage \in {"idle", "fix"} => AtRest
  /\ stage \in {"fix", "load", "write", "done"} /\ ~autoFill => fixPc = "nodes" /\ Unfilled
  /\ stage \in {"load", "write", "done"} => HandedOver
  /\ stage \in {"write", "done"} => WrittenFits
  /\ stage = "done" => unwritten = {}
  /\ OwnOnDisk

\* A generation that has begun comes to an end.
GenerationEnds == stage # "idle" ~> stage = "idle"
=============================================================================

---------------------------- MODULE FieldNumbers ----------------------------
(***************************************************************************)
(* entproto/fix.go: FixGraph numbers every ID, field and edge of every     *)
(* generated schema that its author left without a proto field number.     *)
(*                                                                         *)
(* The model runs it the way a project lives: the author edits the schemas *)
(* (declares, drops, annotates or skips a member, changes the message      *)
(* annotation), a graph is loaded from them, FixGraph walks it, and it     *)
(* either succeeds or stops at the first error with the graph part filled. *)
(* A caller may pass the same graph to FixGraph again.                     *)
(*                                                                         *)
(* Members are opaque.  The order of nodes, fields and edges is the        *)
(* author's, so the model takes them in every order the code's three loops *)
(* allow: the ID, then the fields, then the edges.                         *)
(***************************************************************************)
EXTENDS Integers, FiniteSets

CONSTANTS
  Schema,        \* the nodes of the ent graph
  Member,        \* every ID, field and edge the author may ever declare
  SchemaOf,      \* [Member -> Schema]
  KindOf,        \* [Member -> {"id", "field", "edge"}]
  HashOf,        \* [Member -> Nat]: fnv32a of "schema\0kind\0name"
  Marks,         \* [Member -> SUBSET Mark]: annotations the author may write
  MsgMarks       \* [Schema -> SUBSET MsgMark]

NoNumber == 0
IDFieldNumber == 1
MaxFieldNumber == 536870911

\* The proto annotations of a member.  "bad" is a field annotation that
\* mapstructure cannot decode; num counts only when field is "ok".
Mark == [field : {"none", "ok", "bad"}, num : Int, skip : BOOLEAN]
Unmarked == [field |-> "none", num |-> NoNumber, skip |-> FALSE]
Numbered(n) == [field |-> "ok", num |-> n, skip |-> FALSE]

\* A schema's message annotation: absent, undecodable, or Generate on / off.
MsgMark == {"none", "bad", "off", "on"}

ASSUME NumbersAssumption ==
  /\ SchemaOf \in [Member -> Schema]
  /\ KindOf \in [Member -> {"id", "field", "edge"}]
  /\ HashOf \in [Member -> Nat]
  /\ Marks \in [Member -> SUBSET Mark]
  /\ MsgMarks \in [Schema -> SUBSET MsgMark]
  /\ \A m1, m2 \in Member :
       KindOf[m1] = "id" /\ KindOf[m2] = "id" /\ SchemaOf[m1] = SchemaOf[m2] => m1 = m2

VARIABLES
  present,       \* the members the schemas declare now
  mark,          \* the annotations the author wrote
  msg,           \* the message annotations the author wrote
  ann,           \* the annotations in the graph
  gmsg,          \* the message annotations in the graph
  todo,          \* nodes FixGraph has still to visit
  cur,           \* the node fixNode works on: {s}, or {} between nodes
  pending,       \* members of that node its current loop has still to visit
  exist,         \* fieldIDGenerator.exist
  pc,            \* where FixGraph is
  book           \* for each member the last number a successful run filled in

source == <<present, mark, msg>>
graph == <<ann, gmsg>>
walk == <<todo, cur, pending, exist>>
vars == <<source, graph, walk, pc, book>>

-----------------------------------------------------------------------------

InSchema(s) == {m \in present : SchemaOf[m] = s}
OfKind(k) == {m \in Member : KindOf[m] = k}

Annotated(m) == ann[m].field # "none"

\* A member that FixGraph has nothing to do for.
Settled(m) == Annotated(m) \/ ann[m].skip

\* Mutant: the range protobuf keeps for itself is forgotten.
NumberInReservedRange(m) == (HashOf[m] % (MaxFieldNumber - 1)) + 2

\* Mutant: the smallest number from 2 up that is free, as counters give out.
SequentialNumber(m) ==
  CHOOSE n \in 2..20 : n \notin exist /\ \A k \in 2..(n - 1) : k \in exist

\* stableFieldNumber: the hash reduced to 2..MaxFieldNumber, and moved up out
\* of the range protobuf keeps for itself.
StableFieldNumber(m) ==
  LET num == (HashOf[m] % (MaxFieldNumber - 1)) + 2
  IN  IF num \in 19000..19999 THEN num + 1000 ELSE num

Numbers(S) == {ann[m].num : m \in {k \in S : ann[k].field = "ok"}}

\* Mutant: numbers the author put on edges are not collected.
NumbersOfFieldsOnly(s) == Numbers({m \in InSchema(s) : KindOf[m] # "edge"})

\* extractExistFieldID, on a node whose annotations all decode.
ExistFieldIDs(s) == Numbers(InSchema(s))

-----------------------------------------------------------------------------
(* The author edits the schemas between two runs, one declaration at a time. *)

Declare(m) ==
  /\ pc = "idle" /\ m \notin present
  /\ present' = present \cup {m}
  /\ UNCHANGED <<mark, msg, graph, walk, pc, book>>

Drop(m) ==
  /\ pc = "idle" /\ m \in present /\ KindOf[m] # "id"
  /\ present' = present \ {m}
  /\ mark' = [mark EXCEPT ![m] = Unmarked]
  /\ UNCHANGED <<msg, graph, walk, pc, book>>

Annotate(m) ==
  /\ pc = "idle" /\ m \in present
  /\ \E a \in Marks[m] : mark' = [mark EXCEPT ![m] = a]
  /\ UNCHANGED <<present, msg, graph, walk, pc, book>>

AnnotateSchema(s) ==
  /\ pc = "idle"
  /\ \E a \in MsgMarks[s] : msg' = [msg EXCEPT ![s] = a]
  /\ UNCHANGED <<present, mark, graph, walk, pc, book>>

-----------------------------------------------------------------------------
(* One run.                                                                  *)

\* ent loads a fresh graph from the schemas and FixGraph starts on it.
LoadGraph ==
  /\ pc = "idle"
  /\ ann' = [m \in Member |-> IF m \in present THEN mark[m] ELSE Unmarked]
  /\ gmsg' = msg
  /\ todo' = Schema
  /\ pc' = "nodes"
  /\ UNCHANGED <<source, cur, pending, exist, book>>

\* FixGraph is called once more on a graph it returned from before.
FixAgain ==
  /\ pc \in {"ok", "err"}
  /\ todo' = Schema
  /\ pc' = "nodes"
  /\ UNCHANGED <<source, graph, cur, pending, exist, book>>

\* Mutant: a node whose message annotation is broken is tried again.
FixNodeRetries(s) ==
  /\ pc = "nodes" /\ s \in todo
  /\ IF gmsg[s] = "none" THEN gmsg' = [gmsg EXCEPT ![s] = "on"] ELSE UNCHANGED gmsg
  /\ CASE gmsg[s] = "bad" -> UNCHANGED <<pc, cur, todo>>
       [] gmsg[s] = "off" -> todo' = todo \ {s} /\ UNCHANGED <<pc, cur>>
       [] OTHER           -> todo' = todo \ {s} /\ pc' = "scan" /\ cur' = {s}
  /\ UNCHANGED <<source, ann, pending, exist, book>>

\* fixNode looks at the message annotation of the next node.
FixNode(s) ==
  /\ pc = "nodes" /\ s \in todo
  /\ todo' = todo \ {s}
  /\ IF gmsg[s] = "none" THEN gmsg' = [gmsg EXCEPT ![s] = "on"] ELSE UNCHANGED gmsg
  /\ CASE gmsg[s] = "bad" -> pc' = "err" /\ UNCHANGED cur
       [] gmsg[s] = "off" -> UNCHANGED <<pc, cur>>
       [] OTHER           -> pc' = "scan" /\ cur' = {s}
  /\ UNCHANGED <<source, ann, pending, exist, book>>

\* Numbers in use are collected from the fields and from the edges.
ExtractExistFieldID(s) ==
  /\ pc = "scan" /\ s \in cur
  /\ IF \E m \in InSchema(s) : ann[m].field = "bad"
     THEN pc' = "err" /\ cur' = {} /\ UNCHANGED <<pending, exist>>
     ELSE /\ pc' = "id"
          /\ exist' = ExistFieldIDs(s)
          /\ pending' = InSchema(s) \cap OfKind("id")
          /\ UNCHANGED cur
  /\ UNCHANGED <<source, graph, todo, book>>

\* Mutant: a number given out is not remembered as taken.
SetNumberForgets(m, n) ==
  IF n \in exist
  THEN pc' = "err" /\ cur' = {} /\ pending' = {} /\ exist' = {} /\ UNCHANGED ann
  ELSE /\ ann' = [ann EXCEPT ![m] = Numbered(n)]
       /\ pending' = pending \ {m}
       /\ UNCHANGED <<exist, pc, cur>>

\* What the two writers of annotations have in common: a number that is taken
\* ends the run, a free one is written and taken.
SetNumber(m, n) ==
  IF n \in exist
  THEN pc' = "err" /\ cur' = {} /\ pending' = {} /\ exist' = {} /\ UNCHANGED ann
  ELSE /\ ann' = [ann EXCEPT ![m] = Numbered(n)]
       /\ exist' = exist \cup {n}
       /\ pending' = pending \ {m}
       /\ UNCHANGED <<pc, cur>>

Leave(m) == pending' = pending \ {m} /\ UNCHANGED <<ann, exist, pc, cur>>

\* Mutant: the ID takes number 1 whether or not a field has it.
IDTakesOne(m) ==
  /\ pc = "id" /\ m \in pending
  /\ IF Settled(m)
     THEN Leave(m)
     ELSE /\ ann' = [ann EXCEPT ![m] = Numbered(IDFieldNumber)]
          /\ exist' = exist \cup {IDFieldNumber}
          /\ pending' = pending \ {m}
          /\ UNCHANGED <<pc, cur>>
  /\ UNCHANGED <<source, gmsg, todo, book>>

AddAnnotationForID(m) ==
  /\ pc = "id" /\ m \in pending
  /\ IF Settled(m) THEN Leave(m) ELSE SetNumber(m, IDFieldNumber)
  /\ UNCHANGED <<source, gmsg, todo, book>>

\* addAnnotationForField and addAnnotationForEdge differ in the hashed kind.
AddAnnotation(m) ==
  /\ pc \in {"field", "edge"} /\ m \in pending
  /\ IF Settled(m) THEN Leave(m) ELSE SetNumber(m, StableFieldNumber(m))
  /\ UNCHANGED <<source, gmsg, todo, book>>

\* One loop of fixNode is over and the next starts.
NextLoop(s, from, to) ==
  /\ pc = from /\ s \in cur /\ pending = {}
  /\ pc' = to
  /\ pending' = InSchema(s) \cap OfKind(to)
  /\ UNCHANGED <<source, graph, todo, cur, exist, book>>

\* Mutant: one fieldIDGenerator serves all nodes.
GeneratorOutlivesNode ==
  /\ pc = "edge" /\ pending = {}
  /\ pc' = "nodes" /\ cur' = {}
  /\ UNCHANGED <<source, graph, todo, pending, exist, book>>

NodeDone ==
  /\ pc = "edge" /\ pending = {}
  /\ pc' = "nodes" /\ cur' = {} /\ exist' = {}
  /\ UNCHANGED <<source, graph, todo, pending, book>>

\* A number FixGraph filled in: the author wrote none.
Filled(m) == m \in present /\ ann[m].field = "ok" /\ mark[m].field = "none"

\* FixGraph returns nil, and the numbers reach the .proto files.
Succeed ==
  /\ pc = "nodes" /\ todo = {}
  /\ pc' = "ok"
  /\ book' = [m \in Member |-> IF Filled(m) THEN ann[m].num ELSE book[m]]
  /\ UNCHANGED <<source, graph, walk>>

\* The process ends and the graph with it.
Exit ==
  /\ pc \in {"ok", "err"}
  /\ pc' = "idle"
  /\ ann' = [m \in Member |-> Unmarked]
  /\ gmsg' = [s \in Schema |-> "none"]
  /\ todo' = {}
  /\ UNCHANGED <<source, cur, pending, exist, book>>

-----------------------------------------------------------------------------

Init ==
  /\ present = OfKind("id")
  /\ mark = [m \in Member |-> Unmarked]
  /\ msg = [s \in Schema |-> "none"]
  /\ ann = mark /\ gmsg = msg
  /\ todo = {} /\ cur = {} /\ pending = {} /\ exist = {}
  /\ pc = "idle"
  /\ book = [m \in Member |-> NoNumber]

Edit ==
  \/ \E m \in Member : Declare(m) \/ Drop(m) \/ Annotate(m)
  \/ \E s \in Schema : AnnotateSchema(s)

FixGraph ==
  \/ \E s \in Schema :
       \/ FixNode(s)
       \/ ExtractExistFieldID(s)
       \/ NextLoop(s, "id", "field")
       \/ NextLoop(s, "field", "edge")
  \/ \E m \in Member : AddAnnotationForID(m) \/ AddAnnotation(m)
  \/ NodeDone
  \/ Succeed

Next == Edit \/ LoadGraph \/ FixAgain \/ FixGraph \/ Exit

Spec == Init /\ [][Next]_vars

-----------------------------------------------------------------------------
(* Properties.                                                               *)

\* Every variable stays in its range; the walk's own variables are empty
\* where the code has not yet made them or has let them go.
TypeOK ==
  /\ present \subseteq Member
  /\ mark \in [Member -> Mark] /\ ann \in [Member -> Mark]
  /\ msg \in [Schema -> MsgMark] /\ gmsg \in [Schema -> MsgMark]
  /\ todo \subseteq Schema
  /\ cur \in {{}} \cup {{s} : s \in Schema}
  /\ pending \subseteq Member
  /\ exist \subseteq Int
  /\ pc \in {"idle", "nodes", "scan", "id", "field", "edge", "ok", "err"}
  /\ book \in [Member -> Int]
  /\ pc \in {"idle", "nodes", "ok", "err"} => cur = {}
  /\ pc \notin {"id", "field", "edge"} => pending = {} /\ exist = {}

\* A number that FixGraph fills in is no other number of the same message,
\* neither one the author wrote (on a skipped member or not) nor another
\* filled in, at any point of the walk and after a failed one.
NoNumberTwice ==
  \A m, k \in present :
    /\ m # k /\ SchemaOf[m] = SchemaOf[k]
    /\ Filled(m) /\ ann[k].field = "ok"
    => ann[m].num # ann[k].num

\* A number filled in is one protobuf accepts, and 1 only for the ID.
FilledNumbersLegal ==
  \A m \in present : Filled(m) =>
    IF KindOf[m] = "id"
    THEN ann[m].num = IDFieldNumber
    ELSE ann[m].num \in 2..MaxFieldNumber /\ ann[m].num \notin 19000..19999

\* What FixGraph decides can be read off the schemas alone, whatever order it
\* walks them in and however often it is called on one graph: it fails exactly
\* when an annotation cannot be decoded or a member's own number is taken, and
\* when it succeeds no member of a generated schema is left without a number.
Wants(m) == mark[m].field = "none" /\ ~mark[m].skip
OwnNumber(m) == IF KindOf[m] = "id" THEN IDFieldNumber ELSE StableFieldNumber(m)
Generated(s) == msg[s] \in {"none", "on"}
Collides(s) ==
  \E m \in InSchema(s) : Wants(m) /\ \E k \in InSchema(s) \ {m} :
    \/ mark[k].field = "ok" /\ mark[k].num = OwnNumber(m)
    \/ Wants(k) /\ OwnNumber(k) = OwnNumber(m)
Rejected(s) ==
  \/ msg[s] = "bad"
  \/ Generated(s) /\ (Collides(s) \/ \E m \in InSchema(s) : mark[m].field = "bad")
VerdictFitsSchemas ==
  /\ pc = "err" => \E s \in Schema : Rejected(s)
  /\ pc = "ok" => \A s \in Schema :
       ~Rejected(s) /\ (Generated(s) => \A m \in InSchema(s) : Settled(m))

\* A member keeps the number it was first published with for as long as the
\* author leaves it to FixGraph, whatever is inserted, dropped, annotated or
\* reordered around it.
NumbersNeverMove ==
  [][\A m \in Member : book[m] # NoNumber => book'[m] = book[m]]_book

\* What makes the properties above inductive.  While a node is worked on,
\* fieldIDGenerator.exist holds exactly the numbers of its members, the loop's
\* members are of that node and of the loop's kind, and whatever was filled in
\* is the member's own number; outside a run the graph is blank.
ExistIsExact ==
  pc \in {"id", "field", "edge"} =>
    \E s \in Schema : cur = {s} /\ exist = ExistFieldIDs(s)
PendingOfNode ==
  \A m \in pending :
    m \in present /\ SchemaOf[m] \in cur /\ KindOf[m] = pc
FilledOwn == \A m \in present : Filled(m) => ann[m].num = OwnNumber(m)
BlankWhenIdle == pc = "idle" => \A m \in Member : ann[m] = Unmarked
BookOwn == \A m \in Member : book[m] \in {NoNumber, OwnNumber(m)}

IInv ==
  /\ TypeOK
  /\ ExistIsExact
  /\ PendingOfNode
  /\ FilledOwn
  /\ BlankWhenIdle
  /\ BookOwn
  /\ NoNumberTwice

\* What ties the graph to the schemas: FixGraph only adds its own numbers where
\* the author left a place, and every node it has left behind is settled.
AnnFromMark ==
  pc # "idle" => \A m \in present :
    \/ ann[m] = mark[m]
    \/ Wants(m) /\ ann[m] = Numbered(OwnNumber(m))
MsgFromMsg ==
  pc # "idle" => \A s \in Schema :
    \/ gmsg[s] = msg[s]
    \/ msg[s] = "none" /\ gmsg[s] = "on"
MessagesOn ==
  /\ pc = "ok" => todo = {}
  /\ pc # "idle" => \A s \in Schema \ todo : gmsg[s] # "none"
Before(k) == CASE k = "id" -> {} [] k = "field" -> {"id"} [] k = "edge" -> {"id", "field"}
CurrentNode ==
  /\ pc \in {"idle", "nodes", "ok", "err"} => cur = {}
  /\ \A s \in cur : Generated(s)
  /\ pc \in {"id", "field", "edge"} => \A s \in cur : \A m \in InSchema(s) :
       /\ ann[m].field # "bad"
       /\ KindOf[m] \in Before(pc) \/ (KindOf[m] = pc /\ m \notin pending) => Settled(m)
NodesBehind ==
  pc \notin {"idle", "err"} => \A s \in Schema \ (todo \cup cur) :
    /\ msg[s] # "bad"
    /\ Generated(s) => \A m \in InSchema(s) : ann[m].field # "bad" /\ Settled(m)

VInv ==
  /\ IInv
  /\ AnnFromMark
  /\ MsgFromMsg
  /\ CurrentNode
  /\ NodesBehind
  /\ VerdictFitsSchemas

\* The walk keeps a NumberLedger: see that module.
Ledger == INSTANCE NumberLedger WITH
  ledger <- [m \in {k \in present : ann[k].field = "ok"} |-> ann[m].num],
  open <- pc \notin {"idle", "ok", "err"}
KeepsLedger == Ledger!Spec

=============================================================================

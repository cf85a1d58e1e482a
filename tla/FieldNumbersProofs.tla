------------------------- MODULE FieldNumbersProofs -------------------------
(***************************************************************************)
(* Proofs about FixGraph (module FieldNumbers), for every set of schemas   *)
(* and members, every hash of their names and every annotation an author   *)
(* may write.                                                              *)
(***************************************************************************)
EXTENDS FieldNumbers, TLAPS

USE NumbersAssumption DEF NumbersAssumption

\* All the proofs need to know of the largest field number.
LEMMA MaxFieldNumberLarge == MaxFieldNumber \in Int /\ MaxFieldNumber > 20999
BY SMT DEF MaxFieldNumber

LEMMA RemainderRange ==
  ASSUME NEW h \in Nat, NEW k \in Nat, k > 0
  PROVE  h % k \in 0..(k - 1)
BY SMT

\* The hash may be any natural number: what stableFieldNumber makes of it is a
\* number protobuf accepts, and never the ID's.
LEMMA StableFieldNumberRange ==
  ASSUME NEW m \in Member
  PROVE  /\ StableFieldNumber(m) \in 2..MaxFieldNumber
         /\ StableFieldNumber(m) \notin 19000..19999
<1>1. /\ HashOf[m] \in Nat
      /\ MaxFieldNumber - 1 \in Nat /\ MaxFieldNumber - 1 > 0
  BY MaxFieldNumberLarge
<1>2. HashOf[m] % (MaxFieldNumber - 1) \in 0..(MaxFieldNumber - 2)
  BY <1>1, RemainderRange, MaxFieldNumberLarge
<1>3. PICK r \in 0..(MaxFieldNumber - 2) : r = HashOf[m] % (MaxFieldNumber - 1)
  BY <1>2
<1>4. StableFieldNumber(m) = IF r + 2 \in 19000..19999 THEN r + 2 + 1000 ELSE r + 2
  BY <1>3 DEF StableFieldNumber
<1>. QED  BY <1>4, MaxFieldNumberLarge

LEMMA OwnNumberInt ==
  ASSUME NEW m \in Member
  PROVE  OwnNumber(m) \in Int /\ OwnNumber(m) # NoNumber
BY StableFieldNumberRange DEF OwnNumber, IDFieldNumber, NoNumber

\* Writing a number gives a member a decodable annotation and leaves the rest.
LEMMA SetNumberTyped ==
  ASSUME TypeOK, NEW m \in Member, NEW n \in Int, SetNumber(m, n)
  PROVE  /\ ann' \in [Member -> Mark]
         /\ cur' \in {cur, {}}
         /\ pending' \subseteq pending
         /\ exist' \subseteq Int
         /\ pc' \in {pc, "err"}
         /\ pc' # pc => cur' = {} /\ pending' = {} /\ exist' = {}
<1>1. Numbered(n) \in Mark
  BY DEF Numbered, Mark
<1>2. CASE n \in exist
  BY <1>2 DEF SetNumber, TypeOK
<1>3. CASE n \notin exist
  BY <1>1, <1>3 DEF SetNumber, TypeOK
<1>. QED  BY <1>2, <1>3

LEMMA TypeStep == TypeOK /\ [Next]_vars => TypeOK'
<1> SUFFICES ASSUME TypeOK, [Next]_vars PROVE TypeOK'
  OBVIOUS
<1> USE DEF source, graph, walk
<1>1. ASSUME NEW m \in Member, Declare(m) PROVE TypeOK'
  BY <1>1 DEF Declare, TypeOK
<1>2. ASSUME NEW m \in Member, Drop(m) PROVE TypeOK'
  BY <1>2 DEF Drop, TypeOK, Mark, Unmarked, NoNumber
<1>3. ASSUME NEW m \in Member, Annotate(m) PROVE TypeOK'
  BY <1>3 DEF Annotate, TypeOK
<1>4. ASSUME NEW s \in Schema, AnnotateSchema(s) PROVE TypeOK'
  BY <1>4 DEF AnnotateSchema, TypeOK
<1>5. CASE LoadGraph
  BY <1>5 DEF LoadGraph, TypeOK, Mark, Unmarked, NoNumber
<1>6. CASE FixAgain
  BY <1>6 DEF FixAgain, TypeOK
<1>7. ASSUME NEW s \in Schema, FixNode(s) PROVE TypeOK'
  BY <1>7 DEF FixNode, TypeOK, MsgMark
<1>8. ASSUME NEW s \in Schema, ExtractExistFieldID(s) PROVE TypeOK'
  BY <1>8 DEF ExtractExistFieldID, ExistFieldIDs, Numbers, InSchema, OfKind, TypeOK, Mark
<1>9. ASSUME NEW m \in Member, AddAnnotationForID(m) PROVE TypeOK'
  <2>1. CASE Settled(m)
    BY <1>9, <2>1 DEF AddAnnotationForID, Leave, TypeOK
  <2>2. CASE ~Settled(m)
    <3>1. SetNumber(m, IDFieldNumber) /\ IDFieldNumber \in Int
      BY <1>9, <2>2 DEF AddAnnotationForID, IDFieldNumber
    <3>. QED  BY <1>9, <3>1, SetNumberTyped DEF AddAnnotationForID, TypeOK
  <2>. QED  BY <2>1, <2>2
<1>10. ASSUME NEW m \in Member, AddAnnotation(m) PROVE TypeOK'
  <2>1. CASE Settled(m)
    BY <1>10, <2>1 DEF AddAnnotation, Leave, TypeOK
  <2>2. CASE ~Settled(m)
    <3>1. SetNumber(m, StableFieldNumber(m)) /\ StableFieldNumber(m) \in Int
      BY <1>10, <2>2, StableFieldNumberRange, MaxFieldNumberLarge DEF AddAnnotation
    <3>. QED  BY <1>10, <3>1, SetNumberTyped DEF AddAnnotation, TypeOK
  <2>. QED  BY <2>1, <2>2
<1>11. ASSUME NEW s \in Schema, NextLoop(s, "id", "field") \/ NextLoop(s, "field", "edge")
       PROVE TypeOK'
  BY <1>11 DEF NextLoop, InSchema, OfKind, TypeOK
<1>12. CASE NodeDone
  BY <1>12 DEF NodeDone, TypeOK
<1>13. CASE Succeed
  BY <1>13 DEF Succeed, TypeOK, Mark
<1>14. CASE Exit
  BY <1>14 DEF Exit, TypeOK, Mark, MsgMark, Unmarked, NoNumber
<1>15. CASE UNCHANGED vars
  BY <1>15 DEF vars, TypeOK
<1>. QED
  BY <1>1, <1>2, <1>3, <1>4, <1>5, <1>6, <1>7, <1>8, <1>9, <1>10, <1>11, <1>12,
     <1>13, <1>14, <1>15 DEF Next, Edit, FixGraph

\* Every variable of the walk stays in its range.
THEOREM TypeCorrect == Spec => []TypeOK
<1>1. Init => TypeOK
  BY DEF Init, TypeOK, Mark, MsgMark, Unmarked, NoNumber, OfKind
<1>. QED  BY <1>1, TypeStep, PTL DEF Spec

-----------------------------------------------------------------------------

\* While the graph and the schemas stay as they are, so does everything said
\* of the numbers filled in.
LEMMA GraphKept ==
  ASSUME IInv, UNCHANGED <<present, mark, ann, book>>
  PROVE  FilledOwn' /\ BookOwn' /\ NoNumberTwice'
<1>1. \A m \in Member : Filled(m)' = Filled(m) /\ OwnNumber(m)' = OwnNumber(m)
  BY DEF Filled, OwnNumber, StableFieldNumber
<1>. QED  BY <1>1 DEF IInv, TypeOK, FilledOwn, BookOwn, NoNumberTwice

\* On a blank graph nothing is filled in.
LEMMA BlankGraph ==
  ASSUME IInv, TypeOK', UNCHANGED book, \A m \in Member : ann'[m] = Unmarked
  PROVE  FilledOwn' /\ BookOwn' /\ BlankWhenIdle' /\ NoNumberTwice'
<1>1. \A m \in Member : ~(Filled(m)') /\ OwnNumber(m)' = OwnNumber(m)
  BY DEF Filled, Unmarked, OwnNumber, StableFieldNumber
<1>2. present' \subseteq Member
  BY DEF TypeOK
<1>3. FilledOwn' /\ NoNumberTwice'
  BY <1>1, <1>2 DEF FilledOwn, NoNumberTwice
<1>4. BookOwn'
  BY <1>1 DEF IInv, BookOwn
<1>5. BlankWhenIdle'
  BY DEF BlankWhenIdle
<1>. QED  BY <1>3, <1>4, <1>5

\* The step that fills in a number: it is new to the message, because exist
\* holds every number the message has.
LEMMA NumberStep ==
  ASSUME IInv, TypeOK', NEW m \in pending, pc \in {"id", "field", "edge"},
         ~Settled(m), SetNumber(m, OwnNumber(m)), UNCHANGED <<source, gmsg, todo, book>>
  PROVE  IInv'
<1>. DEFINE n == OwnNumber(m)
<1>1. PICK s \in Schema : cur = {s} /\ exist = ExistFieldIDs(s)
  BY DEF IInv, ExistIsExact
<1>2. m \in Member /\ m \in present /\ SchemaOf[m] = s /\ KindOf[m] = pc
  BY <1>1 DEF IInv, TypeOK, PendingOfNode
<1>3. UNCHANGED <<present, mark, msg>> /\ \A k \in Member : OwnNumber(k)' = OwnNumber(k)
  BY DEF source, OwnNumber, StableFieldNumber
<1>4. CASE n \in exist
  <2>1. UNCHANGED <<present, mark, ann, book>> /\ pc' = "err" /\ pending' = {}
    BY <1>3, <1>4 DEF SetNumber
  <2>2. ExistIsExact' /\ PendingOfNode' /\ BlankWhenIdle'
    BY <2>1 DEF ExistIsExact, PendingOfNode, BlankWhenIdle
  <2>. QED  BY <2>1, <2>2, GraphKept DEF IInv
<1>5. CASE n \notin exist
  <2>1. /\ ann' = [ann EXCEPT ![m] = Numbered(n)]
        /\ exist' = exist \cup {n}
        /\ pending' = pending \ {m}
        /\ UNCHANGED <<pc, cur>>
    BY <1>5 DEF SetNumber
  <2>2. /\ ann'[m].field = "ok" /\ ann'[m].num = n
        /\ \A k \in Member \ {m} : ann'[k] = ann[k]
    BY <1>2, <2>1 DEF IInv, TypeOK, Numbered
  <2>3. ann[m].field = "none"
    BY DEF Settled, Annotated
  <2>4. ExistIsExact'
    <3>1. InSchema(s)' = InSchema(s) /\ m \in InSchema(s) /\ InSchema(s) \subseteq Member
      BY <1>2, <1>3 DEF InSchema, IInv, TypeOK
    <3>2. {k \in InSchema(s) : ann'[k].field = "ok"}
            = {k \in InSchema(s) : ann[k].field = "ok"} \cup {m}
      BY <2>2, <3>1
    <3>3. ExistFieldIDs(s)' = ExistFieldIDs(s) \cup {n}
      BY <2>2, <2>3, <3>1, <3>2 DEF ExistFieldIDs, Numbers
    <3>. QED  BY <1>1, <2>1, <3>3 DEF ExistIsExact
  <2>5. PendingOfNode' /\ BlankWhenIdle'
    BY <1>3, <2>1 DEF IInv, PendingOfNode, BlankWhenIdle
  <2>6. BookOwn'
    BY <1>3 DEF IInv, BookOwn
  <2>7. \A k \in present \ {m} : k \in Member /\ ann'[k] = ann[k] /\ (Filled(k)' <=> Filled(k))
    BY <1>3, <2>2 DEF Filled, IInv, TypeOK
  <2>8. FilledOwn'
    BY <1>2, <1>3, <2>2, <2>7 DEF IInv, FilledOwn
  <2>9. \A k \in present \ {m} : SchemaOf[k] = s /\ ann[k].field = "ok" => ann[k].num # n
    BY <1>1, <1>5 DEF ExistFieldIDs, Numbers, InSchema
  <2>10. NoNumberTwice'
    BY <1>2, <1>3, <2>2, <2>7, <2>9 DEF IInv, NoNumberTwice, Filled
  <2>. QED  BY <2>4, <2>5, <2>6, <2>8, <2>10 DEF IInv
<1>. QED  BY <1>4, <1>5

LEMMA InvStep == IInv /\ [Next]_vars => IInv'
<1> SUFFICES ASSUME IInv, [Next]_vars PROVE IInv'
  OBVIOUS
<1>0. TypeOK /\ TypeOK'
  BY TypeStep DEF IInv
<1> USE DEF source, graph, walk
<1>1. CASE Edit
  <2>1. /\ pc = "idle" /\ UNCHANGED <<ann, walk, pc, book>>
    BY <1>1 DEF Edit, Declare, Drop, Annotate, AnnotateSchema
  <2>2. \A m \in Member : ann'[m] = Unmarked
    BY <2>1 DEF IInv, BlankWhenIdle
  <2>3. pending = {}
    BY <1>0, <2>1 DEF IInv, PendingOfNode, TypeOK
  <2>4. ExistIsExact' /\ PendingOfNode'
    BY <2>1, <2>3 DEF ExistIsExact, PendingOfNode
  <2>. QED  BY <1>0, <2>1, <2>2, <2>4, BlankGraph DEF IInv
<1>2. CASE LoadGraph
  <2>1. /\ pc' = "nodes" /\ pending = {} /\ UNCHANGED <<source, cur, pending, exist, book>>
        /\ ann' = [m \in Member |-> IF m \in present THEN mark[m] ELSE Unmarked]
    BY <1>0, <1>2 DEF LoadGraph, IInv, PendingOfNode, TypeOK
  <2>2. ExistIsExact' /\ PendingOfNode' /\ BlankWhenIdle'
    BY <2>1 DEF ExistIsExact, PendingOfNode, BlankWhenIdle
  <2>3. \A m \in Member : ~(Filled(m)') /\ OwnNumber(m)' = OwnNumber(m)
    BY <2>1 DEF Filled, OwnNumber, StableFieldNumber
  <2>4. FilledOwn' /\ NoNumberTwice'
    BY <1>0, <2>3 DEF FilledOwn, NoNumberTwice, TypeOK
  <2>5. BookOwn'
    BY <2>1, <2>3 DEF IInv, BookOwn
  <2>. QED  BY <1>0, <2>2, <2>4, <2>5 DEF IInv
<1>3. CASE FixAgain
  <2>1. /\ pc' = "nodes" /\ pending = {} /\ UNCHANGED <<present, mark, ann, pending, book>>
    BY <1>0, <1>3 DEF FixAgain, IInv, PendingOfNode, TypeOK
  <2>2. ExistIsExact' /\ PendingOfNode' /\ BlankWhenIdle'
    BY <2>1 DEF ExistIsExact, PendingOfNode, BlankWhenIdle
  <2>. QED  BY <1>0, <2>1, <2>2, GraphKept DEF IInv
<1>4. ASSUME NEW s \in Schema, FixNode(s) PROVE IInv'
  <2>1. /\ pc = "nodes" /\ pc' \in {"err", "nodes", "scan"} /\ pending = {}
        /\ UNCHANGED <<present, mark, ann, pending, book>>
    BY <1>0, <1>4 DEF FixNode, IInv, PendingOfNode, TypeOK
  <2>2. ExistIsExact' /\ PendingOfNode' /\ BlankWhenIdle'
    BY <2>1 DEF ExistIsExact, PendingOfNode, BlankWhenIdle
  <2>. QED  BY <1>0, <2>1, <2>2, GraphKept DEF IInv
<1>5. ASSUME NEW s \in Schema, ExtractExistFieldID(s) PROVE IInv'
  <2>1. /\ pc = "scan" /\ cur = {s} /\ pending = {} /\ UNCHANGED <<present, mark, ann, book>>
    BY <1>0, <1>5 DEF ExtractExistFieldID, IInv, PendingOfNode, TypeOK
  <2>2. ExistFieldIDs(s)' = ExistFieldIDs(s) /\ InSchema(s)' = InSchema(s)
    BY <2>1 DEF ExistFieldIDs, Numbers, InSchema
  <2>3. ExistIsExact'
    BY <1>5, <2>1, <2>2 DEF ExtractExistFieldID, ExistIsExact
  <2>4. PendingOfNode' /\ BlankWhenIdle'
    BY <1>5, <2>1 DEF ExtractExistFieldID, InSchema, OfKind, PendingOfNode, BlankWhenIdle
  <2>. QED  BY <1>0, <2>1, <2>3, <2>4, GraphKept DEF IInv
<1>6. ASSUME NEW m \in Member, AddAnnotationForID(m) \/ AddAnnotation(m) PROVE IInv'
  <2>1. /\ m \in pending /\ pc \in {"id", "field", "edge"} /\ KindOf[m] = pc
        /\ UNCHANGED <<source, gmsg, todo, book>>
    BY <1>6 DEF AddAnnotationForID, AddAnnotation, IInv, PendingOfNode
  <2>2. CASE Settled(m)
    <3>1. pending' = pending \ {m} /\ UNCHANGED <<present, mark, ann, exist, pc, cur, book>>
      BY <1>6, <2>1, <2>2 DEF AddAnnotationForID, AddAnnotation, Leave
    <3>2. ExistIsExact' /\ PendingOfNode' /\ BlankWhenIdle'
      BY <3>1 DEF IInv, ExistIsExact, ExistFieldIDs, Numbers, InSchema, PendingOfNode,
                  BlankWhenIdle
    <3>. QED  BY <1>0, <3>1, <3>2, GraphKept DEF IInv
  <2>3. CASE ~Settled(m)
    <3>1. SetNumber(m, OwnNumber(m))
      BY <1>6, <2>1, <2>3 DEF AddAnnotationForID, AddAnnotation, OwnNumber
    <3>. QED  BY <1>0, <2>1, <2>3, <3>1, NumberStep
  <2>. QED  BY <2>2, <2>3
<1>7. ASSUME NEW s \in Schema, NextLoop(s, "id", "field") \/ NextLoop(s, "field", "edge")
      PROVE  IInv'
  <2>1. /\ pc \in {"id", "field"} /\ pc' \in {"field", "edge"} /\ s \in cur
        /\ pending' = InSchema(s) \cap OfKind(pc')
        /\ UNCHANGED <<present, mark, ann, cur, exist, book>>
    BY <1>7 DEF NextLoop
  <2>2. ExistIsExact'
    BY <2>1 DEF IInv, ExistIsExact, ExistFieldIDs, Numbers, InSchema
  <2>3. PendingOfNode' /\ BlankWhenIdle'
    BY <2>1 DEF InSchema, OfKind, PendingOfNode, BlankWhenIdle
  <2>. QED  BY <1>0, <2>1, <2>2, <2>3, GraphKept DEF IInv
<1>8. CASE NodeDone
  <2>1. /\ pc' = "nodes" /\ pending' = {} /\ UNCHANGED <<present, mark, ann, book>>
    BY <1>8 DEF NodeDone
  <2>2. ExistIsExact' /\ PendingOfNode' /\ BlankWhenIdle'
    BY <2>1 DEF ExistIsExact, PendingOfNode, BlankWhenIdle
  <2>. QED  BY <1>0, <2>1, <2>2, GraphKept DEF IInv
<1>9. CASE Succeed
  <2>1. /\ pc' = "ok" /\ pending = {} /\ UNCHANGED <<present, mark, ann, pending>>
        /\ book' = [m \in Member |-> IF Filled(m) THEN ann[m].num ELSE book[m]]
    BY <1>0, <1>9 DEF Succeed, IInv, PendingOfNode, TypeOK
  <2>2. ExistIsExact' /\ PendingOfNode' /\ BlankWhenIdle'
    BY <2>1 DEF ExistIsExact, PendingOfNode, BlankWhenIdle
  <2>3. \A m \in Member : /\ Filled(m)' <=> Filled(m)
                         /\ OwnNumber(m)' = OwnNumber(m)
    BY <2>1 DEF Filled, OwnNumber, StableFieldNumber
  <2>4. FilledOwn' /\ NoNumberTwice'
    BY <1>0, <2>1, <2>3 DEF IInv, TypeOK, FilledOwn, NoNumberTwice
  <2>5. BookOwn'
    BY <2>1, <2>3 DEF IInv, BookOwn, FilledOwn, Filled
  <2>. QED  BY <1>0, <2>2, <2>4, <2>5 DEF IInv
<1>10. CASE Exit
  <2>1. /\ pc' = "idle" /\ pending = {} /\ UNCHANGED <<pending, book>>
        /\ \A m \in Member : ann'[m] = Unmarked
    BY <1>0, <1>10 DEF Exit, IInv, PendingOfNode, TypeOK
  <2>2. ExistIsExact' /\ PendingOfNode'
    BY <2>1 DEF ExistIsExact, PendingOfNode
  <2>. QED  BY <1>0, <2>1, <2>2, BlankGraph DEF IInv
<1>11. CASE UNCHANGED vars
  <2>1. UNCHANGED <<present, mark, ann, exist, pending, cur, pc, book>>
    BY <1>11 DEF vars
  <2>2. ExistIsExact' /\ PendingOfNode' /\ BlankWhenIdle'
    BY <2>1 DEF IInv, ExistIsExact, ExistFieldIDs, Numbers, InSchema, PendingOfNode,
                BlankWhenIdle
  <2>. QED  BY <1>0, <2>1, <2>2, GraphKept DEF IInv
<1>. QED
  BY <1>1, <1>2, <1>3, <1>4, <1>5, <1>6, <1>7, <1>8, <1>9, <1>10, <1>11
  DEF Next, FixGraph

LEMMA InvInit == Init => IInv
<1> SUFFICES ASSUME Init PROVE IInv
  OBVIOUS
<1>1. TypeOK
  BY DEF Init, TypeOK, Mark, MsgMark, Unmarked, NoNumber, OfKind
<1>. QED
  BY <1>1 DEF Init, IInv, ExistIsExact, PendingOfNode, FilledOwn, Filled, BlankWhenIdle,
              BookOwn, NoNumberTwice, Unmarked

\* The inductive invariant holds in every run.
THEOREM InvHolds == Spec => []IInv
BY InvInit, InvStep, PTL DEF Spec

\* No number that FixGraph fills in is any other number of its message.
THEOREM NumbersDistinct == Spec => []NoNumberTwice
BY InvHolds, PTL DEF IInv

\* Every number that FixGraph fills in is one protobuf accepts, and 1 is only
\* ever given to the ID.
THEOREM NumbersLegal == Spec => []FilledNumbersLegal
<1>1. IInv => FilledNumbersLegal
  BY StableFieldNumberRange DEF IInv, TypeOK, FilledOwn, FilledNumbersLegal, OwnNumber
<1>. QED  BY <1>1, InvHolds, PTL

\* A member keeps its published number for good.
THEOREM NumbersStable == Spec => NumbersNeverMove
<1>1. IInv /\ [Next]_vars =>
        [\A m \in Member : book[m] # NoNumber => book'[m] = book[m]]_book
  <2> SUFFICES ASSUME IInv, [Next]_vars,
                      NEW m \in Member, book[m] # NoNumber, book' # book
               PROVE  book'[m] = book[m]
    OBVIOUS
  <2>1. Succeed
    BY DEF Next, Edit, FixGraph, Declare, Drop, Annotate, AnnotateSchema, LoadGraph, FixAgain,
           FixNode, ExtractExistFieldID, NextLoop, AddAnnotationForID, AddAnnotation, NodeDone,
           Exit, vars
  <2>2. book'[m] = IF Filled(m) THEN ann[m].num ELSE book[m]
    BY <2>1 DEF Succeed
  <2>3. book[m] = OwnNumber(m)
    BY DEF IInv, BookOwn
  <2>4. ASSUME Filled(m) PROVE ann[m].num = OwnNumber(m)
    <3>1. m \in present
      BY <2>4 DEF Filled
    <3>. QED  BY <2>4, <3>1 DEF IInv, FilledOwn
  <2>. QED  BY <2>2, <2>3, <2>4
<1>. QED  BY <1>1, InvHolds, PTL DEF Spec, NumbersNeverMove

-----------------------------------------------------------------------------
(* The verdict of a walk is determined by the schemas.                       *)

\* What the author left and what a number is do not depend on the walk.
LEMMA AnnKept ==
  ASSUME AnnFromMark, UNCHANGED <<source, ann>>, pc # "idle"
  PROVE  AnnFromMark'
<1>1. \A m \in present : OwnNumber(m)' = OwnNumber(m)
  BY DEF OwnNumber, StableFieldNumber
<1>. QED  BY <1>1 DEF AnnFromMark, source, Wants

\* A taken number means that two members of the message lay claim to it.
LEMMA CollisionIsReal ==
  ASSUME IInv, AnnFromMark, CurrentNode, NEW m \in pending, ~Settled(m),
         pc \in {"id", "field", "edge"}, OwnNumber(m) \in exist
  PROVE  Rejected(SchemaOf[m])
<1>1. PICK s \in Schema : cur = {s} /\ exist = ExistFieldIDs(s)
  BY DEF IInv, ExistIsExact
<1>2. m \in InSchema(s) /\ m \in present /\ SchemaOf[m] = s /\ Generated(s)
  BY <1>1 DEF IInv, PendingOfNode, InSchema, CurrentNode
<1>3. PICK k \in InSchema(s) : ann[k].field = "ok" /\ ann[k].num = OwnNumber(m)
  BY <1>1 DEF ExistFieldIDs, Numbers
<1>4. k # m /\ k \in present
  BY <1>3 DEF Settled, Annotated, InSchema
<1>5. Wants(m)
  BY <1>2 DEF AnnFromMark, Wants, Settled, Annotated, Numbered
<1>6. \/ mark[k].field = "ok" /\ mark[k].num = OwnNumber(m)
      \/ Wants(k) /\ OwnNumber(k) = OwnNumber(m)
  <2>1. CASE ann[k] = mark[k]
    BY <1>3, <2>1
  <2>2. CASE Wants(k) /\ ann[k] = Numbered(OwnNumber(k))
    BY <1>3, <2>2 DEF Numbered
  <2>. QED  BY <1>4, <2>1, <2>2 DEF AnnFromMark
<1>. QED  BY <1>2, <1>4, <1>5, <1>6 DEF Rejected, Collides

\* A node whose members are all settled has no collision: each of them carries
\* its number, and no two numbers are equal.
LEMMA NoCollision ==
  ASSUME IInv, AnnFromMark, pc # "idle", NEW s \in Schema,
         \A m \in InSchema(s) : ann[m].field # "bad" /\ Settled(m)
  PROVE  ~Collides(s) /\ \A m \in InSchema(s) : mark[m].field # "bad"
<1>1. \A m \in InSchema(s) : m \in present /\ m \in Member /\ SchemaOf[m] = s
  BY DEF InSchema, IInv, TypeOK
<1>2. \A m \in InSchema(s) : mark[m].field # "bad"
  BY <1>1 DEF AnnFromMark, Wants
<1>3. \A m \in InSchema(s) : Wants(m) =>
        Filled(m) /\ ann[m].field = "ok" /\ ann[m].num = OwnNumber(m)
  <2> SUFFICES ASSUME NEW m \in InSchema(s), Wants(m)
               PROVE  Filled(m) /\ ann[m].field = "ok" /\ ann[m].num = OwnNumber(m)
    OBVIOUS
  <2>1. ann[m] # mark[m]
    BY DEF Wants, Settled, Annotated
  <2>2. ann[m] = Numbered(OwnNumber(m))
    BY <1>1, <2>1 DEF AnnFromMark
  <2>. QED  BY <1>1, <2>2 DEF Numbered, Filled, Wants
<1>4. \A k \in InSchema(s) : mark[k].field = "ok" => ann[k] = mark[k]
  BY <1>1 DEF AnnFromMark, Wants
<1>5. ASSUME NEW m \in InSchema(s), NEW k \in InSchema(s) \ {m}, Wants(m),
             \/ mark[k].field = "ok" /\ mark[k].num = OwnNumber(m)
             \/ Wants(k) /\ OwnNumber(k) = OwnNumber(m)
      PROVE  FALSE
  <2>1. ann[k].field = "ok" /\ ann[k].num = OwnNumber(m)
    BY <1>3, <1>4, <1>5
  <2>2. Filled(m) /\ ann[m].num = OwnNumber(m)
    BY <1>3, <1>5
  <2>. QED  BY <1>1, <1>5, <2>1, <2>2 DEF IInv, NoNumberTwice
<1>. QED  BY <1>2, <1>5 DEF Collides

\* What a step that moves only the walk keeps.
LEMMA WalkOnly ==
  ASSUME VInv, UNCHANGED <<source, graph>>, pc # "idle", pc' # "idle"
  PROVE  /\ AnnFromMark' /\ MsgFromMsg'
         /\ \A s \in Schema : /\ Rejected(s)' <=> Rejected(s)
                              /\ Generated(s)' <=> Generated(s)
                              /\ InSchema(s)' = InSchema(s)
         /\ \A m \in present : Settled(m)' <=> Settled(m)
         /\ pc \notin {"idle", "err"} /\ todo' = todo /\ cur' = cur => NodesBehind'
<1> USE DEF source, graph
<1>1. AnnFromMark' /\ MsgFromMsg'
  BY AnnKept DEF VInv, MsgFromMsg
<1>2. \A s \in Schema : /\ Rejected(s)' <=> Rejected(s)
                        /\ Generated(s)' <=> Generated(s)
                        /\ InSchema(s)' = InSchema(s)
  BY DEF Generated, Rejected, Collides, InSchema, Wants, OwnNumber, StableFieldNumber
<1>3. \A m \in present : Settled(m)' <=> Settled(m)
  BY DEF Settled, Annotated
<1>4. pc \notin {"idle", "err"} /\ todo' = todo /\ cur' = cur => NodesBehind'
  BY <1>2, <1>3 DEF VInv, NodesBehind, InSchema
<1>. QED  BY <1>1, <1>2, <1>3, <1>4

LEMMA VInvStep == VInv /\ [Next]_vars => VInv'
<1> SUFFICES ASSUME VInv, [Next]_vars PROVE VInv'
  OBVIOUS
<1>0. IInv /\ IInv' /\ TypeOK /\ TypeOK'
  BY InvStep DEF VInv, IInv
<1> USE DEF source, graph, walk
<1>1. CASE Edit
  <2>1. pc = "idle" /\ pc' = "idle" /\ cur = {} /\ cur' = {}
    BY <1>1 DEF Edit, Declare, Drop, Annotate, AnnotateSchema, VInv, CurrentNode
  <2>. QED  BY <1>0, <2>1 DEF VInv, AnnFromMark, MsgFromMsg, CurrentNode, NodesBehind,
                              VerdictFitsSchemas
<1>2. CASE LoadGraph
  <2>1. /\ pc = "idle" /\ pc' = "nodes" /\ cur = {} /\ cur' = {} /\ todo' = Schema
        /\ gmsg' = msg' /\ UNCHANGED present
        /\ \A m \in present : m \in Member /\ ann'[m] = mark'[m]
    BY <1>0, <1>2 DEF LoadGraph, VInv, CurrentNode, TypeOK
  <2>. QED  BY <1>0, <2>1 DEF VInv, AnnFromMark, MsgFromMsg, CurrentNode, NodesBehind,
                              VerdictFitsSchemas
<1>3. CASE FixAgain
  <2>1. /\ pc \in {"ok", "err"} /\ pc' = "nodes" /\ cur = {} /\ cur' = {} /\ todo' = Schema
        /\ UNCHANGED <<source, ann, gmsg>>
    BY <1>3 DEF FixAgain, VInv, CurrentNode
  <2>2. AnnFromMark' /\ MsgFromMsg'
    BY <2>1 DEF VInv, AnnFromMark, MsgFromMsg, Wants, OwnNumber, StableFieldNumber
  <2>. QED  BY <1>0, <2>1, <2>2 DEF VInv, CurrentNode, NodesBehind, VerdictFitsSchemas
<1>4. ASSUME NEW s \in Schema, FixNode(s) PROVE VInv'
  <2>1. /\ pc = "nodes" /\ s \in todo /\ cur = {} /\ todo' = todo \ {s}
        /\ UNCHANGED <<source, ann>> /\ pc' # "idle"
        /\ gmsg' = gmsg \/ (gmsg[s] = "none" /\ gmsg' = [gmsg EXCEPT ![s] = "on"])
    BY <1>4 DEF FixNode, VInv, CurrentNode
  <2>a. AnnFromMark'
    BY <2>1, AnnKept DEF VInv
  <2>b. MsgFromMsg'
    BY <1>0, <2>1 DEF VInv, MsgFromMsg, TypeOK
  <2>2. \A t \in Schema : /\ Generated(t)' <=> Generated(t)
                          /\ Rejected(t)' <=> Rejected(t)
                          /\ InSchema(t)' = InSchema(t)
    BY <2>1 DEF Generated, Rejected, Collides, InSchema, Wants, OwnNumber, StableFieldNumber
  <2>3. \A m \in Member : Settled(m)' <=> Settled(m)
    BY <2>1 DEF Settled, Annotated
  <2>4. CASE gmsg[s] = "bad"
    <3>1. pc' = "err" /\ cur' = {}
      BY <1>4, <2>1, <2>4 DEF FixNode
    <3>2. Rejected(s)
      BY <2>1, <2>4 DEF VInv, MsgFromMsg, Rejected
    <3>. QED  BY <1>0, <2>a, <2>b, <2>1, <2>2, <3>1, <3>2 DEF VInv, CurrentNode, NodesBehind,
                                                 VerdictFitsSchemas
  <2>5. CASE gmsg[s] = "off"
    <3>1. pc' = "nodes" /\ cur' = {}
      BY <1>4, <2>1, <2>5 DEF FixNode
    <3>2. msg[s] = "off" /\ ~Generated(s)
      BY <2>1, <2>5 DEF VInv, MsgFromMsg, Generated
    <3>3. NodesBehind'
      BY <1>0, <2>1, <2>2, <2>3, <3>1, <3>2 DEF VInv, NodesBehind, InSchema, TypeOK
    <3>. QED  BY <1>0, <2>a, <2>b, <2>1, <3>1, <3>3 DEF VInv, CurrentNode, VerdictFitsSchemas
  <2>6. CASE gmsg[s] \notin {"bad", "off"}
    <3>1. pc' = "scan" /\ cur' = {s}
      BY <1>4, <2>6 DEF FixNode
    <3>2. Generated(s)
      BY <1>0, <2>1, <2>6 DEF VInv, MsgFromMsg, Generated, TypeOK, MsgMark
    <3>3. NodesBehind'
      BY <1>0, <2>1, <2>2, <2>3, <3>1 DEF VInv, NodesBehind, InSchema, TypeOK
    <3>. QED  BY <1>0, <2>a, <2>b, <2>1, <2>2, <3>1, <3>2, <3>3 DEF VInv, CurrentNode,
                                                       VerdictFitsSchemas
  <2>. QED  BY <2>4, <2>5, <2>6
<1>5. ASSUME NEW s \in Schema, ExtractExistFieldID(s) PROVE VInv'
  <2>1. /\ pc = "scan" /\ cur = {s} /\ UNCHANGED <<source, graph, todo>>
        /\ Generated(s)
    BY <1>0, <1>5 DEF ExtractExistFieldID, TypeOK, VInv, CurrentNode
  <2>2. CASE \E m \in InSchema(s) : ann[m].field = "bad"
    <3>1. pc' = "err" /\ cur' = {}
      BY <1>5, <2>2 DEF ExtractExistFieldID
    <3>2. PICK m \in InSchema(s) : ann[m].field = "bad"
      BY <2>2
    <3>3. m \in present /\ mark[m].field = "bad"
      <4>1. m \in present
        BY DEF InSchema
      <4>2. ann[m] # Numbered(OwnNumber(m))
        BY <3>2 DEF Numbered
      <4>. QED  BY <2>1, <3>2, <4>1, <4>2 DEF VInv, AnnFromMark
    <3>4. Rejected(s)
      BY <2>1, <3>2, <3>3 DEF Rejected
    <3>. QED  BY <1>0, <2>1, <3>1, <3>4, WalkOnly DEF VInv, CurrentNode, NodesBehind,
                                                    VerdictFitsSchemas
  <2>3. CASE ~\E m \in InSchema(s) : ann[m].field = "bad"
    <3>1. pc' = "id" /\ cur' = cur /\ pending' = InSchema(s) \cap OfKind("id")
      BY <1>5, <2>3 DEF ExtractExistFieldID
    <3>2. \A m \in InSchema(s) : m \in Member
      BY <1>0 DEF InSchema, TypeOK
    <3>3. CurrentNode'
      BY <2>1, <2>3, <3>1, <3>2 DEF CurrentNode, Before, OfKind, Generated, InSchema
    <3>. QED  BY <1>0, <2>1, <3>1, <3>3, WalkOnly DEF VInv, VerdictFitsSchemas
  <2>. QED  BY <2>2, <2>3
<1>6. ASSUME NEW m \in Member, m \in pending,
             OwnNumber(m) = IF pc = "id" THEN IDFieldNumber ELSE StableFieldNumber(m),
             pc \in {"id", "field", "edge"}, UNCHANGED <<source, gmsg, todo, book>>,
             IF Settled(m) THEN Leave(m) ELSE SetNumber(m, OwnNumber(m))
      PROVE  VInv'
  <2>1. PICK s \in Schema : cur = {s} /\ exist = ExistFieldIDs(s)
    BY <1>0, <1>6 DEF IInv, ExistIsExact
  <2>2. m \in present /\ m \in InSchema(s) /\ SchemaOf[m] = s /\ Generated(s)
    BY <1>0, <1>6, <2>1 DEF IInv, PendingOfNode, InSchema, VInv, CurrentNode
  <2>3. CASE Settled(m)
    <3>1. UNCHANGED <<ann, pc, cur>> /\ pending' = pending \ {m}
      BY <1>6, <2>3 DEF Leave
    <3>2. CurrentNode'
      BY <1>6, <2>3, <3>1 DEF VInv, CurrentNode, Before, Generated, InSchema, Settled, Annotated
    <3>. QED  BY <1>0, <1>6, <3>1, <3>2, WalkOnly DEF VInv, VerdictFitsSchemas
  <2>4. CASE ~Settled(m) /\ OwnNumber(m) \in exist
    <3>1. UNCHANGED ann /\ pc' = "err" /\ cur' = {}
      BY <1>6, <2>4 DEF SetNumber
    <3>2. Rejected(s)
      BY <1>0, <1>6, <2>2, <2>4, CollisionIsReal DEF VInv
    <3>. QED  BY <1>0, <1>6, <3>1, <3>2, WalkOnly DEF VInv, CurrentNode, NodesBehind,
                                                    VerdictFitsSchemas
  <2>5. CASE ~Settled(m) /\ OwnNumber(m) \notin exist
    <3>1. /\ ann' = [ann EXCEPT ![m] = Numbered(OwnNumber(m))]
          /\ pending' = pending \ {m} /\ UNCHANGED <<pc, cur>>
      BY <1>6, <2>5 DEF SetNumber
    <3>2. /\ ann'[m] = Numbered(OwnNumber(m)) /\ ann'[m].field = "ok"
          /\ \A k \in Member \ {m} : ann'[k] = ann[k]
      BY <1>0, <3>1 DEF TypeOK, Numbered
    <3>3. Wants(m)
      BY <1>6, <2>2, <2>5 DEF VInv, AnnFromMark, Wants, Settled, Annotated, Numbered
    <3>4. \A k \in present : k \in Member /\ OwnNumber(k)' = OwnNumber(k) /\ Wants(k)' = Wants(k)
      BY <1>0, <1>6 DEF TypeOK, OwnNumber, StableFieldNumber, Wants
    <3>5. AnnFromMark'
      BY <1>6, <3>1, <3>2, <3>3, <3>4 DEF VInv, AnnFromMark
    <3>6. \A k \in present : Settled(k) => Settled(k)'
      BY <3>2, <3>4 DEF Settled, Annotated
    <3>7. \A k \in present : ann[k].field # "bad" => ann'[k].field # "bad"
      BY <3>2, <3>4
    <3>8. Settled(m)'
      BY <3>2 DEF Settled, Annotated
    <3>9. \A t \in Schema : /\ InSchema(t)' = InSchema(t) /\ InSchema(t) \subseteq present
                            /\ Generated(t)' <=> Generated(t)
      BY <1>6 DEF InSchema, Generated
    <3>10. CurrentNode'
      BY <1>6, <2>1, <3>1, <3>6, <3>7, <3>8, <3>9 DEF VInv, CurrentNode, Before
    <3>11. NodesBehind'
      BY <1>6, <3>1, <3>6, <3>7, <3>9 DEF VInv, NodesBehind
    <3>12. MsgFromMsg'
      BY <1>6, <3>1 DEF VInv, MsgFromMsg
    <3>. QED  BY <1>0, <1>6, <3>1, <3>5, <3>10, <3>11, <3>12 DEF VInv, VerdictFitsSchemas
  <2>. QED  BY <2>3, <2>4, <2>5
<1>7. ASSUME NEW m \in Member, AddAnnotationForID(m) \/ AddAnnotation(m) PROVE VInv'
  <2>1. m \in pending /\ pc \in {"id", "field", "edge"} /\ KindOf[m] = pc
    BY <1>0, <1>7 DEF AddAnnotationForID, AddAnnotation, IInv, PendingOfNode
  <2>2. OwnNumber(m) = IF pc = "id" THEN IDFieldNumber ELSE StableFieldNumber(m)
    BY <2>1 DEF OwnNumber
  <2>. QED  BY <1>6, <1>7, <2>1, <2>2 DEF AddAnnotationForID, AddAnnotation
<1>8. ASSUME NEW s \in Schema,
             NextLoop(s, "id", "field") \/ NextLoop(s, "field", "edge") PROVE VInv'
  <2>1. /\ cur = {s} /\ pending = {} /\ UNCHANGED <<source, graph, todo, cur>>
        /\ \/ pc = "id" /\ pc' = "field" /\ pending' = InSchema(s) \cap OfKind("field")
           \/ pc = "field" /\ pc' = "edge" /\ pending' = InSchema(s) \cap OfKind("edge")
    BY <1>0, <1>8 DEF NextLoop, TypeOK
  <2>2. \A m \in InSchema(s) : m \in Member /\ m \in present
    BY <1>0 DEF InSchema, TypeOK
  <2>3. \A m \in InSchema(s) : Settled(m)' <=> Settled(m)
    BY <2>1 DEF Settled, Annotated
  <2>4. InSchema(s)' = InSchema(s) /\ (Generated(s)' <=> Generated(s))
    BY <2>1 DEF InSchema, Generated
  <2>5. CurrentNode'
    <3>1. CASE pc = "id"
      BY <2>1, <2>2, <2>3, <2>4, <3>1 DEF VInv, CurrentNode, Before, OfKind
    <3>2. CASE pc = "field"
      BY <2>1, <2>2, <2>3, <2>4, <3>2 DEF VInv, CurrentNode, Before, OfKind
    <3>. QED  BY <2>1, <3>1, <3>2
  <2>. QED  BY <1>0, <2>1, <2>5, WalkOnly DEF VInv, VerdictFitsSchemas
<1>9. CASE NodeDone
  <2>1. /\ pc = "edge" /\ pc' = "nodes" /\ pending = {} /\ cur' = {}
        /\ UNCHANGED <<source, graph, todo>>
    BY <1>9 DEF NodeDone
  <2>2. ASSUME NEW s \in Schema, s \in cur
        PROVE  Generated(s) /\ \A m \in InSchema(s) : ann[m].field # "bad" /\ Settled(m)
    <3>1. \A m \in InSchema(s) : KindOf[m] \in {"id", "field", "edge"}
      BY <1>0 DEF InSchema, TypeOK
    <3>. QED  BY <2>1, <2>2, <3>1 DEF VInv, CurrentNode, Before
  <2>3. NodesBehind'
    <3>1. \A s \in Schema : Generated(s) => msg[s] # "bad"
      BY DEF Generated
    <3>2. \A s \in Schema \ todo :
            /\ msg[s] # "bad"
            /\ Generated(s) => \A m \in InSchema(s) : ann[m].field # "bad" /\ Settled(m)
      BY <2>1, <2>2, <3>1 DEF VInv, NodesBehind
    <3>. QED  BY <2>1, <3>2, WalkOnly DEF NodesBehind, InSchema
  <2>. QED  BY <1>0, <2>1, <2>3, WalkOnly DEF VInv, CurrentNode, VerdictFitsSchemas
<1>10. CASE Succeed
  <2>1. /\ pc = "nodes" /\ pc' = "ok" /\ todo = {} /\ cur = {}
        /\ UNCHANGED <<source, graph, todo, cur>>
    BY <1>10 DEF Succeed, VInv, CurrentNode, walk
  <2>2. ASSUME NEW s \in Schema
        PROVE  ~Rejected(s) /\ (Generated(s) => \A m \in InSchema(s) : Settled(m))
    BY <1>0, <2>1, NoCollision DEF VInv, NodesBehind, Rejected
  <2>3. \A m \in present : Settled(m)' <=> Settled(m)
    BY <2>1, WalkOnly
  <2>4. VerdictFitsSchemas'
    <3>1. \A s \in Schema : InSchema(s) \subseteq present
      BY DEF InSchema
    <3>. QED  BY <2>1, <2>2, <2>3, <3>1, WalkOnly DEF VerdictFitsSchemas
  <2>. QED  BY <1>0, <2>1, <2>4, WalkOnly DEF VInv, CurrentNode
<1>11. CASE Exit
  <2>1. pc' = "idle" /\ cur' = {}
    BY <1>11 DEF Exit, VInv, CurrentNode
  <2>. QED  BY <1>0, <2>1 DEF VInv, AnnFromMark, MsgFromMsg, CurrentNode, NodesBehind,
                              VerdictFitsSchemas
<1>12. CASE UNCHANGED vars
  <2>1. UNCHANGED <<source, graph, todo, cur, pending, pc>>
    BY <1>12 DEF vars
  <2>2. CASE pc = "idle"
    BY <1>0, <2>1, <2>2 DEF VInv, AnnFromMark, MsgFromMsg, CurrentNode, NodesBehind,
                            VerdictFitsSchemas
  <2>3. CASE pc # "idle"
    <3>1. CurrentNode'
      BY <2>1 DEF VInv, CurrentNode, Before, Generated, InSchema, Settled, Annotated
    <3>2. NodesBehind'
      BY <2>1 DEF VInv, NodesBehind, Generated, InSchema, Settled, Annotated
    <3>3. VerdictFitsSchemas'
      BY <2>1, <2>3, WalkOnly DEF VInv, VerdictFitsSchemas, InSchema
    <3>. QED  BY <1>0, <2>1, <2>3, <3>1, <3>2, <3>3, WalkOnly DEF VInv
  <2>. QED  BY <2>2, <2>3
<1>. QED
  BY <1>1, <1>2, <1>3, <1>4, <1>5, <1>7, <1>8, <1>9, <1>10, <1>11, <1>12
  DEF Next, FixGraph

LEMMA VInvInit == Init => VInv
BY InvInit DEF Init, VInv, AnnFromMark, MsgFromMsg, CurrentNode, NodesBehind,
   VerdictFitsSchemas

\* A schema that FixGraph has come past has a message annotation.
LEMMA MessagesOnStep == TypeOK /\ MessagesOn /\ [Next]_vars => MessagesOn'
<1> SUFFICES ASSUME TypeOK, MessagesOn, [Next]_vars PROVE MessagesOn'
  OBVIOUS
<1>1. CASE UNCHANGED vars
  BY <1>1 DEF vars, graph, walk, MessagesOn
<1>2. CASE Edit
  <2>1. pc = "idle" /\ pc' = "idle"
    BY <1>2 DEF Edit, Declare, Drop, Annotate, AnnotateSchema
  <2>. QED  BY <2>1 DEF MessagesOn
<1>3. CASE LoadGraph \/ FixAgain \/ Exit
  <2>1. pc' = "idle" \/ (pc' = "nodes" /\ todo' = Schema)
    BY <1>3 DEF LoadGraph, FixAgain, Exit
  <2>. QED  BY <2>1 DEF MessagesOn
<1>4. ASSUME NEW s \in Schema, FixNode(s) PROVE MessagesOn'
  <2>1. /\ pc = "nodes" /\ pc' # "ok" /\ todo' = todo \ {s}
        /\ IF gmsg[s] = "none" THEN gmsg' = [gmsg EXCEPT ![s] = "on"] ELSE gmsg' = gmsg
    BY <1>4 DEF FixNode
  <2>2. gmsg'[s] # "none" /\ \A t \in Schema : gmsg[t] # "none" => gmsg'[t] # "none"
    BY <2>1 DEF TypeOK
  <2>. QED  BY <2>1, <2>2 DEF MessagesOn
<1>5. CASE Succeed
  BY <1>5 DEF Succeed, graph, walk, MessagesOn
<1>6. ASSUME NEW s \in Schema,
             ExtractExistFieldID(s) \/ NextLoop(s, "id", "field") \/ NextLoop(s, "field", "edge")
      PROVE  MessagesOn'
  BY <1>6 DEF ExtractExistFieldID, NextLoop, graph, MessagesOn
<1>7. ASSUME NEW m \in Member, AddAnnotationForID(m) \/ AddAnnotation(m) PROVE MessagesOn'
  <2>1. pc \notin {"idle", "ok"} /\ pc' \in {pc, "err"} /\ todo' = todo /\ gmsg' = gmsg
    BY <1>7 DEF AddAnnotationForID, AddAnnotation, Leave, SetNumber
  <2>. QED  BY <2>1 DEF MessagesOn
<1>8. CASE NodeDone
  BY <1>8 DEF NodeDone, graph, MessagesOn
<1>. QED
  BY <1>1, <1>2, <1>3, <1>4, <1>5, <1>6, <1>7, <1>8 DEF Next, FixGraph

\* Outside a run, on a blank graph, there is nothing to say but of the book.
Blank == TypeOK /\ BookOwn /\ pc = "idle" /\ \A m \in Member : ann[m] = Unmarked

LEMMA BlankInv == Blank => VInv /\ MessagesOn
<1> SUFFICES ASSUME Blank PROVE VInv /\ MessagesOn
  OBVIOUS
<1>1. \A m \in Member : ~Filled(m)
  BY DEF Blank, Filled, Unmarked
<1>2. present \subseteq Member /\ pending = {} /\ pc = "idle" /\ cur = {}
  BY DEF Blank, TypeOK
<1>3. IInv
  BY <1>1, <1>2 DEF Blank, IInv, ExistIsExact, PendingOfNode, FilledOwn, BlankWhenIdle, NoNumberTwice
<1>. QED
  BY <1>2, <1>3 DEF VInv, AnnFromMark, MsgFromMsg, CurrentNode, NodesBehind, VerdictFitsSchemas,
                    MessagesOn

LEMMA BlankNext == Blank' => VInv' /\ MessagesOn'
BY BlankInv, PTL

\* Whatever order FixGraph walks the graph in and however often, it fails only
\* on schemas that are really at fault, and never succeeds on such schemas or
\* with a member of a generated schema left unnumbered.
THEOREM VerdictCorrect == Spec => []VerdictFitsSchemas
BY VInvInit, VInvStep, PTL DEF Spec, VInv
-----------------------------------------------------------------------------
(* The walk implements the number ledger.                                    *)

Entered == {k \in present : ann[k].field = "ok"}
Entries == [m \in Entered |-> ann[m].num]
Walking == pc \notin {"idle", "ok", "err"}

LEMMA SameLargest == Ledger!Largest = MaxFieldNumber
BY DEF Ledger!Largest, MaxFieldNumber

\* Writing a free number is an entry in the ledger.
LEMMA WritesEntry ==
  ASSUME IInv, NEW m \in Member, m \in pending, ~Settled(m), OwnNumber(m) \notin exist,
         pc \in {"id", "field", "edge"}, UNCHANGED <<source, pc>>,
         ann' = [ann EXCEPT ![m] = Numbered(OwnNumber(m))]
  PROVE  Ledger!Enter(m)
<1>1. m \in present /\ SchemaOf[m] \in cur
  BY DEF IInv, PendingOfNode
<1>2. m \notin Entered
  BY DEF Entered, Settled, Annotated
<1>3. /\ ann'[m].field = "ok" /\ ann'[m].num = OwnNumber(m)
      /\ \A k \in Member \ {m} : ann'[k] = ann[k]
  BY DEF IInv, TypeOK, Numbered
<1>4. Entered' = Entered \cup {m} /\ Entered \subseteq Member /\ present' = present
  BY <1>1, <1>3 DEF Entered, IInv, TypeOK, source
<1>5. Entries'[m] = OwnNumber(m) /\ \A k \in Entered : Entries'[k] = Entries[k]
  BY <1>2, <1>3, <1>4 DEF Entries
<1>6. exist = ExistFieldIDs(SchemaOf[m])
  BY <1>1 DEF IInv, ExistIsExact
<1>7. \A k \in Entered : SchemaOf[k] = SchemaOf[m] => Entries[k] \in exist
  BY <1>6 DEF Entries, Entered, ExistFieldIDs, Numbers, InSchema
<1>8. Ledger!Allowed(OwnNumber(m))
  <2>1. OwnNumber(m) \in 1..MaxFieldNumber /\ OwnNumber(m) \notin 19000..19999
    BY StableFieldNumberRange, MaxFieldNumberLarge DEF OwnNumber, IDFieldNumber
  <2>. QED  BY <2>1, SameLargest DEF Ledger!Allowed
<1>9. OwnNumber(m) \notin {Entries[k] : k \in {j \in Entered : SchemaOf[j] = SchemaOf[m]}}
  BY <1>7
<1>. QED
  BY <1>1, <1>2, <1>4, <1>5, <1>8, <1>9
  DEF Ledger!Enter, Ledger!InUse, Entries, Entered

LEMMA LedgerStep ==
  ASSUME IInv, [Next]_vars
  PROVE  [Ledger!Next]_(<<Entries, Walking>>)
<1> USE DEF source, graph, walk, Walking
<1>0. IInv'
  BY InvStep
<1>a. UNCHANGED <<present, ann>> => Entries' = Entries
  BY DEF Entries, Entered
<1>b. pc = "idle" => Entered = {}
  BY DEF IInv, BlankWhenIdle, TypeOK, Entered, Unmarked
<1>c. pc' = "idle" => Entered' = {}
  BY <1>0 DEF IInv, BlankWhenIdle, TypeOK, Entered, Unmarked
<1>d. DOMAIN Entries = Entered /\ DOMAIN Entries' = Entered' /\ Entered' \subseteq Member
  BY <1>0 DEF Entries, Entered, IInv, TypeOK
<1>1. CASE Edit
  <2>1. pc = "idle" /\ pc' = "idle"
    BY <1>1 DEF Edit, Declare, Drop, Annotate, AnnotateSchema
  <2>2. Entries' = Entries
    BY <2>1, <1>b, <1>c DEF Entries
  <2>. QED  BY <2>1, <2>2
<1>2. CASE LoadGraph \/ FixAgain
  <2>1. ~Walking /\ Walking'
    BY <1>2 DEF LoadGraph, FixAgain
  <2>. QED  BY <1>d, <2>1 DEF Ledger!Next, Ledger!Open, Entries, Entered
<1>3. ASSUME NEW s \in Schema,
             \/ FixNode(s) \/ ExtractExistFieldID(s)
             \/ NextLoop(s, "id", "field") \/ NextLoop(s, "field", "edge")
      PROVE  [Ledger!Next]_(<<Entries, Walking>>)
  <2>1. Walking /\ UNCHANGED <<present, ann>>
    BY <1>3 DEF FixNode, ExtractExistFieldID, NextLoop
  <2>. QED  BY <1>a, <2>1 DEF Ledger!Next, Ledger!Close, Entries, Entered
<1>4. ASSUME NEW m \in Member, AddAnnotationForID(m) \/ AddAnnotation(m)
      PROVE  [Ledger!Next]_(<<Entries, Walking>>)
  <2>1. m \in pending /\ pc \in {"id", "field", "edge"} /\ KindOf[m] = pc
    BY <1>4 DEF AddAnnotationForID, AddAnnotation, IInv, PendingOfNode
  <2>2. OwnNumber(m) = IF pc = "id" THEN IDFieldNumber ELSE StableFieldNumber(m)
    BY <2>1 DEF OwnNumber
  <2>3. UNCHANGED source /\ (IF Settled(m) THEN Leave(m) ELSE SetNumber(m, OwnNumber(m)))
    BY <1>4, <2>1, <2>2 DEF AddAnnotationForID, AddAnnotation
  <2>4. CASE Settled(m)
    <3>1. UNCHANGED <<present, ann, pc>>
      BY <2>3, <2>4 DEF Leave
    <3>. QED  BY <1>a, <3>1
  <2>5. CASE ~Settled(m) /\ OwnNumber(m) \in exist
    <3>1. UNCHANGED <<present, ann>> /\ Walking /\ ~Walking'
      BY <2>1, <2>3, <2>5 DEF SetNumber
    <3>. QED  BY <1>a, <3>1 DEF Ledger!Next, Ledger!Close, Entries, Entered
  <2>6. CASE ~Settled(m) /\ OwnNumber(m) \notin exist
    <3>1. UNCHANGED pc /\ ann' = [ann EXCEPT ![m] = Numbered(OwnNumber(m))]
      BY <2>3, <2>6 DEF SetNumber
    <3>. QED  BY <2>1, <2>3, <2>6, <3>1, WritesEntry DEF Ledger!Next
  <2>. QED  BY <2>4, <2>5, <2>6
<1>5. CASE NodeDone
  BY <1>5, <1>a DEF NodeDone
<1>6. CASE Succeed
  BY <1>6, <1>a DEF Succeed, Ledger!Next, Ledger!Close, Entries, Entered
<1>7. CASE Exit
  <2>1. ~Walking /\ ~Walking' /\ pc' = "idle"
    BY <1>7 DEF Exit
  <2>. QED  BY <1>c, <1>d, <2>1 DEF Ledger!Next, Ledger!Discard, Entries, Entered
<1>8. CASE UNCHANGED vars
  BY <1>8, <1>a DEF vars
<1>. QED
  BY <1>1, <1>2, <1>3, <1>4, <1>5, <1>6, <1>7, <1>8 DEF Next, FixGraph

\* Numbering is a ledger: an entry is written once while a pass is under way,
\* never changed or struck out, never twice in a message and never illegal.
THEOREM LedgerKept == Spec => KeepsLedger
<1>1. Init => Ledger!Init
  BY DEF Init, Ledger!Init, Unmarked, OfKind
<1>2. IInv /\ [Next]_vars => [Ledger!Next]_(<<Entries, Walking>>)
  BY LedgerStep
<1>. QED
  BY <1>1, <1>2, InvHolds, PTL
  DEF Spec, KeepsLedger, Ledger!Spec, Entries, Entered, Walking

=============================================================================

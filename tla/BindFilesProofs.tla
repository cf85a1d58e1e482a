---------------------------- MODULE BindFilesProofs ----------------------------
(***************************************************************************)
(* Proofs about the files of bind functions (module BindFiles), for any    *)
(* configurations, with any number of entities, and any directory.         *)
(***************************************************************************)
EXTENDS BindFiles, FiniteSetTheorems, TLAPS

USE BindFilesAssumption DEF BindFilesAssumption

LEMMA ConfTyped ==
  ASSUME NEW c \in Confs
  PROVE  /\ c.entities \in Seq(Entity) /\ Len(c.entities) \in Nat
         /\ \A i \in 1..Len(c.entities) : c.entities[i] \in Entity
BY DEF Conf

LEMMA EntityTyped ==
  ASSUME NEW e \in Entity
  PROVE  e.name \in Name /\ e.actions \subseteq Action
BY DEF Entity

LEMMA ContentTyped ==
  /\ None \in Content /\ Options \in Content /\ Torn \subseteq Content
  /\ \A e \in Entity : Bound(e) \in Content
  /\ [kind |-> "user"] \in Content
<1>1. ASSUME NEW e \in Entity PROVE Bound(e) \in Content
  <2>1. e.actions \in SUBSET Action
    BY EntityTyped
  <2>. QED  BY <2>1 DEF Bound, Content
<1>. QED  BY <1>1 DEF None, Options, Torn, Content

\* Which contents have the header of a generated file.
LEMMA Headers ==
  /\ HasHeader(Options) /\ ~HasHeader(None) /\ \A e : HasHeader(Bound(e))
  /\ \A f : ~HasHeader(Cleared(f))
  /\ None \notin Torn
BY DEF HasHeader, Options, None, Bound, Cleared, Torn

LEMMA Distinct ==
  /\ Options # None /\ Options \notin Torn
  /\ \A e : Bound(e) # None /\ Bound(e) # Options /\ Bound(e) \notin Torn
<1>1. /\ None.kind = "none" /\ Options.kind = "options" /\ \A e : Bound(e).kind = "bind"
      /\ \A t \in Torn : t.kind \in {"empty", "cut"}
  BY DEF None, Options, Bound, Torn
<1>. QED  BY <1>1

-----------------------------------------------------------------------------
(* The names that Filenames gives out.                                       *)

LEMMA ListedFinite ==
  ASSUME conf \in Confs
  PROVE  /\ Len(conf.entities) \in Nat
         /\ Listed \subseteq 1..Len(conf.entities) /\ IsFiniteSet(Listed)
         /\ \A i \in Listed : conf.entities[i].name \in Name
         /\ \A n, k : IsFiniteSet(OfName(n, k)) /\ Cardinality(OfName(n, k)) \in Nat
<1>1. Len(conf.entities) \in Nat
  BY ConfTyped
<1>2. Listed \subseteq 1..Len(conf.entities)
  BY DEF Listed
<1>3. IsFiniteSet(Listed)
  <2>1. IsFiniteSet(1..Len(conf.entities))
    BY <1>1, FS_Interval
  <2>2. Listed \in SUBSET (1..Len(conf.entities))
    BY <1>2
  <2>. QED  BY <2>1, <2>2, FS_Subset
<1>4. ASSUME NEW n, NEW k PROVE IsFiniteSet(OfName(n, k)) /\ Cardinality(OfName(n, k)) \in Nat
  <2>1. OfName(n, k) \in SUBSET Listed
    BY DEF OfName
  <2>2. IsFiniteSet(OfName(n, k))
    BY <1>3, <2>1, FS_Subset
  <2>. QED  BY <2>2, FS_CardinalityType
<1>5. \A i \in Listed : conf.entities[i].name \in Name
  BY <1>2, ConfTyped, EntityTyped
<1>. QED  BY <1>1, <1>2, <1>3, <1>4, <1>5

LEMMA CountBound ==
  ASSUME conf \in Confs, NEW n, NEW k \in 1..(Len(conf.entities) + 1)
  PROVE  /\ Count(n, k) \in 0..k
         /\ n = "options" => Count(n, k) # 0
<1>1. Len(conf.entities) \in Nat
  BY ListedFinite
<1>2. OfName(n, k) \in SUBSET (1..(k - 1))
  BY <1>1, ListedFinite DEF OfName
<1>3. IsFiniteSet(1..(k - 1)) /\ Cardinality(1..(k - 1)) = k - 1
  <2>1. 1 \in Int /\ k - 1 \in Int /\ k >= 1
    BY <1>1
  <2>2. /\ IsFiniteSet(1..(k - 1))
        /\ Cardinality(1..(k - 1)) = IF 1 > k - 1 THEN 0 ELSE k - 1 - 1 + 1
    BY <2>1, FS_Interval
  <2>. QED  BY <2>1, <2>2
<1>4. Cardinality(OfName(n, k)) <= k - 1 /\ Cardinality(OfName(n, k)) \in Nat
  BY <1>2, <1>3, FS_Subset, ListedFinite
<1>. QED  BY <1>1, <1>4 DEF Count

LEMMA CountFirst ==
  ASSUME conf \in Confs, NEW n
  PROVE  Count(n, 1) = IF n = "options" THEN 1 ELSE 0
<1>1. OfName(n, 1) = {}
  BY ListedFinite DEF OfName
<1>2. Cardinality(OfName(n, 1)) = 0
  BY <1>1, FS_EmptySet
<1>. QED  BY <1>2 DEF Count

\* An entity counts for its own name, if it has actions.
LEMMA CountNext ==
  ASSUME conf \in Confs, NEW k \in 1..Len(conf.entities), NEW n
  PROVE  Count(n, k + 1) = IF k \in Listed /\ conf.entities[k].name = n
                           THEN Count(n, k) + 1 ELSE Count(n, k)
<1>1. \A i \in Listed : i \in Nat
  BY ListedFinite
<1>2. CASE k \in Listed /\ conf.entities[k].name = n
  <2>1. OfName(n, k + 1) = OfName(n, k) \cup {k} /\ k \notin OfName(n, k)
    <3>1. \A i \in Listed : (i < k + 1 <=> i < k \/ i = k) /\ ~(k < k)
      BY <1>1
    <3>2. \A i : i \in OfName(n, k + 1) <=> i \in Listed /\ i < k + 1 /\ conf.entities[i].name = n
      BY DEF OfName
    <3>3. \A i : i \in OfName(n, k) <=> i \in Listed /\ i < k /\ conf.entities[i].name = n
      BY DEF OfName
    <3>. QED  BY <1>2, <3>1, <3>2, <3>3
  <2>2. IsFiniteSet(OfName(n, k)) /\ Cardinality(OfName(n, k)) \in Nat
    BY ListedFinite
  <2>3. Cardinality(OfName(n, k + 1)) = Cardinality(OfName(n, k)) + 1
    BY <2>1, <2>2, FS_AddElement
  <2>. QED  BY <1>2, <2>2, <2>3 DEF Count
<1>3. CASE ~(k \in Listed /\ conf.entities[k].name = n)
  <2>1. OfName(n, k + 1) = OfName(n, k)
    BY <1>1, <1>3 DEF OfName
  <2>. QED  BY <1>3, <2>1 DEF Count
<1>. QED  BY <1>2, <1>3

LEMMA CountLess ==
  ASSUME conf \in Confs, NEW i \in Listed, NEW j \in Listed, i < j,
         conf.entities[i].name = conf.entities[j].name
  PROVE  Count(conf.entities[i].name, i) < Count(conf.entities[i].name, j)
<1> DEFINE n == conf.entities[i].name
<1>1. i \in Nat /\ j \in Nat
  BY ListedFinite
<1>2. OfName(n, i) \cup {i} \in SUBSET OfName(n, j) /\ i \notin OfName(n, i)
  <2>1. \A l \in Listed : l \in Nat
    BY ListedFinite
  <2>2. \A l \in Listed : l < i => l < j
    <3>1. \A x, y, z \in Nat : x < y /\ y < z => x < z
      OBVIOUS
    <3>. QED  BY <1>1, <2>1, <3>1
  <2>3. ~(i < i)
    BY <1>1
  <2>4. \A l : l \in OfName(n, i) <=> l \in Listed /\ l < i /\ conf.entities[l].name = n
    BY DEF OfName
  <2>5. \A l : l \in OfName(n, j) <=> l \in Listed /\ l < j /\ conf.entities[l].name = n
    BY DEF OfName
  <2>. HIDE DEF n
  <2>6. conf.entities[i].name = n
    BY DEF n
  <2>. QED  BY <2>2, <2>3, <2>4, <2>5, <2>6
<1>3. /\ IsFiniteSet(OfName(n, i)) /\ Cardinality(OfName(n, i)) \in Nat
      /\ IsFiniteSet(OfName(n, j)) /\ Cardinality(OfName(n, j)) \in Nat
  BY ListedFinite
<1>4. Cardinality(OfName(n, i) \cup {i}) = Cardinality(OfName(n, i)) + 1
  BY <1>2, <1>3, FS_AddElement
<1>5. Cardinality(OfName(n, i) \cup {i}) <= Cardinality(OfName(n, j))
  BY <1>2, <1>3, FS_Subset
<1>. QED  BY <1>3, <1>4, <1>5 DEF Count

LEMMA FilesThere ==
  ASSUME conf \in Confs
  PROVE  OptionsFile \in File /\ \A i \in Listed : FileOf(i) \in File
<1>1. OptionsFile \in File
  BY ListedFinite DEF OptionsFile
<1>2. ASSUME NEW i \in Listed PROVE FileOf(i) \in File
  <2>1. i \in 1..Len(conf.entities) /\ conf.entities[i].name \in Name /\ Len(conf.entities) \in Nat
    BY ListedFinite
  <2>2. Count(conf.entities[i].name, i) \in 0..i
    BY <2>1, CountBound
  <2>. QED  BY <2>1, <2>2 DEF FileOf
<1>. QED  BY <1>1, <1>2

\* With names apart, every entity has a file of its own, which is not the options'.
LEMMA FilesApart ==
  ASSUME conf \in Confs, NamesApart
  PROVE  /\ \A i \in Listed : FileOf(i) # OptionsFile
         /\ \A i, j \in Listed : FileOf(i) = FileOf(j) => i = j
<1>1. ASSUME NEW i \in Listed
      PROVE  /\ i \in Nat /\ conf.entities[i].name \in Used
             /\ Count(conf.entities[i].name, i) \in 0..Len(conf.entities)
             /\ conf.entities[i].name = "options" => Count(conf.entities[i].name, i) # 0
  <2>1. i \in 1..Len(conf.entities) /\ Len(conf.entities) \in Nat
    BY ListedFinite
  <2>2. /\ Count(conf.entities[i].name, i) \in 0..i
        /\ conf.entities[i].name = "options" => Count(conf.entities[i].name, i) # 0
    BY <2>1, CountBound
  <2>. QED  BY <2>1, <2>2 DEF Used
<1>2. ASSUME NEW i \in Listed PROVE FileOf(i) # OptionsFile
  <2>1. "options" \in Used /\ 0 \in 0..Len(conf.entities)
    BY ListedFinite DEF Used
  <2>. QED  BY <1>1, <2>1 DEF NamesApart, FileOf, OptionsFile
<1>3. ASSUME NEW i \in Listed, NEW j \in Listed, FileOf(i) = FileOf(j) PROVE i = j
  <2>1. /\ conf.entities[i].name = conf.entities[j].name
        /\ Count(conf.entities[i].name, i) = Count(conf.entities[j].name, j)
    BY <1>1, <1>3 DEF NamesApart, FileOf
  <2>2. ~(i < j) /\ ~(j < i)
    BY <1>1, <2>1, CountLess
  <2>. QED  BY <1>1, <2>2
<1>. QED  BY <1>2, <1>3

LEMMA SameConf ==
  ASSUME conf' = conf
  PROVE  /\ Listed' = Listed /\ (NamesApart' <=> NamesApart) /\ OptionsFile' = OptionsFile
         /\ \A n, k : Count(n, k)' = Count(n, k)
         /\ \A i : FileOf(i)' = FileOf(i)
         /\ before' = before => \A f : Cleared(f)' = Cleared(f) /\ Kept(f)' = Kept(f)
<1>1. Listed' = Listed
  BY DEF Listed
<1>2. \A n, k : Count(n, k)' = Count(n, k)
  BY <1>1 DEF Count, OfName
<1>3. \A i : FileOf(i)' = FileOf(i)
  BY <1>2 DEF FileOf
<1>4. Used' = Used
  BY <1>1 DEF Used
<1>5. NamesApart' <=> NamesApart
  BY <1>4 DEF NamesApart
<1>6. before' = before => \A f : Cleared(f)' = Cleared(f) /\ Kept(f)' = Kept(f)
  BY DEF Cleared, Kept
<1>. QED  BY <1>1, <1>2, <1>3, <1>5, <1>6 DEF OptionsFile

-----------------------------------------------------------------------------
(* The steps of a generation.                                                *)

\* A file is written, left alone or torn.
LEMMA FileWritten ==
  ASSUME NEW f, NEW content, NEW renders, NEW to, WriteFile(f, content, renders, to),
         dir \in [File -> Content], f \in File, content \in Content
  PROVE  /\ dir' \in [File -> Content]
         /\ \A g \in File : g # f => dir'[g] = dir[g]
         /\ \/ dir'[f] = dir[f] /\ pc' = "idle" /\ verdict' = "format"
            \/ dir'[f] \in Torn /\ pc' = "idle" /\ verdict' = "write"
            \/ dir'[f] = content /\ pc' = to /\ verdict' = verdict
<1>1. CASE EndWith("format") /\ UNCHANGED dir
  BY <1>1 DEF EndWith
<1>2. CASE EndWith("write") /\ \E t \in Torn : dir' = [dir EXCEPT ![f] = t]
  <2>1. PICK t \in Torn : dir' = [dir EXCEPT ![f] = t]
    BY <1>2
  <2>2. t \in Content
    BY ContentTyped
  <2>. QED  BY <1>2, <2>1, <2>2 DEF EndWith
<1>3. CASE dir' = [dir EXCEPT ![f] = content] /\ pc' = to /\ UNCHANGED verdict
  BY <1>3
<1>. QED  BY <1>1, <1>2, <1>3 DEF WriteFile

\* GenBindFile is at an entity with actions, and its file is the one of its number.
LEMMA AtItem ==
  ASSUME TypeOK, Progress, AtEntity
  PROVE  /\ next \in 1..Len(conf.entities) /\ Len(conf.entities) \in Nat
         /\ Item \in Entity /\ Item.name \in Name
         /\ NextName(Item.name) = FileOf(next) /\ FileOf(next) \in File
         /\ names[Item.name] \in 0..Len(conf.entities)
<1>1. conf \in Confs /\ pc = "entities" /\ next <= Len(conf.entities)
  BY DEF TypeOK, AtEntity
<1>2. next \in 1..Len(conf.entities) /\ Len(conf.entities) \in Nat
  BY <1>1, ConfTyped DEF TypeOK
<1>3. Item \in Entity /\ Item.name \in Name
  BY <1>1, <1>2, ConfTyped, EntityTyped DEF Item
<1>4. names[Item.name] = Count(Item.name, next)
  BY <1>1, <1>3 DEF Progress
<1>5. Count(Item.name, next) \in 0..next
  BY <1>1, <1>2, CountBound
<1>6. NextName(Item.name) = FileOf(next)
  BY <1>4 DEF NextName, FileOf, Item
<1>7. FileOf(next) \in File
  BY <1>1, <1>2, <1>3, <1>5 DEF FileOf, Item
<1>. QED  BY <1>2, <1>3, <1>4, <1>5, <1>6, <1>7

LEMMA FirstName ==
  ASSUME TypeOK, Progress, pc = "options"
  PROVE  NextName("options") = OptionsFile /\ OptionsFile \in File /\ names["options"] = 0
<1>1. names["options"] = 0
  BY DEF Progress
<1>. QED  BY <1>1, FilesThere DEF NextName, OptionsFile, TypeOK

LEMMA TypeStep == ASSUME TypeOK, Progress, [Next]_vars PROVE TypeOK'
<1> USE DEF TypeOK
<1>0. Len(conf.entities) \in Nat /\ Options \in Content /\ None \in Content
  BY ConfTyped, ContentTyped
<1>1. CASE CannotCreateDir \/ CreateDir \/ CannotRemove \/ Removed
  BY <1>1 DEF CannotCreateDir, CreateDir, CannotRemove, Removed, EndWith
<1>2. ASSUME NEW f \in File, RemoveGeneratedFile(f) PROVE TypeOK'
  BY <1>0, <1>2 DEF RemoveGeneratedFile
<1>3. CASE WriteOptions
  <2>1. /\ pc = "options" /\ WriteFile(NextName("options"), Options, conf.package, "entities")
        /\ names' = [names EXCEPT !["options"] = @ + 1] /\ next' = 1
        /\ UNCHANGED <<before, conf, events>>
    BY <1>3 DEF WriteOptions, Take
  <2>2. NextName("options") \in File /\ names["options"] = 0
    BY <2>1, FirstName
  <2>3. /\ dir' \in [File -> Content]
        /\ pc' \in {"idle", "entities"} /\ verdict' \in {"format", "write", verdict}
    BY <1>0, <2>1, <2>2, FileWritten
  <2>4. names' \in [Name -> 0..(Len(conf.entities) + 1)]
    BY <1>0, <2>1, <2>2
  <2>. QED  BY <1>0, <2>1, <2>3, <2>4
<1>4. CASE IncompleteEntity \/ EntityWithoutActions \/ TypeMismatch
  <2>1. /\ AtEntity /\ next' \in {next, next + 1} /\ pc' \in {pc, "idle"}
        /\ verdict' \in {verdict, "incomplete", "mismatch"}
        /\ names' = names \/ names' = [names EXCEPT ![Item.name] = @ + 1]
        /\ UNCHANGED <<dir, before, conf, events>>
    BY <1>4 DEF IncompleteEntity, EntityWithoutActions, TypeMismatch, EndWith, Take
  <2>2. next \in 1..Len(conf.entities) /\ names[Item.name] \in 0..Len(conf.entities)
    BY <2>1, AtItem
  <2>3. names' \in [Name -> 0..(Len(conf.entities) + 1)]
    BY <1>0, <2>1, <2>2
  <2>. QED  BY <1>0, <2>1, <2>2, <2>3
<1>5. CASE GenBindFile
  <2>1. /\ AtEntity /\ next' = next + 1
        /\ WriteFile(NextName(Item.name), Bound(Item), conf.package /\ Item.renders, "entities")
        /\ names' = [names EXCEPT ![Item.name] = @ + 1]
        /\ UNCHANGED <<before, conf, events>>
    BY <1>5 DEF GenBindFile, Take
  <2>2. /\ next \in 1..Len(conf.entities) /\ names[Item.name] \in 0..Len(conf.entities)
        /\ NextName(Item.name) \in File /\ Item \in Entity
    BY <2>1, AtItem
  <2>3. Bound(Item) \in Content
    BY <2>2, ContentTyped
  <2>4. /\ dir' \in [File -> Content]
        /\ pc' \in {"idle", "entities"} /\ verdict' \in {"format", "write", verdict}
    BY <2>1, <2>2, <2>3, FileWritten
  <2>5. names' \in [Name -> 0..(Len(conf.entities) + 1)]
    <3>1. names' = [names EXCEPT ![Item.name] = @ + 1] /\ names \in [Name -> 0..(Len(conf.entities) + 1)]
      BY <2>1
    <3>2. names[Item.name] + 1 \in 0..(Len(conf.entities) + 1)
      BY <1>0, <2>2
    <3>. HIDE DEF TypeOK
    <3>. QED  BY <3>1, <3>2
  <2>. QED  BY <1>0, <2>1, <2>2, <2>4, <2>5
<1>6. CASE Return
  BY <1>6 DEF Return, EndWith
<1>7. ASSUME NEW c \in Confs, Start(c) PROVE TypeOK'
  BY <1>7, ConfTyped DEF Start
<1>8. CASE Kill
  BY <1>8 DEF Kill, EndWith
<1>9. ASSUME NEW f \in UserFiles, AddUserFile(f) PROVE TypeOK'
  BY <1>9, ContentTyped DEF AddUserFile
<1>10. CASE UNCHANGED vars
  BY <1>10 DEF vars
<1>. QED
  BY <1>1, <1>2, <1>3, <1>4, <1>5, <1>6, <1>7, <1>8, <1>9, <1>10 DEF Next, Generation

\* What a file may be like while a generation is on.
LEMMA InHand ==
  ASSUME TypeOK, Progress, pc # "idle", NEW f \in File
  PROVE  \/ dir[f] = before[f] \/ (conf.remove /\ dir[f] = Cleared(f)) \/ dir[f] = Options
         \/ \E i \in Listed : dir[f] = Bound(conf.entities[i])
<1>1. dir[f] = Kept(f) => dir[f] = before[f] \/ (conf.remove /\ dir[f] = Cleared(f))
  BY Zenon DEF Kept
<1>2. pc \in {"create", "remove", "options", "entities"}
  BY DEF TypeOK
<1>3. CASE pc = "create"
  BY <1>3 DEF Progress
<1>4. CASE pc = "remove"
  BY <1>4 DEF Progress
<1>5. CASE pc = "options"
  BY <1>1, <1>5 DEF Progress
<1>6. CASE pc = "entities"
  <2>1. Written(next)
    BY <1>6 DEF Progress
  <2>. QED  BY <1>1, <2>1, Zenon DEF Written
<1>. QED  BY <1>2, <1>3, <1>4, <1>5, <1>6

\* A generation may end so: at most one file is torn, that of the write that failed.
LEMMA EndsBounded ==
  ASSUME conf' = conf, before' = before, NEW torn,
         \A f \in File :
           \/ dir'[f] = before[f] \/ (conf.remove /\ dir'[f] = Cleared(f)) \/ dir'[f] = Options
           \/ \E i \in Listed : dir'[f] = Bound(conf.entities[i])
           \/ dir'[f] \in Torn /\ verdict' = "write" /\ f = torn,
         verdict' = "dir" => dir' = before,
         verdict' = "mismatch" /\ NamesApart =>
           \A i \in Listed : i < next' => \E f \in File : dir'[f] = Bound(conf.entities[i])
  PROVE  DamageBounded'
<1> DEFINE Changed == {f \in File : dir'[f] # before[f]}
           TornOnes == {f \in Changed : dir'[f] \in Torn}
<1>1. Listed' = Listed /\ (NamesApart' <=> NamesApart)
  BY SameConf
<1>2. ASSUME NEW f \in Changed
      PROVE  \/ conf.remove /\ HasHeader(before[f]) /\ dir'[f] = None
             \/ dir'[f] = Options
             \/ dir'[f] \in Torn /\ verdict' = "write"
             \/ \E i \in Listed : dir'[f] = Bound(conf.entities[i])
  <2>1. f \in File /\ dir'[f] # before[f]
    BY <1>2
  <2>2. dir'[f] = Cleared(f) => HasHeader(before[f]) /\ dir'[f] = None
    BY <2>1, Zenon DEF Cleared
  <2>. QED  BY <2>1, <2>2, Zenon
<1>3. TornOnes \in SUBSET {torn}
  <2>1. ASSUME NEW f \in TornOnes PROVE f = torn
    <3>1. f \in File /\ dir'[f] # before[f] /\ dir'[f] \in Torn
      BY <2>1
    <3>2. dir'[f] # Options /\ ~(\E i \in Listed : dir'[f] = Bound(conf.entities[i]))
      BY <3>1, Distinct, Zenon
    <3>3. dir'[f] # Cleared(f)
      BY <3>1, Headers, Zenon DEF Cleared
    <3>. QED  BY <3>1, <3>2, <3>3, Zenon
  <2>. HIDE DEF TornOnes
  <2>. QED  BY <2>1
<1>4. Cardinality(TornOnes) <= 1
  <2>1. IsFiniteSet({torn}) /\ Cardinality({torn}) = 1
    BY FS_Singleton
  <2>. HIDE DEF TornOnes
  <2>. QED  BY <1>3, <2>1, FS_Subset
<1>5. verdict' = "dir" => Changed = {}
  OBVIOUS
<1>6. verdict' = "mismatch" /\ NamesApart =>
        \A i \in Listed : i < next' => \E f \in Generated' : dir'[f] = Bound(conf.entities[i])
  <2>1. \A f : f \in Generated' <=> f \in File /\ HasHeader(dir'[f])
    BY DEF Generated, HasHeader
  <2>. QED  BY <2>1, Headers, Zenon
<1>7. DamageBounded' <=>
        (verdict' \notin {"none", "done"} =>
           /\ verdict' = "dir" => Changed = {}
           /\ \A f \in Changed :
                \/ conf.remove /\ HasHeader(before[f]) /\ dir'[f] = None
                \/ dir'[f] = Options
                \/ dir'[f] \in Torn /\ verdict' = "write"
                \/ \E i \in Listed : dir'[f] = Bound(conf.entities[i])
           /\ Cardinality(TornOnes) <= 1
           /\ verdict' = "mismatch" /\ NamesApart =>
                \A i \in Listed : i < next' => \E f \in Generated' : dir'[f] = Bound(conf.entities[i]))
  <2>1. Torn' = Torn /\ Options' = Options /\ None' = None
    BY DEF Torn, Options, None
  <2>2. {f \in File : dir'[f] # before'[f]} = Changed
    OBVIOUS
  <2>. QED  BY <1>1, <2>1, <2>2 DEF DamageBounded, HasHeader, Bound
<1>. HIDE DEF Changed, TornOnes
<1>. QED  BY <1>2, <1>4, <1>5, <1>6, <1>7, Zenon

\* Written of the state after a step, in terms of the state before it.
LEMMA WrittenAfter ==
  ASSUME conf' = conf, before' = before, NEW k,
         \A f \in File : \/ dir'[f] = Kept(f) \/ dir'[f] = Options
                       \/ \E i \in Listed : i < k /\ dir'[f] = Bound(conf.entities[i]),
         NamesApart =>
           /\ dir'[OptionsFile] = Options
           /\ \A i \in Listed : i < k => dir'[FileOf(i)] = Bound(conf.entities[i])
           /\ \A f \in File : \/ dir'[f] = Kept(f) \/ f = OptionsFile
                             \/ \E i \in Listed : i < k /\ f = FileOf(i)
  PROVE  /\ k = next' => Written(next)'
         /\ k = Len(conf'.entities) + 1 => Written(Len(conf.entities) + 1)'
<1>1. /\ Listed' = Listed /\ (NamesApart' <=> NamesApart) /\ OptionsFile' = OptionsFile
      /\ \A i : FileOf(i)' = FileOf(i)
      /\ \A f : Kept(f)' = Kept(f)
  BY SameConf
<1>2. Options' = Options /\ \A e : Bound(e)' = Bound(e)
  BY DEF Options, Bound
<1>3. ASSUME k = next' PROVE Written(next)'
  BY <1>1, <1>2, <1>3, Zenon DEF Written
<1>4. ASSUME k = Len(conf'.entities) + 1 PROVE Written(Len(conf.entities) + 1)'
  BY <1>1, <1>2, <1>4, Zenon DEF Written
<1>. QED  BY <1>3, <1>4

\* A generation that ends without touching the directory any more.
LEMMA EndsUntouched ==
  ASSUME TypeOK, Progress, pc # "idle", conf' = conf, before' = before, dir' = dir,
         verdict' = "dir" => pc = "create",
         verdict' = "mismatch" => next' = next /\ pc = "entities"
  PROVE  DamageBounded'
<1>1. \A f \in File :
         \/ dir'[f] = before[f] \/ (conf.remove /\ dir'[f] = Cleared(f)) \/ dir'[f] = Options
         \/ \E i \in Listed : dir'[f] = Bound(conf.entities[i])
  BY InHand
<1>2. verdict' = "dir" => dir' = before
  BY DEF Progress
<1>3. ASSUME verdict' = "mismatch", NamesApart, NEW i \in Listed, i < next'
      PROVE  \E f \in File : dir'[f] = Bound(conf.entities[i])
  <2>1. dir[FileOf(i)] = Bound(conf.entities[i])
    BY <1>3, Zenon DEF Progress, Written
  <2>2. FileOf(i) \in File
    BY FilesThere DEF TypeOK
  <2>. QED  BY <2>1, <2>2
<1>. QED  BY <1>1, <1>2, <1>3, EndsBounded, Zenon

\* A failed write leaves its file as it was or torn.
LEMMA EndsWriting ==
  ASSUME TypeOK, Progress, pc # "idle", conf' = conf, before' = before, NEW f \in File,
         \A g \in File : g # f => dir'[g] = dir[g],
         \/ dir'[f] = dir[f] /\ verdict' = "format"
         \/ dir'[f] \in Torn /\ verdict' = "write"
  PROVE  DamageBounded'
<1>1. ASSUME NEW g \in File
      PROVE  \/ dir'[g] = before[g] \/ (conf.remove /\ dir'[g] = Cleared(g)) \/ dir'[g] = Options
             \/ \E i \in Listed : dir'[g] = Bound(conf.entities[i])
             \/ dir'[g] \in Torn /\ verdict' = "write" /\ g = f
  <2>1. dir'[g] = dir[g] \/ (dir'[g] \in Torn /\ verdict' = "write" /\ g = f)
    OBVIOUS
  <2>. QED  BY <2>1, InHand, Zenon
<1>2. verdict' # "dir" /\ verdict' # "mismatch"
  OBVIOUS
<1>. QED  BY <1>1, <1>2, EndsBounded, Zenon

LEMMA OptionsStep == ASSUME IInv, WriteOptions PROVE Progress' /\ DamageBounded'
<1> USE DEF IInv
<1>1. /\ pc = "options" /\ WriteFile(NextName("options"), Options, conf.package, "entities")
      /\ names' = [names EXCEPT !["options"] = @ + 1] /\ next' = 1
      /\ conf' = conf /\ before' = before
  BY DEF WriteOptions, Take
<1>2. /\ NextName("options") = OptionsFile /\ OptionsFile \in File /\ verdict = "none"
      /\ \A n \in Name : names[n] = 0
      /\ \A f \in File : dir[f] = Kept(f)
      /\ names \in [Name -> 0..(Len(conf.entities) + 1)]
      /\ conf \in Confs /\ dir \in [File -> Content]
  BY <1>1, FirstName DEF Progress, TypeOK
<1>3. /\ \A g \in File : g # OptionsFile => dir'[g] = dir[g]
      /\ \/ dir'[OptionsFile] = dir[OptionsFile] /\ pc' = "idle" /\ verdict' = "format"
         \/ dir'[OptionsFile] \in Torn /\ pc' = "idle" /\ verdict' = "write"
         \/ dir'[OptionsFile] = Options /\ pc' = "entities" /\ verdict' = verdict
  <2>1. WriteFile(OptionsFile, Options, conf.package, "entities")
    BY <1>1, <1>2
  <2>. QED  BY <1>2, <2>1, FileWritten, ContentTyped
<1>4. CASE pc' = "idle" /\ verdict' \in {"format", "write"}
  <2>1. Progress'
    BY <1>4 DEF Progress
  <2>2. DamageBounded'
    BY <1>1, <1>2, <1>3, <1>4, EndsWriting
  <2>. QED  BY <2>1, <2>2
<1>5. CASE dir'[OptionsFile] = Options /\ pc' = "entities" /\ verdict' = verdict
  <2>1. \A i \in Listed : ~(i < 1)
    BY <1>2, ListedFinite
  <2>2. \A f \in File : dir'[f] = IF f = OptionsFile THEN Options ELSE Kept(f)
    BY <1>2, <1>3, <1>5
  <2>3. Written(next)'
    BY <1>1, <1>5, <2>1, <2>2, WrittenAfter, Zenon
  <2>4. \A n \in Name : names'[n] = Count(n, 1)
    BY <1>1, <1>2, CountFirst
  <2>5. \A n \in Name : names'[n] = Count(n, next)'
    <3>1. \A n : Count(n, next)' = Count(n, 1)
      BY <1>1, SameConf DEF Count, OfName
    <3>. QED  BY <2>4, <3>1
  <2>6. Progress'
    BY <1>2, <1>5, <2>3, <2>5 DEF Progress
  <2>7. DamageBounded'
    BY <1>2, <1>5 DEF DamageBounded
  <2>. QED  BY <2>6, <2>7
<1>. QED  BY <1>3, <1>4, <1>5

\* Filenames has counted one more after an entity with actions.
LEMMA CountAfter ==
  ASSUME conf \in Confs, conf' = conf, next \in 1..Len(conf.entities), next' = next + 1, NEW n
  PROVE  Count(n, next)' = IF next \in Listed /\ conf.entities[next].name = n
                           THEN Count(n, next) + 1 ELSE Count(n, next)
<1>1. Count(n, next)' = Count(n, next + 1)
  BY SameConf DEF Count, OfName
<1>. QED  BY <1>1, CountNext

LEMMA SkipStep == ASSUME IInv, EntityWithoutActions PROVE Progress' /\ DamageBounded'
<1> USE DEF IInv
<1>1. /\ AtEntity /\ Item.actions = {} /\ next' = next + 1 /\ conf' = conf /\ before' = before
      /\ dir' = dir /\ names' = names /\ pc' = pc /\ verdict' = verdict
  BY DEF EntityWithoutActions
<1>2. /\ pc = "entities" /\ verdict = "none" /\ conf \in Confs
      /\ next \in 1..Len(conf.entities) /\ Len(conf.entities) \in Nat
      /\ Written(next) /\ \A n \in Name : names[n] = Count(n, next)
  BY <1>1, AtItem DEF Progress, TypeOK, AtEntity
<1>3. next \notin Listed
  BY <1>1 DEF Listed, Item
<1>4. \A i \in Listed : i < next <=> i < next + 1
  BY <1>2, <1>3, ListedFinite
<1>5. Written(next)'
  BY <1>1, <1>2, <1>4, WrittenAfter, Zenon DEF Written
<1>6. \A n \in Name : names'[n] = Count(n, next)'
  BY <1>1, <1>2, <1>3, CountAfter
<1>7. Progress'
  BY <1>1, <1>2, <1>5, <1>6 DEF Progress
<1>8. DamageBounded'
  BY <1>1, <1>2 DEF DamageBounded
<1>. QED  BY <1>7, <1>8

LEMMA BindStep == ASSUME IInv, GenBindFile PROVE Progress' /\ DamageBounded'
<1> USE DEF IInv
<1> DEFINE file == FileOf(next)
<1>1. /\ AtEntity /\ Item.actions # {} /\ next' = next + 1
      /\ WriteFile(NextName(Item.name), Bound(Item), conf.package /\ Item.renders, "entities")
      /\ names' = [names EXCEPT ![Item.name] = @ + 1]
      /\ conf' = conf /\ before' = before
  BY DEF GenBindFile, Take
<1>2. /\ pc = "entities" /\ verdict = "none" /\ conf \in Confs
      /\ next \in 1..Len(conf.entities) /\ Len(conf.entities) \in Nat
      /\ Written(next) /\ \A n \in Name : names[n] = Count(n, next)
      /\ names \in [Name -> 0..(Len(conf.entities) + 1)] /\ dir \in [File -> Content]
  BY <1>1, AtItem DEF Progress, TypeOK, AtEntity
<1>3. NextName(Item.name) = file /\ file \in File /\ Item \in Entity /\ Item = conf.entities[next]
  BY <1>1, AtItem DEF Item
<1>4. next \in Listed
  BY <1>1, <1>2 DEF Listed, Item
<1> HIDE DEF file
<1>5. /\ \A g \in File : g # file => dir'[g] = dir[g]
      /\ \/ dir'[file] = dir[file] /\ pc' = "idle" /\ verdict' = "format"
         \/ dir'[file] \in Torn /\ pc' = "idle" /\ verdict' = "write"
         \/ dir'[file] = Bound(Item) /\ pc' = "entities" /\ verdict' = verdict
  <2>1. WriteFile(file, Bound(Item), conf.package /\ Item.renders, "entities")
    BY <1>1, <1>3, Zenon
  <2>2. Bound(Item) \in Content
    BY <1>3, ContentTyped
  <2>. QED  BY <1>2, <1>3, <2>1, <2>2, FileWritten
<1>6. CASE pc' = "idle" /\ verdict' \in {"format", "write"}
  <2>1. Progress'
    BY <1>6 DEF Progress
  <2>2. DamageBounded'
    BY <1>1, <1>2, <1>3, <1>5, <1>6, EndsWriting
  <2>. QED  BY <2>1, <2>2
<1>7. CASE dir'[file] = Bound(Item) /\ pc' = "entities" /\ verdict' = verdict
  <2>1. \A i \in Listed : i < next + 1 <=> i < next \/ i = next
    BY <1>2, ListedFinite
  <2>2. ASSUME NEW f \in File
        PROVE  \/ dir'[f] = Kept(f) \/ dir'[f] = Options
               \/ \E i \in Listed : i < next + 1 /\ dir'[f] = Bound(conf.entities[i])
    <3>1. CASE f = file
      BY <1>3, <1>4, <1>7, <2>1, <3>1, Zenon
    <3>2. CASE f # file
      BY <1>2, <1>5, <2>1, <3>2, Zenon DEF Written
    <3>. QED  BY <3>1, <3>2
  <2>3. ASSUME NamesApart
        PROVE  /\ dir'[OptionsFile] = Options
               /\ \A i \in Listed : i < next + 1 => dir'[FileOf(i)] = Bound(conf.entities[i])
               /\ \A f \in File : \/ dir'[f] = Kept(f) \/ f = OptionsFile
                                 \/ \E i \in Listed : i < next + 1 /\ f = FileOf(i)
    <3>1. /\ dir[OptionsFile] = Options
          /\ \A i \in Listed : i < next => dir[FileOf(i)] = Bound(conf.entities[i])
          /\ \A f \in File : \/ dir[f] = Kept(f) \/ f = OptionsFile
                            \/ \E i \in Listed : i < next /\ f = FileOf(i)
      BY <1>2, <2>3, Zenon DEF Written
    <3>2. dir'[OptionsFile] = Options
      BY <1>2, <1>4, <1>5, <2>3, <3>1, FilesApart, FilesThere DEF file
    <3>3. ASSUME NEW i \in Listed, i < next + 1 PROVE dir'[FileOf(i)] = Bound(conf.entities[i])
      <4>1. CASE i = next
        BY <1>3, <1>7, <4>1 DEF file
      <4>2. CASE i # next
        <5>1. i < next /\ ~(next < next)
          BY <1>2, <2>1, <3>3, <4>2
        <5>2. FileOf(i) \in File /\ FileOf(i) # file
          BY <1>2, <1>4, <2>3, <4>2, FilesApart, FilesThere DEF file
        <5>. QED  BY <1>5, <3>1, <5>1, <5>2
      <4>. QED  BY <4>1, <4>2
    <3>4. ASSUME NEW f \in File
          PROVE  \/ dir'[f] = Kept(f) \/ f = OptionsFile
                 \/ \E i \in Listed : i < next + 1 /\ f = FileOf(i)
      BY <1>4, <1>5, <2>1, <3>1, Zenon DEF file
    <3>. QED  BY <3>2, <3>3, <3>4
  <2>4. Written(next)'
    BY <1>1, <2>2, <2>3, WrittenAfter, Zenon
  <2>5. \A n \in Name : names'[n] = Count(n, next)'
    <3>1. \A n \in Name : names'[n] = IF n = Item.name THEN names[n] + 1 ELSE names[n]
      BY <1>1, <1>2
    <3>2. \A n : Count(n, next)' = IF Item.name = n THEN Count(n, next) + 1 ELSE Count(n, next)
      BY <1>1, <1>2, <1>3, <1>4, CountAfter
    <3>. QED  BY <1>2, <3>1, <3>2
  <2>6. Progress'
    BY <1>2, <1>7, <2>4, <2>5 DEF Progress
  <2>7. DamageBounded'
    BY <1>2, <1>7 DEF DamageBounded
  <2>. QED  BY <2>6, <2>7
<1>. QED  BY <1>5, <1>6, <1>7

LEMMA ProgressStep == ASSUME IInv, [Next]_vars PROVE Progress' /\ DamageBounded'
<1> USE DEF IInv
<1>1. CASE CannotCreateDir \/ CannotRemove \/ IncompleteEntity \/ TypeMismatch \/ Kill
  <2>1. /\ pc # "idle" /\ pc' = "idle"
        /\ verdict' \in {"dir", "remove", "incomplete", "mismatch", "killed"}
        /\ verdict' = "dir" => pc = "create"
        /\ verdict' = "mismatch" => next' = next /\ pc = "entities"
        /\ conf' = conf /\ before' = before /\ dir' = dir
    BY <1>1 DEF CannotCreateDir, CannotRemove, IncompleteEntity, TypeMismatch, Kill, EndWith, AtEntity
  <2>2. Progress'
    BY <2>1 DEF Progress
  <2>. QED  BY <2>1, <2>2, EndsUntouched
<1>2. CASE CreateDir
  <2>1. /\ pc = "create" /\ conf' = conf /\ before' = before /\ dir' = dir
        /\ next' = next /\ names' = names /\ verdict' = verdict
        /\ pc' = IF conf.remove THEN "remove" ELSE "options"
    BY <1>2 DEF CreateDir
  <2>2. dir = before /\ next = 1 /\ (\A n \in Name : names[n] = 0) /\ verdict = "none"
    BY <2>1 DEF Progress
  <2>3. CASE conf.remove
    BY <2>1, <2>2, <2>3 DEF Progress, DamageBounded
  <2>4. CASE ~conf.remove
    <3>1. \A f : Kept(f)' = before[f]
      BY <2>1, <2>4, SameConf, Zenon DEF Kept
    <3>. QED  BY <2>1, <2>2, <2>4, <3>1 DEF Progress, DamageBounded
  <2>. QED  BY <2>3, <2>4
<1>3. ASSUME NEW g \in File, RemoveGeneratedFile(g) PROVE Progress' /\ DamageBounded'
  <2>1. /\ pc = "remove" /\ HasHeader(dir[g]) /\ dir' = [dir EXCEPT ![g] = None]
        /\ UNCHANGED <<before, conf, pc, next, names, verdict>>
    BY <1>3 DEF RemoveGeneratedFile
  <2>2. /\ conf.remove /\ verdict = "none" /\ next = 1 /\ \A n \in Name : names[n] = 0
        /\ \A f \in File : dir[f] \in {before[f], Cleared(f)}
    BY <2>1 DEF Progress
  <2>3. dir[g] = before[g] /\ Cleared(g) = None
    BY <2>1, <2>2, Headers, Zenon DEF Cleared
  <2>4. \A f \in File : dir'[f] \in {before[f], Cleared(f)}
    BY <2>1, <2>2, <2>3 DEF TypeOK
  <2>5. \A f : Cleared(f)' = Cleared(f)
    BY <2>1, SameConf
  <2>. QED  BY <2>1, <2>2, <2>4, <2>5 DEF Progress, DamageBounded
<1>4. CASE Removed
  <2>1. /\ pc = "remove" /\ pc' = "options" /\ \A f \in File : ~HasHeader(dir[f])
        /\ UNCHANGED <<dir, before, conf, next, names, verdict>>
    BY <1>4 DEF Removed
  <2>2. /\ conf.remove /\ verdict = "none" /\ next = 1 /\ \A n \in Name : names[n] = 0
        /\ \A f \in File : dir[f] \in {before[f], Cleared(f)}
    BY <2>1 DEF Progress
  <2>3. \A f \in File : dir[f] = Kept(f)
    BY <2>1, <2>2, Zenon DEF Kept, Cleared
  <2>4. \A f : Kept(f)' = Kept(f)
    BY <2>1, SameConf
  <2>. QED  BY <2>1, <2>2, <2>3, <2>4 DEF Progress, DamageBounded
<1>5. CASE WriteOptions
  BY <1>5, OptionsStep
<1>6. CASE EntityWithoutActions
  BY <1>6, SkipStep
<1>7. CASE GenBindFile
  BY <1>7, BindStep
<1>8. CASE Return
  <2>1. /\ pc = "entities" /\ next > Len(conf.entities) /\ pc' = "idle" /\ verdict' = "done"
        /\ UNCHANGED <<dir, before, conf>>
    BY <1>8 DEF Return, EndWith
  <2>2. next = Len(conf.entities) + 1
    BY <2>1, ConfTyped DEF TypeOK
  <2>3. Written(next)
    BY <2>1 DEF Progress
  <2>4. Written(Len(conf.entities) + 1)'
    BY <2>1, <2>2, <2>3, WrittenAfter, Zenon DEF Written
  <2>. QED  BY <2>1, <2>4 DEF Progress, DamageBounded
<1>9. ASSUME NEW c \in Confs, Start(c) PROVE Progress' /\ DamageBounded'
  BY <1>9 DEF Start, Progress, DamageBounded
<1>10. ASSUME NEW f \in UserFiles, AddUserFile(f) PROVE Progress' /\ DamageBounded'
  BY <1>10 DEF AddUserFile, Progress, DamageBounded
<1>11. CASE UNCHANGED vars
  <2>1. UNCHANGED <<dir, before, conf, pc, next, names, verdict>>
    BY <1>11 DEF vars
  <2>2. /\ \A f : Cleared(f)' = Cleared(f) /\ Kept(f)' = Kept(f)
        /\ Listed' = Listed /\ (NamesApart' <=> NamesApart)
    BY <2>1, SameConf
  <2>3. \A n : Count(n, next)' = Count(n, next)
    BY <2>1, <2>2 DEF Count, OfName
  <2>4. Written(next) => Written(next)'
    BY <2>1, WrittenAfter, Zenon DEF Written
  <2>5. Written(Len(conf.entities) + 1) => Written(Len(conf.entities) + 1)'
    BY <2>1, WrittenAfter, Zenon DEF Written
  <2>6. Progress'
    BY <2>1, <2>2, <2>3, <2>4, <2>5 DEF Progress
  <2>7. DamageBounded'
    BY <2>1, <2>2 DEF DamageBounded, Generated
  <2>. QED  BY <2>6, <2>7
<1>. QED
  BY <1>1, <1>2, <1>3, <1>4, <1>5, <1>6, <1>7, <1>8, <1>9, <1>10, <1>11 DEF Next, Generation

LEMMA InvInit == Init => IInv
<1> SUFFICES ASSUME Init PROVE IInv
  OBVIOUS
<1>1. TypeOK
  BY ConfTyped, ContentTyped DEF Init, TypeOK
<1>2. Progress /\ DamageBounded
  BY DEF Init, Progress, DamageBounded
<1>. QED  BY <1>1, <1>2 DEF IInv

-----------------------------------------------------------------------------

\* The inductive invariant: what Filenames has given out, and which files have been
\* written under these names so far.
THEOREM InvHolds == Spec => []IInv
<1>1. IInv /\ [Next]_vars => IInv'
  BY TypeStep, ProgressStep DEF IInv
<1>. QED  BY InvInit, <1>1, PTL DEF Spec

\* Every variable stays in its range.
THEOREM TypeCorrect == Spec => []TypeOK
<1>1. IInv => TypeOK
  BY DEF IInv
<1>. QED  BY InvHolds, <1>1, PTL

\* A BindFiles that fails leaves every file old, removed or new, one at most torn,
\* and what it wrote before a mismatch is in place.
THEOREM DamageCorrect == Spec => []DamageBounded
<1>1. IInv => DamageBounded
  BY DEF IInv
<1>. QED  BY InvHolds, <1>1, PTL

\* The generated files are the options' and one for each entity, when all others are
\* removed.
LEMMA GeneratedCounted ==
  ASSUME TypeOK, NamesApart, conf.remove, Written(Len(conf.entities) + 1)
  PROVE  Cardinality(Generated) = 1 + Cardinality(Listed)
<1> DEFINE Own == {FileOf(i) : i \in Listed}
           file == [i \in Listed |-> FileOf(i)]
<1>0. conf \in Confs
  BY DEF TypeOK
<1>1. IsFiniteSet(Listed) /\ \A i \in Listed : i < Len(conf.entities) + 1
  BY <1>0, ListedFinite
<1>2. file \in Bijection(Listed, Own)
  <2>1. file \in Injection(Listed, Own)
    BY <1>0, FilesApart DEF Injection, IsInjective
  <2>2. file \in Surjection(Listed, Own)
    BY DEF Surjection
  <2>. QED  BY <2>1, <2>2 DEF Bijection
<1>3. IsFiniteSet(Own) /\ Cardinality(Own) = Cardinality(Listed)
  <2>1. ExistsBijection(Listed, Own)
    BY <1>2 DEF ExistsBijection
  <2>. HIDE DEF Own
  <2>. QED  BY <1>1, <2>1, FS_Bijection
<1>4. OptionsFile \notin Own
  BY <1>0, FilesApart
<1>5. Generated = Own \cup {OptionsFile}
  <2>1. /\ dir[OptionsFile] = Options
        /\ \A i \in Listed : dir[FileOf(i)] = Bound(conf.entities[i])
        /\ \A f \in File : \/ dir[f] = Kept(f) \/ f = OptionsFile
                          \/ \E i \in Listed : f = FileOf(i)
    BY <1>1, Zenon DEF Written
  <2>2. \A f \in File : dir[f] = Kept(f) => ~HasHeader(dir[f])
    BY Headers, Zenon DEF Kept
  <2>3. ASSUME NEW f \in Generated PROVE f \in Own \cup {OptionsFile}
    BY <2>1, <2>2, <2>3, Zenon DEF Generated
  <2>4. ASSUME NEW i \in Listed PROVE FileOf(i) \in Generated
    <3>1. HasHeader(dir[FileOf(i)])
      BY <2>1, Headers
    <3>. QED  BY <1>0, <3>1, FilesThere DEF Generated
  <2>5. OptionsFile \in Generated
    <3>1. HasHeader(dir[OptionsFile])
      BY <2>1, Headers
    <3>. QED  BY <1>0, <3>1, FilesThere DEF Generated
  <2>. QED  BY <2>3, <2>4, <2>5
<1>. HIDE DEF Own
<1>6. Cardinality(Own \cup {OptionsFile}) = Cardinality(Own) + 1
  BY <1>3, <1>4, FS_AddElement
<1>7. Cardinality(Listed) \in Nat
  BY <1>1, FS_CardinalityType
<1>. QED  BY <1>3, <1>5, <1>6, <1>7

\* A BindFiles that succeeds has a file for the options and for every entity with
\* actions, and removes, if it is to, every other that was generated.
THEOREM PackageCorrect == Spec => []PackageFitsConf
<1>1. IInv => PackageFitsConf
  <2> SUFFICES ASSUME IInv, verdict = "done", NamesApart PROVE PackageFitsConf
    BY DEF PackageFitsConf
  <2> USE DEF IInv
  <2>0. conf \in Confs /\ Written(Len(conf.entities) + 1)
    BY DEF TypeOK, Progress
  <2>1. \A i \in Listed : i < Len(conf.entities) + 1
    BY <2>0, ListedFinite
  <2>2. OptionsFile \in Generated /\ dir[OptionsFile] = Options
    <3>1. dir[OptionsFile] = Options
      BY <2>0, Zenon DEF Written
    <3>2. HasHeader(dir[OptionsFile])
      BY <3>1, Headers
    <3>. QED  BY <2>0, <3>1, <3>2, FilesThere DEF Generated
  <2>3. ASSUME NEW i \in Listed
        PROVE  FileOf(i) \in Generated /\ dir[FileOf(i)] = Bound(conf.entities[i])
    <3>1. dir[FileOf(i)] = Bound(conf.entities[i])
      BY <2>0, <2>1, Zenon DEF Written
    <3>2. HasHeader(dir[FileOf(i)])
      BY <3>1, Headers
    <3>. QED  BY <2>0, <3>1, <3>2, FilesThere DEF Generated
  <2>4. ASSUME NEW f \in Generated, conf.remove \/ dir[f] # before[f]
        PROVE  dir[f] = Options \/ \E i \in Listed : dir[f] = Bound(conf.entities[i])
    <3>1. f \in File /\ HasHeader(dir[f])
      BY DEF Generated
    <3>2. dir[f] # Kept(f)
      BY <2>4, <3>1, Headers, Zenon DEF Kept
    <3>. QED  BY <2>0, <3>1, <3>2, Zenon DEF Written
  <2>5. conf.remove => Cardinality(Generated) = 1 + Cardinality(Listed)
    BY <2>0, GeneratedCounted
  <2>. QED  BY <2>2, <2>3, <2>4, <2>5 DEF PackageFitsConf
<1>. QED  BY InvHolds, <1>1, PTL

\* RemoveGeneratedFiles and WriteFile leave a file without the header alone, unless it
\* has the name of a file that is written.
THEOREM UserFilesCorrect == Spec => UserFilesKept
<1>1. IInv /\ [Next]_vars =>
        [\A f \in File : dir[f].kind = "user" =>
           \/ dir'[f] = dir[f]
           \/ pc = "options" /\ f = NextName("options")
           \/ AtEntity /\ f = NextName(Item.name)]_dir
  <2> SUFFICES ASSUME IInv, [Next]_vars, dir' # dir, NEW f \in File, dir[f].kind = "user"
               PROVE  \/ dir'[f] = dir[f]
                      \/ pc = "options" /\ f = NextName("options")
                      \/ AtEntity /\ f = NextName(Item.name)
    OBVIOUS
  <2>0. dir \in [File -> Content]
    BY DEF IInv, TypeOK
  <2>1. ASSUME NEW g \in File, RemoveGeneratedFile(g) PROVE dir'[f] = dir[f]
    BY <2>0, <2>1 DEF RemoveGeneratedFile, HasHeader
  <2>2. CASE WriteOptions
    <3>1. pc = "options" /\ WriteFile(NextName("options"), Options, conf.package, "entities")
      BY <2>2 DEF WriteOptions
    <3>2. NextName("options") \in File
      BY <3>1, FirstName DEF IInv
    <3>. QED  BY <2>0, <3>1, <3>2, FileWritten, ContentTyped
  <2>3. CASE GenBindFile
    <3>1. /\ AtEntity
          /\ WriteFile(NextName(Item.name), Bound(Item), conf.package /\ Item.renders, "entities")
      BY <2>3 DEF GenBindFile
    <3>2. NextName(Item.name) \in File /\ Bound(Item) \in Content
      BY <3>1, AtItem, ContentTyped DEF IInv
    <3>. QED  BY <2>0, <3>1, <3>2, FileWritten
  <2>4. ASSUME NEW g \in UserFiles, AddUserFile(g) PROVE dir'[f] = dir[f]
    BY <2>0, <2>4 DEF AddUserFile
  <2>. QED
    BY <2>1, <2>2, <2>3, <2>4
    DEF Next, Generation, vars, CannotCreateDir, CreateDir, CannotRemove, Removed, IncompleteEntity,
        EntityWithoutActions, TypeMismatch, Return, Start, Kill
<1>. QED  BY InvHolds, <1>1, PTL DEF Spec, UserFilesKept
=============================================================================

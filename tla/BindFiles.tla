------------------------------- MODULE BindFiles -------------------------------
(***************************************************************************)
(* entcrud/bind.go and internal/gofile: BindFiles generates a package of   *)
(* bind functions, a file for each entity and one with the options they    *)
(* share, into a directory that earlier generations and users have files   *)
(* in.  What a function is like is module Bind's; here it counts whether   *)
(* it can be generated.                                                    *)
(*                                                                         *)
(* The author runs it with one configuration after the other, and a        *)
(* generation may break off at any step.                                   *)
(***************************************************************************)
EXTENDS Integers, Sequences, FiniteSets

CONSTANTS
  Name,        \* what entities' files are named after: their types, in snake case
  Action,      \* the builders that functions are generated for
  File,        \* files in the directory
  Path,        \* [name -> [number -> File]]: the name, and what is appended to it
  Confs,       \* the configurations the author may use
  UserFiles,   \* files the author may put into the directory
  MaxEvents    \* bounds what happens around the generations

\* Source and Target are there, the fields of all actions fit or not, and the code
\* can be formatted.
Entity == [name : Name, complete : BOOLEAN, actions : SUBSET Action, fits : BOOLEAN,
           renders : BOOLEAN]
Conf == [entities : Seq(Entity), remove : BOOLEAN, strict : BOOLEAN, package : BOOLEAN]

None == [kind |-> "none"]
Options == [kind |-> "options"]
Bound(e) == [kind |-> "bind", actions |-> e.actions]
Content == [kind : {"none", "user", "empty", "cut", "options"}]
             \cup [kind : {"bind"}, actions : SUBSET Action]

ASSUME BindFilesAssumption ==
  /\ "options" \in Name
  /\ \A c \in Confs : c \in Conf
  /\ \A n \in Name : \A c \in Confs : \A k \in 0..(Len(c.entities) + 1) : Path[n][k] \in File
  /\ UserFiles \subseteq File
  /\ MaxEvents \in Nat

VARIABLES
  dir,        \* the files of the directory
  before,     \* the same when the generation began, or something else happened
  conf,       \* the configuration of the generation, or of the last one
  pc, next,   \* where it is, and at which entity
  names,      \* Filenames.names: how often each name was given out
  verdict,    \* how the last generation ended; "none" when something changed since
  events

vars == <<dir, before, conf, pc, next, names, verdict, events>>

EndWith(v) == pc' = "idle" /\ verdict' = v

-----------------------------------------------------------------------------
(* gofile                                                                    *)

\* Mutant: a name is given out as it is.
SameName(n) == Path[n][0]

\* Filenames.Next: from its second use on, a name has a number appended to it.
NextName(n) == Path[n][names[n]]
Take(n) == names' = [names EXCEPT ![n] = @ + 1]

\* Mutant: every .go file is the generator's own.
AnyFile(file) == file.kind # "none"

\* A file is the generator's own when it begins with its header, cut off or not.
HasHeader(file) == file.kind \in {"options", "bind", "cut"}

\* The directory is not named, is a symbolic link or cannot be made.
CannotCreateDir ==
  /\ pc = "create"
  /\ EndWith("dir")
  /\ UNCHANGED <<dir, before, conf, next, names, events>>

\* Mutant: generated files are always removed.
CreateDirRemoves ==
  /\ pc = "create"
  /\ pc' = "remove"
  /\ UNCHANGED <<dir, before, conf, next, names, verdict, events>>

CreateDir ==
  /\ pc = "create"
  /\ pc' = IF conf.remove THEN "remove" ELSE "options"
  /\ UNCHANGED <<dir, before, conf, next, names, verdict, events>>

RemoveGeneratedFile(f) ==
  /\ pc = "remove" /\ HasHeader(dir[f])
  /\ dir' = [dir EXCEPT ![f] = None]
  /\ UNCHANGED <<before, conf, pc, next, names, verdict, events>>

\* A file cannot be read or removed.
CannotRemove ==
  /\ pc = "remove"
  /\ EndWith("remove")
  /\ UNCHANGED <<dir, before, conf, next, names, events>>

Removed ==
  /\ pc = "remove" /\ \A f \in File : ~HasHeader(dir[f])
  /\ pc' = "options"
  /\ UNCHANGED <<dir, before, conf, next, names, verdict, events>>

\* WriteFile: code that cannot be formatted leaves the file alone, a failure to
\* write leaves it empty or cut off.
Torn == {[kind |-> "empty"], [kind |-> "cut"]}
WriteFile(f, content, renders, to) ==
  \/ ~renders /\ EndWith("format") /\ UNCHANGED dir
  \/ renders /\ EndWith("write") /\ \E t \in Torn : dir' = [dir EXCEPT ![f] = t]
  \/ /\ renders /\ dir' = [dir EXCEPT ![f] = content]
     /\ pc' = to /\ UNCHANGED verdict

-----------------------------------------------------------------------------
(* BindFiles                                                                 *)

WriteOptions ==
  /\ pc = "options"
  /\ WriteFile(NextName("options"), Options, conf.package, "entities")
  /\ Take("options") /\ next' = 1
  /\ UNCHANGED <<before, conf, events>>

AtEntity == pc = "entities" /\ next <= Len(conf.entities)
Item == conf.entities[next]

IncompleteEntity ==
  /\ AtEntity /\ ~Item.complete
  /\ EndWith("incomplete")
  /\ UNCHANGED <<dir, before, conf, next, names, events>>

EntityWithoutActions ==
  /\ AtEntity /\ Item.complete /\ Item.actions = {}
  /\ next' = next + 1
  /\ UNCHANGED <<dir, before, conf, pc, names, verdict, events>>

\* GenBindFunc has mismatches to report; the entities after this one are not
\* looked at.
TypeMismatch ==
  /\ AtEntity /\ Item.complete /\ Item.actions # {} /\ conf.strict /\ ~Item.fits
  /\ EndWith("mismatch") /\ Take(Item.name)
  /\ UNCHANGED <<dir, before, conf, next, events>>

GenBindFile ==
  /\ AtEntity /\ Item.complete /\ Item.actions # {} /\ (conf.strict => Item.fits)
  /\ WriteFile(NextName(Item.name), Bound(Item), conf.package /\ Item.renders, "entities")
  /\ Take(Item.name)
  /\ next' = next + 1
  /\ UNCHANGED <<before, conf, events>>

Return ==
  /\ pc = "entities" /\ next > Len(conf.entities)
  /\ EndWith("done")
  /\ UNCHANGED <<dir, before, conf, next, names, events>>

-----------------------------------------------------------------------------
(* What happens around it                                                    *)

\* Mutant: one Filenames serves all generations.
StartKeepsNames(c) ==
  /\ pc = "idle"
  /\ pc' = "create" /\ conf' = c /\ next' = 1
  /\ before' = dir /\ verdict' = "none"
  /\ UNCHANGED <<dir, names, events>>

Start(c) ==
  /\ pc = "idle"
  /\ pc' = "create" /\ conf' = c /\ next' = 1
  /\ names' = [n \in Name |-> 0]
  /\ before' = dir /\ verdict' = "none"
  /\ UNCHANGED <<dir, events>>

\* The process is stopped; while it writes, that leaves what WriteFile may leave.
Kill ==
  /\ pc # "idle" /\ events < MaxEvents /\ events' = events + 1
  /\ EndWith("killed")
  /\ UNCHANGED <<dir, before, conf, next, names>>

AddUserFile(f) ==
  /\ pc = "idle" /\ dir[f].kind \in {"none", "empty"}
  /\ events < MaxEvents /\ events' = events + 1
  /\ dir' = [dir EXCEPT ![f] = [kind |-> "user"]] /\ before' = dir'
  /\ verdict' = "none"
  /\ UNCHANGED <<conf, pc, next, names>>

-----------------------------------------------------------------------------

Init ==
  /\ dir = [f \in File |-> None] /\ before = dir
  /\ conf \in Confs /\ conf.entities = <<>>
  /\ pc = "idle" /\ next = 1
  /\ names = [n \in Name |-> 0]
  /\ verdict = "none" /\ events = 0

Generation ==
  \/ CannotCreateDir \/ CreateDir
  \/ (\E f \in File : RemoveGeneratedFile(f)) \/ CannotRemove \/ Removed
  \/ WriteOptions
  \/ IncompleteEntity \/ EntityWithoutActions \/ TypeMismatch \/ GenBindFile
  \/ Return

Next ==
  \/ Generation
  \/ \E c \in Confs : Start(c)
  \/ Kill
  \/ \E f \in UserFiles : AddUserFile(f)

Spec == Init /\ [][Next]_vars

-----------------------------------------------------------------------------
(* Properties.                                                               *)

\* Every variable stays in its range.
TypeOK ==
  /\ dir \in [File -> Content] /\ before \in [File -> Content]
  /\ conf \in Confs
  /\ pc \in {"idle", "create", "remove", "options", "entities"}
  /\ next \in 1..(Len(conf.entities) + 1)
  /\ names \in [Name -> 0..(Len(conf.entities) + 1)]
  /\ verdict \in {"none", "done", "dir", "remove", "format", "write", "incomplete", "mismatch",
                  "killed"}
  /\ events \in 0..MaxEvents

Listed == {i \in 1..Len(conf.entities) : conf.entities[i].actions # {}}

\* No name looks like another with its number appended: user, user, user_1.
Used == {"options"} \cup {conf.entities[i].name : i \in Listed}
NamesApart == \A n, m \in Used : \A k, l \in 0..Len(conf.entities) :
  Path[n][k] = Path[m][l] => n = m /\ k = l

Generated == {f \in File : HasHeader(dir[f])}

\* A generation that succeeds has a file of its own for the options and for every
\* entity with actions, whatever their types are called and whatever was in the
\* directory: as many generated files as that, each with one entity's functions.
\* With RemoveBeforeGenerate these are all, without it the others are as they were.
PackageFitsConf ==
  verdict = "done" /\ NamesApart =>
    LET written == {f \in Generated : conf.remove \/ dir[f] # before[f]}
        owner(i) == {f \in Generated : dir[f] = Bound(conf.entities[i])}
    IN  /\ \E f \in Generated : dir[f] = Options
        /\ \A i \in Listed : owner(i) # {}
        /\ \A f \in written : dir[f] = Options \/ \E i \in Listed : dir[f] = Bound(conf.entities[i])
        /\ conf.remove => Cardinality(Generated) = 1 + Cardinality(Listed)

\* A failure leaves every file as it was, removed if it was generated and was to be,
\* or as the new configuration has it; one at most is torn; and a mismatch is found
\* when everything listed before it is in place.
DamageBounded ==
  verdict \notin {"none", "done"} =>
    LET changed == {f \in File : dir[f] # before[f]}
    IN  /\ verdict = "dir" => changed = {}
        /\ \A f \in changed :
             \/ conf.remove /\ HasHeader(before[f]) /\ dir[f] = None
             \/ dir[f] = Options
             \/ dir[f] \in Torn /\ verdict = "write"
             \/ \E i \in Listed : dir[f] = Bound(conf.entities[i])
        /\ Cardinality({f \in changed : dir[f] \in Torn}) <= 1
        /\ verdict = "mismatch" /\ NamesApart =>
             \A i \in Listed : i < next => \E f \in Generated : dir[f] = Bound(conf.entities[i])

\* A file without the header is the user's and stays, unless a generation needs a
\* file of that very name.
UserFilesKept ==
  [][\A f \in File : dir[f].kind = "user" =>
       \/ dir'[f] = dir[f]
       \/ pc = "options" /\ f = NextName("options")
       \/ AtEntity /\ f = NextName(Item.name)]_dir

\* What makes the properties above inductive.  Filenames has counted the files of each
\* name that were written so far, and so each entity has its file at the number of
\* those before it that are named like it.
OfName(n, k) == {i \in Listed : i < k /\ conf.entities[i].name = n}
Count(n, k) == Cardinality(OfName(n, k)) + IF n = "options" THEN 1 ELSE 0
OptionsFile == Path["options"][0]
FileOf(i) == Path[conf.entities[i].name][Count(conf.entities[i].name, i)]

Cleared(f) == IF HasHeader(before[f]) THEN None ELSE before[f]
Kept(f) == IF conf.remove THEN Cleared(f) ELSE before[f]

Written(k) ==
  /\ \A f \in File : \/ dir[f] = Kept(f) \/ dir[f] = Options
                    \/ \E i \in Listed : i < k /\ dir[f] = Bound(conf.entities[i])
  /\ NamesApart =>
       /\ dir[OptionsFile] = Options
       /\ \A i \in Listed : i < k => dir[FileOf(i)] = Bound(conf.entities[i])
       /\ \A f \in File : \/ dir[f] = Kept(f) \/ f = OptionsFile
                         \/ \E i \in Listed : i < k /\ f = FileOf(i)

Progress ==
  /\ pc # "idle" => verdict = "none"
  /\ pc \in {"create", "remove", "options"} => next = 1 /\ \A n \in Name : names[n] = 0
  /\ pc = "entities" => \A n \in Name : names[n] = Count(n, next)
  /\ pc = "create" => dir = before
  /\ pc = "remove" => conf.remove /\ \A f \in File : dir[f] \in {before[f], Cleared(f)}
  /\ pc = "options" => \A f \in File : dir[f] = Kept(f)
  /\ pc = "entities" => Written(next)
  /\ verdict = "done" => Written(Len(conf.entities) + 1)

IInv == TypeOK /\ Progress /\ DamageBounded
=============================================================================

# TLA+ models of entc-extensions

These modules model the three code generators of the repository, `entproto`, `entconv` and
`entcrud`: what their code does to its state, in which order, and with which error paths.
TLC checks them on small instances; TLAPS proves all but one of the safety properties that these
runs check for every instance. Paths below are relative to the repository's root.

## 1. The system

A project that uses the repository has ent schemas, and four programs that run one after the
other whenever the schemas change:

1. ent's own generator with the **entproto** extension as a hook. The extension numbers what has
   no proto field number (`FixGraph`), turns the graph into protobuf descriptors (`LoadAdapter`)
   and writes one `.proto` file for each package.
2. `buf`/`protoc`, which makes a `.pb.go` file of those.
3. **entconv**, which reads the schemas again, the generated ent package and the `.pb.go` file,
   and writes a converter for each type (`ToProtoUser`, `ToEntUser`).
4. **entcrud**, which reflects over ent's builders and the protobuf structs and writes a bind
   function for each builder (`CreateUser(source, target, options...)`).

They share no memory. What connects them are files that can be of different ages, and two
things inside `entproto` that outlive a call: the annotations that `FixGraph` writes into the
graph, and the process-wide registry of custom types.

### Components

| component | state | operations | what is hard | what makes it correct |
|---|---|---|---|---|
| field numbering, `entproto/fix.go` | annotations of the graph, numbers in use in the node at hand | `FixGraph`, `fixNode`, `addAnnotationFor*`, `stableFieldNumber` | a long life of edits and reruns; the fold of the hash; stopping half-way with the graph changed | numbers are unique, legal and never move; failure depends on the schemas alone |
| custom types, `entproto/custom_types.go` | a map behind an RWMutex | `RegisterCustomType`, `RegisterExternalType`, lookup | races; panics under the lock | first come, first bound, for good; panics only with reason; no lock is left held |
| adapter, `adapter.go`, `field.go`, `message.go`, `skip.go` | files, their dependency lists, stubs, errors per schema; the registry | `LoadAdapter`, `GeneratedFileDescriptors` | schemas that fail among others that need them; registrations that outlive the load; cycles | errors fit the annotations; every accepted schema is written; the root cause is named |
| extension, `entproto/extension.go` | AutoFill; the `.proto` files | `generate` | two walkers over one graph; partial writes; schemas silently left out | files say what the schemas say; numbers on disk stay; errors write nothing |
| enum annotations, `entproto/enum.go` | – | `Verify`, `toProtoEnumDescriptor`, `PbEnumValueConstName` | two options with one number, looked up in a map; values alike in capitals | what is accepted depends on the schema alone; values come back as they went |
| field map, `entproto/fieldmap.go` | – | `FieldMap` | agreement with the descriptors; it needs the numbers that `FixGraph` may have filled in elsewhere | it names every field of the message |
| errors, `errors.go`, `format.go` | – | – | – | – |
| entconv generation, `entconv/conv.go`, `idcheck.go`, `internal/generator` | the output directory | `GenerateConverterFile`, `GenerateConverter` | artifacts of different ages; removing before writing; kills | what is generated compiles against what is there; the damage of a failure is bounded |
| entconv conversions, `internal/converter` | – | what `ToProto`, `ToEnt` do to a value | two directions, each with directives of its own and with what the template renders; widths, presence, times | what is accepted compiles; what fits comes back as it was, and nothing drifts |
| package resolution, `internal/pkgutil` | – | `FindModuleRoot`, `DiskDirForImportPath`, `ResolveEntDir` | relative paths, layouts; a lookup that finds nothing turns a check off | the ent package is found wherever it is |
| bind generation, `entcrud/internal/bind` | the options of a call, the builder | `GenBindFunc`, the generated function, `NewBindOptions` | nil, zero and value times five features of a field's types times four options; conversions that panic | what is rendered compiles, no nil is read, options are honoured |
| type inspection, `entcrud/internal/inspect`, `strcase` | – | reflection | – | – |
| bind files, `entcrud/bind.go`, `internal/gofile` | the output directory | `BindFiles` | failure between two files; names that collide | files left behind belong together |
| test project, `testdata` | all artifacts | `make` | order | – |

## 2. Modules

| module | role | lines of code it stands for |
|---|---|---|
| `NumberLedger` | what numbering promises, abstractly | – |
| `FieldNumbers` | `FixGraph` between edits of the schemas | `entproto/fix.go` |
| `FieldNumbersProofs` | theorems about it | |
| `TypeBook` | what the registry promises, each call one step | – |
| `CustomTypes` | the registry with its lock | `entproto/custom_types.go` |
| `CustomTypesProofs` | theorems about it | |
| `Adapter` | `LoadAdapter` | `entproto/adapter.go`, `field.go`, `message.go`, `skip.go` |
| `AdapterProofs` | theorems about it | |
| `Extension` | composes `FieldNumbers` and `Adapter` by `INSTANCE`, with the files on disk | `entproto/extension.go` |
| `ExtensionProofs` | theorems about it, from those of its two parts | |
| `GoTypes` | assignability, convertibility and integer conversion in Go, as far as converters need them | Go's own rules, as the template uses them |
| `Enums` | annotations of enums, their descriptors and constants | `entproto/enum.go`, `fieldmap.go`, the template's enum maps |
| `Convert` | one field from its schema through descriptor, converter and compiler, then its values to and fro | `entproto/field.go`, `adapter.go`, `entconv/internal/converter`, `converter.tmpl` |
| `ConvertProofs` | theorems about it | |
| `PackageDirs` | how entconv finds the ent package | `entconv/internal/pkgutil/module.go`, `idcheck.go` |
| `Converters` | entconv's generation, with the artifacts it reads | `entconv/conv.go`, `idcheck.go`, `internal/generator/generator.go` |
| `ConvertersProofs` | theorems about it and about `PackageDirs` | |
| `Bind` | entcrud's bind functions, generated and called | `entcrud/internal/bind/*.go`, `func.tmpl` |
| `BindProofs` | theorems about it | |
| `BindFiles` | entcrud's output directory, through generations that succeed or fail | `entcrud/bind.go`, `internal/gofile/file.go` |
| `BindFilesProofs` | theorems about it | |
| `MC*` | constants of the instances TLC checks | |

In every module the operators named `Mutant: ...` in their comments are plausible wrong
versions of the definition after them. Nothing uses them: they are there to try each property
on, by putting the wrong version in the place of the right one.

### FieldNumbers

Members (IDs, fields, edges) are opaque. `mark` and `msg` are what authors write, `ann` and
`gmsg` what the graph in memory has; the two differ by what `FixGraph` filled in. One action
for each declaration an author can make (`Declare`, `Drop`, `Annotate`, `AnnotateSchema`), and
then the walk: `FixNode` is the head of `fixNode`, `ExtractExistFieldID` collects the numbers in
use, `AddAnnotationForID` and `AddAnnotation` are one step of its three loops, `SetNumber` is
what they share, `NextLoop` and `NodeDone` are the ends of the loops. An error leaves the graph
as it is, half filled, and `FixAgain` is a caller who passes it to `FixGraph` once more. `exist`
is `fieldIDGenerator.exist`. `StableFieldNumber` has the arithmetic of the code on whatever the
hash is; the hash itself is a constant, so every theorem holds for every hash. `book` is a
history variable: the number each member was last published with.

The order of nodes and fields is the author's and does not depend on anything in the code, so
the model takes them in every order.

### CustomTypes

One action for each step another goroutine can see: RWMutex's `Lock` in its two parts (shutting
out readers, waiting for those that are in), the check, the insertion, the deferred `Unlock`, and
`RLock`, the read and `RUnlock`. A panic goes through the same `Unlock` as a return. `granted` is
a history variable: the registrations that have returned.

### Adapter

`parse` step by step: a node, its members, the message, its dependencies. Each check a member can
fail is one case of `MemberError`, in the code's order; `Fail` is the error noted for the schema,
after which the walk goes on with the next. `AddToStub` and `ImportSchema` are the two ways a
dependency is resolved. A schema whose dependencies fail has its message in the file already
(`filed`), as in the code. `Dangling` is `linkDependencyError`, `Links` is protoreflect's
`CreateFileDescriptors`, modelled from what the adapter needs it for and marked external. The
registry is the one of `CustomTypes`, reduced to its atomic effect, which the refinement of
`TypeBook` there justifies; other code of the process may register types between any two steps.
A graph has one node for each schema (`EachOnce`), as ent gives each a name of its own. The numbers
the linker allows end at `MaxValidNumber`. A stub that is registered with the file of a package
takes that file's place, as in the code's map of files.

A message type is a package with a path of nested names, because the code takes the last segment of
a name for the name of a schema and finds a message by its first. Field types count only by
whether they have a counterpart in protobuf, and of enums the outcome of `Verify` counts: `Convert`
and `Enums` have the rest.

### Extension

`FieldNumbers` and `Adapter` are instantiated, and `HandOver` passes the graph that the one
annotated to the other. `CheckSchemas` is the loop over the nodes and the warning. `WriteFile`
writes one file; `BreakOff` stops between two files or inside one. `Exit` ends the process: the
schemas, the files and nothing else are left. `disk` has each file's members with their numbers. Members name no
external messages here: `Adapter` has those, and with them a registry that other code changes.

### Convert, Enums and GoTypes

`Field` is everything an author can say of a field that the code asks about. It goes through
`ToProtoFieldDescriptor`, the linker, `AcceptField` (the contract checks and `NewConverter`) and
`Compile`, each of which may turn it down; `stage` says how far it came. A `Converter` is reduced
to the directives the template reads, and to whether it has one the template has nothing for.
`ToProtoCompiles` and `ToEntCompiles` are the branches of the template with Go's typing rules on
what they render; a variable `e` or `v` clashes with the function's own (`converter.tmpl:74`). What
compiles is run: `Start` takes any value of either side, `ToProto` and `ToEnt` take it across.
Integers are as wide as `Modulus` has it, and a conversion keeps the low bits (`Wrap`); a time
counts half seconds, so that seconds lose something; an optional field is `<<>>` or `<<x>>`.

An enum's annotation is a function, and `FindByNumber` returns any option of the number, as a Go
map would. An enum is one that ent accepts: no value is empty or there twice, and the default is one
of them. `LinksEnum` is what protoreflect asks of enums, modelled from what the adapter needs.
`PbEnumValueConst` goes from a value by its number to a constant, and the maps of the template
are functions of that.

### PackageDirs

A directory is the names that lead to it, a path either that or relative to where the program was
started. `FindModuleRoot` goes up by taking names off the path, which for a relative path ends
where the program was started; `DiskDirForImportPath` puts the rest of the import path below the
root; `ResolveEntDir` takes that directory if it is there, else one named `ent` beside the schemas,
else none.

### Converters

A message of the `.pb.go` file has an ID type of its own (`PbOf`): `int` and `int64` are one type there,
so that a project with either has the same message, and only the ent structs tell which it is. The
artifacts (`schema`, `entID`, `pb`) are changed by the author and the other generators at any
time between two generations, so each may be older than the others. A layout has the schemas and the ent package in one module, with
no other module on the way to them (`OneModule`): the entgo layout and that of the READMEs are such.
`Checks` lists the
refusals of `prepareGenerator` in their order, `Refuse` ends in the first that fails. A schema is
numbered by its author, by AutoFill, or not at all: entconv loads schemas afresh and never calls
`FixGraph`, so that those of AutoFill are in the `.pb.go` file and unknown to it. `layout`, with
the options' `from` and `absolute`, is what `PackageDirs` needs; if the ent package is not found
the check of ID types passes (`IDTypesVerified`), and a wrong option that has the same type in the
`.pb.go` file goes through. `CannotLoad` is one of the three loads that can fail, of which the
adapter's comes after the warning. Then
`RemoveStaleConverter` and `WriteConverter` go file by file as `GenerateAll` does, and
`CannotFormat`, `CannotWrite` and `Kill` break off between any two of those steps. `files` is the
directory: a file is a converter with the message it was made for, a user's file, or one that was
cut off, within its header (`empty`) or after it (`cut`). `before` is a history variable.

### Bind

The types of a field are summed up by the seven things the generator or the template asks of them
(`Shape`), its value by nil, zero, a slice that is too short for the setter's array, or other. `fit`
says how the value gets to the setter's type: it has it, is assignable or convertible to it,
convertible as a slice is to an array (`[]byte` to `uuid.UUID`), or not at all. `BuildFieldContext` is
one turn of the loop in `buildFieldContexts`, which lets all but the last through. `Argument` is what
the template's branches hand to a setter, `TypeChecks` what Go says of it; only code that passes is
called. `BindConverted`, `BindPointer` and `BindValue` are the branches at run time, `SetX` the call
of a setter, which panics (`"panic"`) over a nil that is read and over a slice that is too short; the
four options are actions that may come in any order and number. `builder` is what became of each
field. A panic ends the call, and the program that recovers from it calls again.

### BindFiles

`CreateDir` and `RemoveGeneratedFile` are gofile's; `WriteOptions` and `GenBindFile` give out a name
(`NextName`, with `names` for `Filenames.names`; `Path[n][k]` is the file of name `n` given out for
the `k`-th time) and write the file, which fails before it (the code
cannot be formatted) or within it (`Torn`). The entity at hand ends the generation when it is
incomplete or does not fit, and is passed over when it has no actions. Each generation has any of the
configurations; the directory is what the ones before and users left. `before` is a history
variable. Whether an entity's types fit is an input here; `Bind` says when they do.

## 3. What the runs check

| run | question | states | bounds, and why they are enough |
|---|---|---|---|
| `field_numbers` | Are numbers unique, legal and stable, is failure decided by the schemas, does the walk implement `NumberLedger`? | 276 294 | Two schemas, five members. Hashes sit at the corners of the fold: two that come to 20000, one moved up there and one mapped there, and one that wraps around the modulus to 6. Author's marks hit exactly these numbers, 1, and a skipped 6. Everything a node can do to another goes through `todo` and `exist`, for which two nodes and three members of a node suffice. |
| `custom_types` | Does the lock make calls atomic, are panics justified, does every call end? | 10 853 | Three callers (a writer, a writer that waits, a reader that waits behind both), one name, two complete entries and an incomplete one. Names do not interact. |
| `adapter` | Which schemas fail, what reaches the linker, which files are written, are loads repeatable? | 121 176 | Two schemas with edges to each other, in either order and in one package or two, an empty package name, some 480 graphs that differ from a sound one in one annotation and in what becomes of Pet; two external names in two files, one of them registered by others at any moment. |
| `extension` | What do the files on disk say after any number of edits and generations? | 346 404 | Two schemas in two packages, five members, `MaxEdits = 4`; generations are not bounded. Four edits are enough to number a member, write its number on another, take it back and drop one. |
| `bind` | Does the function compile, keep clear of nil, and do what the options say? | 449 712 | One field with all 120 shapes that are bound or fail only in their types, and the ways not to be considered, before a second one; every message; options in any order. Fields interact only through the order and the set of mismatches. |
| `bind_files` | What does the directory hold after generations that succeed, fail or are killed? | 320 227 | Lists of up to three entities, with two of one type, one whose file is named like the options' and one named like a second file; `MaxEvents = 1` kill or user's file; generations are not bounded. |
| `converters` | Do the converters fit the artifacts there are, is what fits accepted, and how much can a failure damage? | 990 690 | Two schemas, one of which may be numbered by its author, by AutoFill or not; one field with two types, one enum constant; the layouts of entc and of the READMEs; six option sets, among them each place to start from with each kind of path; `MaxEvents = 3`: enough to edit, regenerate one artifact and kill; generations are not bounded. |
| `convert` | Which fields are refused, does what is accepted compile, and what becomes of values? | 33 175 | Every field type, nillable or not, the ID types, Go types with every set of methods the code tells apart, overrides; enums of up to three values with numbers 0 to 2 under every annotation of their values, one value short and with a foreign one. Widths are cut to 2, 3, 4 and 5 bits, as all that matters to a conversion is that each divides the next one's range; `MaxHops = 4` is twice there and back. Fields are converted independently, so one is enough. |

The properties, beside the type invariants (`Extension` has those of its parts):

- **`NoNumberTwice`, `FilledNumbersLegal`**: every number filled in is free in its message and
  one protobuf allows, at any point of the walk and after a failed one.
- **`VerdictFitsSchemas`**: whether `FixGraph` fails can be read off the schemas, in whatever order
  it walks and however often it is called on one graph; if it succeeds nothing is left unnumbered.
- **`NumbersNeverMove`**: a member keeps the number of the last run that succeeded.
- **`KeepsLedger`**: the walk implements `NumberLedger`.
- **`GrantsHold`, `RefusalsJustified`, `IsTypeBook`**: the registry keeps what it granted, panics only
  for a reason, and is indistinguishable from one whose calls are single steps.
- **`ErrorsFitGraph`**: unsound schemas are never accepted, sound ones fail only over the registry,
  an error says what is wrong (a member of the schema has that very error, two have one number, or the
  registry lacks the type or has it in a file of another package), and an accepted message has exactly
  the members that are not skipped.
- **`RootCauseNamed`, `UnlinkedExplained`**: a schema that needs a failed one ends the load with the
  two names, unless it is the ID that needs it, which `linkDependencyError` does not look at; the linker
  turns files down only for what an author did, the registration of a type with the file of a schema's
  package included.
- **`OwnedFilesWritten`**: the file of every accepted schema is among those to be written.
- **`LoadRepeatable`**: a load that finds the registry as the one before, and leaves it so, ends
  alike; no load that returned is followed by one that panics.
- **`FilesFitSchemas`, `NumbersStayOnDisk`**: after a generation the files hold exactly what
  the schemas declare, and generated numbers are the same from one generation to the next, also
  over ones that broke off and with AutoFill switched on and off.
- **`SchemaErrorsWriteNothing`, `NoSchemaVanishesSilently`, `AutoFillBlameless`**: errors change no
  file; a schema that is not in the files was spoken of; when the adapter refuses a schema that
  `FixGraph` numbered, the numbers, edges or types that its author wrote are the reason.
- **`StrictTellsAll`, `CodeCompiles`, `BoundAsAsked`**: mismatches are reported all together; the
  statement that the template chooses for a field that is let through compiles, save the one
  combination of `PointersDiffer`; a call that returns leaves each field as message and options ask,
  and one that panics met a slice too short for the setter's array, never a nil, and has done nothing
  wrong until then. Two cases in which the template does not ask an option are left open (below).
- **`PackageFitsConf`, `UserFilesKept`** and `BindFiles`' `DamageBounded`: a successful generation has
  one file for the options and for each entity, and with removal nothing else of any generation
  before; users' files are lost only to a file of that very name; a failure leaves each file old,
  removed or new, and at most one torn. Lists where a type's name looks like another's with its number
  appended (`User`, `User_1`, `User`) are left out of the first: there `Filenames.Next` gives one name
  twice and a file is lost.
- **`ConvertersFit`, `DirectoryFits`, `DamageBounded`**: what a successful generation leaves
  compiles against the artifacts and has their IDs, has nothing of earlier generations in it,
  and lacks no schema without a warning; a failed one changes nothing before it removes, and tears
  at most one file after that. `ConvertersFit` leaves out one case, where the check of IDs does not
  find the ent package (below).
- **`FreshAccepted`**: when nothing is stale and the options are the project's, a refusal has a reason
  in the schemas.
- **`DocumentedConverts`**: what the READMEs say is converted is accepted and compiles; Go types with
  `Value` or `MarshalBinary` on strings, bools, bytes, UUIDs and fields of `Other` are refused.
- **`RoundTrips`**: a value that the other side has room for comes back as it was, nil as nil; any other
  changes once and then stays.
- **`EnumVerdictFits`**: `Verify` and the linker accept exactly the sound enums, whatever order the map
  of options is gone over in.
- **Liveness**: `CallsReturn`, `GenerationEnds`.

Deadlock is checked everywhere but in `Bind`, whose generation stops for good when it fails, and in
`Convert`, where a field may be refused for good and a value goes across `MaxHops` times.

### Fairness

The extension's hook is sequential code without waiting: once called it runs on until it returns.
`Extension` states weak fairness of its steps, and none of the author or of the start of a
generation. In `CustomTypes` each caller's steps are weakly fair (the scheduler runs what can run),
and `Lock` is strongly fair, because a Go mutex in starvation mode hands itself to the one that
waited longest. The other modules state no liveness and no fairness: `FieldNumbers` and `Adapter` run
within `Extension`, and the loops of the rest run over lists that do not change.

### Where code and documents disagree

Four runs check a claim of the repository that does not hold:

- `adapter_skipped_edge`: an edge that is skipped in the `.proto` files still ends the load when its
  target is not generated (`entproto/adapter.go:239` against `:229` and `skip.go:11`).
- `adapter_own_stub`: a message field that names a generated message and comes with its file makes
  the stub take the place of the package's file, which is then not written
  (`adapter.go:164` against `:70-72`).
- `bind_ignore_zero`: `IgnoreSetZeroField` has no effect on a field with a custom converter whose
  builder has no `SetNillableX` (`func.tmpl:26` against `options.go:26-27`).
- `convert_fail_fast`: a Go type with database methods on a `float64` field gets a converter of which
  only one direction compiles, instead of an error: one directive that is rendered turns off the
  refusal of those that are not (`converter.go:133` against `entconv/README.md:182-185`). One with
  `Scan` alone, on a string, gets no directive of either kind and passes too (`converter.go:185-203`).

More of the kind have no run of their own; the passing runs' properties name them as exceptions or
hold with them:

- With a relative `SchemaPath` and a start below the module's directory, `FindModuleRoot` does not
  reach `go.mod` (`module.go:26`, called from `idcheck.go:74-77`). Unless the ent package is in `ent`
  beside the schemas, the check of ID types finds no structs and passes (`ConvertersFit`).
- Schemas that AutoFill numbered are refused by entconv, which the READMEs use on the same schemas
  without saying so (`conv.go:232`; `entproto/README.md:68`, `entconv/README.md:16`; `FreshAccepted`).
- Loads are not side-effect free, as `adapter.go:390-393` has it of repeated calls: a message field
  registers its type for the life of the process (`adapter.go:584`), and a second load of the same graph can end differently (`LoadRepeatable` is
  about loads that leave the registry as they found it).
- `ClearOnNilField` has no effect on a field with a custom converter, nor on one whose builder has no
  `SetNillableX` (`func.tmpl:9-20`, `31`, `57`), although "ClearOnNilField creates an option that
  clears fields when nil values are encountered" (`options.go:39`). `BoundAsAsked` leaves it open
  whether such a field is cleared (`ClearUnasked`), as it leaves the case of `bind_ignore_zero` open.
- A `[]byte` counts as convertible to an array such as `uuid.UUID` (`func.go`'s `ConvertibleTo`), and the
  conversion that is rendered (`inspect.go:214-220`, `func.tmpl:71`) panics when the message's bytes
  are absent or too few. No document mentions it; `BoundAsAsked` says that such slices are
  the only cause of a panic. A converter, or `IgnoreSetZeroField` for bytes that are absent, avoids it.
- A pointer to a value that is assignable to the setter's type, but has another one, is handed to
  `SetNillableX` as it is (`func.tmpl:36-37`, `47-48`), which does not compile, although the fields
  passed the strict type check (`PointersDiffer`, an exception of `CodeCompiles`).
- A field of an external message or enum whose last segment is the name of a failed schema ends the
  load with a `DanglingReferenceError` (`adapter.go:286-289`), although "External custom types
  registered via RegisterCustomType are not graph schemas and are ignored" (`:269-270`).
  `RootCauseNamed` asks only that a schema that is needed be named.

`OwnedFilesWritten` holds in `adapter` because no stub of its graphs has the file of a package, which the
property's comment says; in `adapter_own_stub` one has.

## 4. What is proved

For every value of the constants, from the assumptions the modules name and nothing else.

**FieldNumbersProofs**, from `NumbersAssumption` (each member has a schema, a kind, a hash that is
a natural number; a schema has at most one ID). `InvHolds` is the inductive invariant: `exist` holds
exactly the numbers of the node's members (`ExistIsExact`), what was filled in is the member's own
number, 1 or its folded hash (`FilledOwn`), the loop's members are of the node and the kind, and
what was published is the own number too (`BookOwn`). Without `ExistIsExact`, `NoNumberTwice` is not
inductive: that a number is not in `exist` would say nothing of the members. From it follow
`TypeCorrect`, `NumbersDistinct`, `NumbersLegal` (by the arithmetic of the fold) and `NumbersStable`.
`VerdictCorrect` needs the stronger `VInv`: the graph is what the author wrote with own numbers in
the gaps (`AnnFromMark`), and every node behind the walk is settled (`NodesBehind`). `LedgerKept`
maps each step to a step of `NumberLedger` or a stutter.

**CustomTypesProofs**, from `RegistryAssumption`. `InvHolds` has mutual exclusion (`Exclusive`), what a
caller knows of the map while it holds the lock (`Knowledge`: a name it found free is still free when
it inserts), and that whatever is bound was granted or is about to be (`BoundGranted`). From it follow
`RegistryTyped`, `GrantsKept`, `RefusalsCorrect` and the refinement `BookKept`.

**BindProofs**, from `BindAssumption` (the keys are a sequence; shapes and options are over its
fields). `InvHolds`: the fields looked at are bound or reported by their types alone
(`FieldsDecided`), only pointers are nil, and each field the function has come past is as asked, the
others as asked or untouched (`BoundSoFar`). The lemma `OneStatement` goes through the branches of the
template: each does what is wanted of its field, or panics where nothing can be wanted of it, because
its slice is too short; from it comes that no nil is read (`CallsBindAsAsked`). `CompilesCorrect`
needs `FieldsDecided`, that what is in the code has passed the type check, and then goes through what
the template makes of each way a type may fit. `TypeCorrect` and `StrictReports` follow too. Keys need
not be distinct, as indeed two Go names may have one key.

**AdapterProofs**, from `AdapterAssumption` (what ent guarantees of members, that packages with
names have files of their own, and what graphs there may be). The invariant follows the walk
(`Walked`): a schema it has come past is judged, so that its error fits the graph and, if it was
accepted, each of its dependencies is among those of its file (`Judged`); of the one at hand, the
members built are without error, and what is built and what is pending make up the members that are
not skipped (`AtNode`); stubs come from the registry, which only grows (`StubsRegistered`,
`RegistryGrows`), and each entry of a dependency list has its reason (`DepsAccounted`). The last two
are what makes a judgement last while later members register types: `SettledStays`, `CausedStays` and
`JudgedStays` say that it does. From it follow `TypeCorrect`, `ErrorsCorrect` and
`RootCauseCorrect`. `UnlinkedCorrect` shows that files of a graph with none of an author's mistakes
link: their imports are acyclic (`BlamelessAcyclic`), each name resolves (`BlamelessResolves`).
`OwnedCorrect` has a hypothesis, `StubsApart`: no type is registered with the file of a package. The
run `adapter_own_stub` shows that it is needed.

**ExtensionProofs**, from `ExtensionAssumption`. The two parts are not proved again: the module
instantiates `FieldNumbersProofs` and `AdapterProofs`, shows that the extension's constants meet their
assumptions (`NumberingHolds`, `AdaptingHolds`) and that each of its steps is one of theirs or
leaves them alone (`FixIsStep`, `LoadAdapterIsStep`), and cites their step lemmas. The invariant is
`VInv` of the one, the other's whenever a graph has been handed over, and `StageFits`: what was handed
over is what the schemas say, filled up by `FixGraph` or not at all (`HandedOver`, `Unfilled`), each file
that was written is that of its package (`WrittenFits`), and generated numbers on disk are the
members' own (`OwnOnDisk`, without which `DiskStable` would need the history of every file). From it:
`FilesCorrect`, `NothingVanishes`, `AutoFillNeverBlamed`, and of steps `WritesAfterChecks` and
`DiskStable`. `MaxEdits` plays no part: the results hold for any number of edits and generations.

**ConvertersProofs**, from `ConvertersAssumption` (above all, `OneModule` of each layout). The invariant
(`Progress`) says at each stage what the directory is, given what it was before: untouched while
checks run, then without some of the generator's own files, then with exactly the converters of the
types gone past; and that the checks which passed still hold of the artifacts, which is what a
finished generation's properties rest on. `TypeCorrect`, `DamageCorrect`, `DirectoryCorrect` and
`FreshCorrect` follow. `FitCorrect` also needs that the check of IDs looks at the right package:
`EntDirFound` is about any directories of any depth, relative and absolute, and rests on lemmas about
paths that are taken apart and put together (`RelPassing`, `RootFound`). Of IDs it says two things: the
`.pb.go` file has the type that the converter's own one has there, and ent's struct has the very one.

**BindFilesProofs**, from `BindFilesAssumption`. The same kind of invariant: after the first entities,
the directory has their files and, where names do not run into each other, nothing else but what was
kept. `names` counts the entities of a name gone past (`Count`, whose lemmas `CountNext` and `CountLess`
make the file names of two entities differ). `TypeCorrect`, `DamageCorrect`, `PackageCorrect` and
`UserFilesCorrect` follow, for lists of any length.

**ConvertProofs**, from `ConvertAssumption` and `GoAssumption` (types of authors are named unlike
Go's, an underlying type is its own, the range of an integer type divides that of a wider one).
`EnumVerdictCorrect` has two directions, both for any enum: `AcceptedIsSound` (the annotation has as
many options as there are values and each of these is one, so there are no others; the linker's rule
of numbers makes it injective; and the option that `findByNumber` returned for 0 is then the only
one) and `SoundIsAccepted`. `LinksByRules` takes the descriptor apart, whose first entry may be the
one for "not specified". The invariant `EnumJudged` says which enums have come to each stage.

`RoundTripsCorrect` rests on `CompiledShape`: a converter that compiles takes times to seconds, enums
to numbers, or converts, if at all, between types with one underlying type or between numbers. For
each of the three, `TripsFit` says what a trip does to a value. For integers that is `WrapTwice`: a
conversion adds a multiple of the target's range (`WrapAdds`), so a number that went by way of a wider
type comes back (`WrapThrough`), and of two types one is the wider. For enums it needs that the enum
is sound, and hence `EnumVerdictCorrect`. `FieldTrips` adds presence: nil goes by way of absence, or
of a nil slice, which is why a pointer to a nil slice does not come back. The invariant
(`GenerationJudged`) says what is known of the field at each stage, and that the values of the trail
have come from each other (`Walk`); without it `RoundTrips`, which speaks of the first and third value,
is not inductive, nor is `TypeOK`, whose last value is in range only if the one before was.
`DocumentedCorrect` goes through the rows of the READMEs' table (`Documented`) and the Go types that
are to be refused (`Refused`).

Only model-checked: liveness (`CallsReturn`, `GenerationEnds`: the prover has no `ENABLED`), and
`LoadRepeatable`, which compares two walks over one graph step by step.
Induction over recursive data is out of the prover's reach too; no module uses `RECURSIVE`, and where
a proof needs a least element (`LeastNatural`) it takes one of a set of natural numbers.

## 5. What is not modelled

- Wording of errors and comments, formatting, the order of declarations in generated files.
- Names: `strcase`, Go package names, `ToSnake`, file names from package names. They are constants
  with the properties the code relies on (`FileOf` gives different packages different files, but
  for the empty name, which is the default package's).
- `WithIgnoreFields`: it lowers the names it is given and compares them with snake-case keys
  (`bind/func.go:93`), so that a Go name of two words is ignored by no spelling but the snake-case one.
- Reflection over Go types (`inspect`) and the loading of Go packages: `Shape` is what comes of
  the one; `CannotLoad` and a failing `Generate` stand for the errors of the other.
- `pkgutil` working the ent package out from the schemas' path (`resolveFromSchemaPath`,
  `resolveFromFile`): `validateOptions` demands `EntPackagePath`, so nothing gets there.
- Edges in `FieldMap`: `Fields()` leaves them out, and entconv converts none.
- Comments and the synthetic `oneof`s of descriptors.
- Types in `Convert` go by what the code compares, which for messages is the name without its package
  (`conv.go:603`): two of one name are told apart by the compiler only. A Go type without methods
  on a `string` or `bool` field, or one on a `float64` field, is accepted and does not compile
  (`converter.go:224`); the documents do not mention it, and `DocumentedConverts` does not claim it.
- Floats have no numbers for values in `Convert`, and so no field is an integer on one side and a
  float on the other, as `entproto.Type` could make it (`ConvertAssumption`).
- Views and edge schemas without an ID: `fix.go:150` and the adapter dereference the missing ID,
  which is plain from the line.
- The test-only reset of the registry.

## 6. Plan

Done, in this order, the most important behaviour first: numbering with its ledger, the registry
with its book, the adapter, the extension that composes them, bind, the generation of converters,
the files of bind, enums and conversions of values, the search for packages with AutoFill's part in
it, within `Converters`; and proofs about each.

Next: `LoadRepeatable`, with the walk as a function of the graph and the registry.

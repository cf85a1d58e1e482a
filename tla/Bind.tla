--------------------------------- MODULE Bind ---------------------------------
(***************************************************************************)
(* entcrud/internal/bind: for each action of an ent entity (its create or  *)
(* update builder) a function is generated that copies the fields of a     *)
(* protobuf message into the builder.  The model runs both ends of it: the *)
(* generation, which leaves fields out or gives up over their types, and   *)
(* then the generated function, called again and again with options put    *)
(* together in any order, each time on another builder.                    *)
(*                                                                         *)
(* A field's types are summed up by what the generator asks of them; its   *)
(* value is nil (of a pointer), zero (of the type, or a pointer to it), a  *)
(* slice that is short of the setter's array, or some other value.  Of the *)
(* builder, which is ent's, the model has what the call did to each field. *)
(***************************************************************************)
EXTENDS Integers, Sequences

CONSTANTS
  Keys,       \* the entity's fields in their order: a sequence
  Shapes,     \* [field -> SUBSET Shape]: the types each field may have
  Ignorable,  \* the sets of fields that WithIgnoreFields may name
  Optional    \* the sets of fields that an option may list

Field == {Keys[i] : i \in 1..Len(Keys)}

\* target: the message has a field of that name; setter: the builder's SetX, with
\* one parameter or not; settNillable, clear: it has SetNillableX, ClearX;
\* ptr: the message's field is a pointer; fit: its value has the very type of SetX,
\* is assignable or convertible to it, convertible as a slice is to an array, or none;
\* converter: a custom converter is configured, which fits or not.
Shape == [target : BOOLEAN, setter : {"none", "bad", "ok"}, settNillable : BOOLEAN,
          clear : BOOLEAN, ptr : BOOLEAN, fit : {"same", "assign", "convert", "array", "no"},
          converter : {"none", "bad", "ok"}]
Value == {"nil", "zero", "short", "value"}

ASSUME BindAssumption ==
  /\ Keys \in Seq(Field)
  /\ Shapes \in [Field -> SUBSET Shape]
  /\ Ignorable \subseteq SUBSET Field
  /\ Optional \subseteq SUBSET Field

VARIABLES
  shape, ignoreFields, strict,  \* the configuration
  pc,                           \* where generator or function is
  next,                         \* the field it comes to next
  code,                         \* the fields the generated function binds
  mismatches,                   \* what GenBindFunc reports
  options,                      \* Options of the call
  target,                       \* the message of the call
  builder                       \* what became of each field of the builder

conf == <<shape, ignoreFields, strict>>
vars == <<conf, pc, next, code, mismatches, options, target, builder>>

NoOptions == [ignoreSetZero |-> {}, clearOnNil |-> {}, ignore |-> {}, limited |-> FALSE, keep |-> {}]
InOrder == next <= Len(Keys)

-----------------------------------------------------------------------------
(* GenBindFunc                                                               *)

HasConverter(f) == shape[f].converter # "none"
Considered(f) == f \notin ignoreFields /\ shape[f].target /\ shape[f].setter # "none"

\* A converter has to be an exported function from the message's type to the
\* setter's.
InvalidConverter(f) == shape[f].converter = "bad"

\* A converter that is configured must fit; without one the value must.
Mismatch(f) ==
  \/ shape[f].setter = "bad"
  \/ InvalidConverter(f)
  \/ ~HasConverter(f) /\ shape[f].fit = "no"

\* Mutant: the first field that does not fit is the last one looked at.
BuildFieldContextStops ==
  /\ pc = "generate" /\ InOrder
  /\ LET f == Keys[next]  bad == Considered(f) /\ Mismatch(f)
     IN  /\ code' = IF Considered(f) /\ ~Mismatch(f) THEN code \cup {f} ELSE code
         /\ mismatches' = IF bad /\ strict THEN mismatches \cup {f} ELSE mismatches
         /\ next' = IF bad THEN Len(Keys) + 1 ELSE next + 1
  /\ UNCHANGED <<conf, pc, options, target, builder>>

\* buildFieldContexts, one field: only a strict generation reports a mismatch.
BuildFieldContext ==
  /\ pc = "generate" /\ InOrder
  /\ LET f == Keys[next]
     IN  /\ code' = IF Considered(f) /\ ~Mismatch(f) THEN code \cup {f} ELSE code
         /\ mismatches' = IF Considered(f) /\ Mismatch(f) /\ strict
                          THEN mismatches \cup {f} ELSE mismatches
  /\ next' = next + 1
  /\ UNCHANGED <<conf, pc, options, target, builder>>

\* The function is rendered only when no mismatch was reported.
Render ==
  /\ pc = "generate" /\ ~InOrder
  /\ pc' = IF mismatches = {} THEN "ready" ELSE "failed"
  /\ UNCHANGED <<conf, next, code, mismatches, options, target, builder>>

-----------------------------------------------------------------------------
(* The statements the template has for a field, and the compiler             *)

\* Mutant: a pointer is handed to SetNillableX whatever it points to.
ArgumentUnconverted(f) ==
  CASE HasConverter(f) -> "converter"
    [] ~HasConverter(f) /\ shape[f].ptr /\ shape[f].settNillable -> "pointer"
    [] ~HasConverter(f) /\ ~(shape[f].ptr /\ shape[f].settNillable) /\ shape[f].fit \in {"same", "assign"} -> "value"
    [] OTHER -> "conversion"

\* What a setter is called with: the outcome of the converter or of a conversion, the
\* pointer as it is, or the value.
Argument(f) ==
  CASE HasConverter(f) -> "converter"
    [] ~HasConverter(f) /\ shape[f].fit \notin {"same", "assign"} -> "conversion"
    [] ~HasConverter(f) /\ shape[f].fit \in {"same", "assign"} /\ shape[f].ptr /\ shape[f].settNillable -> "pointer"
    [] OTHER -> "value"

\* Go's rules for it.  A pointer is assignable only to a pointer to the very type.
TypeChecks(f) ==
  /\ shape[f].setter = "ok"
  /\ Argument(f) = "converter" => shape[f].converter = "ok"
  /\ Argument(f) = "conversion" => shape[f].fit # "no"
  /\ Argument(f) = "pointer" => shape[f].fit = "same"
  /\ Argument(f) = "value" => shape[f].fit \in {"same", "assign"}

-----------------------------------------------------------------------------
(* A call of the generated function, and its options                         *)

\* What compiles is called, also again when a panic was recovered from.
Call ==
  /\ pc \in {"ready", "returned", "panic"}
  /\ \A f \in code : TypeChecks(f)
  /\ target' \in [Field -> Value]
  /\ \A f \in Field : target'[f] = "nil" => shape[f].ptr
  /\ \A f \in Field : target'[f] = "short" => shape[f].fit = "array"
  /\ options' = NoOptions
  /\ builder' = [f \in Field |-> "untouched"]
  /\ pc' = "options"
  /\ UNCHANGED <<conf, next, code, mismatches>>

\* NewBindOptions applies one option, which has a list of fields.
ApplyOption(o) ==
  /\ pc = "options" /\ options' = o
  /\ UNCHANGED <<conf, pc, next, code, mismatches, target, builder>>

IgnoreSetZeroField(S) == ApplyOption([options EXCEPT !.ignoreSetZero = @ \cup S])
ClearOnNilField(S) == ApplyOption([options EXCEPT !.clearOnNil = @ \cup S])
IgnoreField(S) == ApplyOption([options EXCEPT !.ignore = @ \cup S])
KeepFieldsOnly(S) == ApplyOption([options EXCEPT !.limited = TRUE, !.keep = @ \cup S])

StartBinding ==
  /\ pc = "options"
  /\ pc' = "bind" /\ next' = 1
  /\ UNCHANGED <<conf, code, mismatches, options, target, builder>>

\* A keep list, even an empty one, makes the ignore list irrelevant.
CanSetField(f) == IF options.limited THEN f \in options.keep ELSE f \notin options.ignore

ClearOnNil(f) == f \in options.clearOnNil
CanSetZero(f) == f \notin options.ignoreSetZero

-----------------------------------------------------------------------------
(* What the statements do                                                    *)

\* What becomes of the builder's field.  SetNillableX(nil) changes nothing.
Untouched(f) == UNCHANGED <<builder, pc>>
Set(f, v) == builder' = [builder EXCEPT ![f] = v] /\ UNCHANGED pc
Clear(f) == builder' = [builder EXCEPT ![f] = "cleared"] /\ UNCHANGED pc
SetNillable(f) == IF target[f] = "nil" THEN Untouched(f) ELSE Set(f, target[f])

\* GenNotZeroCheck, which asks a slice only whether it is nil: an empty one is a value
\* (or short).
IsZero(f) == target[f] = "zero"

\* Go converts a slice to an array only when it is long enough.
TooShort(f) ==
  Argument(f) = "conversion" /\ shape[f].fit = "array" /\ target[f] \in {"zero", "short"}

\* SetX of the value, read from a pointer and converted as Argument has it.
SetX(f) ==
  IF target[f] = "nil" \/ TooShort(f) THEN pc' = "panic" /\ UNCHANGED builder ELSE Set(f, target[f])

BindConverted(f) ==
  \/ shape[f].ptr /\ target[f] # "nil" /\ SetX(f)
  \/ shape[f].ptr /\ target[f] = "nil" /\ Untouched(f)
  \/ ~shape[f].ptr /\ shape[f].settNillable /\ ~CanSetZero(f) /\ IsZero(f) /\ Untouched(f)
  \/ ~shape[f].ptr /\ (shape[f].settNillable => CanSetZero(f) \/ ~IsZero(f)) /\ SetX(f)

Clears(f) == shape[f].settNillable /\ shape[f].clear /\ target[f] = "nil" /\ ClearOnNil(f)

\* Mutant: the pointer is dereferenced without a look at it.
BindPointerUnguarded(f) ==
  \/ Clears(f) /\ Clear(f)
  \/ ~Clears(f) /\ Argument(f) = "pointer" /\ SetNillable(f)
  \/ ~Clears(f) /\ Argument(f) # "pointer" /\ SetX(f)

\* Mutant: nil is set like any other value.
BindPointerAsIs(f) ==
  \/ Clears(f) /\ Clear(f)
  \/ ~Clears(f) /\ Set(f, target[f])

\* Clearing takes a builder with SetNillableX and ClearX.
BindPointer(f) ==
  \/ Clears(f) /\ Clear(f)
  \/ ~Clears(f) /\ Argument(f) = "pointer" /\ SetNillable(f)
  \/ ~Clears(f) /\ Argument(f) # "pointer" /\ target[f] # "nil" /\ SetX(f)
  \/ ~Clears(f) /\ Argument(f) # "pointer" /\ target[f] = "nil" /\ Untouched(f)

BindValue(f) == IF CanSetZero(f) \/ ~IsZero(f) THEN SetX(f) ELSE Untouched(f)

BindField ==
  /\ pc = "bind" /\ InOrder
  /\ LET f == Keys[next]
         bound == f \in code /\ CanSetField(f)
     IN  \/ ~bound /\ Untouched(f)
         \/ bound /\ HasConverter(f) /\ BindConverted(f)
         \/ bound /\ ~HasConverter(f) /\ shape[f].ptr /\ BindPointer(f)
         \/ bound /\ ~HasConverter(f) /\ ~shape[f].ptr /\ BindValue(f)
  /\ next' = next + 1
  /\ UNCHANGED <<conf, code, mismatches, options, target>>

Return ==
  /\ pc = "bind" /\ ~InOrder
  /\ pc' = "returned"
  /\ UNCHANGED <<conf, next, code, mismatches, options, target, builder>>

-----------------------------------------------------------------------------

Init ==
  /\ shape \in {s \in [Field -> Shape] : \A f \in Field : s[f] \in Shapes[f]}
  /\ ignoreFields \in Ignorable /\ strict \in BOOLEAN
  /\ pc = "generate" /\ next = 1
  /\ code = {} /\ mismatches = {}
  /\ options = NoOptions
  /\ target = [f \in Field |-> "zero"]
  /\ builder = [f \in Field |-> "untouched"]

GenBindFunc == BuildFieldContext \/ Render
NewBindOptions ==
  \/ \E S \in Optional :
       IgnoreSetZeroField(S) \/ ClearOnNilField(S) \/ IgnoreField(S) \/ KeepFieldsOnly(S)
  \/ StartBinding
Next == GenBindFunc \/ Call \/ NewBindOptions \/ BindField \/ Return

Spec == Init /\ [][Next]_vars

-----------------------------------------------------------------------------
(* Properties.                                                               *)

\* Every variable stays in its range; no builder's field is set to nil.
TypeOK ==
  /\ pc \in {"generate", "failed", "ready", "options", "bind", "returned", "panic"}
  /\ next \in 1..(Len(Keys) + 1)
  /\ shape \in [Field -> Shape] /\ ignoreFields \subseteq Field /\ strict \in BOOLEAN
  /\ code \subseteq Field /\ mismatches \subseteq Field
  /\ options \in [ignoreSetZero : SUBSET Field, clearOnNil : SUBSET Field,
                  ignore : SUBSET Field, limited : BOOLEAN, keep : SUBSET Field]
  /\ target \in [Field -> Value]
  /\ builder \in [Field -> {"untouched", "cleared", "zero", "short", "value"}]

\* GenBindFunc reports all mismatches or none: a strict generation that fails has
\* looked at every field, and one that succeeds binds every field that both sides
\* have, a setter exists for and nobody ignored.
StrictTellsAll ==
  /\ pc = "failed" => strict /\ mismatches = {f \in Field : Considered(f) /\ Mismatch(f)}
  /\ strict /\ pc \notin {"generate", "failed"} => code = {f \in Field : Considered(f)}

\* Whatever combination of types buildFieldContext lets through, the statement that the
\* template chooses for it compiles.  (All but one: the value is assignable to the setter
\* without having its type, and the pointer to it goes to SetNillableX as it is.)
PointersDiffer(f) ==
  shape[f].fit = "assign" /\ shape[f].ptr /\ shape[f].settNillable /\ ~HasConverter(f)
CodeCompiles ==
  pc # "generate" => \A f \in code : TypeChecks(f) \/ PointersDiffer(f)

\* What the options and the message ask of a field: a value that is there is set, zero
\* too unless it is to be ignored, nil clears what is to be cleared when the builder can,
\* and nothing else is touched.  A slice too short for the setter's array cannot be
\* set: nothing that the call could do is right.  Two cases in which the template does
\* not ask an option are left open: ClearOnNilField of a field with a converter, or
\* without SetNillableX; and IgnoreSetZeroField of one with a converter and without
\* SetNillableX (see ZeroIgnored).
ClearUnasked(f) == HasConverter(f) \/ ~shape[f].settNillable
ZeroUnasked(f) == HasConverter(f) /\ ~shape[f].settNillable
Wanted(f) ==
  CASE f \notin code \/ ~CanSetField(f) -> {"untouched"}
    [] f \in code /\ CanSetField(f) /\ target[f] = "nil" ->
         IF ~ClearOnNil(f) \/ ~shape[f].clear THEN {"untouched"}
         ELSE {"cleared"} \cup {u \in {"untouched"} : ClearUnasked(f)}
    [] f \in code /\ CanSetField(f) /\ IsZero(f) /\ ~shape[f].ptr /\ ~CanSetZero(f) ->
         {"untouched"} \cup {z \in {"zero"} : ZeroUnasked(f)}
    [] OTHER -> {v \in {target[f]} : ~TooShort(f)}

\* A call that returns has done with every field what is asked of it, however many fields
\* and options came before it; one that panics had a field to set whose slice is too
\* short, never a nil, and did nothing wrong until then.
BoundAsAsked ==
  /\ pc = "returned" => \A f \in Field : builder[f] \in Wanted(f)
  /\ pc = "panic" => \E f \in Field : Wanted(f) = {}
  /\ pc = "panic" => \A f \in Field : builder[f] \in {"untouched"} \cup Wanted(f)

\* A field of the message that is zero leaves the builder's field alone when
\* IgnoreSetZeroField names it.
ZeroIgnored ==
  pc = "returned" => \A f \in options.ignoreSetZero :
    ~shape[f].ptr /\ IsZero(f) => builder[f] = "untouched"

\* What makes the properties above inductive.  The fields looked at so far are
\* bound, reported or left out by their types alone; a function exists only if none
\* was reported; only a pointer is nil; and in a call each field is as it was or
\* as it should be, the ones the function has come past as they should be.
LookedAt == IF pc = "generate" THEN {Keys[i] : i \in 1..(next - 1)} ELSE Field
FieldsDecided ==
  /\ code = {f \in LookedAt : Considered(f) /\ ~Mismatch(f)}
  /\ mismatches = {f \in LookedAt : strict /\ Considered(f) /\ Mismatch(f)}
FailedOverMismatch ==
  pc # "generate" => (pc = "failed" <=> mismatches # {})
NilOnlyPointer == \A f \in Field : ~shape[f].ptr => target[f] # "nil"
BoundSoFar ==
  /\ pc = "options" => \A f \in Field : builder[f] = "untouched"
  /\ pc = "bind" => \A f \in Field : builder[f] \in {"untouched"} \cup Wanted(f)
  /\ pc = "bind" => \A i \in 1..(next - 1) : builder[Keys[i]] \in Wanted(Keys[i])

IInv ==
  /\ TypeOK
  /\ FieldsDecided
  /\ FailedOverMismatch
  /\ NilOnlyPointer
  /\ BoundSoFar
  /\ BoundAsAsked
=============================================================================

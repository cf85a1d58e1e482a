------------------------------ MODULE BindProofs ------------------------------
(***************************************************************************)
(* Proofs about the bind functions of entcrud (module Bind), for any       *)
(* number of fields, whatever their types, and any options.                *)
(***************************************************************************)
EXTENDS Bind, TLAPS

USE BindAssumption DEF BindAssumption

LEMMA KeysInOrder ==
  /\ Len(Keys) \in Nat
  /\ \A i \in 1..Len(Keys) : Keys[i] \in Field
BY DEF Field

LEMMA NextKey == ASSUME next \in 1..(Len(Keys) + 1), InOrder
                 PROVE  next \in 1..Len(Keys) /\ Keys[next] \in Field
BY KeysInOrder DEF InOrder

\* What a statement of the template does to its field: nothing, clear it, set it to a
\* value that is there, or panic over one that cannot be set.
LEMMA OneStatement ==
  ASSUME TypeOK, FieldsDecided, NilOnlyPointer, BindField
  PROVE  /\ pc = "bind" /\ next' = next + 1
         /\ UNCHANGED <<conf, code, mismatches, options, target>>
         /\ Keys[next] \in Field
         /\ \/ /\ pc' = "bind" /\ builder' = builder
               /\ "untouched" \in Wanted(Keys[next])
            \/ /\ pc' = "panic" /\ builder' = builder
               /\ Wanted(Keys[next]) = {}
            \/ /\ pc' = "bind" /\ builder' = [builder EXCEPT ![Keys[next]] = "cleared"]
               /\ "cleared" \in Wanted(Keys[next])
            \/ /\ pc' = "bind"
               /\ builder' = [builder EXCEPT ![Keys[next]] = target[Keys[next]]]
               /\ target[Keys[next]] # "nil"
               /\ target[Keys[next]] \in Wanted(Keys[next])
<1>1. Keys[next] \in Field
  BY NextKey DEF BindField, TypeOK
<1> DEFINE f == Keys[next]
<1>2. target[f] \in Value /\ shape[f] \in Shape
  BY <1>1 DEF TypeOK
<1>3. ~shape[f].ptr => target[f] # "nil"
  BY <1>1 DEF NilOnlyPointer
<1>4. next' = next + 1 /\ pc = "bind" /\ UNCHANGED <<conf, code, mismatches, options, target>>
  BY DEF BindField
<1> DEFINE bound == f \in code /\ CanSetField(f)
           Done == \/ pc' = "bind" /\ builder' = builder /\ "untouched" \in Wanted(f)
                   \/ pc' = "panic" /\ builder' = builder /\ Wanted(f) = {}
                   \/ pc' = "bind" /\ builder' = [builder EXCEPT ![f] = "cleared"]
                      /\ "cleared" \in Wanted(f)
                   \/ /\ pc' = "bind" /\ builder' = [builder EXCEPT ![f] = target[f]]
                      /\ target[f] # "nil" /\ target[f] \in Wanted(f)
<1>5. \/ ~bound /\ Untouched(f)
      \/ bound /\ HasConverter(f) /\ BindConverted(f)
      \/ bound /\ ~HasConverter(f) /\ shape[f].ptr /\ BindPointer(f)
      \/ bound /\ ~HasConverter(f) /\ ~shape[f].ptr /\ BindValue(f)
  BY DEF BindField
<1> SUFFICES Done
  BY <1>1, <1>4
<1> HIDE DEF f
\* Setting a value that is there is right whenever nobody asked to pass over it.
<1>6. ASSUME bound, SetX(f), target[f] # "nil",
             IsZero(f) /\ ~shape[f].ptr => CanSetZero(f) \/ ZeroUnasked(f)
      PROVE  Done
  <2>1. CASE TooShort(f)
    <3>1. ~HasConverter(f)
      BY <2>1 DEF TooShort, Argument
    <3>2. pc' = "panic" /\ builder' = builder
      BY <1>6, <2>1 DEF SetX
    <3>3. Wanted(f) = {}
      BY <1>6, <2>1, <3>1 DEF Wanted, ZeroUnasked
    <3>. QED  BY <3>2, <3>3
  <2>2. CASE ~TooShort(f)
    <3>1. pc' = "bind" /\ builder' = [builder EXCEPT ![f] = target[f]]
      BY <1>4, <1>6, <2>2 DEF SetX, Set
    <3>2. target[f] \in Wanted(f)
      BY <1>6, <2>2 DEF Wanted, IsZero
    <3>. QED  BY <1>6, <3>1, <3>2
  <2>. QED  BY <2>1, <2>2
<1>7. CASE ~bound
  BY <1>4, <1>5, <1>7 DEF Untouched, Wanted
<1>8. CASE bound /\ HasConverter(f) /\ BindConverted(f)
  <2>1. CASE shape[f].ptr /\ target[f] # "nil" /\ SetX(f)
    BY <1>6, <1>8, <2>1
  <2>2. CASE shape[f].ptr /\ target[f] = "nil" /\ Untouched(f)
    BY <1>4, <1>8, <2>2 DEF Untouched, Wanted, ClearUnasked
  <2>3. CASE ~shape[f].ptr /\ shape[f].settNillable /\ ~CanSetZero(f) /\ IsZero(f) /\ Untouched(f)
    BY <1>3, <1>4, <1>8, <2>3 DEF Untouched, Wanted
  <2>4. CASE ~shape[f].ptr /\ (shape[f].settNillable => CanSetZero(f) \/ ~IsZero(f)) /\ SetX(f)
    BY <1>3, <1>6, <1>8, <2>4 DEF ZeroUnasked
  <2>. QED  BY <1>8, <2>1, <2>2, <2>3, <2>4 DEF BindConverted
<1>9. CASE bound /\ ~HasConverter(f) /\ shape[f].ptr /\ BindPointer(f)
  <2>1. CASE Clears(f) /\ Clear(f)
    BY <1>4, <1>9, <2>1 DEF Clears, Clear, Wanted
  <2>2. CASE ~Clears(f) /\ target[f] = "nil" /\ Untouched(f)
    BY <1>4, <1>9, <2>2 DEF Clears, Untouched, Wanted, ClearUnasked
  <2>3. CASE Argument(f) = "pointer" /\ target[f] # "nil" /\ Set(f, target[f])
    <3>1. ~TooShort(f)
      BY <2>3 DEF TooShort
    <3>. QED  BY <1>4, <1>9, <2>3, <3>1 DEF Set, Wanted
  <2>4. CASE target[f] # "nil" /\ SetX(f)
    BY <1>6, <1>9, <2>4
  <2>. QED  BY <1>9, <2>1, <2>2, <2>3, <2>4 DEF BindPointer, SetNillable
<1>10. CASE bound /\ ~HasConverter(f) /\ ~shape[f].ptr /\ BindValue(f)
  <2>1. CASE (CanSetZero(f) \/ ~IsZero(f)) /\ SetX(f)
    BY <1>3, <1>6, <1>10, <2>1
  <2>2. CASE ~CanSetZero(f) /\ IsZero(f) /\ Untouched(f)
    BY <1>3, <1>4, <1>10, <2>2 DEF Untouched, Wanted
  <2>. QED  BY <1>10, <2>1, <2>2 DEF BindValue
<1>. QED  BY <1>5, <1>7, <1>8, <1>9, <1>10

-----------------------------------------------------------------------------

\* No step of a call changes what the generation decided.
LEMMA TypeStep == ASSUME TypeOK, FieldsDecided, NilOnlyPointer, [Next]_vars PROVE TypeOK'
<1> USE DEF TypeOK, conf
<1>1. CASE BuildFieldContext
  <2>1. next \in 1..Len(Keys) /\ Keys[next] \in Field
    BY <1>1, NextKey DEF BuildFieldContext
  <2>. QED  BY <1>1, <2>1, KeysInOrder DEF BuildFieldContext
<1>2. CASE Render
  BY <1>2 DEF Render
<1>3. CASE Call
  BY <1>3 DEF Call, NoOptions
<1>4. ASSUME NEW S \in Optional,
             IgnoreSetZeroField(S) \/ ClearOnNilField(S) \/ IgnoreField(S) \/ KeepFieldsOnly(S)
      PROVE  TypeOK'
  <2>1. S \subseteq Field
    OBVIOUS
  <2>2. /\ options.ignoreSetZero \cup S \subseteq Field
        /\ options.clearOnNil \cup S \subseteq Field
        /\ options.ignore \cup S \subseteq Field
        /\ options.keep \cup S \subseteq Field
    BY <2>1
  <2>3. CASE IgnoreSetZeroField(S)
    BY <2>2, <2>3 DEF IgnoreSetZeroField, ApplyOption
  <2>4. CASE ClearOnNilField(S)
    BY <2>2, <2>4 DEF ClearOnNilField, ApplyOption
  <2>5. CASE IgnoreField(S)
    BY <2>2, <2>5 DEF IgnoreField, ApplyOption
  <2>6. CASE KeepFieldsOnly(S)
    BY <2>2, <2>6 DEF KeepFieldsOnly, ApplyOption
  <2>. QED  BY <1>4, <2>3, <2>4, <2>5, <2>6
<1>5. CASE StartBinding
  BY <1>5, KeysInOrder DEF StartBinding
<1>6. CASE BindField
  <2>1. next \in 1..Len(Keys)
    BY <1>6, NextKey DEF BindField
  <2>2. target[Keys[next]] \in Value
    BY <1>6, OneStatement
  <2>3. builder' \in [Field -> {"untouched", "cleared", "zero", "short", "value"}]
    <3>1. builder \in [Field -> {"untouched", "cleared", "zero", "short", "value"}]
      OBVIOUS
    <3>. HIDE DEF TypeOK
    <3>. QED  BY <1>6, <2>2, <3>1, OneStatement DEF Value
  <2>4. next' \in 1..(Len(Keys) + 1) /\ pc' \in {"bind", "panic"}
        /\ UNCHANGED <<conf, code, mismatches, options, target>>
    <3>1. pc' \in {"bind", "panic"} /\ next' = next + 1 /\ UNCHANGED <<conf, code, mismatches, options, target>>
      BY <1>6, OneStatement
    <3>. QED  BY <2>1, <3>1, KeysInOrder
  <2>. QED  BY <2>3, <2>4
<1>7. CASE Return
  BY <1>7 DEF Return
<1>8. CASE UNCHANGED vars
  BY <1>8 DEF vars
<1>. QED
  BY <1>1, <1>2, <1>3, <1>4, <1>5, <1>6, <1>7, <1>8 DEF Next, GenBindFunc, NewBindOptions

\* The steps of a call keep the configuration and the code.
LEMMA CallStep ==
  ASSUME Call \/ NewBindOptions \/ BindField \/ Return
  PROVE  /\ UNCHANGED <<conf, code, mismatches>>
         /\ pc \notin {"generate", "failed"}
BY DEF Call, NewBindOptions, IgnoreSetZeroField, ClearOnNilField, IgnoreField, KeepFieldsOnly,
       ApplyOption, StartBinding, BindField, Return

\* The fields that were looked at are one more after each step of the generator.
LEMMA DecidedStep == ASSUME IInv, [Next]_vars, TypeOK'
                     PROVE  FieldsDecided' /\ FailedOverMismatch'
<1> USE DEF IInv, TypeOK, FieldsDecided, FailedOverMismatch, LookedAt, conf
<1>1. CASE BuildFieldContext
  <2>1. next \in 1..Len(Keys) /\ Keys[next] \in Field
    BY <1>1, NextKey DEF BuildFieldContext
  <2>2. 1..(next' - 1) = 1..(next - 1) \cup {next}
    BY <1>1, <2>1, KeysInOrder DEF BuildFieldContext
  <2>3. LookedAt' = LookedAt \cup {Keys[next]}
    BY <1>1, <2>2 DEF BuildFieldContext
  <2>4. \A f : (Considered(f) <=> Considered(f)') /\ (Mismatch(f) <=> Mismatch(f)')
    BY <1>1 DEF BuildFieldContext, Considered, Mismatch, InvalidConverter, HasConverter
  <2>. HIDE DEF LookedAt
  <2>5. code' = {f \in LookedAt' : Considered(f)' /\ ~Mismatch(f)'}
    BY <1>1, <2>3, <2>4 DEF BuildFieldContext
  <2>6. mismatches' = {f \in LookedAt' : strict' /\ Considered(f)' /\ Mismatch(f)'}
    BY <1>1, <2>3, <2>4 DEF BuildFieldContext
  <2>. QED  BY <1>1, <2>5, <2>6 DEF BuildFieldContext
<1>2. CASE Render
  <2>1. LookedAt = Field
    BY <1>2, KeysInOrder DEF Render, InOrder, Field
  <2>2. LookedAt' = Field
    BY <1>2 DEF Render
  <2>3. \A f : (Considered(f) <=> Considered(f)') /\ (Mismatch(f) <=> Mismatch(f)')
    BY <1>2 DEF Render, Considered, Mismatch, InvalidConverter, HasConverter
  <2>. HIDE DEF LookedAt
  <2>4. FieldsDecided'
    BY <1>2, <2>1, <2>2, <2>3 DEF Render
  <2>. QED  BY <1>2, <2>4 DEF Render
<1>3. CASE Call \/ NewBindOptions \/ BindField \/ Return
  <2>1. pc' \notin {"generate", "failed"}
    BY <1>3, OneStatement
    DEF Call, NewBindOptions, IgnoreSetZeroField, ClearOnNilField, IgnoreField, KeepFieldsOnly,
        ApplyOption, StartBinding, Return
  <2>2. \A f : (Considered(f) <=> Considered(f)') /\ (Mismatch(f) <=> Mismatch(f)')
    BY <1>3, CallStep DEF Considered, Mismatch, InvalidConverter, HasConverter
  <2>. QED  BY <1>3, <2>1, <2>2, CallStep
<1>4. CASE UNCHANGED vars
  <2>1. \A f : (Considered(f) <=> Considered(f)') /\ (Mismatch(f) <=> Mismatch(f)')
    BY <1>4 DEF vars, Considered, Mismatch, InvalidConverter, HasConverter
  <2>. QED  BY <1>4, <2>1 DEF vars
<1>. QED  BY <1>1, <1>2, <1>3, <1>4 DEF Next, GenBindFunc


\* Nil stays a pointer's: a call takes a message of the types of its fields.
LEMMA NilStep == ASSUME IInv, [Next]_vars PROVE NilOnlyPointer'
<1> USE DEF IInv, NilOnlyPointer, conf
<1>1. CASE GenBindFunc
  BY <1>1 DEF GenBindFunc, BuildFieldContext, Render
<1>2. CASE Call
  BY <1>2 DEF Call
<1>3. CASE NewBindOptions
  BY <1>3 DEF NewBindOptions, IgnoreSetZeroField, ClearOnNilField, IgnoreField, KeepFieldsOnly,
              ApplyOption, StartBinding
<1>4. CASE BindField \/ Return
  BY <1>4 DEF BindField, Return
<1>5. CASE UNCHANGED vars
  BY <1>5 DEF vars
<1>. QED  BY <1>1, <1>2, <1>3, <1>4, <1>5 DEF Next

\* What is wanted of a field stays the same while the call's message and options do.
LEMMA WantedKept ==
  ASSUME UNCHANGED <<conf, code, options, target>>, NEW f
  PROVE  Wanted(f)' = Wanted(f)
BY DEF Wanted, CanSetField, ClearOnNil, CanSetZero, ClearUnasked, ZeroUnasked, IsZero,
       TooShort, Argument, HasConverter, conf

\* A field is done with once the function has come past it, and never undone.
LEMMA BoundStep == ASSUME IInv, [Next]_vars, TypeOK' PROVE BoundSoFar' /\ BoundAsAsked'
<1> USE DEF IInv, BoundSoFar, BoundAsAsked
<1>1. CASE GenBindFunc
  BY <1>1 DEF GenBindFunc, BuildFieldContext, Render
<1>2. CASE Call
  BY <1>2 DEF Call
<1>3. ASSUME NEW S \in Optional,
             IgnoreSetZeroField(S) \/ ClearOnNilField(S) \/ IgnoreField(S) \/ KeepFieldsOnly(S)
      PROVE  BoundSoFar' /\ BoundAsAsked'
  BY <1>3 DEF IgnoreSetZeroField, ClearOnNilField, IgnoreField, KeepFieldsOnly, ApplyOption
<1>4. CASE StartBinding
  <2>1. pc' = "bind" /\ next' = 1 /\ \A f \in Field : builder'[f] = "untouched"
    BY <1>4 DEF StartBinding
  <2>. QED  BY <2>1
<1>5. CASE BindField
  <2> DEFINE f == Keys[next]
  <2>1. /\ pc = "bind" /\ next' = next + 1 /\ f \in Field
        /\ \A g : Wanted(g)' = Wanted(g)
    BY <1>5, OneStatement, WantedKept
  <2>2. \A g \in Field \ {f} : builder'[g] = builder[g]
    BY <1>5, OneStatement DEF TypeOK
  <2>3. \/ pc' = "bind" /\ builder'[f] \in Wanted(f)
        \/ pc' = "panic" /\ builder' = builder /\ Wanted(f) = {}
    BY <1>5, <2>1, OneStatement DEF TypeOK
  <2> HIDE DEF f
  <2>4. \A g \in Field : builder'[g] \in {"untouched"} \cup Wanted(g)'
    BY <2>1, <2>2, <2>3
  <2>5. ASSUME pc' = "bind", NEW i \in 1..(next' - 1) PROVE builder'[Keys[i]] \in Wanted(Keys[i])'
    <3>1. next \in 1..Len(Keys)
      BY <1>5, NextKey DEF BindField, TypeOK
    <3>2. i \in 1..(next - 1) \/ Keys[i] = f
      BY <2>1, <3>1, KeysInOrder DEF f
    <3>3. Keys[i] \in Field
      BY <2>1, <3>1, KeysInOrder
    <3>. QED  BY <2>1, <2>2, <2>3, <2>5, <3>2, <3>3
  <2>. QED  BY <2>1, <2>3, <2>4, <2>5
<1>6. CASE Return
  <2>1. /\ pc = "bind" /\ pc' = "returned" /\ ~InOrder
        /\ UNCHANGED <<conf, next, code, options, target, builder>>
    BY <1>6 DEF Return
  <2>2. \A f : Wanted(f)' = Wanted(f)
    BY <2>1, WantedKept
  <2>3. \A f \in Field : builder[f] \in Wanted(f)
    <3>1. \A i \in 1..Len(Keys) : i \in 1..(next - 1)
      BY <2>1, KeysInOrder DEF InOrder, TypeOK
    <3>. QED  BY <2>1, <3>1 DEF Field
  <2>. QED  BY <2>1, <2>2, <2>3
<1>7. CASE UNCHANGED vars
  <2>1. UNCHANGED <<conf, code, options, target, pc, next, builder>>
    BY <1>7 DEF vars
  <2>2. \A f : Wanted(f)' = Wanted(f)
    BY <2>1, WantedKept
  <2>. QED  BY <2>1, <2>2
<1>. QED  BY <1>1, <1>2, <1>3, <1>4, <1>5, <1>6, <1>7 DEF Next, NewBindOptions

LEMMA InvInit == Init => IInv
<1> SUFFICES ASSUME Init PROVE IInv
  OBVIOUS
<1>1. TypeOK
  BY KeysInOrder DEF Init, TypeOK, NoOptions, Value
<1>2. FieldsDecided
  BY DEF Init, FieldsDecided, LookedAt
<1>3. FailedOverMismatch /\ NilOnlyPointer /\ BoundSoFar /\ BoundAsAsked
  BY DEF Init, FailedOverMismatch, NilOnlyPointer, BoundSoFar, BoundAsAsked
<1>. QED  BY <1>1, <1>2, <1>3 DEF IInv

\* The inductive invariant: what the generator decided about the fields it has come
\* to, and what the generated function did with those it has come past.
THEOREM InvHolds == Spec => []IInv
<1>1. IInv /\ [Next]_vars => IInv'
  BY TypeStep, DecidedStep, NilStep, BoundStep DEF IInv
<1>. QED  BY InvInit, <1>1, PTL DEF Spec

\* Every variable stays in its range: no field of a builder is ever set to nil.
THEOREM TypeCorrect == Spec => []TypeOK
<1>1. IInv => TypeOK
  BY DEF IInv
<1>. QED  BY InvHolds, <1>1, PTL

\* GenBindFunc reports every field whose types do not fit, or binds every field that
\* it should (func.go, buildFieldContexts).
THEOREM StrictReports == Spec => []StrictTellsAll
<1>1. IInv => StrictTellsAll
  <2> SUFFICES ASSUME IInv PROVE StrictTellsAll
    OBVIOUS
  <2>1. CASE pc = "failed"
    BY <2>1 DEF IInv, FieldsDecided, FailedOverMismatch, LookedAt, StrictTellsAll
  <2>2. CASE pc \notin {"generate", "failed"}
    <3>1. mismatches = {} /\ LookedAt = Field
      BY <2>2 DEF IInv, FailedOverMismatch, LookedAt
    <3>2. strict => \A f \in Field : Considered(f) => ~Mismatch(f)
      BY <3>1 DEF IInv, FieldsDecided
    <3>. QED  BY <2>2, <3>1, <3>2 DEF IInv, FieldsDecided, StrictTellsAll
  <2>3. CASE pc = "generate"
    BY <2>3 DEF StrictTellsAll
  <2>. QED  BY <2>1, <2>2, <2>3
<1>. QED  BY InvHolds, <1>1, PTL

\* What buildFieldContext lets through compiles as func.tmpl renders it: the converter,
\* the conversion, the pointer or the value that a setter is called with is one that
\* Go's rules have it take, but for a pointer to an assignable value of another type.
THEOREM CompilesCorrect == Spec => []CodeCompiles
<1>1. IInv => CodeCompiles
  <2> SUFFICES ASSUME IInv, NEW f \in code, ~PointersDiffer(f)
               PROVE  TypeChecks(f)
    BY DEF CodeCompiles
  <2>1. Considered(f) /\ ~Mismatch(f) /\ f \in Field
    BY DEF IInv, FieldsDecided, TypeOK
  <2>2. shape[f] \in Shape
    BY <2>1 DEF IInv, TypeOK
  <2>3. /\ shape[f].setter = "ok"
        /\ shape[f].converter \in {"none", "ok"}
        /\ HasConverter(f) \/ shape[f].fit \in {"same", "assign", "convert", "array"}
    BY <2>1, <2>2 DEF Considered, Mismatch, InvalidConverter, HasConverter, Shape
  <2>4. CASE HasConverter(f)
    BY <2>3, <2>4 DEF TypeChecks, Argument, HasConverter
  <2>5. CASE ~HasConverter(f) /\ shape[f].fit \in {"convert", "array"}
    BY <2>3, <2>5 DEF TypeChecks, Argument
  <2>6. CASE ~HasConverter(f) /\ shape[f].fit \in {"same", "assign"}
    BY <2>3, <2>6 DEF TypeChecks, Argument, PointersDiffer
  <2>. QED  BY <2>3, <2>4, <2>5, <2>6
<1>. QED  BY InvHolds, <1>1, PTL

\* A call of a generated function that returns has done with every field what its options
\* and its message ask for (func.tmpl), however many fields and options there are; one that
\* panics met a slice too short for the setter's array, and no nil.
THEOREM CallsBindAsAsked == Spec => []BoundAsAsked
<1>1. IInv => BoundAsAsked
  BY DEF IInv
<1>. QED  BY InvHolds, <1>1, PTL
=============================================================================

-------------------------- MODULE CustomTypesProofs --------------------------
(***************************************************************************)
(* Proofs about the registry of custom types (module CustomTypes), for any *)
(* number of callers, names and entries.                                   *)
(***************************************************************************)
EXTENDS CustomTypes, TLAPS

USE RegistryAssumption DEF RegistryAssumption

\* A call moves one caller along and leaves the others where they are.
LEMMA MoveOne ==
  ASSUME TypeOK, NEW p \in Proc, NEW from, NEW to, Move(p, from, to)
  PROVE  pc[p] = from /\ pc'[p] = to /\ \A q \in Proc \ {p} : pc'[q] = pc[q]
BY DEF Move, TypeOK

LEMMA TypeStep == TypeOK /\ [Next]_vars => TypeOK'
<1> SUFFICES ASSUME TypeOK, [Next]_vars PROVE TypeOK'
  OBVIOUS
<1> USE DEF mutex, TypeOK, Move, Answer, Line, Open, Refused, Bound, Found
<1>1. ASSUME NEW p \in Proc, NEW n \in Name, CallLookup(p, n) PROVE TypeOK'
  BY <1>1 DEF CallLookup, Call
<1>2. ASSUME NEW p \in Proc, NEW n \in Name, NEW e \in Entry, CallRegister(p, n, e)
      PROVE  TypeOK'
  BY <1>2 DEF CallRegister, Call
<1>3. ASSUME NEW p \in Proc, PanicIncomplete(p) PROVE TypeOK'
  BY <1>3 DEF PanicIncomplete
<1>4. ASSUME NEW p \in Proc, Lock(p) PROVE TypeOK'
  BY <1>4 DEF Lock
<1>5. ASSUME NEW p \in Proc, Drain(p) PROVE TypeOK'
  BY <1>5 DEF Drain
<1>6. ASSUME NEW p \in Proc, Check(p) PROVE TypeOK'
  <2>1. req[p].entry \in Entry \cup {NoEntry}
    OBVIOUS
  <2>2. PICK a \in {reply[p], Bound(req[p].entry), Refused} : reply' = [reply EXCEPT ![p] = a]
    BY <1>6 DEF Check
  <2>3. a \in [kind : {"open", "refused", "bound", "unknown", "found"},
               entry : Entry \cup {NoEntry}]
    BY <2>1, <2>2
  <2>. QED  BY <1>6, <2>2, <2>3 DEF Check
<1>7. ASSUME NEW p \in Proc, Insert(p) PROVE TypeOK'
  BY <1>7 DEF Insert
<1>8. ASSUME NEW p \in Proc, Unlock(p) PROVE TypeOK'
  BY <1>8 DEF Unlock
<1>9. ASSUME NEW p \in Proc, RLock(p) PROVE TypeOK'
  BY <1>9 DEF RLock
<1>10. ASSUME NEW p \in Proc, Read(p) PROVE TypeOK'
  BY <1>10 DEF Read
<1>11. ASSUME NEW p \in Proc, RUnlock(p) PROVE TypeOK'
  BY <1>11 DEF RUnlock
<1>12. CASE UNCHANGED vars
  BY <1>12 DEF vars
<1>. QED
  BY <1>1, <1>2, <1>3, <1>4, <1>5, <1>6, <1>7, <1>8, <1>9, <1>10, <1>11, <1>12
  DEF Next, Proceed

LEMMA TypeInit == Init => TypeOK
<1>1. (CHOOSE n \in Name : TRUE) \in Name
  OBVIOUS
<1>. QED  BY <1>1 DEF Init, TypeOK, Line, Open

\* Every variable of the registry and its lock stays in its range.
THEOREM RegistryTyped == Spec => []TypeOK
BY TypeInit, TypeStep, PTL DEF Spec

-----------------------------------------------------------------------------
(* The lock.                                                                 *)

LEMMA ExclusiveStep ==
  ASSUME TypeOK, Exclusive, [Next]_vars
  PROVE  Exclusive'
<1> USE DEF mutex, Exclusive, Critical
<1>0. TypeOK'
  BY TypeStep
<1>1. ASSUME NEW p \in Proc, NEW n \in Name, CallLookup(p, n) PROVE Exclusive'
  BY <1>1, MoveOne DEF CallLookup, Call
<1>2. ASSUME NEW p \in Proc, NEW n \in Name, NEW e \in Entry, CallRegister(p, n, e)
      PROVE  Exclusive'
  <2>1. CASE e \in Complete
    BY <1>2, <2>1, MoveOne DEF CallRegister, Call
  <2>2. CASE e \notin Complete
    BY <1>2, <2>2, MoveOne DEF CallRegister, Call
  <2>. QED  BY <2>1, <2>2
<1>3. ASSUME NEW p \in Proc, PanicIncomplete(p) PROVE Exclusive'
  BY <1>3, MoveOne DEF PanicIncomplete
<1>4. ASSUME NEW p \in Proc, Lock(p) PROVE Exclusive'
  BY <1>4, MoveOne DEF Lock
<1>5. ASSUME NEW p \in Proc, Drain(p) PROVE Exclusive'
  BY <1>5, MoveOne DEF Drain
<1>6. ASSUME NEW p \in Proc, Check(p) PROVE Exclusive'
  BY <1>6, MoveOne DEF Check
<1>7. ASSUME NEW p \in Proc, Insert(p) PROVE Exclusive'
  BY <1>7, MoveOne DEF Insert
<1>8. ASSUME NEW p \in Proc, Unlock(p) PROVE Exclusive'
  BY <1>8, MoveOne DEF Unlock
<1>9. ASSUME NEW p \in Proc, RLock(p) PROVE Exclusive'
  BY <1>9, MoveOne DEF RLock
<1>10. ASSUME NEW p \in Proc, Read(p) PROVE Exclusive'
  BY <1>10, MoveOne DEF Read
<1>11. ASSUME NEW p \in Proc, RUnlock(p) PROVE Exclusive'
  BY <1>11, MoveOne DEF RUnlock
<1>12. CASE UNCHANGED vars
  BY <1>12 DEF vars
<1>. QED
  BY <1>1, <1>2, <1>3, <1>4, <1>5, <1>6, <1>7, <1>8, <1>9, <1>10, <1>11, <1>12
  DEF Next, Proceed
-----------------------------------------------------------------------------
(* The registry.                                                             *)

\* A caller the step is not about keeps all that is known of it.
LEMMA KnowledgeStep ==
  ASSUME IInv, [Next]_vars
  PROVE  Knowledge'
<1> USE DEF mutex, IInv, Answer
<1>0. TypeOK /\ TypeOK' /\ Exclusive'
  BY TypeStep, ExclusiveStep
<1>1. ASSUME NEW p \in Proc, NEW n \in Name, CallLookup(p, n) PROVE Knowledge'
  BY <1>0, <1>1, MoveOne DEF CallLookup, Call, Knowledge, TypeOK
<1>2. ASSUME NEW p \in Proc, NEW n \in Name, NEW e \in Entry, CallRegister(p, n, e)
      PROVE  Knowledge'
  BY <1>0, <1>2, MoveOne DEF CallRegister, Call, Knowledge, TypeOK
<1>3. ASSUME NEW p \in Proc, PanicIncomplete(p) PROVE Knowledge'
  BY <1>0, <1>3, MoveOne DEF PanicIncomplete, Knowledge, TypeOK
<1>4. ASSUME NEW p \in Proc, Lock(p) PROVE Knowledge'
  BY <1>0, <1>4, MoveOne DEF Lock, Knowledge, TypeOK
<1>5. ASSUME NEW p \in Proc, Drain(p) PROVE Knowledge'
  BY <1>0, <1>5, MoveOne DEF Drain, Knowledge, TypeOK
<1>6. ASSUME NEW p \in Proc, Check(p) PROVE Knowledge'
  <2>1. /\ pc[p] = "check" /\ req' = req /\ registry' = registry
        /\ \A q \in Proc \ {p} : pc'[q] = pc[q] /\ reply'[q] = reply[q]
    BY <1>0, <1>6, MoveOne DEF Check, TypeOK
  <2>2. req[p].entry \in Complete /\ reply[p] = Open
    BY <2>1 DEF Knowledge
  <2>3. \/ pc'[p] = "insert" /\ reply'[p] = reply[p] /\ registry[req[p].name] = NoEntry
        \/ /\ pc'[p] = "unlock" /\ reply'[p] = Bound(req[p].entry)
           /\ registry[req[p].name] = req[p].entry
        \/ /\ pc'[p] = "unlock" /\ reply'[p] = Refused
           /\ registry[req[p].name] \notin {NoEntry, req[p].entry}
    BY <1>0, <1>6, MoveOne DEF Check, TypeOK
  <2>. QED  BY <2>1, <2>2, <2>3 DEF Knowledge
<1>7. ASSUME NEW p \in Proc, Insert(p) PROVE Knowledge'
  BY <1>0, <1>7, MoveOne DEF Insert, Knowledge, TypeOK, Exclusive
<1>8. ASSUME NEW p \in Proc, Unlock(p) PROVE Knowledge'
  BY <1>0, <1>8, MoveOne DEF Unlock, Knowledge, TypeOK
<1>9. ASSUME NEW p \in Proc, RLock(p) PROVE Knowledge'
  BY <1>0, <1>9, MoveOne DEF RLock, Knowledge, TypeOK
<1>10. ASSUME NEW p \in Proc, Read(p) PROVE Knowledge'
  BY <1>0, <1>10, MoveOne DEF Read, Knowledge, TypeOK
<1>11. ASSUME NEW p \in Proc, RUnlock(p) PROVE Knowledge'
  BY <1>0, <1>11, MoveOne DEF RUnlock, Knowledge, TypeOK
<1>12. CASE UNCHANGED vars
  BY <1>12 DEF vars, Knowledge
<1>. QED
  BY <1>1, <1>2, <1>3, <1>4, <1>5, <1>6, <1>7, <1>8, <1>9, <1>10, <1>11, <1>12
  DEF Next, Proceed

\* What is granted, what is bound and who is refused agree.
LEMMA GrantStep ==
  ASSUME IInv, [Next]_vars
  PROVE  GrantsHold' /\ BoundGranted' /\ RefusalsJustified'
<1> USE DEF mutex, IInv, Answer
<1>0. TypeOK /\ TypeOK' /\ Exclusive
  BY TypeStep
<1>a. ASSUME UNCHANGED <<registry, granted>>,
             \A p \in Proc : pc[p] = "unlock" =>
               pc'[p] = "unlock" /\ reply'[p] = reply[p] /\ req'[p] = req[p],
             \A p \in Proc : reply'[p] = Refused =>
               \/ reply[p] = Refused /\ req'[p] = req[p]
               \/ req'[p].entry \notin Complete
               \/ \E g \in granted : g.name = req'[p].name /\ g.entry # req'[p].entry
      PROVE  GrantsHold' /\ BoundGranted' /\ RefusalsJustified'
  BY <1>a DEF GrantsHold, BoundGranted, RefusalsJustified
<1>b. Open # Refused /\ \A e : Bound(e) # Refused /\ Found(e) # Refused
  BY DEF Open, Refused, Bound, Found
<1>1. ASSUME NEW p \in Proc, NEW n \in Name, CallLookup(p, n)
      PROVE  GrantsHold' /\ BoundGranted' /\ RefusalsJustified'
  BY <1>0, <1>1, <1>a, <1>b, MoveOne DEF CallLookup, Call, TypeOK
<1>2. ASSUME NEW p \in Proc, NEW n \in Name, NEW e \in Entry, CallRegister(p, n, e)
      PROVE  GrantsHold' /\ BoundGranted' /\ RefusalsJustified'
  BY <1>0, <1>2, <1>a, <1>b, MoveOne DEF CallRegister, Call, TypeOK
<1>3. ASSUME NEW p \in Proc, PanicIncomplete(p)
      PROVE  GrantsHold' /\ BoundGranted' /\ RefusalsJustified'
  BY <1>0, <1>3, <1>a, <1>b, MoveOne DEF PanicIncomplete, TypeOK, Knowledge
<1>4. ASSUME NEW p \in Proc, Lock(p) \/ Drain(p) \/ RLock(p) \/ RUnlock(p)
      PROVE  GrantsHold' /\ BoundGranted' /\ RefusalsJustified'
  BY <1>0, <1>4, <1>a, <1>b, MoveOne DEF Lock, Drain, RLock, RUnlock
<1>6. ASSUME NEW p \in Proc, Check(p)
      PROVE  GrantsHold' /\ BoundGranted' /\ RefusalsJustified'
  <2>1. /\ pc[p] = "check" /\ req' = req /\ registry' = registry /\ granted' = granted
        /\ \A q \in Proc \ {p} : pc'[q] = pc[q] /\ reply'[q] = reply[q]
    BY <1>0, <1>6, MoveOne DEF Check, TypeOK
  <2>2. p \in writer /\ \A q \in Proc : pc[q] = "unlock" => q \in writer
    BY <2>1 DEF Exclusive
  <2>3. \A q \in Proc : pc[q] # "unlock"
    BY <1>0, <2>1, <2>2 DEF Exclusive, TypeOK
  <2>4. \A n \in Name : registry[n] # NoEntry =>
          [name |-> n, entry |-> registry[n]] \in granted
    BY <2>3 DEF BoundGranted
  <2>5. \/ reply'[p] = reply[p]
        \/ reply'[p] = Bound(req[p].entry)
        \/ registry[req[p].name] \notin {NoEntry, req[p].entry}
    BY <1>0, <1>6 DEF Check, TypeOK
  <2>6. ASSUME registry[req[p].name] \notin {NoEntry, req[p].entry}
        PROVE  \E g \in granted : g.name = req[p].name /\ g.entry # req[p].entry
    <3>1. req[p].name \in Name
      BY <1>0 DEF TypeOK
    <3>. QED  BY <2>4, <2>6, <3>1
  <2>. QED  BY <1>a, <1>b, <2>1, <2>3, <2>5, <2>6
<1>7. ASSUME NEW p \in Proc, Insert(p)
      PROVE  GrantsHold' /\ BoundGranted' /\ RefusalsJustified'
  <2>1. /\ pc[p] = "insert" /\ pc'[p] = "unlock" /\ req' = req /\ granted' = granted
        /\ \A q \in Proc \ {p} : pc'[q] = pc[q] /\ reply'[q] = reply[q]
        /\ reply'[p] = Bound(req[p].entry)
        /\ registry' = [registry EXCEPT ![req[p].name] = req[p].entry]
    BY <1>0, <1>7, MoveOne DEF Insert, TypeOK
  <2>2. registry[req[p].name] = NoEntry /\ req[p].name \in Name
    BY <1>0, <2>1 DEF Knowledge, TypeOK
  <2>3. GrantsHold'
    BY <1>0, <2>1, <2>2 DEF GrantsHold, TypeOK
  <2>4. req[p] = [name |-> req[p].name, entry |-> req[p].entry]
    BY <1>0 DEF TypeOK
  <2>5. BoundGranted'
    <3> SUFFICES ASSUME NEW n \in Name, registry'[n] # NoEntry
                 PROVE  \/ [name |-> n, entry |-> registry'[n]] \in granted
                        \/ \E q \in Proc : /\ pc'[q] = "unlock" /\ reply'[q] # Refused
                                           /\ req[q] = [name |-> n, entry |-> registry'[n]]
      BY <2>1 DEF BoundGranted
    <3>1. CASE n = req[p].name
      BY <1>0, <1>b, <2>1, <2>4, <3>1 DEF TypeOK
    <3>2. CASE n # req[p].name
      BY <1>0, <2>1, <3>2 DEF BoundGranted, TypeOK
    <3>. QED  BY <3>1, <3>2
  <2>6. RefusalsJustified'
    BY <1>b, <2>1 DEF RefusalsJustified
  <2>. QED  BY <2>3, <2>5, <2>6
<1>8. ASSUME NEW p \in Proc, Unlock(p)
      PROVE  GrantsHold' /\ BoundGranted' /\ RefusalsJustified'
  <2>1. /\ pc[p] = "unlock" /\ UNCHANGED <<req, reply, registry>>
        /\ granted' = IF reply[p] = Refused THEN granted ELSE granted \cup {req[p]}
        /\ \A q \in Proc \ {p} : pc'[q] = pc[q]
    BY <1>0, <1>8, MoveOne DEF Unlock, TypeOK
  <2>2. /\ req[p].entry \in Complete
        /\ reply[p] # Refused => registry[req[p].name] = req[p].entry
    BY <2>1 DEF Knowledge
  <2>3. GrantsHold'
    BY <2>1, <2>2 DEF GrantsHold
  <2>4. BoundGranted'
    BY <2>1 DEF BoundGranted
  <2>5. RefusalsJustified'
    BY <2>1 DEF RefusalsJustified
  <2>. QED  BY <2>3, <2>4, <2>5
<1>10. ASSUME NEW p \in Proc, Read(p)
       PROVE  GrantsHold' /\ BoundGranted' /\ RefusalsJustified'
  BY <1>0, <1>10, <1>a, <1>b, MoveOne DEF Read, TypeOK
<1>12. CASE UNCHANGED vars
  BY <1>12 DEF vars, GrantsHold, BoundGranted, RefusalsJustified
<1>. QED
  BY <1>1, <1>2, <1>3, <1>4, <1>6, <1>7, <1>8, <1>10, <1>12 DEF Next, Proceed

LEMMA InvInit == Init => IInv
BY TypeInit DEF Init, IInv, Exclusive, Critical, Knowledge, GrantsHold, BoundGranted,
                RefusalsJustified, Open, Refused

LEMMA InvStep == IInv /\ [Next]_vars => IInv'
BY TypeStep, ExclusiveStep, KnowledgeStep, GrantStep DEF IInv

THEOREM InvHolds == Spec => []IInv
BY InvInit, InvStep, PTL DEF Spec

\* A registration that has returned stays in force.
THEOREM GrantsKept == Spec => []GrantsHold
BY InvHolds, PTL DEF IInv

\* A registration is refused for a reason only.
THEOREM RefusalsCorrect == Spec => []RefusalsJustified
BY InvHolds, PTL DEF IInv
-----------------------------------------------------------------------------
(* The registry implements the book.                                         *)

LEMMA BookStep ==
  ASSUME IInv, [Next]_vars
  PROVE  [Book!Next]_(<<registry, reply>>)
<1> USE DEF mutex, Answer, Book!Next, Book!Tell, Book!Open, Book!Refused, Open, Refused
<1>0. TypeOK /\ Knowledge
  BY DEF IInv
<1>1. ASSUME NEW p \in Proc, NEW n \in Name, NEW e \in Entry \cup {NoEntry},
             CallLookup(p, n) \/ CallRegister(p, n, e)
      PROVE  Book!Next
  BY <1>1 DEF CallLookup, CallRegister, Call, Book!Take
<1>2. ASSUME NEW p \in Proc, PanicIncomplete(p) PROVE Book!Next
  BY <1>0, <1>2 DEF PanicIncomplete, Move, Knowledge, Book!Refuse
<1>3. ASSUME NEW p \in Proc, Lock(p) \/ Drain(p) \/ Unlock(p) \/ RLock(p) \/ RUnlock(p)
      PROVE  UNCHANGED <<registry, reply>>
  BY <1>3 DEF Lock, Drain, Unlock, RLock, RUnlock
<1>4. ASSUME NEW p \in Proc, Check(p) PROVE [Book!Next]_(<<registry, reply>>)
  <2>1. /\ pc[p] = "check" /\ registry' = registry /\ reply[p] = Open
        /\ req[p].name \in Name /\ req[p].entry \in Entry
    BY <1>0, <1>4 DEF Check, Move, Knowledge, TypeOK
  <2>2. CASE reply' = reply
    BY <2>1, <2>2
  <2>3. CASE registry[req[p].name] = req[p].entry
             /\ reply' = [reply EXCEPT ![p] = Bound(req[p].entry)]
    <3>1. Book!Register(p, req[p].name, req[p].entry)
      BY <2>1, <2>3 DEF Bound, Book!Register, Book!Bound
    <3>. QED  BY <2>1, <3>1
  <2>4. CASE registry[req[p].name] \notin {req[p].entry, NoEntry}
             /\ reply' = [reply EXCEPT ![p] = Refused]
    <3>1. Book!Register(p, req[p].name, req[p].entry)
      BY <2>1, <2>4 DEF Book!Register
    <3>. QED  BY <2>1, <3>1
  <2>. QED  BY <1>4, <2>2, <2>3, <2>4 DEF Check
<1>5. ASSUME NEW p \in Proc, Insert(p) PROVE Book!Next
  <2>1. /\ pc[p] = "insert" /\ reply[p] = Open
        /\ registry[req[p].name] = NoEntry
        /\ req[p].name \in Name /\ req[p].entry \in Entry
    BY <1>0, <1>5 DEF Insert, Move, Knowledge, TypeOK
  <2>2. Book!Register(p, req[p].name, req[p].entry)
    BY <1>5, <2>1 DEF Insert, Bound, Book!Register, Book!Bound
  <2>. QED  BY <2>1, <2>2
<1>6. ASSUME NEW p \in Proc, Read(p) PROVE Book!Next
  <2>1. reply[p] = Open /\ req[p].name \in Name
    BY <1>0, <1>6 DEF Read, Move, Knowledge, TypeOK
  <2>2. Book!Lookup(p, req[p].name)
    BY <1>6, <2>1 DEF Read, Found, Book!Lookup, Book!Found
  <2>. QED  BY <2>1, <2>2
<1>7. CASE UNCHANGED vars
  BY <1>7 DEF vars
<1>. QED
  BY <1>1, <1>2, <1>3, <1>4, <1>5, <1>6, <1>7 DEF Next, Proceed

\* With its lock and its many steps the registry does what a TypeBook does.
THEOREM BookKept == Spec => IsTypeBook
<1>1. Init => Book!Init
  BY DEF Init, Book!Init, Open, Book!Open
<1>2. IInv /\ [Next]_vars => [Book!Next]_(<<registry, reply>>)
  BY BookStep
<1>. QED  BY <1>1, <1>2, InvHolds, PTL DEF Spec, IsTypeBook, Book!Spec

=============================================================================

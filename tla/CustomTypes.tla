----------------------------- MODULE CustomTypes -----------------------------
(***************************************************************************)
(* entproto/custom_types.go: the process-wide registry of protobuf message *)
(* types that are defined outside the ent schemas.  Generated packages     *)
(* register their messages (RegisterCustomType), LoadAdapter registers     *)
(* what explicit field types name and looks the names up again, and all    *)
(* Extension instances of a process share the registry, which a            *)
(* sync.RWMutex guards.                                                    *)
(*                                                                         *)
(* A caller makes one call at a time, of any kind, for as long as it       *)
(* likes.  A call that panics unwinds through the deferred Unlock and the  *)
(* caller recovers.  resetCustomTypeRegistry, which only tests call, is    *)
(* left out.                                                               *)
(***************************************************************************)
CONSTANTS
  Proc,        \* the goroutines that use the registry
  Name,        \* fully-qualified message names, without a leading dot
  Entry,       \* customTypeEntry values
  Complete,    \* those with a proto file, a package and a message path
  NoEntry      \* what a name that is not in the map has

ASSUME RegistryAssumption ==
  Complete \subseteq Entry /\ NoEntry \notin Entry /\ Name # {}

VARIABLES
  registry,    \* customTypeRegistry
  writer,      \* customTypeRegistryMu: {p} from p's Lock to its Unlock, or {}
  readers,     \* those that hold the read lock
  blocked,     \* those whose RLock waits for the writer
  pc,          \* where each caller is; "idle" between calls
  req,         \* the arguments of each caller's last call
  reply,       \* what that call came to
  granted      \* every <<name, entry>> whose registration has returned

mutex == <<writer, readers, blocked>>
vars == <<registry, mutex, pc, req, reply, granted>>

Open == [kind |-> "open", entry |-> NoEntry]
Refused == [kind |-> "refused", entry |-> NoEntry]
Bound(e) == [kind |-> "bound", entry |-> e]
Found(e) == [kind |-> IF e = NoEntry THEN "unknown" ELSE "found", entry |-> e]

\* p moves from one place to another.
Move(p, from, to) == pc[p] = from /\ pc' = [pc EXCEPT ![p] = to]
Answer(p, a) == reply' = [reply EXCEPT ![p] = a]

\* A new call forgets the last one's answer.
Call(p, n, e, to) ==
  /\ Move(p, "idle", to)
  /\ req' = [req EXCEPT ![p] = [name |-> n, entry |-> e]]
  /\ Answer(p, Open)
  /\ UNCHANGED <<registry, mutex, granted>>

-----------------------------------------------------------------------------
(* registerCustomTypeDetails                                                 *)

\* An incomplete registration panics before the lock is asked for.
CallRegister(p, n, e) == Call(p, n, e, IF e \in Complete THEN "lock" ELSE "panic")

PanicIncomplete(p) ==
  /\ Move(p, "panic", "idle") /\ Answer(p, Refused)
  /\ UNCHANGED <<registry, mutex, req, granted>>

\* Mutant: registering takes the lock as looking up does, for reading.
LockShared(p) ==
  /\ Move(p, "lock", "drain")
  /\ writer' = writer \cup {p}
  /\ UNCHANGED <<registry, readers, blocked, req, reply, granted>>

\* RWMutex.Lock first shuts out other writers and new readers ...
Lock(p) ==
  /\ Move(p, "lock", "drain")
  /\ writer = {} /\ writer' = {p}
  /\ UNCHANGED <<registry, readers, blocked, req, reply, granted>>

\* ... and then waits for the readers it found.
Drain(p) ==
  /\ Move(p, "drain", "check")
  /\ readers = {}
  /\ UNCHANGED <<registry, mutex, req, reply, granted>>

\* Mutant: the last registration of a name wins.
CheckNothing(p) ==
  /\ Move(p, "check", "insert")
  /\ UNCHANGED <<registry, mutex, req, reply, granted>>

\* Mutant: a name that is taken is refused, the same entry or not.
CheckNoTwin(p) ==
  /\ IF registry[req[p].name] = NoEntry
     THEN Move(p, "check", "insert") /\ UNCHANGED reply
     ELSE Move(p, "check", "unlock") /\ Answer(p, Refused)
  /\ UNCHANGED <<registry, mutex, req, granted>>

Check(p) ==
  /\ LET r == req[p]
     IN  \/ /\ registry[r.name] = NoEntry
            /\ Move(p, "check", "insert") /\ UNCHANGED reply
         \/ /\ registry[r.name] = r.entry
            /\ Move(p, "check", "unlock") /\ Answer(p, Bound(r.entry))
         \/ /\ registry[r.name] \notin {r.entry, NoEntry}
            /\ Move(p, "check", "unlock") /\ Answer(p, Refused)
  /\ UNCHANGED <<registry, mutex, req, granted>>

Insert(p) ==
  /\ Move(p, "insert", "unlock")
  /\ registry' = [registry EXCEPT ![req[p].name] = req[p].entry]
  /\ Answer(p, Bound(req[p].entry))
  /\ UNCHANGED <<mutex, req, granted>>

\* Mutant: the unlock is not deferred, and a panic goes past it.
UnlockUnlessPanic(p) ==
  /\ Move(p, "unlock", "idle")
  /\ IF reply[p] = Refused
     THEN UNCHANGED <<mutex, granted>>
     ELSE /\ writer' = {} /\ readers' = readers \cup blocked /\ blocked' = {}
          /\ granted' = granted \cup {req[p]}
  /\ UNCHANGED <<registry, req, reply>>

\* The deferred Unlock, on a return and on a panic alike, lets in the readers
\* that arrived meanwhile.
Unlock(p) ==
  /\ Move(p, "unlock", "idle")
  /\ writer' = {}
  /\ readers' = readers \cup blocked
  /\ blocked' = {}
  /\ granted' = IF reply[p] = Refused THEN granted ELSE granted \cup {req[p]}
  /\ UNCHANGED <<registry, req, reply>>

-----------------------------------------------------------------------------
(* lookupCustomType                                                          *)

CallLookup(p, n) == Call(p, n, NoEntry, "rlock")

RLock(p) ==
  /\ Move(p, "rlock", "read")
  /\ IF writer = {}
     THEN readers' = readers \cup {p} /\ UNCHANGED blocked
     ELSE blocked' = blocked \cup {p} /\ UNCHANGED readers
  /\ UNCHANGED <<registry, writer, req, reply, granted>>

Read(p) ==
  /\ p \in readers
  /\ Move(p, "read", "runlock") /\ Answer(p, Found(registry[req[p].name]))
  /\ UNCHANGED <<registry, mutex, req, granted>>

RUnlock(p) ==
  /\ Move(p, "runlock", "idle")
  /\ readers' = readers \ {p}
  /\ UNCHANGED <<registry, writer, blocked, req, reply, granted>>

-----------------------------------------------------------------------------

Init ==
  /\ registry = [n \in Name |-> NoEntry]
  /\ writer = {} /\ readers = {} /\ blocked = {}
  /\ pc = [p \in Proc |-> "idle"]
  /\ req = [p \in Proc |-> [name |-> CHOOSE n \in Name : TRUE, entry |-> NoEntry]]
  /\ reply = [p \in Proc |-> Open]
  /\ granted = {}

\* The steps of a call that has begun.
Proceed(p) ==
  \/ PanicIncomplete(p)
  \/ Lock(p) \/ Drain(p) \/ Check(p) \/ Insert(p) \/ Unlock(p)
  \/ RLock(p) \/ Read(p) \/ RUnlock(p)

Next == \E p \in Proc :
  \/ \E n \in Name : CallLookup(p, n) \/ \E e \in Entry : CallRegister(p, n, e)
  \/ Proceed(p)

Spec == Init /\ [][Next]_vars

\* A goroutine that can run does.  Writers queue for the mutex, and a mutex in
\* starvation mode hands itself to the one that has waited longest.
FairSpec == Spec /\ \A p \in Proc : WF_vars(Proceed(p)) /\ SF_vars(Lock(p))

-----------------------------------------------------------------------------
(* Properties.                                                               *)

Line == {"idle", "panic", "lock", "drain", "check", "insert", "unlock", "rlock", "read",
         "runlock"}
Critical == {"check", "insert", "unlock"}

\* Every variable stays in its range, and no two callers are past Lock.
TypeOK ==
  /\ registry \in [Name -> Entry \cup {NoEntry}]
  /\ writer \in {{}} \cup {{p} : p \in Proc}
  /\ readers \subseteq Proc /\ blocked \subseteq Proc
  /\ pc \in [Proc -> Line]
  /\ req \in [Proc -> [name : Name, entry : Entry \cup {NoEntry}]]
  /\ reply \in [Proc -> [kind : {"open", "refused", "bound", "unknown", "found"},
                         entry : Entry \cup {NoEntry}]]
  /\ granted \subseteq [name : Name, entry : Entry \cup {NoEntry}]

\* A registration that has returned was complete and stays in force: whoever asks
\* later is told that entry, and no two callers are ever granted different
\* entries for a name.
GrantsHold == \A g \in granted : registry[g.name] = g.entry /\ g.entry \in Complete

\* A call panics only because of its own arguments, or because another call was
\* granted the name for another entry before.
RefusalsJustified ==
  \A p \in Proc : reply[p] = Refused =>
    \/ req[p].entry \notin Complete
    \/ \E g \in granted : g.name = req[p].name /\ g.entry # req[p].entry

\* Every call returns or panics, whatever the other callers do.
CallsReturn == \A p \in Proc : pc[p] # "idle" ~> pc[p] = "idle"

\* The registry with its lock does what a TypeBook does in single steps.
Book == INSTANCE TypeBook WITH book <- registry, answer <- reply
IsTypeBook == Book!Spec

\* The lock keeps a writer alone: inductive with the lines above.
Exclusive ==
  /\ \A p \in Proc :
       /\ pc[p] \in {"drain", "check", "insert", "unlock"} <=> p \in writer
       /\ pc[p] = "runlock" => p \in readers
       /\ pc[p] = "read" <=> p \in (readers \cup blocked) /\ pc[p] # "runlock"
  /\ \A p, q \in writer : p = q
  /\ readers \cap blocked = {}
  /\ (\E p \in Proc : pc[p] \in Critical) => readers = {}

\* What a caller knows of the registry while it holds the lock.
Knowledge ==
  \A p \in Proc :
    /\ pc[p] \in {"lock", "drain", "check", "insert", "unlock"} => req[p].entry \in Complete
    /\ pc[p] = "panic" => req[p].entry \notin Complete
    /\ pc[p] \notin {"idle", "unlock", "runlock"} => reply[p] = Open
    /\ pc[p] = "insert" => registry[req[p].name] = NoEntry
    /\ pc[p] = "unlock" =>
         \/ reply[p] = Bound(req[p].entry) /\ registry[req[p].name] = req[p].entry
         \/ reply[p] = Refused /\ registry[req[p].name] \notin {NoEntry, req[p].entry}

\* Whatever the registry holds was granted, or is about to be.
BoundGranted ==
  \A n \in Name : registry[n] # NoEntry =>
    \/ [name |-> n, entry |-> registry[n]] \in granted
    \/ \E p \in Proc : /\ pc[p] = "unlock" /\ reply[p] # Refused
                       /\ req[p] = [name |-> n, entry |-> registry[n]]

IInv ==
  /\ TypeOK
  /\ Exclusive
  /\ Knowledge
  /\ GrantsHold
  /\ BoundGranted
  /\ RefusalsJustified
=============================================================================

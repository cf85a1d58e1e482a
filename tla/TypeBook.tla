------------------------------ MODULE TypeBook ------------------------------
(***************************************************************************)
(* What the registry of custom protobuf types promises, with every call a  *)
(* single step: a name is bound once and for good, binding it again to the *)
(* same entry changes nothing, binding it to another entry is refused, and *)
(* a lookup tells what the name is bound to at that moment.                *)
(***************************************************************************)
CONSTANTS Proc, Name, Entry, NoEntry

VARIABLES
  book,       \* what each name is bound to
  answer      \* what each caller was told last: [kind, entry]

Open == [kind |-> "open", entry |-> NoEntry]
Refused == [kind |-> "refused", entry |-> NoEntry]
Bound(e) == [kind |-> "bound", entry |-> e]
Found(e) == [kind |-> IF e = NoEntry THEN "unknown" ELSE "found", entry |-> e]

Init ==
  /\ book = [n \in Name |-> NoEntry]
  /\ answer = [p \in Proc |-> Open]

\* A caller without an answer gets one; the others keep theirs.
Tell(p, a) == answer[p] = Open /\ answer' = [answer EXCEPT ![p] = a]

Register(p, n, e) ==
  \/ book[n] = NoEntry /\ book' = [book EXCEPT ![n] = e] /\ Tell(p, Bound(e))
  \/ book[n] = e /\ book' = book /\ Tell(p, Bound(e))
  \/ book[n] \notin {e, NoEntry} /\ book' = book /\ Tell(p, Refused)

\* A registration that is not complete is refused whatever is bound.
Refuse(p) == book' = book /\ Tell(p, Refused)

Lookup(p, n) == book' = book /\ Tell(p, Found(book[n]))

\* The caller goes on with its answer.
Take(p) == book' = book /\ answer' = [answer EXCEPT ![p] = Open]

Next == \E p \in Proc :
  \/ \E n \in Name : Lookup(p, n) \/ \E e \in Entry : Register(p, n, e)
  \/ Refuse(p)
  \/ Take(p)

Spec == Init /\ [][Next]_<<book, answer>>
=============================================================================

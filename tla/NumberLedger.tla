---------------------------- MODULE NumberLedger ----------------------------
(***************************************************************************)
(* What field numbering promises, with nothing said of how numbers are     *)
(* found.  A ledger gives members of protobuf messages (the ID, the fields *)
(* and the edges of a schema) their field numbers.  It is opened on the    *)
(* numbers the schema authors wrote.  While it is open an entry is written *)
(* once and never changed or struck out, it holds a number protobuf allows *)
(* to users, and it repeats no number of its own message.  Numbering may   *)
(* give up at any point; what was entered until then stays.                *)
(***************************************************************************)
EXTENDS Integers

CONSTANTS
  Member,     \* every ID, field and edge of every schema
  SchemaOf    \* the schema each member belongs to

VARIABLES
  ledger,     \* the numbers given so far: a function on the numbered members
  open        \* whether a numbering pass is under way

\* The numbers message s uses already.
InUse(s) == {ledger[k] : k \in {m \in DOMAIN ledger : SchemaOf[m] = s}}

\* protobuf numbers run from 1 to 2^29-1; 19000 to 19999 belong to protobuf.
Largest == 536870911
Allowed(n) == n \in 1..Largest /\ n \notin 19000..19999

Init == ~open /\ DOMAIN ledger = {}

\* A pass starts: on freshly read schemas, or on a graph numbered before.
Open ==
  /\ ~open /\ open'
  /\ DOMAIN ledger' \subseteq Member

Enter(m) ==
  /\ open /\ open'
  /\ m \notin DOMAIN ledger
  /\ DOMAIN ledger' = DOMAIN ledger \cup {m}
  /\ \A k \in DOMAIN ledger : ledger'[k] = ledger[k]
  /\ Allowed(ledger'[m])
  /\ ledger'[m] \notin InUse(SchemaOf[m])

Close ==
  /\ open /\ ~open'
  /\ ledger' = ledger

\* The graph is dropped together with its numbers.
Discard ==
  /\ ~open /\ ~open'
  /\ DOMAIN ledger' = {}

Next == Open \/ (\E m \in Member : Enter(m)) \/ Close \/ Discard

Spec == Init /\ [][Next]_<<ledger, open>>
=============================================================================

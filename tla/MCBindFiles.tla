------------------------------ MODULE MCBindFiles ------------------------------
\* Entities of the types User (twice, for one action each, or once with both),
\* Options, whose file's name is that of the options, and User_1, which may meet the
\* second file of User.  One of them fits or does not, is complete or not, can be
\* formatted or not.
EXTENDS BindFiles, TLC

MCName == {"options", "user", "user_1"}
MCAction == {"CreateUser", "UpdateUser", "CreateOptions"}
MCPath == [n \in MCName |-> [k \in 0..4 |-> IF k = 0 THEN n ELSE n \o "_" \o ToString(k)]]
MCFile == {MCPath[n][k] : n \in MCName, k \in 0..4}

Entity1(n, a) ==
  [name |-> n, complete |-> TRUE, actions |-> a, fits |-> TRUE, renders |-> TRUE]
Create == Entity1("user", {"CreateUser"})
Update == Entity1("user", {"UpdateUser"})
Both == Entity1("user", {"CreateUser", "UpdateUser"})
Own == Entity1("options", {"CreateOptions"})
Idle == Entity1("user", {})
Like == Entity1("user_1", {"CreateUser"})

Lists == {
  <<>>, <<Both>>, <<Create, Update>>, <<Own, Idle, Update>>, <<Create, Like, Update>>,
  <<Create, [Update EXCEPT !.renders = FALSE]>>, <<Own, [Update EXCEPT !.complete = FALSE]>>}
MCConfs ==
  {[entities |-> l, remove |-> r, strict |-> TRUE, package |-> TRUE] : l \in Lists, r \in BOOLEAN}
    \cup {[entities |-> <<Create, [Update EXCEPT !.fits = FALSE]>>, remove |-> TRUE,
           strict |-> s, package |-> TRUE] : s \in BOOLEAN}
    \cup {[entities |-> <<>>, remove |-> TRUE, strict |-> TRUE, package |-> FALSE]}
MCUserFiles == {"user"}
=============================================================================

-------------------------------- MODULE MCBind --------------------------------
\* Two fields: the types of the one vary in every way that the generator or the
\* template looks at, and it is the one that options name; the other comes after
\* it, binds, and does not when its setter has too many parameters.
EXTENDS Bind

CONSTANTS a, b

MCKeys == <<a, b>>

Plain == [target |-> TRUE, setter |-> "ok", settNillable |-> TRUE, clear |-> TRUE,
          ptr |-> TRUE, fit |-> "same", converter |-> "none"]
Bound == [Plain EXCEPT !.settNillable = FALSE, !.clear = FALSE, !.ptr = FALSE]
MCShapes ==
  [f \in {a, b} |->
    IF f = b THEN {Bound, [Bound EXCEPT !.setter = "bad"]}
    ELSE {s \in Shape : s.target /\ s.setter = "ok"}
           \cup {[Plain EXCEPT !.target = FALSE], [Plain EXCEPT !.setter = "none"],
                 [Plain EXCEPT !.setter = "bad"]}]
MCIgnorable == {{}, {a}}
MCOptional == {{}, {a}}
=============================================================================

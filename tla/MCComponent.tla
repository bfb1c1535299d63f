---------------------------- MODULE MCComponent ----------------------------
(***************************************************************************)
(* Small formulas over eight variables: a unit clause, two gadgets that    *)
(* are the same up to a rotation of their three variables, a gadget that   *)
(* is not, and a free variable.                                            *)
(***************************************************************************)
EXTENDS ComponentBuild

\* A gadget with no symmetry, over any three variables.
Gadget(a, b, c) == <<{a, b}, {-b, c}, {b, c}>>
Other(a, b, c) == <<{a, b, c}, {-a}>>

Twins == <<{1}>> \o Gadget(2, 3, 4) \o Gadget(7, 5, 6)
Strangers == <<{1}, {-1}>> \o Other(5, 2, 3) \o Gadget(4, 6, 7)
Chain == <<{1, 5}, {1, 2, 3}, {6, 7}, {-7, 4}>>
Singles == <<{1}, {-6}, {2, 3, 8}, {5}>>
Contradicted == <<{}, {}, {2, 3}>>

Request(clauses) ==
  [clauses |-> clauses, show |-> None, deadline |-> None, structural |-> TRUE, whole |-> FALSE]

MCRequests ==
  {[Request(Twins) EXCEPT !.show = S, !.deadline = d] : S \in {None, {2, 7}, {2, 5}}, d \in {None, 6}}
  \cup {[Request(Strangers) EXCEPT !.show = {1, 5}, !.deadline = d] : d \in {0, 7}}
  \cup {[Request(Chain) EXCEPT !.deadline = 6, !.whole = w] : w \in BOOLEAN}
  \cup {[Request(Twins) EXCEPT !.structural = FALSE], Request(Contradicted),
        [Request(Singles) EXCEPT !.show = {2, 5}, !.deadline = 7]}
=============================================================================

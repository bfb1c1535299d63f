------------------------------- MODULE MCProbe -------------------------------
(***************************************************************************)
(* Formulas for the probing stage: what the Tarjan stage leaves of them.   *)
(***************************************************************************)
EXTENDS ProbeStage

\* a and b are equal, which no binary clause shows.
Equal(a, b, z) == {{a, -b, z}, {-a, b, z}, {a, -b, -z}, {-a, b, -z}}
\* a holds in every model, which only a case split on b and c finds.
Forced(a, b, c) == {{a, b, c}, {a, -b, c}, {a, b, -c}, {a, -b, -c}}
\* Once a is known, binary clauses make b and d equal.
Guarded(a, b, d) == {{-a, b, -d}, {-a, -b, d}}
Every == {c \in Clauses : Appearing({c}) = {1, 2, 3}}

Wide(vs) == {c \in Clauses : Cardinality(c) \in 2 .. 3 /\ Appearing({c}) \subseteq vs}
Inputs ==
  {Equal(1, 3, 2) \cup {c} : c \in Wide({1, 2, 3})}
    \cup {Equal(-1, 2, 4) \cup Equal(-1, 3, 4) \cup {c} : c \in Wide({1, 4})}
    \cup {Forced(3, 1, 2) \cup {c} : c \in Wide({1, 2})}
    \cup {Forced(-1, 3, 2) \cup Guarded(-1, 2, 4) \cup {c} : c \in Wide({2, 3})}
    \cup {Every}

AllJobs ==
  {[formula |-> F, equiv |-> TRUE] :
     F \in {Extracted(G) : G \in {H \in Inputs : ~EquivContradiction(H)}}}
    \cup {[formula |-> Equal(1, 3, 2), equiv |-> FALSE]}

=============================================================================

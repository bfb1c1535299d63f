----------------------------- MODULE MCSimplify -----------------------------
(***************************************************************************)
(* Jobs for the model checker.                                             *)
(***************************************************************************)
EXTENDS SimplifyChain

Clauses23 == {c \in Clauses : Cardinality(c) \in 1 .. 3}
Plain == [v \in Vars |-> <<1, 1>>]

\* Chains of equivalences, one under the other: the second appears only once
\* the first has been substituted.
Nested == {{{1, -2}, {-1, 2}, {1, 2, -3}, {-1, -2, 3}} \cup {c} : c \in Clauses23}
Opposites == {{{u, u + 1}, {-u, -u - 1}, c} : u \in {1, 2}, c \in Clauses23}
Odd == {{{1, 2}, {-1, -2}, c, d} : c, d \in {e \in Clauses23 : Cardinality(e) <= 2}}
Apart == {{{1, 3}, c} : c \in Clauses23}

Job(F, purposes, prefixes, equivalents, shows, weights) ==
  [formula : F, purpose : purposes, prefix : prefixes, dve : {TRUE}, equivalent : equivalents,
   show : shows, weights : weights]

Partners == [v \in Vars |-> CASE v = 1 -> <<2, 2>> [] v = 2 -> <<1, 2>> [] OTHER -> <<3, 3>>]
Skewed == [v \in Vars |-> CASE v = 1 -> <<1, 2>> [] v = 2 -> <<2, 2>> [] OTHER -> <<1, 1>>]

\* No variable is forced both ways by unit clauses of the input: see the README
\* for what stripping does with those when no solver can be built.
Consistent(S) == {F \in S : \A l \in Lits : {l} \notin F \/ {-l} \notin F}
ChainJobs ==
  Job(Consistent(Nested \cup Opposites \cup Odd \cup Apart), {"count"}, {"eq_iter", "backbone"}, {FALSE}, {{}}, {Plain})
    \cup Job(Consistent(Nested \cup Odd), {"weighted"}, {"eq_iter", "backbone"}, {FALSE}, {{}},
            {Skewed, Partners})
    \cup Job(Nested \cup Opposites, {"function"},
            {"disabled", "eq_iter", "backbone"}, BOOLEAN, {{1, 2}, {3}}, {Plain})
=============================================================================

----------------------------- MODULE Components -----------------------------
(***************************************************************************)
(* The independent components of a formula, and a component seen from      *)
(* inside (src/src/cnf/components.rs, src/src/component/mod.rs).  A        *)
(* formula is the sequence of its clauses here, a component the set of the *)
(* indices of its clauses.                                                 *)
(***************************************************************************)
EXTENDS Cnf, SequencesExt, FiniteSetsExt

CONSTANT None

-----------------------------------------------------------------------------
(***************************************************************************)
(* The split (cnf/components.rs).                                          *)
(***************************************************************************)
ClauseVars(c) == {VarOf(l) : l \in c}

Unite(find, S) ==
  LET reps == {find[v] : v \in S}
  IN  [v \in Vars |-> IF find[v] \in reps THEN Min(reps) ELSE find[v]]

\* Mutant: a clause unites its two smallest variables only.
BugUnitesTwo(clauses) ==
  FoldLeft(LAMBDA find, c : Unite(find, {v \in ClauseVars(c) : Cardinality({w \in ClauseVars(c) : w < v}) < 2}),
           [v \in Vars |-> v], clauses)

\* Every clause unites its variables: a variable's representative.
Representative(clauses) ==
  FoldLeft(LAMBDA find, c : Unite(find, ClauseVars(c)), [v \in Vars |-> v], clauses)

\* The clauses of each representative; the empty clauses are one group.
Groups(clauses) ==
  LET find == Representative(clauses)
      rep == [i \in DOMAIN clauses |-> IF clauses[i] = {} THEN 0 ELSE find[Min(ClauseVars(clauses[i]))]]
  IN  {{j \in DOMAIN clauses : rep[j] = rep[i]} : i \in DOMAIN clauses}

\* S as a sequence, ascending in a strict order that is total on it.
Ascending(S, Less(_, _)) ==
  [i \in 1 .. Cardinality(S) |-> CHOOSE x \in S : Cardinality({y \in S : Less(y, x)}) = i - 1]

VarsOf(clauses, C) == UNION {ClauseVars(clauses[i]) : i \in C}
FirstVar(clauses, C) == IF VarsOf(clauses, C) = {} THEN NumVars + 1 ELSE Min(VarsOf(clauses, C))

\* The smallest component first, then the one of the smallest variable; a
\* formula of one component is not split.
DetectComponents(clauses) ==
  LET groups == Groups(clauses)
      Precedes(C, D) == \/ Cardinality(C) < Cardinality(D)
                        \/ Cardinality(C) = Cardinality(D) /\ FirstVar(clauses, C) < FirstVar(clauses, D)
  IN  IF Cardinality(groups) <= 1 THEN <<>> ELSE Ascending(groups, Precedes)

-----------------------------------------------------------------------------
(***************************************************************************)
(* A component in its own numbering.                                       *)
(***************************************************************************)

\* The outer variable of each local one, ascending.
LocalToOuter(clauses, C) == Ascending(VarsOf(clauses, C), <)

Renamed(c, name) == {IF l > 0 THEN name[l] ELSE -name[-l] : l \in c}

\* LocalView: the clauses over 1 .. K, as a multiset, and the show set.
LocalView(r, C) ==
  LET outer == LocalToOuter(r.clauses, C)
      local == [v \in ToSet(outer) |-> CHOOSE i \in DOMAIN outer : outer[i] = v]
      named == [i \in C |-> Renamed(r.clauses[i], local)]
  IN  [size |-> Len(outer), outer |-> outer,
       clauses |-> [d \in {named[i] : i \in C} |-> Cardinality({i \in C : named[i] = d})],
       show |-> IF r.show = None THEN None ELSE {local[v] : v \in r.show \cap ToSet(outer)}]

=============================================================================

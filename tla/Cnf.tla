-------------------------------- MODULE Cnf --------------------------------
(***************************************************************************)
(* Clauses and their models, as the preprocessing passes see them          *)
(* (src/src/cnf/).  A literal is a non-zero integer, as in DIMACS; a       *)
(* clause is the set of its literals, which is what normalize_literals     *)
(* leaves of a literal list; a formula is a set of clauses.  An assignment *)
(* is the set of the variables it makes true.                              *)
(***************************************************************************)
EXTENDS Integers, Sequences, FiniteSetsExt

CONSTANT NumVars        \* how many variables the formula declares

ASSUME NumVarsAssumption == NumVars \in Nat \ {0}

Vars == 1 .. NumVars
Lits == Vars \cup {-v : v \in Vars}

\* The variable a literal is over.
VarOf(l) == IF l > 0 THEN l ELSE -l

\* A clause with both signs of a variable: normalize_literals drops it.
Tautology(c) == \E l \in c : -l \in c

Clauses == {c \in SUBSET Lits : ~Tautology(c)}

\* The variables some clause mentions (occ::appearance_mask).
Appearing(F) == {VarOf(l) : l \in UNION F}

\* How often a literal occurs (occ::literal_frequency).
Freq(F, l) == Cardinality({c \in F : l \in c})

\* Does the literal l hold when exactly the variables of T are true?
Holds(l, T) == IF l > 0 THEN l \in T ELSE -l \notin T

Satisfies(T, F) == \A c \in F : \E l \in c : Holds(l, T)

\* The models of F over the variables V; counting them is what a run is for.
Models(F, V) == {T \in SUBSET V : Satisfies(T, F)}

\* The unit clauses of a set of literals.
Units(L) == {{l} : l \in L}

-----------------------------------------------------------------------------
(***************************************************************************)
(* Resolution on one variable (split_on, resolve_sorted).                  *)
(***************************************************************************)

\* The clauses of F that hold the literal l, stripped of it.
Stripped(F, l) == {c \ {l} : c \in {d \in F : l \in d}}

\* The clauses that do not mention v.
Without(F, v) == {c \in F : v \notin c /\ -v \notin c}

\* Mutant: a literal both parents share is taken for a clash.
BugSharedIsClash(F, v) ==
  {p \in Stripped(F, v) \X Stripped(F, -v) : ~Tautology(p[1] \cup p[2]) /\ p[1] \cap p[2] = {}}

\* The pairs that have a resolvent on v: merging them yields no tautology.
ResolvingPairs(F, v) ==
  {p \in Stripped(F, v) \X Stripped(F, -v) : ~Tautology(p[1] \cup p[2])}

Resolvents(F, v) == {p[1] \cup p[2] : p \in ResolvingPairs(F, v)}

-----------------------------------------------------------------------------
(***************************************************************************)
(* Equivalent literals (equivalence::implication_sccs).                    *)
(***************************************************************************)

\* Each binary clause (a \/ b) is the two edges  ~a -> b  and  ~b -> a.
Implications(F) ==
  UNION {{<<-l, m>> : l, m \in c} \ {<<-l, l>> : l \in c} : c \in {d \in F : Cardinality(d) = 2}}

\* The graph spans only the literals some binary clause mentions.
Nodes(edges) == {e[1] : e \in edges} \cup {e[2] : e \in edges}

\* The relation R with the paths through the node n added.
Through(n, R) ==
  R \cup {<<p[1][1], p[2][2]>> : p \in {e \in R : e[2] = n} \X {e \in R : e[1] = n}}

\* The pairs of literals in one strongly connected component of that graph.
SameLiterals(F) ==
  LET edges == Implications(F)
      reaches == FoldSet(Through, edges, Nodes(edges))
  IN  {<<l, l>> : l \in Lits} \cup {p \in reaches : <<p[2], p[1]>> \in reaches}

\* Mutant: only positive occurrences are replaced.
BugPositiveOnly(c, onto) == {IF l > 0 THEN onto[l] ELSE l : l \in c}

\* The literals of c with every variable v replaced by the literal onto[v].
Replaced(c, onto) == {IF l > 0 THEN onto[l] ELSE -onto[-l] : l \in c}

\* substitute_clause over a clause set: tautologies go, and so do duplicates.
Substituted(F, onto) == {c \in {Replaced(d, onto) : d \in F} : ~Tautology(c)}

=============================================================================

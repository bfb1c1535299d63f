------------------------------ MODULE Rewrites ------------------------------
(***************************************************************************)
(* What the preprocessing passes do to a clause set before DVE: unit       *)
(* propagation, the substitution of equivalent literals, and what the      *)
(* probing stage may leave (src/src/preprocess/).                          *)
(***************************************************************************)
EXTENDS Cnf, SequencesExt

Refuted(C) == {} \in C
Contradiction == {{}}
Identity == [v \in Vars |-> v]

-----------------------------------------------------------------------------
(***************************************************************************)
(* Unit propagation and equivalences, over a clause set.                   *)
(***************************************************************************)

\* One sweep over the clauses: every literal whose clause has no other way out.
Implied(C, L) == L \cup {l \in UNION C : \E c \in C : l \in c /\ \A m \in c \ {l} : -m \in L}

\* The assignment propagation ends with: each sweep adds a literal or none ever.
UnitClosure(C) == FoldLeft(LAMBDA L, i : Implied(C, L), {}, [i \in 1 .. 2 * NumVars |-> i])

\* propagate: the clauses left, and the forced literals beside them.
Propagated(C) ==
  LET L == UnitClosure(C)
  IN  IF Refuted(C) \/ \E l \in L : -l \in L THEN Contradiction
      ELSE {{l \in c : -l \notin L} : c \in {d \in C : d \cap L = {}}}

\* With the forced literals pinned again as unit clauses.
Repinned(C) ==
  IF Propagated(C) = Contradiction THEN Contradiction ELSE Propagated(C) \cup Units(UnitClosure(C))

\* Mutant: the polarity of the class is lost.
BugPositiveRep(same, v) ==
  CHOOSE u \in Vars : /\ {<<v, u>>, <<v, -u>>} \cap same # {}
                     /\ \A w \in Vars : {<<v, w>>, <<v, -w>>} \cap same # {} => u <= w

\* scc_representatives: the literal of the class with the smallest variable.
RepOf(same, v) ==
  CHOOSE l \in Lits : <<v, l>> \in same /\ \A m \in Lits : <<v, m>> \in same => VarOf(l) <= VarOf(m)

EquivContradiction(C) == \E p \in SameLiterals(C) : p[1] = -p[2]

\* var_to_rep over the variables 1 .. NumVars.
VarToRep(C) == LET same == SameLiterals(C) IN [v \in Vars |-> RepOf(same, v)]

\* The clauses that hold each partner to its representative.
Ties(rep) == UNION {{{-v, rep[v]}, {v, -rep[v]}} : v \in {w \in DOMAIN rep : rep[w] # w}}

\* extract_equivalences_with_mapping.
Extracted(C) == IF EquivContradiction(C) THEN Contradiction
                ELSE Substituted(C, VarToRep(C)) \cup Ties(VarToRep(C))
ExtractedMap(C) == IF EquivContradiction(C) THEN Identity ELSE VarToRep(C)

MapLit(rep, l) == IF l > 0 THEN rep[l] ELSE -rep[-l]

\* has_new_class.
HasNewClass(found, known) == \E v \in Vars : MapLit(known, found[v]) # MapLit(known, v)

-----------------------------------------------------------------------------
(***************************************************************************)
(* The probing stage, by what it promises: module ProbeStage is the stage  *)
(* step by step.                                                           *)
(***************************************************************************)

Backbone(C) == {l \in Lits : VarOf(l) \in Appearing(C) /\ \A T \in Models(C, Vars) : Holds(l, T)}

\* The backbone phase of the probe: some backbone literals confirmed, or a
\* refutation, or nothing when the solver cannot be built or runs out of time.
AfterBackbone(C) ==
  IF Models(C, Vars) = {} THEN {C, Contradiction}
  ELSE {IF B = {} THEN C ELSE Repinned(C \cup Units(B)) : B \in SUBSET Backbone(C)}

\* A pair of literals of two live variables, equal in every model.
EqualPairs(C) ==
  {p \in Appearing(C) \X Lits :
     /\ VarOf(p[2]) \in Appearing(C) /\ p[1] < VarOf(p[2])
     /\ ExtractedMap(C)[p[1]] = p[1] /\ ExtractedMap(C)[VarOf(p[2])] = VarOf(p[2])
     /\ \A T \in Models(C, Vars) : Holds(p[1], T) <=> Holds(p[2], T)}

Biconditionals(P) == UNION {{{-p[1], p[2]}, {p[1], -p[2]}} : p \in P}

\* What is left when the pairs of P were confirmed on C.
Probed(C, P) ==
  IF EquivContradiction(C) THEN Contradiction ELSE Extracted(C) \cup Biconditionals(P)

=============================================================================

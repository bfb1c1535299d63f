---------------------------- MODULE WeightedDve ----------------------------
(***************************************************************************)
(* The weighted counting mode over DVE (src/src/preprocess/weighted_lift.rs *)
(* and the verdict count_stage1 takes): DVE runs with the variables of     *)
(* unequal weights frozen, the weights of the merged variables are folded   *)
(* into their survivors, and an outcome no scalar can express is reverted.  *)
(* Stripping and the equivalence reduction before DVE are the identity     *)
(* here; module SimplifyChain composes them with what DVE promises.         *)
(***************************************************************************)
EXTENDS Dve, Weights

CONSTANT Tables      \* the weights, for each set of variables that have unequal ones

ASSUME TablesAssumption ==
  /\ \A S \in DOMAIN Tables : Tables[S] \in [Vars -> Nat \X Nat] /\ UnequalVars(Tables[S]) = S
  /\ \A k \in Calls : ~k.projected => k.frozen \in DOMAIN Tables

Table == Tables[Frozen]

Merged == {v \in Vars : fate[v] = "equiv"}
Defined == {v \in Vars : fate[v] = "defined"}
Folding == {v \in Merged : fate[VarOf(Survivor(v))] = "kept"}

BugOneHop == FoldLeft(LAMBDA w, v : FoldInto(w, w[v], rep[v]), Table, SetToSortSeq(Merged, <))

\* folded_weights: each merged variable whose chain ends at a kept one.
FoldedWeights == FoldLeft(LAMBDA w, v : FoldInto(w, w[v], Survivor(v)), Table, SetToSortSeq(Folding, <))

\* classify_dve: a chain that ends at an eliminated variable, or a defined
\* variable of unequal weights, is out of a scalar's reach.
Supported ==
  /\ Folding = Merged
  /\ \A v \in Defined : FoldedWeights[v][1] = FoldedWeights[v][2]

BugAlwaysKeep == FALSE         \* mutant: no verdict

\* dve_verdict with the freeze on: only an unsupported elimination reverts.
Reverts == ~Supported

\* dve_correction.
DveCorrection ==
  Product(LAMBDA v : FoldedWeights[v][1] + FoldedWeights[v][2], FreeVars)
    * Product(LAMBDA v : FoldedWeights[v][2], Defined)

InputCount == WeightedCount(formula, Declared, Table)

\* The literals whose variables the outcome names free although the formula
\* implies them.
FreeButImplied == {l \in aside : fate[VarOf(l)] = "free"}
WeightOf(l) == FoldedWeights[VarOf(l)][IF l > 0 THEN 2 ELSE 1]

\* A DVE that is kept: the residual's weighted count under the folded weights,
\* times the correction, is the input's, whatever chains of merges, eliminations
\* and second passes led there.  A literal that was set aside and never crossed
\* costs its variable's sum of weights instead of its own.
KeptCountIsExact ==
  phase = "done" /\ ~Projected /\ ~Reverts /\ ~Crossed =>
    InputCount * Product(LAMBDA l : FoldedWeights[VarOf(l)][1] + FoldedWeights[VarOf(l)][2],
                         FreeButImplied)
      = DveCorrection * WeightedCount(clauses, KeptVars, FoldedWeights)
          * Product(WeightOf, FreeButImplied)

\* A DVE that is reverted: "dropping the DVE stage restores the exact pre-DVE
\* formula", and the weights folded before the verdict are its weights.
RevertRestoresCount ==
  phase = "done" /\ ~Projected /\ Reverts => InputCount = WeightedCount(formula, Declared, FoldedWeights)

=============================================================================

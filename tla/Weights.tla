------------------------------ MODULE Weights ------------------------------
(***************************************************************************)
(* Literal weights (src/src/cnf/weights.rs): a table gives each variable   *)
(* the pair of its negative and its positive literal's weight.             *)
(***************************************************************************)
EXTENDS Cnf, SequencesExt

Product(f(_), S) == MapThenFoldSet(LAMBDA a, b : a * b, 1, f, LAMBDA T : CHOOSE x \in T : TRUE, S)

\* The weighted count of the formula F over the variables V.
WeightedCount(F, V, w) ==
  MapThenSumSet(LAMBDA T : Product(LAMBDA v : w[v][IF v \in T THEN 2 ELSE 1], V), Models(F, V))

\* The pair of a literal: the anti-equivalence swap.
Signed(pair, l) == IF l > 0 THEN pair ELSE <<pair[2], pair[1]>>

\* Mutant: the swap is left out.
BugNoSwap(w, pair, l) == [w EXCEPT ![VarOf(l)] = <<@[1] * pair[1], @[2] * pair[2]>>]

\* fold_into: multiply an eliminated variable's weights into its survivor.
FoldInto(w, pair, l) ==
  [w EXCEPT ![VarOf(l)] = <<@[1] * Signed(pair, l)[1], @[2] * Signed(pair, l)[2]>>]

UnequalVars(w) == {v \in DOMAIN w : w[v][1] # w[v][2]}

=============================================================================

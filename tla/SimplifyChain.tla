--------------------------- MODULE SimplifyChain ---------------------------
(***************************************************************************)
(* The chain behind a bundle: simplify() with its prefix pipelines, the     *)
(* stripping, the equivalence reduction and DVE (src/src/preprocess), then  *)
(* for the counting modes an Arjun run and the record (count_chain.rs), and *)
(* for the compile mode the fates of the original variables                 *)
(* (compile_chain.rs).                                                     *)
(*                                                                         *)
(* A layer numbers its variables from 1 and keeps the list of the ids the  *)
(* layer above gave them (Renumber), so a name has to be taken back layer   *)
(* by layer.  The formula of a layer is [n, clauses].                      *)
(*                                                                         *)
(* The SAT solver is external: a run of it may leave the formula unit-     *)
(* propagated, with a clause dropped or shortened, or a backbone literal   *)
(* pinned.  Arjun stands here by what it promises, and DVE by what module   *)
(* Dve, which is DVE step by step, shows of it: exact, but for the literals *)
(* it forces, drops and names free, and for what may follow when such a    *)
(* literal is contradicted or resolved on.                                 *)
(***************************************************************************)
EXTENDS Weights, Rewrites

CONSTANTS
  Jobs,            \* what a run may be asked: formula, purpose, prefix, ...
  AllocationFails, \* may the solver's constructor return nothing?
  MaxStray         \* models a residual may have that come from none of the input's

ASSUME ChainAssumption ==
  /\ AllocationFails \in BOOLEAN
  /\ MaxStray \in Nat
  /\ \A j \in Jobs :
       /\ j.formula \subseteq Clauses
       /\ j.purpose \in {"count", "weighted", "function"}
       /\ j.prefix \in {"disabled", "eq_iter", "backbone"}
       /\ {j.dve, j.equivalent} \subseteq BOOLEAN
       /\ j.show \subseteq Vars
       /\ j.weights \in [Vars -> Nat \X Nat]

VARIABLES
  job,       \* the run's input and policy
  current,   \* the clauses the prefix pipeline is working on
  mapping,   \* its var_to_rep; the identity when there is none
  layers,    \* preprocessed, stripped, equiv_reduced, dve_reduced
  folded,    \* the original weights with every merged class multiplied together
  lift,      \* stage1_lift
  bundle,    \* the reduced formula and its record
  pc

vars == <<job, current, mapping, layers, folded, lift, bundle, pc>>

Form(n, C) == [n |-> n, clauses |-> C]
Original == Form(NumVars, job.formula)
FormulaModels(f) == Models(f.clauses, 1 .. f.n)

None == [kind |-> "none"]        \* a layer that was not built
Has(layer) == layers[layer] # None

\* Renumber: the ids kept, in order.
KeepingIds(S) == SetToSortSeq(S, <)
NewId(kept, v) == CHOOSE j \in DOMAIN kept : kept[j] = v
NewLit(kept, l) == IF l > 0 THEN NewId(kept, l) ELSE -NewId(kept, -l)
Renumbered(C, kept) == {{NewLit(kept, l) : l \in c} : c \in C}

-----------------------------------------------------------------------------
(***************************************************************************)
(* The SAT solver (external).                                              *)
(***************************************************************************)

\* A run of the freeze-only CaDiCaL on C.
Simplified(C) ==
  LET M == Models(C, Vars)
      tried == {C} \cup {C \ {c} : c \in C}
                 \cup {(C \ {p[1]}) \cup {p[1] \ {p[2]}} : p \in {q \in C \X Lits : q[2] \in q[1]}}
                 \cup {C \cup {{l}} : l \in Backbone(C)}
  IN  IF M = {} THEN {Repinned(C), Contradiction}
      ELSE {Repinned(D) : D \in {E \in tried : Models(E, Vars) = M}}

-----------------------------------------------------------------------------
(***************************************************************************)
(* The prefix pipelines.  Each is a list of stages; a stage that refutes   *)
(* ends its list.                                                          *)
(***************************************************************************)

NoBundle == [done |-> FALSE]

Init ==
  /\ job \in Jobs
  /\ current = job.formula
  /\ mapping = Identity
  /\ layers = [preprocessed |-> None, stripped |-> None, equiv |-> None, dve |-> None]
  /\ folded = job.weights
  /\ lift = 1
  /\ bundle = NoBundle
  /\ pc = CASE job.prefix = "backbone" -> "backbone_tarjan"
            [] job.prefix = "eq_iter" -> "tarjan"
            [] OTHER -> "settle"

Prefix(next) == pc' = next /\ UNCHANGED <<job, layers, folded, lift, bundle>>

\* run_pipeline [Tarjan, ...]: the list starts with no mapping.
Tarjan(at, next, refuted) ==
  /\ pc = at
  /\ current' = Extracted(current)
  /\ mapping' = ExtractedMap(current)
  /\ Prefix(IF EquivContradiction(current) THEN refuted ELSE next)

\* stage_probe: the backbone, Tarjan again, and equivalences the solver confirms.
Probe ==
  /\ pc = "backbone_probe"
  /\ \E C \in AfterBackbone(current) : \E P \in {{}} \cup {{p} : p \in EqualPairs(C)} :
       current' = Probed(C, P)
  /\ mapping' = Identity
  /\ Prefix(IF Refuted(current') THEN "strip" ELSE "tarjan")

ProbeUnavailable ==
  /\ pc = "backbone_probe"
  /\ AllocationFails
  /\ mapping' = Identity
  /\ UNCHANGED current
  /\ Prefix(IF Refuted(current) THEN "strip" ELSE "tarjan")

CadicalSimplify(at, next, refuted) ==
  /\ pc = at
  /\ current' \in Simplified(current) \cup (IF AllocationFails THEN {current} ELSE {})
  /\ UNCHANGED mapping
  /\ Prefix(IF Refuted(current') THEN refuted ELSE next)

\* preprocess_eq_iter: a second pass only for a class the first did not have.
Compare ==
  /\ pc = "compare"
  /\ IF ~EquivContradiction(current) /\ HasNewClass(ExtractedMap(current), mapping)
     THEN current' = Extracted(current) /\ Prefix("cadical_again")
     ELSE UNCHANGED current /\ Prefix("strip")
  /\ UNCHANGED mapping

PrefixStep ==
  \/ Tarjan("backbone_tarjan", "backbone_probe", "strip")
  \/ Probe
  \/ ProbeUnavailable
  \/ Tarjan("tarjan", "cadical", "strip")
  \/ CadicalSimplify("cadical", "compare", "strip")
  \/ Compare
  \/ CadicalSimplify("cadical_again", "tarjan_last", "tarjan_last")
  \/ Tarjan("tarjan_last", "strip", "strip")

-----------------------------------------------------------------------------
(***************************************************************************)
(* Stripping and the equivalence reduction.                                *)
(***************************************************************************)

IsUnit(c) == Cardinality(c) = 1

\* collect_forced_vars: per unit clause's variable, the sign that comes first.
ForcedChoices(f) ==
  LET units == {l \in Lits : {l} \in f.clauses}
  IN  {L \in SUBSET units : /\ \A l \in units : l \in L \/ -l \in L
                            /\ \A l \in L : -l \notin L}

Incomplete == [kind |-> "incomplete"]

\* strip_once, with L forced: a forced variable may still occur elsewhere.
StripOnce(f, L) ==
  LET forced == {VarOf(l) : l \in L}
      rest == {c \in f.clauses : ~(IsUnit(c) /\ Appearing({c}) \subseteq forced)}
      dead == ((1 .. f.n) \ forced) \ Appearing(rest)
      kept == KeepingIds(Appearing(rest) \ forced)
  IN  IF L = {} /\ dead \in {{}, 1 .. f.n} THEN None
      ELSE IF Appearing(rest) \cap forced # {} THEN Incomplete
      ELSE [kind |-> "stripped", formula |-> Form(Len(kept), Renumbered(rest, kept)),
            backbone |-> L, dead |-> dead, kept |-> kept]

Strippings(f) == {StripOnce(f, L) : L \in ForcedChoices(f)}

\* strip_backbone_vars: an incomplete propagation is finished and tried again.
StripOutcomes(f) ==
  LET again == IF Propagated(f.clauses) = Contradiction THEN {None}
               ELSE Strippings(Form(f.n, Repinned(f.clauses)))
  IN  UNION {IF s = Incomplete THEN {IF t = Incomplete THEN None ELSE t : t \in again} ELSE {s} :
               s \in Strippings(f)}

\* Mutant: the representative keeps its id of the unstripped space.
BugUnstrippedRep(m, kept) == [s \in DOMAIN kept |-> m[kept[s]]]

\* remap_for_stripped: the mapping over the stripped ids.
Remapped(m, kept) ==
  [s \in DOMAIN kept |->
     IF VarOf(m[kept[s]]) \in ToSet(kept) THEN NewLit(kept, m[kept[s]]) ELSE s]

Strip ==
  /\ pc = "strip"
  /\ LET f == Form(NumVars, current)
     IN  \E s \in IF job.prefix = "backbone" THEN StripOutcomes(f) ELSE {None} :
           /\ layers' = [layers EXCEPT !.preprocessed = f, !.stripped = s]
           /\ mapping' = IF s = None THEN mapping ELSE Remapped(mapping, s.kept)
  /\ pc' = "reduce"
  /\ UNCHANGED <<job, current, folded, lift, bundle>>

\* reduced_formula: the most reduced layer there is.
Reduced(ls) ==
  CASE ls.dve # None -> ls.dve.formula
    [] ls.dve = None /\ ls.equiv # None -> ls.equiv.formula
    [] ls.dve = None /\ ls.equiv = None /\ ls.stripped # None -> ls.stripped.formula
    [] ls.dve = None /\ ls.equiv = None /\ ls.stripped = None /\ ls.preprocessed # None
         -> ls.preprocessed
    [] OTHER -> Original

Reps == {v \in DOMAIN mapping : mapping[v] = v}

\* apply_equiv_reduction: only the representatives are left.
ReduceEquivalences ==
  /\ pc = "reduce"
  /\ layers' = IF Reps = DOMAIN mapping THEN layers
               ELSE LET kept == KeepingIds(Reps)
                        C == Substituted(Reduced(layers).clauses, mapping)
                    IN  [layers EXCEPT !.equiv =
                           [kind |-> "equiv", formula |-> Form(Len(kept), Renumbered(C, kept)),
                            rep |-> mapping, kept |-> kept]]
  /\ pc' = IF /\ job.dve /\ job.purpose # "function"
              /\ ~Refuted(Reduced(layers').clauses) /\ Reduced(layers').n > 0
           THEN "dve" ELSE "settle"
  /\ UNCHANGED <<job, current, mapping, folded, lift, bundle>>

-----------------------------------------------------------------------------
(***************************************************************************)
(* DVE.                                                                    *)
(***************************************************************************)

\* peel_equiv, stripped_var_to_original, and both.
PeelEquiv(ls, j) == IF ls.equiv = None THEN j ELSE ls.equiv.kept[j]
StrippedToOriginal(ls, s) == IF ls.stripped = None THEN s ELSE ls.stripped.kept[s]
PreDveToOriginal(ls, j) == StrippedToOriginal(ls, PeelEquiv(ls, j))
ReducedToOriginal(ls, i) == PreDveToOriginal(ls, IF ls.dve = None THEN i ELSE ls.dve.kept[i])

\* frozen_in_dve_space: a class is frozen when any of its variables is.
FrozenHere(j) ==
  LET r == PeelEquiv(layers, j)
      class == IF Has("equiv") THEN {s \in DOMAIN mapping : VarOf(mapping[s]) = r} ELSE {r}
  IN  \E s \in class : StrippedToOriginal(layers, s) \in UnequalVars(job.weights)

\* A formula over 1 .. n that has exactly the models M.
Described(n, M) ==
  {{IF v \in T THEN -v ELSE v : v \in 1 .. n} : T \in (SUBSET (1 .. n)) \ M}

\* The names of the variables of T in a list of ids.
Names(T, kept) == {j \in DOMAIN kept : kept[j] \in T}

\* What DVE may do to v: keep it, find it free or defined, or fold it onto a
\* literal that has its value in every model.
Fates(M, v) ==
  {<<"kept", v>>, <<"free", v>>, <<"defined", v>>}
    \cup {<<"equiv", l>> : l \in {m \in Lits : /\ VarOf(m) < v
                                               /\ \A T \in M : Holds(v, T) <=> Holds(m, T)}}

AllFates(n, M) ==
  FoldLeft(LAMBDA fates, v : {Append(g, x) : g \in fates, x \in Fates(M, v)},
           {<<>>}, [v \in 1 .. n |-> v])

With(fate, s) == {v \in DOMAIN fate : fate[v][1] = s}

\* Every outcome the properties ModelsPreserved and FoldsAreFaithful of module
\* Dve allow, with at least one variable eliminated.  What a variable that went
\* is worth is a function of what stays; aside are the literals f implies, on
\* variables that are not frozen, that the outcome names free.  Where f implies
\* such a literal it may have been crossed: the outcome has lost it, and the
\* residual may have models, MaxStray at most here, that come from none of f's.
DveOutcomes(f, frozen) ==
  LET M == FormulaModels(f)
      implied == {l \in Lits : VarOf(l) \in (1 .. f.n) \ frozen /\ \A T \in M : Holds(l, T)}
      Staying(fate) == {T \cap With(fate, "kept") : T \in M}
      Seen(fate) == {T \cap (With(fate, "kept") \cup With(fate, "free")) : T \in M}
      Aside(fate) == {l \in implied : M # {} /\ VarOf(l) \in With(fate, "free")}
      faithful == {g \in AllFates(f.n, M) : /\ With(g, "kept") # 1 .. f.n
                                      /\ With(g, "defined") \cap frozen = {}
                                      /\ Cardinality(Seen(g)) = Cardinality(M)}
      exact == {g \in faithful :
                  Seen(g) = {T \in {S \cup X : S \in Staying(g), X \in SUBSET With(g, "free")} :
                               \A l \in Aside(g) : Holds(l, T)}}
      StraySets(kept) == {E \in SUBSET SUBSET kept : Cardinality(E) <= MaxStray}
      Result(fate, R, aside, lost) ==
        LET kept == KeepingIds(With(fate, "kept"))
        IN  [kind |-> "dve", fate |-> fate, kept |-> kept, aside |-> aside, lost |-> lost,
             formula |-> Form(Len(kept), Described(Len(kept), {Names(T, kept) : T \in R}))]
  IN  {Result(g, Staying(g), Aside(g), FALSE) : g \in exact}
        \cup (IF implied = {} THEN {}
              ELSE UNION {{Result(g, R, {}, TRUE) :
                             R \in {Staying(g) \cup E : E \in StraySets(With(g, "kept"))}}
                            : g \in faithful})

\* run_dve: its outcome is kept when it eliminated enough.
RunDve ==
  /\ pc = "dve"
  /\ LET f == Reduced(layers)
     IN  \E d \in {None} \cup DveOutcomes(f, {j \in 1 .. f.n : FrozenHere(j)}) :
           layers' = [layers EXCEPT !.dve = d]
  /\ pc' = "settle"
  /\ UNCHANGED <<job, current, mapping, folded, lift, bundle>>

-----------------------------------------------------------------------------
(***************************************************************************)
(* count_stage1: weights, the verdict on a weighted DVE, the promotion.    *)
(***************************************************************************)

\* dve_equiv_survivor: the literal at the end of the chain of folds from v.
Survivor(fate, v) ==
  FoldLeft(LAMBDA l, i : IF fate[VarOf(l)][1] # "equiv" THEN l
                         ELSE MapLit([w \in DOMAIN fate |-> fate[w][2]], l),
           v, fate)

EndsKept(fate, v) == fate[VarOf(Survivor(fate, v))][1] = "kept"

\* folded_weights: the partners of each class of the equivalence reduction, and
\* what DVE folded onto a variable that stays.
FoldedEquivs(ls) ==
  IF ls.equiv = None THEN job.weights
  ELSE FoldLeft(LAMBDA w, s :
                  FoldInto(w, job.weights[StrippedToOriginal(ls, s)],
                           LET l == ls.equiv.rep[s]
                               o == StrippedToOriginal(ls, VarOf(l))
                           IN  IF l > 0 THEN o ELSE -o),
                job.weights, KeepingIds({s \in DOMAIN ls.equiv.rep : ls.equiv.rep[s] # s}))

FoldedWeights(ls) ==
  IF ls.dve = None THEN FoldedEquivs(ls)
  ELSE FoldLeft(LAMBDA w, v :
                  FoldInto(w, w[PreDveToOriginal(ls, v)],
                           LET l == Survivor(ls.dve.fate, v)
                               o == PreDveToOriginal(ls, VarOf(l))
                           IN  IF l > 0 THEN o ELSE -o),
                FoldedEquivs(ls),
                KeepingIds({v \in With(ls.dve.fate, "equiv") : EndsKept(ls.dve.fate, v)}))

\* classify_dve: every elimination is one a scalar can express.
Supported(ls, w) ==
  /\ \A v \in With(ls.dve.fate, "equiv") : EndsKept(ls.dve.fate, v)
  /\ \A v \in With(ls.dve.fate, "defined") : PreDveToOriginal(ls, v) \notin UnequalVars(w)

BugNeverReverts(ls, w) == FALSE       \* mutant

\* dve_verdict.
Reverts(ls, w) == job.purpose = "weighted" /\ ls.dve # None /\ ~Supported(ls, w)

\* promote_all_backbone_to_live: a vtree needs a variable.
Promoted(ls) ==
  IF \/ Refuted(Reduced(ls).clauses) \/ Reduced(ls).n # 0
     \/ ls.stripped = None \/ (ls.stripped # None /\ ls.stripped.kept # <<>>)
  THEN {ls}
  ELSE {[ls EXCEPT !.equiv = None,
                   !.stripped = [@ EXCEPT !.backbone = @ \ {l}, !.kept = <<VarOf(l)>>,
                                          !.formula = Form(1, {{IF l > 0 THEN 1 ELSE -1}})]]
        : l \in ls.stripped.backbone}

\* stripped_correction, of the raw weights, and dve_correction, of the folded ones.
StrippedCorrection(ls) ==
  IF ls.stripped = None THEN 1
  ELSE Product(LAMBDA l : job.weights[VarOf(l)][IF l > 0 THEN 2 ELSE 1], ls.stripped.backbone)
         * Product(LAMBDA v : job.weights[v][1] + job.weights[v][2], ls.stripped.dead)
DveCorrection(ls, w) ==
  IF ls.dve = None THEN 1
  ELSE Product(LAMBDA v : LET o == PreDveToOriginal(ls, v) IN w[o][1] + w[o][2],
               With(ls.dve.fate, "free"))
         * Product(LAMBDA v : w[PreDveToOriginal(ls, v)][2], With(ls.dve.fate, "defined"))

CountStage1 ==
  /\ pc = "settle"
  /\ job.purpose # "function"
  /\ folded' = FoldedWeights(layers)
  /\ layers' \in Promoted(IF Reverts(layers, folded') THEN [layers EXCEPT !.dve = None] ELSE layers)
  /\ lift' = IF job.purpose = "weighted"
             THEN StrippedCorrection(layers') * DveCorrection(layers', folded') ELSE 1
  /\ pc' = IF Refuted(Reduced(layers').clauses) THEN "refuted" ELSE "arjun"
  /\ UNCHANGED <<job, current, mapping, bundle>>

-----------------------------------------------------------------------------
(***************************************************************************)
(* Arjun (external), the record, and the refuted bundle.                   *)
(***************************************************************************)

\* The weights of the stage-1 formula: each variable's, after the folding.
Stage1Weights == [i \in 1 .. Reduced(layers).n |-> folded[ReducedToOriginal(layers, i)]]

\* What Arjun may return for f under the weights w.  The variables of kept stay;
\* those of free are worth their two weights; the rest are functions of kept.
\* It names its variables as it likes, here in order or in reverse, with either
\* sign, and may have added one that stands for no input variable.
ArjunOutcomes(f, w) ==
  LET M == FormulaModels(f)
      Sound(kept, free) ==
        LET seen == {T \cap (kept \cup free) : T \in M}
            rest == (1 .. f.n) \ (kept \cup free)
        IN  /\ kept \cap free = {} /\ kept # {}
            /\ Cardinality(seen) = Cardinality(M)
            /\ seen = {T \cup X : T \in {S \cap kept : S \in M}, X \in SUBSET free}
            /\ \A v \in rest : w[v][1] = w[v][2]
      Result(kept, free, order, sign, added) ==
        LET ids == IF order THEN KeepingIds(kept) ELSE Reverse(KeepingIds(kept))
            k == Len(ids)
            n == k + (IF added THEN 1 ELSE 0)
            TrueIds(T) == {j \in 1 .. k : (ids[j] \in T) <=> sign = 1}
            rest == (1 .. f.n) \ (kept \cup free)
        IN  [formula |-> Form(n, Described(k, {TrueIds(T) : T \in M})
                                   \cup (IF added THEN {{-n, 1}, {n, -1}} ELSE {})),
             map |-> [v \in 1 .. f.n |-> IF v \in kept THEN sign * NewId(ids, v) ELSE 0],
             backbone |-> {l \in Lits : VarOf(l) \in 1 .. f.n /\ \A T \in M : Holds(l, T)},
             exp |-> Cardinality(free),
             mult |-> Product(LAMBDA v : w[v][1] + w[v][2], free) * Product(LAMBDA v : w[v][2], rest),
             weights |-> [j \in 1 .. n |-> IF j > k THEN <<1, 1>> ELSE Signed(w[ids[j]], sign)]]
  IN  {Result(p[1], p[2], order, sign, added) :
         p \in {q \in (SUBSET (1 .. f.n)) \X SUBSET (1 .. f.n) : M # {} /\ Sound(q[1], q[2])},
         order \in BOOLEAN, sign \in {1, -1}, added \in BOOLEAN}

\* composed_var_map, and invert_composed over Arjun's own map.
ComposedVarMap == [i \in 1 .. Reduced(layers).n |-> ReducedToOriginal(layers, i)]
Sources(a, j) == {v \in DOMAIN a.map : VarOf(a.map[v]) = j}
InvertComposed(a) ==
  [j \in 1 .. a.formula.n |->
     IF Sources(a, j) = {} THEN 0
     ELSE LET v == CHOOSE x \in Sources(a, j) : TRUE
          IN  IF a.map[v] > 0 THEN ReducedToOriginal(layers, v) ELSE -ReducedToOriginal(layers, v)]

\* stripped_forced_and_free, with what DVE left free.
StrippedForced == IF Has("stripped") THEN layers.stripped.backbone ELSE {}
StrippedDead == IF Has("stripped") THEN layers.stripped.dead ELSE {}
FreeVars == StrippedDead \cup (IF Has("dve") THEN {PreDveToOriginal(layers, j) :
                                                    j \in With(layers.dve.fate, "free")} ELSE {})

BugEveryBackbone(a) ==       \* mutant: also what Arjun's formula still holds
  {IF l > 0 THEN ReducedToOriginal(layers, l) ELSE -ReducedToOriginal(layers, -l) : l \in a.backbone}

\* Arjun's backbone literals that its own map does not place.
ArjunForced(a) ==
  {IF l > 0 THEN ReducedToOriginal(layers, l) ELSE -ReducedToOriginal(layers, -l) :
     l \in {m \in a.backbone : a.map[VarOf(m)] = 0}}

NumFree(ls) ==
  (IF ls.stripped = None THEN 0 ELSE Cardinality(ls.stripped.dead))
    + (IF ls.dve = None THEN 0 ELSE Cardinality(With(ls.dve.fate, "free")))

BugDveFreeOnly(ls) ==                \* mutant
  IF ls.dve = None THEN 0 ELSE Cardinality(With(ls.dve.fate, "free"))

\* free_var_exp: 2 for every variable named free.
FreeVarExp(ls) == NumFree(ls)

Bundle(f, map, forced, free, pow2, mult, w) ==
  [done |-> TRUE, formula |-> f, map |-> map, forced |-> forced, free |-> free,
   pow2 |-> pow2, mult |-> mult, weights |-> w, targets |-> <<>>, show |-> {}]

Finished(b) == bundle' = b /\ pc' = "done" /\ UNCHANGED <<job, current, mapping, layers, folded, lift>>

\* The stage skipped or its reduction discarded.
ArjunSkipped ==
  /\ pc = "arjun"
  /\ Finished(Bundle(Reduced(layers), ComposedVarMap, StrippedForced, FreeVars,
                     FreeVarExp(layers), lift, Stage1Weights))

ArjunKept ==
  /\ pc = "arjun"
  /\ \E a \in ArjunOutcomes(Reduced(layers),
                            IF job.purpose = "weighted" THEN Stage1Weights
                            ELSE [i \in 1 .. Reduced(layers).n |-> <<1, 1>>]) :
       Finished(Bundle(a.formula, InvertComposed(a),
                       StrippedForced \cup (IF job.purpose = "count" THEN ArjunForced(a) ELSE {}),
                       FreeVars, FreeVarExp(layers) + a.exp, lift * a.mult, a.weights))

\* unsat_bundle: two unit clauses over the original variables, the identity.
UnsatBundle(b) ==
  [b EXCEPT !.targets = [v \in Vars |-> <<"literal", v>>]]

Refute ==
  /\ pc = "refuted"
  /\ Finished(UnsatBundle(Bundle(Form(NumVars, {{1}, {-1}}), Identity, {}, {}, 0, 1, job.weights)))

-----------------------------------------------------------------------------
(***************************************************************************)
(* compile_preserving_bundle: the function, not only its count.            *)
(***************************************************************************)

\* in_best: where a stripped variable went.
InBest(ls, s) ==
  <<"literal", IF ls.equiv = None THEN s ELSE NewLit(ls.equiv.kept, ls.equiv.rep[s])>>

BugAllFree(ls, o) == <<"free", 0>>     \* mutant

\* A stripped variable: forced, unless it was dead.
StrippedFate(ls, o) ==
  CASE o \in ls.stripped.backbone -> <<"constant", 1>>
    [] -o \in ls.stripped.backbone -> <<"constant", 0>>
    [] OTHER -> <<"free", 0>>

\* original_fates.
OriginalFates(ls) ==
  [o \in Vars |->
     IF ls.stripped = None THEN InBest(ls, o)
     ELSE IF o \in ToSet(ls.stripped.kept) THEN InBest(ls, NewId(ls.stripped.kept, o))
     ELSE StrippedFate(ls, o)]

ToOriginalLit(ls, l) == IF l > 0 THEN ReducedToOriginal(ls, l) ELSE -ReducedToOriginal(ls, -l)

\* restore_compile_variables: the reduced clauses over the original ids, and
\* clauses for what each original variable has become.
Restored(ls) ==
  LET fates == OriginalFates(ls)
      For(o) == CASE fates[o] = <<"constant", 1>> -> {{o}}
                  [] fates[o] = <<"constant", 0>> -> {{-o}}
                  [] fates[o][1] = "free" -> {}
                  [] OTHER -> LET r == ToOriginalLit(ls, fates[o][2])
                              IN  IF r = o THEN {} ELSE {{-o, r}, {o, -r}}
      C == {{ToOriginalLit(ls, l) : l \in c} : c \in Reduced(ls).clauses}
  IN  [ls EXCEPT !.stripped = None, !.equiv = None,
                 !.preprocessed = Form(NumVars, C \cup UNION {For(o) : o \in Vars})]

BugDeclaredOnly(ls, fates) ==        \* mutant: a class counts by its representative
  {i \in 1 .. Reduced(ls).n : ReducedToOriginal(ls, i) \in job.show}

\* carry_compile_show_vars: a class is shown when one of its variables was.
CarriedShow(ls, fates) ==
  {i \in 1 .. Reduced(ls).n :
     \E o \in job.show : fates[o] \in {<<"literal", i>>, <<"literal", -i>>}}

CompileBundle ==
  /\ pc = "settle"
  /\ job.purpose = "function"
  /\ IF Refuted(Reduced(layers).clauses)
     THEN pc' = "refuted" /\ UNCHANGED <<job, current, mapping, layers, folded, lift, bundle>>
     ELSE LET ls == IF job.equivalent THEN Restored(layers) ELSE layers
              fates == OriginalFates(ls)
              b == Bundle(Reduced(ls), [i \in 1 .. Reduced(ls).n |-> ReducedToOriginal(ls, i)],
                          IF ls.stripped = None THEN {} ELSE ls.stripped.backbone,
                          IF ls.stripped = None THEN {} ELSE ls.stripped.dead,
                          FreeVarExp(ls), 1, job.weights)
          IN  Finished([b EXCEPT !.targets = fates, !.show = CarriedShow(ls, fates)])

Returned == pc = "done" /\ UNCHANGED vars

Next ==
  \/ PrefixStep \/ Strip \/ ReduceEquivalences \/ RunDve \/ CountStage1
  \/ ArjunSkipped \/ ArjunKept \/ Refute \/ CompileBundle \/ Returned

Spec == Init /\ [][Next]_vars

-----------------------------------------------------------------------------
(***************************************************************************)
(* Properties.                                                             *)
(***************************************************************************)

\* Types; and the lists of a layer name variables of the layer above.
TypeOK ==
  /\ job \in Jobs
  /\ current \subseteq SUBSET Lits
  /\ \A v \in DOMAIN mapping : mapping[v] \in Lits /\ VarOf(mapping[v]) \in DOMAIN mapping
  /\ \A v \in DOMAIN folded : folded[v] \in Nat \X Nat
  /\ lift \in Nat
  /\ Appearing(Reduced(layers).clauses) \subseteq 1 .. Reduced(layers).n
  /\ Has("stripped") => IsInjective(layers.stripped.kept) /\ ToSet(layers.stripped.kept) \subseteq Vars
  /\ Has("equiv") => IsInjective(layers.equiv.kept)
  /\ Has("dve") => IsInjective(layers.dve.kept)

\* StageOutcome.formula: every stage of the prefix is count-neutral; what it
\* leaves has the input's models, and the mapping it carries holds in them,
\* whichever pass it came from.
PrefixKeepsFunction ==
  pc \in {"backbone_tarjan", "backbone_probe", "tarjan", "cadical", "compare", "cadical_again",
          "tarjan_last", "strip"} =>
    LET M == Models(job.formula, Vars)
    IN  /\ Models(current, Vars) = M
        /\ \A T \in M, v \in Vars : Holds(v, T) <=> Holds(mapping[v], T)

\* So whichever layer is added next starts from the input's function, over lists
\* that name what the layer before left.
LayersFit == TypeOK /\ PrefixKeepsFunction

OriginalModels == Models(job.formula, Vars)
BundleModels == FormulaModels(bundle.formula)

\* What DVE took from the input without recording it: literals of the original
\* variables, named free although the input implies them; or it crossed one.
Aside ==
  IF Has("dve") THEN {IF l > 0 THEN PreDveToOriginal(layers, l) ELSE -PreDveToOriginal(layers, -l) :
                        l \in layers.dve.aside}
  ELSE {}
Lost == Has("dve") /\ layers.dve.lost

\* Model-count-preserving, the contract of the modes mc and compile: the count of
\* the bundle's formula times 2^lift is the input's, through stripping, merging,
\* DVE and Arjun, also where a contradiction was found; it is twice that for every
\* literal DVE set aside.  It is never below the input's, whatever DVE lost.
CountLifts ==
  bundle.done /\ job.purpose # "weighted" =>
    LET lifted == Cardinality(BundleModels) * 2 ^ bundle.pow2
        counted == Cardinality(OriginalModels) * 2 ^ Cardinality(Aside)
    IN  IF Lost THEN counted <= lifted ELSE counted = lifted

\* A reverted DVE leaves its folds in the weights: WeightedDve.RevertRestoresCount.
Reverted == FoldedEquivs(layers) # folded /\ ~Has("dve")

\* The weighted contract: the same under the weights the record carries and the
\* rational lift, an anti-equivalent's swapped, a backbone literal's own weight
\* and a dead variable's two counted once.  A literal DVE set aside counts with
\* both its variable's weights.
WeightedCountLifts ==
  bundle.done /\ job.purpose = "weighted" /\ ~Reverted /\ ~Lost =>
    WeightedCount(job.formula, Vars, job.weights)
        * Product(LAMBDA l : folded[VarOf(l)][1] + folded[VarOf(l)][2], Aside)
      = bundle.mult * WeightedCount(bundle.formula.clauses, 1 .. bundle.formula.n, bundle.weights)
          * Product(LAMBDA l : folded[VarOf(l)][IF l > 0 THEN 2 ELSE 1], Aside)

\* Both counting contracts.
BundleCountLifts == CountLifts /\ WeightedCountLifts

Mapped == {VarOf(bundle.map[j]) : j \in {i \in DOMAIN bundle.map : bundle.map[i] # 0}}
ForcedVars == {VarOf(l) : l \in bundle.forced}
Image(T) == {VarOf(bundle.map[j]) : j \in {i \in DOMAIN bundle.map :
                                             bundle.map[i] # 0 /\ (i \in T <=> bundle.map[i] > 0)}}

\* The record of a counting mode: the variables it maps, forces or names free are
\* different ones, and their values over the input's models are those of the
\* reduced formula's models, the forced values and any free values, exactly,
\* once the literals DVE set aside have theirs; none is missing whatever DVE lost.
RecordReadsBack ==
  bundle.done /\ job.purpose = "count" =>
    LET offered == {Image(T) \cup {l \in bundle.forced : l > 0} \cup X :
                      T \in BundleModels, X \in SUBSET bundle.free}
        had == {T \cap (Mapped \cup ForcedVars \cup bundle.free) : T \in OriginalModels}
    IN  /\ Mapped \cap ForcedVars = {} /\ Mapped \cap bundle.free = {} /\ ForcedVars \cap bundle.free = {}
        /\ had \subseteq offered
        /\ Lost \/ had = {T \in offered : \A l \in Aside : Holds(l, T)}

\* OriginalFate: the total map of the compile mode is the function: an assignment
\* is a model of the input exactly when the one it maps to is a model of the
\* reduced formula, the constants met.
FunctionReadsBack ==
  bundle.done /\ job.purpose = "function" =>
    \A T \in SUBSET Vars :
      T \in OriginalModels <=>
        \E M \in BundleModels : \A o \in Vars :
          LET t == bundle.targets[o]
          IN  CASE t[1] = "literal" -> (o \in T <=> Holds(t[2], M))
                [] t[1] = "constant" -> (o \in T <=> t[2] = 1)
                [] OTHER -> TRUE

\* equivalent_cnf: the restored formula is over the input's own variables.
EquivalentCnf ==
  bundle.done /\ job.purpose = "function" /\ job.equivalent => BundleModels = OriginalModels

\* carry_compile_show_vars: the carried show set counts the input's projections,
\* a shown free variable doubling them.
ShowCountKept ==
  bundle.done /\ job.purpose = "function" =>
    (LET unsat == bundle.formula.clauses = {{1}, {-1}}
     IN  ~unsat =>
      Cardinality({T \cap job.show : T \in OriginalModels})
        = Cardinality({M \cap bundle.show : M \in BundleModels})
            * 2 ^ Cardinality(job.show \cap bundle.free))

\* What a solver's answer on the bundle's formula says of the input, in the three
\* forms a bundle offers it, and of its show variables.
AnswersReadBack == RecordReadsBack /\ FunctionReadsBack /\ EquivalentCnf /\ ShowCountKept

=============================================================================

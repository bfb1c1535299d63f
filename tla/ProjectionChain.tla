--------------------------- MODULE ProjectionChain ---------------------------
(***************************************************************************)
(* The chain of the projected modes (src/src/bundle/projection_chain.rs,   *)
(* src/src/preprocess/projected.rs): Arjun, propagation and frozen DVE,    *)
(* elimination of hidden variables (module ProjectedBve), the record, and  *)
(* the sweep a compiler runs over what comes out (module HiddenSweep).     *)
(* Arjun stands by contract, and frozen DVE by what module Dve shows of it. *)
(***************************************************************************)
EXTENDS ProjectedBve, Rewrites, HiddenSweep

CONSTANT Jobs

VARIABLES
  job,      \* clauses, show set, weights, the policy and whether a clock runs
  pc,
  work,     \* the clauses between two stages
  stage1,   \* what Arjun's stage handed on: numVars, show, weights, lift, back
  folds,    \* show variables merged into others: a sequence of [gone, into]
  lost,     \* history: did DVE cross a hidden literal the formula implies?
  bundle    \* what the chain returns

chain == <<job, pc, work, stage1, folds, lost, bundle>>
vars == <<chain, bve, sweepVars>>

NoBundle == [given |-> FALSE]
Neutral == <<1, 1>>
Listed(S) == FoldSet(LAMBDA c, q : Append(q, c), <<>>, S)

Init ==
  /\ job \in Jobs
  /\ pc = IF job.policy = "eliminateOnly" THEN "eliminate" ELSE "arjun"
  /\ work = job.clauses
  /\ stage1 = [numVars |-> NumVars, show |-> job.show, weights |-> job.weights, lift |-> 1,
               back |-> [v \in Vars |-> v]]
  /\ folds = <<>> /\ lost = FALSE /\ bundle = NoBundle
  /\ shown = {} /\ store = <<>> /\ live = {} /\ occ = OccurrencesIn(<<>>)
  /\ queue = <<>> /\ queued = {}
  /\ sweep = "idle" /\ asked = <<>> /\ absent = <<>> /\ ordered = <<>> /\ found = Unclassified

-----------------------------------------------------------------------------
(***************************************************************************)
(* Arjun.                                                                  *)
(***************************************************************************)

\* Projected away on the clauses, one variable after another.
Forgotten(F, H) == FoldSet(LAMBDA v, G : Without(G, v) \cup Resolvents(G, v), F, H)

\* Each variable of D is a function of the variables of S.
DefinedOver(F, D, S) ==
  \A T, U \in Models(F, Vars) : T \cap S = U \cap S => T \cap D = U \cap D

\* A show variable leaves the set when it is in no clause, which doubles the
\* count or adds its weights, or when the others define it and its literals
\* weigh the same; hidden variables go as Arjun likes; the rest is renumbered.
Minimized(F, S, w) ==
  LET free == S \ Appearing(F)
      old(K, i) == InOrder(K)[i]
      new(K, l) == LET i == CHOOSE n \in DOMAIN InOrder(K) : InOrder(K)[n] = VarOf(l)
                   IN  IF l > 0 THEN i ELSE -i
      outcome(D, H) ==
        LET K == Vars \ (free \cup H)
            R == Forgotten(F, H)
        IN  [clauses |-> Listed({{new(K, l) : l \in c} : c \in R}),
             numVars |-> Cardinality(K),
             show |-> {new(K, v) : v \in S \ (free \cup D)},
             weights |-> [v \in Vars |-> IF v <= Cardinality(K) /\ old(K, v) \in S \ D
                                           THEN w[old(K, v)] ELSE Neutral],
             lift |-> Product(LAMBDA v : w[v][1] + w[v][2], free) * Product(LAMBDA v : w[v][1], D),
             back |-> [i \in 1 .. Cardinality(K) |-> old(K, i)]]
  IN  {outcome(D, H) : <<D, H>> \in
         {p \in (SUBSET {v \in S \ free : w[v][1] = w[v][2]}) \X (SUBSET Vars) :
            /\ p[2] \subseteq Vars \ (S \ p[1])
            /\ DefinedOver(F, p[1], S \ (free \cup p[1]))}}

\* arjun_keep_reduction and projection_gain_discard.
Gain(r, j) ==
  \/ Cardinality(r.show) # Cardinality(j.show) \/ r.lift # 1
  \/ j.weighted /\ r.numVars * 10 < NumVars * 9
Keeps(r, j) == Gain(r, j) \/ j.policy = "keepSound"

Goes(cs, from, to) == IF Refuted(ToSet(cs)) THEN from ELSE to

ArjunSkipped ==
  /\ pc = "arjun"
  /\ pc' = Goes(work, "refuted", "tail")
  /\ UNCHANGED <<job, work, stage1, folds, lost, bundle, bve, sweepVars>>

ArjunKept ==
  /\ pc = "arjun"
  /\ \E r \in Minimized(ToSet(work), job.show, job.weights) :
       /\ Keeps(r, job)
       /\ work' = r.clauses
       /\ stage1' = [f \in DOMAIN stage1 |-> r[f]]
       /\ pc' = Goes(r.clauses, "refuted", "tail")
  /\ UNCHANGED <<job, folds, lost, bundle, bve, sweepVars>>

\* The declared show set over a contradiction, numbered as the input.
Refute ==
  /\ pc = "refuted"
  /\ bundle' = [given |-> TRUE, refuted |-> TRUE, show |-> job.show]
  /\ pc' = "done"
  /\ UNCHANGED <<job, work, stage1, folds, lost, bve, sweepVars>>

-----------------------------------------------------------------------------
(***************************************************************************)
(* Strengthening.                                                          *)
(***************************************************************************)

\* Mutants: a forced show variable is not pinned again; a merged variable stays
\* in the show set; its weights stay behind.
BugNoRepin(F, S) == {}
BugStaysShown(S, fs) == S
BugNoFold(w, fs) == w

ForcedUnits(F, S) == Units({l \in UnitClosure(F) : VarOf(l) \in S})

\* bcp_simplify.
BcpSimplified(F, S) ==
  IF Propagated(F) = Contradiction THEN Contradiction ELSE Propagated(F) \cup ForcedUnits(F, S)

\* A show variable's literal of the lowest show variable that always equals it.
ShowRep(F, S, v) ==
  LET equal == {l \in Lits : /\ VarOf(l) \in S /\ VarOf(l) <= v
                             /\ \A T \in Models(F, Vars) : Holds(l, T) <=> v \in T}
  IN  CHOOSE l \in equal : \A m \in equal : VarOf(l) <= VarOf(m)

\* preprocess_dve, frozen on S and forced to a show representative, as the
\* property ProjectionPreserved of module Dve has it: some show variables merged
\* into others, some hidden ones gone.  A hidden literal that F implies, which no
\* stage before has looked for, is set aside; where the batch then crosses it
\* the residual has lost clauses, down to all of those of an unsatisfiable F.
FrozenDve(F, S) ==
  LET merged == {v \in S \cap Appearing(F) : VarOf(ShowRep(F, S, v)) < v}
      onto(E) == [v \in Vars |-> IF v \in E THEN ShowRep(F, S, v) ELSE v]
      Result(G, E) == [formula |-> G, merged |-> E, onto |-> onto(E), lost |-> FALSE]
      exact == IF Models(F, Vars) = {} THEN {Result(F, {}), Result(Contradiction, {})}
               ELSE {Result(Forgotten(Substituted(F, onto(E)), H), E) :
                       E \in SUBSET merged, H \in SUBSET (Appearing(F) \ S)}
      implied == {l \in Lits : /\ VarOf(l) \in Appearing(F) \ S
                              /\ \A T \in Models(F, Vars) : Holds(l, T)}
  IN  exact \cup (IF implied = {} THEN {}
                  ELSE UNION {{[r EXCEPT !.formula = G, !.lost = TRUE] : G \in SUBSET r.formula} :
                                r \in exact})

Dropped(S, fs) == S \ {fs[i].gone : i \in DOMAIN fs}

\* strengthen_and_bve, up to the state the elimination starts from.
Strengthen ==
  /\ pc = "tail" /\ job.policy = "full"
  /\ LET B == BcpSimplified(ToSet(work), stage1.show)
     IN  \/ /\ Refuted(B)
            /\ folds' = <<>>
            /\ UNCHANGED lost
            /\ Opened(<<{}>>, stage1.show)
         \/ /\ ~Refuted(B)
            /\ \E r \in FrozenDve(B, stage1.show) :
                 /\ folds' = [i \in DOMAIN InOrder(r.merged) |->
                                [gone |-> InOrder(r.merged)[i], into |-> r.onto[InOrder(r.merged)[i]]]]
                 /\ lost' = r.lost
                 /\ Opened(Listed(r.formula), Dropped(stage1.show, folds'))
  /\ pc' = "bve"
  /\ UNCHANGED <<job, work, stage1, bundle, sweepVars>>

ArjunOnly ==
  /\ pc = "tail" /\ job.policy # "full"
  /\ pc' = "record"
  /\ UNCHANGED <<job, work, stage1, folds, lost, bundle, bve, sweepVars>>

-----------------------------------------------------------------------------
(***************************************************************************)
(* Elimination.                                                            *)
(***************************************************************************)

\* eliminate_hidden: the elimination alone, with no clock.
EliminateHidden ==
  /\ pc = "eliminate"
  /\ Opened(work, job.show)
  /\ pc' = "bve"
  /\ UNCHANGED <<job, work, stage1, folds, lost, bundle, sweepVars>>

BveStep == StepGone \/ StepPure \/ StepResolve \/ StepGrows

Eliminate ==
  /\ pc = "bve"
  /\ BveStep
  /\ UNCHANGED <<chain, sweepVars>>

IntoFormula(cs, alive) ==
  LET kept == SelectSeq([i \in DOMAIN cs |-> i], LAMBDA i : i \in alive)
  IN  [k \in DOMAIN kept |-> cs[kept[k]]]

\* The queue has run dry, or the clock ends the pass between two variables or
\* inside the enumeration of one.
EndOfBve ==
  /\ pc = "bve"
  /\ \/ queue = <<>> /\ UNCHANGED bve
     \/ job.timed /\ queue # <<>> /\ UNCHANGED bve
     \/ job.timed /\ StepCut
  /\ work' = IntoFormula(store, live)
  /\ pc' = Goes(work', "refuted", "record")
  /\ UNCHANGED <<job, stage1, folds, lost, bundle, sweepVars>>

-----------------------------------------------------------------------------
(***************************************************************************)
(* The record, and the sweep.                                              *)
(***************************************************************************)

FoldEliminated(w, fs) == FoldLeft(LAMBDA t, f : FoldInto(t, t[f.gone], f.into), w, fs)

Record ==
  /\ pc = "record"
  /\ bundle' = [given |-> TRUE, refuted |-> FALSE, show |-> Dropped(stage1.show, folds),
                weights |-> FoldEliminated(stage1.weights, folds),
                lift |-> stage1.lift, back |-> stage1.back]
  /\ pc' = "sweep"
  /\ UNCHANGED <<job, work, stage1, folds, lost, bve, sweepVars>>

\* The hidden variables, highest first, and once more.
Requested == LET hidden == InOrder((1 .. stage1.numVars) \ bundle.show)
             IN  Reverse(hidden) \o hidden

StartSweep ==
  /\ pc = "sweep" /\ Begin(work, Requested)
  /\ UNCHANGED <<chain, bve>>

Sweep ==
  /\ pc = "sweep" /\ SweepStep(ToSet(work), bundle.show)
  /\ UNCHANGED <<chain, bve>>

Return ==
  /\ pc = "sweep" /\ sweep = "swept"
  /\ pc' = "done"
  /\ UNCHANGED <<job, work, stage1, folds, lost, bundle, bve, sweepVars>>

Step ==
  \/ ArjunSkipped \/ ArjunKept \/ Refute \/ Strengthen \/ ArjunOnly
  \/ EliminateHidden \/ Eliminate \/ EndOfBve
  \/ Record \/ StartSweep \/ Sweep \/ Return

Next == Step \/ (pc = "done" /\ UNCHANGED vars)

Spec == Init /\ [][Next]_vars
\* The chain runs on: nothing it waits for can keep it waiting for ever.
FairSpec == Spec /\ ([]<>(pc = "done") \/ []<><<Step>>_vars)

-----------------------------------------------------------------------------
(***************************************************************************)
(* Properties.                                                             *)
(***************************************************************************)

\* At every step of the elimination, wherever the clock may end it: a live
\* clause is in the list of each of its literals, and nobody waits in the queue
\* twice, or is shown (BveState).
WorklistConsistent == pc = "bve" => StoreConsistent

\* A pass no clock ended has nothing left to eliminate, although a variable is
\* looked at again only when a clause beside it changed (requeue).
FixpointReached == pc = "bve" /\ queue = <<>> => AtFixpoint

\* Wherever a pass ends its lists agree, and a pass nobody ended has ended itself.
EliminationHolds == WorklistConsistent /\ FixpointReached

\* A step of the elimination is exactly a quantification: the clauses say of the
\* variables still in them what they said before, no variable comes back, and there are
\* never more clauses (bve_project, invariant 4, and eliminate_hidden).
StepQuantifies ==
  [][pc = "bve" /\ pc' = "bve" =>
       LET V == Vars \ (Appearing(LiveClauses) \ Appearing(LiveClauses'))
           W == V \cup shown
       IN  /\ Appearing(LiveClauses') \subseteq Appearing(LiveClauses)
           /\ Cardinality(live') <= Cardinality(live)
           /\ Projection(LiveClauses', W) = Projection(LiveClauses, W)]_vars

\* Whatever was skipped, merged, folded or cut short: the count over the show
\* set the bundle names, times its lift, is the input's, and the shown parts of
\* its models, read back through its map, are the input's.  Where DVE crossed a
\* hidden literal there may be more of them, none less; and only an input without
\* a model is refuted.
CountStands ==
  bundle.given =>
    LET F == ToSet(job.clauses)
        count(G, S, w) ==
          MapThenSumSet(LAMBDA T : Product(LAMBDA v : w[v][IF v \in T THEN 2 ELSE 1], S),
                        Projection(G, S))
        offered == {{bundle.back[v] : v \in T} : T \in Projection(ToSet(work), bundle.show)}
        shownParts == Projection(F, {bundle.back[v] : v \in bundle.show})
        lifted == count(ToSet(work), bundle.show, bundle.weights) * bundle.lift
        counted == count(F, job.show, job.weights)
    IN  IF bundle.refuted THEN Models(F, Vars) = {} /\ bundle.show = job.show
        ELSE /\ {bundle.back[v] : v \in bundle.show} \subseteq job.show
             /\ IF lost THEN counted <= lifted /\ shownParts \subseteq offered
                ELSE counted = lifted /\ shownParts = offered

\* The sweep's classification holds of the formula the compiler has.
SweepSound == pc = "sweep" => Sound(ToSet(work), bundle.show)

\* What the chain says of the formula it hands on: the count, the record, the
\* classes.
AnswersStand == CountStands /\ SweepSound

\* The chain returns a bundle.
ChainReturns == <>(pc = "done")

=============================================================================

-------------------------------- MODULE Dve --------------------------------
(***************************************************************************)
(* Definable-variable elimination, src/src/preprocess/dve/: one call of    *)
(* preprocess_dve, step by step, and for the plain caller the second pass   *)
(* post_dve_strengthen runs on the residual.                               *)
(*                                                                         *)
(* A pass runs rounds of equivalence merging and elimination by resolution *)
(* of variables known or proved to be functions of the others, then an     *)
(* aggressive cascade of the same, then names what no clause mentions any   *)
(* more as free.  The model count of the input should be the residual's    *)
(* times two for every free variable, and under a projection the           *)
(* projections on the show variables should be the same.  They are, unless  *)
(* resolution uncovers a literal the formula implies on a variable that is  *)
(* not frozen: that literal is propagated and its value kept nowhere.      *)
(*                                                                         *)
(* Renumbering keeps the order of the ids, so the survivors keep theirs    *)
(* here.  The clause list is a set; copies says that the code's list may   *)
(* hold one clause twice, which only its length guard could tell.          *)
(***************************************************************************)
EXTENDS Gates

CONSTANTS
  Calls,          \* the calls to check, records with the fields
                  \*   formula, vars    the clauses and the variables they are over
                  \*   projected        strengthen_projected_hidden, not the plain caller
                  \*   frozen           never resolved away: the show variables, or
                  \*                    the variables of unequal weight
  MaxRounds,      \* rounds of one pass (10 and 8 in the code)
  StrengthenMin   \* clauses from which a round strengthens (50 in the code)

ASSUME DveAssumption ==
  /\ Calls \subseteq [formula : SUBSET Clauses, vars : SUBSET Vars, projected : BOOLEAN,
                      frozen : SUBSET Vars]
  /\ \A k \in Calls : k.frozen \subseteq k.vars
  /\ MaxRounds \in Nat
  /\ StrengthenMin \in Nat

VARIABLES
  call,        \* the call
  input,       \* the formula the current pass was given
  clauses,     \* the clause set as it stands
  fate,        \* what became of each variable
  rep,         \* the literal a merged variable folds onto
  known,       \* known_defined: outputs of gates
  candidates,  \* the round's variables for the SAT probe
  queue,       \* the batch being eliminated
  forced,      \* forced_lits: literals to be propagated
  aside,       \* history: every literal that has ever been in forced
  limit,       \* max_clauses of the batch
  copies,      \* may the clause list hold a clause twice?
  gone,        \* variables the batch has eliminated so far
  asked,       \* how many variables the batch was given
  total,       \* variables the pass has eliminated or merged
  progress,    \* has this round eliminated or merged one?
  rounds,      \* rounds started in this pass
  cause,       \* who asked for the batch: "gates", "probe", "cascade"
  pass,        \* 1, or 2 for post_dve_strengthen
  phase

batch == <<queue, forced, aside, limit, copies, gone, asked, cause>>
vars == <<call, input, clauses, fate, rep, known, candidates, batch, total,
          progress, rounds, pass, phase>>

formula == call.formula
Declared == call.vars
Projected == call.projected
Frozen == call.frozen

KeptVars == {v \in Vars : fate[v] = "kept"}
FreeVars == {v \in Vars : fate[v] = "free"}

-----------------------------------------------------------------------------
(***************************************************************************)
(* Candidates.                                                             *)
(***************************************************************************)

Neighbours(F, v) == Appearing({c \in F : v \in c \/ -v \in c}) \ {v}

\* Every two neighbours of v share a clause.
Simplicial(F, v) ==
  \A a, b \in Neighbours(F, v) : a # b => \E c \in F : {a, b} \subseteq Appearing({c})

\* At most as many resolvents as clauses that go, or no new primal edge.  The
\* ceiling of 6 on the rarer sign is above anything a bounded formula holds.
IsVeCandidate(F, v) ==
  LET p == Freq(F, v)
      n == Freq(F, -v)
  IN  /\ p + n > 0
      /\ \/ p * n <= p + n
         \/ p <= 6 /\ Simplicial(F, v)
         \/ n <= 6 /\ Simplicial(F, v)

InIdOrder(S) == SelectSeq([v \in Vars |-> v], LAMBDA v : v \in S)

\* Rarest first; the sort is stable, so ties keep the order of the ids.
ByFrequency(F, S) ==
  LET f(v) == Freq(F, v) + Freq(F, -v)
  IN  SortSeq(InIdOrder(S), LAMBDA a, b : f(a) < f(b) \/ (f(a) = f(b) /\ a < b))

\* Padoa's test on the dual formula: no two of the models M that agree outside
\* v and the variables S already found defined differ on v.
DefinedBy(M, v, S) ==
  Cardinality({T \ S : T \in M}) = Cardinality({T \ (S \cup {v}) : T \in M})

\* The candidates the probe proves defined, in order.  The probe of one
\* outside answered ran into its conflict or time budget.
PickDefVars(M, cands, answered) ==
  FoldLeft(LAMBDA found, v :
             IF v \in answered /\ DefinedBy(M, v, ToSet(found)) THEN Append(found, v) ELSE found,
           <<>>, cands)

\* What one round of CaDiCaL, every appearing variable frozen, may make of F: an
\* equivalent set with a clause dropped or shortened, or a backbone literal
\* pinned as a unit.  A set without models may come back as the empty clause.
Strengthened(F) ==
  LET M == Models(F, Vars)
      dropped == {F \ {c} : c \in F}
      shorter == {(F \ {p[1]}) \cup {p[1] \ {p[2]}} : p \in {q \in F \X Lits : q[2] \in q[1]}}
      pins == {l \in Lits : VarOf(l) \in Appearing(F) /\ \A T \in M : Holds(l, T)}
  IN  IF M = {} THEN {F, {{}}}
      ELSE {G \in {F} \cup dropped \cup shorter \cup {F \cup {{l}} : l \in pins} :
              Models(G, Vars) = M}

-----------------------------------------------------------------------------
\* The stages before the plain caller are the prefix's: stripped under
\* eq_backbone; under eq_iter, or after a stage that failed, unit clauses and
\* variables in no clause may be left.  The projected caller's input has been
\* through bcp_simplify alone: no unit clause but the pins of forced show
\* variables, which occur nowhere else.
Prepared(k) ==
  /\ {} \notin k.formula
  /\ k.projected =>
       \A l \in Lits : {l} \in k.formula =>
         VarOf(l) \in k.frozen /\ \A c \in k.formula \ {{l}} : l \notin c /\ -l \notin c

Init ==
  /\ call \in {k \in Calls : Prepared(k)}
  /\ input = formula /\ clauses = formula
  /\ fate = [v \in Vars |-> IF v \in Declared THEN "kept" ELSE "absent"]
  /\ rep = [v \in Vars |-> v]
  \* Gate detection can be switched off, and the projected caller never asks.
  /\ known \in {{}, IF Projected THEN {} ELSE DetectGates(formula) \ Frozen}
  /\ candidates = <<>> /\ queue = <<>> /\ forced = {} /\ aside = {} /\ limit = 0 /\ copies = FALSE
  /\ gone = 0 /\ asked = 0 /\ total = 0 /\ progress = FALSE /\ rounds = 0
  /\ cause = "gates" /\ pass = 1
  /\ phase = IF formula = {} \/ MaxRounds = 0 THEN "finish" ELSE "merge"

-----------------------------------------------------------------------------
(***************************************************************************)
(* merge_equivalences, and the gates detected afresh when it merged any.   *)
(***************************************************************************)

Class(same, v) == {w \in Vars : <<v, w>> \in same \/ <<v, -w>> \in same}

BugAnyRep(same, v) == {w \in Class(same, v) : fate[w] = "kept"}      \* mutant

\* choose_scc_representative: the smallest survivor, among the show variables
\* alone where the projected caller's class holds one.
Eligible(same, v) ==
  {w \in Class(same, v) : /\ fate[w] = "kept"
                          /\ Projected /\ Class(same, v) \cap Frozen # {} => w \in Frozen}

Folds(same, v) ==
  /\ fate[v] = "kept"
  /\ Eligible(same, v) # {}
  /\ \E w \in Eligible(same, v) : w # v /\ \A x \in Eligible(same, v) : w <= x

\* Mutant: the sign of the equivalence is lost.
BugPositiveFold(same, v) ==
  IF Folds(same, v) THEN CHOOSE w \in Eligible(same, v) : \A x \in Eligible(same, v) : w <= x ELSE v

FoldedOnto(same, v) ==
  IF ~Folds(same, v) THEN v
  ELSE LET r == CHOOSE w \in Eligible(same, v) : \A x \in Eligible(same, v) : w <= x
       IN  IF <<v, r>> \in same THEN r ELSE -r

\* An equivalence x = -x: the clause set becomes the empty clause.
MergeRefutes ==
  /\ phase = "merge"
  /\ \E p \in SameLiterals(clauses) : p[1] = -p[2]
  /\ clauses' = {{}}
  /\ rounds' = rounds + 1
  /\ progress' = FALSE
  /\ phase' = "collect"
  /\ UNCHANGED <<call, input, fate, rep, known, candidates, batch, total, pass>>

BugKeepKnown(F) == known      \* mutant: the gates found before the merge

Redetected(F) == DetectGates(F) \ Frozen

MergeEquivalences ==
  /\ phase = "merge"
  /\ LET same == SameLiterals(clauses)
         onto == [v \in Vars |-> FoldedOnto(same, v)]
         merged == {v \in Vars : Folds(same, v)}
     IN  /\ \A p \in same : p[1] # -p[2]
         /\ fate' = [v \in Vars |-> IF v \in merged THEN "equiv" ELSE fate[v]]
         /\ rep' = [v \in Vars |-> IF v \in merged THEN onto[v] ELSE rep[v]]
         /\ clauses' = IF merged = {} THEN clauses ELSE Substituted(clauses, onto)
         /\ known' = IF merged = {} THEN known ELSE Redetected(clauses')
         /\ total' = total + Cardinality(merged)
         /\ progress' = (merged # {})
  /\ rounds' = rounds + 1
  /\ phase' = "collect"
  /\ UNCHANGED <<call, input, candidates, batch, pass>>

-----------------------------------------------------------------------------
(***************************************************************************)
(* dve_round: the known variables first, then those the probe proves.      *)
(***************************************************************************)

StartBatch(who, vs) ==
  /\ queue' = vs
  /\ asked' = Len(vs)
  /\ limit' = Cardinality(clauses)
  /\ cause' = who
  /\ gone' = 0
  /\ forced' = {}
  /\ copies' = FALSE
  /\ UNCHANGED aside
  /\ phase' = "eliminate"

BugFrozenToo == {v \in KeptVars : IsVeCandidate(clauses, v)}      \* mutant

WorthResolving == {v \in KeptVars \ Frozen : IsVeCandidate(clauses, v)}

CollectCandidates ==
  /\ phase = "collect"
  /\ candidates' = ByFrequency(clauses, WorthResolving \ known)
  /\ StartBatch("gates", ByFrequency(clauses, WorthResolving \cap known))
  /\ UNCHANGED <<call, input, clauses, fate, rep, known, total, progress, rounds, pass>>

\* The probe shares what is not a candidate between its two copies of the
\* formula, so it waits while a known variable is left.
ProbeWaits == \E v \in known : fate[v] = "kept"

SkipProbe ==
  /\ phase = "probe"
  /\ ProbeWaits
  /\ phase' = "strengthen"
  /\ UNCHANGED <<call, input, clauses, fate, rep, known, candidates, batch, total,
                 progress, rounds, pass>>

ProbeDefinability ==
  /\ phase = "probe"
  /\ ~ProbeWaits
  /\ LET cands == SelectSeq(candidates, LAMBDA v : fate[v] = "kept")
         M == Models(clauses, Vars)
     IN  \E found \in {PickDefVars(M, cands, answered) : answered \in SUBSET ToSet(cands)} :
           StartBatch("probe", found)
  /\ UNCHANGED <<call, input, clauses, fate, rep, known, candidates, total, progress,
                 rounds, pass>>

-----------------------------------------------------------------------------
(***************************************************************************)
(* elim_vars: the batch, one variable at a time.                           *)
(***************************************************************************)

BugFrozenUnits(c) == Cardinality(c) = 1      \* mutant: show variables propagated too

\* A unit resolvent on a variable that is not frozen is forced, not kept.
Propagates(c) == \E l \in Lits : c = {l} /\ VarOf(l) \notin Frozen

KeptResolvents(v) == {c \in Resolvents(clauses, v) : ~Propagates(c)}
ForcedLits(v) == {l \in Lits : {l} \in Resolvents(clauses, v) /\ Propagates({l})}

\* How many clauses the list would hold, resolvents counted once per pair.
LengthAfter(v) ==
  Cardinality(Without(clauses, v))
    + Cardinality({p \in ResolvingPairs(clauses, v) : ~Propagates(p[1] \cup p[2])})

SetAside == aside' = aside \cup (forced' \ forced)

BothSigns(v) == {v, -v} \subseteq UNION clauses

\* No clause mentions it any more, or all do with one sign: eliminating it
\* would not keep the count, so it stays.
SkipVar ==
  /\ phase = "eliminate" /\ queue # <<>>
  /\ ~BothSigns(Head(queue))
  /\ queue' = Tail(queue)
  /\ UNCHANGED <<call, input, clauses, fate, rep, known, candidates, forced, aside, limit,
                 copies, gone, asked, total, progress, rounds, cause, pass, phase>>

ResolveVar ==
  /\ phase = "eliminate" /\ queue # <<>>
  /\ LET v == Head(queue)
         after == Without(clauses, v) \cup KeptResolvents(v)
     IN  /\ BothSigns(v)
         /\ LengthAfter(v) <= limit
         /\ clauses' = after
         /\ fate' = [fate EXCEPT ![v] = "defined"]
         /\ forced' = forced \cup ForcedLits(v)
         /\ SetAside
         /\ copies' = (copies \/ LengthAfter(v) > Cardinality(after))
  /\ queue' = Tail(queue)
  /\ gone' = gone + 1
  /\ UNCHANGED <<call, input, rep, known, candidates, limit, asked, total, progress, rounds,
                 cause, pass, phase>>

\* Too many resolvents: the clauses come back as they were and the batch ends.
\* The units met before the overflow stay in the list.
AbortBatch ==
  /\ phase = "eliminate" /\ queue # <<>>
  /\ BothSigns(Head(queue))
  /\ LengthAfter(Head(queue)) > limit \/ copies
  /\ \E met \in SUBSET ForcedLits(Head(queue)) : forced' = forced \cup met
  /\ SetAside
  /\ queue' = <<>>
  /\ UNCHANGED <<call, input, clauses, fate, rep, known, candidates, limit, copies, gone,
                 asked, total, progress, rounds, cause, pass, phase>>

(***************************************************************************)
(* propagate_forced: a satisfied clause goes, a falsified literal leaves   *)
(* its clause, and a clause that shrinks to a unit is queued.  The empty   *)
(* clause ends it.                                                         *)
(***************************************************************************)
Shortened(l) == {c \ {-l} : c \in {d \in clauses : -l \in d /\ l \notin d}}

Propagated(l) == {c \in clauses : l \notin c /\ -l \notin c} \cup Shortened(l)

Derived(l) == {m \in Lits : {m} \in Shortened(l) /\ Propagates({m})}

PropagateForced ==
  /\ phase = "eliminate" /\ queue = <<>>
  /\ \E l \in forced :
       /\ clauses' = Propagated(l)
       /\ forced' = IF {} \in Shortened(l) THEN {} ELSE (forced \ {l}) \cup Derived(l)
  /\ SetAside
  /\ UNCHANGED <<call, input, fate, rep, known, candidates, queue, limit, copies, gone,
                 asked, total, progress, rounds, cause, pass, phase>>

BugCascadeForever == IF cause = "gates" THEN "probe" ELSE "strengthen"      \* mutant

\* A cascade pass that eliminated nothing is the last.
AfterBatch ==
  CASE cause = "gates" -> "probe"
    [] cause = "cascade" /\ gone = 0 -> "finish"
    [] OTHER -> "strengthen"

\* The batch is over; its list is sorted and deduplicated.
EndBatch ==
  /\ phase = "eliminate" /\ queue = <<>> /\ forced = {}
  /\ copies' = FALSE
  /\ total' = total + gone
  /\ progress' = (progress \/ gone > 0)
  /\ phase' = AfterBatch
  /\ UNCHANGED <<call, input, clauses, fate, rep, known, candidates, queue, forced, aside,
                 limit, gone, asked, rounds, cause, pass>>

-----------------------------------------------------------------------------
(***************************************************************************)
(* The end of a round or of a cascade pass.                                *)
(***************************************************************************)

\* A round strengthens what it changed, from StrengthenMin clauses on; a
\* cascade pass when it left a defined variable behind.
MayStrengthen ==
  IF cause = "cascade" THEN gone < asked
  ELSE progress /\ Cardinality(clauses) >= StrengthenMin

BugOneRoundMore == cause # "cascade" /\ progress /\ rounds <= MaxRounds      \* mutant

AnotherRound == cause # "cascade" /\ progress /\ rounds < MaxRounds

\* After a round, another only if this one made progress, and the budget may
\* always run out; after a cascade pass, another one.
Strengthen ==
  /\ phase = "strengthen"
  /\ clauses' \in IF MayStrengthen THEN Strengthened(clauses) ELSE {clauses}
  /\ phase' \in IF AnotherRound THEN {"merge", "cascade"} ELSE {"cascade"}
  /\ UNCHANGED <<call, input, fate, rep, known, candidates, batch, total, progress, rounds,
                 pass>>

\* run_aggressive_pass: every variable left is a candidate.
CascadeProbe ==
  /\ phase = "cascade"
  /\ LET cands == InIdOrder((KeptVars \cap Appearing(clauses)) \ Frozen)
         M == Models(clauses, Vars)
     IN  \E found \in {PickDefVars(M, cands, answered) : answered \in SUBSET ToSet(cands)} :
           /\ found # <<>>
           /\ StartBatch("cascade", found)
  /\ UNCHANGED <<call, input, clauses, fate, rep, known, candidates, total, progress,
                 rounds, pass>>

\* Nothing was proved defined, or the budget ran out.
EndCascade ==
  /\ phase = "cascade"
  /\ phase' = "finish"
  /\ UNCHANGED <<call, input, clauses, fate, rep, known, candidates, batch, total, progress,
                 rounds, pass>>

\* The plain caller renumbers, which drops the literals of what was eliminated.
Renumbered(F, keep) ==
  IF Projected THEN F ELSE {{l \in c : VarOf(l) \in keep} : c \in F}

\* A pass that eliminated nothing hands its input back; otherwise a survivor in
\* no clause is free.
Finish ==
  /\ phase = "finish"
  /\ IF total = 0
       THEN clauses' = input /\ fate' = fate
       ELSE /\ fate' = [v \in Vars |-> IF fate[v] = "kept" /\ v \notin Appearing(clauses)
                                         THEN "free" ELSE fate[v]]
            /\ clauses' = Renumbered(clauses, {v \in Vars : fate'[v] = "kept"})
  /\ phase' = IF pass = 1 /\ ~Projected THEN "again" ELSE "done"
  /\ UNCHANGED <<call, input, rep, known, candidates, batch, total, progress, rounds, pass>>

\* post_dve_strengthen: the whole pass again on the residual, gates detected
\* afresh, fates merged.
SecondPass ==
  /\ phase = "again"
  /\ clauses # {} /\ KeptVars # {}
  /\ input' = clauses
  /\ known' = Redetected(clauses)
  /\ pass' = 2 /\ rounds' = 0 /\ total' = 0 /\ progress' = FALSE
  /\ phase' = IF MaxRounds = 0 THEN "cascade" ELSE "merge"
  /\ UNCHANGED <<call, clauses, fate, rep, candidates, batch>>

NoSecondPass ==
  /\ phase = "again"
  /\ clauses = {} \/ KeptVars = {}
  /\ phase' = "done"
  /\ UNCHANGED <<call, input, clauses, fate, rep, known, candidates, batch, total, progress,
                 rounds, pass>>

\* The call has returned.  Nowhere else may it stop.
Returned == phase = "done" /\ UNCHANGED vars

Next ==
  \/ MergeRefutes \/ MergeEquivalences \/ CollectCandidates
  \/ SkipProbe \/ ProbeDefinability
  \/ SkipVar \/ ResolveVar \/ AbortBatch \/ PropagateForced \/ EndBatch
  \/ Strengthen \/ CascadeProbe \/ EndCascade \/ Finish \/ SecondPass \/ NoSecondPass
  \/ Returned

Spec == Init /\ [][Next]_vars

\* The pass is one sequential call: it takes its next step until it returns.
\* This is WF_vars(Next) with the condition that enables Next written out.
FairSpec == Spec /\ ([]<>(phase = "done") \/ []<><<Next>>_vars)

-----------------------------------------------------------------------------
(***************************************************************************)
(* Properties.                                                             *)
(***************************************************************************)

Fates == {"absent", "kept", "defined", "free", "equiv"}
Phases == {"merge", "collect", "probe", "eliminate", "strengthen", "cascade", "finish",
           "again", "done"}

\* Types of all variables.
TypeOK ==
  /\ call \in Calls /\ input \subseteq Clauses /\ clauses \subseteq Clauses
  /\ fate \in [Vars -> Fates] /\ rep \in [Vars -> Lits]
  /\ known \subseteq Vars /\ candidates \in Seq(Vars) /\ queue \in Seq(Vars)
  /\ forced \subseteq Lits /\ aside \subseteq Lits /\ limit \in Nat /\ copies \in BOOLEAN
  /\ gone \in Nat /\ asked \in Nat /\ total \in Nat /\ rounds \in 0 .. MaxRounds
  /\ progress \in BOOLEAN /\ cause \in {"gates", "probe", "cascade"}
  /\ pass \in 1 .. 2 /\ phase \in Phases

\* What the call still has to count: the clause set, and the literals that are
\* about to be propagated through it.  A literal whose own variable the batch
\* has resolved away since is held by nothing any more.
Residual == clauses \cup Units({l \in forced : fate[VarOf(l)] # "defined"})

\* A literal set aside and then contradicted, or resolved on.
Crossed == \E l \in aside : -l \in aside \/ fate[VarOf(l)] = "defined"

\* The literals of the formula that the outcome does not record: their
\* variables are in no clause, and named free at the end.
Dropped == {l \in aside : VarOf(l) \in KeptVars \cup FreeVars}

\* The plain caller, at every step, on any formula.  DveFate: what a defined or
\* merged variable is worth is a function of the variables that stay, and each
\* model of the formula is one of the residual's with any values for the free
\* variables.  What was set aside, the formula implies, and the models left are
\* exactly the formula's once it is put back, so with nothing set aside they are
\* the formula's; only a literal that was crossed may let in others.
ModelsPreserved ==
  ~Projected =>
    LET M == Models(formula, Declared)
        seen == {T \cap (KeptVars \cup FreeVars) : T \in M}
        left == {R \cup X : R \in Models(Residual, KeptVars), X \in SUBSET FreeVars}
    IN  /\ Cardinality(seen) = Cardinality(M)
        /\ \A l \in aside, T \in M : Holds(l, T)
        /\ seen \subseteq left
        /\ Crossed \/ seen = {T \in left : \A l \in Dropped : Holds(l, T)}

\* strengthen_projected_hidden, at every step, on any formula bcp_simplify
\* leaves.  No projection on the show variables that stay in the show set is
\* lost and no two of the input's fall together; and none is added, forced
\* hidden literals and contradictions included, unless a literal was crossed.
Counted == {v \in Frozen : fate[v] # "equiv"}
Projections(F, S) == {T \cap S : T \in Models(F, Declared)}
ProjectionPreserved ==
  Projected =>
    /\ Projections(formula, Counted) \subseteq Projections(Residual, Counted)
    /\ Crossed \/ Projections(formula, Counted) = Projections(Residual, Counted)
    /\ Cardinality(Projections(formula, Frozen)) = Cardinality(Projections(formula, Counted))

\* What the two callers are promised of a finished pass, with no exception:
\* elim.rs calls its loop count-preserving, DveFate says that nothing constrains
\* a free variable any more, and strengthen_projected_hidden that eliminating a
\* hidden variable preserves the projected count exactly.
CountPreserved ==
  phase \in {"again", "done"} =>
    IF Projected THEN Projections(formula, Counted) = Projections(clauses, Counted)
    ELSE Cardinality(Models(formula, Declared))
           = Cardinality(Models(clauses, KeptVars)) * 2 ^ Cardinality(FreeVars)

\* dve_equiv_survivor: the chain of folds from v, walked to its end.
Survivor(v) ==
  FoldLeft(LAMBDA l, i : IF fate[VarOf(l)] # "equiv" THEN l
                         ELSE IF l > 0 THEN rep[l] ELSE -rep[-l],
           v, [i \in 1 .. NumVars |-> i])

\* The fold of a merged variable's weights into its survivor is sound: chains
\* that grow over rounds and passes end at a variable that was not merged, every
\* model of the input gives both literals one value, and a show variable folds
\* onto a show variable (collect_show_equiv_folds), never resolved away.
FoldsAreFaithful ==
  /\ \A v \in Vars : fate[v] = "equiv" =>
       /\ fate[VarOf(Survivor(v))] # "equiv"
       /\ \A T \in Models(formula, Declared) : Holds(v, T) <=> Holds(Survivor(v), T)
       /\ Projected /\ v \in Frozen => VarOf(Survivor(v)) \in Frozen
  /\ \A v \in Frozen : fate[v] # "defined"

\* An eliminated variable is in no clause, so the renumbering has no literal to
\* drop and cannot weaken a clause.
EliminatedGone == \A v \in Vars : fate[v] # "kept" => v \notin Appearing(clauses)

\* What resolution is about to remove for being a gate's output still is a
\* function of the variables that stay, whatever was merged or eliminated
\* since the gates were detected.
KnownStayDefined ==
  phase = "collect" =>
    LET live == {v \in known : v \in KeptVars \cap Appearing(clauses)}
        M == Models(clauses, KeptVars)
    IN  Cardinality({T \ live : T \in M}) = Cardinality(M)

\* At every step of either caller, what can be counted is what there was, but
\* for the literals set aside.
CountsKept == ModelsPreserved /\ ProjectionPreserved

\* Whatever has left the formula has left it for good and as a function of what
\* stays: nobody's clause mentions it, gates and folds that are relied on later
\* still hold, and the state has its types.
GoneIsDefined == TypeOK /\ EliminatedGone /\ KnownStayDefined /\ FoldsAreFaithful

\* The rounds are bounded and every cascade pass but the last eliminates a
\* variable, so the call returns.
Terminates == <>(phase = "done")

=============================================================================

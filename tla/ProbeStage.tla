----------------------------- MODULE ProbeStage -----------------------------
(***************************************************************************)
(* The probing stage of the backbone prefix: stage_probe and the engine it *)
(* drives (src/src/preprocess/backbone_pipeline.rs, probe_engine.rs,       *)
(* backbone.rs).                                                           *)
(*                                                                         *)
(* The engine keeps the true literals of a first model in classes: two     *)
(* literals stay together while every model seen gave them one value, and  *)
(* the class  top  holds those that were true every time.  A class is kept *)
(* in the order of its variables, so it is a set here and its first        *)
(* literal the one of the smallest variable; the compact numbering of the  *)
(* engine keeps that order and is left out.                                *)
(*                                                                         *)
(* CaDiCaL is external: a solve answers with any model that fits, with     *)
(* UNSAT when there is none, or with UNKNOWN at its conflict cap; fixed()  *)
(* and flippable() know some of what is true.  The clock may run out at    *)
(* every place the code reads it.                                          *)
(***************************************************************************)
EXTENDS Rewrites

CONSTANTS
  Jobs,              \* the formula the stage is given, and whether equivalences are probed
  ChunkGrowth,       \* how much a chunk grows after an UNSAT answer (8)
  EscalatedChunk,    \* ESCALATED_CHUNK (8)
  UnknownPairs       \* EQUIVALENCE_UNKNOWN_PROBES (2)

\* With a third pair given up, two candidates that were passed over would come
\* back as a class, and those split off behind them might equal either.
ASSUME ProbeAssumption ==
  /\ {ChunkGrowth, EscalatedChunk} \subseteq Nat \ {0}
  /\ UnknownPairs \in 1 .. 2
  /\ \A j \in Jobs : j.formula \subseteq Clauses /\ j.equiv \in BOOLEAN

VARIABLES
  job,
  f,         \* the stage's formula
  mapping,   \* mapping2, from the Tarjan pass after the backbone
  seeded,    \* did the first solve give a model?
  model,     \* the variables true in the model last read, variable by variable
  top,       \* the class true in every model so far; empty once equivalences are probed
  classes,   \* the other classes
  loop,      \* queue, chunk, escalating, spent, deferred: probe_loop's locals
  forced,    \* confirmed_backbone
  equivs,    \* confirmed_equiv
  class,     \* the class being probed; asked is probes_completed modulo 2
  unknowns,  \* unknown_probes
  cut,       \* did the clock end a phase?
  pc

vars == <<job, f, mapping, seeded, model, top, classes, loop, forced, equivs, class, unknowns, cut, pc>>
engine == <<seeded, model, top, classes, loop, forced, equivs, class, unknowns, cut>>

Engine == Models(job.formula, Appearing(job.formula))     \* the models of what was loaded
InVarOrder(L) ==
  CHOOSE q \in [1 .. Cardinality(L) -> L] : \A i, j \in DOMAIN q : i < j => VarOf(q[i]) < VarOf(q[j])
FirstOf(L) == CHOOSE l \in L : \A m \in L : VarOf(l) <= VarOf(m)
Frequency(l) == Freq(job.formula, l) + Freq(job.formula, -l)

NoLoop == [queue |-> <<>>, chunk |-> 1, escalating |-> FALSE, spent |-> {}, deferred |-> <<>>]
NoClass == [rep |-> 0, left |-> <<>>, at |-> 1, same |-> {}, asked |-> 0]

Init ==
  /\ job \in Jobs
  /\ f = job.formula
  /\ mapping = Identity
  /\ seeded = FALSE
  /\ model = {}
  /\ top = {}
  /\ classes = {}
  /\ loop = NoLoop
  /\ forced = {}
  /\ equivs = {}
  /\ class = NoClass
  /\ unknowns = 0
  /\ cut = FALSE
  /\ pc = "seed"

-----------------------------------------------------------------------------
(***************************************************************************)
(* Partition refinement.                                                   *)
(***************************************************************************)

TrueIn(L, M) == {l \in L : Holds(l, M)}
WorthKeeping(S) == {c \in S : Cardinality(c) >= 2}

\* Mutant: the true half of top becomes an ordinary class when it is small.
BugDropSmallTop(t, M) == IF Cardinality(TrueIn(t, M)) >= 2 THEN TrueIn(t, M) ELSE {}

TopHalf(t, M) == TrueIn(t, M)

\* observe_model: every class splits into its true and its false half.
Refined(S, t, M) ==
  WorthKeeping({TrueIn(c, M) : c \in S} \cup {c \ TrueIn(c, M) : c \in S} \cup {t \ TrueIn(t, M)})

\* Mutant: the candidates outside the partition are read from the old model.
BugHeldOnly(S, t, others) == {VarOf(l) : l \in (UNION S) \cup t}

\* The variables read from the solver's answer (refresh_model).
Held(S, t, others) == {VarOf(l) : l \in (UNION S) \cup t \cup others}

\* The model the engine has after reading the answer T.
Reread(T, held) == (T \cap held) \cup (model \ held)

\* A counter-model T: every class splits on it; others are literals held outside.
Observe(T, others) ==
  LET M == Reread(T, Held(classes, top, others))
  IN  /\ model' = M
      /\ classes' = Refined(classes, top, M)
      /\ top' = TopHalf(top, M)

\* confirm_backbone: the units pinned in the solver are the literals of forced.
Confirm(L) ==
  /\ forced' = forced \cup L
  /\ top' = top \ L
  /\ UNCHANGED <<model, classes>>

-----------------------------------------------------------------------------
(***************************************************************************)
(* The first solve, and what it gives for free.                            *)
(***************************************************************************)

\* The engine cannot be built: the stage reports nothing.
SolverUnavailable ==
  /\ pc = "seed"
  /\ pc' = "done"
  /\ UNCHANGED <<job, f, mapping, engine>>

\* Candidates by falling frequency; ties come in any order.
ByFrequency(L) ==
  {q \in [1 .. Cardinality(L) -> L] :
     /\ Cardinality(Range(q)) = Cardinality(L)
     /\ \A i, j \in DOMAIN q : i < j => Frequency(q[i]) >= Frequency(q[j])}

\* Literals true in T that can be flipped alone.
Flippable(T) ==
  {l \in Lits : /\ VarOf(l) \in Appearing(job.formula) /\ Holds(l, T)
                /\ (IF l > 0 THEN T \ {l} ELSE T \cup {-l}) \in Engine}

\* seed_backbone_candidates: read_model, harvest_fixed_and_flippable, the sort.
SeedSat ==
  /\ pc = "seed"
  /\ \E T \in Engine :
     \E fixed \in SUBSET Backbone(job.formula), flips \in SUBSET Flippable(T) :
       LET all == {l \in Lits : VarOf(l) \in Appearing(job.formula) /\ Holds(l, T)}
           rest == all \ (fixed \cup flips)
       IN  /\ model' = T
           /\ top' = rest
           /\ forced' = fixed
           /\ \E q \in ByFrequency(rest) : loop' = [NoLoop EXCEPT !.queue = q]
  /\ seeded' = TRUE
  /\ pc' = "probe"
  /\ UNCHANGED <<job, f, mapping, classes, equivs, class, unknowns, cut>>

SeedUnsat ==
  /\ pc = "seed" /\ Engine = {}
  /\ f' = Contradiction
  /\ pc' = "done"
  /\ UNCHANGED <<job, mapping, engine>>

\* run_equiv never seeds again.
SeedUnknown ==
  /\ pc = "seed"
  /\ pc' = "tarjan"
  /\ cut' = TRUE
  /\ UNCHANGED <<job, f, mapping, seeded, model, top, classes, loop, forced, equivs, class, unknowns>>

-----------------------------------------------------------------------------
(***************************************************************************)
(* probe_loop: chunks of candidates, the hard ones escalated once.         *)
(***************************************************************************)

ChunkSize == IF loop.chunk < Len(loop.queue) THEN loop.chunk ELSE Len(loop.queue)
Chunk == SubSeq(loop.queue, 1, ChunkSize)
CappedSingle == ChunkSize = 1 /\ ~loop.escalating
\* Mutant: the negations are assumed together instead of one being asked for.
BugAssumeAll(L) == \A T \in Engine : \E l \in L : Holds(l, T)

\* run_chunk_probe answers UNSAT: no model makes one of them false.
AllTrue(L) == \A T \in Engine : \A l \in L : Holds(l, T)
Dropped(q, n) == SubSeq(q, n + 1, Len(q))

Probing == pc = "probe" /\ loop.queue # <<>>
InBackbone == pc' = "probe" /\ UNCHANGED <<job, f, mapping, seeded, equivs, class, unknowns, cut>>

\* No model makes a literal of the chunk false: all of them are backbone.
ChunkConfirmed ==
  /\ Probing /\ AllTrue(ToSet(Chunk))
  /\ Confirm(ToSet(Chunk))
  /\ loop' = [loop EXCEPT !.queue = Dropped(@, ChunkSize), !.chunk = @ * ChunkGrowth,
                          !.escalating = FALSE]
  /\ InBackbone

\* The members of the sequence that are in P.
Keeping(q, P) == FlattenSeq([k \in 1 .. Len(q) |-> IF q[k] \in P THEN <<q[k]>> ELSE <<>>])

\* Mutant: candidates the counter-model refutes stay.
BugKeepQueue(q, M) == q

\* compact_candidates_against_model.
Compacted(q, M) == Keeping(q, TrueIn(ToSet(q), M))

ChunkRefuted ==
  /\ Probing
  /\ \E T \in {S \in Engine : \E l \in ToSet(Chunk) : ~Holds(l, S)} :
       /\ Observe(T, {})
       /\ loop' = [loop EXCEPT !.queue = Compacted(@, Reread(T, Held(classes, top, {}))), !.chunk = 1,
                               !.escalating = FALSE]
  /\ UNCHANGED forced
  /\ InBackbone

\* Mutant: a literal set aside is forgotten.
BugForgetDeferred(lp, single) ==
  IF single /\ Head(lp.queue) \notin lp.spent
  THEN [lp EXCEPT !.chunk = EscalatedChunk, !.escalating = TRUE, !.spent = {Head(lp.queue)}]
  ELSE [lp EXCEPT !.queue = Dropped(@, ChunkSize), !.chunk = 1, !.escalating = FALSE]

\* defer_or_escalate.
Undecided(lp, single) ==
  IF single /\ Head(lp.queue) \notin lp.spent
  THEN [lp EXCEPT !.chunk = EscalatedChunk, !.escalating = TRUE, !.spent = {Head(lp.queue)}]
  ELSE [lp EXCEPT !.queue = Dropped(@, ChunkSize), !.chunk = 1, !.escalating = FALSE,
                  !.deferred = @ \o Chunk]

ChunkUnknown ==
  /\ Probing
  /\ loop' = Undecided(loop, CappedSingle)
  /\ UNCHANGED <<model, top, classes, forced>>
  /\ InBackbone

\* Every candidate is decided or deferred.
QueueEmpty ==
  /\ pc = "probe" /\ loop.queue = <<>>
  /\ pc' = "recover"
  /\ UNCHANGED <<job, f, mapping, engine>>

\* recover_deferred: one short probe each.
Recovering == pc = "recover" /\ loop.deferred # <<>>
InRecovery ==
  /\ loop' = [loop EXCEPT !.deferred = Tail(@)]
  /\ UNCHANGED <<job, f, mapping, seeded, equivs, class, unknowns>>

RecoverConfirmed ==
  /\ Recovering /\ AllTrue({Head(loop.deferred)})
  /\ Confirm({Head(loop.deferred)})
  /\ InRecovery /\ UNCHANGED <<cut, pc>>

RecoverRefuted ==
  /\ Recovering
  /\ \E T \in {S \in Engine : ~Holds(Head(loop.deferred), S)} : Observe(T, {})
  /\ InRecovery /\ UNCHANGED <<forced, cut, pc>>

\* The literal stays undecided: the stage may leave a backbone literal behind.
RecoverUnknown ==
  /\ Recovering
  /\ cut' = TRUE
  /\ InRecovery /\ UNCHANGED <<model, top, classes, forced, pc>>

RecoverDone ==
  /\ pc = "recover" /\ loop.deferred = <<>>
  /\ pc' = "inject"
  /\ UNCHANGED <<job, f, mapping, engine>>

\* The budget is spent: neither loop goes on.
BackboneOutOfTime ==
  /\ Probing \/ Recovering
  /\ cut' = TRUE
  /\ pc' = "inject"
  /\ UNCHANGED <<job, f, mapping, seeded, model, top, classes, loop, forced, equivs, class, unknowns>>

-----------------------------------------------------------------------------
(***************************************************************************)
(* The formula between the two phases.                                     *)
(***************************************************************************)

\* propagate_backbone_units.
Inject ==
  /\ pc = "inject"
  /\ f' = IF forced = {} THEN f ELSE Repinned(f \cup Units(forced))
  /\ pc' = IF Refuted(f') /\ forced # {} THEN "done" ELSE "tarjan"
  /\ UNCHANGED <<job, mapping, engine>>

\* ingest_tarjan_equivs: the variables substituted away leave every class.
Ingested(S, rep) == {l \in S : rep[VarOf(l)] = VarOf(l)}

\* extract_post_backbone_tarjan.
TarjanAgain ==
  /\ pc = "tarjan"
  /\ f' = Extracted(f)
  /\ IF EquivContradiction(f)
     THEN pc' = "done" /\ UNCHANGED <<mapping, top, classes>>
     ELSE /\ mapping' = ExtractedMap(f)
          /\ top' = Ingested(top, mapping')
          /\ classes' = {Ingested(c, mapping') : c \in classes}
          /\ pc' = "equiv"
  /\ UNCHANGED <<job, seeded, model, loop, forced, equivs, class, unknowns, cut>>

-----------------------------------------------------------------------------
(***************************************************************************)
(* run_equiv: one class after the other, the largest first.                *)
(***************************************************************************)

\* Nothing to do without a first model or a budget; else top is a class again.
StartEquiv ==
  /\ pc = "equiv"
  /\ IF job.equiv /\ seeded
     THEN classes' = classes \cup {top} /\ top' = {} /\ pc' = "class"
     ELSE UNCHANGED <<top, classes>> /\ pc' = "done"
  /\ UNCHANGED <<job, f, mapping, seeded, model, loop, forced, equivs, class, unknowns, cut>>

MayGoOn == unknowns < UnknownPairs
InEquiv == UNCHANGED <<job, f, mapping, seeded, top, loop, forced>>

\* pop_next_equiv_class: classes below two are dropped, the largest is taken out.
TakeClass ==
  /\ pc = "class" /\ MayGoOn
  /\ \E c \in WorthKeeping(classes) :
       /\ \A d \in classes : Cardinality(d) <= Cardinality(c)
       /\ class' = [rep |-> FirstOf(c), left |-> InVarOrder(c \ {FirstOf(c)}), at |-> 1, same |-> {},
                     asked |-> 0]
       /\ classes' = WorthKeeping(classes) \ {c}
  /\ pc' = "pair"
  /\ InEquiv /\ UNCHANGED <<model, equivs, unknowns, cut>>

Candidate == class.left[class.at]
InClass == pc = "pair" /\ class.at <= Len(class.left) /\ MayGoOn
Refuting(l, m) == {T \in Engine : Holds(l, T) /\ ~Holds(m, T)}

\* Mutant: agreement is always judged as if the representative were true.
BugFixedPolarity(L, M, repTrue) == TrueIn(L, M)

\* refine_candidates: who still agrees with the representative.
Agreeing(L, M, repTrue) == IF repTrue THEN TrueIn(L, M) ELSE L \ TrueIn(L, M)

\* refine_against_model: T refutes the pair; candidates passed over stay as they are.
SplitClass(T, repTrue) ==
  LET after == Dropped(class.left, class.at - 1)
      stay == Agreeing(ToSet(after), Reread(T, Held(classes, {}, ToSet(after))), repTrue)
      M == Reread(T, Held(classes, {}, ToSet(after)))
  IN  /\ model' = M
      /\ classes' = WorthKeeping(Refined(classes, {}, M) \cup {ToSet(after) \ stay})
      /\ class' = [class EXCEPT !.left = SubSeq(@, 1, class.at - 1) \o Keeping(after, stay),
                                !.asked = 1 - @]

\* Direction 1, rep /\ ~candidate, then direction 2, ~rep /\ candidate.
PairRefuted ==
  /\ InClass
  /\ \/ \E T \in Refuting(class.rep, Candidate) : SplitClass(T, TRUE)
     \/ /\ Refuting(class.rep, Candidate) = {}
        /\ \E T \in Refuting(Candidate, class.rep) : SplitClass(T, FALSE)
  /\ InEquiv /\ UNCHANGED <<equivs, unknowns, cut, pc>>

PairConfirmed ==
  /\ InClass
  /\ Refuting(class.rep, Candidate) = {} /\ Refuting(Candidate, class.rep) = {}
  /\ class' = [class EXCEPT !.same = @ \cup {Candidate}, !.left = RemoveAt(@, class.at)]
  /\ InEquiv /\ UNCHANGED <<model, classes, equivs, unknowns, cut, pc>>

\* Either direction may stop at its cap.
PairUnknown ==
  /\ InClass
  /\ unknowns' = unknowns + 1
  /\ class' = [class EXCEPT !.at = @ + 1]
  /\ InEquiv /\ UNCHANGED <<model, classes, equivs, cut, pc>>

\* record_equiv_class_outcome.
Recorded(next) ==
  /\ equivs' = equivs \cup {<<class.rep, m>> : m \in class.same}
  /\ classes' = WorthKeeping(classes \cup {ToSet(class.left)})
  /\ class' = NoClass
  /\ pc' = next

ClassDone ==
  /\ pc = "pair" /\ (class.at > Len(class.left) \/ ~MayGoOn)
  /\ Recorded("class")
  /\ InEquiv /\ UNCHANGED <<model, unknowns, cut>>

EquivOutOfTime ==
  /\ InClass \/ (pc = "class" /\ WorthKeeping(classes) # {} /\ MayGoOn)
  /\ cut' = TRUE
  /\ IF pc = "pair" THEN Recorded("emit") ELSE pc' = "emit" /\ UNCHANGED <<equivs, classes, class>>
  /\ InEquiv /\ UNCHANGED <<model, unknowns>>

EquivDone ==
  /\ pc = "class" /\ (~MayGoOn \/ WorthKeeping(classes) = {})
  /\ pc' = "emit"
  /\ UNCHANGED <<job, f, mapping, engine>>

\* mapped_equivalences: a pair that has become one variable says nothing new.
Mapped ==
  {p \in {<<MapLit(mapping, q[1]), MapLit(mapping, q[2])>> : q \in equivs} : VarOf(p[1]) # VarOf(p[2])}

\* run_sat_equiv_probing: each pair as two clauses.
Emit ==
  /\ pc = "emit"
  /\ f' = f \cup Biconditionals(Mapped)
  /\ pc' = "done"
  /\ UNCHANGED <<job, mapping, engine>>

Done == pc = "done" /\ UNCHANGED vars

Step ==
  \/ SolverUnavailable \/ SeedSat \/ SeedUnsat \/ SeedUnknown
  \/ ChunkConfirmed \/ ChunkRefuted \/ ChunkUnknown \/ QueueEmpty \/ BackboneOutOfTime
  \/ RecoverConfirmed \/ RecoverRefuted \/ RecoverUnknown \/ RecoverDone
  \/ Inject \/ TarjanAgain
  \/ StartEquiv \/ TakeClass \/ PairRefuted \/ PairConfirmed \/ PairUnknown
  \/ ClassDone \/ EquivOutOfTime \/ EquivDone \/ Emit

Next == Step \/ Done

Spec == Init /\ [][Next]_vars

\* The stage is one thread that never waits, and every solve comes back at its
\* cap: WF_vars(Step), with the condition that enables Step written out.
FairSpec == Spec /\ ([]<>(pc = "done") \/ []<><<Step>>_vars)

-----------------------------------------------------------------------------
(***************************************************************************)
(* Properties.                                                             *)
(***************************************************************************)

Members == (UNION classes) \cup top \cup ToSet(class.left) \cup class.same \cup ({class.rep} \ {0})

\* The state has its types, and a partition is one: no variable is in two
\* classes or there twice, what is confirmed has left it, and every backbone
\* candidate that retire_from_top may be asked to remove is still in top.
PartitionWellFormed ==
  /\ mapping \in [Vars -> Lits] /\ {seeded, cut} \subseteq BOOLEAN
  /\ model \subseteq Vars /\ forced \subseteq Lits /\ equivs \subseteq Lits \X Lits
  /\ unknowns \in 0 .. UnknownPairs
  /\ Members \subseteq Lits \ forced
  /\ \A l \in Members : -l \notin Members /\ -l \notin forced
  /\ \A c \in classes : \A d \in (classes \ {c}) \cup {top} : c \cap d = {}
  /\ \A c \in classes : c \cap (ToSet(class.left) \cup class.same \cup {class.rep}) = {}
  /\ pc \in {"probe", "recover"} =>
       /\ ToSet(loop.queue) \subseteq top
       /\ ToSet(loop.queue) \cap ToSet(loop.deferred) = {}

\* The literals that may still be found equal to another; a candidate passed
\* over as too hard is one no more.
Alive == (UNION classes) \cup top \cup ToSet(Dropped(class.left, class.at - 1)) \cup ({class.rep} \ {0})

\* A model only ever refutes: as long as the backbone is probed every backbone
\* literal not yet confirmed is in top, waiting to be asked or given up, and two
\* literals with the same value in every model are never parted, whatever
\* models the solver picked and whichever stale entries the model vector has.
NothingLost ==
  seeded =>
    /\ pc \in {"probe", "recover"} =>
         LET open == Backbone(job.formula) \ forced
         IN  /\ open \subseteq top
             /\ cut \/ open \subseteq ToSet(loop.queue) \cup ToSet(loop.deferred)
    /\ (MayGoOn /\ pc \notin {"emit", "done"}) =>
         LET models == Engine
         IN  \A c \in classes \cup {top} : \A l \in c, m \in Alive \ c :
               \E T \in models : Holds(l, T) # Holds(m, T)

\* The partition is one, and holds every answer still to be found.
PartitionHolds == PartitionWellFormed /\ NothingLost

\* What the stage leaves is what the rest of the chain takes it to leave (the
\* step Probe of SimplifyChain): nothing changed, a refutation, or the formula
\* with some of its backbone pinned and propagated, substituted, and with
\* biconditionals of live variables that hold in every model.
StageAsPromised ==
  LET C == IF forced = {} THEN job.formula ELSE Repinned(job.formula \cup Units(forced))
      Sorted(p) == CASE VarOf(p[1]) < VarOf(p[2]) -> p [] OTHER -> <<p[2], p[1]>>
      Positive(p) == IF p[1] > 0 THEN p ELSE <<-p[1], -p[2]>>
  IN  pc = "done" =>
        \/ f = job.formula
        \/ f = Contradiction /\ Engine = {}
        \/ /\ forced \subseteq Backbone(job.formula)
           /\ {Positive(Sorted(p)) : p \in Mapped} \subseteq EqualPairs(C)
           /\ f = Probed(C, Mapped)

Same(S, l, m) ==
  l = m \/ \E r \in Lits : \A x \in {l, m} : x = r \/ <<r, x>> \in S \/ <<-r, -x>> \in S

\* When no budget ended a search and no pair was given up, the answer is
\* complete: the whole backbone is confirmed, and any two live variables that
\* are equal or opposite in every model are joined through one representative.
CompleteWhenAnswered ==
  (pc = "done" /\ seeded /\ ~cut) =>
    /\ forced = Backbone(job.formula)
    /\ (job.equiv /\ unknowns = 0 /\ ~Refuted(f)) =>
         \A v, w \in {u \in Appearing(job.formula) : mapping[u] = u /\ {u, -u} \cap forced = {}} :
           \A m \in {w, -w} :
             (\A T \in Engine : Holds(v, T) <=> Holds(m, T)) => Same(equivs, v, m)

\* What a cut stage leaves is sound, and what an uncut one leaves is complete too.
StageDelivers == StageAsPromised /\ CompleteWhenAnswered

\* Probing comes to its end without any clock: no answer of the solver is asked
\* for again and again.
ProbingEnds == <>(pc = "done")

=============================================================================

---------------------------- MODULE Portfolio ----------------------------
(***************************************************************************)
(* The portfolio driver (src/src/decompose/portfolio/): walk a catalog of  *)
(* vtree constructions under one deadline, score every tree they offer,    *)
(* and select one.  A caller may run several builds one after the other    *)
(* that share a history, which is how a retry knows what a build costs.    *)
(*                                                                         *)
(* A build is one thread of control; what varies is how long each          *)
(* construction takes and what it offers.  `now' is the construction clock *)
(* in ticks since the build began: the wall, or the meter's clock under a  *)
(* deterministic budget.  A tree is a member of Trees; its scores are a    *)
(* function of the tree, as they are in the code.                          *)
(***************************************************************************)
EXTENDS Integers, Sequences, FiniteSets, SequencesExt

CONSTANTS
  None,                 \* an absent option
  Refused,              \* the answers of a build without a winner: the name
  Unbuilt,              \* is unknown, the required candidate is missing,
  Nothing,              \* no candidate was built
  Trees,                \* the vtrees the constructions can find
  Score,                \* tree |-> [cost, peak, stddev, agg, heavyNode]
  Requests,             \* what callers ask for (see RequestOK)
  MaxBuilds,            \* how many builds share one history
  MaxGoatdCandidates,   \* how many trees a goatd entry can offer
  MaxWork,              \* ticks a build without a deadline takes at most
  MaxPiece,             \* ticks between two looks at a deadline
  LastAttempt,          \* LAST_ATTEMPT_MS
  LaterFlowcutterMin,   \* LATER_FLOWCUTTER_MIN_MS
  GoatdBudgetFloor,     \* GOATD_BUDGET_FLOOR_MS
  ToleranceScale        \* a tolerance is so many parts of this

ASSUME PortfolioAssumption ==
  /\ MaxBuilds \in Nat \ {0} /\ MaxGoatdCandidates \in Nat \ {0}
  /\ MaxWork \in Nat /\ MaxPiece \in Nat
  /\ LastAttempt \in Nat \ {0} /\ LaterFlowcutterMin \in Nat /\ GoatdBudgetFloor \in Nat
  /\ ToleranceScale \in Nat \ {0}
  /\ \A t \in Trees : /\ {Score[t].cost, Score[t].peak, Score[t].stddev, Score[t].agg} \subseteq Nat
                      /\ Score[t].heavyNode \in BOOLEAN

VARIABLES
  phase,                \* "idle", "walking" or "done"
  req,                  \* the request being served
  pos,                  \* the catalog entry the walk is at
  now,                  \* the construction clock
  run,                  \* RunState
  derived,              \* the Derived snapshot, None before it is needed
  skipped,              \* the names of the entries never started
  started,              \* the entries started: name, start, end, share
  built,                \* every candidate built, oldest first
  answer,               \* the winner, or why there is none
  published,            \* the candidate set
  history,              \* the wall of the last build (PortfolioBuildHistory)
  builds                \* how many builds have begun

vars == <<phase, req, pos, now, run, derived, skipped, started, built, answer, published,
          history, builds>>

-----------------------------------------------------------------------------
(***************************************************************************)
(* The catalog and the order a build walks it in.                          *)
(***************************************************************************)

\* `alpha' is the place of the name in the alphabet, which breaks the last
\* ties of a published set.
Entry(name, build, gate, offers, alpha) ==
  [name |-> name, build |-> build, gate |-> gate, offers |-> offers, alpha |-> alpha]

CATALOG ==
  << Entry("flowcutter-incidence", "flowcutter", "always", 1, 2),
     Entry("flowcutter-primal", "flowcutter", "always", 1, 3),
     Entry("goatd-incidence", "goatd", "uncapped", MaxGoatdCandidates, 5),
     Entry("goatd-primal", "goatd", "uncapped", MaxGoatdCandidates, 6),
     Entry("force", "force", "uncapped", 1, 4),
     Entry("hypergraph-bisect", "bisect", "generated", 1, 8),
     Entry("guided-bisect", "guided", "coloring", 1, 7) >>

Names == {CATALOG[i].name : i \in DOMAIN CATALOG}

CatalogWithKnobs(skip) ==
  FoldLeft(LAMBDA kept, e : IF e.name \in skip THEN kept ELSE Append(kept, e), <<>>, CATALOG)

PlaceOf(name, catalog) == {i \in DOMAIN catalog : catalog[i].name = name}

\* A dense formula has its primal view decomposed before its incidence view.
WalkOrder(catalog, dense) ==
  LET ahead == {p \in PlaceOf("flowcutter-incidence", catalog)
                        \X PlaceOf("flowcutter-primal", catalog) : p[1] < p[2]}
  IN  IF dense /\ ahead # {}
      THEN LET p == CHOOSE p \in ahead : TRUE
           IN  InsertAt(RemoveAt(catalog, p[2]), p[1], catalog[p[2]])
      ELSE catalog

Walk == WalkOrder(CatalogWithKnobs(req.skip), req.dense)

\* The candidates an entry publishes names for: its own, then one per tree
\* past the first.
Candidates ==
  {[name |-> e.name, index |-> i, tree |-> t] :
      e \in ToSet(CATALOG), i \in 0 .. MaxGoatdCandidates - 1, t \in Trees}

\* A preference names an entry and the place of a tree in what it offers.
KnownName(prefer) ==
  \E e \in ToSet(CATALOG) : prefer.name = e.name /\ prefer.index < e.offers

Prefers(r, c) == r.prefer # None /\ r.prefer.name = c.name /\ r.prefer.index = c.index

RequestOK(r) ==
  /\ r.peak \in BOOLEAN                             \* projected selection
  /\ r.ranker \in BOOLEAN                           \* an aggregate ranker is loaded
  /\ r.margin \in Nat \cup {None}                   \* above the cheapest tree's cost
  /\ r.tolerance \in Nat                            \* the projected band
  /\ r.keep \in Nat                                 \* candidate_capacity
  /\ r.prefer \in {None} \cup [name : STRING, index : Nat]
  /\ r.required \in BOOLEAN
  /\ r.skip \subseteq Names
  /\ r.dense \in BOOLEAN /\ r.heavy \in BOOLEAN /\ r.coloring \in BOOLEAN
  /\ r.deadline \in Nat \cup {None}                 \* construction clock; 0 is already spent
  /\ r.cap \in Nat \cup {None}                      \* flowcutter_cap_ms, peak and large only
  /\ r.metered \in BOOLEAN                          \* a deterministic construction budget

\* Callers ask for what a request can say, and no answer is taken for another.
ASSUME RequestsAssumption ==
  /\ \A r \in Requests : RequestOK(r)
  /\ None \notin Nat
  /\ {None, Refused, Unbuilt, Nothing} \cap Candidates = {}
  /\ None \notin {Refused, Unbuilt, Nothing}
  /\ Refused \notin {Unbuilt, Nothing} /\ Unbuilt # Nothing

-----------------------------------------------------------------------------
(***************************************************************************)
(* Clocks and bounds.                                                      *)
(***************************************************************************)
Larger(a, b) == IF a >= b THEN a ELSE b
Smaller(a, b) == IF a <= b THEN a ELSE b
Tightest(bounds) == IF bounds = {None} THEN None ELSE CHOOSE b \in bounds \ {None} : \A c \in bounds \ {None} : b <= c

RemainingAt(r, t) == IF r.deadline = None THEN None ELSE Larger(r.deadline - t, 0)
OutOfTime == RemainingAt(req, now) = 0

\* Mutant: the share is not kept above zero.
BugShareUnfloored(n) ==
  IF req.deadline = None THEN None ELSE RemainingAt(req, now) \div n

\* The next entry's part of what is left, when n are still to come.
FairShare(n) == IF req.deadline = None THEN None ELSE Larger(RemainingAt(req, now) \div n, 1)

\* This build has no more room than the last one in its history took.
Outspent(left, was) == left # None /\ was # None /\ left > 0 /\ left <= was

ArmedByHistory(r) == ~r.metered /\ Outspent(RemainingAt(r, 0), history)

NewRun(r) ==
  [share |-> None, wall |-> None, behind |-> ArmedByHistory(r), firstFlowcutter |-> None,
   flowcutter |-> 0, cache |-> FALSE, best |-> None, cands |-> <<>>, preferred |-> None]

NothingBuilt == run.best = None /\ run.cands = <<>>

\* The slice of the entry the walk is at: set_candidate_slice_bounds.
Sliced ==
  IF OutOfTime
  THEN [run EXCEPT !.share = LastAttempt, !.wall = LastAttempt, !.behind = TRUE]
  ELSE [run EXCEPT !.share = FairShare(Len(Walk) - pos + 1),
                   !.wall = RemainingAt(req, now)]

\* What a FlowCutter search is cut at: fc_time_cap_ms.
FlowcutterCap(s) ==
  Tightest({s.wall, req.cap,
            IF s.behind THEN s.share ELSE None,
            IF s.wall # None /\ s.firstFlowcutter # None
            THEN Larger(s.firstFlowcutter, LaterFlowcutterMin) ELSE None} \cup {None})

\* Mutant: goatd's budget is what the build had at its start.
BugGoatdWholeBudget(s) == req.deadline

GoatdBudget(s) ==
  IF s.share = None THEN None ELSE Smaller(s.share, Larger(s.flowcutter, GoatdBudgetFloor))

\* A construction looks at its bound every MaxPiece ticks; without one it
\* takes what it takes.
Durations(bound) == IF bound = None THEN 0 .. MaxWork ELSE 0 .. bound + MaxPiece

CapTripped == req.cap # None /\ now > req.cap

-----------------------------------------------------------------------------
(***************************************************************************)
(* Scores and the picks made on them.                                      *)
(***************************************************************************)
Cost(c) == Score[c.tree].cost
Metric(c) == IF req.peak THEN Score[c.tree].peak ELSE Score[c.tree].cost
Agg(c) == Score[c.tree].agg

\* Mutant: a later tree of equal score displaces the earlier one.
BugLaterWinsTies(values) ==
  LET ranked == {i \in DOMAIN values : values[i] # None}
  IN  IF ranked = {} THEN 1
      ELSE CHOOSE i \in ranked : \A j \in ranked : /\ values[i] <= values[j]
                                                   /\ values[i] = values[j] => j <= i

\* The first value no later value is strictly below; None (a NaN) is never
\* picked, except that the first stands in when every value is NaN.
GreedyIndex(values) ==
  FoldLeft(LAMBDA at, i : IF /\ values[i] # None
                             /\ values[at] = None \/ values[i] < values[at]
                          THEN i ELSE at,
           1, [i \in DOMAIN values |-> i])

\* The ranker's pick: the best aggregate among the trees whose cost is
\* within the margin of the cheapest.
SelectAgg(cands) ==
  LET cheapest == cands[GreedyIndex([i \in DOMAIN cands |-> Cost(cands[i])])]
      eligible(c) == req.margin = None \/ Cost(c) <= Cost(cheapest) + req.margin
  IN  cands[GreedyIndex([i \in DOMAIN cands |-> IF eligible(cands[i]) THEN Agg(cands[i])
                                                ELSE None])]

\* The projected pick: among the trees within the tolerance of the narrowest
\* peak, the first of the best balanced.
SelectPeakBand(cands) ==
  LET narrowest == Metric(cands[GreedyIndex([i \in DOMAIN cands |-> Metric(cands[i])])])
      band == {i \in DOMAIN cands : Metric(cands[i]) * ToleranceScale
                                      <= narrowest * (ToleranceScale + req.tolerance)}
  IN  cands[CHOOSE i \in band : \A j \in band :
              \/ Score[cands[i].tree].stddev < Score[cands[j].tree].stddev
              \/ Score[cands[i].tree].stddev = Score[cands[j].tree].stddev /\ i <= j]

\* A projected build does not rank: ranker_for, score_agg.
Ranked == req.ranker /\ ~req.peak

\* Mutant: only a build that selects on peak width retains its candidates.
BugRetainsForPeakOnly(s, c) ==
  [s EXCEPT !.preferred = IF @ = None /\ Prefers(req, c) THEN c ELSE @,
            !.best = IF ~req.peak /\ (@ = None \/ Cost(c) < Cost(@)) THEN c ELSE @,
            !.cands = IF req.peak \/ Ranked THEN Append(@, c) ELSE @]

\* RunState::fold: one candidate meets the incumbent.
Fold(s, c) ==
  [s EXCEPT !.preferred = IF @ = None /\ Prefers(req, c) THEN c ELSE @,
            !.best = IF ~req.peak /\ (@ = None \/ Cost(c) < Cost(@)) THEN c ELSE @,
            !.cands = IF req.peak \/ req.keep > 1 \/ Ranked THEN Append(@, c) ELSE @]

\* adopt_winner: each rule that runs overrides the one before it.
Adopted(s) ==
  LET ranked == IF Ranked /\ s.cands # <<>> THEN SelectAgg(s.cands) ELSE s.best
      banded == IF req.peak /\ s.cands # <<>> THEN SelectPeakBand(s.cands) ELSE ranked
  IN  IF s.preferred # None THEN s.preferred ELSE banded

-----------------------------------------------------------------------------
(***************************************************************************)
(* The published candidate set (candidates::from_scored).                  *)
(***************************************************************************)

\* The constructions that found the tree, in the order they ran.
BuiltBy(cands, tree) == SelectSeq(cands, LAMBDA c : c.tree = tree)

AlphaOf(c) == (CHOOSE e \in ToSet(CATALOG) : e.name = c.name).alpha * MaxGoatdCandidates + c.index

\* Where the tree was first found.
FoundAt(cands, t) ==
  CHOOSE i \in DOMAIN cands : cands[i].tree = t /\ \A j \in 1 .. i - 1 : cands[j].tree # t

\* What a tree is sorted by: the winner's first, then metric, balance, cost and
\* name; the sort is stable, so what ties in all of them stays as it was found.
RankOf(cands, winner, t) ==
  <<IF t = winner.tree THEN 0 ELSE 1, Metric([tree |-> t]), Score[t].stddev, Score[t].cost,
    AlphaOf(cands[FoundAt(cands, t)]), FoundAt(cands, t)>>

Below(a, b) == \E i \in 1 .. 6 : a[i] < b[i] /\ \A j \in 1 .. i - 1 : a[j] = b[j]

\* One place per distinct tree.
Sorted(cands, winner) ==
  LET trees == {c.tree : c \in ToSet(cands)}
      rank == [t \in trees |-> RankOf(cands, winner, t)]
  IN  CHOOSE q \in [1 .. Cardinality(trees) -> trees] :
        \A i, j \in DOMAIN q : i < j => Below(rank[q[i]], rank[q[j]])

CandidateSet(cands, winner) ==
  IF req.keep <= 1 \/ cands = <<>> THEN <<>>
  ELSE LET all == Sorted(cands, winner)
       IN  [i \in 1 .. Smaller(req.keep, Len(all)) |->
              [tree |-> all[i], by |-> BuiltBy(cands, all[i]), selected |-> all[i] = winner.tree]]

-----------------------------------------------------------------------------
\* What a build that ends in any way records; no length reads as no build.
Recorded(elapsed) == IF elapsed = 0 THEN None ELSE elapsed

Init ==
  /\ phase = "idle"
  /\ req = None
  /\ pos = 1 /\ now = 0
  /\ run = [share |-> None, wall |-> None, behind |-> FALSE, firstFlowcutter |-> None,
            flowcutter |-> 0, cache |-> FALSE, best |-> None, cands |-> <<>>, preferred |-> None]
  /\ derived = None
  /\ skipped = <<>> /\ started = <<>> /\ built = <<>> /\ published = <<>>
  /\ answer = None
  /\ history = None
  /\ builds = 0

Fresh(r) ==
  /\ phase \in {"idle", "done"}
  /\ builds < MaxBuilds
  /\ builds' = builds + 1
  /\ req' = r
  /\ pos' = 1 /\ now' = 0
  /\ run' = NewRun(r)
  /\ derived' = None
  /\ skipped' = <<>> /\ started' = <<>> /\ built' = <<>> /\ published' = <<>>

Begin(r) ==
  /\ Fresh(r)
  /\ r.prefer # None => KnownName(r.prefer)
  /\ phase' = "walking"
  /\ answer' = None
  /\ UNCHANGED history

\* A name no entry answers to is refused before anything is built.
RefuseName(r) ==
  /\ Fresh(r)
  /\ r.prefer # None /\ ~KnownName(r.prefer)
  /\ phase' = "done"
  /\ answer' = Refused
  /\ history' = Recorded(0)

-----------------------------------------------------------------------------
(***************************************************************************)
(* The walk: one step per catalog entry.                                   *)
(***************************************************************************)

\* Mutant: a spent deadline with nothing built skips the whole catalog.
BugSpentIsSpent == phase = "walking" /\ pos <= Len(Walk) /\ ~OutOfTime

\* Mutant: the last attempt is made until it has succeeded, and after.
BugDeadlineAtEntryOnly ==
  phase = "walking" /\ pos <= Len(Walk) /\ (OutOfTime => started # <<>> \/ NothingBuilt)

\* The entry the walk is at is started, on time or as the last attempt.
Startable == phase = "walking" /\ pos <= Len(Walk) /\ (OutOfTime => NothingBuilt)

EntryHere == Walk[pos]

NamesFrom(i) == [j \in 1 .. Len(Walk) - i + 1 |-> Walk[i + j - 1].name]

\* Out of time with something built: the rest is skipped.
SkipRest ==
  /\ phase = "walking" /\ pos <= Len(Walk)
  /\ ~Startable
  /\ skipped' = NamesFrom(pos)
  /\ pos' = Len(Walk) + 1
  /\ UNCHANGED <<phase, req, now, run, derived, started, built, answer, published, history, builds>>

\* The snapshot the bisections are gated on, taken when first asked for.
DerivedHere ==
  IF derived # None THEN derived
  ELSE [coloring |-> req.coloring /\ ~req.heavy,
        generates |-> run.best = None \/ Score[run.best.tree].heavyNode]

GateOpen(e, d) ==
  CASE e.gate = "always"    -> TRUE
    [] e.gate = "uncapped"  -> ~CapTripped /\ (e.name = "force" => ~req.heavy)
    [] e.gate = "generated" -> ~req.heavy /\ d.coloring /\ (req.peak \/ d.generates)
    [] e.gate = "coloring"  -> d.coloring /\ ~req.heavy

ReadsDerived(e) == e.gate \in {"generated", "coloring"}

\* After an entry: the last attempt ends the walk; otherwise an entry that
\* overran its share puts the rest behind schedule.
Advance(s, ran) ==
  /\ IF OutOfTime
     THEN skipped' = NamesFrom(pos + 1) /\ pos' = Len(Walk) + 1
     ELSE skipped' = skipped /\ pos' = pos + 1
  /\ run' = IF ~OutOfTime /\ s.share # None /\ ran > s.share THEN [s EXCEPT !.behind = TRUE] ELSE s

\* Takes `ran' ticks and offers the trees, in order.
Ends(s, ran, trees) ==
  LET offered == [i \in DOMAIN trees |-> [name |-> EntryHere.name, index |-> i - 1,
                                          tree |-> trees[i]]]
  IN  /\ now' = now + ran
      /\ built' = built \o offered
      /\ started' = Append(started, [name |-> EntryHere.name, from |-> now, to |-> now + ran,
                                     share |-> s.share, built |-> Len(built)])
      /\ Advance(FoldLeft(Fold, s, offered), ran)
      /\ derived' = IF ReadsDerived(EntryHere) THEN DerivedHere ELSE derived
      /\ UNCHANGED <<phase, req, answer, published, history, builds>>

Starts(build) ==
  /\ Startable
  /\ EntryHere.build = build
  /\ GateOpen(EntryHere, DerivedHere)

ClosedGate ==
  /\ Startable
  /\ ~GateOpen(EntryHere, DerivedHere)
  /\ Ends(Sliced, 0, <<>>)

\* At most one tree.
AtMostOne == {<<>>} \cup {<<t>> : t \in Trees}

\* A decomposition of one view, converted.  The first found bounds the other
\* view, and the incidence one is kept for the guided bisection.
BuildFlowcutter ==
  /\ Starts("flowcutter")
  /\ \E ran \in Durations(FlowcutterCap(Sliced)), trees \in AtMostOne :
       LET found == trees # <<>>
           s == [Sliced EXCEPT
                   !.firstFlowcutter = IF @ = None /\ found THEN ran ELSE @,
                   !.flowcutter = @ + ran,
                   !.cache = IF EntryHere.name = "flowcutter-incidence"
                             THEN found /\ ~req.heavy ELSE @]
       IN  Ends(s, ran, trees)

BuildGoatd ==
  /\ Starts("goatd")
  /\ \E ran \in Durations(GoatdBudget(Sliced)), n \in 0 .. EntryHere.offers :
       \E trees \in [1 .. n -> Trees] : Ends(Sliced, ran, trees)

\* FORCE takes no budget: it is one piece.
BuildForce ==
  /\ Starts("force")
  /\ \E ran \in 0 .. MaxPiece, trees \in AtMostOne : Ends(Sliced, ran, trees)

BuildBisect ==
  /\ Starts("bisect")
  /\ \E ran \in Durations(Sliced.wall), trees \in AtMostOne : Ends(Sliced, ran, trees)

\* Nothing to guide it, nothing built.
BuildGuided ==
  /\ Starts("guided")
  /\ \E ran \in Durations(Sliced.wall), trees \in AtMostOne :
       /\ ~run.cache => trees = <<>> /\ ran = 0
       /\ Ends(Sliced, ran, trees)

-----------------------------------------------------------------------------
\* Mutant: a required candidate that was not built is not missed.
BugRequiredIsPreferred(winner) == IF winner = None THEN Nothing ELSE winner

\* adopt_winner and finish_portfolio_run on what they end with.
Outcome(winner) ==
  IF req.required /\ req.prefer # None /\ run.preferred = None THEN Unbuilt
  ELSE IF winner = None THEN Nothing
  ELSE winner

\* The wall the build took: the construction clock, unless that counts work.
WallSpent == IF req.metered THEN 0 .. 1 ELSE {now}

Finish ==
  /\ phase = "walking" /\ pos > Len(Walk)
  /\ phase' = "done"
  /\ LET outcome == Outcome(Adopted(run))
         won == outcome \notin {Unbuilt, Nothing}
     IN  /\ answer' = outcome
         /\ published' = IF won THEN CandidateSet(run.cands, outcome) ELSE <<>>
         /\ \E spent \in WallSpent : history' = Recorded(spent)
  /\ UNCHANGED <<req, pos, now, run, derived, skipped, started, built, builds>>

\* The caller asks for no more.
Idle == phase = "done" /\ builds = MaxBuilds /\ UNCHANGED vars

Next ==
  \/ \E r \in Requests : Begin(r) \/ RefuseName(r)
  \/ SkipRest \/ ClosedGate
  \/ BuildFlowcutter \/ BuildGoatd \/ BuildForce \/ BuildBisect \/ BuildGuided
  \/ Finish \/ Idle

Spec == Init /\ [][Next]_vars
-----------------------------------------------------------------------------
(***************************************************************************)
(* Properties.                                                             *)
(***************************************************************************)

\* Types: what the walk keeps, with shares and walls above zero
\* (RunState, set_candidate_slice_bounds).
TypeOK ==
  /\ phase \in {"idle", "walking", "done"}
  /\ phase # "idle" => req \in Requests /\ RequestOK(req) /\ pos \in 1 .. Len(Walk) + 1
  /\ now \in Nat
  /\ {run.share, run.wall} \subseteq (Nat \ {0}) \cup {None}
  /\ run.firstFlowcutter \in Nat \cup {None} /\ run.flowcutter \in Nat
  /\ {run.behind, run.cache} \subseteq BOOLEAN
  /\ {run.best, run.preferred} \subseteq Candidates \cup {None}
  /\ ToSet(run.cands) \cup ToSet(built) \subseteq Candidates
  /\ derived \in {None} \cup [coloring : BOOLEAN, generates : BOOLEAN]
  /\ ToSet(skipped) \subseteq Names
  /\ answer \in Candidates \cup {None, Refused, Unbuilt, Nothing}
  /\ history \in (Nat \ {0}) \cup {None}
  /\ builds \in 0 .. MaxBuilds

Won == phase = "done" /\ answer \notin {Refused, Unbuilt, Nothing}

\* i is the first of the places P where what f says is least.
FirstLeast(i, P, f) == i \in P /\ \A j \in P : f[i] < f[j] \/ (f[i] = f[j] /\ i <= j)

CostAt == [i \in DOMAIN built |-> Cost(built[i])]
PeakAt == [i \in DOMAIN built |-> Score[built[i].tree].peak]
StddevAt == [i \in DOMAIN built |-> Score[built[i].tree].stddev]
AggAt == [i \in DOMAIN built |-> Agg(built[i])]

WithinMargin ==
  {i \in DOMAIN built : req.margin # None => \A j \in DOMAIN built : CostAt[i] <= CostAt[j] + req.margin}
WithinBand ==
  {i \in DOMAIN built : \A j \in DOMAIN built :
     PeakAt[i] * ToleranceScale <= PeakAt[j] * (ToleranceScale + req.tolerance)}

\* The winner is the one the documented rules name over everything built,
\* whatever the streaming fold kept: the preferred candidate, else under
\* projection the best balanced of the narrowest band, else the ranker's
\* best within the margin, else the cheapest; ties go to the one walked
\* first (fold, select_agg, select_peak_band, adopt_winner).
WinnerFollowsTheRules ==
  Won =>
    LET preferred == {i \in DOMAIN built : Prefers(req, built[i])}
    IN  \E i \in DOMAIN built :
          /\ answer = built[i]
          /\ IF preferred # {} THEN i \in preferred /\ \A j \in preferred : i <= j
             ELSE IF req.peak THEN FirstLeast(i, WithinBand, StddevAt)
             ELSE IF req.ranker THEN FirstLeast(i, WithinMargin, AggAt)
             ELSE FirstLeast(i, DOMAIN built, CostAt)

\* Past its deadline a build starts at most one entry, and only when every
\* entry before it offered nothing; but one it does start: a build that says
\* nothing could be built tried something, and left nothing untried unless its
\* time was up (walk_catalog's last attempt, the module's first paragraph).
OneLateAttempt ==
  /\ phase # "idle" /\ req.deadline # None =>
       \A i \in DOMAIN started :
         started[i].from >= req.deadline => i = Len(started) /\ started[i].built = 0
  /\ phase = "done" /\ answer = Nothing /\ Walk # <<>> =>
       started # <<>> /\ (skipped # <<>> => OutOfTime)

\* However the entries divide the time, a finished build is past its deadline
\* by at most one piece of one construction, or by the last attempt and its
\* piece (fc_time_cap_ms, goatd_budget_ms, cand_wall_ms).
OverrunIsBounded ==
  phase = "done" /\ req.deadline # None /\ started # <<>> =>
    LET last == Last(started)
    IN  now <= MaxPiece + (IF last.from >= req.deadline THEN last.from + LastAttempt
                           ELSE req.deadline)

\* The time a build takes is bounded, and so is what the walk keeps of it.
TimeIsBounded == TypeOK /\ OneLateAttempt /\ OverrunIsBounded

\* The published set heads with the winner under every name that found its
\* tree, holds distinct trees, is ordered by the metric behind the head, and
\* leaves out no tree better than one it holds (from_scored).
PublishedSetIsFaithful ==
  Won /\ req.keep > 1 =>
    /\ Len(published) \in 1 .. req.keep
    /\ published[1].tree = answer.tree /\ published[1].selected
    /\ \A i \in DOMAIN published : published[i].by = BuiltBy(built, published[i].tree)
    /\ \A i, j \in DOMAIN published : i # j => published[i].tree # published[j].tree
    /\ \A i \in 2 .. Len(published) :
         /\ ~published[i].selected
         /\ \A c \in ToSet(built) :
              (\A j \in 1 .. i - 1 : c.tree # published[j].tree) => Metric(published[i]) <= Metric(c)

\* The driver keeps the promise of a candidate build.
Contract == INSTANCE CandidateBuild WITH
  wanted <- IF phase = "idle" \/ answer = Refused THEN {} ELSE {c \in Candidates : Prefers(req, c)},
  required <- phase # "idle" /\ req.required /\ req.prefer # None

ImplementsCandidateBuild == Contract!Spec
=============================================================================

# A TLA+ model of vitri

vitri turns a CNF formula into a *bundle*: a preprocessed formula with a record
of how to read answers about it back, and a vtree (a binary tree over the
variables) good enough to compile it. This directory models the parts of vitri
whose correctness rests on the order of steps, on clocks, on processes, or on
several transformations composing, and the algorithms whose result is easy to get
wrong; checks them with TLC on small instances, and proves with TLAPS what matters
most about seven of them for every instance.

Paths below are relative to the crate's source directory: `bundle/session.rs` is
the session.

## 1. Inventory

One run (`vitri::run`, `FrontendSession`) is: read the formula and the
configuration; **preprocess** it (simplify, perhaps Arjun); **construct** vtrees
(split into components, a portfolio per component); **write** the bundle.
Everything runs in the calling thread, except native reductions, which run in a
forked child with a kill deadline. All share one run deadline.

| component | state it keeps | operations | what is hard | what makes it correct |
|---|---|---|---|---|
| fork harness `preprocess/fork_budget.rs` | a pipe, a child's pid, its clock | gate, fork, drain, kill, reap, decode; the child ties its life to its parent's | two processes, a kernel and a host that interleave freely; pids recycled; a parent that dies | a call answers with the closure's result or says why not, leaves nothing behind, kills nobody else, and comes back |
| DVE `preprocess/dve/`, `gates.rs` | clause set, fate of each variable, `known_defined`, folds | merge equivalences, detect gates, probe definability, resolve, propagate, strengthen, cascade | facts found before a rewrite used after it; batches that abort; chains of folds | model count (or projections) preserved; eliminated variables gone |
| simplify `preprocess/simplify/`, pipelines | layers of formulas with renumberings | prefix stages, stripping, equivalence reduction, DVE | names through four numberings; early returns; a solver that may be absent | count, weighted count and function read back to the input |
| count and compile chain `bundle/count_chain.rs`, `compile_chain.rs` | the record of a bundle | lift, folded weights, revert of DVE, Arjun's record, fates of the variables | a layer reverted after something was computed from it | the record's lift and maps are right |
| Arjun stage `bundle/stage.rs`, `preprocess/arjun_lib/` | deadlines, checkpoint, verdict | skip, budget, stage 1, stage 2, classify, keep or discard | polls that come late, kills, results judged by the clock | sound results kept, unsound ones never; the deadline holds |
| session `bundle/session.rs` | configuration, one kept checkpoint | `prepare`, `retry` | a retry after a failed or partial primary; edited configurations | a run reports what it exports; retries bring something new |
| portfolio `decompose/portfolio/` | incumbent, candidates, shares, latch, history | walk the catalog, give each entry its slice, fold, select, publish | the deadline can be spent at any point of the walk; several selection rules over one another | the winner follows the rules; overrun is bounded; a build fails only when it had to |
| per-component construction `component/`, `cnf/components.rs` | components, cache of canonical trees, clauses left | split, share the deadline, build or reuse, graft | a tree built for another component; shares computed as time runs | one leaf per variable; a reused tree fits; no component starves |
| probe engine `preprocess/probe_engine.rs`, `backbone.rs` | partition of candidates, solver session | solve, refine, confirm, escalate, recover | facts added between a model and its use | only consequences are confirmed; nothing is lost |
| projected elimination `preprocess/bve_project.rs`, `projected.rs` | occurrence lists, live flags, worklist | eliminate, requeue, stop | stops anywhere | projections preserved wherever it stops |
| vtrees `vtree/` | arena, links, bottom-up order | build, graft, rotate, walk, write and read back | long runs of rotations; an order repaired in place | order and links agree after every rotation; a rotation changes what it should and no more |
| tree decomposition to vtree `decompose/td_to_vtree/`, `bisect.rs` | the best reading so far | root, assign, join, search over readings | stops between readings; metadata of one tree beside another | every variable one leaf; the cheapest reading is kept with its own metadata |
| scores `score/` | tables over one tree | walk, count, match | walks that stop early | a table says what its definition says |
| bundle writing `bundle/export.rs`, `bundle/components/` | files | check, write one file after another | a failure half way; a build of another formula | the files name each other; counts of the parts compose to the whole |
| language bindings `bindings/` | one lock per library | calls from several host threads | poisoned lock, panics, results written and capabilities read beside a call | `prepare` is serialised and answered by its own result |
| meters and budgets `budget.rs`, `preprocess/meter.rs`, `decompose/meter.rs` | work counted, deadlines | charge, share | rounding, floors, two clocks | phases stay inside the run |
| other decompositions, specs, readers | none across calls | pure functions of a formula or a text | heuristics | a result of the right shape |

Interaction is by call: the session calls a chain, the chain calls simplify and
the Arjun stage, the stage calls the harness; the session then calls the
construction, which calls the portfolio once per component; the export writes what
both made; the bindings stand around all of it. What is shared is
the run's deadline (each callee takes a part of what is left when it starts) and
the portfolio's build history, which outlives a build.

`PROJECT.json` lists every component with its sources and what is left out of
it, and every hazard with its line.

## 2. Modules

| module | models | by itself or composed |
|---|---|---|
| `BudgetedCall` | what a call of the harness promises | abstract specification |
| `ForkBudget` | parent, child, kernel and host around one forked call | implements `BudgetedCall` |
| `ForkBudgetProofs` | | theorems about `ForkBudget` |
| `Cnf`, `Gates`, `Weights`, `Rewrites` | clauses, models, resolution; gates; weight tables; propagation and substitution | operators |
| `Dve` | one call of DVE for either caller | over `Cnf`, `Gates` |
| `WeightedDve` | the weighted verdict and folds over it | extends `Dve`, `Weights` |
| `ProbeStage` | the probing stage of the backbone prefix | over `Rewrites` |
| `ProbeProofs` | | theorems about `ProbeStage`, over `FoldProofs` |
| `SimplifyChain` | simplify, count chain, compile chain | DVE and Arjun by what they promise |
| `ProjectedBve`, `HiddenSweep` | bounded elimination of hidden variables; which hidden variables the shown ones define | state machines over `Cnf` |
| `ProjectionChain` | the projected modes from the input to the record | extends both |
| `ArjunStage` | the stage skeleton, `run_stages`, the gates | the harness by its contract |
| `FrontendSession` | `prepare`, `retry`, the chains as control, `build_run` | extends `ArjunStage` |
| `FrontendSessionProofs` | | theorems about `FrontendSession` |
| `CandidateBuild` | what a portfolio build promises | abstract specification |
| `Portfolio` | the driver over its catalog | implements `CandidateBuild` |
| `PortfolioProofs` | | theorems about `Portfolio`, over `FoldProofs` |
| `Components`, `ComponentBuild` | the split of a formula; share, reuse, graft | a portfolio build by its contract |
| `ComponentProofs` | | theorems about `ComponentBuild`, over `FoldProofs` |
| `VtreeArena`, `Vtree`, `VtreeText` | building, rotating, writing and reading a vtree | `VtreeText` extends `Vtree` |
| `VtreeProofs` | | theorems about `Vtree`, `VtreeText` and `ReadingSearch`, over `FoldProofs` |
| `ScoreTables` | the tables scores are reductions of | operators |
| `Rooting` | where a decomposition is rooted, the roots worth a reading | operators |
| `TdToVtree` | conversion of a tree decomposition, top-down bisection | over `Rooting`, `VtreeArena` |
| `ReadingSearch` | the search over readings, then rotations of what it kept | extends `VtreeText`, `Rooting`; what a reading builds and costs are constants |
| `Conversions` | the search over the trees and costs of the code | composes `ReadingSearch`, `TdToVtree`, `ScoreTables` |
| `Bundle` | which files a run writes, and the manifest | over `Components` |
| `HostCalls` | host threads, the library's lock, a directory | composes `Bundle` |
| `HostCallsProofs` | | theorems about `HostCalls`, over `FoldProofs` |
| `FoldProofs` | | induction over numbers, recursion over ranked elements, folds, flattened and sorted sequences, listings of finite sets, for the proof modules that need it |
| `MCDve`, `MCSimplify`, `MCProbe`, `MCProjection`, `MCFrontend`, `MCPortfolio`, `MCComponent`, `MCVtree`, `MCHost` | inputs for TLC | extend the above |

A definition whose name starts with `Bug` is the code with a plausible mistake
in it; each has been substituted for the definition that follows it to see that
the property it is aimed at notices.

### ForkBudget

Four actors. The *parent* (`fork_with_kill_deadline`, `parent_wait`,
`abandon_child`, `reap_and_decode`) has one action per system call, so anything
can happen between two of them. The *child* (`run_child_and_exit`,
`tie_lifetime_to_parent`, `child_body`) likewise. The *kernel* delivers signals,
closes files, notifies, recycles pids and re-parents orphans; the *host* has
other threads that lock and unlock, a SIGCHLD disposition the harness can or
cannot read, and an outer timeout that may kill the parent at any point. Bytes
of the payload are counted, not modelled. `Subreaper` says who adopts an orphan
(pid 1 or a nearer process), `HostIsInit` that the caller is pid 1 itself.

Fairness (`FairSpec`): the parent, the child's own code, the kernel, whoever
adopts an orphan, and the clock make progress. Nothing is assumed of the closure:
a native stage may never return, forked or inline. That is why `CallEnds` speaks
of a call that did fork, and of a child whose parent is gone.

### Dve, WeightedDve

A literal is a signed number, a clause a set, a formula a set of clauses
(`copies` remembers that the code's list may hold one clause twice, which only
its length guard can tell). Each action is one step of `preprocess_dve`: the
merge of a round with the gates detected afresh, the choice of candidates, the
probe, one variable of a batch (`SkipVar`, `ResolveVar`, `AbortBatch`), one
forced literal, the end of a batch, strengthening, a cascade pass, the
renumbering, and for the plain caller the second pass over the residual.
Nondeterministic: which probes are answered (budgets), what CaDiCaL's
strengthening makes of the clauses (equivalent, one clause dropped or shortened,
one backbone literal pinned), when the budget ends the rounds (the thresholds of
`should_terminate_dve` are over-approximated), which unit resolvents a batch had
met when it overflowed. The inputs are what the callers hand over (`Prepared`):
the projected one's has been propagated and nothing more; the plain one's has been
stripped under `eq_backbone`, but under `eq_iter`, or after a stage that was cut, it
may have unit clauses, variables in no clause and no model. Both may imply literals
that no unit clause shows.

Such a literal is where DVE is not exact. A unit resolvent on a variable that is not
frozen is set aside, propagated at the end of the batch, and its value kept nowhere.
The history variable `aside` keeps those literals, and the properties say, on every
input, what is exact in spite of them: `ModelsPreserved` that everything set aside
is implied, that no model is lost, and that with the literals set aside put back none
is added; `ProjectionPreserved` that no projection is lost and none added. Only where
a literal was *crossed* (its opposite set aside as well, or its variable resolved on
before it was propagated) may something be added. `CountPreserved` is the promise
itself, without any of this, and does not hold (run `dve_backbone`).

`FairSpec` is weak fairness of the one sequential call, written without ENABLED,
which TLC evaluates too slowly here. `Returned` is a self-loop, so that a state
in which the call could neither go on nor return would be a deadlock.

### SimplifyChain

Layers are `[n, clauses]` with the list of the ids kept from the layer above, so that
every name is taken back through each renumbering as the code does it. The prefix
pipelines (`disabled`, `eq_iter`, `backbone`) are one action per stage with their
early returns; CaDiCaL is external and may fail to be allocated. DVE is any outcome
`Dve`'s checked properties allow, its keep gate read as "at least one eliminated":
the exact ones, those that name an implied literal's variable free (`aside`), and,
where the formula implies a literal, those that crossed one (`lost`), which may have
models of their own, `MaxStray` of them at most. `CountLifts`, `WeightedCountLifts`
and `RecordReadsBack` then say what a bundle is worth in each case: exactly the
input, twice that per literal set aside, never less. Arjun is any split of the
variables into kept, free and determined, under any naming and sign, with one
variable more where it may add one. Weights are integers. Gates, telemetry and
statistics are left out.

### ProbeStage

The engine's classes of literals, one action per solve: the first model with its
harvest, the chunked backbone loop (chunks grow, a chunk that meets the conflict
cap is escalated, deferred and recovered once), the confirmation of equivalences
class by class with the counter-models that split them. A class is a set, since
the code keeps it in the order of its variables. The solver answers with *any*
model that fits, with UNSAT when there is none or with UNKNOWN; `fixed` and
`flippable` know any part of what is true; the clock may run out wherever the
code reads it. `ChunkGrowth`, `EscalatedChunk` and `UnknownPairs` stand for the
code's growth, escalation and give-up bounds. `UnknownPairs` is at most the code's 2,
and has to be: an unanswered pair leaves its candidate in the class, which comes back
as a class of its own once two candidates were passed over, with no model to tell it
from those that were split off behind it. The code has given up by then.

### ProjectedBve, HiddenSweep, ProjectionChain

`ProjectedBve` keeps the clauses by the index they were stored at, with the live
flags, the lists of occurrences (stale until their variable is considered) and the
queue, as the code does; it stops at every place it reads its clock (`PollPairs` is
how often that is inside one elimination). `HiddenSweep` asks a query per hidden
variable on two copies of the formula. `ProjectionChain` runs Arjun by contract and
frozen DVE by what `ProjectionPreserved` allows: exact, or, where a hidden literal is
implied or there is no model, with any clauses missing (`lost`), after which
projections may be added, never lost. Then come propagation, the refutation exits and
`ProjectedBve`, the record and the folds, and the sweep over what comes out. Its
inputs are formulas of either caller: the chain's own, and those a compiler
eliminates from, which may come back to a variable passed over before. Fairness is
that of one sequential call.

### ArjunStage, FrontendSession

A stage starts with a budget (`ArjunBudget`), polls its deadline in stage 1 and
2 or hangs, is killed by the harness where it was forked, hands back a reduction
with flaws (grew, lossy, no gain, aliased), and is judged by the clock
(`KeepAfterDeadline`) and by the gates (`DiscardReason`, `Verdict`). The session
allows `prepare` once and `retry` after it, keeps one checkpoint under plain
counting, and builds a vtree with a share of what is left. A chain's simplify,
its projected reduction and the construction are a step each that takes any
time. The mode `pwmc` has the control of `pmc`; `keepSound` stands for both
policies that keep a sound reduction of poor quality. Fairness: the calling
thread, the clock and the kill; a reduction run in the calling process, or a
prompt one, ends; a forked child may hang for ever. Steps between two readings
of the clock take less than a tick.

`DiscardReason` is a sequence of tests, as in the code: a weighted reduction that
both grew and lost mass is refused for the mass.

### Portfolio, ComponentBuild

The portfolio's constructions and scores are external: an entry takes some ticks
up to its bound plus one piece of work, and offers some trees; a score is a
function of the tree, ties and absent values included, NaN excluded. The walk, gates, slices,
budgets, latch, fold, the four selection rules, the published set, the refusals
and the history between builds are the code's. Trace rows, the environment's
knobs and `record_winner` are left out.

A vtree in `ComponentBuild` is its leaf sequence. A component is seen through
its local numbering; a canonical numbering is *any* renaming, since what the
cache needs is that equal keys mean isomorphic components, whatever refinement
chose them. A construction stands by its two possible results (leaves in order
or reversed), a portfolio build by `CandidateBuild`. The rule that turns a
dense split over to `force` changes only the spec and is left out.

### Vtree, VtreeArena, VtreeText, ScoreTables

`VtreeArena` builds: the linear, balanced and grafted arenas of the code, and
`FromNodes`, which numbers a tree bottom up. `Vtree` holds the links, the parent
array and the position of every node, and rotates left and right with the repair the
code makes in place (it moves one node and closes the gap). `VtreeText` is the text
format as the lines it consists of, with the ids they name, and the reader of a text
it wrote; it also has the walks (common ancestor, leaves in order). `ScoreTables` has
each table as the code fills it - walks with stamps, interval bounds, an augmenting
matching - and beside it the count it stands for; the tight bounds are there for the
cost, and not compared. The height, the split signs, the entropy, the floating-point
formulas over the tables and the learnt ranker are left out.

### Rooting, TdToVtree, ReadingSearch, Conversions

A decomposition is a sequence of bags and of neighbour lists. `Rooting` roots it at
its first bags, its centroids or a leaf bag, and lists the roots a search tries. The
walk is by levels and a subtree's size is a fold over the walk backwards, so that
nothing in it is RECURSIVE. `TdToVtree` places every variable (shallow or deep),
joins a bag's items (balanced, hypergraph bisection, edge aligned), and reports the
metadata. The multilevel partitioner and the elimination orders of goatd are
external: `Partition` is a constant, given by the run a stand-in with degenerate
and real splits. `ReadingSearch` screens the roots under one pair of choices,
gives the best few all others, may be cut off between two readings once one was
adopted, keeps the cheapest, and then rotates it at will. What a reading builds and
what a tree costs are its constants `Build` and `Cost`, of which `SearchAssumption`
asks no more than that they are a tree and a number. `Conversions` is the search with
the converter's trees and the score tables' cost (the `.cfg` names them), and states
what is true of that composition only: `MetadataDescribesTree` and `TablesAreRight`.

### Bundle, HostCalls

`Bundle` is the files of a run in the order they are written, by what each says
of the others; spelling and JSON are left out. Its counts are of two kinds:
`PartCount` is that of an entry's clauses over the variables its map names,
`EntryCount` that of the file the entry names. For a split run they are one. A
formula that was not split has one entry, whose map leaves out the variables in no
clause, and whose file, `reduced.cnf`, declares them. The rule of
`components/mod.rs` ("count(reduced) = 2^|free| * Π count(compNNN.cnf)") is
right of the parts, and right of the files only if the factor is for the free
variables no named file declares (`Composes`).

`HostCalls` is two host threads that call `prepare`, one at a time, panic inside it,
and at any time, since neither takes the lock, ask for the capabilities or write a
finished result to a directory other runs have written to; a write fails or is killed
between any two files. A call that succeeds stands for one of `Runs`. `Pairings` are
builds a caller puts beside a formula by hand, which is what the checks of the writer
are for. One directory has one writer at a time: its caller's duty.

## 3. Runs

| run | checks | bounds, and why they are enough |
|---|---|---|
| `fork` | types (`TypeOK`); no SIGKILL to a foreign pid (`KillNamesOwnChild`); every way out leaves no descriptor, no child and no inherited lock (`CleanReturn`); the answer is the closure's (`ResultIsFaithful`); the contract (`ImplementsBudgetedCall`); the call returns, an orphan ends (`CallEnds`) | payload 3, pipe 2, chunk 2: the child blocks on a full pipe, and reads are partial; deadline 1, grace 1, clock 3: kills before, at and after both |
| `dve` | no model or projection lost, none added but what the literals set aside account for, folds (`CountsKept`); what is gone is mentioned nowhere and gates still are gates (`GoneIsDefined`); the kept weighted count (`KeptCountIsExact`); `Terminates` | every formula of up to four clauses over three variables, up to the sign of a variable, those without a model and with implied literals among them; inputs with units and unused variables; circuits over four: a second gate, a clause about its output and one that is not is what a stale fact or an order needs; for the projected caller hidden clauses that force or refute. `MaxRounds` 2 (10 in the code) is one more than the first; `StrengthenMin` 8 (50) lets the larger circuits strengthen |
| `dve_backbone` | `CountPreserved`, violated | inputs of either caller that imply a literal no unit clause shows |
| `weighted_dve_revert` | `RevertRestoresCount`, violated | five variables, two merges |
| `simplify_chain` | naming of the layers, prefix neutral (`LayersFit`); count and weighted count (`BundleCountLifts`); answers and show count read back (`AnswersReadBack`) | three variables: chains of two equivalences, opposite pairs, units, free and dead variables, hidden backbone literals and formulas without a model all occur; each prefix, with a solver that may be missing; `MaxStray` 1: one model too many is what a lost literal takes to be seen |
| `probe_stage` | classes and confirmed facts (`PartitionHolds`); the stage's result and its record (`StageDelivers`); `ProbingEnds` | four variables: equal literals no binary clause shows, a literal only a case split forces, two equal once a third is known; `ChunkGrowth`, `EscalatedChunk` and `UnknownPairs` 2, so that chunks grow, are escalated and give up |
| `projection` | lists, flags and queue agree, and an uncut pass has nothing left to eliminate (`EliminationHolds`); the count, the record and the sweep's classes (`AnswersStand`); every step quantifies and does no more (`StepQuantifies`); `ChainReturns` | four variables, up to four hidden: equal, forced and refuted show variables, hidden ones no unit clause shows to be forced, with and without weights; a variable that costs too many clauses until another has gone |
| `frontend_session` | types, a prompt Arjun loses nothing to the clock, what a run reports (`ReductionsAreUsed`); deadlines (`DeadlineHonoured`); `SoundExport`; `CallsReturn` | `KillGrace` 1, `CutGrace` 2, `MinRunway` 3 keep the code's order, `MaxNow` 10, deadlines 3 to 6, one retry; the configurations cover the modes, keep policies and construction budgets |
| `portfolio` | the winner (`WinnerFollowsTheRules`); late attempts and overrun (`TimeIsBounded`); the published set (`PublishedSetIsFaithful`); the contract (`ImplementsCandidateBuild`) | three trees, each the best by one score and tied by another; two builds over one history; deadlines 0, 2, 3 or none; one construction takes 0 to bound + 1 ticks |
| `component_build` | one leaf per variable, reuse (`TreesFit`); `SplitIsIndependent`; the shares of the deadline (`NoComponentStarves`) | eight variables in two to five components: two that differ by a rotation, with the same or another show set, one that is not alike, tiny ones, free variables; deadline 0, 6, 7 or none |
| `vtree` | `TreeConsistent`, `RotationsAreLocal`, walks and text (`TraversalsAgree`), `MetadataDescribesTree`, `CheapestIsKept`, `TablesAreRight` | five variables, nine nodes, one number skipped: every tree the rotations reach from three arenas and three conversions; decompositions with a hub, a star beside a lone bag, a path that misses a variable; `RootCap` 4 and `ScreenedRoots` 2 cut the readings |
| `host_calls` | one `prepare` at a time, and no lock outlives its call (`PreparesAreApart`); after a write that reports success the manifest names whole files of this run, whose counts compose, parts and files (`WrittenReadsBack`); a failure leaves a whole prefix and at most one torn file (`FailureLeavesAPrefix`) | two threads, two calls, two writes one over the other, one fault; runs that split, do not, have a free variable, or are refuted; five builds paired with a formula that is not theirs |

Every passing run but `vtree` checks for deadlock: a call that has returned is a
self-loop. In `vtree` the search is over when it is over, and a tree of one form
may have no rotation.

What each passing property is about is said above its definition; a property that is
a conjunction has a definition for every part. Three parts are worth a word.
`ModelsPreserved` is stronger than the count: the models of the input, seen on what
is left, are the residual's with free variables either way, one to one, once the
literals set aside have their values. `KnownStayDefined` is about the reason DVE
detects gates again after a merge: a variable is resolved away because it is a gate's
output, and a merge may take the gate's input. `PromptArjunIsKept` says that the
runway arithmetic of stage 1 leaves stage 2 a start and the result its grace.

### What the violated runs show

* `dve_backbone`: `elim.rs` calls its loop count-preserving, `DveFate` says that
  nothing constrains a free variable any more, and `strengthen_projected_hidden` that
  its steps preserve the projected count exactly. Neither caller is given that. The
  plain one: a unit resolvent is propagated away and its variable named free, which
  doubles the count; an input without a model may come back with one. `eq_backbone`
  normally finds every backbone literal first; a stage that was cut, `eq_iter` and
  `disabled` do not. The projected one, in whose chain nothing looks for a backbone:
  a hidden literal that was forced and resolved on before it was propagated takes
  clauses with it. The run stops at the plain caller's; with `Show({CrossedShow})`
  alone as `Calls` it finds the other.
* `weighted_dve_revert`: weights folded over a DVE layer stay folded when the
  verdict drops the layer. `WeightedCountLifts` excepts that case, and outcomes of DVE
  that crossed a literal.

Read on the way and not stated by a run: "a child can never outlive the run that
spawned it" holds where orphans go to pid 1, and under a subreaper an orphan's
`getppid()` is not 1; a retry's edited configuration is not validated as a whole;
`write_components` never calls `check_build_belongs`, though its comment promises a
`Mismatch` before anything is written; a build of a formula with one clause more is
accepted, and its manifest lists variables as free that are not; where a connected
formula has a free variable, the manifest's one entry names `reduced.cnf`, which
declares that variable, and `free_vars_reduced_dimacs` lists it as well, so the
documented rule for composing counts doubles the count (`p cnf 3 1`, `1 2 0`,
simplify off), and the entry's map and show list, in the numbering of the variables
that occur, are not those of that file; a refuted run written over an older bundle
leaves the older `vtree.vtree` and `components.json` beside it; Python's lock is
commented "Held for the whole of every call into the library"
(`bindings/python/src/lib.rs:72`), and `Result.write` and `capabilities` take none
(the C binding's comment speaks of `vitri_prepare` alone); where no solver can be
built, `strip_once` drops two contradictory unit clauses together (`MCSimplify` takes
consistent inputs); a caller that is pid 1 has its children leave through the
`getppid()` check; a preferred catalog entry may be one the default skip list leaves
out; a formula with an empty clause and another clause splits off a component without
variables, on which the tiny build panics (`EmptyPanics`); `StageReport.sbva` says an
SBVA ran under an effort that turns it off; a session comment says that a retry which
discarded its reduction rebuilds what the primary had, which is not so when the
primary kept one; the deterministic construction budget ignores the deadline its
documentation gives it; `greedy_pick` picks the first index when every score is NaN;
the split's comment speaks of a right-linear graft, and the graft is left-linear.

## 4. Proofs

`ForkBudgetProofs` proves, for every `Deadline`, `KillGrace`, payload length,
pipe capacity and chunk size, from `ForkBudgetAssumption` alone:

* `TypeCorrect`, `KillIsSafe`, `CleanReturns`, `ResultsAreFaithful`: four of the
  properties run `fork` checks;
* `ReapingIsBounded` (the untimed `waitpid` is reached only when the child is
  about to end) and `NoInheritedLock` (a forked child never holds a lock of a
  thread that it does not have);
* `Refinement`: the harness implements `BudgetedCall`.

None of these properties is inductive. `IInv` is, and is the conjunction of
`TypeOK` with: `HostInv` (a fork happened only where it was sound),
`PhaseInv` (which program points of parent and child go together, and when the
pid still is the child's), `ChildInv` (how much has been written by then, and
what the exit status says), `FdInv` (which ends are open where), `DrainInv`
(what was read when the parent stops reading: EOF means that the child's end was
closed after the whole payload, or that the child is dying), and `OutcomeInv`.
`ResultIsFaithful`, for instance, needs `DrainInv` for "everything written was
read", `ChildInv` for "exit status zero means everything was written", and
`FdInv` for "no EOF while the child lives and has not closed". `NextInv` has one
step per action and one per conjunct it can disturb; the refinement shows that
every action is one of the contract's or a stutter, using `IInv` for the guards.

`FrontendSessionProofs` proves, for every set of configurations, grace, runway,
deadline and number of retries, from `ArjunStageAssumption` and
`SessionAssumption`:

* `ReductionsReachTheRun`, `DeadlinesAreHonoured` and `ExportsAreSound`, which are
  the three safety properties run `frontend_session` checks.

Its `IInv` is `TypeOK` with `PhaseInv` (what the formula in hand came from by each
point of a call, and that only an attempt with a reduction goes on to a retry's
construction), `StageInv` (a reduction is of its stage's own mode, and was judged
before it is used: this is what soundness rests on), `ClockInv` (a prompt stage 1
ends strictly before the deadline, since its own is earlier by a quarter of what
was left; a forked one by the kill) and `BudgetInv` (the stage's and construction's
deadlines lie before the call's, and the call's before the session's). The lemmas
on `Min`, `Max` and the shares come first; then one lemma per way a call ends, per
call, per step of a chain and per step of the stage; `NextInv` puts them together.

The next five reason about folds, recursive functions and sequences of any length.
The library's induction theorems take an operator, which the provers cannot
instantiate, so `FoldProofs` states induction about *sets* of numbers
(`SetInduction`, `BoundedInduction`, from the least element of a set), and from it
that a recursive function over ranked elements exists (`RankedRecursion`), and what
a fold over a sequence, the sum over a set and the flattening of a sequence of
sequences come to: the last of the values the steps go through. Whatever a fold has
to be known for is then an invariant of those values. Its last section is about
sequences that hold each element of a set once (`Enumerates`): joined, flattened, or
cut down to a part of the set they still do, and keep the order; a finite set with a
strict total order has a sorted sequence (`SortExists`), which lists it
(`InOrderLists`, `RankListing`).

`VtreeProofs` proves, for trees of every size, from `VtreeAssumption`:

* `TreeStaysConsistent`: the links are mutual, one node has no parent, every node's
  position is its own, and a node comes after its children. The core is
  `RepairLemma`, about moving one position behind another and closing the gap. A
  right rotation is a left one of the mirrored tree, so it is proved by
  `MirroredMove` and not a second time.
* `RotationsAreAlwaysLocal`: a rotation changes the children of two nodes, keeps the
  leaves in order and is undone by its mirror. The order of the leaves is a
  recursive definition; that a left rotation keeps it is induction on the positions,
  where all but one node of the rotated edge have the leaves they had; a right
  rotation is undone by a left one, which carries the result over.
* `TraversalsAlwaysAgree`, for the whole of `VtreeText`. `WalkEndsLowest` is
  induction on the two depths together: the walk moves the end whose position is
  lower, and that end cannot lie above the other (`OneClimbs`). `TextReadsBack`
  follows the code from the lines (`LinesListed`) to the arena they describe
  (`TextArena`), its levels (`LevelsListed`: level k holds the nodes k below the
  root), the new order (`ReindexedListed`: each node once, leaves first, children
  before their parent), the tree made of it (`ArenaBuilt`) and its shape, the same by
  induction on the positions (`ShapeOfCopy`).

These three rest on `TreeConsistent` alone, which is inductive.

* `CheapestAlwaysKept`, for `CheapestIsKept`: for every decomposition, formula, tree
  and cost that `SearchAssumption` allows, wherever the deadline falls. The
  assumption asks of a decomposition that each edge is named at both its ends; that
  it has no cycle is not needed. The
  invariant `SearchInv` says that what was offered and what is pending are together
  the first part of the schedule, and that what is kept is the first of the cheapest
  offered; run `vtree` was used to see that it holds before it was proved. That no
  reading is offered twice is then `ScheduleHolds`: neither the screen nor the other
  pairs crossed with the best roots names one twice, and they differ in the pair.
  That no two roots screened root the decomposition alike is about `Rooting`: a walk
  meets the component of its start and nothing else (`WalkMeets`, by induction on
  the levels, `ReachIsComponent`); so a forest has one root for each component,
  the lowest bag unless one is named (`ForestRoots`, `ForestKeeps`); a centroid lies
  in the component it was asked for (`CentroidReached`); a leaf bag is tried only if
  it roots nothing in the roots before it (`CandidatesApart`).

`PortfolioProofs` proves, for every catalog, tree set, score, budget, history and
deadline its assumption allows, from `PortfolioAssumption`:

* `WinnerAlwaysFollowsTheRules`, `TimeIsAlwaysBounded`: properties of run `portfolio`;
* `PublishedSetIsAlwaysFaithful`, for `PublishedSetIsFaithful`;
* `DriverIsACandidateBuild`: the driver implements `CandidateBuild`.

Its `Inv` is `Types` with `Selection` (the incumbents the fold keeps are what each
of the four rules would pick among all candidates built so far, `Kept`; an answer
is the rules' choice) and `Clock` (an entry started past the deadline is the last,
and found nothing built; the clock exceeds the deadline by no more than the slice
and the piece of work in hand; every candidate comes of an entry that was tried).
All catalog entries are one step to it (`NextSteps`): an entry adds candidates and
takes time, whichever construction it is. The published set is a sort: that the
order is strict and total on the trees found (the last key is where a tree was
found, since the sort is stable) makes the sorted sequence exist (`SortExists`), and
the winner, whose first key is least, its first element.

`ComponentProofs` proves, for every formula, show set, deadline, numbering and
order of events, from `ComponentAssumption`:

* `SplitIsAlwaysIndependent`: the split partitions the clauses into parts that
  share no variable and cannot be split further;
* `NoComponentEverStarves` and `TreesAlwaysFit`: the other two properties of run
  `component_build`.

The argument goes along the code. The union-find's fold ends with one root per
component (an invariant of the fold: two variables have one root exactly when the
clauses read so far connect them); the groups of clauses by root are the split;
extraction numbers a component's variables densely and back. The share a component
gets is rounded, so that "nobody starves" rests on `Pace`: what is left of the
budget is at least what is left of the clauses' part of it, as long as no build
outlived its deadline, and a build that ends in its slice keeps that. For a reused
tree, `CacheFits` says that a cached tree is some earlier tree in a canonical
numbering; two components with one key are isomorphic by the composition of the
two numberings, which is `ReusedTreesFit`. `OneLeafPerVariable` of the graft
follows from the split's independence and the dense numbering. `Inv` joins these
with `Splitting`, `History` and `Accounts` (the clauses left are those of the
components not started).

`HostCallsProofs` proves, for every number of threads, calls, writes and failures,
and every set of runs and pairings, from `HostAssumption`:

* `FailureAlwaysLeavesAPrefix`, for `FailureLeavesAPrefix`. The first half is about
  the plans alone: `PlansWriteOnce`, no plan writes a file twice (candidates beside
  trees, a picture per tree, components by number, manifest), and a build written
  alone checks before its first file. The second, `WriteInv`, is about the steps:
  the files of the writer's own plan up to where it stands are whole and its own,
  every other file is as it was. It rests on `LockInv`: who is inside holds the lock,
  who holds it is inside, and nobody who writes is.
* `WritesAlwaysReadBack`, for `WrittenReadsBack`, in four parts. A plan holds the
  check of the build and every file its manifest names (`PlansAreLaid`,
  `NamedIsLaid`). The invariant `Checked`: a write that reports success has done its
  whole plan, the check included (`CheckedHolds`, `SuccessIsWhole`, and `ReadsBack`
  with the first part). An accepted build has the formula's own parts
  (`AcceptedFits`), which share no variable, so that ids are listed once and the
  assertion after the write never fires (`AcceptedMatch`). The counts: what is seen
  of models of formulas over disjoint variables multiplies (`JoinCount`), a part's
  own numbering keeps its count (`RenamedCount`), a shown variable in no clause
  doubles it (`FreeCount`), and induction over the parts gives the count of the
  whole (`PartsCompose`). The files of a split run declare what their entries' maps
  name (`DeclaredByParts`), and that of a run that was not split is the formula, all
  of whose variables it declares (`EntriesCompose`).

`HostAssumption` says that a run names formulas over `Vars` and that the parts of a
run of the library hold all its clauses between them, which is what component
detection gives (`SplitIsAlwaysIndependent`). Of a pairing put together by hand it
asks nothing of the kind: those are what the check is for.

`ProbeProofs` proves, for every formula, growth and escalation bound, and every
choice of the solver and the clock, from `NumVarsAssumption` and `ProbeAssumption`:

* `PartitionAlwaysHolds`, for `PartitionHolds`: no literal and its negation are
  candidates, classes are disjoint, nothing confirmed is a candidate, no backbone
  literal is forgotten, and what is put into two classes is told apart by a model.

Its `IInv` joins `Types` and `Phases` (the class in hand exists only while its pairs
are asked, and `top` only until its literals are one class among the others) with
three statements. `Partition` is the shape of the classes, the one in hand and `top`
together; a model only cuts classes (`RefinedParts`), and a cut keeps the shape.
`Queue` says that the queue and what is set aside never overlap, that all of the backbone
not yet confirmed is in `top`, and, unless the clock ended the phase, in the queue or set
aside: a counter-model takes only literals it
makes false, and those are not in the backbone. `Comparable` says that a model of the
formula parts any two literals of different classes. Here it matters which variables
a counter-model is read for: `Held` covers every candidate that is compared, so that
the cut goes by one model of the formula throughout, the representative's polarity
included. A class taken in hand leaves a prefix of candidates passed over unanswered,
which is why `Phases` bounds that prefix by the number of unanswered pairs: one
candidate alone is no class when it is put back.

* `StageAlwaysDelivers`, for `StageDelivers`. `DInv` adds to `IInv` what the stage has
  found out so far. `Sound`: what is forced is in the backbone, and any two joined
  literals, and the confirmed part of the class in hand, have one value in every model
  of the formula. `Waiting`: as long as no pair is given up, every live literal is
  still a candidate or is joined to all its equals; `Answered` is the same once no
  candidate is left, and is where completeness comes from. `Pinned`: what is forced is
  the whole backbone once recovery is over, unless the clock cut it. `FormulaIs`: which
  formula is in hand in each phase, and that the pairs ingested are those of its
  Tarjan pass. `StageAsPromised` is carried along. One lemma per action shows that each
  is kept; the ones about the Tarjan pass rest on lemmas about implication chains
  (two literals that reach one another have one value in every model) and on
  substituting representatives, which keeps the models.

Model-checked only:

* everything temporal under fairness (`CallEnds`, `Terminates`, `CallsReturn`,
  `ProbingEnds`, `ChainReturns`), which the provers do not reach;
* DVE, the chains and projection (`GoneIsDefined`, `CountsKept`, `KeptCountIsExact`,
  `LayersFit`, `BundleCountLifts`, `AnswersReadBack`, `EliminationHolds`,
  `AnswersStand`): their properties compare numbers of models, and their operators
  select from sequences by a condition, whose library definition is recursive and
  opaque to the provers;
* that one `prepare` runs at a time (`PreparesAreApart`; the invariant it rests on,
  `LockInv`, is proved);
* what a conversion builds and the score tables (`MetadataDescribesTree`,
  `TablesAreRight`): RECURSIVE operators.

## 5. Not modelled, and why

* The solver, Arjun and CaDiCaL, the shims and their FFI: external; what they may
  return is a choice.
* How good a vtree is: scores are floating-point heuristics; which tree the rules
  pick, and the integer tables scores are reduced from, are modelled. FlowCutter,
  force, hybrid and multilevel constructions and goatd's schedule are searches
  whose every result is allowed.
* Parsing and formatting of DIMACS, configurations, specs and requests,
  diagnostics, drawings, build scripts: text without state.
* Bytes of a payload, memory layout, hashes, telemetry.
* Colour refinement of a component: any numbering is sound, so any is allowed.

## 6. Plan

Done: fork harness and its proofs; DVE and the weighted verdict; probing and its proof; simplify,
the count, compile and projection chains; Arjun stage and session with their
proofs; portfolio and components with theirs; vtrees, conversion and score tables; bundles and
the bindings' lock.

Left, in this order:

1. The meter's and the budget functions' arithmetic (rounding, floors, two clocks)
   and the payload codec, each against a reference definition.
2. A composition of `FrontendSession` with `CandidateBuild`, where construction is
   one step today.
3. Proofs: `Dve`'s `GoneIsDefined` and `ProjectedBve`'s lists, flags and queue, once
   their selections are written as sets.
4. goatd's schedule over a shared budget; the grammar of specs and requests.

Theorems live in modules of their own beside the module they are about. The
modules to be proved about declare no RECURSIVE operator.

-------------------------- MODULE FrontendSession --------------------------
(***************************************************************************)
(* The frontend session of src/src/bundle/session.rs: one anchored budget  *)
(* shared by preprocessing and vtree construction, a primary attempt that  *)
(* can be made once, and retries over the simplify checkpoint it kept.     *)
(* The Arjun stage is module ArjunStage; a chain's other stages and the    *)
(* construction are one step each, which may take any time, and a formula  *)
(* is its shape: refuted, without variables, monotone or none of these.    *)
(***************************************************************************)
EXTENDS ArjunStage

CONSTANTS
  Configs,         \* the anchored configurations of the session
  Overrides,       \* what a retry may override
  RetryDeadlines,  \* the absolute deadlines of RetryBudget
  RetryBudgets,    \* its exact Arjun allowances
  MaxRetries,      \* bound on the number of retries
  ShareFloor, ShareCap,  \* VTREE_BUDGET_FLOOR_MS, VTREE_BUDGET_CAP_MS
  UntilInstant,    \* the instant of ConstructionBudget::Until
  Horizon,         \* bound on the clock outside the Arjun stage
  Units            \* the work of ConstructionBudget::Deterministic, in ticks

Specs == {"portfolio", "linear", "invalid"}
Constructions == {"share", "whole", "until", "units"}
Config == [mode : Modes, arjunOn : BOOLEAN, skipMonotone : BOOLEAN,
           keepOverrun : BOOLEAN, keepSound : BOOLEAN,
           deadline : {{}} \cup {{d} : d \in 0..MaxNow}, arjunBudget : 0..MaxNow,
           construction : Constructions, spec : Specs, candidates : 1..2]
Override == [skipMonotone : SUBSET BOOLEAN, spec : SUBSET Specs]

\* RunConfig::validate and refuse_inert.
Valid(c) ==
  /\ c.spec # "invalid"
  /\ c.candidates > 1 => c.spec = "portfolio"
  /\ c.skipMonotone \/ c.keepOverrun => c.mode = "mc" /\ c.arjunOn
  /\ c.keepSound => c.mode # "compile" /\ c.arjunOn

ASSUME SessionAssumption ==
  /\ Configs \subseteq Config /\ \A c \in Configs : Valid(c)
  /\ Overrides \subseteq Override
  /\ RetryDeadlines \subseteq 0..MaxNow
  /\ RetryBudgets \subseteq 1..MaxNow
  /\ Horizon \in 0..MaxNow
  /\ MaxRetries \in Nat /\ ShareFloor \in Nat /\ ShareCap \in Nat
  /\ UntilInstant \in Nat /\ Units \in Nat

VARIABLES
  config,      \* the session's own configuration
  prepared,    \* an attempt has been made to prepare
  countStage1, \* the simplify checkpoint kept for retries, if any
  op,          \* the call in progress
  pc,          \* where it is
  work,        \* the formula in hand: what it came from and its shape
  retries,     \* retries made
  buildLimit,  \* the deadline construction was given
  answer       \* what the last call returned

sessionVars == <<config, prepared, countStage1, op, pc, work, retries,
                 buildLimit, answer>>
vars == <<now, stageVars, sessionVars>>

Work(from, shape) == [from |-> from, shape |-> shape]
NoAnswer == [op |-> "none", outcome |-> "nothing", vtree |-> "none",
             from |-> "input", report |-> "absent"]
Outcomes == {"nothing", "error", "declined", "run"}
Trees == {"none", "refuted", "resolved", "built"}
Origins == {"input", "simplify", "arjun"}

\* The locals of an Arjun stage, before it starts and once its call is over.
StageFresh ==
  /\ limit' = 0 /\ begun' = 0 /\ armed' = 0
  /\ forked' = FALSE /\ prompt' = FALSE
  /\ checkpoint' = "input" /\ stage2' = FALSE
  /\ reduction' = None

Init ==
  /\ now = 0
  /\ config \in Configs
  /\ call = config
  /\ input = "general" /\ arjun = "idle"
  /\ limit = 0 /\ begun = 0 /\ armed = 0
  /\ forked = FALSE /\ prompt = FALSE
  /\ checkpoint = "input" /\ stage2 = FALSE
  /\ reduction = None /\ report = "absent"
  /\ prepared = FALSE /\ countStage1 = {}
  /\ op = "none" /\ pc = "idle"
  /\ work = Work("input", "general")
  /\ retries = 0 /\ buildLimit = {}
  /\ answer = NoAnswer

-----------------------------------------------------------------------------
(* How a call ends, and how it goes on to its vtree. *)

Return(outcome, vtree) ==
  /\ answer' = [op |-> op, outcome |-> outcome, vtree |-> vtree,
                from |-> work'.from, report |-> report]
  /\ op' = "none" /\ pc' = "idle" /\ arjun' = "idle"
  /\ buildLimit' = {}
  /\ StageFresh
  /\ UNCHANGED <<now, call, input, report, config, prepared, retries>>

\* The instant construction stops starting work at.
BugFloorPastDeadline(c) ==
  {now + Max({ShareFloor, Min({ShareCap, TimeLeft(d) \div 3})}) : d \in c.deadline}
ConstructionDeadline(c) ==
  CASE c.construction = "units" -> {now + Units}
    [] c.construction = "whole" -> c.deadline
    [] c.construction = "until" -> {Min({UntilInstant, d}) : d \in c.deadline}
    [] c.construction = "share" ->
         {Min({d, now + Max({ShareFloor, Min({ShareCap, TimeLeft(d) \div 3})})})
            : d \in c.deadline}

\* A refuted bundle is a contradiction over every original variable.
TreeFor(shape) ==
  CASE shape = "refuted" -> "refuted"
    [] shape = "empty"   -> "resolved"
    [] OTHER             -> "built"

BuildRun ==
  IF TreeFor(work'.shape) = "built"
  THEN /\ pc' = "build"
       /\ buildLimit' = ConstructionDeadline(call)
       /\ arjun' = "idle"
       /\ StageFresh
       /\ UNCHANGED <<now, call, input, report, config, prepared, op, retries,
                      answer>>
  ELSE Return("run", TreeFor(work'.shape))

BugAnyReport(c, r) == c.mode = "mc"
RetriesCanStartHere(c, r) == c.mode = "mc" /\ r \in {"ran", "monotone"}

BugUnlessGivenUp == report # "gaveUp"
WorthBuilding == report = "ran"

\* What prepare and retry each do with a finished bundle.
FinishBundle ==
  \/ /\ op = "prepare"
     /\ countStage1' = IF RetriesCanStartHere(call, report) THEN {input} ELSE {}
     /\ BuildRun
  \/ /\ op = "retry"
     /\ UNCHANGED countStage1
     /\ IF WorthBuilding THEN BuildRun ELSE Return("declined", "none")

BuildEnds ==
  /\ pc = "build"
  /\ UNCHANGED <<work, countStage1>>
  /\ \/ Return("run", "built")
     \/ Return("error", "none")

-----------------------------------------------------------------------------
(* prepare: the chain of the mode, once. *)

PrepareRefused ==
  /\ op = "none" /\ pc = "idle" /\ prepared
  /\ answer' = [NoAnswer EXCEPT !.op = "prepare", !.outcome = "error"]
  /\ UNCHANGED <<now, stageVars, config, prepared, countStage1, op, pc, work,
                 retries, buildLimit>>

Prepare ==
  /\ op = "none" /\ pc = "idle" /\ ~prepared
  /\ prepared' = TRUE
  /\ op' = "prepare"
  /\ pc' = "preprocess"
  /\ call' = config
  /\ report' = "absent"
  /\ answer' = NoAnswer
  /\ UNCHANGED <<now, input, arjun, stageLocals, config, countStage1, work,
                 retries, buildLimit>>

\* The instance and the detected mode may contradict the configuration.
PreprocessRefuses ==
  /\ pc = "preprocess"
  /\ UNCHANGED <<work, countStage1>>
  /\ Return("error", "none")

\* The projection chain starts with Arjun, the count chain with simplify.
StartProjection ==
  /\ pc = "preprocess" /\ call.mode = "pmc"
  /\ \E shape \in Shapes \ {"empty"} :
       /\ work' = Work("input", shape) /\ input' = shape
       /\ pc' = "arjun" /\ arjun' = "entry"
       /\ UNCHANGED <<now, call, stageLocals, report, config, prepared,
                      countStage1, op, retries, buildLimit, answer>>

Simplify ==
  /\ pc = "preprocess" /\ call.mode # "pmc"
  /\ \E shape \in Shapes :
       /\ work' = Work("simplify", shape) /\ input' = shape
       /\ pc' = "simplified"
       /\ UNCHANGED <<now, call, arjun, stageLocals, report, config, prepared,
                      countStage1, op, retries, buildLimit, answer>>
\* Simplify refuted the instance, or the chain has no Arjun stage.
SimplifiedIsFinal ==
  /\ pc = "simplified"
  /\ work.shape = "refuted" \/ call.mode = "compile"
  /\ UNCHANGED work
  /\ FinishBundle

StartCountArjun ==
  /\ pc = "simplified"
  /\ work.shape # "refuted" /\ call.mode # "compile"
  /\ pc' = "arjun" /\ arjun' = "entry"
  /\ UNCHANGED <<now, call, input, stageLocals, report, config, prepared,
                 countStage1, op, work, retries, buildLimit, answer>>

ArjunFailed ==
  /\ pc = "arjun" /\ arjun = "error"
  /\ UNCHANGED <<work, countStage1>>
  /\ Return("error", "none")

AfterArjun == IF Kept THEN Work("arjun", Exported) ELSE work

FinishCountAttempt ==
  /\ pc = "arjun" /\ arjun = "done" /\ call.mode # "pmc"
  /\ work' = AfterArjun
  /\ FinishBundle

FinishProjectedArjun ==
  /\ pc = "arjun" /\ arjun = "done" /\ call.mode = "pmc"
  /\ work' = AfterArjun
  /\ pc' = "tail" /\ arjun' = "idle"
  /\ UNCHANGED <<now, call, input, stageLocals, report, config, prepared,
                 countStage1, op, retries, buildLimit, answer>>

\* ArjunOnly keeps the formula as it is; the projected reduction may empty or
\* refute it, and is not reached by a refuted one.
ProjectionTail ==
  /\ pc = "tail"
  /\ \E shape \in IF call.keepSound \/ work.shape = "refuted"
                  THEN {work.shape} ELSE {work.shape, "empty", "refuted"} :
       /\ work' = [work EXCEPT !.shape = shape]
       /\ FinishBundle

-----------------------------------------------------------------------------
(* retry: another Arjun attempt over the kept checkpoint. *)

RetryAnswers(outcome) ==
  /\ answer' = [NoAnswer EXCEPT !.op = "retry", !.outcome = outcome]
  /\ UNCHANGED <<now, stageVars, config, prepared, countStage1, op, pc, work,
                 retries, buildLimit>>

RetryDeadline(d) == Min({d} \cup config.deadline)

RetryRefused(o) ==
  /\ op = "none" /\ pc = "idle"
  /\ ~prepared \/ "invalid" \in o.spec
  /\ RetryAnswers("error")

RetryDeclined(o, d) ==
  /\ op = "none" /\ pc = "idle"
  /\ prepared /\ "invalid" \notin o.spec
  /\ countStage1 = {} \/ RetryDeadline(d) <= now
  /\ RetryAnswers("declined")

RetryConfig(o, d, budget) ==
  [config EXCEPT !.deadline = {RetryDeadline(d)}, !.arjunBudget = budget,
     !.skipMonotone = IF o.skipMonotone = {} THEN @ ELSE TRUE \in o.skipMonotone,
     !.spec = IF o.spec = {} THEN @ ELSE CHOOSE x \in o.spec : TRUE]

Retry(o, d, budget) ==
  /\ op = "none" /\ pc = "idle" /\ retries < MaxRetries
  /\ prepared /\ "invalid" \notin o.spec
  /\ countStage1 # {} /\ RetryDeadline(d) > now
  /\ call' = RetryConfig(o, d, budget)
  /\ \E shape \in countStage1 : work' = Work("simplify", shape) /\ input' = shape
  /\ op' = "retry" /\ retries' = retries + 1
  /\ pc' = "arjun" /\ arjun' = "entry"
  /\ report' = "absent"
  /\ answer' = NoAnswer
  /\ UNCHANGED <<now, stageLocals, config, prepared, countStage1, buildLimit>>

-----------------------------------------------------------------------------
\* Time passes between the calls, in a chain's stages and in construction.
Tick ==
  /\ \/ now < Horizon /\ pc \in {"idle", "preprocess", "tail", "build"}
     \/ now < MaxNow /\ arjun \in Running /\ ArjunMayWait
  /\ now' = now + 1
  /\ UNCHANGED <<stageVars, sessionVars>>

Reducing == ReduceStep /\ UNCHANGED <<now, sessionVars>>
Killing  == Kill /\ UNCHANGED <<now, sessionVars>>
Staging  == StageStep /\ UNCHANGED <<now, sessionVars>>
Chaining ==
  \/ PreprocessRefuses \/ StartProjection \/ Simplify \/ SimplifiedIsFinal
  \/ StartCountArjun \/ ArjunFailed \/ FinishCountAttempt
  \/ FinishProjectedArjun \/ ProjectionTail \/ BuildEnds
Calling ==
  \/ Prepare \/ PrepareRefused
  \/ \E o \in Overrides, d \in RetryDeadlines :
       \/ RetryRefused(o) \/ RetryDeclined(o, d)
       \/ \E b \in RetryBudgets : Retry(o, d, b)

Next == Calling \/ Chaining \/ Staging \/ Reducing \/ Killing \/ Tick
Spec == Init /\ [][Next]_vars

\* The calling thread runs on, the clock runs on, and a reduction in the
\* calling process ends, and so does one that polls.  A forked child may hang.
FairSpec ==
  /\ Spec
  /\ WF_vars(Chaining) /\ WF_vars(Staging) /\ WF_vars(Killing) /\ WF_vars(Tick)
  /\ WF_vars(Reducing /\ (prompt \/ ~forked))
-----------------------------------------------------------------------------
TypeOK ==
  /\ now \in 0..MaxNow
  /\ call \in Config /\ input \in Shapes
  /\ arjun \in {"idle", "entry", "judge", "done", "error"} \cup Running
  /\ limit \in Nat /\ begun \in 0..MaxNow /\ armed \in Nat
  /\ forked \in BOOLEAN /\ prompt \in BOOLEAN /\ stage2 \in BOOLEAN
  /\ checkpoint \in {"input", "support", "reduced"}
  /\ reduction \in {None} \cup Reductions(call.mode)
  /\ report \in Reports
  /\ config \in Configs /\ prepared \in BOOLEAN
  /\ countStage1 \in SUBSET {"general", "monotone"} /\ Cardinality(countStage1) <= 1
  /\ op \in {"none", "prepare", "retry"}
  /\ pc \in {"idle", "preprocess", "simplified", "arjun", "tail", "build"}
  /\ work \in [from : Origins, shape : Shapes]
  /\ retries \in 0..MaxRetries
  /\ buildLimit \in {{}} \cup {{d} : d \in 0..MaxNow + Max({ShareFloor, Units})}
  /\ answer \in [op : {"none", "prepare", "retry"}, outcome : Outcomes,
                 vtree : Trees, from : Origins, report : Reports]

\* An Arjun that answers its polls loses nothing to the clock: however much of
\* its allowance stage 1 takes, stage 2 is started, and what the stages reach
\* is inside the grace it is accepted in (STAGE2_RUNWAY_SHARE, and the
\* deadline cut of classify_budget).
PromptArjunIsKept ==
  prompt /\ arjun = "classify" => stage2 /\ KeepAfterDeadline(call)

\* Nothing is reduced past the run's own deadline by more than the kill grace,
\* whatever simplify spent before it and however much a retry allows, when
\* Arjun polls promptly or the harness can kill it; and construction under a
\* wall-clock policy never starts work past the deadline of its call or session.
DeadlineHonoured ==
  /\ arjun \in {"stage1", "harvest", "stage2", "classify"} /\ (forked \/ prompt) =>
       \A d \in call.deadline \cup config.deadline : now <= d + KillGrace
  /\ pc = "build" /\ call.construction # "units" =>
       /\ call.deadline # {} => buildLimit # {}
       /\ \A l \in buildLimit : \A d \in call.deadline \cup config.deadline : l <= d

\* The policies that keep a reduction of poor quality never keep one that is
\* wrong: an aliased variable map or a weighted reduction that lost mass.
SoundExport ==
  [][work'.from = "arjun" /\ work.from # "arjun" =>
       reduction.given /\ reduction.flaws \cap {"aliased", "lossy"} = {}]_vars

\* A run says that Arjun ran exactly when the formula it carries is Arjun's, and
\* a retry returns a run only over a reduction made in that retry, never over
\* the checkpoint the primary attempt could fall back to.
RetryBringsReduction ==
  answer.outcome = "run" =>
    /\ answer.report = "ran" <=> answer.from = "arjun"
    /\ answer.op = "retry" => answer.from = "arjun"

\* What was reduced in time is used and reported as what it is, by the attempt
\* that reduced it; and the state has its types.
ReductionsAreUsed == TypeOK /\ PromptArjunIsKept /\ RetryBringsReduction

\* Every call comes back, a forked reduction that hangs included.
CallsReturn == op # "none" ~> op = "none"
=============================================================================

----------------------------- MODULE ArjunStage -----------------------------
(***************************************************************************)
(* One Arjun stage: arjun_stage of src/src/bundle/stage.rs around          *)
(* run_stages of src/src/preprocess/arjun_lib.  Arjun itself is external:  *)
(* it answers late, early or never, and what it hands back is judged by    *)
(* the flaws its gates look for and by what is left of the formula.        *)
(* The fork harness stands by its contract (module BudgetedCall, which     *)
(* ForkBudget implements): the caller has an answer by the kill deadline,  *)
(* unless the harness ran the reduction in the calling process.            *)
(***************************************************************************)
EXTENDS Integers, FiniteSetsExt

CONSTANTS
  KillGrace,   \* KILL_GRACE, in clock ticks
  CutGrace,    \* DEADLINE_CUT_GRACE
  MinRunway,   \* ORACLE_MIN_RUNWAY_MS
  MaxNow       \* bound on the clock

ASSUME ArjunStageAssumption ==
  /\ KillGrace \in Nat /\ CutGrace \in Nat
  /\ MinRunway \in Nat /\ MaxNow \in Nat

VARIABLES
  now,        \* the clock
  call,       \* the configuration the attempt runs under
  input,      \* the formula the stage is handed, by shape
  arjun,      \* program counter of the stage
  limit,      \* the stage's deadline
  begun,      \* when Arjun's own stage 1 began
  armed,      \* the deadline Arjun polls
  forked,     \* the reduction runs in a child of the harness
  prompt,     \* Arjun reaches a poll site within a tick
  checkpoint, \* the most-reduced sound checkpoint
  stage2,     \* whether Arjun's stage 2 was started
  reduction,  \* what the reduction handed back
  report      \* StageReport.arjun

clocks == <<limit, begun, armed>>
manner == <<forked, prompt>>
stageLocals == <<clocks, manner, checkpoint, stage2, reduction>>
stageVars == <<call, input, arjun, stageLocals, report>>

-----------------------------------------------------------------------------
Modes  == {"mc", "wmc", "pmc", "compile"}   \* pwmc has the control of pmc
Shapes == {"general", "monotone", "empty", "refuted"}
Flaws  == {"grew", "lossy", "noGain", "aliased"}

None == [given |-> FALSE]
Reduction(shape, flaws) == [given |-> TRUE, shape |-> shape, flaws |-> flaws]

\* What Arjun can hand back in a mode.  A weighted reduction that solved the
\* instance outright has lost the mass of the variables it dropped.
Reductions(mode) ==
  LET own == CASE mode = "mc"  -> {"grew", "aliased"}
               [] mode = "wmc" -> {"grew", "lossy", "aliased"}
               [] OTHER        -> {"noGain", "aliased"}
  IN {Reduction(s, f) : s \in {"general", "empty", "refuted"}, f \in SUBSET own}
       \ {r \in {Reduction("empty", f) : f \in SUBSET own} :
            mode = "wmc" /\ "lossy" \notin r.flaws}

Reports == {"absent", "ran", "gaveUp", "notRequested", "nothingToDo",
            "monotone", "notSmaller", "noProjectionGain", "weightedUnusable",
            "nonInjectiveMap"}
Running == {"load", "stage1", "harvest", "stage2", "classify"}

TimeLeft(deadline) == Max({deadline - now, 0})

\* Whether the reduction's own deadline can be enforced from outside: the
\* projected entry points never fork, the plain one not for keep_overrun.
Forkable(c) == c.mode = "wmc" \/ (c.mode = "mc" /\ ~c.keepOverrun)

-----------------------------------------------------------------------------
(* May the stage run, and what may it spend. *)

ArjunSkipped(c, f) ==
  IF ~c.arjunOn THEN {"notRequested"}
  ELSE IF f = "empty" THEN {"nothingToDo"}
  ELSE IF c.mode = "mc" /\ c.skipMonotone /\ f = "monotone" THEN {"monotone"}
  ELSE {}

BugUnclamped(c) == c.arjunBudget
ArjunBudget(c) == Min({c.arjunBudget} \cup {TimeLeft(d) : d \in c.deadline})

SkipStage ==
  /\ arjun = "entry"
  /\ ArjunSkipped(call, input) # {}
  /\ report' \in ArjunSkipped(call, input)
  /\ arjun' = "done"
  /\ reduction' = None
  /\ UNCHANGED <<call, input, clocks, manner, checkpoint, stage2>>

\* A VITRI_* value the shim refuses is an error, raised before any work.
RefuseEnvironment ==
  /\ arjun = "entry"
  /\ ArjunSkipped(call, input) = {}
  /\ arjun' = "error"
  /\ UNCHANGED <<call, input, stageLocals, report>>

StartStage ==
  /\ arjun = "entry"
  /\ ArjunSkipped(call, input) = {}
  /\ limit' = now + ArjunBudget(call)
  /\ armed' = limit'
  /\ forked' \in IF Forkable(call) THEN BOOLEAN ELSE {FALSE}
  /\ prompt' \in BOOLEAN
  /\ arjun' = "load"
  /\ checkpoint' = "input" /\ stage2' = FALSE
  /\ UNCHANGED <<call, input, begun, reduction, report>>

-----------------------------------------------------------------------------
(* run_stages. *)

BugNoReserve(from, deadline) == deadline
StageOneDeadline(from, deadline) == from + (3 * Max({deadline - from, 0})) \div 4

\* The stage-1 progress check, at 30% of the time left when stage 1 began.
CheckpointAt == begun + (3 * (limit - begun)) \div 10

HandBack(r) ==
  /\ arjun' = "judge"
  /\ reduction' = r
  /\ UNCHANGED <<call, input, clocks, manner, checkpoint, stage2, report>>

\* No shim, an unreadable weight, an empty projection, no time, a failed
\* stage 1, a child that died: there is nothing to hand back.
NothingToHandBack ==
  /\ \/ arjun \in {"load", "stage1"}
     \/ arjun = "classify"            \* the checkpoint cannot be read back
     \/ forked /\ arjun \in Running   \* the child panicked or was signalled
  /\ HandBack(None)

StartStageOne ==
  /\ arjun = "load"
  /\ now < limit
  /\ begun' = now
  /\ armed' = StageOneDeadline(now, limit)
  /\ arjun' = "stage1"
  /\ UNCHANGED <<call, input, limit, manner, checkpoint, stage2, reduction, report>>

\* The full deadline is armed again before the verdict on the progress.
StageOneStalls ==
  /\ arjun = "stage1"
  /\ now >= CheckpointAt
  /\ armed' = limit
  /\ arjun' = "judge"
  /\ reduction' = None
  /\ UNCHANGED <<call, input, limit, begun, manner, checkpoint, stage2, report>>

FullDeadline == limit
StageOneEnds ==
  /\ arjun = "stage1"
  /\ armed' = FullDeadline
  /\ checkpoint' = "support"
  /\ arjun' = "harvest"
  /\ UNCHANGED <<call, input, limit, begun, manner, stage2, reduction, report>>

\* The oracle's size gate and the effort level may turn it off; the runway
\* gate is the clock's.  Its outcome is part of what Arjun hands back.
OracleRuns(fits) == fits /\ TimeLeft(limit) >= MinRunway

StartStageTwo ==
  /\ arjun = "harvest"
  /\ IF TimeLeft(limit) > 0
       THEN arjun' = "stage2" /\ stage2' = TRUE
       ELSE arjun' = "classify" /\ UNCHANGED stage2
  /\ UNCHANGED <<call, input, clocks, manner, checkpoint, reduction, report>>

\* A failed stage 2 leaves the stage-1 checkpoint standing.
StageTwoEnds ==
  /\ arjun = "stage2"
  /\ checkpoint' \in {"support", "reduced"}
  /\ arjun' = "classify"
  /\ UNCHANGED <<call, input, clocks, manner, stage2, reduction, report>>

KeepAfterDeadline(c) ==
  \/ c.mode = "pmc"
  \/ now <= limit + CutGrace
  \/ c.mode = "mc" /\ c.keepOverrun

ReadBack ==
  /\ arjun = "classify"
  /\ IF KeepAfterDeadline(call)
       THEN \E r \in Reductions(call.mode) : HandBack(r)
       ELSE HandBack(None)

\* The harness kills the child once the grace has passed as well.
BugNoKill == MaxNow + 1
KillDeadline == limit + KillGrace
Kill ==
  /\ forked /\ arjun \in Running
  /\ now >= KillDeadline
  /\ HandBack(None)
\* What the parent waits for happens within a tick: the kill, and the answer
\* of a prompt Arjun whose armed deadline has passed.
ArjunMayWait ==
  /\ ~(forked /\ arjun \in Running /\ now >= KillDeadline)
  /\ prompt => /\ arjun \notin {"load", "harvest", "classify"}
               /\ arjun \in {"stage1", "stage2"} => now < armed

-----------------------------------------------------------------------------
(* The gates: the mode's own, then the variable map's. *)

DiscardReason(c, r) ==
  IF c.mode = "wmc" /\ "lossy" \in r.flaws THEN {"weightedUnusable"}
  ELSE IF c.mode # "pmc" /\ "grew" \in r.flaws THEN {"notSmaller"}
  ELSE IF c.mode = "pmc" /\ "noGain" \in r.flaws /\ ~c.keepSound THEN {"noProjectionGain"}
  ELSE {}

BugKeepSoundKeepsAll(c, r) ==
  IF DiscardReason(c, r) # {} /\ ~c.keepSound THEN DiscardReason(c, r)
  ELSE IF "aliased" \in r.flaws /\ ~c.keepSound THEN {"nonInjectiveMap"}
  ELSE {"ran"}
Verdict(c, r) ==
  IF DiscardReason(c, r) # {}
       /\ ~("notSmaller" \in DiscardReason(c, r) /\ c.keepSound)
  THEN DiscardReason(c, r)
  ELSE IF "aliased" \in r.flaws THEN {"nonInjectiveMap"} ELSE {"ran"}

Judge ==
  /\ arjun = "judge"
  /\ report' \in IF reduction.given THEN Verdict(call, reduction) ELSE {"gaveUp"}
  /\ arjun' = "done"
  /\ UNCHANGED <<call, input, stageLocals>>

\* The formula the chain goes on with: the reduction that was kept, or the
\* formula the stage was handed.
BugGivenIsKept == reduction.given
Kept == report = "ran"
Exported == IF Kept THEN reduction.shape ELSE input

ReduceStep ==
  \/ NothingToHandBack \/ StartStageOne \/ StageOneStalls \/ StageOneEnds
  \/ StartStageTwo \/ StageTwoEnds \/ ReadBack
StageStep == SkipStage \/ RefuseEnvironment \/ StartStage \/ Judge
=============================================================================

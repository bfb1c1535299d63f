----------------------- MODULE FrontendSessionProofs -----------------------
(***************************************************************************)
(* The safety properties of FrontendSession, for every set of              *)
(* configurations, every deadline and every number of retries.             *)
(***************************************************************************)
EXTENDS FrontendSession, FiniteSetTheorems, TLAPS

Sound(r) == r.given /\ r.flaws \cap {"aliased", "lossy"} = {}

(* Where a call can be, and what the formula in hand came from by then. *)
PhaseInv ==
  /\ pc \in {"preprocess", "simplified"} => op = "prepare" /\ report = "absent"
  /\ pc = "simplified" => work.from = "simplify" /\ input = work.shape
  /\ pc = "arjun" => work.from # "arjun" /\ (call.mode # "pmc" => input # "refuted")
  /\ pc = "tail" => call.mode = "pmc"
  /\ pc \in {"tail", "build"} => (report = "ran" <=> work.from = "arjun")
  /\ pc = "build" /\ op = "retry" => report = "ran"

(* What a stage holds: a reduction of its own mode, judged before it is used. *)
StageInv ==
  /\ arjun # "idle" => pc = "arjun"
  /\ pc \in {"idle", "preprocess", "simplified", "build"} => reduction = None
  /\ arjun \in Running \cup {"judge"} => input # "empty"
  /\ arjun = "done" /\ report \in {"ran", "monotone"} => input # "empty"
  /\ arjun = "done" /\ report = "ran" => Sound(reduction)

(* Where the clock is with respect to the deadlines of the stage. *)
ClockInv ==
  /\ arjun = "stage1" => begun < limit /\ armed = StageOneDeadline(begun, limit)
  /\ arjun \in {"harvest", "stage2"} => armed = limit
  /\ prompt /\ arjun \in {"stage1", "harvest"} => now < limit
  /\ prompt /\ arjun \in {"stage2", "classify"} => now <= limit /\ stage2
  /\ forked /\ arjun \in Running => now <= KillDeadline

(* What the deadlines of the stage and of construction were taken from. *)
BudgetInv ==
  /\ \A d \in config.deadline : \E e \in call.deadline : e <= d
  /\ arjun = "load" => \A d \in call.deadline : limit <= d \/ limit <= now
  /\ arjun \in {"stage1", "harvest", "stage2", "classify"} =>
       \A d \in call.deadline : limit <= d
  /\ pc = "build" /\ call.construction # "units" =>
       /\ call.deadline # {} => buildLimit # {}
       /\ \A l \in buildLimit : \A d \in call.deadline : l <= d

(* What a call may leave behind. *)
WorkOK == work \in [from : Origins, shape : Shapes]
CheckpointOK == /\ countStage1 \in SUBSET {"general", "monotone"}
                /\ Cardinality(countStage1) <= 1

IInv == TypeOK /\ PhaseInv /\ StageInv /\ ClockInv /\ BudgetInv /\ RetryBringsReduction

-----------------------------------------------------------------------------
(***************************************************************************)
(* Arithmetic.                                                             *)
(***************************************************************************)

\* The smaller and the larger of two.
LEMMA MinOfTwo ==
  ASSUME NEW a \in Int, NEW b \in Int
  PROVE  Min({a, b}) \in {a, b} /\ Min({a, b}) <= a /\ Min({a, b}) <= b
<1>1. \E x \in {a, b} : \A y \in {a, b} : x <= y
  <2>1. CASE a <= b  BY <2>1
  <2>2. CASE ~(a <= b)  BY <2>2
  <2>. QED  BY <2>1, <2>2
<1>. QED  BY <1>1 DEF Min

LEMMA MaxOfTwo ==
  ASSUME NEW a \in Int, NEW b \in Int
  PROVE  Max({a, b}) \in {a, b} /\ Max({a, b}) >= a /\ Max({a, b}) >= b
<1>1. \E x \in {a, b} : \A y \in {a, b} : x >= y
  <2>1. CASE a >= b  BY <2>1
  <2>2. CASE ~(a >= b)  BY <2>2
  <2>. QED  BY <2>1, <2>2
<1>. QED  BY <1>1 DEF Max

LEMMA MinOfOne ==
  ASSUME NEW a \in Int
  PROVE  Min({a}) = a
<1>1. \E x \in {a} : \A y \in {a} : x <= y  OBVIOUS
<1>. QED  BY <1>1 DEF Min

\* What is left before a deadline.
LEMMA TimeLeftBounds ==
  ASSUME now \in Nat, NEW d \in Nat
  PROVE  /\ TimeLeft(d) \in Nat
         /\ now < d => now + TimeLeft(d) = d
         /\ d <= now => TimeLeft(d) = 0
<1>. DEFINE left == d - now
<1>1. left \in Int /\ 0 \in Int  OBVIOUS
<1>. HIDE DEF left
<1>2. Max({left, 0}) \in {left, 0} /\ Max({left, 0}) >= left /\ Max({left, 0}) >= 0
  BY <1>1, MaxOfTwo
<1>3. TimeLeft(d) = Max({left, 0})  BY DEF TimeLeft, left
<1>. QED  BY <1>2, <1>3 DEF left

\* Stage 1 ends before the stage does.
LEMMA StageOneEndsEarlier ==
  ASSUME NEW from \in Nat, NEW deadline \in Nat, from < deadline
  PROVE  StageOneDeadline(from, deadline) \in Nat /\ StageOneDeadline(from, deadline) < deadline
<1>. DEFINE left == deadline - from
<1>1. left \in Int /\ 0 \in Int /\ left > 0  OBVIOUS
<1>. HIDE DEF left
<1>2. Max({left, 0}) \in {left, 0} /\ Max({left, 0}) >= left  BY <1>1, MaxOfTwo
<1>3. Max({left, 0}) = left  BY <1>1, <1>2
<1>4. StageOneDeadline(from, deadline) = from + (3 * left) \div 4
  BY <1>3 DEF StageOneDeadline, left
<1>. QED  BY <1>1, <1>4 DEF left

\* A configuration has one deadline or none.
LEMMA DeadlineIsOneOrNone ==
  ASSUME NEW c \in Config
  PROVE  c.deadline = {} \/ \E d \in 0 .. MaxNow : c.deadline = {d}
BY DEF Config

\* The stage's budget ends at the deadline of its call at the latest.
LEMMA BudgetBounds ==
  ASSUME now \in Nat, MaxNow \in Nat, NEW c \in Config
  PROVE  /\ ArjunBudget(c) \in Nat
         /\ \A d \in c.deadline : now + ArjunBudget(c) <= d \/ ArjunBudget(c) = 0
<1>1. c.arjunBudget \in Nat  BY DEF Config
<1>2. CASE c.deadline = {}
  <2>1. {c.arjunBudget} \cup {TimeLeft(d) : d \in c.deadline} = {c.arjunBudget}  BY <1>2
  <2>. QED  BY <2>1, <1>1, <1>2, MinOfOne DEF ArjunBudget
<1>3. ASSUME NEW d \in 0 .. MaxNow, c.deadline = {d}
      PROVE  /\ ArjunBudget(c) \in Nat
             /\ \A e \in c.deadline : now + ArjunBudget(c) <= e \/ ArjunBudget(c) = 0
  <2>1. {c.arjunBudget} \cup {TimeLeft(e) : e \in c.deadline} = {c.arjunBudget, TimeLeft(d)}
    BY <1>3
  <2>2. d \in Nat  BY MaxNow \in Nat
  <2>3. TimeLeft(d) \in Nat /\ (now < d => now + TimeLeft(d) = d) /\ (d <= now => TimeLeft(d) = 0)
    BY <2>2, TimeLeftBounds
  <2>. DEFINE a == c.arjunBudget
              b == TimeLeft(d)
  <2>4. a \in Int /\ b \in Int  BY <2>3, <1>1
  <2>. HIDE DEF b
  <2>7. {a} \cup {TimeLeft(e) : e \in c.deadline} = {a, b}  BY <2>1 DEF b
  <2>8. ArjunBudget(c) = Min({a, b})  BY <2>7 DEF ArjunBudget
  <2>. HIDE DEF a
  <2>5. Min({a, b}) \in {a, b} /\ Min({a, b}) <= a /\ Min({a, b}) <= b
    BY <2>4, MinOfTwo
  <2>6. ArjunBudget(c) \in {a, b} /\ ArjunBudget(c) <= b  BY <2>5, <2>8
  <2>. QED  BY <2>2, <2>3, <2>6, <1>1, <1>3 DEF a, b
<1>. QED  BY <1>2, <1>3, DeadlineIsOneOrNone

\* Construction under a wall-clock policy ends at the deadline of its call.
LEMMA ConstructionBounds ==
  ASSUME now \in 0 .. MaxNow, NEW c \in Config
  PROVE  /\ ConstructionDeadline(c) \in {{}} \cup {{d} : d \in 0 .. MaxNow + Max({ShareFloor, Units})}
         /\ c.construction # "units" =>
              /\ c.deadline # {} => ConstructionDeadline(c) # {}
              /\ \A l \in ConstructionDeadline(c) : \A d \in c.deadline : l <= d
<1>1. /\ MaxNow \in Nat /\ ShareFloor \in Nat /\ ShareCap \in Nat
      /\ UntilInstant \in Nat /\ Units \in Nat
  BY ArjunStageAssumption, SessionAssumption
<1>2. Max({ShareFloor, Units}) \in Nat /\ Max({ShareFloor, Units}) >= Units
  BY <1>1, MaxOfTwo
<1>3. c.construction \in {"share", "whole", "until", "units"}  BY DEF Config, Constructions
<1>4. CASE c.construction = "units"
  <2>1. ConstructionDeadline(c) = {now + Units}  BY <1>4 DEF ConstructionDeadline
  <2>2. now + Units \in 0 .. MaxNow + Max({ShareFloor, Units})  BY <1>1, <1>2
  <2>. QED  BY <2>1, <2>2, <1>4
<1>5. CASE c.construction # "units" /\ c.deadline = {}
  <2>1. ConstructionDeadline(c) = {}  BY <1>3, <1>5 DEF ConstructionDeadline
  <2>. QED  BY <2>1, <1>5
<1>6. ASSUME c.construction # "units", NEW d \in 0 .. MaxNow, c.deadline = {d}
      PROVE  \E l \in 0 .. MaxNow : ConstructionDeadline(c) = {l} /\ l <= d
  <2>. DEFINE share == Max({ShareFloor, Min({ShareCap, TimeLeft(d) \div 3})})
  <2>1. d \in Nat /\ now \in Nat  BY <1>1
  <2>2. CASE c.construction = "whole"
    <3>1. ConstructionDeadline(c) = {d}  BY <2>2, <1>6 DEF ConstructionDeadline
    <3>. QED  BY <3>1, <2>1
  <2>3. CASE c.construction = "until"
    <3>1. ConstructionDeadline(c) = {Min({UntilInstant, d})}
      BY <2>3, <1>6 DEF ConstructionDeadline
    <3>2. Min({UntilInstant, d}) \in {UntilInstant, d} /\ Min({UntilInstant, d}) <= d
      BY <1>1, <2>1, MinOfTwo
    <3>. QED  BY <3>1, <3>2, <1>1, <2>1
  <2>4. CASE c.construction = "share"
    <3>1. ConstructionDeadline(c) = {Min({d, now + share})}
      BY <2>4, <1>6 DEF ConstructionDeadline
    <3>. DEFINE third == TimeLeft(d) \div 3
                capped == Min({ShareCap, third})
    <3>2. third \in Int /\ third >= 0  BY <2>1, TimeLeftBounds
    <3>3. ShareCap \in Int /\ ShareFloor \in Int  BY <1>1
    <3>4. share = Max({ShareFloor, capped})  OBVIOUS
    <3>. HIDE DEF third, share
    <3>5. capped \in {ShareCap, third}  BY <3>2, <3>3, MinOfTwo
    <3>6. capped \in Int  BY <3>2, <3>3, <3>5
    <3>. HIDE DEF capped
    <3>7. share \in {ShareFloor, capped} /\ share >= ShareFloor
      BY <3>3, <3>4, <3>6, MaxOfTwo
    <3>8. share \in Nat  BY <1>1, <3>3, <3>6, <3>7
    <3>. DEFINE later == now + share
    <3>9. later \in Nat /\ d \in Int /\ later \in Int  BY <3>8, <2>1
    <3>. HIDE DEF later
    <3>10. Min({d, later}) \in {d, later} /\ Min({d, later}) <= d  BY <3>9, MinOfTwo
    <3>11. ConstructionDeadline(c) = {Min({d, later})}  BY <3>1 DEF later
    <3>. QED  BY <3>9, <3>10, <3>11, <2>1, <1>1
  <2>. QED  BY <2>2, <2>3, <2>4, <1>3, <1>6
<1>7. ASSUME c.construction # "units", NEW d \in 0 .. MaxNow, c.deadline = {d}
      PROVE  /\ ConstructionDeadline(c) \in {{}} \cup {{e} : e \in 0 .. MaxNow + Max({ShareFloor, Units})}
             /\ ConstructionDeadline(c) # {}
             /\ \A l \in ConstructionDeadline(c) : \A e \in c.deadline : l <= e
  <2>1. PICK l \in 0 .. MaxNow : ConstructionDeadline(c) = {l} /\ l <= d  BY <1>6, <1>7
  <2>2. l \in 0 .. MaxNow + Max({ShareFloor, Units})  BY <1>1, <1>2
  <2>. QED  BY <2>1, <2>2, <1>7
<1>. QED  BY <1>4, <1>5, <1>7, DeadlineIsOneOrNone

-----------------------------------------------------------------------------
(***************************************************************************)
(* How a call ends, and how it goes on to its vtree.                       *)
(***************************************************************************)

\* What the proofs need of the constants, in one place.
LEMMA ConstantFacts ==
  /\ KillGrace \in Nat /\ CutGrace \in Nat /\ MaxNow \in Nat /\ Horizon \in 0 .. MaxNow
  /\ ShareFloor \in Nat /\ Units \in Nat /\ MaxRetries \in Nat
  /\ Configs \subseteq Config
BY ArjunStageAssumption, SessionAssumption

\* The state a stage leaves behind is the one a stage starts from.
LEMMA FreshIsTyped ==
  ASSUME StageFresh
  PROVE  /\ limit' \in Nat /\ begun' \in 0 .. MaxNow /\ armed' \in Nat
         /\ forked' = FALSE /\ prompt' = FALSE /\ stage2' = FALSE
         /\ checkpoint' \in {"input", "support", "reduced"}
         /\ reduction' = None
BY ConstantFacts DEF StageFresh

\* A call that ends leaves the session as a call finds it.
LEMMA ReturnKeeps ==
  ASSUME IInv, NEW o \in Outcomes, NEW v \in Trees, Return(o, v), WorkOK', CheckpointOK',
         o = "run" => /\ report = "ran" <=> work'.from = "arjun"
                      /\ op = "retry" => work'.from = "arjun"
  PROVE  IInv'
<1>1. TypeOK'
  <2>1. TypeOK  BY DEF IInv
  <2>2. /\ answer' = [op |-> op, outcome |-> o, vtree |-> v, from |-> work'.from, report |-> report]
        /\ op' = "none" /\ pc' = "idle" /\ arjun' = "idle" /\ buildLimit' = {}
        /\ UNCHANGED <<now, call, input, report, config, prepared, retries>>
    BY DEF Return
  <2>3. work'.from \in Origins  BY DEF WorkOK
  <2>4. answer' \in [op : {"none", "prepare", "retry"}, outcome : Outcomes,
                     vtree : Trees, from : Origins, report : Reports]
    BY <2>1, <2>2, <2>3 DEF TypeOK
  <2>5. StageFresh  BY DEF Return
  <2>. QED  BY <2>1, <2>2, <2>4, <2>5, FreshIsTyped DEF TypeOK, WorkOK, CheckpointOK
<1>2. /\ arjun' = "idle" /\ pc' = "idle" /\ reduction' = None /\ forked' = FALSE
      /\ UNCHANGED <<config, call>>
  BY DEF Return, StageFresh
<1>3. PhaseInv' /\ StageInv' /\ ClockInv'  BY <1>2 DEF PhaseInv, StageInv, ClockInv, Running
<1>4. BudgetInv'  BY <1>2 DEF IInv, BudgetInv
<1>5. RetryBringsReduction'
  BY DEF Return, RetryBringsReduction
<1>. QED  BY <1>1, <1>3, <1>4, <1>5 DEF IInv

\* Construction starts with a formula that says what it came from.
LEMMA BuildRunKeeps ==
  ASSUME IInv, BuildRun, WorkOK', CheckpointOK',
         report = "ran" <=> work'.from = "arjun", op = "retry" => report = "ran"
  PROVE  IInv'
<1>1. CASE TreeFor(work'.shape) # "built"
  <2>1. Return("run", TreeFor(work'.shape))  BY <1>1 DEF BuildRun
  <2>2. "run" \in Outcomes /\ TreeFor(work'.shape) \in Trees  BY DEF Outcomes, Trees, TreeFor
  <2>. QED  BY <2>1, <2>2, ReturnKeeps
<1>2. CASE TreeFor(work'.shape) = "built"
  <2>1. /\ pc' = "build" /\ buildLimit' = ConstructionDeadline(call) /\ arjun' = "idle"
        /\ StageFresh
        /\ UNCHANGED <<now, call, input, report, config, prepared, op, retries, answer>>
    BY <1>2 DEF BuildRun
  <2>2. TypeOK  BY DEF IInv
  <2>3. call \in Config /\ now \in 0 .. MaxNow  BY <2>2 DEF TypeOK
  <2>4. /\ buildLimit' \in {{}} \cup {{d} : d \in 0 .. MaxNow + Max({ShareFloor, Units})}
        /\ call.construction # "units" =>
             /\ call.deadline # {} => buildLimit' # {}
             /\ \A l \in buildLimit' : \A d \in call.deadline : l <= d
    BY <2>1, <2>3, ConstructionBounds
  <2>5. TypeOK'
    BY <2>1, <2>2, <2>4, FreshIsTyped DEF TypeOK, WorkOK, CheckpointOK
  <2>6. PhaseInv' /\ StageInv' /\ ClockInv'
    BY <2>1, FreshIsTyped DEF PhaseInv, StageInv, ClockInv, Running
  <2>7. BudgetInv'  BY <2>1, <2>4 DEF IInv, BudgetInv
  <2>8. RetryBringsReduction'  BY <2>1 DEF IInv, RetryBringsReduction
  <2>. QED  BY <2>5, <2>6, <2>7, <2>8 DEF IInv
<1>. QED  BY <1>1, <1>2

\* prepare keeps a checkpoint that a retry can start from.
LEMMA FinishBundleKeeps ==
  ASSUME IInv, FinishBundle, WorkOK', report = "ran" <=> work'.from = "arjun",
         RetriesCanStartHere(call, report) => input \in {"general", "monotone"}
  PROVE  IInv'
<1>1. CASE op = "prepare" /\ BuildRun
           /\ countStage1' = IF RetriesCanStartHere(call, report) THEN {input} ELSE {}
  <2>1. countStage1' = {} \/ (countStage1' = {input} /\ input \in {"general", "monotone"})
    BY <1>1
  <2>2. Cardinality({}) = 0 /\ Cardinality({input}) = 1  BY FS_EmptySet, FS_Singleton
  <2>3. CheckpointOK'  BY <2>1, <2>2 DEF CheckpointOK
  <2>. QED  BY <1>1, <2>3, BuildRunKeeps
<1>2. CASE op = "retry" /\ UNCHANGED countStage1
           /\ IF WorthBuilding THEN BuildRun ELSE Return("declined", "none")
  <2>1. CheckpointOK'  BY <1>2 DEF CheckpointOK, IInv, TypeOK
  <2>2. CASE WorthBuilding  BY <1>2, <2>1, <2>2, BuildRunKeeps DEF WorthBuilding
  <2>3. CASE ~WorthBuilding
    <3>1. "declined" \in Outcomes /\ "none" \in Trees  BY DEF Outcomes, Trees
    <3>. QED  BY <1>2, <2>1, <2>3, <3>1, ReturnKeeps
  <2>. QED  BY <2>2, <2>3
<1>. QED  BY <1>1, <1>2 DEF FinishBundle

-----------------------------------------------------------------------------
(***************************************************************************)
(* The calls of the session.                                               *)
(***************************************************************************)

\* A retry's deadline is the earlier of its own and the session's.
LEMMA RetryDeadlineBounds ==
  ASSUME TypeOK, NEW d \in RetryDeadlines
  PROVE  /\ RetryDeadline(d) \in 0 .. MaxNow
         /\ \A e \in config.deadline : RetryDeadline(d) <= e
<1>1. d \in 0 .. MaxNow /\ MaxNow \in Nat  BY SessionAssumption, ConstantFacts
<1>2. config \in Config  BY ConstantFacts DEF TypeOK
<1>3. CASE config.deadline = {}
  <2>1. {d} \cup config.deadline = {d}  BY <1>3
  <2>2. RetryDeadline(d) = d  BY <2>1, <1>1, MinOfOne DEF RetryDeadline
  <2>. QED  BY <2>2, <1>1, <1>3
<1>4. ASSUME NEW e \in 0 .. MaxNow, config.deadline = {e}
      PROVE  RetryDeadline(d) \in 0 .. MaxNow /\ \A x \in config.deadline : RetryDeadline(d) <= x
  <2>1. {d} \cup config.deadline = {d, e}  BY <1>4
  <2>2. d \in Int /\ e \in Int  BY <1>1
  <2>3. RetryDeadline(d) = Min({d, e})  BY <2>1 DEF RetryDeadline
  <2>4. RetryDeadline(d) \in {d, e} /\ RetryDeadline(d) <= e  BY <2>2, <2>3, MinOfTwo
  <2>. QED  BY <1>1, <1>4, <2>4
<1>. QED  BY <1>2, <1>3, <1>4, DeadlineIsOneOrNone

\* A retry runs under a configuration.
LEMMA RetryConfigIsOne ==
  ASSUME TypeOK, NEW o \in Overrides, NEW d \in RetryDeadlines, NEW b \in RetryBudgets
  PROVE  /\ RetryConfig(o, d, b) \in Config
         /\ RetryConfig(o, d, b).deadline = {RetryDeadline(d)}
         /\ RetryConfig(o, d, b).mode = config.mode
<1>. DEFINE skip == IF o.skipMonotone = {} THEN config.skipMonotone ELSE TRUE \in o.skipMonotone
            spec == IF o.spec = {} THEN config.spec ELSE CHOOSE x \in o.spec : TRUE
<1>1. config \in Config  BY ConstantFacts DEF TypeOK
<1>2. o.skipMonotone \in SUBSET BOOLEAN /\ o.spec \in SUBSET Specs
  BY SessionAssumption DEF Override
<1>3. b \in 0 .. MaxNow  BY SessionAssumption, ConstantFacts
<1>4. {RetryDeadline(d)} \in {{}} \cup {{e} : e \in 0 .. MaxNow}  BY RetryDeadlineBounds
<1>5. skip \in BOOLEAN
  <2>1. config.skipMonotone \in BOOLEAN  BY <1>1 DEF Config
  <2>2. CASE o.skipMonotone = {}  BY <2>1, <2>2
  <2>3. CASE o.skipMonotone # {}
    <3>1. skip = (TRUE \in o.skipMonotone)  BY <2>3, Zenon
    <3>2. (TRUE \in o.skipMonotone) \in BOOLEAN  OBVIOUS
    <3>. HIDE DEF skip
    <3>. QED  BY <3>1, <3>2, Zenon
  <2>. QED  BY <2>2, <2>3
<1>6. spec \in Specs  BY <1>1, <1>2 DEF Config
<1>7. RetryConfig(o, d, b) = [config EXCEPT !.deadline = {RetryDeadline(d)}, !.arjunBudget = b,
                                            !.skipMonotone = skip, !.spec = spec]
  BY DEF RetryConfig
<1>. HIDE DEF skip, spec
<1>. QED  BY <1>1, <1>3, <1>4, <1>5, <1>6, <1>7 DEF Config

\* A call that is answered at once changes nothing but the answer.
LEMMA AnsweredKeeps ==
  ASSUME IInv, NEW which \in {"prepare", "retry"}, NEW o \in {"error", "declined"},
         answer' = [NoAnswer EXCEPT !.op = which, !.outcome = o],
         UNCHANGED <<now, stageVars, config, prepared, countStage1, op, pc, work,
                     retries, buildLimit>>
  PROVE  IInv'
<1>. USE DEF stageVars, stageLocals, clocks, manner
<1>1. answer' \in [op : {"none", "prepare", "retry"}, outcome : Outcomes, vtree : Trees,
                   from : Origins, report : Reports] /\ answer'.outcome # "run"
  BY DEF NoAnswer, Outcomes, Trees, Origins, Reports
<1>2. UNCHANGED <<now, call, input, arjun, limit, begun, armed, forked, prompt, checkpoint,
                  stage2, reduction, report, config, prepared, countStage1, op, pc, work,
                  retries, buildLimit>>
  OBVIOUS
<1>3. TypeOK'  BY ZenonT(60), <1>1, <1>2 DEF IInv, TypeOK
<1>4. PhaseInv' /\ StageInv' /\ ClockInv' /\ BudgetInv'
  BY <1>2 DEF IInv, PhaseInv, StageInv, ClockInv, BudgetInv, KillDeadline
<1>5. RetryBringsReduction'  BY <1>1 DEF RetryBringsReduction
<1>. QED  BY <1>3, <1>4, <1>5 DEF IInv

LEMMA PrepareKeeps ==
  ASSUME IInv, Prepare
  PROVE  IInv'
<1>. USE DEF Prepare, stageLocals, clocks, manner
<1>1. TypeOK /\ call' = config /\ config \in Config /\ reduction = None
  BY ConstantFacts DEF IInv, TypeOK, StageInv
<1>2. answer' \in [op : {"none", "prepare", "retry"}, outcome : Outcomes, vtree : Trees,
                   from : Origins, report : Reports] /\ answer'.outcome # "run"
  BY DEF NoAnswer, Outcomes, Trees, Origins, Reports
<1>3. TypeOK'  BY <1>1, <1>2 DEF TypeOK, Reports
<1>4. arjun = "idle"  BY DEF IInv, StageInv
<1>5. PhaseInv' /\ StageInv' /\ ClockInv'
  BY <1>1, <1>4 DEF PhaseInv, StageInv, ClockInv, Running
<1>6. BudgetInv'
  <2>1. \A d \in config.deadline : d <= d
    BY <1>1, ConstantFacts, DeadlineIsOneOrNone
  <2>. QED  BY <1>1, <1>4, <2>1 DEF BudgetInv
<1>7. RetryBringsReduction'  BY <1>2 DEF RetryBringsReduction
<1>. QED  BY <1>3, <1>5, <1>6, <1>7 DEF IInv

LEMMA RetryKeeps ==
  ASSUME IInv, NEW o \in Overrides, NEW d \in RetryDeadlines, NEW b \in RetryBudgets,
         Retry(o, d, b)
  PROVE  IInv'
<1>. DEFINE c == RetryConfig(o, d, b)
<1>. USE DEF Retry, stageLocals, clocks, manner
<1>1. TypeOK /\ call' = c /\ reduction = None
  BY DEF IInv, StageInv
<1>2. c \in Config /\ c.deadline = {RetryDeadline(d)} /\ c.mode = config.mode
  BY <1>1, RetryConfigIsOne
<1>3. PICK shape \in countStage1 : work' = Work("simplify", shape) /\ input' = shape
  OBVIOUS
<1>4. shape \in {"general", "monotone"}  BY <1>1, <1>3 DEF TypeOK
<1>5. answer' \in [op : {"none", "prepare", "retry"}, outcome : Outcomes, vtree : Trees,
                   from : Origins, report : Reports] /\ answer'.outcome # "run"
  BY DEF NoAnswer, Outcomes, Trees, Origins, Reports
<1>6. work' \in [from : Origins, shape : Shapes] /\ work'.from = "simplify" /\ input' \in Shapes
  BY <1>3, <1>4 DEF Work, Origins, Shapes
<1>7. retries' \in 0 .. MaxRetries  BY <1>1, ConstantFacts DEF TypeOK
<1>. HIDE DEF c
<1>8. TypeOK'  BY <1>1, <1>2, <1>5, <1>6, <1>7 DEF TypeOK, Reports
<1>9. PhaseInv'  BY <1>3, <1>4, <1>6 DEF PhaseInv
<1>10. StageInv'  BY DEF StageInv, Running
<1>11. ClockInv'  BY DEF ClockInv, Running
<1>12. BudgetInv'
  <2>1. \A e \in config.deadline : RetryDeadline(d) <= e  BY <1>1, RetryDeadlineBounds
  <2>. QED  BY <1>1, <1>2, <2>1 DEF BudgetInv
<1>13. RetryBringsReduction'  BY <1>5 DEF RetryBringsReduction
<1>. QED  BY <1>8, <1>9, <1>10, <1>11, <1>12, <1>13 DEF IInv

-----------------------------------------------------------------------------
(***************************************************************************)
(* The chains.                                                             *)
(***************************************************************************)

\* A chain whose bundle is refuted, or that has no Arjun stage.
LEMMA SimplifiedIsFinalKeeps ==
  ASSUME IInv, SimplifiedIsFinal
  PROVE  IInv'
<1>1. work.from = "simplify" /\ report = "absent"
  BY DEF SimplifiedIsFinal, IInv, PhaseInv
<1>2. ~RetriesCanStartHere(call, report)  BY <1>1 DEF RetriesCanStartHere
<1>3. WorkOK' /\ FinishBundle /\ work' = work
  BY DEF SimplifiedIsFinal, WorkOK, IInv, TypeOK
<1>. QED  BY <1>1, <1>2, <1>3, FinishBundleKeeps

\* What the chain goes on with once its Arjun stage is done.
LEMMA AfterArjunFacts ==
  ASSUME IInv, pc = "arjun", arjun = "done"
  PROVE  /\ AfterArjun \in [from : Origins, shape : Shapes]
         /\ report = "ran" <=> AfterArjun.from = "arjun"
         /\ report = "ran" => Sound(reduction)
<1>1. TypeOK /\ work.from # "arjun" /\ (report = "ran" => Sound(reduction))
  BY DEF IInv, PhaseInv, StageInv
<1>2. CASE report = "ran"
  <2>1. reduction \in Reductions(call.mode)  BY <1>1, <1>2 DEF TypeOK, Sound, None
  <2>2. reduction.shape \in Shapes  BY <2>1 DEF Reductions, Reduction, Shapes
  <2>. QED  BY <1>1, <1>2, <2>2 DEF AfterArjun, Kept, Exported, Work, Origins
<1>3. CASE report # "ran"
  BY <1>1, <1>3 DEF AfterArjun, Kept, TypeOK
<1>. QED  BY <1>1, <1>2, <1>3

LEMMA FinishCountAttemptKeeps ==
  ASSUME IInv, FinishCountAttempt
  PROVE  IInv'
<1>1. pc = "arjun" /\ arjun = "done" /\ call.mode # "pmc" /\ work' = AfterArjun /\ FinishBundle
  BY DEF FinishCountAttempt
<1>2. WorkOK' /\ (report = "ran" <=> work'.from = "arjun")
  BY <1>1, AfterArjunFacts DEF WorkOK
<1>3. input \in Shapes /\ input # "refuted"
  BY <1>1 DEF IInv, TypeOK, PhaseInv
<1>4. report \in {"ran", "monotone"} => input # "empty"
  BY <1>1 DEF IInv, StageInv
<1>. QED  BY <1>1, <1>2, <1>3, <1>4, FinishBundleKeeps DEF RetriesCanStartHere, Shapes

LEMMA FinishProjectedArjunKeeps ==
  ASSUME IInv, FinishProjectedArjun
  PROVE  IInv'
<1>. USE DEF FinishProjectedArjun, stageLocals, clocks, manner
<1>1. work' \in [from : Origins, shape : Shapes] /\ (report = "ran" <=> work'.from = "arjun")
  BY AfterArjunFacts
<1>2. TypeOK'  BY <1>1 DEF IInv, TypeOK
<1>3. PhaseInv' /\ StageInv' /\ ClockInv'
  BY <1>1 DEF PhaseInv, StageInv, ClockInv, Running
<1>4. BudgetInv' /\ RetryBringsReduction'  BY DEF IInv, BudgetInv, RetryBringsReduction
<1>. QED  BY <1>2, <1>3, <1>4 DEF IInv

LEMMA ProjectionTailKeeps ==
  ASSUME IInv, ProjectionTail
  PROVE  IInv'
<1>1. /\ pc = "tail" /\ FinishBundle
      /\ \E shape \in IF call.keepSound \/ work.shape = "refuted"
                      THEN {work.shape} ELSE {work.shape, "empty", "refuted"} :
           work' = [work EXCEPT !.shape = shape]
  BY DEF ProjectionTail
<1>2. work \in [from : Origins, shape : Shapes] /\ (report = "ran" <=> work.from = "arjun")
      /\ call.mode = "pmc"
  BY <1>1 DEF IInv, TypeOK, PhaseInv
<1>3. work' \in [from : Origins, shape : Shapes] /\ work'.from = work.from
  BY <1>1, <1>2 DEF Shapes
<1>. QED  BY <1>1, <1>2, <1>3, FinishBundleKeeps DEF WorkOK, RetriesCanStartHere

\* The steps of a chain before its Arjun stage.
LEMMA EnteringKeeps ==
  ASSUME IInv, StartProjection \/ Simplify \/ StartCountArjun
  PROVE  IInv'
<1>. USE DEF stageLocals, clocks, manner
<1>1. CASE StartProjection
  <2>. USE <1>1 DEF StartProjection
  <2>1. PICK shape \in Shapes \ {"empty"} : work' = Work("input", shape) /\ input' = shape
    OBVIOUS
  <2>2. work' \in [from : Origins, shape : Shapes] /\ input' \in Shapes /\ work'.from = "input"
    BY <2>1 DEF Work, Origins
  <2>3. TypeOK'  BY <2>2 DEF IInv, TypeOK
  <2>4. PhaseInv' /\ StageInv' /\ ClockInv'
    BY <2>2 DEF IInv, PhaseInv, StageInv, ClockInv, Running
  <2>5. BudgetInv' /\ RetryBringsReduction'  BY DEF IInv, BudgetInv, RetryBringsReduction
  <2>. QED  BY <2>3, <2>4, <2>5 DEF IInv
<1>2. CASE Simplify
  <2>. USE <1>2 DEF Simplify
  <2>1. PICK shape \in Shapes : work' = Work("simplify", shape) /\ input' = shape
    OBVIOUS
  <2>2. /\ work' \in [from : Origins, shape : Shapes] /\ input' \in Shapes
        /\ work'.from = "simplify" /\ work'.shape = input'
    BY <2>1 DEF Work, Origins
  <2>3. TypeOK'  BY <2>2 DEF IInv, TypeOK
  <2>4. PhaseInv' /\ StageInv' /\ ClockInv'
    BY <2>2 DEF IInv, PhaseInv, StageInv, ClockInv, Running
  <2>5. BudgetInv' /\ RetryBringsReduction'
    BY DEF IInv, StageInv, BudgetInv, RetryBringsReduction
  <2>. QED  BY <2>3, <2>4, <2>5 DEF IInv
<1>3. CASE StartCountArjun
  <2>. USE <1>3 DEF StartCountArjun
  <2>0. /\ pc' = "arjun" /\ arjun' = "entry"
        /\ UNCHANGED <<now, call, input, limit, begun, armed, forked, prompt, checkpoint,
                       stage2, reduction, report, config, prepared, countStage1, op, work,
                       retries, buildLimit, answer>>
    OBVIOUS
  <2>1. TypeOK'  BY <2>0 DEF IInv, TypeOK
  <2>2. PhaseInv' /\ StageInv' /\ ClockInv'
    BY DEF IInv, PhaseInv, StageInv, ClockInv, Running
  <2>3. BudgetInv' /\ RetryBringsReduction'  BY DEF IInv, BudgetInv, RetryBringsReduction
  <2>. QED  BY <2>1, <2>2, <2>3 DEF IInv
<1>. QED  BY <1>1, <1>2, <1>3

\* The calls that end in an error, and construction.
LEMMA EndingKeeps ==
  ASSUME IInv, PreprocessRefuses \/ ArjunFailed \/ BuildEnds
  PROVE  IInv'
<1>1. WorkOK' /\ CheckpointOK' /\ work' = work
  BY DEF PreprocessRefuses, ArjunFailed, BuildEnds, IInv, TypeOK, WorkOK, CheckpointOK
<1>2. {"run", "error"} \subseteq Outcomes /\ {"built", "none"} \subseteq Trees
  BY DEF Outcomes, Trees
<1>3. CASE Return("error", "none")  BY <1>1, <1>2, <1>3, ReturnKeeps
<1>4. CASE pc = "build" /\ Return("run", "built")
  <2>1. (report = "ran" <=> work.from = "arjun") /\ (op = "retry" => report = "ran")
    BY <1>4 DEF IInv, PhaseInv
  <2>. QED  BY <1>1, <1>2, <1>4, <2>1, ReturnKeeps
<1>. QED  BY <1>3, <1>4 DEF PreprocessRefuses, ArjunFailed, BuildEnds

-----------------------------------------------------------------------------
(***************************************************************************)
(* The Arjun stage.                                                        *)
(***************************************************************************)

SessionStands ==
  UNCHANGED <<now, config, prepared, countStage1, op, pc, work, retries, buildLimit, answer>>

\* What a step of the stage leaves alone besides the session's own variables.
LEMMA StageFrame ==
  ASSUME IInv, SessionStands, call' = call, input' = input, arjun # "idle", arjun' # "idle",
         limit' \in Nat, armed' \in Nat, begun' \in 0 .. MaxNow,
         arjun' \in {"entry", "judge", "done", "error"} \cup Running,
         forked' \in BOOLEAN, prompt' \in BOOLEAN, stage2' \in BOOLEAN,
         checkpoint' \in {"input", "support", "reduced"},
         reduction' \in {None} \cup Reductions(call.mode), report' \in Reports
  PROVE  TypeOK' /\ PhaseInv' /\ RetryBringsReduction'
<1>1. pc = "arjun"  BY DEF IInv, StageInv
<1>2. TypeOK'  BY SMTT(20) DEF IInv, TypeOK, SessionStands
<1>3. PhaseInv'  BY <1>1 DEF IInv, PhaseInv, SessionStands
<1>4. RetryBringsReduction'  BY DEF IInv, RetryBringsReduction, SessionStands
<1>. QED  BY <1>2, <1>3, <1>4

\* A reduction is handed back: of the stage's own mode, or none.
LEMMA HandBackKeeps ==
  ASSUME IInv, arjun \in Running, NEW r \in {None} \cup Reductions(call.mode), HandBack(r),
         SessionStands
  PROVE  IInv'
<1>. USE DEF HandBack, clocks, manner
<1>0. arjun' = "judge" /\ reduction' = r
      /\ UNCHANGED <<call, input, limit, begun, armed, forked, prompt, checkpoint, stage2, report>>
  OBVIOUS
<1>1. TypeOK' /\ PhaseInv' /\ RetryBringsReduction'
  BY ZenonT(60), <1>0, StageFrame DEF IInv, TypeOK, Running
<1>2. StageInv'  BY <1>0 DEF IInv, StageInv, Running, SessionStands
<1>3. ClockInv'  BY <1>0 DEF ClockInv, Running
<1>4. BudgetInv'  BY <1>0 DEF IInv, BudgetInv, StageInv, Running, SessionStands
<1>. QED  BY <1>1, <1>2, <1>3, <1>4 DEF IInv

\* The types of the stage's clocks, with what arithmetic needs.
LEMMA ClockTypes ==
  ASSUME IInv
  PROVE  /\ now \in Nat /\ limit \in Nat /\ armed \in Nat /\ begun \in Nat
         /\ now \in 0 .. MaxNow /\ KillGrace \in Nat /\ CutGrace \in Nat
         /\ call \in Config /\ config \in Config
BY ConstantFacts DEF IInv, TypeOK

LEMMA StartStageKeeps ==
  ASSUME IInv, StartStage, SessionStands
  PROVE  IInv'
<1>. USE DEF StartStage
<1>0. /\ arjun = "entry" /\ arjun' = "load" /\ limit' = now + ArjunBudget(call) /\ armed' = limit'
      /\ ArjunSkipped(call, input) = {}
      /\ forked' \in BOOLEAN /\ prompt' \in BOOLEAN /\ checkpoint' = "input" /\ stage2' = FALSE
      /\ UNCHANGED <<call, input, begun, reduction, report>>
  OBVIOUS
<1>1. /\ ArjunBudget(call) \in Nat
      /\ \A d \in call.deadline : now + ArjunBudget(call) <= d \/ ArjunBudget(call) = 0
  BY ClockTypes, ConstantFacts, BudgetBounds
<1>2. limit' \in Nat /\ now <= limit'  BY <1>0, <1>1, ClockTypes
<1>3. TypeOK' /\ PhaseInv' /\ RetryBringsReduction'
  BY <1>0, <1>2, StageFrame DEF IInv, TypeOK, Running
<1>4. input # "empty"  BY <1>0 DEF ArjunSkipped
<1>5. StageInv'  BY <1>0, <1>4 DEF IInv, StageInv, Running, SessionStands
<1>6. ClockInv'
  <2>1. now' <= limit' + KillGrace  BY <1>2, ClockTypes DEF SessionStands
  <2>. QED  BY <1>0, <2>1 DEF ClockInv, Running, KillDeadline
<1>7. BudgetInv'
  <2>1. \A d \in call.deadline : limit' <= d \/ limit' <= now
    BY <1>0, <1>1, ClockTypes
  <2>. QED  BY <1>0, <2>1 DEF IInv, BudgetInv, StageInv, SessionStands
<1>. QED  BY <1>3, <1>5, <1>6, <1>7 DEF IInv

LEMMA StartStageOneKeeps ==
  ASSUME IInv, StartStageOne, SessionStands
  PROVE  IInv'
<1>. USE DEF StartStageOne, manner
<1>0. /\ arjun = "load" /\ now < limit /\ begun' = now /\ armed' = StageOneDeadline(now, limit)
      /\ arjun' = "stage1"
      /\ UNCHANGED <<call, input, limit, forked, prompt, checkpoint, stage2, reduction, report>>
  OBVIOUS
<1>1. armed' \in Nat  BY <1>0, ClockTypes, StageOneEndsEarlier
<1>2. TypeOK' /\ PhaseInv' /\ RetryBringsReduction'
  BY <1>0, <1>1, StageFrame DEF IInv, TypeOK, Running
<1>3. StageInv'  BY <1>0 DEF IInv, StageInv, Running, SessionStands
<1>4. ClockInv'
  BY <1>0 DEF IInv, ClockInv, Running, KillDeadline, SessionStands, StageOneDeadline
<1>5. BudgetInv'
  <2>1. \A d \in call.deadline : limit <= d
    BY <1>0, ClockTypes, DeadlineIsOneOrNone, ConstantFacts DEF IInv, BudgetInv
  <2>. QED  BY <1>0, <2>1 DEF IInv, BudgetInv, StageInv, SessionStands
<1>. QED  BY <1>2, <1>3, <1>4, <1>5 DEF IInv

LEMMA StageOneStallsKeeps ==
  ASSUME IInv, StageOneStalls, SessionStands
  PROVE  IInv'
<1>. USE DEF StageOneStalls, manner
<1>0. /\ arjun = "stage1" /\ armed' = limit /\ arjun' = "judge" /\ reduction' = None
      /\ UNCHANGED <<call, input, limit, begun, forked, prompt, checkpoint, stage2, report>>
  OBVIOUS
<1>1. TypeOK' /\ PhaseInv' /\ RetryBringsReduction'
  BY <1>0, StageFrame DEF IInv, TypeOK, Running
<1>2. StageInv'  BY <1>0 DEF IInv, StageInv, Running, SessionStands
<1>3. ClockInv'  BY <1>0 DEF ClockInv, Running
<1>4. BudgetInv'  BY <1>0 DEF IInv, BudgetInv, StageInv, Running, SessionStands
<1>. QED  BY <1>1, <1>2, <1>3, <1>4 DEF IInv

LEMMA StageOneEndsKeeps ==
  ASSUME IInv, StageOneEnds, SessionStands
  PROVE  IInv'
<1>. USE DEF StageOneEnds, manner, FullDeadline
<1>0. /\ arjun = "stage1" /\ armed' = limit /\ arjun' = "harvest" /\ checkpoint' = "support"
      /\ UNCHANGED <<call, input, limit, begun, forked, prompt, stage2, reduction, report>>
  OBVIOUS
<1>1. TypeOK' /\ PhaseInv' /\ RetryBringsReduction'
  BY <1>0, StageFrame DEF IInv, TypeOK, Running
<1>2. StageInv'  BY <1>0 DEF IInv, StageInv, Running, SessionStands
<1>3. ClockInv'
  BY <1>0 DEF IInv, ClockInv, Running, KillDeadline, SessionStands
<1>4. BudgetInv'  BY <1>0 DEF IInv, BudgetInv, StageInv, Running, SessionStands
<1>. QED  BY <1>1, <1>2, <1>3, <1>4 DEF IInv

LEMMA StartStageTwoKeeps ==
  ASSUME IInv, StartStageTwo, SessionStands
  PROVE  IInv'
<1>. USE DEF StartStageTwo, clocks, manner
<1>0. /\ arjun = "harvest"
      /\ UNCHANGED <<call, input, limit, begun, armed, forked, prompt, checkpoint,
                     reduction, report>>
      /\ IF TimeLeft(limit) > 0
           THEN arjun' = "stage2" /\ stage2' = TRUE
           ELSE arjun' = "classify" /\ stage2' = stage2
  OBVIOUS
<1>1. TypeOK' /\ PhaseInv' /\ RetryBringsReduction'
  <2>1. CASE TimeLeft(limit) > 0
    BY <1>0, <2>1, StageFrame DEF IInv, TypeOK, Running
  <2>2. CASE ~(TimeLeft(limit) > 0)
    BY <1>0, <2>2, StageFrame DEF IInv, TypeOK, Running
  <2>. QED  BY <2>1, <2>2
<1>2. StageInv'  BY <1>0 DEF IInv, StageInv, Running, SessionStands
<1>3. ClockInv'
  <2>1. prompt => now < limit /\ TimeLeft(limit) > 0
    <3>1. prompt => now < limit  BY <1>0 DEF IInv, ClockInv
    <3>2. now < limit => now + TimeLeft(limit) = limit  BY ClockTypes, TimeLeftBounds
    <3>3. TimeLeft(limit) \in Nat  BY ClockTypes, TimeLeftBounds
    <3>. QED  BY <3>1, <3>2, <3>3, ClockTypes
  <2>2. armed = limit /\ (forked => now <= KillDeadline)
    BY <1>0 DEF IInv, ClockInv, Running
  <2>3. prompt => now <= limit  BY <2>1, ClockTypes
  <2>. QED  BY <1>0, <2>1, <2>2, <2>3 DEF ClockInv, Running, KillDeadline, SessionStands
<1>4. BudgetInv'  BY <1>0 DEF IInv, BudgetInv, StageInv, Running, SessionStands
<1>. QED  BY <1>1, <1>2, <1>3, <1>4 DEF IInv

LEMMA StageTwoEndsKeeps ==
  ASSUME IInv, StageTwoEnds, SessionStands
  PROVE  IInv'
<1>. USE DEF StageTwoEnds, clocks, manner
<1>0. /\ arjun = "stage2" /\ arjun' = "classify" /\ checkpoint' \in {"support", "reduced"}
      /\ UNCHANGED <<call, input, limit, begun, armed, forked, prompt, stage2, reduction, report>>
  OBVIOUS
<1>1. TypeOK' /\ PhaseInv' /\ RetryBringsReduction'
  BY <1>0, StageFrame DEF IInv, TypeOK, Running
<1>2. StageInv'  BY <1>0 DEF IInv, StageInv, Running, SessionStands
<1>3. ClockInv'
  BY <1>0 DEF IInv, ClockInv, Running, KillDeadline, SessionStands
<1>4. BudgetInv'  BY <1>0 DEF IInv, BudgetInv, StageInv, Running, SessionStands
<1>. QED  BY <1>1, <1>2, <1>3, <1>4 DEF IInv

LEMMA ReducingKeeps ==
  ASSUME IInv, ReduceStep \/ Kill, SessionStands
  PROVE  IInv'
<1>1. CASE NothingToHandBack \/ Kill
  <2>1. arjun \in Running /\ HandBack(None)
    BY <1>1 DEF NothingToHandBack, Kill, Running
  <2>. QED  BY <2>1, HandBackKeeps
<1>2. CASE ReadBack
  <2>1. arjun \in Running  BY <1>2 DEF ReadBack, Running
  <2>2. \E r \in {None} \cup Reductions(call.mode) : HandBack(r)  BY <1>2 DEF ReadBack
  <2>. QED  BY <2>1, <2>2, HandBackKeeps
<1>. QED
  BY <1>1, <1>2, StartStageOneKeeps, StageOneStallsKeeps, StageOneEndsKeeps, StartStageTwoKeeps,
     StageTwoEndsKeeps DEF ReduceStep

\* A reduction that is said to have run is one that lost nothing.
LEMMA VerdictIsSound ==
  ASSUME NEW c, NEW r \in Reductions(c.mode)
  PROVE  /\ Verdict(c, r) \subseteq Reports \ {"monotone"}
         /\ "ran" \in Verdict(c, r) => Sound(r)
<1>1. r.given = TRUE /\ (c.mode # "wmc" => "lossy" \notin r.flaws)
  BY DEF Reductions, Reduction
<1>2. c.mode = "wmc" /\ "lossy" \in r.flaws => DiscardReason(c, r) = {"weightedUnusable"}
  BY DEF DiscardReason
<1>3. DiscardReason(c, r) \subseteq {"weightedUnusable", "notSmaller", "noProjectionGain"}
  BY DEF DiscardReason
<1>4. Verdict(c, r) \subseteq Reports \ {"monotone"}  BY <1>3 DEF Verdict, Reports
<1>5. ASSUME "ran" \in Verdict(c, r)
      PROVE  Sound(r)
  <2>1. "aliased" \notin r.flaws  BY <1>3, <1>5 DEF Verdict
  <2>2. ~(c.mode = "wmc" /\ "lossy" \in r.flaws)  BY <1>2, <1>5 DEF Verdict
  <2>. QED  BY <1>1, <2>1, <2>2 DEF Sound
<1>. QED  BY <1>4, <1>5

LEMMA StagingKeeps ==
  ASSUME IInv, StageStep, SessionStands
  PROVE  IInv'
<1>. USE DEF clocks, manner, stageLocals
<1>1. CASE SkipStage
  <2>0. /\ arjun = "entry" /\ arjun' = "done" /\ reduction' = None
        /\ report' \in ArjunSkipped(call, input)
        /\ UNCHANGED <<call, input, limit, begun, armed, forked, prompt, checkpoint, stage2>>
    BY <1>1 DEF SkipStage
  <2>1. /\ report' \in {"notRequested", "nothingToDo", "monotone"}
        /\ report' = "monotone" => input # "empty"
    BY <2>0 DEF ArjunSkipped
  <2>2. report' \in Reports  BY <2>1 DEF Reports
  <2>3. TypeOK' /\ PhaseInv' /\ RetryBringsReduction'
    BY <2>0, <2>2, StageFrame DEF IInv, TypeOK
  <2>4. StageInv'  BY <2>0, <2>1 DEF IInv, StageInv, Running, SessionStands
  <2>5. ClockInv'  BY <2>0 DEF ClockInv, Running
  <2>6. BudgetInv'  BY <2>0 DEF IInv, BudgetInv, StageInv, SessionStands
  <2>. QED  BY <2>3, <2>4, <2>5, <2>6 DEF IInv
<1>2. CASE RefuseEnvironment
  <2>0. /\ arjun = "entry" /\ arjun' = "error"
        /\ UNCHANGED <<call, input, limit, begun, armed, forked, prompt, checkpoint, stage2,
                       reduction, report>>
    BY <1>2 DEF RefuseEnvironment
  <2>1. TypeOK' /\ PhaseInv' /\ RetryBringsReduction'
    BY <2>0, StageFrame DEF IInv, TypeOK
  <2>2. StageInv'  BY <2>0 DEF IInv, StageInv, Running, SessionStands
  <2>3. ClockInv'  BY <2>0 DEF ClockInv, Running
  <2>4. BudgetInv'  BY <2>0 DEF IInv, BudgetInv, StageInv, SessionStands
  <2>. QED  BY <2>1, <2>2, <2>3, <2>4 DEF IInv
<1>3. CASE StartStage  BY <1>3, StartStageKeeps
<1>4. CASE Judge
  <2>0. /\ arjun = "judge" /\ arjun' = "done"
        /\ report' \in IF reduction.given THEN Verdict(call, reduction) ELSE {"gaveUp"}
        /\ UNCHANGED <<call, input, limit, begun, armed, forked, prompt, checkpoint, stage2,
                       reduction>>
    BY <1>4 DEF Judge
  <2>1. /\ report' \in Reports \ {"monotone"}
        /\ report' = "ran" => Sound(reduction)
    <3>1. CASE reduction.given
      <4>1. reduction \in Reductions(call.mode)
        BY <3>1 DEF IInv, TypeOK, None
      <4>. QED  BY <2>0, <3>1, <4>1, VerdictIsSound
    <3>2. CASE ~reduction.given  BY <2>0, <3>2 DEF Reports
    <3>. QED  BY <3>1, <3>2
  <2>2. input # "empty"  BY <2>0 DEF IInv, StageInv
  <2>3. TypeOK' /\ PhaseInv' /\ RetryBringsReduction'
    BY <2>0, <2>1, StageFrame DEF IInv, TypeOK
  <2>4. StageInv'  BY <2>0, <2>1, <2>2 DEF IInv, StageInv, Running, Sound, SessionStands
  <2>5. ClockInv'  BY <2>0 DEF ClockInv, Running
  <2>6. BudgetInv'  BY <2>0 DEF IInv, BudgetInv, StageInv, SessionStands
  <2>. QED  BY <2>3, <2>4, <2>5, <2>6 DEF IInv
<1>. QED  BY <1>1, <1>2, <1>3, <1>4 DEF StageStep

-----------------------------------------------------------------------------
(***************************************************************************)
(* Every step.                                                             *)
(***************************************************************************)

Frozen ==
  UNCHANGED <<call, input, arjun, limit, begun, armed, forked, prompt, checkpoint, stage2,
              reduction, report, config, prepared, countStage1, op, pc, work, retries,
              buildLimit, answer>>

\* Time passes where the stage may wait.
LEMMA TickKeeps ==
  ASSUME IInv, Tick
  PROVE  IInv'
<1>0. now' = now + 1 /\ Frozen
  BY DEF Tick, Frozen, stageVars, stageLocals, clocks, manner, sessionVars
<1>. USE DEF Frozen
<1>1. now' \in 0 .. MaxNow
  BY <1>0, ClockTypes, ConstantFacts DEF Tick
<1>2. TypeOK'
  <2>1. TypeOK /\ Frozen  BY <1>0 DEF IInv
  <2>2. /\ call' \in Config /\ reduction' \in {None} \cup Reductions(call'.mode)
        /\ config' \in Configs
        /\ buildLimit' \in {{}} \cup {{d} : d \in 0 .. MaxNow + Max({ShareFloor, Units})}
    BY <2>1 DEF TypeOK
  <2>3. /\ answer' \in [op : {"none", "prepare", "retry"}, outcome : Outcomes, vtree : Trees,
                        from : Origins, report : Reports]
        /\ work' \in [from : Origins, shape : Shapes]
        /\ countStage1' \in SUBSET {"general", "monotone"} /\ Cardinality(countStage1') <= 1
    BY <2>1 DEF TypeOK
  <2>4. /\ limit' \in Nat /\ begun' \in 0 .. MaxNow /\ armed' \in Nat
        /\ retries' \in 0 .. MaxRetries
    BY <2>1 DEF TypeOK
  <2>. HIDE DEF Frozen
  <2>5. /\ input' \in Shapes
        /\ arjun' \in {"idle", "entry", "judge", "done", "error"} \cup Running
        /\ forked' \in BOOLEAN /\ prompt' \in BOOLEAN /\ stage2' \in BOOLEAN
        /\ checkpoint' \in {"input", "support", "reduced"} /\ report' \in Reports
        /\ prepared' \in BOOLEAN /\ op' \in {"none", "prepare", "retry"}
        /\ pc' \in {"idle", "preprocess", "simplified", "arjun", "tail", "build"}
    BY <2>1 DEF TypeOK, Frozen
  <2>. QED  BY <1>1, <2>2, <2>3, <2>4, <2>5 DEF TypeOK
<1>3. PhaseInv' /\ StageInv' /\ RetryBringsReduction'
  BY <1>0 DEF IInv, PhaseInv, StageInv, RetryBringsReduction
<1>4. arjun \in Running => ArjunMayWait
  <2>1. arjun \in Running => pc = "arjun"  BY DEF IInv, StageInv, Running
  <2>. QED  BY <2>1 DEF Tick
<1>5. ClockInv'
  <2>1. forked /\ arjun \in Running => now < KillDeadline
    BY <1>4, ClockTypes DEF ArjunMayWait, KillDeadline
  <2>2. prompt /\ arjun \in Running => /\ arjun \in {"stage1", "stage2"}
                                       /\ now < armed
    BY <1>4 DEF ArjunMayWait, Running
  <2>3. arjun = "stage1" => armed < limit
    BY ClockTypes, StageOneEndsEarlier DEF IInv, ClockInv
  <2>4. arjun = "stage2" => armed = limit /\ (prompt => stage2)  BY DEF IInv, ClockInv
  <2>5. forked /\ arjun \in Running => now' <= KillDeadline
    BY <1>0, <2>1, ClockTypes DEF KillDeadline
  <2>6. prompt /\ arjun = "stage1" => now' < limit
    BY <1>0, <2>2, <2>3, ClockTypes DEF Running
  <2>7. prompt /\ arjun = "stage2" => now' <= limit
    BY <1>0, <2>2, <2>4, ClockTypes DEF Running
  <2>8. prompt => arjun \notin {"harvest", "classify"}  BY <2>2 DEF Running
  <2>. QED  BY <1>0, <2>4, <2>5, <2>6, <2>7, <2>8 DEF IInv, ClockInv, KillDeadline, Running,
                                                     StageOneDeadline
<1>6. BudgetInv'
  <2>1. \A d \in call.deadline : limit <= d \/ limit <= now => limit <= d \/ limit <= now'
    BY <1>0, ClockTypes
  <2>. QED  BY <1>0, <2>1 DEF IInv, BudgetInv
<1>. QED  BY <1>2, <1>3, <1>5, <1>6 DEF IInv

LEMMA InitInv == Init => IInv
<1>. SUFFICES ASSUME Init PROVE IInv  OBVIOUS
<1>. USE DEF Init
<1>1. config \in Config /\ config \in Configs  BY ConstantFacts
<1>2. countStage1 = {} /\ Cardinality({}) = 0  BY FS_EmptySet
<1>3. TypeOK
  <2>1. /\ now \in 0 .. MaxNow /\ begun \in 0 .. MaxNow /\ limit \in Nat /\ armed \in Nat
        /\ retries \in 0 .. MaxRetries
    BY ConstantFacts
  <2>2. input \in Shapes /\ report \in Reports  BY DEF Shapes, Reports
  <2>3. work \in [from : Origins, shape : Shapes]  BY DEF Work, Origins, Shapes
  <2>4. answer \in [op : {"none", "prepare", "retry"}, outcome : Outcomes, vtree : Trees,
                    from : Origins, report : Reports]
    BY DEF NoAnswer, Outcomes, Trees, Origins, Reports
  <2>5. Cardinality(countStage1) <= 1 /\ countStage1 \in SUBSET {"general", "monotone"}
    BY <1>2
  <2>. QED  BY <1>1, <2>1, <2>2, <2>3, <2>4, <2>5 DEF TypeOK
<1>4. PhaseInv /\ StageInv /\ ClockInv  BY DEF PhaseInv, StageInv, ClockInv, Running
<1>5. BudgetInv
  <2>1. \A d \in config.deadline : d <= d
    BY <1>1, ConstantFacts, DeadlineIsOneOrNone
  <2>. QED  BY <2>1 DEF BudgetInv
<1>6. RetryBringsReduction  BY DEF RetryBringsReduction, NoAnswer
<1>. QED  BY <1>3, <1>4, <1>5, <1>6 DEF IInv

LEMMA NextInv == IInv /\ [Next]_vars => IInv'
<1>. SUFFICES ASSUME IInv, [Next]_vars PROVE IInv'  OBVIOUS
<1>1. CASE Calling
  <2>1. CASE Prepare  BY <2>1, PrepareKeeps
  <2>2. CASE PrepareRefused
    BY <2>2, AnsweredKeeps DEF PrepareRefused
  <2>3. ASSUME NEW o \in Overrides, RetryRefused(o)
        PROVE  IInv'
    BY <2>3, AnsweredKeeps DEF RetryRefused, RetryAnswers
  <2>4. ASSUME NEW o \in Overrides, NEW d \in RetryDeadlines, RetryDeclined(o, d)
        PROVE  IInv'
    BY <2>4, AnsweredKeeps DEF RetryDeclined, RetryAnswers
  <2>5. ASSUME NEW o \in Overrides, NEW d \in RetryDeadlines, NEW b \in RetryBudgets,
               Retry(o, d, b)
        PROVE  IInv'
    BY <2>5, RetryKeeps
  <2>. QED  BY <1>1, <2>1, <2>2, <2>3, <2>4, <2>5 DEF Calling
<1>2. CASE Chaining
  BY <1>2, EndingKeeps, EnteringKeeps, SimplifiedIsFinalKeeps, FinishCountAttemptKeeps,
     FinishProjectedArjunKeeps, ProjectionTailKeeps DEF Chaining
<1>3. CASE Staging \/ Reducing \/ Killing
  <2>1. SessionStands  BY <1>3 DEF Staging, Reducing, Killing, SessionStands, sessionVars
  <2>. QED  BY <1>3, <2>1, StagingKeeps, ReducingKeeps DEF Staging, Reducing, Killing
<1>4. CASE Tick  BY <1>4, TickKeeps
<1>5. CASE UNCHANGED vars
  <2>0. Frozen /\ now' = now
    BY <1>5 DEF vars, Frozen, stageVars, stageLocals, clocks, manner, sessionVars
  <2>1. TypeOK'  BY SMTT(20), <2>0 DEF IInv, TypeOK, Frozen
  <2>2. PhaseInv' /\ StageInv' /\ RetryBringsReduction'
    BY <2>0 DEF IInv, PhaseInv, StageInv, RetryBringsReduction, Frozen
  <2>3. ClockInv'
    BY <2>0 DEF IInv, ClockInv, KillDeadline, StageOneDeadline, Running, Frozen
  <2>4. BudgetInv'  BY <2>0 DEF IInv, BudgetInv, Frozen
  <2>. QED  BY <2>1, <2>2, <2>3, <2>4 DEF IInv
<1>. QED  BY <1>1, <1>2, <1>3, <1>4, <1>5 DEF Next

LEMMA Invariance == Spec => []IInv
BY InitInv, NextInv, PTL DEF Spec

-----------------------------------------------------------------------------
(***************************************************************************)
(* The properties.                                                         *)
(***************************************************************************)

\* ReductionsAreUsed (session.rs, stage.rs): what was reduced in time is used
\* and reported as what it is, for every split of the budget between the stages.
THEOREM ReductionsReachTheRun == Spec => []ReductionsAreUsed
<1>1. IInv => ReductionsAreUsed
  <2>. SUFFICES ASSUME IInv PROVE ReductionsAreUsed  OBVIOUS
  <2>1. PromptArjunIsKept
    <3>. SUFFICES ASSUME prompt, arjun = "classify" PROVE stage2 /\ KeepAfterDeadline(call)
      BY DEF PromptArjunIsKept
    <3>1. now <= limit /\ stage2  BY DEF IInv, ClockInv
    <3>2. now <= limit + CutGrace  BY <3>1, ClockTypes
    <3>. QED  BY <3>1, <3>2 DEF KeepAfterDeadline
  <2>. QED  BY <2>1 DEF IInv, ReductionsAreUsed
<1>. QED  BY <1>1, Invariance, PTL

\* DeadlineHonoured (stage.rs, session.rs): no reduction that polls or can be
\* killed runs past the call's or the session's deadline by more than the kill
\* grace, and construction is given no later deadline.
THEOREM DeadlinesAreHonoured == Spec => []DeadlineHonoured
<1>1. IInv => DeadlineHonoured
  <2>. SUFFICES ASSUME IInv PROVE DeadlineHonoured  OBVIOUS
  <2>. DEFINE Deadlines == call.deadline \cup config.deadline
  <2>1. \A d \in call.deadline : d \in Nat
    BY ClockTypes, DeadlineIsOneOrNone, ConstantFacts
  <2>2. \A d \in config.deadline : d \in Nat /\ \E e \in call.deadline : e <= d
    BY ClockTypes, DeadlineIsOneOrNone, ConstantFacts DEF IInv, BudgetInv
  <2>3. ASSUME arjun \in {"stage1", "harvest", "stage2", "classify"}, forked \/ prompt,
               NEW d \in Deadlines
        PROVE  now <= d + KillGrace
    <3>1. \A e \in call.deadline : limit <= e  BY <2>3 DEF IInv, BudgetInv
    <3>2. limit <= d /\ d \in Nat  BY <2>1, <2>2, <3>1, ClockTypes
    <3>3. now <= limit + KillGrace
      <4>1. forked => now <= limit + KillGrace
        BY <2>3 DEF IInv, ClockInv, Running, KillDeadline
      <4>2. prompt => now <= limit
        BY <2>3, ClockTypes DEF IInv, ClockInv
      <4>. QED  BY <2>3, <4>1, <4>2, ClockTypes
    <3>. QED  BY <3>2, <3>3, ClockTypes
  <2>4. ASSUME pc = "build", call.construction # "units"
        PROVE  /\ call.deadline # {} => buildLimit # {}
               /\ \A l \in buildLimit : \A d \in Deadlines : l <= d
    <3>1. /\ call.deadline # {} => buildLimit # {}
          /\ \A l \in buildLimit : \A d \in call.deadline : l <= d
      BY <2>4 DEF IInv, BudgetInv
    <3>2. \A l \in buildLimit : l \in Int
      BY ConstantFacts DEF IInv, TypeOK
    <3>3. ASSUME NEW l \in buildLimit, NEW d \in config.deadline
          PROVE  l <= d
      <4>1. PICK e \in call.deadline : e <= d  BY <2>2
      <4>2. e \in Nat /\ d \in Nat /\ l \in Int /\ l <= e  BY <2>1, <2>2, <3>1, <3>2
      <4>. QED  BY <4>1, <4>2
    <3>. QED  BY <3>1, <3>3
  <2>. QED  BY <2>3, <2>4 DEF DeadlineHonoured
<1>. QED  BY <1>1, Invariance, PTL

\* SoundExport (stage.rs): no policy that keeps a reduction of poor quality
\* makes a run go on with one whose variable map or weight is wrong.
THEOREM ExportsAreSound == Spec => SoundExport
<1>. DEFINE Exports == work'.from = "arjun" /\ work.from # "arjun" =>
                         reduction.given /\ reduction.flaws \cap {"aliased", "lossy"} = {}
<1>1. IInv /\ [Next]_vars => [Exports]_vars
  <2>. SUFFICES ASSUME IInv, Next, work'.from = "arjun", work.from # "arjun" PROVE Sound(reduction)
    BY DEF Sound
  <2>1. CASE Calling
    BY <2>1 DEF Calling, Prepare, PrepareRefused, RetryRefused, RetryDeclined, RetryAnswers, Retry,
                Work
  <2>2. CASE Chaining
    <3>1. work' # work  OBVIOUS
    <3>2. FinishCountAttempt \/ FinishProjectedArjun \/ ProjectionTail \/ StartProjection \/ Simplify
      BY <2>2, <3>1 DEF Chaining, PreprocessRefuses, SimplifiedIsFinal, StartCountArjun,
                        ArjunFailed, BuildEnds
    <3>3. CASE FinishCountAttempt \/ FinishProjectedArjun
      <4>1. pc = "arjun" /\ arjun = "done" /\ work' = AfterArjun
        BY <3>3 DEF FinishCountAttempt, FinishProjectedArjun
      <4>. QED  BY <4>1, AfterArjunFacts
    <3>4. CASE ProjectionTail
      <4>1. work \in [from : Origins, shape : Shapes]  BY DEF IInv, TypeOK
      <4>2. work'.from = work.from  BY <3>4, <4>1 DEF ProjectionTail
      <4>. QED  BY <4>2
    <3>5. CASE StartProjection \/ Simplify
      BY <3>5 DEF StartProjection, Simplify, Work
    <3>. QED  BY <3>2, <3>3, <3>4, <3>5
  <2>3. CASE Staging \/ Reducing \/ Killing \/ Tick
    BY <2>3 DEF Staging, Reducing, Killing, Tick, sessionVars
  <2>. QED  BY <2>1, <2>2, <2>3 DEF Next
<1>. QED  BY <1>1, Invariance, PTL DEF Spec, SoundExport
=============================================================================

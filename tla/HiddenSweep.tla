---------------------------- MODULE HiddenSweep ----------------------------
(***************************************************************************)
(* Which hidden variables are functions of the shown ones                  *)
(* (classify_hidden_defined_by_show of src/src/projection.rs): one query   *)
(* per variable, on two copies of the formula that agree on what is shown. *)
(* The solver answers, or runs into its limit; the clock may end the sweep *)
(* between two queries.                                                    *)
(***************************************************************************)
EXTENDS Cnf, SequencesExt

VARIABLES
  sweep,     \* program counter
  asked,     \* the variables to classify, each once
  absent,    \* those of them in no clause
  ordered,   \* the others, those still to probe
  found      \* the classification: defined, notDefined, unknown

sweepVars == <<sweep, asked, absent, ordered, found>>
Unclassified == [defined |-> <<>>, notDefined |-> <<>>, unknown |-> <<>>]

\* validate_and_collect_hidden: a repeated variable counts once.
FirstOnly(vs) ==
  FoldLeft(LAMBDA q, v : IF v \in ToSet(q) THEN q ELSE Append(q, v), <<>>, vs)

Incidence(cs, v) == Len(SelectSeq(cs, LAMBDA c : v \in c \/ -v \in c))
ProbedFirst(cs, v, w) ==
  \/ Incidence(cs, v) > Incidence(cs, w)
  \/ Incidence(cs, v) = Incidence(cs, w) /\ v > w
ByIncidence(cs, S) == SetToSortSeq(S, LAMBDA v, w : ProbedFirst(cs, v, w))

Begin(cs, vs) ==
  LET F == ToSet(cs)
      hidden == FirstOnly(vs)
      trivial == hidden = <<>> \/ cs = <<>> \/ {} \in F
  IN  /\ sweep = "idle"
      /\ asked' = hidden
      /\ absent' = SelectSeq(hidden, LAMBDA v : v \notin Appearing(F))
      /\ ordered' = ByIncidence(cs, ToSet(hidden) \cap Appearing(F))
      /\ sweep' = IF trivial THEN "swept" ELSE "setup"
      /\ found' = CASE hidden = <<>> \/ cs = <<>> -> [Unclassified EXCEPT !.notDefined = hidden]
                    [] hidden # <<>> /\ {} \in F -> [Unclassified EXCEPT !.defined = hidden]
                    [] OTHER -> Unclassified

Unsettled(f, vs) == [f EXCEPT !.unknown = @ \o vs]

\* No time left, or the two copies are too large to build.
GiveUp ==
  /\ \/ sweep = "setup" /\ found' = Unsettled(found, absent \o ordered)
     \/ sweep = "probe" /\ ordered # <<>> /\ found' = Unsettled(found, ordered)
  /\ sweep' = "swept"
  /\ UNCHANGED <<asked, absent, ordered>>

SkipBase ==
  /\ sweep = "setup" /\ absent = <<>>
  /\ sweep' = "probe"
  /\ UNCHANGED <<asked, absent, ordered, found>>

\* Mutant: an absent variable is called free whether or not there is a model.
BugFreeAnyway(F) == {"sat", "unknown"}

\* What the solver may answer when asked for a model at all.
BaseAnswers(F) == {"unknown"} \cup IF Models(F, Vars) = {} THEN {"unsat"} ELSE {"sat"}

ResolveAbsent(F) ==
  /\ sweep = "setup" /\ absent # <<>>
  /\ \E answer \in BaseAnswers(F) :
       /\ sweep' = IF answer = "unsat" THEN "swept" ELSE "probe"
       /\ found' = CASE answer = "unsat" -> [found EXCEPT !.defined = asked]
                     [] answer = "sat" -> [found EXCEPT !.notDefined = @ \o absent]
                     [] OTHER -> Unsettled(found, absent)
  /\ UNCHANGED <<asked, absent, ordered>>

\* Two models agree on the shown variables that appear, and differ on v.
Differ(F, S, v) ==
  \E T, U \in Models(F, Vars) :
    /\ v \in T /\ v \notin U
    /\ T \cap S \cap Appearing(F) = U \cap S \cap Appearing(F)

\* Mutant: the other hidden variables have to agree as well.
BugAllAgree(F, S, v) ==
  \E T, U \in Models(F, Vars) : v \in T /\ v \notin U /\ T \ {v} = U

Undetermined(F, S, v) == Differ(F, S, v)

Probe(F, S) ==
  /\ sweep = "probe" /\ ordered # <<>>
  /\ LET v == Head(ordered)
     IN  \/ Undetermined(F, S, v) /\ found' = [found EXCEPT !.notDefined = Append(@, v)]
         \/ ~Undetermined(F, S, v) /\ found' = [found EXCEPT !.defined = Append(@, v)]
         \/ found' = Unsettled(found, <<v>>)
  /\ ordered' = Tail(ordered)
  /\ UNCHANGED <<sweep, asked, absent>>

Swept ==
  /\ sweep = "probe" /\ ordered = <<>>
  /\ sweep' = "swept"
  /\ UNCHANGED <<asked, absent, ordered, found>>

SweepStep(F, S) == GiveUp \/ SkipBase \/ ResolveAbsent(F) \/ Probe(F, S) \/ Swept

-----------------------------------------------------------------------------
\* What the answer promises: every variable asked for is in one list, once; a
\* defined one takes one value in all the models that agree on what is shown,
\* and one that is not defined takes two.
Sound(F, S) ==
  sweep = "swept" =>
    /\ LET lists == found.defined \o found.notDefined \o found.unknown
       IN  Len(lists) = Len(asked) /\ ToSet(lists) = ToSet(asked)
    /\ \A v \in ToSet(asked) :
         LET two == \E T, U \in Models(F, Vars) : v \in T /\ v \notin U /\ T \cap S = U \cap S
         IN  /\ v \in ToSet(found.defined) => ~two
             /\ v \in ToSet(found.notDefined) => two

=============================================================================

-------------------------- MODULE ComponentBuild --------------------------
(***************************************************************************)
(* Per-component vtree construction (src/src/component/): split a formula  *)
(* into its independent components, build a vtree for each under one       *)
(* shared deadline, reuse the tree of a component seen before, and graft   *)
(* the trees into one.                                                     *)
(*                                                                         *)
(* A clause is a set of literals, a formula the sequence of its clauses.   *)
(* A vtree is the sequence of its leaves, left to right: its shape is      *)
(* carried along by every step.  A component's build is a portfolio build  *)
(* as CandidateBuild promises it: a tree over the component's variables or *)
(* a failure, after some ticks of the construction clock.                  *)
(***************************************************************************)
EXTENDS Components

CONSTANTS
  Requests,             \* records [clauses, show, deadline, structural, whole]
  TinyMax,              \* TINY_COMPONENT_MAX_VARS
  MaxWork,              \* ticks a build without a deadline takes at most
  MaxOverrun            \* ticks a build can outlive its deadline

ASSUME ComponentAssumption ==
  /\ TinyMax \in Nat /\ MaxWork \in Nat /\ MaxOverrun \in Nat \ {0}
  /\ None \notin Nat /\ \A S \in SUBSET Vars : S # None
  /\ \A r \in Requests :
       /\ r.clauses \in Seq(SUBSET Lits) /\ r.show \in {None} \cup SUBSET Vars
       /\ r.deadline \in Nat \cup {None}
       /\ r.structural \in BOOLEAN /\ r.whole \in BOOLEAN

VARIABLES
  phase,                \* "splitting", "building", "grafted", "failed", "panicked"
  req,                  \* what is built over
  comps,                \* [clauses, view] of each component, in build order
  now,                  \* the construction clock
  clausesLeft,          \* clauses of the components not yet started
  cache,                \* component keys to trees in canonical numbering
  vtrees,               \* one record per component built or reused
  limits,               \* the summed report: builds complete and truncated
  grafted               \* the whole formula's tree

vars == <<phase, req, comps, now, clausesLeft, cache, vtrees, limits, grafted>>

-----------------------------------------------------------------------------
(***************************************************************************)
(* The canonical form of a component.                                      *)
(***************************************************************************)

IsTiny(view) == view.size <= TinyMax

\* Mutant: the key leaves the show set out for every component.
BugKeyWithoutShow(view, to) ==
  [size |-> view.size, show |-> None,
   clauses |-> [d \in {Renamed(c, to) : c \in DOMAIN view.clauses} |->
                  view.clauses[CHOOSE c \in DOMAIN view.clauses : Renamed(c, to) = d]]]

\* The component under a canonical numbering `to' of its variables: minfill
\* ignores the show set, so a tiny component's key does.
Key(view, to) ==
  [size |-> view.size,
   show |-> IF view.show = None \/ IsTiny(view) THEN None ELSE {to[v] : v \in view.show},
   clauses |-> [d \in {Renamed(c, to) : c \in DOMAIN view.clauses} |->
                  view.clauses[CHOOSE c \in DOMAIN view.clauses : Renamed(c, to) = d]]]

\* Mutant: canonical numbers start at zero, as ranks do.
BugFromZero(view) ==
  {[v \in 1 .. view.size |-> (v - 1 + k) % view.size] : k \in 0 .. view.size - 1}

\* Colour refinement only decides which numbering is taken, and nothing rests
\* on the choice: any rotation of the local numbering is allowed.
Numberings(view) ==
  {[v \in 1 .. view.size |-> 1 + ((v - 1 + k) % view.size)] : k \in 0 .. view.size - 1}

\* Mutant: the cached tree is renamed the way it was stored.
BugForthForBack(tree, to) == [i \in DOMAIN tree |-> to[tree[i]]]

\* A cached tree in the local numbering: canonical_to_local.
ToLocal(tree, to) == [i \in DOMAIN tree |-> CHOOSE v \in DOMAIN to : to[v] = tree[i]]

ToCanonical(tree, to) == [i \in DOMAIN tree |-> to[tree[i]]]

-----------------------------------------------------------------------------
Init ==
  /\ phase = "splitting"
  /\ req \in Requests
  /\ comps = <<>> /\ vtrees = <<>> /\ grafted = <<>>
  /\ now = 0
  /\ clausesLeft = Len(req.clauses)
  /\ cache = [k \in {} |-> <<>>]
  /\ limits = [complete |-> 0, truncated |-> 0]

\* A spec that reads the graph, unless the caller opted out.
Split ==
  /\ phase = "splitting"
  /\ ~req.whole /\ req.structural
  /\ LET found == DetectComponents(req.clauses)
     IN  /\ found # <<>>
         /\ comps' = [i \in DOMAIN found |-> [clauses |-> found[i], view |-> LocalView(req, found[i])]]
  /\ phase' = "building"
  /\ UNCHANGED <<req, now, clausesLeft, cache, vtrees, limits, grafted>>

\* Two trees tell a leaf order from its reverse.
Trees(n) == {[i \in 1 .. n |-> i], [i \in 1 .. n |-> n + 1 - i]}

LeftUntil(deadline) == IF deadline > now THEN deadline - now ELSE 0

\* What a build under the deadline may take, and whether it was cut short.
BuildTimes(deadline) ==
  IF deadline = None THEN (0 .. MaxWork) \X {FALSE}
  ELSE {b \in (0 .. LeftUntil(deadline) + MaxOverrun) \X BOOLEAN : b[1] < LeftUntil(deadline) => ~b[2]}

Counted(truncated) ==
  IF truncated THEN [limits EXCEPT !.truncated = @ + 1] ELSE [limits EXCEPT !.complete = @ + 1]

\* One tree over the whole formula, from the requested spec.
BuildWhole ==
  /\ phase = "splitting"
  /\ req.whole \/ ~req.structural \/ DetectComponents(req.clauses) = <<>>
  /\ \E b \in BuildTimes(req.deadline) :
       /\ now' = now + b[1]
       /\ limits' = IF req.structural THEN Counted(b[2]) ELSE limits
  /\ \/ phase' = "grafted" /\ grafted' \in Trees(NumVars)
     \/ phase' = "failed" /\ UNCHANGED grafted
  /\ UNCHANGED <<req, comps, clausesLeft, cache, vtrees>>

\* Mutant: the share is taken of the clauses there were at the start.
BugShareOfAll(weight) ==
  IF req.deadline = None THEN None
  ELSE req.deadline - (LeftUntil(req.deadline)
                         - (LeftUntil(req.deadline) * weight) \div Len(req.clauses))

\* pro_rata_deadline, counted back from the shared deadline.
ComponentDeadline(weight) ==
  IF req.deadline = None THEN None
  ELSE req.deadline - (LeftUntil(req.deadline)
                         - (LeftUntil(req.deadline) * weight) \div (IF clausesLeft = 0 THEN 1 ELSE clausesLeft))

Here == comps[Len(vtrees) + 1].clauses
ViewHere == comps[Len(vtrees) + 1].view

\* Takes the component's share of the clauses and adds its tree.
Takes(tree, reused, deadline) ==
  /\ clausesLeft' = clausesLeft - Cardinality(Here)
  /\ vtrees' = Append(vtrees, [tree |-> tree, view |-> ViewHere, reused |-> reused,
                               from |-> now, deadline |-> deadline])
  /\ UNCHANGED <<phase, req, comps, grafted>>

Buildable == phase = "building" /\ Len(vtrees) < Len(comps)

\* A component seen before, up to a renaming, has its tree renamed.
Reuse(key, to) ==
  /\ key \in DOMAIN cache
  /\ UNCHANGED <<now, cache, limits>>
  /\ Takes(ToLocal(cache[key], to), TRUE, None)

\* The cache with the tree of one more component.
Cached(key, tree) == [k \in DOMAIN cache \cup {key} |-> IF k = key THEN tree ELSE cache[k]]

\* minfill takes no deadline and does not fail.
BuildTiny(key, to) ==
  /\ key \notin DOMAIN cache
  /\ IsTiny(ViewHere) /\ ViewHere.size > 0
  /\ \E tree \in Trees(ViewHere.size) :
       /\ now' \in now .. now + MaxOverrun
       /\ cache' = Cached(key, ToCanonical(tree, to))
       /\ UNCHANGED limits
       /\ Takes(tree, FALSE, None)

BuildComponent(key, to) ==
  /\ key \notin DOMAIN cache
  /\ ~IsTiny(ViewHere)
  /\ LET deadline == ComponentDeadline(Cardinality(Here))
     IN  \E b \in BuildTimes(deadline), tree \in Trees(ViewHere.size) :
           /\ now' = now + b[1]
           /\ cache' = Cached(key, ToCanonical(tree, to))
           /\ limits' = Counted(b[2])
           /\ Takes(tree, FALSE, deadline)

\* One failed construction fails the build.
ComponentFails(key) ==
  /\ key \notin DOMAIN cache
  /\ ~IsTiny(ViewHere)
  /\ phase' = "failed"
  /\ \E b \in BuildTimes(ComponentDeadline(Cardinality(Here))) : now' = now + b[1]
  /\ UNCHANGED <<req, comps, clausesLeft, cache, vtrees, limits, grafted>>

BuildNext ==
  /\ Buildable
  /\ \E to \in Numberings(ViewHere) :
       LET key == Key(ViewHere, to)
       IN  Reuse(key, to) \/ BuildTiny(key, to) \/ BuildComponent(key, to) \/ ComponentFails(key)

\* The variables no component mentions.
FreeVars == Vars \ UNION {ToSet(vtrees[i].view.outer) : i \in DOMAIN vtrees}

\* Mutant: a tree is grafted without its map to the outer variables.
BugGraftsLocal(v) == v.tree

\* A component's tree over the outer variables.
Outer(v) == [i \in DOMAIN v.tree |-> v.view.outer[v.tree[i]]]

\* Component trees in order, then a leaf per free variable.
Graft ==
  /\ phase = "building" /\ Len(vtrees) = Len(comps)
  /\ phase' = "grafted"
  /\ grafted' = FlattenSeq([i \in DOMAIN vtrees |-> Outer(vtrees[i])]) \o Ascending(FreeVars, <)
  /\ UNCHANGED <<req, comps, now, clausesLeft, cache, vtrees, limits>>

\* The clauses without a variable are a component of no variable, and the
\* constructors require a leaf.
EmptyPanics ==
  /\ Buildable
  /\ ViewHere.size = 0
  /\ phase' = "panicked"
  /\ UNCHANGED <<req, comps, now, clausesLeft, cache, vtrees, limits, grafted>>

Returned == phase \in {"grafted", "failed", "panicked"} /\ UNCHANGED vars

Next == Split \/ BuildWhole \/ BuildNext \/ EmptyPanics \/ Graft \/ Returned

Spec == Init /\ [][Next]_vars

-----------------------------------------------------------------------------
(***************************************************************************)
(* Properties.                                                             *)
(***************************************************************************)
\* The tree of a finished build has exactly one leaf per variable of the
\* formula (assert_one_leaf_per_var: a panic if it did not).
OneLeafPerVariable ==
  phase = "grafted" => Len(grafted) = NumVars /\ ToSet(grafted) = Vars

\* A set of clauses that shares no variable with the other clauses of C.
Detached(clauses, D, C) == VarsOf(clauses, D) \cap VarsOf(clauses, C \ D) = {}

\* The components a build works on partition the clauses, share no variable,
\* and cannot be split further (detect_components_in).
SplitIsIndependent ==
  LET group(i) == comps[i].clauses
  IN  comps # <<>> =>
        /\ UNION {group(i) : i \in DOMAIN comps} = DOMAIN req.clauses
        /\ \A i, j \in DOMAIN comps :
             i # j => group(i) \cap group(j) = {} /\ Detached(req.clauses, group(i), DOMAIN req.clauses)
        /\ \A i \in DOMAIN comps :
             comps[i].view.size > 0 =>
               \A D \in (SUBSET group(i)) \ {{}, group(i)} : ~Detached(req.clauses, D, group(i))

Renamings(n) == {p \in [1 .. n -> 1 .. n] : IsInjective(p)}

\* Is f an isomorphism from the component a onto b, as builds see them?
Isomorphism(f, a, b) ==
  /\ DOMAIN b.clauses = {Renamed(c, f) : c \in DOMAIN a.clauses}
  /\ \A c \in DOMAIN a.clauses : b.clauses[Renamed(c, f)] = a.clauses[c]
  /\ ~IsTiny(a) => b.show = (IF a.show = None THEN None ELSE {f[v] : v \in a.show})

\* A reused tree is what some build of this run made of a component that is
\* the same up to a renaming of its variables, show set included, under that
\* renaming (build_or_reuse_component_artifacts).
ReusedTreesFit ==
  \A i \in DOMAIN vtrees :
    vtrees[i].reused =>
      \E j \in 1 .. i - 1 :
        /\ ~vtrees[j].reused
        /\ vtrees[j].view.size = vtrees[i].view.size
        /\ \E f \in Renamings(vtrees[i].view.size) :
             /\ Isomorphism(f, vtrees[j].view, vtrees[i].view)
             /\ vtrees[i].tree = [k \in DOMAIN vtrees[j].tree |-> f[vtrees[j].tree[k]]]

\* A cached tree has each of the component's canonical variables once.
CachedTreesAreWhole ==
  \A k \in DOMAIN cache : Len(cache[k]) = k.size /\ ToSet(cache[k]) = 1 .. k.size

\* The trees of a build fit what they stand for: the cached ones their canonical
\* component, the reused ones the component they are reused for, and the
\* grafted one the whole formula.
TreesFit == CachedTreesAreWhole /\ ReusedTreesFit /\ OneLeafPerVariable

WeightOf(i) == Cardinality(comps[i].clauses)
TotalWeight == Len(req.clauses)

\* As long as no build outlives its own deadline, every component starts with
\* at least its share of the whole budget by clauses, the last one can use
\* all that is left, and no deadline is later than the shared one
\* (take_component_deadline, pro_rata_deadline).
NoComponentStarves ==
  \A i \in DOMAIN vtrees :
    vtrees[i].deadline # None =>
      /\ vtrees[i].deadline <= req.deadline
      /\ i = Len(comps) => vtrees[i].deadline = req.deadline
      /\ (\A j \in 1 .. i - 1 :
            /\ vtrees[j].deadline = None => vtrees[j + 1].from = vtrees[j].from
            /\ vtrees[j].deadline # None => vtrees[j + 1].from <= vtrees[j].deadline)
         => vtrees[i].deadline - vtrees[i].from >= (req.deadline * WeightOf(i)) \div TotalWeight
=============================================================================

------------------------------- MODULE Bundle -------------------------------
(***************************************************************************)
(* The files of a run (src/src/bundle/export.rs, bundle/components/): the  *)
(* checks that a build belongs to the formula it is written beside, the    *)
(* files in the order they are written, and the manifest that indexes      *)
(* them.                                                                   *)
(*                                                                         *)
(* A run is [clauses, show, tree, comps, cands, dot]: the reduced formula  *)
(* with its show set; the leaves of the whole vtree, None for a run that   *)
(* built none; None or the sequence of its components, each [clauses,      *)
(* tree, map]; how many candidates each component retains; and whether     *)
(* pictures are wanted.                                                    *)
(***************************************************************************)
EXTENDS Components

Parts == [clauses : Seq(Nat), tree : Seq(Nat), map : Seq(Nat)]

-----------------------------------------------------------------------------
(***************************************************************************)
(* Does the build belong to the formula?                                   *)
(***************************************************************************)

\* check_leaf_space, with the leaf count that is compared before it.
SpansExactly(tree, count) == Len(tree) = count /\ ToSet(tree) = 1 .. count

ClaimedBy(run, i) == VarsOf(run.clauses, ToSet(run.comps[i].clauses))

\* Mutant: two components may claim one variable.
BugClaimTwice(run) ==
  \A i \in DOMAIN run.comps : ToSet(run.comps[i].clauses) \subseteq DOMAIN run.clauses

\* claim_component_clauses: clauses that exist, no variable claimed twice.
ClaimsHold(run) ==
  /\ \A i \in DOMAIN run.comps : ToSet(run.comps[i].clauses) \subseteq DOMAIN run.clauses
  /\ \A i, j \in DOMAIN run.comps : i # j => ClaimedBy(run, i) \cap ClaimedBy(run, j) = {}

\* The component's tree and map are of the variables its clauses cut out.
ComponentFits(run, i) ==
  LET outer == LocalToOuter(run.clauses, ToSet(run.comps[i].clauses))
  IN  SpansExactly(run.comps[i].tree, Len(outer)) /\ run.comps[i].map = outer

\* check_build_belongs.
Belongs(run) ==
  /\ SpansExactly(run.tree, NumVars)
  /\ run.comps # None => ClaimsHold(run) /\ \A i \in DOMAIN run.comps : ComponentFits(run, i)

-----------------------------------------------------------------------------
(***************************************************************************)
(* The manifest.                                                           *)
(***************************************************************************)
View(run, C) == LocalView([clauses |-> run.clauses, show |-> run.show], C)

\* A formula that was not split is one component of all its clauses.
Cuts(run) ==
  IF run.comps = None THEN <<DOMAIN run.clauses>>
  ELSE [i \in DOMAIN run.comps |-> ToSet(run.comps[i].clauses)]

\* The files one entry names.
CnfOf(run, i) == IF run.comps = None THEN <<"reduced.cnf">> ELSE <<"cnf", i>>
VtreeOf(run, i) == IF run.comps = None THEN <<"vtree.vtree">> ELSE <<"vtree", i>>

\* Mutant: the selected tree is numbered among the runners-up.
BugCopiesRankZero(run, i, rank) == <<"candidate", i, rank>>

\* Rank 0 is the selected vtree, which is there already.
CandidateFile(run, i, rank) == IF rank = 0 THEN VtreeOf(run, i) ELSE <<"candidate", i, rank>>

\* Mutant: whatever no clause mentions is free, whoever else claims it.
BugFreeByFirst(run) == Vars \ VarsOf(run.clauses, Cuts(run)[1])

\* unclaimed_vars.
Unclaimed(run) == Vars \ UNION {VarsOf(run.clauses, Cuts(run)[i]) : i \in DOMAIN Cuts(run)}

\* build_component_entry.
Entry(run, i) ==
  LET view == View(run, Cuts(run)[i])
  IN  [map |-> view.outer, show |-> view.show,
       cnf |-> CnfOf(run, i), vtree |-> VtreeOf(run, i),
       candidates |-> [k \in 1 .. run.cands[i] |-> CandidateFile(run, i, k - 1)]]

Manifest(run) == [free |-> Unclaimed(run), entries |-> [i \in DOMAIN Cuts(run) |-> Entry(run, i)]]

\* manifest_matches_vtree: the ids named are those of the leaves, each once.
ManifestMatches(m, leaves) ==
  LET ids == FlattenSeq([i \in DOMAIN m.entries |-> m.entries[i].map])
  IN  /\ IsInjective(ids)
      /\ ToSet(ids) \cap m.free = {}
      /\ ToSet(ids) \cup m.free = 1 .. leaves

-----------------------------------------------------------------------------
(***************************************************************************)
(* What is written, in order.                                              *)
(***************************************************************************)
Root == ""
MakeDir(d) == [op |-> "dir", at |-> d, file |-> <<>>]
Write(d, f) == [op |-> "file", at |-> d, file |-> f]
Check == [op |-> "check", at |-> Root, file |-> <<>>]

\* write_vtree_files: a vtree and the picture beside it.
VtreeFiles(run, d, f) ==
  <<Write(d, f)>> \o (IF run.dot THEN <<Write(d, <<"dot">> \o f)>> ELSE <<>>)

\* write_candidate_set: the runners-up, the directory only when there is one.
CandidateOps(run, i) ==
  IF run.cands[i] <= 1 THEN <<>>
  ELSE <<MakeDir("candidates")>>
         \o FlattenSeq([k \in 1 .. run.cands[i] - 1 |->
                          VtreeFiles(run, "candidates", CandidateFile(run, i, k))])

\* ComponentBatch::write_one.
ComponentOps(run, i) ==
  <<Write("components", CnfOf(run, i))>>
    \o VtreeFiles(run, "components", VtreeOf(run, i)) \o CandidateOps(run, i)

ManifestOps == <<MakeDir(Root), Write(Root, <<"components.json">>)>>

\* write_components_to.
SplitOps(run) ==
  (IF run.comps = None THEN CandidateOps(run, 1)
   ELSE <<MakeDir("components")>> \o FlattenSeq([i \in DOMAIN run.comps |-> ComponentOps(run, i)]))
  \o ManifestOps

\* PreprocessBundle::write_to.
BundleOps == <<MakeDir(Root), Write(Root, <<"reduced.cnf">>), Write(Root, <<"preprocess.json">>)>>

\* Mutant: the build is checked once its vtree is written.
BugChecksLate(run) ==
  <<MakeDir(Root)>> \o VtreeFiles(run, Root, <<"vtree.vtree">>) \o <<Check>> \o SplitOps(run)

\* VtreeBuild::write_to.
BuildOps(run) ==
  <<Check, MakeDir(Root)>> \o VtreeFiles(run, Root, <<"vtree.vtree">>) \o SplitOps(run)

\* VitriRun::write_to.
RunOps(run) == BundleOps \o (IF run.tree = None THEN <<>> ELSE BuildOps(run))

\* to_files: the same writers into memory, where there is nothing to create.
Files(run) ==
  LET ops == RunOps(run)
  IN  FlattenSeq([k \in DOMAIN ops |-> IF ops[k].op = "file" THEN <<ops[k]>> ELSE <<>>])
Renders(run) == IF run.tree = None THEN TRUE ELSE Belongs(run)

\* write_files: each file's directory, then the file.
FilesOps(run) ==
  FlattenSeq([k \in DOMAIN Files(run) |-> <<MakeDir(Files(run)[k].at), Files(run)[k]>>])

\* The four ways to a directory: a whole run, either half, the files in memory.
Entries == {"run", "bundle", "build", "files"}
Ops(run, entry) ==
  CASE entry = "run" -> RunOps(run)
    [] entry = "bundle" -> BundleOps
    [] entry = "build" -> BuildOps(run)
    [] entry = "files" -> FilesOps(run)

-----------------------------------------------------------------------------
(***************************************************************************)
(* Reading a bundle: how the counts compose (components/mod.rs).           *)
(***************************************************************************)
Counted(clauses, size, show) ==
  Cardinality({T \cap (IF show = None THEN 1 .. size ELSE show) : T \in Models(clauses, 1 .. size)})

CountOf(run) == Counted(ToSet(run.clauses), NumVars, run.show)

ShownOf(S, run) == IF run.show = None THEN S ELSE S \cap run.show

ProductOf(s) == FoldLeft(LAMBDA a, x : a * x, 1, s)

\* The file an entry names, as a counter reads it: the clauses, the variables
\* it declares and its own show line.
CnfFile(run, i) ==
  IF run.comps = None
  THEN [clauses |-> ToSet(run.clauses), size |-> NumVars, show |-> run.show]
  ELSE LET view == View(run, Cuts(run)[i])
       IN  [clauses |-> DOMAIN view.clauses, size |-> view.size, show |-> view.show]

EntryCount(run, i) ==
  LET file == CnfFile(run, i) IN Counted(file.clauses, file.size, file.show)

\* The count of an entry's clauses over the variables its map names.
PartCount(run, i) ==
  LET view == View(run, Cuts(run)[i])
  IN  Counted(DOMAIN view.clauses, view.size, Manifest(run).entries[i].show)

\* The variables the named files declare: reduced.cnf declares all of them.
Declared(run) ==
  IF run.comps = None THEN Vars
  ELSE UNION {ToSet(Manifest(run).entries[i].map) : i \in DOMAIN Cuts(run)}

\* count(reduced) = 2^|free, shown| times the counts of the entries' clauses
\* over the variables their maps name; and 2^|free, shown, in no named file|
\* times the counts of the files the entries name.  For a split run the two are
\* the rule of the module's documentation.  A formula that was not split has one
\* entry, for reduced.cnf, which declares the free variables too: there the rule
\* as documented has them twice.
Composes(run) ==
  LET free == Manifest(run).free
      compose(left, counts) == CountOf(run) = 2 ^ Cardinality(ShownOf(left, run)) * ProductOf(counts)
  IN  /\ compose(free, [i \in DOMAIN Cuts(run) |-> PartCount(run, i)])
      /\ compose(free \ Declared(run), [i \in DOMAIN Cuts(run) |-> EntryCount(run, i)])

=============================================================================

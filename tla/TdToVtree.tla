------------------------------ MODULE TdToVtree ------------------------------
(***************************************************************************)
(* Reading a vtree off a tree decomposition                                *)
(* (src/src/decompose/td_to_vtree/): root the decomposition, give every    *)
(* variable one of the bags that hold it, and build bottom-up, each bag    *)
(* joining its children's subtrees and its own leaves.  A decomposition is *)
(* a sequence of bags (sets of vertices) and each bag's neighbours in      *)
(* order; vertex v is variable v, and the vertices past the variables name *)
(* clauses.  A subtree is an arena whose last node is its root.            *)
(***************************************************************************)
EXTENDS Rooting, VtreeArena

CONSTANT Partition(_, _)    \* the multilevel partitioner: a side, 0 or 1, of n items

Treewidth(td) == Max({Cardinality(td.bags[b]) : b \in BagsOf(td)}) - 1

\* The index of the greatest entry of a sequence of keys, the last of them.
LastMost(keys) ==
  CHOOSE i \in DOMAIN keys : \A j \in DOMAIN keys : keys[j] < keys[i] \/ (keys[j] = keys[i] /\ i >= j)

-----------------------------------------------------------------------------
(***************************************************************************)
(* One bag for each variable.                                              *)
(***************************************************************************)

\* primal_adjacency over the variables 1 .. n.
Primal(F, n) ==
  [v \in 1 .. n |->
     {u \in (1 .. n) \ {v} : \E i \in DOMAIN F : {u, v} \subseteq {IF l > 0 THEN l ELSE -l : l \in F[i]}}]

\* The deepest bag that holds v: the last in the walk, and among its equals in
\* depth the one with most clause partners.
DeepBag(td, n, f, near, v) ==
  LET holding == SelectSeq(f.order, LAMBDA b : v \in td.bags[b])
      depth == f.depth[holding[Len(holding)]]
      level == SelectSeq(holding, LAMBDA b : f.depth[b] = depth)
  IN  level[LastMost([i \in DOMAIN level |->
                        Cardinality(near[v] \cap td.bags[level[i]] \cap 1 .. n)])]

\* The shallowest, the lowest in number among equals.
ShallowBag(td, f, v) ==
  LET holding == SelectSeq([b \in BagsOf(td) |-> b], LAMBDA b : v \in td.bags[b])
  IN  holding[FirstLeast([i \in DOMAIN holding |-> f.depth[holding[i]]])]

\* assign_var_bags.
VarBags(td, n, f, place, near) ==
  [v \in 1 .. n |->
     IF \A b \in BagsOf(td) : v \notin td.bags[b] THEN NoBag
     ELSE IF place = "deep" THEN DeepBag(td, n, f, near, v) ELSE ShallowBag(td, f, v)]

\* Mutant: the ranks follow the walk down.
BugRanksDown(order, b) == (CHOOSE i \in DOMAIN order : order[i] = b) - 1

BagRank(order, b) == Len(order) - (CHOOSE i \in DOMAIN order : order[i] = b)

\* BagMetadata::from_assignment.
Metadata(td, f, bagOf) ==
  [varBag |-> bagOf, rank |-> [b \in BagsOf(td) |-> BagRank(f.order, b)], treewidth |-> Treewidth(td)]

-----------------------------------------------------------------------------
(***************************************************************************)
(* Joining a bag's items.                                                  *)
(***************************************************************************)
\* HyperedgeSource::hyperedges: for each clause the items it touches, if two.
Hyperedges(F, items) ==
  LET vars(c) == {IF l > 0 THEN l ELSE -l : l \in c}
      pins(c) == {i \in DOMAIN items : items[i].vars \cap vars(c) # {}}
  IN  SelectSeq([i \in DOMAIN F |-> pins(F[i])], LAMBDA e : Cardinality(e) > 1)

Side(items, keep) ==
  LET at == SelectSeq([i \in DOMAIN items |-> i], LAMBDA i : i \in keep) IN [k \in DOMAIN at |-> items[at[k]]]

Degenerate(items, right) == right \in {{}, DOMAIN items}

\* The items the partitioner puts on the right, none if no clause joins two.
RightOf(items, edges) ==
  IF edges = <<>> THEN {} ELSE LET part == Partition(Len(items), edges) IN {i \in DOMAIN items : part[i] # 0}

\* bisect_members.
RECURSIVE Bisected(_, _)
Bisected(F, items) ==
  LET right == RightOf(items, Hyperedges(F, items))
  IN  IF Len(items) <= 3 \/ Degenerate(items, right)
      THEN Balanced([i \in DOMAIN items |-> items[i].arena])
      ELSE Joined(Bisected(F, Side(items, DOMAIN items \ right)), Bisected(F, Side(items, right)))

\* greedy_gain_bisect over the children of C, in order: half of them move right,
\* each time the one whose move cuts least, the first among equals.
GreedyRight(C, weight) ==
  LET at == SetToSortSeq(C, <)
      gain(right, i) == MapThenSumSet(LAMBDA j : IF j = i THEN 0 ELSE IF j \in right THEN weight[i, j]
                                                 ELSE -weight[i, j], C)
      moved(right) ==
        LET left == SelectSeq(at, LAMBDA i : i \notin right)
        IN  right \cup {left[FirstLeast([k \in DOMAIN left |-> -gain(right, left[k])])]}
  IN  FoldLeft(LAMBDA right, k : moved(right), {}, [k \in 1 .. Cardinality(C) \div 2 |-> k])

\* Where a leaf goes when the children are cut in two.
LeafSide(usesLeft, usesRight, leftPartners, rightPartners) ==
  CASE usesLeft /\ usesRight -> "above"
    [] usesLeft /\ ~usesRight -> "left"
    [] usesRight /\ ~usesLeft -> "right"
    [] OTHER -> IF rightPartners > leftPartners THEN "right" ELSE "left"

\* build_edge_aligned over the children of C and the leaves of L, where uses[i]
\* are the variables below child i and near the clause partners of each leaf.
RECURSIVE EdgeAligned(_, _, _, _, _, _)
EdgeAligned(children, own, near, C, L, uses) ==
  LET leaves == [k \in DOMAIN L |-> <<Leaf(L[k])>>]
      shared == [i, j \in C |-> Cardinality({v \in own : v \in uses[i] \cap uses[j]})]
      right == GreedyRight(C, shared)
      left == C \ right
      partners(v, S) == MapThenSumSet(LAMBDA i : Cardinality(near[v] \cap uses[i]), S)
      side(v) == LeafSide(\E i \in left : v \in uses[i], \E i \in right : v \in uses[i],
                          partners(v, left), partners(v, right))
      to(where) == SelectSeq(L, LAMBDA v : side(v) = where)
      only == CHOOSE i \in C : TRUE
  IN  IF C = {} THEN Balanced(leaves)
      ELSE IF Cardinality(C) = 1
      THEN IF L = <<>> THEN children[only] ELSE Joined(Balanced(leaves), children[only])
      ELSE FoldLeft(LAMBDA node, v : Joined(<<Leaf(v)>>, node),
                    Joined(EdgeAligned(children, own, near, left, to("left"), uses),
                            EdgeAligned(children, own, near, right, to("right"), uses)),
                    to("above"))

-----------------------------------------------------------------------------
(***************************************************************************)
(* The conversion.                                                         *)
(***************************************************************************)

\* combine_bag: the children with a subtree, then the bag's own leaves in order.
Combined(kids, own, binarize, F, near, scored) ==
  LET leaves == [k \in DOMAIN own |-> [arena |-> <<Leaf(own[k])>>, vars |-> {own[k]}, seen |-> {own[k]}]]
      items == kids \o leaves
  IN  CASE scored /\ binarize = "hypergraph" -> Bisected(F, items)
        [] scored /\ binarize = "edge" ->
             EdgeAligned([i \in DOMAIN kids |-> kids[i].arena], ToSet(own), near, DOMAIN kids, own,
                         [i \in DOMAIN kids |-> kids[i].seen])
        [] OTHER -> Balanced([i \in DOMAIN items |-> items[i].arena])

NoSubtree == [arena |-> <<>>, vars |-> {}, seen |-> {}]

\* build_bag_subtrees, in the walk's reverse order.
BagSubtrees(td, n, f, bagOf, binarize, F, near, scored) ==
  LET at(b, built) ==
        LET kids == SelectSeq([k \in DOMAIN td.adj[b] |->
                                 IF td.adj[b][k] = f.parent[b] THEN NoSubtree ELSE built[td.adj[b][k]]],
                              LAMBDA s : s.arena # <<>>)
            own == SelectSeq([v \in 1 .. n |-> v], LAMBDA v : bagOf[v] = b)
        IN  IF kids = <<>> /\ own = <<>> THEN NoSubtree
            ELSE [arena |-> Combined(kids, own, binarize, F, near, scored),
                  vars |-> UNION {kids[i].vars : i \in DOMAIN kids} \cup ToSet(own),
                  seen |-> UNION {kids[i].seen : i \in DOMAIN kids} \cup (td.bags[b] \cap 1 .. n)]
  IN  FoldLeft(LAMBDA built, b : [built EXCEPT ![b] = at(b, built)],
               [b \in BagsOf(td) |-> NoSubtree], Reverse(f.order))

\* The variables no bag holds become leaves beside the components' roots.
Unbagged(bagOf, n) == SelectSeq([v \in 1 .. n |-> v], LAMBDA v : bagOf[v] = NoBag)

\* The components' subtrees and the lone leaves under one root.
Assembled(roots, lone) ==
  Balanced(SelectSeq(roots, LAMBDA a : a # <<>>) \o [i \in DOMAIN lone |-> <<Leaf(lone[i])>>])

Grown(arena) == FromNodes(arena, Len(arena))

\* Converter::build: the tree of one reading and the metadata of its assignment.
ReadFrom(td, n, f, bagOf, built) ==
  [tree |-> Grown(Assembled([i \in DOMAIN f.roots |-> built[f.roots[i]].arena], Unbagged(bagOf, n))),
   meta |-> Metadata(td, f, bagOf)]

ReadWith(td, n, F, scored, reading, f, near) ==
  LET bagOf == VarBags(td, n, f, reading.place, near)
  IN  ReadFrom(td, n, f, bagOf, BagSubtrees(td, n, f, bagOf, reading.binarize, F, near, scored))

Converted(td, n, F, scored, reading) ==
  ReadWith(td, n, F, scored, reading, Forest(td, RootBags(td, reading.root)),
           IF scored THEN Primal(F, n) ELSE [v \in 1 .. n |-> {}])

-----------------------------------------------------------------------------
(***************************************************************************)
(* Bisecting a formula's variables top down (src/src/decompose/bisect.rs). *)
(***************************************************************************)

\* minfill_subtree: a decomposition of the local graph, converted unscored, its
\* leaves renamed.  The elimination is external: every variable in one bag.
ArenaOf(t) == [i \in DOMAIN t.left |-> IF t.left[i] = 0 THEN Leaf(t.var[i]) ELSE Join(t.left[i], t.right[i])]

MinfillSubtree(vars) ==
  Grafted(<<>>,
          ArenaOf(Converted([bags |-> <<1 .. Len(vars)>>, adj |-> <<<<>>>>], Len(vars), <<>>, FALSE,
                            [root |-> AtFirst, place |-> "shallow", binarize |-> "balanced"]).tree),
          vars)

\* bisect_recursive_generic, over the clause hypergraph; a subset of at most cutoff
\* variables, or one that will not split and is of at most unsplit, is eliminated,
\* and a longer one that will not split is halved.
RECURSIVE TopDown(_, _, _, _)
RECURSIVE CutAt(_, _, _, _, _)
CutAt(vars, F, cutoff, unsplit, right) ==
  IF right \in {{}, DOMAIN vars}
  THEN IF Len(vars) <= unsplit THEN MinfillSubtree(vars)
       ELSE CutAt(vars, F, cutoff, unsplit, DOMAIN vars \ (1 .. Len(vars) \div 2))
  ELSE Joined(TopDown(Side(vars, DOMAIN vars \ right), F, cutoff, unsplit),
              TopDown(Side(vars, right), F, cutoff, unsplit))

TopDown(vars, F, cutoff, unsplit) ==
  LET items == [i \in DOMAIN vars |-> [arena |-> <<Leaf(vars[i])>>, vars |-> {vars[i]}]]
  IN  IF Len(vars) <= 2 THEN Balanced([i \in DOMAIN vars |-> items[i].arena])
      ELSE IF Len(vars) <= cutoff THEN MinfillSubtree(vars)
      ELSE CutAt(vars, F, cutoff, unsplit, RightOf(items, Hyperedges(F, items)))

=============================================================================

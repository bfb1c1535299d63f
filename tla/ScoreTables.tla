----------------------------- MODULE ScoreTables -----------------------------
(***************************************************************************)
(* The per-node tables every score of a vtree is a reduction of            *)
(* (src/src/score/): each is filled by walks that stop early - at a stamp, *)
(* at an interval, at a meeting point - and stands for a count over sets   *)
(* of variables and clauses.  t is a tree with the variable of each leaf;  *)
(* F a sequence of clauses, each a set of literals.                        *)
(***************************************************************************)
EXTENDS Integers, SequencesExt, FiniteSetsExt

LOCAL VarOf(l) == IF l > 0 THEN l ELSE -l
VarsOf(c) == {VarOf(l) : l \in c}
NodesOf(t) == DOMAIN t.left
IsLeaf(t, n) == t.left[n] = 0
LeafOf(t, v) == CHOOSE n \in NodesOf(t) : IsLeaf(t, n) /\ t.var[n] = v
TreeVars(t) == {t.var[n] : n \in {m \in NodesOf(t) : IsLeaf(t, m)}}
UpwardOrder(t) == [i \in NodesOf(t) |-> CHOOSE n \in NodesOf(t) : t.pos[n] = i]

-----------------------------------------------------------------------------
(***************************************************************************)
(* The layout: a preorder numbering, and where each clause's leaves meet.  *)
(***************************************************************************)
RECURSIVE Preorder(_, _)
Preorder(t, n) ==
  IF IsLeaf(t, n) THEN <<n>> ELSE <<n>> \o Preorder(t, t.left[n]) \o Preorder(t, t.right[n])

RootNode(t) == CHOOSE n \in NodesOf(t) : t.parent[n] = 0

\* subtree_intervals.
Intervals(t) ==
  LET walk == Preorder(t, RootNode(t))
  IN  [entry |-> [n \in NodesOf(t) |-> CHOOSE i \in DOMAIN walk : walk[i] = n],
       exit |-> [n \in NodesOf(t) |->
                   (CHOOSE i \in DOMAIN walk : walk[i] = n) + Len(Preorder(t, n))]]

\* Layout::holds.
Spans(span, n, at) == span.entry[n] <= at /\ at < span.exit[n]

RECURSIVE ClimbTo(_, _, _, _)
ClimbTo(t, span, n, high) == IF span.exit[n] <= high THEN ClimbTo(t, span, t.parent[n], high) ELSE n

\* Mutant: the walk stops where the last leaf is the first node past the interval.
BugMeetsEarly(t, span, c) ==
  LET leaves == {LeafOf(t, v) : v \in VarsOf(c)}
      low == CHOOSE n \in leaves : \A m \in leaves : span.entry[n] <= span.entry[m]
  IN  IF c = {} THEN 0 ELSE ClimbTo(t, span, low, Max({span.entry[n] : n \in leaves}) - 1)

\* meeting_point: up from the first leaf until the last one is inside.
MeetingPoint(t, span, c) ==
  LET leaves == {LeafOf(t, v) : v \in VarsOf(c)}
      low == CHOOSE n \in leaves : \A m \in leaves : span.entry[n] <= span.entry[m]
  IN  IF c = {} THEN 0 ELSE ClimbTo(t, span, low, Max({span.entry[n] : n \in leaves}))

Meetings(t, span, F) == [i \in DOMAIN F |-> MeetingPoint(t, span, F[i])]

\* Layout::members, and Layout::loads as their number.
Members(t, meet) == [n \in NodesOf(t) |-> {i \in DOMAIN meet : meet[i] = n}]

-----------------------------------------------------------------------------
(***************************************************************************)
(* The three bounds on the separator at a node.                            *)
(***************************************************************************)

\* Mutant: the higher index is taken for the node nearer the root.
BugHighByIndex(t, n, m) == n > m

NearerRoot(t, n, m) == t.pos[n] > t.pos[m]

\* clause_high_lca: the shallowest meeting point of a variable's clauses of two
\* literals or more.
HighLca(t, F, meet) ==
  [v \in TreeVars(t) |->
     FoldLeftDomain(LAMBDA high, i :
       IF v \in VarsOf(F[i]) /\ Cardinality(F[i]) > 1
          /\ (high = 0 \/ NearerRoot(t, meet[i], high))
       THEN meet[i] ELSE high, 0, F)]

RECURSIVE PathBelow(_, _, _)
PathBelow(t, n, top) ==
  IF n \in {0, top} THEN {} ELSE {n} \cup PathBelow(t, t.parent[n], top)

\* context_width_from_high_lca, counting the variables of shown.
InsideWidth(t, high, shown) ==
  LET crossed == [v \in {w \in DOMAIN high \cap shown : high[w] # 0} |->
                    PathBelow(t, t.parent[LeafOf(t, v)], high[v])]
  IN  [n \in NodesOf(t) |-> Cardinality({v \in DOMAIN crossed : n \in crossed[v]})]

Sibling(t, n) == LET p == t.parent[n] IN IF n = t.left[p] THEN t.right[p] ELSE t.left[p]

\* Mutant: a stamped node is walked through, so a sibling is met again.
BugWalksThrough(marks, n) == FALSE

StampStops(marks, n) == n \in marks.nodes

\* One mate's walk: up to a node stamped for this variable or holding it.
RECURSIVE OutsideWalk(_, _, _, _, _)
OutsideWalk(t, span, at, marks, n) ==
  IF n = 0 \/ StampStops(marks, n) \/ Spans(span, n, at) THEN marks
  ELSE LET p == t.parent[n]
           both == p # 0 /\ Sibling(t, n) \in marks.nodes
       IN  OutsideWalk(t, span, at,
                       [nodes |-> marks.nodes \cup {n},
                        width |-> [marks.width EXCEPT ![n] = @ + 1],
                        overlap |-> IF both THEN [marks.overlap EXCEPT ![p] = @ + 1] ELSE marks.overlap],
                       p)

\* outside_context_tables.
OutsideTables(t, F, span) ==
  LET zero == [n \in NodesOf(t) |-> 0]
      mates(v) == UNION {VarsOf(F[i]) : i \in {j \in DOMAIN F : v \in VarsOf(F[j])}} \ {v}
      of(tables, v) ==
        FoldSet(LAMBDA u, marks : OutsideWalk(t, span, span.entry[LeafOf(t, v)], marks, LeafOf(t, u)),
                [tables EXCEPT !.nodes = {}], mates(v))
  IN  FoldSet(LAMBDA v, tables : of(tables, v),
              [nodes |-> {}, width |-> zero, overlap |-> zero], TreeVars(t))

\* Mutant: the meeting point is not stamped, so the walks count it and go on.
BugNoTopStamp(top) == {}

TopStamp(top) == {top}

RECURSIVE CrossingWalk(_, _, _)
CrossingWalk(t, stamped, n) ==
  IF n = 0 \/ n \in stamped THEN stamped ELSE CrossingWalk(t, stamped \cup {n}, t.parent[n])

\* crossing_clauses: the nodes stamped for clause i below its meeting point.
CrossedBy(t, c, top) ==
  IF Cardinality(c) < 2 THEN {}
  ELSE FoldSet(LAMBDA v, stamped : CrossingWalk(t, stamped, LeafOf(t, v)), TopStamp(top), VarsOf(c))
       \ {top}

Crossing(t, F, meet) ==
  LET crossed == [i \in DOMAIN F |-> CrossedBy(t, F[i], meet[i])]
  IN  [n \in NodesOf(t) |-> Cardinality({i \in DOMAIN F : n \in crossed[i]})]

\* sorted_bounds.
Bounds(t, n, inside, outside, cross) ==
  LET sorted == SortSeq(<<inside[n], outside[n], cross[n]>>, <=)
  IN  IF IsLeaf(t, n) THEN [k \in 1 .. 3 |-> Min({sorted[k], 1})] ELSE sorted

-----------------------------------------------------------------------------
(***************************************************************************)
(* What lies below a node and above it, each in one pass over the order.   *)
(***************************************************************************)

\* subtree_tables.
SubtreeTables(t, members) ==
  LET order == UpwardOrder(t)
      at(b, n) ==
        IF IsLeaf(t, n)
        THEN [clauses |-> Cardinality(members[n]), leaves |-> 1, height |-> 0]
        ELSE LET l == b[t.left[n]]
                 r == b[t.right[n]]
             IN  [clauses |-> Cardinality(members[n]) + l.clauses + r.clauses,
                  leaves |-> l.leaves + r.leaves, height |-> 1 + Max({l.height, r.height})]
  IN  FoldLeft(LAMBDA b, n : [b EXCEPT ![n] = at(b, n)],
               [n \in NodesOf(t) |-> [clauses |-> 0, leaves |-> 0, height |-> 0]], order)

\* node_depths.
Depths(t) ==
  FoldLeft(LAMBDA d, n :
             IF IsLeaf(t, n) THEN d
             ELSE [d EXCEPT ![t.left[n]] = d[n] + 1, ![t.right[n]] = d[n] + 1],
           [n \in NodesOf(t) |-> 0], Reverse(UpwardOrder(t)))

-----------------------------------------------------------------------------
(***************************************************************************)
(* The split and the cut at a node.                                        *)
(***************************************************************************)

\* split_at_node, down to the variables on the left of each clause.
LeftSide(t, span, c, left) == {v \in VarsOf(c) : Spans(span, left, span.entry[LeafOf(t, v)])}

\* Augment along a shortest alternating path: from the lefts of a layer to what
\* they reach, and on through the mates of what is taken.
RECURSIVE Augmented(_, _, _, _, _)
Augmented(adj, pairs, queue, seen, from) ==
  IF queue = <<>> THEN pairs
  ELSE LET l == Head(queue)
           new == adj[l] \ seen
           free == {r \in new : \A p \in pairs : p[2] # r}
           via == [r \in DOMAIN from \cup new |-> IF r \in DOMAIN from THEN from[r] ELSE l]
           flip[r \in DOMAIN via] ==
             LET back == {p \in pairs : p[1] = via[r]}
             IN  {<<via[r], r>>} \cup UNION {flip[p[2]] : p \in back}
       IN  IF free = {}
           THEN Augmented(adj, pairs, Tail(queue) \o SetToSeq({p[1] : p \in {q \in pairs : q[2] \in new}}),
                          seen \cup new, via)
           ELSE LET path == flip[Min(free)]
                IN  {p \in pairs : p[1] \notin {q[1] : q \in path}} \cup path

\* Mutant: a left that finds no free partner gives up instead of moving others.
BugGreedy(adj, pairs, l) ==
  LET free == {r \in adj[l] : \A p \in pairs : p[2] # r}
  IN  IF free = {} THEN pairs ELSE pairs \cup {<<l, Min(free)>>}

Matched(adj, pairs, l) == Augmented(adj, pairs, <<l>>, {}, <<>>)

\* maximum_matching_size.
MatchingSize(adj) == Cardinality(FoldLeftDomain(LAMBDA pairs, l : Matched(adj, pairs, l), {}, adj))

\* primal_position_graph, by variable: the positions are the leaves in tree order.
Position(span, t, v) == span.entry[LeafOf(t, v)]
Neighbours(F, v) == UNION {VarsOf(F[i]) : i \in {j \in DOMAIN F : v \in VarsOf(F[j])}} \ {v}

\* Mutant: a vector that reduces to nothing still joins the basis.
BugKeepsZero(basis, row) == basis \cup {row}

\* RankScratch::rank, one row: reduced by its leading position, then kept.
RECURSIVE Reduced(_, _)
Reduced(basis, row) ==
  LET same == {b \in basis : row # {} /\ b # {} /\ Max(b) = Max(row)}
  IN  IF same = {} THEN row ELSE LET b == CHOOSE b \in same : TRUE IN Reduced(basis, SymDiff(row, b))

Enlarged(basis, row) == IF Reduced(basis, row) = {} THEN basis ELSE basis \cup {Reduced(basis, row)}

Rank(rows) == Cardinality(FoldSet(LAMBDA row, basis : Enlarged(basis, row), {}, rows))

\* fill_cut at n: the rows of the variables inside, the columns of those they
\* reach, and the rank.
Cut(t, F, span, n) ==
  LET inside == {v \in TreeVars(t) : Spans(span, n, Position(span, t, v))}
      row(v) == {Position(span, t, u) : u \in Neighbours(F, v) \ inside}
      rows == {row(v) : v \in inside} \ {{}}
      reached == {u \in TreeVars(t) \ inside : Position(span, t, u) \in UNION rows}
  IN  [twinIn |-> Cardinality(rows),
       twinOut |-> Cardinality({Neighbours(F, u) \cap inside : u \in reached}),
       rank |-> Rank(rows)]

-----------------------------------------------------------------------------
\* Tables::build.
Tables(t, F, shown) ==
  LET span == Intervals(t)
      meet == Meetings(t, span, F)
      high == HighLca(t, F, meet)
      outside == OutsideTables(t, F, span)
      inside == InsideWidth(t, high, TreeVars(t))
      cross == Crossing(t, F, meet)
      members == Members(t, meet)
  IN  [members |-> members, inside |-> inside, shown |-> InsideWidth(t, high, shown),
       outside |-> outside.width, overlap |-> outside.overlap, cross |-> cross,
       tight |-> [n \in NodesOf(t) |-> Bounds(t, n, inside, outside.width, cross)[1]],
       below |-> SubtreeTables(t, members), depth |-> Depths(t),
       cut |-> [n \in NodesOf(t) |-> Cut(t, F, span, n)],
       matching |-> [n \in {m \in NodesOf(t) : ~IsLeaf(t, m) /\ members[m] # {}} |->
         LET here == SetToSortSeq(members[n], <)
             left == [k \in DOMAIN here |-> LeftSide(t, span, F[here[k]], t.left[n])]
             right == [k \in DOMAIN here |-> VarsOf(F[here[k]]) \ left[k]]
         IN  Min({MatchingSize(left), MatchingSize(right)})]]

\* child_boundary_features: what the two children's widths keep to themselves.
UniqueSum(t, tables, n) ==
  LET l == tables.tight[t.left[n]]
      r == tables.tight[t.right[n]]
  IN  l + r - Min({tables.overlap[n], l, r})

\* The leading term of vtree_cost, cut_width over the internal nodes, as an
\* integer of the same order; the penalties and the logarithm are left out.
VtreeCost(t, F) ==
  LET span == Intervals(t)
      meet == Meetings(t, span, F)
      inside == InsideWidth(t, HighLca(t, F, meet), TreeVars(t))
      cross == Crossing(t, F, meet)
  IN  MapThenSumSet(LAMBDA n : 2 ^ (cross[n] * inside[n]), {n \in NodesOf(t) : ~IsLeaf(t, n)})

-----------------------------------------------------------------------------
(***************************************************************************)
(* What the tables stand for.                                              *)
(***************************************************************************)
RECURSIVE VarsBelow(_, _)
VarsBelow(t, n) ==
  IF IsLeaf(t, n) THEN {t.var[n]} ELSE VarsBelow(t, t.left[n]) \cup VarsBelow(t, t.right[n])

\* The largest number of clauses that can each be given a variable of their own.
LargestMatching(adj) ==
  Max({Cardinality(S) : S \in {T \in SUBSET DOMAIN adj :
         \A U \in SUBSET T : Cardinality(UNION {adj[i] : i \in U}) >= Cardinality(U)}})

Crosses(c, held) == Cardinality(c) > 1 /\ VarsOf(c) \cap held # {} /\ ~(VarsOf(c) \subseteq held)

\* The separators at n, counted from the sets: the variables inside and outside
\* that share a clause across it, and the clauses that do.
SeparatorsCount(t, F, shown, tables, held, n) ==
  LET inner == {v \in held[n] : \E i \in DOMAIN F : v \in VarsOf(F[i]) /\ Crosses(F[i], held[n])}
      outer(m) == {v \in TreeVars(t) \ held[m] : Neighbours(F, v) \cap held[m] # {}}
  IN  /\ ~IsLeaf(t, n) =>
           /\ tables.inside[n] = Cardinality(inner)
           /\ tables.shown[n] = Cardinality(inner \cap shown)
           /\ tables.overlap[n] = Cardinality(outer(t.left[n]) \cap outer(t.right[n]))
      /\ tables.outside[n] = Cardinality(outer(n))
      /\ tables.cross[n] = Cardinality({i \in DOMAIN F : Crosses(F[i], held[n])})

\* What n's subtree holds, and how deep n is.
ContentsCount(t, F, tables, held, n) ==
  LET inside == {i \in DOMAIN F : F[i] # {} /\ VarsOf(F[i]) \subseteq held[n]}
      kids == {t.left[n], t.right[n]} \ {0}
  IN  /\ tables.members[n] = {i \in inside : \A k \in kids : ~(VarsOf(F[i]) \subseteq held[k])}
      /\ tables.below[n].clauses = Cardinality(inside)
      /\ tables.below[n].leaves = Cardinality(held[n])
      /\ tables.depth[n] = Cardinality({m \in NodesOf(t) \ {n} : held[n] \subseteq held[m]})

\* The cut at n: its distinct rows and columns, and as many vectors in the span of
\* its rows as the rank says.
CutCounts(t, F, tables, held, n) ==
  LET rows == {Neighbours(F, v) \ held[n] : v \in held[n]} \ {{}}
      span == {FoldSet(LAMBDA a, b : SymDiff(a, b), {}, T) : T \in SUBSET rows}
  IN  /\ tables.cut[n].twinIn = Cardinality(rows)
      /\ tables.cut[n].twinOut =
           Cardinality({Neighbours(F, v) \cap held[n] : v \in TreeVars(t) \ held[n]} \ {{}})
      /\ 2 ^ tables.cut[n].rank = Cardinality(span)

MatchingCounts(t, F, tables, held, n) ==
  n \in DOMAIN tables.matching =>
    LET here == SetToSortSeq(tables.members[n], <)
        side(k) == [i \in DOMAIN here |-> VarsOf(F[here[i]]) \cap held[k]]
    IN  tables.matching[n] = Min({LargestMatching(side(t.left[n])), LargestMatching(side(t.right[n]))})

\* At every node the tables agree with the sets they count; inside, shown and
\* overlap are of internal nodes alone.
CountsHold(t, F, shown, tables, held) ==
  \A n \in NodesOf(t) :
    /\ SeparatorsCount(t, F, shown, tables, held, n)
    /\ ContentsCount(t, F, tables, held, n)
    /\ CutCounts(t, F, tables, held, n)
    /\ MatchingCounts(t, F, tables, held, n)

TablesCount(t, F, shown) ==
  CountsHold(t, F, shown, Tables(t, F, shown), [n \in NodesOf(t) |-> VarsBelow(t, n)])

=============================================================================

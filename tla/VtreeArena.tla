----------------------------- MODULE VtreeArena -----------------------------
(***************************************************************************)
(* Building vtrees (src/src/vtree/arena.rs, mod.rs): the arena a           *)
(* construction pushes nodes into, children before the node that joins     *)
(* them, and the tree from_nodes makes of it.  A leaf is [var], an         *)
(* internal node [l, r]; 0 stands for None.                                *)
(***************************************************************************)
EXTENDS Integers, SequencesExt

Leaf(v) == [var |-> v, l |-> 0, r |-> 0]
Join(l, r) == [var |-> 0, l |-> l, r |-> r]

\* build_linear_iterative.
LinearArena(order) ==
  LET n == Len(order)
  IN  FoldLeft(LAMBDA a, k : a \o <<Leaf(order[n - k]), Join(Len(a) + 1, Len(a))>>,
               <<Leaf(order[n])>>, [k \in 1 .. n - 1 |-> k])

\* graft: a copy behind what is there, its leaves renamed.
Grafted(a, b, name) ==
  a \o [i \in DOMAIN b |-> IF b[i].l = 0 THEN Leaf(name[b[i].var])
                           ELSE Join(b[i].l + Len(a), b[i].r + Len(a))]

\* Two subtrees, each an arena whose last node is its root, joined at a new node.
Joined(a, b) ==
  LET both == Grafted(a, b, [v \in {n.var : n \in Range(b)} |-> v])
  IN  Append(both, Join(Len(a), Len(both)))

\* balanced_over.
Balanced(items) ==
  LET over[i, j \in DOMAIN items] ==
        IF i = j THEN items[i]
        ELSE LET mid == i + (j - i + 1) \div 2
             IN  Joined(over[i, mid - 1], over[mid, j])
  IN  over[1, Len(items)]

\* The nodes below root by level, left to right.
Below(a, i) == IF a[i].l = 0 THEN <<>> ELSE <<a[i].l, a[i].r>>

Levels(a, root) ==
  LET level[d \in 0 .. Len(a)] ==
        IF d = 0 THEN <<root>>
        ELSE LET above == level[d - 1]
             IN  FlattenSeq([k \in DOMAIN above |-> Below(a, above[k])])
  IN  level

Upward(a, root) ==
  LET level == Levels(a, root)
  IN  FlattenSeq([k \in 1 .. Len(a) + 1 |-> level[Len(a) + 1 - k]])

\* reindex_bottomup: the leaves, then the internal nodes, deepest level first.
LeavesOf(a, nodes) ==
  FlattenSeq([k \in DOMAIN nodes |-> IF a[nodes[k]].l = 0 THEN <<nodes[k]>> ELSE <<>>])
InnerOf(a, nodes) ==
  FlattenSeq([k \in DOMAIN nodes |-> IF a[nodes[k]].l = 0 THEN <<>> ELSE <<nodes[k]>>])

Reindexed(a, root) ==
  LET upward == Upward(a, root)
  IN  LeavesOf(a, upward) \o InnerOf(a, upward)

\* from_nodes, with the variables of the leaves beside the links.
FromNodes(a, root) ==
  LET old == Reindexed(a, root)
      new(i) == IF i = 0 THEN 0 ELSE CHOOSE k \in DOMAIN old : old[k] = i
      l == [k \in DOMAIN old |-> new(a[old[k]].l)]
      r == [k \in DOMAIN old |-> new(a[old[k]].r)]
      above(k) == {p \in DOMAIN old : k \in {l[p], r[p]}}
  IN  [left |-> l, right |-> r,
       parent |-> [k \in DOMAIN old |-> IF above(k) = {} THEN 0 ELSE CHOOSE p \in above(k) : TRUE],
       pos |-> [k \in DOMAIN old |-> k],
       var |-> [k \in DOMAIN old |-> a[old[k]].var]]

=============================================================================

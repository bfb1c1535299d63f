------------------------------ MODULE VtreeText ------------------------------
(***************************************************************************)
(* A vtree written as text and read back (src/src/vtree/text.rs), and what *)
(* traversals read off a rotated tree: the common ancestor and the order   *)
(* of the leaves.                                                          *)
(***************************************************************************)
EXTENDS Vtree, VtreeArena

VARIABLE varAt     \* the variable of each leaf, by node; 0 for the others

-----------------------------------------------------------------------------
(***************************************************************************)
(* The text: one line for each node, in bottom-up order.                   *)
(***************************************************************************)
Topo == [i \in Nodes |-> CHOOSE n \in Nodes : topoPos[n] = i]

\* Mutant: a node's index is printed in place of its position.
BugIndexIds(n) == n
LineId(n) == topoPos[n]

\* to_vtree_text.
Text ==
  LET order == Topo
  IN [i \in Nodes |->
     LET n == order[i]
     IN  [id |-> LineId(n), var |-> IF left[n] = None THEN varAt[n] ELSE 0,
          l |-> IF left[n] = None THEN None ELSE LineId(left[n]),
          r |-> IF left[n] = None THEN None ELSE LineId(right[n])]]

\* parse_vtree_text: the last line is the root's.
Arena(text) ==
  [i \in DOMAIN text |->
     LET k == CHOOSE j \in DOMAIN text : text[j].id = i
     IN  [var |-> text[k].var, l |-> text[k].l, r |-> text[k].r]]
Parsed(text) == FromNodes(Arena(text), text[Len(text)].id)

-----------------------------------------------------------------------------
(***************************************************************************)
(* Reading a tree.                                                         *)
(***************************************************************************)
RootOf(t) == CHOOSE n \in DOMAIN t.left : t.parent[n] = None

\* A tree's shape with its variables, as same_tree compares it.
Shape(t, at) ==
  LET shape[n \in DOMAIN t.left] ==
        IF t.left[n] = None THEN <<at[n]>> ELSE <<shape[t.left[n]], shape[t.right[n]]>>
  IN  shape[RootOf(t)]

\* The leaves, left to right.
Leaves(t) ==
  LET below[n \in DOMAIN t.left] ==
        IF t.left[n] = None THEN <<n>> ELSE below[t.left[n]] \o below[t.right[n]]
  IN  below[RootOf(t)]

\* The nodes from n up to the root.
Above ==
  LET above[n \in Nodes] == {n} \cup IF parent[n] = None THEN {} ELSE above[parent[n]]
  IN  above

\* Mutant: the lower index climbs.
BugClimbs(a, b) == a < b

Climbs(a, b) == topoPos[a] < topoPos[b]

\* lca.
Lca ==
  LET Pairs == (Nodes \cup {None}) \X (Nodes \cup {None})
      meet[p \in Pairs] ==
        LET a == p[1]
            b == p[2]
        IN  IF a = b \/ None \in {a, b} THEN a
            ELSE IF Climbs(a, b) THEN meet[<<parent[a], b>>] ELSE meet[<<a, parent[b]>>]
  IN  meet

-----------------------------------------------------------------------------
(***************************************************************************)
(* Properties.                                                             *)
(***************************************************************************)

\* A rotation changes who lies where in depth only - the leaves keep their order,
\* and no node but the two on the edge changes children - and its mirror at the
\* same node is possible and restores every link (rotate_left, rotate_right,
\* RotationInfo).
RotationsAreLocal ==
  LET local(v, w, new) ==
        /\ Leaves(new) = Leaves(tree)
        /\ \A n \in Nodes \ {v, w} : new.left[n] = left[n] /\ new.right[n] = right[n]
  IN  /\ MirrorUndoes
      /\ \A v \in Nodes :
           /\ CanLeft(tree, v) => local(v, right[v], LeftRotated(tree, v))
           /\ CanRight(tree, v) => local(v, left[v], RightRotated(tree, v))

\* The walk that compares positions ends at the lowest common ancestor of any two
\* nodes of a rotated tree, and never climbs past the root (lca).
LcaIsLowest ==
  \A a, b \in Nodes :
    /\ Lca[<<a, b>>] \in Above[a] \cap Above[b]
    /\ Above[a] \cap Above[b] \subseteq Above[Lca[<<a, b>>]]

\* A rotated tree written out and read back is the same tree, its lines name
\* children before the node they belong to, and the tree read is laid out leaves
\* first with every child below its parent (to_vtree_text, from_vtree_text).
TextRoundTrip ==
  LET lines == Text
      back == Parsed(lines)
  IN  /\ \A i \in DOMAIN lines : lines[i].id = i /\ lines[i].l < i /\ lines[i].r < i
      /\ Shape(back, back.var) = Shape(tree, varAt)
      /\ \A k \in Nodes : back.left[k] # None =>
           /\ {back.left[k], back.right[k]} \subseteq 1 .. k - 1
           /\ \A m \in k .. NumNodes : back.left[m] # None

\* Both together: what a traversal reads off a rotated tree is what the tree says.
TraversalsAgree == LcaIsLowest /\ TextRoundTrip

=============================================================================

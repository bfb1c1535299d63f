-------------------------------- MODULE Vtree --------------------------------
(***************************************************************************)
(* A vtree under rotations (src/src/vtree/): its nodes keep their indices  *)
(* for life, a rotation relinks three edges, and the bottom-up order every *)
(* traversal reads is repaired in place (fixup_topo_after_rotate).  An     *)
(* index is one more than in the code; 0 stands for None.                  *)
(***************************************************************************)
EXTENDS Integers, FiniteSets

CONSTANTS
  NumNodes,     \* nodes of the vtree, leaves and internal ones
  Trees         \* the vtrees a construction may hand over

Nodes == 1 .. NumNodes
None == 0

\* The links and the order of a tree agree: each internal node has two children
\* that name it, nobody else names it, both come before it in the order, and one
\* node is nobody's child.
Consistent(t) ==
  /\ {t.left, t.right, t.parent} \subseteq [Nodes -> Nodes \cup {None}]
  /\ t.pos \in [Nodes -> Nodes]
  /\ \A m, n \in Nodes : t.pos[m] = t.pos[n] => m = n
  /\ \A n \in Nodes :
       /\ t.left[n] = None <=> t.right[n] = None
       /\ t.left[n] # None =>
            /\ t.left[n] # t.right[n]
            /\ t.parent[t.left[n]] = n /\ t.parent[t.right[n]] = n
            /\ t.pos[t.left[n]] < t.pos[n] /\ t.pos[t.right[n]] < t.pos[n]
       /\ t.parent[n] # None => n \in {t.left[t.parent[n]], t.right[t.parent[n]]}
  /\ \E r \in Nodes : \A n \in Nodes : t.parent[n] = None <=> n = r

Fields == {"left", "right", "parent", "pos"}

ASSUME VtreeAssumption ==
  /\ NumNodes \in Nat
  /\ \A t \in Trees : DOMAIN t = Fields /\ Consistent(t)

VARIABLES
  left, right, parent,   \* the links
  topoPos                \* a node's position in the bottom-up order

vars == <<left, right, parent, topoPos>>
tree == [left |-> left, right |-> right, parent |-> parent, pos |-> topoPos]

Init ==
  \E t \in Trees : left = t.left /\ right = t.right /\ parent = t.parent /\ topoPos = t.pos

-----------------------------------------------------------------------------
(***************************************************************************)
(* The repair: the inner node w moves behind the subtree m it has been     *)
(* given, and what lay between moves up by one.                            *)
(***************************************************************************)

\* Mutants: nothing is repaired; w and the root of m change places, which
\* puts that root before its own children.
BugNoRepair(pos, w, m) == pos
BugSwapped(pos, w, m) ==
  IF pos[m] < pos[w] THEN pos ELSE [pos EXCEPT ![w] = pos[m], ![m] = pos[w]]

Repaired(pos, w, m) ==
  IF pos[m] < pos[w] THEN pos
  ELSE [n \in Nodes |-> IF n = w THEN pos[m]
                         ELSE IF pos[w] < pos[n] /\ pos[n] <= pos[m] THEN pos[n] - 1 ELSE pos[n]]

\* Mutant: the subtree that changes sides keeps its old parent.
BugStaleParent(par, child, owner) == par

\* set_parent.
Adopted(par, child, owner) == [par EXCEPT ![child] = owner]

CanLeft(t, v) == t.left[v] # None /\ t.left[t.right[v]] # None
CanRight(t, v) == t.left[v] # None /\ t.left[t.left[v]] # None

\* Mutant: B and C change places on the way.
BugCrossed(t, v) ==
  LET w == t.right[v]
      a == t.left[v]
      b == t.left[w]
  IN  [left |-> [t.left EXCEPT ![v] = w, ![w] = a],
       right |-> [t.right EXCEPT ![v] = b, ![w] = t.right[w]],
       parent |-> Adopted(Adopted(t.parent, a, w), b, v),
       pos |-> Repaired(t.pos, w, a)]

\* v = (A, w = (B, C)) becomes v = (w = (A, B), C).
LeftRotated(t, v) ==
  LET w == t.right[v]
      a == t.left[v]
      c == t.right[w]
  IN  [left |-> [t.left EXCEPT ![v] = w, ![w] = a],
       right |-> [t.right EXCEPT ![v] = c, ![w] = t.left[w]],
       parent |-> Adopted(Adopted(t.parent, a, w), c, v),
       pos |-> Repaired(t.pos, w, a)]

\* v = (w = (A, B), C) becomes v = (A, w = (B, C)).
RightRotated(t, v) ==
  LET w == t.left[v]
      a == t.left[w]
      c == t.right[v]
  IN  [left |-> [t.left EXCEPT ![v] = a, ![w] = t.right[w]],
       right |-> [t.right EXCEPT ![v] = w, ![w] = c],
       parent |-> Adopted(Adopted(t.parent, a, v), c, w),
       pos |-> Repaired(t.pos, w, c)]

Become(t) == left' = t.left /\ right' = t.right /\ parent' = t.parent /\ topoPos' = t.pos

RotateLeft(v) == CanLeft(tree, v) /\ Become(LeftRotated(tree, v))
RotateRight(v) == CanRight(tree, v) /\ Become(RightRotated(tree, v))

Next == \E v \in Nodes : RotateLeft(v) \/ RotateRight(v)

Spec == Init /\ [][Next]_vars

-----------------------------------------------------------------------------
(***************************************************************************)
(* Properties.                                                             *)
(***************************************************************************)

SameLinks(t, u) == t.left = u.left /\ t.right = u.right /\ t.parent = u.parent

\* However long the run of rotations, the links agree in both directions and the
\* maintained order has children before parents (Vtree, topo).
TreeConsistent == Consistent(tree)

\* A rotation's mirror at the same node is possible and restores every link,
\* whatever the order has become (rotate_left, rotate_right).
MirrorUndoes ==
  \A v \in Nodes :
    /\ CanLeft(tree, v) =>
         /\ CanRight(LeftRotated(tree, v), v)
         /\ SameLinks(RightRotated(LeftRotated(tree, v), v), tree)
    /\ CanRight(tree, v) =>
         /\ CanLeft(RightRotated(tree, v), v)
         /\ SameLinks(LeftRotated(RightRotated(tree, v), v), tree)

=============================================================================

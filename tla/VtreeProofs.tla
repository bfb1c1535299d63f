---------------------------- MODULE VtreeProofs ----------------------------
(***************************************************************************)
(* A vtree of any size under any run of rotations: it stays consistent, a  *)
(* rotation keeps the leaves in order and is undone by its mirror, and     *)
(* what is read off the tree - the common ancestor, the text - is what the *)
(* tree says.  The repair of the order is a lemma about sequences of       *)
(* positions; the links are then a matter of telling the five nodes of a   *)
(* rotation apart; all else is induction on the positions or the depths.   *)
(* The last part is the search that chose the tree: the roots it tries     *)
(* root apart, no reading is offered twice, and the cheapest is kept.      *)
(***************************************************************************)
EXTENDS ReadingSearch, FoldProofs, TLAPS

\* The repair moves w behind m and keeps the order of all the others
\* (fixup_topo_after_rotate).
LEMMA RepairLemma ==
  ASSUME NEW pos \in [Nodes -> Nodes], NEW w \in Nodes, NEW m \in Nodes, w # m,
         \A x, y \in Nodes : pos[x] = pos[y] => x = y
  PROVE  /\ Repaired(pos, w, m) \in [Nodes -> Nodes]
         /\ \A x, y \in Nodes : Repaired(pos, w, m)[x] = Repaired(pos, w, m)[y] => x = y
         /\ \A x, y \in Nodes \ {w} :
              pos[x] < pos[y] => Repaired(pos, w, m)[x] < Repaired(pos, w, m)[y]
         /\ Repaired(pos, w, m)[m] < Repaired(pos, w, m)[w]
         /\ \A x \in Nodes : pos[x] < pos[w] => Repaired(pos, w, m)[x] < Repaired(pos, w, m)[w]
         /\ \A x \in Nodes : pos[w] < pos[x] /\ pos[m] < pos[x]
                               => Repaired(pos, w, m)[w] < Repaired(pos, w, m)[x]
<1> DEFINE rep == Repaired(pos, w, m)
<1>0. NumNodes \in Nat /\ Nodes = 1 .. NumNodes
  BY VtreeAssumption DEF Nodes
<1>a. \A x \in Nodes : pos[x] \in Nodes /\ pos[x] \in Int /\ pos[x] >= 1 /\ pos[x] <= NumNodes
  BY <1>0
<1>b. \A x, y \in Nodes : pos[x] = pos[y] => x = y
  OBVIOUS
<1>1. CASE pos[m] < pos[w]
  <2>1. rep = pos
    BY <1>1 DEF Repaired
  <2> QED BY <1>a, <1>b, <1>1, <2>1
<1>2. CASE ~(pos[m] < pos[w])
  <2>1. rep = [n \in Nodes |-> IF n = w THEN pos[m]
                         ELSE IF pos[w] < pos[n] /\ pos[n] <= pos[m] THEN pos[n] - 1 ELSE pos[n]]
    BY <1>2 DEF Repaired
  <2>2. pos[w] < pos[m]
    BY <1>a, <1>b, <1>2
  <2>3. rep[w] = pos[m]
    BY <2>1
  <2>4. \A n \in Nodes \ {w} :
          /\ pos[w] < pos[n] /\ pos[n] <= pos[m] => rep[n] = pos[n] - 1
          /\ ~(pos[w] < pos[n] /\ pos[n] <= pos[m]) => rep[n] = pos[n]
    BY <2>1
  <2>5. rep \in [Nodes -> Nodes]
    <3>1. \A n \in Nodes : rep[n] \in Nodes
      <4> TAKE n \in Nodes
      <4>1. CASE n = w
        BY <1>a, <2>3, <4>1
      <4>2. CASE n # w /\ pos[w] < pos[n] /\ pos[n] <= pos[m]
        <5>1. rep[n] = pos[n] - 1
          BY <2>4, <4>2
        <5>2. pos[n] - 1 >= 1 /\ pos[n] - 1 <= NumNodes /\ pos[n] - 1 \in Int
          <6>1. pos[w] \in Int /\ pos[w] >= 1 /\ pos[n] \in Int /\ pos[n] <= NumNodes
            BY <1>a
          <6>2. NumNodes \in Int
            BY <1>0
          <6>3. pos[w] < pos[n]
            BY <4>2
          <6> QED BY <6>1, <6>2, <6>3
        <5>3. pos[n] - 1 \in 1 .. NumNodes
          BY <1>0, <5>2
        <5> QED BY <1>0, <5>1, <5>3
      <4>3. CASE n # w /\ ~(pos[w] < pos[n] /\ pos[n] <= pos[m])
        BY <1>a, <2>4, <4>3
      <4> QED BY <4>1, <4>2, <4>3
    <3> QED BY <2>1, <3>1
  <2>6. \A x, y \in Nodes : rep[x] = rep[y] => x = y
    BY <1>a, <1>b, <2>2, <2>3, <2>4
  <2>7. \A x, y \in Nodes \ {w} : pos[x] < pos[y] => rep[x] < rep[y]
    BY <1>a, <1>b, <2>2, <2>4
  <2>8. rep[m] < rep[w]
    BY <1>a, <1>b, <2>2, <2>3, <2>4
  <2>9. \A x \in Nodes : pos[x] < pos[w] => rep[x] < rep[w]
    BY <1>a, <1>b, <2>2, <2>3, <2>4
  <2>10. \A x \in Nodes : pos[w] < pos[x] /\ pos[m] < pos[x] => rep[w] < rep[x]
    BY <1>a, <1>b, <2>2, <2>3, <2>4
  <2> QED BY <2>5, <2>6, <2>7, <2>8, <2>9, <2>10
<1> QED BY <1>1, <1>2

\* The five nodes of a left rotation at v are five.
LEMMA LeftNodes ==
  ASSUME NEW t, Consistent(t), NEW v \in Nodes, CanLeft(t, v)
  PROVE  LET w == t.right[v]
             a == t.left[v]
             b == t.left[w]
             c == t.right[w]
         IN  /\ {w, a, b, c} \subseteq Nodes
             /\ v # w /\ v # a /\ v # b /\ v # c /\ w # a /\ w # b /\ w # c
             /\ a # b /\ a # c /\ b # c
             /\ t.parent[w] = v /\ t.parent[a] = v /\ t.parent[b] = w /\ t.parent[c] = w
             /\ t.pos[w] < t.pos[v] /\ t.pos[a] < t.pos[v] /\ t.pos[b] < t.pos[w] /\ t.pos[c] < t.pos[w]
             /\ t.pos \in [Nodes -> Int]
<1> DEFINE w == t.right[v]
<1> DEFINE a == t.left[v]
<1> DEFINE b == t.left[w]
<1> DEFINE c == t.right[w]
<1>0. NumNodes \in Nat /\ Nodes = 1 .. NumNodes /\ None = 0 /\ None \notin Nodes
  BY VtreeAssumption DEF Nodes, None
<1>1. /\ t.left \in [Nodes -> Nodes \cup {None}] /\ t.right \in [Nodes -> Nodes \cup {None}]
      /\ t.parent \in [Nodes -> Nodes \cup {None}]
      /\ t.pos \in [Nodes -> Nodes]
  BY DEF Consistent
<1>2. \A n \in Nodes :
        t.left[n] # None =>
            /\ t.right[n] # None
            /\ t.left[n] # t.right[n]
            /\ t.parent[t.left[n]] = n /\ t.parent[t.right[n]] = n
            /\ t.pos[t.left[n]] < t.pos[n] /\ t.pos[t.right[n]] < t.pos[n]
  BY DEF Consistent
<1>3. a # None /\ b # None
  BY DEF CanLeft
<1>4. a \in Nodes /\ w \in Nodes
  BY <1>1, <1>2, <1>3
<1>5. b \in Nodes /\ c \in Nodes
  BY <1>1, <1>2, <1>3, <1>4
<1>6. /\ t.parent[w] = v /\ t.parent[a] = v /\ a # w
      /\ t.pos[w] < t.pos[v] /\ t.pos[a] < t.pos[v]
  BY <1>2, <1>3
<1>7. /\ t.parent[b] = w /\ t.parent[c] = w /\ b # c
      /\ t.pos[b] < t.pos[w] /\ t.pos[c] < t.pos[w]
  BY <1>2, <1>3, <1>4
<1>8. t.pos \in [Nodes -> Int]
  BY <1>0, <1>1
<1>9. v # w /\ v # a /\ w # b /\ w # c /\ v # b /\ v # c
  BY <1>4, <1>5, <1>6, <1>7, <1>8
<1>10. a # b /\ a # c
  BY <1>6, <1>7, <1>9
<1> QED BY <1>4, <1>5, <1>6, <1>7, <1>8, <1>9, <1>10

\* A left rotation leaves a consistent tree.
LEMMA LeftKeeps ==
  ASSUME NEW t, Consistent(t), NEW v \in Nodes, CanLeft(t, v)
  PROVE  Consistent(LeftRotated(t, v))
<1> DEFINE w == t.right[v]
<1> DEFINE a == t.left[v]
<1> DEFINE b == t.left[w]
<1> DEFINE c == t.right[w]
<1> DEFINE u == LeftRotated(t, v)
<1>0. NumNodes \in Nat /\ Nodes = 1 .. NumNodes /\ None = 0 /\ None \notin Nodes
  BY VtreeAssumption DEF Nodes, None
<1>1. /\ {w, a, b, c} \subseteq Nodes
      /\ v # w /\ v # a /\ v # b /\ v # c /\ w # a /\ w # b /\ w # c
      /\ a # b /\ a # c /\ b # c
      /\ t.parent[w] = v /\ t.parent[a] = v /\ t.parent[b] = w /\ t.parent[c] = w
      /\ t.pos[w] < t.pos[v] /\ t.pos[a] < t.pos[v] /\ t.pos[b] < t.pos[w] /\ t.pos[c] < t.pos[w]
      /\ t.pos \in [Nodes -> Int]
  BY LeftNodes
<1>2. /\ t.left \in [Nodes -> Nodes \cup {None}] /\ t.right \in [Nodes -> Nodes \cup {None}]
      /\ t.parent \in [Nodes -> Nodes \cup {None}]
      /\ t.pos \in [Nodes -> Nodes]
      /\ \A x, y \in Nodes : t.pos[x] = t.pos[y] => x = y
  BY DEF Consistent
<1>3. \A n \in Nodes :
        /\ t.left[n] = None <=> t.right[n] = None
        /\ t.left[n] # None =>
             /\ t.left[n] # t.right[n]
             /\ t.parent[t.left[n]] = n /\ t.parent[t.right[n]] = n
             /\ t.pos[t.left[n]] < t.pos[n] /\ t.pos[t.right[n]] < t.pos[n]
        /\ t.parent[n] # None => n \in {t.left[t.parent[n]], t.right[t.parent[n]]}
  BY DEF Consistent
<1>4. /\ u.left = [t.left EXCEPT ![v] = w, ![w] = a]
      /\ u.right = [t.right EXCEPT ![v] = c, ![w] = b]
      /\ u.parent = [[t.parent EXCEPT ![a] = w] EXCEPT ![c] = v]
      /\ u.pos = Repaired(t.pos, w, a)
  BY DEF LeftRotated, Adopted
<1>5. /\ u.left[v] = w /\ u.right[v] = c /\ u.left[w] = a /\ u.right[w] = b
      /\ u.parent[a] = w /\ u.parent[c] = v
      /\ \A n \in Nodes \ {v, w} : u.left[n] = t.left[n] /\ u.right[n] = t.right[n]
      /\ \A n \in Nodes \ {a, c} : u.parent[n] = t.parent[n]
  BY <1>1, <1>2, <1>4
<1>6. {u.left, u.right, u.parent} \subseteq [Nodes -> Nodes \cup {None}]
  <2>0. w \in Nodes /\ a \in Nodes /\ b \in Nodes /\ c \in Nodes
    BY <1>1
  <2> HIDE DEF w, a, b, c, u
  <2>1. u.left \in [Nodes -> Nodes \cup {None}]
    BY <2>0, <1>2, <1>4
  <2>2. u.right \in [Nodes -> Nodes \cup {None}]
    BY <2>0, <1>2, <1>4
  <2>3. u.parent \in [Nodes -> Nodes \cup {None}]
    BY <2>0, <1>2, <1>4
  <2> QED BY <2>1, <2>2, <2>3
<1>7. /\ u.pos \in [Nodes -> Nodes]
      /\ \A x, y \in Nodes : u.pos[x] = u.pos[y] => x = y
      /\ \A x, y \in Nodes \ {w} : t.pos[x] < t.pos[y] => u.pos[x] < u.pos[y]
      /\ u.pos[a] < u.pos[w]
      /\ \A x \in Nodes : t.pos[x] < t.pos[w] => u.pos[x] < u.pos[w]
      /\ \A x \in Nodes : t.pos[w] < t.pos[x] /\ t.pos[a] < t.pos[x] => u.pos[w] < u.pos[x]
  <2>1. w \in Nodes /\ a \in Nodes /\ w # a
    BY <1>1
  <2>2. t.pos \in [Nodes -> Nodes] /\ \A x, y \in Nodes : t.pos[x] = t.pos[y] => x = y
    BY <1>2
  <2>3. u.pos = Repaired(t.pos, w, a)
    BY <1>4
  <2> DEFINE old == t.pos
  <2> DEFINE rep == Repaired(old, w, a)
  <2>4. old \in [Nodes -> Nodes] /\ \A x, y \in Nodes : old[x] = old[y] => x = y
    BY <2>2
  <2> HIDE DEF w, a, u, old
  <2>5. /\ rep \in [Nodes -> Nodes]
        /\ \A x, y \in Nodes : rep[x] = rep[y] => x = y
        /\ \A x, y \in Nodes \ {w} : old[x] < old[y] => rep[x] < rep[y]
        /\ rep[a] < rep[w]
        /\ \A x \in Nodes : old[x] < old[w] => rep[x] < rep[w]
        /\ \A x \in Nodes : old[w] < old[x] /\ old[a] < old[x] => rep[w] < rep[x]
    BY <2>1, <2>4, RepairLemma, Zenon
  <2> QED BY <2>3, <2>5 DEF old
<1>8. \A n \in Nodes :
        /\ u.left[n] = None <=> u.right[n] = None
        /\ u.left[n] # None =>
             /\ u.left[n] # u.right[n]
             /\ u.parent[u.left[n]] = n /\ u.parent[u.right[n]] = n
             /\ u.pos[u.left[n]] < u.pos[n] /\ u.pos[u.right[n]] < u.pos[n]
        /\ u.parent[n] # None => n \in {u.left[u.parent[n]], u.right[u.parent[n]]}
  <2> TAKE n \in Nodes
  <2>1. CASE n = v
    <3>1. u.left[n] = w /\ u.right[n] = c /\ u.parent[w] = v /\ u.parent[c] = v
      BY <1>1, <1>5, <2>1
    <3>2. t.pos[c] < t.pos[v]
      BY <1>1
    <3>3. u.pos[w] < u.pos[v] /\ u.pos[c] < u.pos[v]
      BY <1>1, <1>7, <3>2
    <3>4. u.parent[v] = t.parent[v]
      BY <1>1, <1>5
    <3>5. ASSUME u.parent[v] # None
          PROVE  v \in {u.left[u.parent[v]], u.right[u.parent[v]]}
      <4> DEFINE p == t.parent[v]
      <4>1. p \in Nodes /\ v \in {t.left[p], t.right[p]}
        BY <1>2, <1>3, <3>4, <3>5
      <4>2. p # v /\ p # w
        BY <1>0, <1>1, <1>3, <4>1
      <4> QED BY <1>5, <3>4, <4>1, <4>2
    <3> QED BY <1>0, <1>1, <2>1, <3>1, <3>3, <3>5
  <2>2. CASE n = w
    <3>1. u.left[n] = a /\ u.right[n] = b /\ u.parent[a] = w /\ u.parent[b] = w
      BY <1>1, <1>5, <2>2
    <3>2. u.pos[a] < u.pos[w] /\ u.pos[b] < u.pos[w]
      BY <1>1, <1>7
    <3>3. u.parent[w] = v /\ u.left[v] = w
      BY <1>1, <1>5
    <3> QED BY <1>0, <1>1, <2>2, <3>1, <3>2, <3>3
  <2>3. CASE n \notin {v, w}
    <3> DEFINE l == t.left[n]
    <3> DEFINE r == t.right[n]
    <3>1. u.left[n] = l /\ u.right[n] = r
      BY <1>5, <2>3
    <3>2. ASSUME l # None
          PROVE  /\ l # r /\ u.parent[l] = n /\ u.parent[r] = n
                 /\ u.pos[l] < u.pos[n] /\ u.pos[r] < u.pos[n]
      <4>1. /\ l \in Nodes /\ r \in Nodes /\ l # r
            /\ t.parent[l] = n /\ t.parent[r] = n
            /\ t.pos[l] < t.pos[n] /\ t.pos[r] < t.pos[n]
        BY <1>2, <1>3, <3>2
      <4>2. l \notin {a, c, w} /\ r \notin {a, c, w}
        BY <1>1, <2>3, <4>1
      <4> QED BY <1>5, <1>7, <2>3, <4>1, <4>2
    <3>3. ASSUME u.parent[n] # None
          PROVE  n \in {u.left[u.parent[n]], u.right[u.parent[n]]}
      <4>1. CASE n \in {a, c}
        BY <1>1, <1>5, <4>1
      <4>2. CASE n \notin {a, c}
        <5> DEFINE p == t.parent[n]
        <5>1. u.parent[n] = p /\ p \in Nodes /\ n \in {t.left[p], t.right[p]}
          BY <1>2, <1>3, <1>5, <3>3, <4>2
        <5>2. CASE p = v
          BY <1>1, <2>3, <4>2, <5>1, <5>2
        <5>3. CASE p = w
          BY <1>1, <1>5, <4>2, <5>1, <5>3
        <5>4. CASE p \notin {v, w}
          BY <1>5, <5>1, <5>4
        <5> QED BY <5>2, <5>3, <5>4
      <4> QED BY <4>1, <4>2
    <3> QED BY <1>3, <3>1, <3>2, <3>3
  <2> QED BY <2>1, <2>2, <2>3
<1>9. \E r \in Nodes : \A n \in Nodes : u.parent[n] = None <=> n = r
  <2>1. PICK r \in Nodes : \A n \in Nodes : t.parent[n] = None <=> n = r
    BY DEF Consistent
  <2>2. ASSUME NEW n \in Nodes
        PROVE  u.parent[n] = None <=> t.parent[n] = None
    <3>1. u.parent[a] \in Nodes /\ u.parent[c] \in Nodes /\ t.parent[a] \in Nodes /\ t.parent[c] \in Nodes
      BY <1>1, <1>5
    <3> QED BY <1>0, <1>5, <3>1
  <2> QED BY <2>1, <2>2
<1> QED BY <1>6, <1>7, <1>8, <1>9 DEF Consistent

\* The tree seen in a mirror: a right rotation is a left one there.
Mirrored(t) == [left |-> t.right, right |-> t.left, parent |-> t.parent, pos |-> t.pos]

LEMMA MirroredConsistent ==
  ASSUME NEW t, Consistent(t)
  PROVE  Consistent(Mirrored(t))
<1> DEFINE m == Mirrored(t)
<1>1. m.left = t.right /\ m.right = t.left /\ m.parent = t.parent /\ m.pos = t.pos
  BY DEF Mirrored
<1>2. /\ {m.left, m.right, m.parent} \subseteq [Nodes -> Nodes \cup {None}]
      /\ m.pos \in [Nodes -> Nodes]
      /\ \A x, y \in Nodes : m.pos[x] = m.pos[y] => x = y
  BY <1>1 DEF Consistent
<1>3. ASSUME NEW n \in Nodes
      PROVE  /\ m.left[n] = None <=> m.right[n] = None
             /\ m.left[n] # None =>
                  /\ m.left[n] # m.right[n]
                  /\ m.parent[m.left[n]] = n /\ m.parent[m.right[n]] = n
                  /\ m.pos[m.left[n]] < m.pos[n] /\ m.pos[m.right[n]] < m.pos[n]
             /\ m.parent[n] # None => n \in {m.left[m.parent[n]], m.right[m.parent[n]]}
  BY <1>1 DEF Consistent
<1>4. \E r \in Nodes : \A n \in Nodes : m.parent[n] = None <=> n = r
  BY <1>1 DEF Consistent
<1> QED BY <1>2, <1>3, <1>4 DEF Consistent

LEMMA MirroredMove ==
  ASSUME NEW t, Consistent(t), NEW v \in Nodes, CanRight(t, v)
  PROVE  /\ CanLeft(Mirrored(t), v)
         /\ RightRotated(t, v) = Mirrored(LeftRotated(Mirrored(t), v))
<1> DEFINE m == Mirrored(t)
<1> DEFINE w == t.left[v]
<1>1. m.left = t.right /\ m.right = t.left /\ m.parent = t.parent /\ m.pos = t.pos
  BY DEF Mirrored
<1>2. CanLeft(m, v)
  <2>1. t.left[v] # None /\ t.left[w] # None
    BY DEF CanRight
  <2>2. w \in Nodes
    BY <2>1 DEF Consistent
  <2>3. t.right[v] # None /\ t.right[w] # None
    BY <2>1, <2>2 DEF Consistent
  <2> QED BY <1>1, <2>3 DEF CanLeft
<1>3. t.left[w] # t.right[v] /\ t.left[w] \in Nodes /\ t.right[v] \in Nodes
  BY <1>1, <1>2, MirroredConsistent, LeftNodes
<1>4. /\ t.left \in [Nodes -> Nodes \cup {None}] /\ t.right \in [Nodes -> Nodes \cup {None}]
      /\ t.parent \in [Nodes -> Nodes \cup {None}]
  BY DEF Consistent
<1>5. Adopted(Adopted(t.parent, t.left[w], v), t.right[v], w)
        = Adopted(Adopted(t.parent, t.right[v], w), t.left[w], v)
  BY <1>3, <1>4 DEF Adopted
<1> QED BY <1>1, <1>2, <1>5 DEF LeftRotated, RightRotated, Mirrored

\* A right rotation leaves a consistent tree.
LEMMA RightKeeps ==
  ASSUME NEW t, Consistent(t), NEW v \in Nodes, CanRight(t, v)
  PROVE  Consistent(RightRotated(t, v))
<1>1. Consistent(Mirrored(t)) /\ CanLeft(Mirrored(t), v)
  BY MirroredConsistent, MirroredMove
<1>2. Consistent(LeftRotated(Mirrored(t), v))
  BY <1>1, LeftKeeps
<1> QED BY <1>2, MirroredConsistent, MirroredMove

\* Links and order agree after any run of rotations, for a vtree of any size
\* (rotate_left, rotate_right, fixup_topo_after_rotate).
THEOREM TreeStaysConsistent == Spec => []TreeConsistent
<1>1. Init => TreeConsistent
  <2> SUFFICES ASSUME Init PROVE Consistent(tree)
    BY DEF TreeConsistent
  <2>1. PICK t \in Trees : left = t.left /\ right = t.right /\ parent = t.parent /\ topoPos = t.pos
    BY DEF Init
  <2>2. Consistent(t)
    BY VtreeAssumption
  <2>3. tree.left = t.left /\ tree.right = t.right /\ tree.parent = t.parent /\ tree.pos = t.pos
    BY <2>1 DEF tree
  <2> QED BY <2>2, <2>3 DEF Consistent
<1>2. TreeConsistent /\ [Next]_vars => TreeConsistent'
  <2> SUFFICES ASSUME TreeConsistent, [Next]_vars PROVE TreeConsistent'
    OBVIOUS
  <2>0. Consistent(tree)
    BY DEF TreeConsistent
  <2>1. ASSUME NEW v \in Nodes, RotateLeft(v) PROVE TreeConsistent'
    <3>1. tree' = LeftRotated(tree, v)
      BY <2>1 DEF RotateLeft, Become, tree, LeftRotated
    <3>2. Consistent(LeftRotated(tree, v))
      BY <2>0, <2>1, LeftKeeps DEF RotateLeft
    <3>3. Consistent(tree')
      BY <3>1, <3>2
    <3> QED BY <3>3 DEF TreeConsistent, Consistent
  <2>2. ASSUME NEW v \in Nodes, RotateRight(v) PROVE TreeConsistent'
    <3>1. tree' = RightRotated(tree, v)
      BY <2>2 DEF RotateRight, Become, tree, RightRotated
    <3>2. Consistent(RightRotated(tree, v))
      BY <2>0, <2>2, RightKeeps DEF RotateRight
    <3>3. Consistent(tree')
      BY <3>1, <3>2
    <3> QED BY <3>3 DEF TreeConsistent, Consistent
  <2>3. CASE UNCHANGED vars
    BY <2>3 DEF TreeConsistent, Consistent, tree, vars
  <2> QED BY <2>1, <2>2, <2>3 DEF Next
<1> QED BY <1>1, <1>2, PTL DEF Spec

-----------------------------------------------------------------------------
(***************************************************************************)
(* A rotation is undone by its mirror, and leaves the leaves in order.     *)
(***************************************************************************)
LEMMA LeftUndone ==
  ASSUME NEW t, Consistent(t), NEW v \in Nodes, CanLeft(t, v)
  PROVE  /\ CanRight(LeftRotated(t, v), v)
         /\ SameLinks(RightRotated(LeftRotated(t, v), v), t)
         /\ \A n \in Nodes \ {v, t.right[v]} :
              LeftRotated(t, v).left[n] = t.left[n] /\ LeftRotated(t, v).right[n] = t.right[n]
<1> DEFINE w == t.right[v]
           a == t.left[v]
           b == t.left[w]
           c == t.right[w]
           u == LeftRotated(t, v)
           z == RightRotated(u, v)
<1>0. None \notin Nodes
  BY VtreeAssumption DEF Nodes, None
<1>1. /\ {w, a, b, c} \subseteq Nodes
      /\ v # w /\ v # a /\ v # b /\ v # c /\ w # a /\ w # b /\ w # c
      /\ a # b /\ a # c /\ b # c
      /\ t.parent[a] = v /\ t.parent[c] = w
  BY LeftNodes
<1>2. /\ t.left \in [Nodes -> Nodes \cup {None}] /\ t.right \in [Nodes -> Nodes \cup {None}]
      /\ t.parent \in [Nodes -> Nodes \cup {None}]
  BY DEF Consistent
<1>3. /\ u.left = [t.left EXCEPT ![v] = w, ![w] = a]
      /\ u.right = [t.right EXCEPT ![v] = c, ![w] = b]
      /\ u.parent = [[t.parent EXCEPT ![a] = w] EXCEPT ![c] = v]
  BY DEF LeftRotated, Adopted
<1>4. u.left[v] = w /\ u.left[w] = a /\ u.right[v] = c /\ u.right[w] = b
  BY <1>1, <1>2, <1>3
<1>5. /\ z.left = [u.left EXCEPT ![v] = a, ![w] = b]
      /\ z.right = [u.right EXCEPT ![v] = w, ![w] = c]
      /\ z.parent = [[u.parent EXCEPT ![a] = v] EXCEPT ![c] = w]
  BY <1>4 DEF RightRotated, Adopted
<1>6. CanRight(u, v)
  BY <1>0, <1>1, <1>4 DEF CanRight
<1>7. \A n \in Nodes \ {v, w} : u.left[n] = t.left[n] /\ u.right[n] = t.right[n]
  BY <1>2, <1>3
<1>8. t.left[v] = a /\ t.left[w] = b /\ t.right[v] = w /\ t.right[w] = c
  OBVIOUS
<1> HIDE DEF w, a, b, c, u, z
<1>9. z.left = t.left /\ z.right = t.right
  BY <1>1, <1>2, <1>3, <1>5, <1>8
<1>10. z.parent = t.parent
  BY <1>1, <1>2, <1>3, <1>5
<1> QED BY <1>6, <1>7, <1>9, <1>10 DEF SameLinks, z, u, w

LEMMA RightUndone ==
  ASSUME NEW t, Consistent(t), NEW v \in Nodes, CanRight(t, v)
  PROVE  /\ CanLeft(RightRotated(t, v), v)
         /\ SameLinks(LeftRotated(RightRotated(t, v), v), t)
         /\ \A n \in Nodes \ {v, t.left[v]} :
              RightRotated(t, v).left[n] = t.left[n] /\ RightRotated(t, v).right[n] = t.right[n]
<1> DEFINE m == Mirrored(t)
           x == LeftRotated(m, v)
<1>1. Consistent(m) /\ CanLeft(m, v) /\ RightRotated(t, v) = Mirrored(x)
  BY MirroredConsistent, MirroredMove
<1>2. Consistent(x) /\ CanRight(x, v) /\ SameLinks(RightRotated(x, v), m)
  BY <1>1, LeftKeeps, LeftUndone
<1>3. CanLeft(Mirrored(x), v) /\ RightRotated(x, v) = Mirrored(LeftRotated(Mirrored(x), v))
  BY <1>2, MirroredMove
<1>4. \A n \in Nodes \ {v, m.right[v]} : x.left[n] = m.left[n] /\ x.right[n] = m.right[n]
  BY <1>1, LeftUndone
<1>5. m.left = t.right /\ m.right = t.left /\ m.parent = t.parent
  BY DEF Mirrored
<1> HIDE DEF x, m
<1>6. SameLinks(LeftRotated(Mirrored(x), v), t)
  BY <1>2, <1>3, <1>5 DEF SameLinks, Mirrored
<1>7. \A n \in Nodes \ {v, t.left[v]} :
        Mirrored(x).left[n] = t.left[n] /\ Mirrored(x).right[n] = t.right[n]
  BY <1>4, <1>5 DEF Mirrored
<1> QED BY <1>1, <1>3, <1>6, <1>7

\* The leaves below every node of t, left to right.
ListsLeaves(f, t) ==
  \A n \in Nodes : f[n] = IF t.left[n] = None THEN <<n>> ELSE f[t.left[n]] \o f[t.right[n]]

LEMMA ChildrenOf ==
  ASSUME NEW t, Consistent(t), NEW n \in Nodes, t.left[n] # None
  PROVE  /\ t.left[n] \in Nodes /\ t.right[n] \in Nodes /\ t.right[n] # None
         /\ t.parent[t.left[n]] = n /\ t.parent[t.right[n]] = n
         /\ t.pos[t.left[n]] < t.pos[n] /\ t.pos[t.right[n]] < t.pos[n]
  BY DEF Consistent

LEMMA Positions ==
  ASSUME NEW t, Consistent(t)
  PROVE  /\ NumNodes \in Nat /\ Nodes = 1 .. NumNodes /\ None \notin Nodes
         /\ \A n \in Nodes : t.pos[n] \in Nodes /\ t.pos[n] \in Nat /\ 1 <= t.pos[n] /\ t.pos[n] <= NumNodes
  BY VtreeAssumption DEF Consistent, Nodes, None

\* Such a list exists: it is put together in the order of the positions.
LEMMA LeavesExist ==
  ASSUME NEW t, Consistent(t)
  PROVE  \E f \in [Nodes -> Seq(Nodes)] : ListsLeaves(f, t)
<1> DEFINE Rows == [Nodes -> Seq(Nodes)]
           step == [p \in Nodes \X Rows |->
                      IF t.left[p[1]] = None THEN <<p[1]>> ELSE p[2][t.left[p[1]]] \o p[2][t.right[p[1]]]]
<1>1. t.pos \in [Nodes -> 0 .. NumNodes] /\ NumNodes \in Nat
  <2>1. t.pos \in [Nodes -> Nodes]
    BY DEF Consistent
  <2> QED BY <2>1, Positions
<1>2. step \in [Nodes \X Rows -> Seq(Nodes)]
  <2> SUFFICES ASSUME NEW n \in Nodes, NEW f \in Rows
               PROVE  (IF t.left[n] = None THEN <<n>> ELSE f[t.left[n]] \o f[t.right[n]]) \in Seq(Nodes)
    OBVIOUS
  <2>1. CASE t.left[n] = None
    BY <2>1
  <2>2. CASE t.left[n] # None
    <3>1. f[t.left[n]] \in Seq(Nodes) /\ f[t.right[n]] \in Seq(Nodes)
      BY <2>2, ChildrenOf
    <3> QED BY <2>2, <3>1, ConcatProperties
  <2> QED BY <2>1, <2>2
<1>3. \A n \in Nodes, f \in Rows :
        step[<<n, f>>] = IF t.left[n] = None THEN <<n>> ELSE f[t.left[n]] \o f[t.right[n]]
  OBVIOUS
<1> HIDE DEF step
<1>4. Recursion(step, t.pos, NumNodes, Nodes, Seq(Nodes))
  <2> SUFFICES ASSUME NEW n \in Nodes, NEW f \in Rows, NEW g \in Rows,
                      \A m \in Nodes : t.pos[m] < t.pos[n] => f[m] = g[m]
               PROVE  step[<<n, f>>] = step[<<n, g>>]
    BY <1>1, <1>2 DEF Recursion
  <2>1. t.left[n] # None => f[t.left[n]] = g[t.left[n]] /\ f[t.right[n]] = g[t.right[n]]
    BY ChildrenOf
  <2>2. /\ step[<<n, f>>] = IF t.left[n] = None THEN <<n>> ELSE f[t.left[n]] \o f[t.right[n]]
        /\ step[<<n, g>>] = IF t.left[n] = None THEN <<n>> ELSE g[t.left[n]] \o g[t.right[n]]
    BY <1>3
  <2> QED BY <2>1, <2>2
<1>5. <<>> \in Seq(Nodes)
  OBVIOUS
<1>6. PICK f : Recurses(f, step, Nodes, Seq(Nodes))
  BY <1>4, <1>5, RankedRecursion
<1>. USE DEF Recurses
<1>7. ListsLeaves(f, t)
  BY <1>3, <1>6 DEF ListsLeaves
<1> QED BY <1>6, <1>7

LEMMA LeavesListed ==
  ASSUME NEW t, Consistent(t)
  PROVE  \E f : ListsLeaves(f, t) /\ Leaves(t) = f[RootOf(t)]
<1> DEFINE below == CHOOSE f : f = [n \in DOMAIN t.left |->
                                      IF t.left[n] = None THEN <<n>> ELSE f[t.left[n]] \o f[t.right[n]]]
<1>1. PICK f \in [Nodes -> Seq(Nodes)] : ListsLeaves(f, t)
  BY LeavesExist
<1>2. DOMAIN t.left = Nodes
  BY DEF Consistent
<1>3. f = [n \in DOMAIN t.left |-> IF t.left[n] = None THEN <<n>> ELSE f[t.left[n]] \o f[t.right[n]]]
  BY <1>1, <1>2 DEF ListsLeaves
<1>4. below = [n \in DOMAIN t.left |->
                 IF t.left[n] = None THEN <<n>> ELSE below[t.left[n]] \o below[t.right[n]]]
  BY <1>3
<1>5. Leaves(t) = below[RootOf(t)]
  BY Zenon DEF Leaves
<1> HIDE DEF below
<1>6. ListsLeaves(below, t)
  BY <1>2, <1>4 DEF ListsLeaves
<1> QED BY <1>5, <1>6

LEMMA Regrouped ==
  \A x, y, z \in Seq(Nodes) : (x \o y) \o z = x \o (y \o z)
<1> SUFFICES ASSUME NEW x \in Seq(Nodes), NEW y \in Seq(Nodes), NEW z \in Seq(Nodes)
             PROVE  (x \o y) \o z = x \o (y \o z)
  OBVIOUS
<1> QED BY ConcatAssociative

\* What a rotation does to the lists: only the inner node of the pair has another.
LEMMA LeftKeepsLeaves ==
  ASSUME NEW t, Consistent(t), NEW v \in Nodes, CanLeft(t, v),
         NEW u, Consistent(u), SameLinks(u, LeftRotated(t, v))
  PROVE  Leaves(u) = Leaves(t)
<1> DEFINE w == t.right[v]
           a == t.left[v]
           b == t.left[w]
           c == t.right[w]
<1>0. /\ NumNodes \in Nat /\ Nodes = 1 .. NumNodes /\ None \notin Nodes
      /\ \A n \in Nodes : t.pos[n] \in Nat /\ 1 <= t.pos[n] /\ t.pos[n] <= NumNodes
  BY Positions
<1>1. /\ {w, a, b, c} \subseteq Nodes
      /\ v # w /\ v # a /\ v # b /\ v # c /\ w # a /\ w # b /\ w # c
      /\ a # b /\ a # c /\ b # c
      /\ t.parent[w] = v /\ t.parent[a] = v /\ t.parent[b] = w /\ t.parent[c] = w
      /\ t.pos[w] < t.pos[v] /\ t.pos[a] < t.pos[v] /\ t.pos[b] < t.pos[w] /\ t.pos[c] < t.pos[w]
  BY LeftNodes
<1>2. /\ t.left \in [Nodes -> Nodes \cup {None}] /\ t.right \in [Nodes -> Nodes \cup {None}]
      /\ t.parent \in [Nodes -> Nodes \cup {None}]
  BY DEF Consistent
<1>3. /\ u.left = [t.left EXCEPT ![v] = w, ![w] = a]
      /\ u.right = [t.right EXCEPT ![v] = c, ![w] = b]
      /\ u.parent = [[t.parent EXCEPT ![a] = w] EXCEPT ![c] = v]
  BY DEF LeftRotated, Adopted, SameLinks
<1>4. t.left[v] = a /\ t.left[w] = b /\ t.right[v] = w /\ t.right[w] = c
  OBVIOUS
<1> HIDE DEF w, a, b, c
<1>5. /\ u.left[v] = w /\ u.right[v] = c /\ u.left[w] = a /\ u.right[w] = b
      /\ \A n \in Nodes \ {v, w} : u.left[n] = t.left[n] /\ u.right[n] = t.right[n]
      /\ \A n \in Nodes \ {a, c} : u.parent[n] = t.parent[n]
      /\ u.parent[a] = w /\ u.parent[c] = v
  BY <1>1, <1>2, <1>3
<1>6. PICK f : ListsLeaves(f, t) /\ Leaves(t) = f[RootOf(t)]
  BY LeavesListed
<1>7. PICK g : ListsLeaves(g, u) /\ Leaves(u) = g[RootOf(u)]
  BY LeavesListed
<1>8. PICK h \in [Nodes -> Seq(Nodes)] : ListsLeaves(h, t)
  BY LeavesExist
<1> DEFINE Same == {k \in 0 .. NumNodes :
                      \A n \in Nodes : t.pos[n] <= k => f[n] = h[n] /\ (n # w => g[n] = f[n])}
<1>9. 0 \in Same
  BY <1>0
<1>10. ASSUME NEW k \in 0 .. NumNodes - 1, k \in Same, NEW n \in Nodes, t.pos[n] <= k + 1
       PROVE  f[n] = h[n] /\ (n # w => g[n] = f[n])
  <2>0. \A m \in Nodes : t.pos[m] < t.pos[n] => f[m] = h[m] /\ (m # w => g[m] = f[m])
    <3> SUFFICES ASSUME NEW m \in Nodes, t.pos[m] < t.pos[n]
                 PROVE  f[m] = h[m] /\ (m # w => g[m] = f[m])
      OBVIOUS
    <3>1. \A i \in Nodes : t.pos[i] \in Nat
      BY <1>0
    <3>2. t.pos[m] \in Nat /\ t.pos[n] \in Nat
      BY <3>1
    <3>3. k \in Nat
      BY <1>0
    <3>4. t.pos[m] <= k
      BY <1>10, <3>2, <3>3
    <3> QED BY <1>10, <3>4
  <2>1. CASE t.left[n] = None
    <3>1. n \notin {v, w}
      BY <1>0, <1>1, <1>4, <2>1
    <3>2. u.left[n] = None
      BY <1>5, <2>1, <3>1
    <3> QED BY <1>6, <1>7, <1>8, <2>1, <3>2 DEF ListsLeaves
  <2>2. CASE t.left[n] # None
    <3>1. /\ t.left[n] \in Nodes /\ t.right[n] \in Nodes
          /\ t.parent[t.left[n]] = n /\ t.parent[t.right[n]] = n
          /\ t.pos[t.left[n]] < t.pos[n] /\ t.pos[t.right[n]] < t.pos[n]
      BY <2>2, ChildrenOf
    <3>2. f[t.left[n]] = h[t.left[n]] /\ f[t.right[n]] = h[t.right[n]]
      BY <2>0, <3>1
    <3>3. f[n] = f[t.left[n]] \o f[t.right[n]] /\ h[n] = h[t.left[n]] \o h[t.right[n]]
      BY <1>6, <1>8, <2>2 DEF ListsLeaves
    <3>4. f[n] = h[n]
      BY <3>2, <3>3
    <3>5. CASE n = v
      <4>1. g[w] = g[a] \o g[b] /\ g[v] = g[w] \o g[c]
        BY ZenonT(40), <1>0, <1>1, <1>5, <1>7 DEF ListsLeaves
      <4>2. f[w] = f[b] \o f[c] /\ f[v] = f[a] \o f[w]
        BY <1>0, <1>1, <1>4, <1>6 DEF ListsLeaves
      <4>3. t.pos[b] < t.pos[v] /\ t.pos[c] < t.pos[v]
        <5>1. t.pos[b] \in Nat /\ t.pos[c] \in Nat /\ t.pos[v] \in Nat /\ t.pos[w] \in Nat
          BY <1>0, <1>1
        <5> QED BY SMTT(20), <1>1, <5>1
      <4>4. /\ g[a] = f[a] /\ g[b] = f[b] /\ g[c] = f[c]
            /\ f[a] = h[a] /\ f[b] = h[b] /\ f[c] = h[c]
        BY <1>1, <2>0, <3>5, <4>3
      <4>5. h[a] \in Seq(Nodes) /\ h[b] \in Seq(Nodes) /\ h[c] \in Seq(Nodes)
        BY <1>1
      <4>6. (h[a] \o h[b]) \o h[c] = h[a] \o (h[b] \o h[c])
        BY <4>5, Regrouped
      <4> QED BY <3>4, <3>5, <4>1, <4>2, <4>4, <4>6
    <3>6. CASE n # v
      <4>1. t.left[n] # w /\ t.right[n] # w
        BY <1>1, <3>1, <3>6
      <4>2. n # w => u.left[n] = t.left[n] /\ u.right[n] = t.right[n]
        BY <1>5, <3>6
      <4>3. n # w => g[n] = g[t.left[n]] \o g[t.right[n]]
        BY <1>7, <2>2, <4>2 DEF ListsLeaves
      <4>4. g[t.left[n]] = f[t.left[n]] /\ g[t.right[n]] = f[t.right[n]]
        BY <2>0, <3>1, <4>1
      <4> QED BY <3>3, <3>4, <4>3, <4>4
    <3> QED BY <3>5, <3>6
  <2> QED BY <2>1, <2>2
<1>11. NumNodes \in Same
  <2>1. \A k \in 0 .. NumNodes - 1 : k \in Same => k + 1 \in Same
    <3> SUFFICES ASSUME NEW k \in 0 .. NumNodes - 1, k \in Same PROVE k + 1 \in Same
      OBVIOUS
    <3>1. \A n \in Nodes : t.pos[n] <= k + 1 => f[n] = h[n] /\ (n # w => g[n] = f[n])
      <4> HIDE DEF Same
      <4> QED BY <1>10
    <3>2. k + 1 \in 0 .. NumNodes
      BY <1>0
    <3> QED BY <3>1, <3>2
  <2> HIDE DEF Same
  <2>2. 0 .. NumNodes \subseteq Same
    BY <1>0, <1>9, <2>1, BoundedInduction
  <2> QED BY <1>0, <2>2
<1>12. \A n \in Nodes \ {w} : g[n] = f[n]
  BY <1>0, <1>11
<1>13. PICK r \in Nodes : \A n \in Nodes : t.parent[n] = None <=> n = r
  BY DEF Consistent
<1>14. RootOf(t) = r
  BY <1>2, <1>13 DEF RootOf, Consistent
<1>15. PICK q \in Nodes : \A n \in Nodes : u.parent[n] = None <=> n = q
  BY DEF Consistent
<1>16. RootOf(u) = q
  BY <1>15 DEF RootOf, Consistent
<1>17. q = r
  <2>1. r # a /\ r # c /\ r # w
    BY <1>0, <1>1, <1>13
  <2> QED BY <1>5, <1>13, <1>15, <2>1
<1>18. r # w
  BY <1>0, <1>1, <1>13
<1> QED BY <1>6, <1>7, <1>12, <1>14, <1>16, <1>17, <1>18

LEMMA RightKeepsLeaves ==
  ASSUME NEW t, Consistent(t), NEW v \in Nodes, CanRight(t, v)
  PROVE  Leaves(RightRotated(t, v)) = Leaves(t)
<1> DEFINE u == RightRotated(t, v)
<1>1. Consistent(u) /\ CanLeft(u, v) /\ SameLinks(t, LeftRotated(u, v))
  BY RightKeeps, RightUndone DEF SameLinks
<1> HIDE DEF u
<1>2. Leaves(t) = Leaves(u)
  BY <1>1, LeftKeepsLeaves
<1> QED BY <1>2 DEF u

\* In a tree of any size a rotation keeps the leaves in order, changes the children
\* of two nodes and is undone by its mirror (rotate_left, rotate_right).
THEOREM RotationsAreAlwaysLocal == Spec => []RotationsAreLocal
<1>1. TreeConsistent => RotationsAreLocal
  <2> SUFFICES ASSUME Consistent(tree) PROVE RotationsAreLocal
    BY DEF TreeConsistent
  <2>1. tree.left = left /\ tree.right = right
    BY DEF tree
  <2> HIDE DEF tree
  <2>2. ASSUME NEW v \in Nodes, CanLeft(tree, v)
        PROVE  /\ Leaves(LeftRotated(tree, v)) = Leaves(tree)
               /\ CanRight(LeftRotated(tree, v), v)
               /\ SameLinks(RightRotated(LeftRotated(tree, v), v), tree)
               /\ \A n \in Nodes \ {v, right[v]} :
                    LeftRotated(tree, v).left[n] = left[n] /\ LeftRotated(tree, v).right[n] = right[n]
    <3>1. Consistent(LeftRotated(tree, v)) /\ SameLinks(LeftRotated(tree, v), LeftRotated(tree, v))
      BY <2>2, LeftKeeps DEF SameLinks
    <3>2. Leaves(LeftRotated(tree, v)) = Leaves(tree)
      BY <2>2, <3>1, LeftKeepsLeaves
    <3> QED BY <2>1, <2>2, <3>2, LeftUndone
  <2>3. ASSUME NEW v \in Nodes, CanRight(tree, v)
        PROVE  /\ Leaves(RightRotated(tree, v)) = Leaves(tree)
               /\ CanLeft(RightRotated(tree, v), v)
               /\ SameLinks(LeftRotated(RightRotated(tree, v), v), tree)
               /\ \A n \in Nodes \ {v, left[v]} :
                    RightRotated(tree, v).left[n] = left[n] /\ RightRotated(tree, v).right[n] = right[n]
    BY <2>1, <2>3, RightUndone, RightKeepsLeaves
  <2>4. MirrorUndoes
    BY <2>2, <2>3 DEF MirrorUndoes
  <2> QED BY <2>2, <2>3, <2>4 DEF RotationsAreLocal
<1> QED BY <1>1, TreeStaysConsistent, PTL

-----------------------------------------------------------------------------
(***************************************************************************)
(* The walk to the lowest common ancestor.                                 *)
(***************************************************************************)

\* How far below the top a node is in the order; 0 off the top.
Depth(n) == IF n = None THEN 0 ELSE NumNodes + 1 - topoPos[n]

LEMMA TreeFields ==
  ASSUME Consistent(tree)
  PROVE  /\ NumNodes \in Nat /\ Nodes = 1 .. NumNodes /\ None \notin Nodes /\ None = 0
         /\ left \in [Nodes -> Nodes \cup {None}] /\ right \in [Nodes -> Nodes \cup {None}]
         /\ parent \in [Nodes -> Nodes \cup {None}] /\ topoPos \in [Nodes -> Nodes]
         /\ \A m, n \in Nodes : topoPos[m] = topoPos[n] => m = n
         /\ \A n \in Nodes : parent[n] # None => topoPos[n] < topoPos[parent[n]]
         /\ \E r \in Nodes : \A n \in Nodes : parent[n] = None <=> n = r
<1>1. tree.left = left /\ tree.right = right /\ tree.parent = parent /\ tree.pos = topoPos
  BY DEF tree
<1>2. NumNodes \in Nat /\ Nodes = 1 .. NumNodes /\ None = 0 /\ None \notin Nodes
  BY VtreeAssumption DEF Nodes, None
<1>3. ASSUME NEW n \in Nodes, parent[n] # None
      PROVE  topoPos[n] < topoPos[parent[n]]
  <2>1. parent[n] \in Nodes /\ n \in {left[parent[n]], right[parent[n]]}
    BY <1>1, <1>3 DEF Consistent
  <2>2. n # None
    BY <1>2
  <2> QED BY <1>1, <2>1, <2>2 DEF Consistent
<1>4. /\ left \in [Nodes -> Nodes \cup {None}] /\ right \in [Nodes -> Nodes \cup {None}]
      /\ parent \in [Nodes -> Nodes \cup {None}] /\ topoPos \in [Nodes -> Nodes]
  BY <1>1 DEF Consistent
<1>5. \A m, n \in Nodes : topoPos[m] = topoPos[n] => m = n
  BY <1>1 DEF Consistent
<1>6. \E r \in Nodes : \A n \in Nodes : parent[n] = None <=> n = r
  BY <1>1 DEF Consistent
<1> QED BY <1>2, <1>3, <1>4, <1>5, <1>6

LEMMA AboveListed ==
  ASSUME Consistent(tree)
  PROVE  \A n \in Nodes : Above[n] = {n} \cup IF parent[n] = None THEN {} ELSE Above[parent[n]]
<1> DEFINE Sets == [Nodes -> SUBSET Nodes]
           step == [p \in Nodes \X Sets |->
                      {p[1]} \cup IF parent[p[1]] = None THEN {} ELSE p[2][parent[p[1]]]]
           rank == [n \in Nodes |-> NumNodes - topoPos[n]]
           above == CHOOSE f : f = [n \in Nodes |->
                                      {n} \cup IF parent[n] = None THEN {} ELSE f[parent[n]]]
<1>0. /\ NumNodes \in Nat /\ Nodes = 1 .. NumNodes /\ None \notin Nodes
      /\ parent \in [Nodes -> Nodes \cup {None}] /\ topoPos \in [Nodes -> Nodes]
      /\ \A n \in Nodes : parent[n] # None => topoPos[n] < topoPos[parent[n]]
  BY TreeFields
<1>1. rank \in [Nodes -> 0 .. NumNodes]
  BY <1>0
<1>2. step \in [Nodes \X Sets -> SUBSET Nodes]
  <2>1. ASSUME NEW n \in Nodes, NEW f \in Sets
        PROVE  ({n} \cup IF parent[n] = None THEN {} ELSE f[parent[n]]) \in SUBSET Nodes
    <3>1. parent[n] # None => parent[n] \in Nodes
      BY <1>0
    <3> QED BY <3>1
  <2> QED BY <2>1
<1>3. \A n \in Nodes, f \in Sets :
        step[<<n, f>>] = {n} \cup IF parent[n] = None THEN {} ELSE f[parent[n]]
  OBVIOUS
<1> HIDE DEF step
<1>4. Recursion(step, rank, NumNodes, Nodes, SUBSET Nodes)
  <2> SUFFICES ASSUME NEW n \in Nodes, NEW f \in Sets, NEW g \in Sets,
                      \A m \in Nodes : rank[m] < rank[n] => f[m] = g[m]
               PROVE  step[<<n, f>>] = step[<<n, g>>]
    <3> HIDE DEF rank
    <3> QED BY <1>0, <1>1, <1>2 DEF Recursion
  <2>1. ASSUME parent[n] # None PROVE f[parent[n]] = g[parent[n]]
    <3>1. parent[n] \in Nodes /\ topoPos[n] < topoPos[parent[n]]
      BY <1>0, <2>1
    <3>2. rank[parent[n]] < rank[n]
      BY <1>0, <3>1
    <3> QED BY <3>1, <3>2
  <2>2. /\ step[<<n, f>>] = {n} \cup IF parent[n] = None THEN {} ELSE f[parent[n]]
        /\ step[<<n, g>>] = {n} \cup IF parent[n] = None THEN {} ELSE g[parent[n]]
    BY <1>3
  <2> QED BY <2>1, <2>2
<1>5. {} \in SUBSET Nodes
  OBVIOUS
<1>6. PICK f : Recurses(f, step, Nodes, SUBSET Nodes)
  <2> HIDE DEF rank
  <2> QED BY <1>4, <1>5, RankedRecursion
<1>. USE DEF Recurses
<1>7. f = [n \in Nodes |-> {n} \cup IF parent[n] = None THEN {} ELSE f[parent[n]]]
  BY ZenonT(40), <1>3, <1>6
<1>8. above = [n \in Nodes |-> {n} \cup IF parent[n] = None THEN {} ELSE above[parent[n]]]
  BY <1>7
<1>9. Above = above
  BY Zenon DEF Above
<1> HIDE DEF above
<1> QED BY <1>8, <1>9

LEMMA LcaListed ==
  ASSUME Consistent(tree)
  PROVE  \A a, b \in Nodes \cup {None} :
           Lca[<<a, b>>] = IF a = b \/ None \in {a, b} THEN a
                           ELSE IF Climbs(a, b) THEN Lca[<<parent[a], b>>] ELSE Lca[<<a, parent[b]>>]
<1> DEFINE Points == Nodes \cup {None}
           Pairs == Points \X Points
           Meets == [Pairs -> Points]
           Turn(f, a, b) == IF a = b \/ None \in {a, b} THEN a
                            ELSE IF Climbs(a, b) THEN f[<<parent[a], b>>] ELSE f[<<a, parent[b]>>]
           step == [p \in Pairs \X Meets |-> Turn(p[2], p[1][1], p[1][2])]
           rank == [p \in Pairs |-> Depth(p[1]) + Depth(p[2])]
           meet == CHOOSE f : f = [p \in Pairs |-> Turn(f, p[1], p[2])]
<1>0. /\ NumNodes \in Nat /\ Nodes = 1 .. NumNodes /\ None \notin Nodes /\ None = 0
      /\ parent \in [Nodes -> Nodes \cup {None}] /\ topoPos \in [Nodes -> Nodes]
      /\ \A n \in Nodes : parent[n] # None => topoPos[n] < topoPos[parent[n]]
  BY TreeFields
<1>1. \A a \in Points : Depth(a) \in 0 .. NumNodes
  BY SMTT(20), <1>0 DEF Depth
<1>2. ASSUME NEW a \in Nodes
      PROVE  parent[a] \in Points /\ Depth(parent[a]) < Depth(a)
  <2>1. topoPos[a] \in 1 .. NumNodes /\ parent[a] \in Points
    BY <1>0
  <2>2. CASE parent[a] = None
    <3>1. Depth(parent[a]) = 0 /\ Depth(a) = NumNodes + 1 - topoPos[a]
      BY <1>0, <2>2 DEF Depth
    <3>2. topoPos[a] \in Int /\ NumNodes \in Int /\ topoPos[a] <= NumNodes
      BY <1>0, <2>1
    <3> QED BY <2>1, <3>1, <3>2
  <2>3. CASE parent[a] # None
    <3>1. topoPos[parent[a]] \in 1 .. NumNodes /\ topoPos[a] < topoPos[parent[a]]
      BY <1>0, <2>1, <2>3
    <3>2. Depth(parent[a]) = NumNodes + 1 - topoPos[parent[a]] /\ Depth(a) = NumNodes + 1 - topoPos[a]
      BY <1>0, <2>3 DEF Depth
    <3>3. topoPos[a] \in Int /\ topoPos[parent[a]] \in Int /\ NumNodes \in Int
      BY <1>0, <2>1, <3>1
    <3> QED BY <2>1, <3>1, <3>2, <3>3
  <2> QED BY <2>2, <2>3
<1>3. rank \in [Pairs -> 0 .. NumNodes + NumNodes] /\ NumNodes + NumNodes \in Nat
  <2>1. ASSUME NEW a \in Points, NEW b \in Points
        PROVE  Depth(a) + Depth(b) \in 0 .. NumNodes + NumNodes
    <3>1. Depth(a) \in 0 .. NumNodes /\ Depth(b) \in 0 .. NumNodes
      BY <1>1
    <3>2. NumNodes \in Nat
      BY <1>0
    <3> QED BY <3>1, <3>2
  <2>2. NumNodes + NumNodes \in Nat
    BY <1>0
  <2>3. \A p \in Pairs : p[1] \in Points /\ p[2] \in Points
    OBVIOUS
  <2> HIDE DEF Pairs, Points
  <2> QED BY <2>1, <2>2, <2>3
<1>4. ASSUME NEW f \in Meets, NEW a \in Points, NEW b \in Points
      PROVE  Turn(f, a, b) \in Points
  <2>1. a # None => parent[a] \in Points
    BY <1>2
  <2>2. b # None => parent[b] \in Points
    BY <1>2
  <2> QED BY <2>1, <2>2
<1>5. step \in [Pairs \X Meets -> Points]
  <2> HIDE DEF Turn
  <2>1. ASSUME NEW p \in Pairs, NEW f \in Meets PROVE Turn(f, p[1], p[2]) \in Points
    BY <1>4
  <2> QED BY <2>1
<1>6. \A a, b \in Points, f \in Meets : step[<<<<a, b>>, f>>] = Turn(f, a, b)
  <2> HIDE DEF Turn
  <2> QED OBVIOUS
<1> HIDE DEF step
<1>7. Recursion(step, rank, NumNodes + NumNodes, Pairs, Points)
  <2> SUFFICES ASSUME NEW p \in Pairs, NEW f \in Meets, NEW g \in Meets,
                      \A q \in Pairs : rank[q] < rank[p] => f[q] = g[q]
               PROVE  step[<<p, f>>] = step[<<p, g>>]
    <3> HIDE DEF rank, Pairs, Points
    <3> QED BY <1>3, <1>5 DEF Recursion
  <2>0. PICK a \in Points, b \in Points : p = <<a, b>>
    OBVIOUS
  <2>1. ASSUME a # None PROVE f[<<parent[a], b>>] = g[<<parent[a], b>>]
    <3>0. rank[<<parent[a], b>>] < rank[p] /\ <<parent[a], b>> \in Pairs => f[<<parent[a], b>>] = g[<<parent[a], b>>]
      <4> HIDE DEF rank, Pairs
      <4> QED OBVIOUS
    <3>1. <<parent[a], b>> \in Pairs /\ Depth(parent[a]) < Depth(a)
      BY <1>2, <2>1
    <3>2. rank[<<parent[a], b>>] < rank[<<a, b>>]
      <4>1. Depth(a) \in Int /\ Depth(b) \in Int /\ Depth(parent[a]) \in Int
        BY <1>1, <3>1
      <4> QED BY <3>1, <4>1
    <3> HIDE DEF rank
    <3> QED BY <2>0, <3>0, <3>1, <3>2
  <2>2. ASSUME b # None PROVE f[<<a, parent[b]>>] = g[<<a, parent[b]>>]
    <3>0. rank[<<a, parent[b]>>] < rank[p] /\ <<a, parent[b]>> \in Pairs => f[<<a, parent[b]>>] = g[<<a, parent[b]>>]
      <4> HIDE DEF rank, Pairs
      <4> QED OBVIOUS
    <3>1. <<a, parent[b]>> \in Pairs /\ Depth(parent[b]) < Depth(b)
      BY <1>2, <2>2
    <3>2. rank[<<a, parent[b]>>] < rank[<<a, b>>]
      <4>1. Depth(a) \in Int /\ Depth(b) \in Int /\ Depth(parent[b]) \in Int
        BY <1>1, <3>1
      <4> QED BY <3>1, <4>1
    <3> HIDE DEF rank
    <3> QED BY <2>0, <3>0, <3>1, <3>2
  <2>3. Turn(f, a, b) = Turn(g, a, b)
    BY <2>1, <2>2
  <2> HIDE DEF Turn, Meets, Points
  <2> QED BY <1>6, <2>0, <2>3
<1>8. None \in Points
  OBVIOUS
<1>9. PICK f : Recurses(f, step, Pairs, Points)
  <2> HIDE DEF rank, Pairs, Points
  <2> QED BY <1>7, <1>8, RankedRecursion
<1>. USE DEF Recurses
<1>10. f = [p \in Pairs |-> Turn(f, p[1], p[2])]
  <2> HIDE DEF Turn
  <2>1. ASSUME NEW p \in Pairs PROVE f[p] = Turn(f, p[1], p[2])
    <3>1. p = <<p[1], p[2]>> /\ p[1] \in Points /\ p[2] \in Points
      OBVIOUS
    <3> HIDE DEF Points
    <3> QED BY <1>6, <1>9, <3>1
  <2>2. f \in Meets
    BY <1>9
  <2> HIDE DEF Pairs
  <2> QED BY <2>1, <2>2
<1>11. meet = [p \in Pairs |-> Turn(meet, p[1], p[2])]
  <2> HIDE DEF Turn
  <2> QED BY <1>10
<1>12. Lca = meet
  BY Zenon DEF Lca
<1> HIDE DEF meet
<1>13. \A a, b \in Points : meet[<<a, b>>] = Turn(meet, a, b)
  <2> HIDE DEF Turn
  <2> QED BY <1>11
<1> QED BY <1>12, <1>13

\* Who lies above a node lies after it, the root is above everybody.
LEMMA AboveLiesAfter ==
  ASSUME Consistent(tree), NEW r \in Nodes, \A n \in Nodes : parent[n] = None <=> n = r
  PROVE  \A n \in Nodes : /\ Above[n] \subseteq Nodes /\ {n, r} \subseteq Above[n]
                          /\ \A m \in Above[n] : topoPos[n] <= topoPos[m]
<1> DEFINE Goes(n) == /\ Above[n] \subseteq Nodes /\ {n, r} \subseteq Above[n]
                      /\ \A m \in Above[n] : topoPos[n] <= topoPos[m]
           Good == {k \in 0 .. NumNodes : \A n \in Nodes : NumNodes - topoPos[n] < k => Goes(n)}
<1>0. /\ NumNodes \in Nat /\ Nodes = 1 .. NumNodes /\ None \notin Nodes
      /\ parent \in [Nodes -> Nodes \cup {None}] /\ topoPos \in [Nodes -> Nodes]
      /\ \A n \in Nodes : parent[n] # None => topoPos[n] < topoPos[parent[n]]
  BY TreeFields
<1>a. \A n \in Nodes : topoPos[n] \in Int /\ 1 <= topoPos[n] /\ topoPos[n] <= NumNodes
  BY <1>0
<1>1. 0 \in Good
  BY <1>0, <1>a
<1>2. ASSUME NEW k \in 0 .. NumNodes - 1, k \in Good, NEW n \in Nodes, NumNodes - topoPos[n] < k + 1
      PROVE  Goes(n)
  <2>1. CASE parent[n] = None
    <3>1. Above[n] = {n} /\ n = r
      BY <2>1, AboveListed
    <3> QED BY <1>a, <3>1
  <2>2. CASE parent[n] # None
    <3> DEFINE p == parent[n]
    <3>1. p \in Nodes /\ topoPos[n] < topoPos[p] /\ Above[n] = {n} \cup Above[p]
      BY <1>0, <2>2, AboveListed
    <3>2. topoPos[n] \in Int /\ topoPos[p] \in Int /\ NumNodes \in Int /\ k \in Int
      BY <1>0, <1>a, <3>1
    <3> HIDE DEF p, Goes
    <3>3. NumNodes - topoPos[p] < k
      BY <1>2, <3>1, <3>2
    <3>4. Goes(p)
      BY <1>2, <3>1, <3>3
    <3>5. \A m \in Above[p] : topoPos[m] \in Int /\ topoPos[p] <= topoPos[m]
      BY <1>a, <3>4 DEF Goes
    <3>6. \A m \in Above[p] : topoPos[n] <= topoPos[m]
      BY <3>1, <3>2, <3>5
    <3>7. Above[n] \subseteq Nodes /\ {n, r} \subseteq Above[n]
      BY <3>1, <3>4 DEF Goes
    <3>8. \A m \in Above[n] : topoPos[n] <= topoPos[m]
      BY <3>1, <3>2, <3>6
    <3> QED BY <3>7, <3>8 DEF Goes
  <2> QED BY <2>1, <2>2
<1>3. NumNodes \in Good
  <2>1. \A k \in 0 .. NumNodes - 1 : k \in Good => k + 1 \in Good
    <3> SUFFICES ASSUME NEW k \in 0 .. NumNodes - 1, k \in Good PROVE k + 1 \in Good
      OBVIOUS
    <3>1. \A n \in Nodes : NumNodes - topoPos[n] < k + 1 => Goes(n)
      <4> HIDE DEF Good, Goes
      <4> QED BY <1>2
    <3>2. k + 1 \in 0 .. NumNodes
      BY <1>0
    <3> HIDE DEF Goes
    <3> QED BY <3>1, <3>2
  <2> HIDE DEF Good
  <2>2. 0 .. NumNodes \subseteq Good
    BY <1>0, <1>1, <2>1, BoundedInduction
  <2> QED BY <1>0, <2>2
<1>4. \A n \in Nodes : NumNodes - topoPos[n] < NumNodes
  BY <1>0, <1>a
<1>5. \A n \in Nodes : Goes(n)
  <2> HIDE DEF Goes
  <2> QED BY <1>3, <1>4
<1> QED BY <1>5

Lowest(a, b) ==
  /\ Lca[<<a, b>>] \in Above[a] \cap Above[b]
  /\ Above[a] \cap Above[b] \subseteq Above[Lca[<<a, b>>]]

\* One turn of the walk leaves the common ancestors what they are.
LEMMA OneClimbs ==
  ASSUME Consistent(tree), NEW a \in Nodes, NEW b \in Nodes, a # b
  PROVE  \/ /\ parent[a] \in Nodes /\ Depth(parent[a]) < Depth(a)
            /\ Lowest(parent[a], b) => Lowest(a, b)
         \/ /\ parent[b] \in Nodes /\ Depth(parent[b]) < Depth(b)
            /\ Lowest(a, parent[b]) => Lowest(a, b)
<1>0. /\ NumNodes \in Nat /\ Nodes = 1 .. NumNodes /\ None \notin Nodes /\ None = 0
      /\ parent \in [Nodes -> Nodes \cup {None}] /\ topoPos \in [Nodes -> Nodes]
      /\ \A m, n \in Nodes : topoPos[m] = topoPos[n] => m = n
      /\ \A n \in Nodes : parent[n] # None => topoPos[n] < topoPos[parent[n]]
  BY TreeFields
<1>1. PICK r \in Nodes : \A n \in Nodes : parent[n] = None <=> n = r
  BY TreeFields
<1>2. \A n \in Nodes : /\ Above[n] \subseteq Nodes /\ {n, r} \subseteq Above[n]
                       /\ \A m \in Above[n] : topoPos[n] <= topoPos[m]
  BY <1>1, AboveLiesAfter
<1>3. \A n \in Nodes : topoPos[n] \in Int
  BY <1>0
\* Who lies lower is not above the other, nor the root.
<1>4. ASSUME NEW x \in Nodes, NEW y \in Nodes, topoPos[x] < topoPos[y]
      PROVE  /\ parent[x] \in Nodes /\ Depth(parent[x]) < Depth(x)
             /\ Above[x] \cap Above[y] = Above[parent[x]] \cap Above[y]
             /\ Above[parent[x]] \subseteq Above[x]
  <2>1. x \notin Above[y]
    BY <1>2, <1>3, <1>4
  <2>2. x # r
    BY <1>2, <2>1
  <2>3. parent[x] \in Nodes /\ topoPos[x] < topoPos[parent[x]] /\ parent[x] # None
    BY <1>0, <1>1, <2>2
  <2>4. Above[x] = {x} \cup Above[parent[x]]
    BY <2>3, AboveListed
  <2>5. Depth(parent[x]) = NumNodes + 1 - topoPos[parent[x]] /\ Depth(x) = NumNodes + 1 - topoPos[x]
    BY <1>0, <2>3 DEF Depth
  <2>6. topoPos[x] \in Int /\ topoPos[parent[x]] \in Int /\ NumNodes \in Int
    BY <1>0, <1>3, <2>3
  <2>7. Depth(parent[x]) < Depth(x)
    BY <2>3, <2>5, <2>6
  <2> QED BY <2>1, <2>3, <2>4, <2>7
<1>5. CASE topoPos[a] < topoPos[b]
  <2>1. Lca[<<a, b>>] = Lca[<<parent[a], b>>]
    BY ZenonT(40), <1>0, <1>5, LcaListed DEF Climbs
  <2> QED BY <1>4, <1>5, <2>1 DEF Lowest
<1>6. CASE ~ (topoPos[a] < topoPos[b])
  <2>1. topoPos[b] < topoPos[a]
    BY <1>0, <1>3, <1>6
  <2>2. Lca[<<a, b>>] = Lca[<<a, parent[b]>>]
    <3>1. ~ Climbs(a, b)
      BY <1>6 DEF Climbs
    <3>2. None \notin {a, b}
      BY <1>0
    <3> QED BY <3>1, <3>2, LcaListed
  <2> QED BY <1>4, <2>1, <2>2 DEF Lowest
<1> QED BY <1>5, <1>6

LEMMA WalkEndsLowest ==
  ASSUME Consistent(tree)
  PROVE  LcaIsLowest
<1> DEFINE Good == {k \in 0 .. NumNodes + NumNodes :
                      \A a, b \in Nodes : Depth(a) + Depth(b) <= k => Lowest(a, b)}
<1>0. NumNodes \in Nat /\ Nodes = 1 .. NumNodes /\ None \notin Nodes /\ topoPos \in [Nodes -> Nodes]
  BY TreeFields
<1>1. \A n \in Nodes : Depth(n) \in Int /\ 1 <= Depth(n) /\ Depth(n) <= NumNodes
  <2> SUFFICES ASSUME NEW n \in Nodes PROVE Depth(n) \in Int /\ 1 <= Depth(n) /\ Depth(n) <= NumNodes
    OBVIOUS
  <2>1. topoPos[n] \in Int /\ 1 <= topoPos[n] /\ topoPos[n] <= NumNodes /\ NumNodes \in Int
    BY <1>0
  <2>2. Depth(n) = NumNodes + 1 - topoPos[n]
    BY <1>0 DEF Depth
  <2> QED BY <2>1, <2>2
<1>2. 0 \in Good
  BY <1>0, <1>1
<1>3. ASSUME NEW k \in 0 .. (NumNodes + NumNodes) - 1, k \in Good,
             NEW a \in Nodes, NEW b \in Nodes, Depth(a) + Depth(b) <= k + 1
      PROVE  Lowest(a, b)
  <2>0. Depth(a) \in Int /\ Depth(b) \in Int /\ k \in Int
    BY <1>0, <1>1
  <2>1. CASE a = b
    <3>1. Lca[<<a, b>>] = a
      BY <2>1, LcaListed
    <3>2. a \in Above[a]
      BY AboveListed
    <3> QED BY <2>1, <3>1, <3>2 DEF Lowest
  <2>2. CASE a # b /\ parent[a] \in Nodes /\ Depth(parent[a]) < Depth(a)
             /\ (Lowest(parent[a], b) => Lowest(a, b))
    <3>1. Depth(parent[a]) \in Int
      BY <1>1, <2>2
    <3>2. Depth(parent[a]) + Depth(b) <= k
      BY <1>3, <2>0, <2>2, <3>1
    <3> QED BY <1>3, <2>2, <3>2
  <2>3. CASE a # b /\ parent[b] \in Nodes /\ Depth(parent[b]) < Depth(b)
             /\ (Lowest(a, parent[b]) => Lowest(a, b))
    <3>1. Depth(parent[b]) \in Int
      BY <1>1, <2>3
    <3>2. Depth(a) + Depth(parent[b]) <= k
      BY <1>3, <2>0, <2>3, <3>1
    <3> QED BY <1>3, <2>3, <3>2
  <2> HIDE DEF Good
  <2> QED BY <2>1, <2>2, <2>3, OneClimbs
<1>4. NumNodes + NumNodes \in Good
  <2>0. NumNodes + NumNodes \in Nat
    BY <1>0
  <2>1. \A k \in 0 .. (NumNodes + NumNodes) - 1 : k \in Good => k + 1 \in Good
    <3> SUFFICES ASSUME NEW k \in 0 .. (NumNodes + NumNodes) - 1, k \in Good PROVE k + 1 \in Good
      OBVIOUS
    <3>1. \A a, b \in Nodes : Depth(a) + Depth(b) <= k + 1 => Lowest(a, b)
      <4> HIDE DEF Good
      <4> QED BY <1>3
    <3>2. k + 1 \in 0 .. NumNodes + NumNodes
      BY <2>0
    <3> QED BY <3>1, <3>2
  <2> DEFINE twice == NumNodes + NumNodes
  <2> HIDE DEF Good, twice
  <2>2. 0 .. twice \subseteq Good
    BY <1>2, <2>0, <2>1, BoundedInduction DEF twice
  <2> QED BY <2>0, <2>2 DEF twice
<1>5. ASSUME NEW a \in Nodes, NEW b \in Nodes PROVE Lowest(a, b)
  <2>1. Depth(a) + Depth(b) <= NumNodes + NumNodes
    <3>1. Depth(a) \in Int /\ Depth(b) \in Int /\ Depth(a) <= NumNodes /\ Depth(b) <= NumNodes /\ NumNodes \in Int
      BY <1>0, <1>1
    <3> QED BY <3>1
  <2> QED BY <1>4, <2>1
<1> QED BY <1>5 DEF LcaIsLowest, Lowest

-----------------------------------------------------------------------------
(***************************************************************************)
(* The lines of the text, and the arena read from them.                    *)
(***************************************************************************)
LEMMA TopoInverts ==
  ASSUME Consistent(tree)
  PROVE  /\ \A n \in Nodes : Topo[topoPos[n]] = n
         /\ \A i \in Nodes : Topo[i] \in Nodes /\ topoPos[Topo[i]] = i
<1>0. /\ NumNodes \in Nat /\ Nodes = 1 .. NumNodes /\ topoPos \in [Nodes -> Nodes]
      /\ \A m, n \in Nodes : topoPos[m] = topoPos[n] => m = n
  BY TreeFields
<1>1. topoPos \in Injection(Nodes, Nodes)
  BY <1>0 DEF Injection, IsInjective
<1>2. IsFiniteSet(Nodes)
  BY <1>0, FS_Interval
<1>3. topoPos \in Surjection(Nodes, Nodes)
  BY <1>1, <1>2, FS_Injection
<1>4. \A i \in Nodes : \E n \in Nodes : topoPos[n] = i
  BY <1>3 DEF Surjection
<1>5. \A i \in Nodes : Topo[i] = CHOOSE n \in Nodes : topoPos[n] = i
  BY DEF Topo
<1>6. ASSUME NEW i \in Nodes PROVE Topo[i] \in Nodes /\ topoPos[Topo[i]] = i
  <2>1. \E n \in Nodes : topoPos[n] = i
    BY <1>4
  <2> QED BY <1>5, <2>1
<1>7. ASSUME NEW n \in Nodes PROVE Topo[topoPos[n]] = n
  <2>1. topoPos[n] \in Nodes
    BY <1>0
  <2> QED BY <1>0, <1>6, <2>1
<1> QED BY <1>6, <1>7

\* The lines, in the order of the positions.
LEMMA LinesListed ==
  ASSUME Consistent(tree)
  PROVE  /\ DOMAIN Text = Nodes /\ Len(Text) = NumNodes
         /\ \A i \in Nodes : /\ Text[i].id = i /\ Text[i].l < i /\ Text[i].r < i
                             /\ Text[i].var = IF left[Topo[i]] = None THEN varAt[Topo[i]] ELSE 0
                             /\ Text[i].l = IF left[Topo[i]] = None THEN 0 ELSE topoPos[left[Topo[i]]]
                             /\ Text[i].r = IF left[Topo[i]] = None THEN 0 ELSE topoPos[right[Topo[i]]]
<1>0. /\ NumNodes \in Nat /\ Nodes = 1 .. NumNodes /\ None \notin Nodes /\ None = 0
      /\ topoPos \in [Nodes -> Nodes]
  BY TreeFields
<1>1. \A i \in Nodes :
        Text[i] = [id |-> LineId(Topo[i]), var |-> IF left[Topo[i]] = None THEN varAt[Topo[i]] ELSE 0,
                   l |-> IF left[Topo[i]] = None THEN None ELSE LineId(left[Topo[i]]),
                   r |-> IF left[Topo[i]] = None THEN None ELSE LineId(right[Topo[i]])]
  BY DEF Text
<1>2. DOMAIN Text = Nodes /\ Text = [i \in Nodes |-> Text[i]]
  BY DEF Text
<1>3. Len(Text) = NumNodes
  <2> DEFINE text == Text
             R == {text[i] : i \in Nodes}
  <2>1. text \in [1 .. NumNodes -> R]
    BY <1>0, <1>2
  <2> HIDE DEF text, R
  <2>2. text \in Seq(R) /\ Len(text) = NumNodes
    BY <1>0, <2>1
  <2> QED BY <2>2 DEF text
<1>4. ASSUME NEW i \in Nodes
      PROVE  /\ Text[i].id = i /\ Text[i].l < i /\ Text[i].r < i
             /\ Text[i].var = IF left[Topo[i]] = None THEN varAt[Topo[i]] ELSE 0
             /\ Text[i].l = IF left[Topo[i]] = None THEN 0 ELSE topoPos[left[Topo[i]]]
             /\ Text[i].r = IF left[Topo[i]] = None THEN 0 ELSE topoPos[right[Topo[i]]]
  <2> DEFINE n == Topo[i]
  <2>1. n \in Nodes /\ topoPos[n] = i
    BY TopoInverts
  <2> HIDE DEF n
  <2>2. tree.left = left /\ tree.right = right /\ tree.pos = topoPos
    BY DEF tree
  <2>3. left[n] # None => topoPos[left[n]] < i /\ topoPos[right[n]] < i
    BY <2>1, <2>2, ChildrenOf
  <2>40. Text[i] = [id |-> LineId(n), var |-> IF left[n] = None THEN varAt[n] ELSE 0,
                    l |-> IF left[n] = None THEN None ELSE LineId(left[n]),
                    r |-> IF left[n] = None THEN None ELSE LineId(right[n])]
    BY <1>1 DEF n
  <2>4. /\ Text[i].id = LineId(n)
        /\ Text[i].var = IF left[n] = None THEN varAt[n] ELSE 0
        /\ Text[i].l = IF left[n] = None THEN 0 ELSE LineId(left[n])
        /\ Text[i].r = IF left[n] = None THEN 0 ELSE LineId(right[n])
    BY <1>0, <2>40
  <2>5. 0 < i
    BY <1>0
  <2> QED BY <2>1, <2>3, <2>4, <2>5 DEF LineId, n
<1> QED BY <1>2, <1>3, <1>4

\* How deep a node lies.
Deep(dep) ==
  /\ dep \in [Nodes -> 0 .. NumNodes]
  /\ \A n \in Nodes : dep[n] = IF parent[n] = None THEN 0 ELSE dep[parent[n]] + 1

LEMMA DepthsExist ==
  ASSUME Consistent(tree)
  PROVE  \E dep : Deep(dep)
<1> DEFINE Deps == [Nodes -> Nat]
           step == [p \in Nodes \X Deps |-> IF parent[p[1]] = None THEN 0 ELSE p[2][parent[p[1]]] + 1]
           rank == [n \in Nodes |-> NumNodes - topoPos[n]]
<1>0. /\ NumNodes \in Nat /\ Nodes = 1 .. NumNodes /\ None \notin Nodes
      /\ parent \in [Nodes -> Nodes \cup {None}] /\ topoPos \in [Nodes -> Nodes]
      /\ \A n \in Nodes : parent[n] # None => topoPos[n] < topoPos[parent[n]]
  BY TreeFields
<1>1. rank \in [Nodes -> 0 .. NumNodes]
  BY <1>0
<1>2. step \in [Nodes \X Deps -> Nat]
  <2>1. ASSUME NEW n \in Nodes, NEW f \in Deps
        PROVE  (IF parent[n] = None THEN 0 ELSE f[parent[n]] + 1) \in Nat
    <3>1. parent[n] # None => parent[n] \in Nodes
      BY <1>0
    <3> QED BY <3>1
  <2> QED BY <2>1
<1>3. \A n \in Nodes, f \in Deps :
        step[<<n, f>>] = IF parent[n] = None THEN 0 ELSE f[parent[n]] + 1
  OBVIOUS
<1> HIDE DEF step
<1>4. Recursion(step, rank, NumNodes, Nodes, Nat)
  <2> SUFFICES ASSUME NEW n \in Nodes, NEW f \in Deps, NEW g \in Deps,
                      \A m \in Nodes : rank[m] < rank[n] => f[m] = g[m]
               PROVE  step[<<n, f>>] = step[<<n, g>>]
    <3> HIDE DEF rank
    <3> QED BY <1>0, <1>1, <1>2 DEF Recursion
  <2>1. ASSUME parent[n] # None PROVE f[parent[n]] = g[parent[n]]
    <3>1. parent[n] \in Nodes /\ topoPos[n] < topoPos[parent[n]]
      BY <1>0, <2>1
    <3>2. topoPos[n] \in Int /\ topoPos[parent[n]] \in Int /\ NumNodes \in Int
      BY <1>0, <3>1
    <3>3. rank[parent[n]] < rank[n]
      BY <3>1, <3>2
    <3> HIDE DEF rank
    <3> QED BY <3>1, <3>3
  <2>2. /\ step[<<n, f>>] = IF parent[n] = None THEN 0 ELSE f[parent[n]] + 1
        /\ step[<<n, g>>] = IF parent[n] = None THEN 0 ELSE g[parent[n]] + 1
    BY <1>3
  <2> QED BY <2>1, <2>2
<1>5. 0 \in Nat
  OBVIOUS
<1>6. PICK dep : Recurses(dep, step, Nodes, Nat)
  <2> HIDE DEF rank
  <2> QED BY <1>4, <1>5, RankedRecursion
<1>7. /\ dep \in [Nodes -> Nat]
      /\ \A n \in Nodes : dep[n] = IF parent[n] = None THEN 0 ELSE dep[parent[n]] + 1
  BY <1>3, <1>6 DEF Recurses
<1> DEFINE Good == {k \in 0 .. NumNodes : \A n \in Nodes : rank[n] <= k => dep[n] <= rank[n]}
<1>8. ASSUME NEW n \in Nodes,
             parent[n] # None => dep[parent[n]] <= rank[parent[n]]
      PROVE  dep[n] <= rank[n]
  <2>1. CASE parent[n] = None
    <3>1. rank[n] \in 0 .. NumNodes
      BY <1>1
    <3> QED BY <1>7, <2>1, <3>1
  <2>2. CASE parent[n] # None
    <3>1. parent[n] \in Nodes /\ topoPos[n] < topoPos[parent[n]] /\ dep[n] = dep[parent[n]] + 1
      BY <1>0, <1>7, <2>2
    <3>2. rank[n] = NumNodes - topoPos[n] /\ rank[parent[n]] = NumNodes - topoPos[parent[n]]
      BY <3>1
    <3>3. /\ dep[parent[n]] \in Int /\ topoPos[n] \in Int /\ topoPos[parent[n]] \in Int /\ NumNodes \in Int
      BY <1>0, <1>7, <3>1
    <3>4. dep[parent[n]] <= rank[parent[n]]
      BY <1>8, <2>2
    <3> HIDE DEF rank
    <3> QED BY <3>1, <3>2, <3>3, <3>4
  <2> QED BY <2>1, <2>2
<1>9. ASSUME NEW n \in Nodes, parent[n] # None
      PROVE  parent[n] \in Nodes /\ rank[parent[n]] < rank[n]
  <2>1. parent[n] \in Nodes /\ topoPos[n] < topoPos[parent[n]]
    BY <1>0, <1>9
  <2>2. topoPos[n] \in Int /\ topoPos[parent[n]] \in Int /\ NumNodes \in Int
    BY <1>0, <2>1
  <2> QED BY <2>1, <2>2
<1> HIDE DEF rank
<1>10. 0 \in Good
  <2>1. ASSUME NEW n \in Nodes, rank[n] <= 0 PROVE dep[n] <= rank[n]
    <3>1. parent[n] = None
      <4>1. \A m \in Nodes : rank[m] \in 0 .. NumNodes
        BY <1>1
      <4> QED BY <1>9, <2>1, <4>1
    <3> QED BY <1>8, <3>1
  <2> QED BY <1>0, <2>1
<1>11. ASSUME NEW k \in 0 .. NumNodes - 1, k \in Good PROVE k + 1 \in Good
  <2>1. ASSUME NEW n \in Nodes, rank[n] <= k + 1 PROVE dep[n] <= rank[n]
    <3>1. parent[n] # None => dep[parent[n]] <= rank[parent[n]]
      <4>1. parent[n] # None => parent[n] \in Nodes /\ rank[parent[n]] <= k
        <5>1. \A m \in Nodes : rank[m] \in 0 .. NumNodes
          BY <1>1
        <5>2. ASSUME parent[n] # None PROVE parent[n] \in Nodes /\ rank[parent[n]] <= k
          <6>1. parent[n] \in Nodes /\ rank[parent[n]] < rank[n]
            BY <1>9, <5>2
          <6>2. rank[n] \in Int /\ rank[parent[n]] \in Int /\ k \in Int
            BY <1>0, <5>1, <6>1
          <6> QED BY <2>1, <6>1, <6>2
        <5> QED BY <5>2
      <4> QED BY <1>11, <4>1
    <3> QED BY <1>8, <3>1
  <2>2. k + 1 \in 0 .. NumNodes
    BY <1>0
  <2> QED BY <2>1, <2>2
<1>12. NumNodes \in Good
  <2> HIDE DEF Good
  <2>1. 0 .. NumNodes \subseteq Good
    BY <1>0, <1>10, <1>11, BoundedInduction
  <2> QED BY <1>0, <2>1
<1>13. \A n \in Nodes : dep[n] \in 0 .. NumNodes
  <2>1. ASSUME NEW n \in Nodes PROVE dep[n] \in 0 .. NumNodes
    <3>1. rank[n] \in 0 .. NumNodes /\ dep[n] \in Nat
      BY <1>1, <1>7
    <3>2. dep[n] <= rank[n]
      BY <1>12, <3>1
    <3> QED BY SMTT(20), <1>0, <3>1, <3>2
  <2> QED BY <2>1
<1>14. Deep(dep)
  <2>1. dep \in [Nodes -> 0 .. NumNodes]
    BY <1>7, <1>13
  <2> QED BY <1>7, <2>1 DEF Deep
<1> QED BY <1>14

\* An arena of n nodes is a tree below root: each node but the root has one owner,
\* whose child it is, and lies one deeper.
ArenaTree(a, n, root, own, d) ==
  /\ n \in Nat /\ DOMAIN a = 1 .. n /\ Len(a) = n /\ root \in 1 .. n
  /\ own \in [1 .. n -> 0 .. n] /\ d \in [1 .. n -> 0 .. n]
  /\ \A i \in 1 .. n :
       /\ a[i].l \in 0 .. n /\ a[i].r \in 0 .. n
       /\ a[i].l = 0 <=> a[i].r = 0
       /\ a[i].l # 0 => /\ a[i].l # a[i].r /\ own[a[i].l] = i /\ own[a[i].r] = i
                        /\ d[a[i].l] = d[i] + 1 /\ d[a[i].r] = d[i] + 1
       /\ own[i] # 0 => i \in {a[own[i]].l, a[own[i]].r}
       /\ own[i] = 0 <=> i = root
       /\ d[i] = 0 <=> i = root

\* The arena read has each node at its position.
LEMMA TextArena ==
  ASSUME Consistent(tree)
  PROVE  /\ \A n \in Nodes :
              /\ left[n] = None => /\ Arena(Text)[topoPos[n]].l = 0 /\ Arena(Text)[topoPos[n]].r = 0
                                   /\ Arena(Text)[topoPos[n]].var = varAt[n]
              /\ left[n] # None => /\ Arena(Text)[topoPos[n]].l = topoPos[left[n]]
                                   /\ Arena(Text)[topoPos[n]].r = topoPos[right[n]]
         /\ \E r \in Nodes : RootOf(tree) = r /\ parent[r] = None /\ Text[Len(Text)].id = topoPos[r]
         /\ \E own, d : ArenaTree(Arena(Text), NumNodes, Text[Len(Text)].id, own, d)
<1> DEFINE a == Arena(Text)
<1>0. /\ NumNodes \in Nat /\ Nodes = 1 .. NumNodes /\ None \notin Nodes /\ None = 0
      /\ parent \in [Nodes -> Nodes \cup {None}] /\ topoPos \in [Nodes -> Nodes]
      /\ \A m, n \in Nodes : topoPos[m] = topoPos[n] => m = n
      /\ \A n \in Nodes : parent[n] # None => topoPos[n] < topoPos[parent[n]]
  BY TreeFields
<1>1. tree.left = left /\ tree.right = right /\ tree.parent = parent /\ tree.pos = topoPos
  BY DEF tree
<1>2. /\ DOMAIN a = Nodes
      /\ \A i \in Nodes : a[i] = [var |-> Text[i].var, l |-> Text[i].l, r |-> Text[i].r]
  <2>1. \A i \in Nodes : (CHOOSE j \in DOMAIN Text : Text[j].id = i) = i
    BY LinesListed
  <2>2. DOMAIN Text = Nodes
    BY LinesListed
  <2> QED BY <2>1, <2>2 DEF Arena
<1> HIDE DEF a
<1>3. ASSUME NEW n \in Nodes
      PROVE  /\ left[n] = None => a[topoPos[n]].l = 0 /\ a[topoPos[n]].r = 0 /\ a[topoPos[n]].var = varAt[n]
             /\ left[n] # None => a[topoPos[n]].l = topoPos[left[n]] /\ a[topoPos[n]].r = topoPos[right[n]]
  <2> DEFINE i == topoPos[n]
  <2>1. i \in Nodes /\ Topo[i] = n
    BY <1>0, TopoInverts
  <2> HIDE DEF i
  <2>2. a[i].l = Text[i].l /\ a[i].r = Text[i].r /\ a[i].var = Text[i].var
    BY <1>2, <2>1
  <2>3. /\ Text[i].var = IF left[n] = None THEN varAt[n] ELSE 0
        /\ Text[i].l = IF left[n] = None THEN 0 ELSE topoPos[left[n]]
        /\ Text[i].r = IF left[n] = None THEN 0 ELSE topoPos[right[n]]
    BY <2>1, LinesListed
  <2> QED BY <2>2, <2>3 DEF i
<1>4. PICK r \in Nodes : \A n \in Nodes : parent[n] = None <=> n = r
  BY TreeFields
<1>5. RootOf(tree) = r
  <2>1. DOMAIN tree.left = Nodes
    BY DEF Consistent
  <2> QED BY <1>1, <1>4, <2>1 DEF RootOf
<1>6. Text[Len(Text)].id = NumNodes /\ NumNodes \in Nodes /\ topoPos[r] = NumNodes
  <2>1. NumNodes \in Nodes
    BY <1>0, <1>4
  <2>2. Text[Len(Text)].id = NumNodes
    BY <2>1, LinesListed
  <2>3. PICK n \in Nodes : topoPos[n] = NumNodes
    BY <2>1, TopoInverts
  <2>4. ASSUME parent[n] # None PROVE FALSE
    <3>1. NumNodes < topoPos[parent[n]] /\ topoPos[parent[n]] \in Nodes
      BY <1>0, <2>3, <2>4
    <3> QED BY <1>0, <3>1
  <2> QED BY <1>4, <2>1, <2>2, <2>3, <2>4
<1>7. PICK dep : Deep(dep)
  BY DepthsExist
<1> DEFINE own == [i \in Nodes |-> IF parent[Topo[i]] = None THEN 0 ELSE topoPos[parent[Topo[i]]]]
           d == [i \in Nodes |-> dep[Topo[i]]]
<1>8. ASSUME NEW i \in Nodes
      PROVE  Topo[i] \in Nodes /\ topoPos[Topo[i]] = i
  BY TopoInverts
<1>9. ASSUME NEW n \in Nodes
      PROVE  /\ topoPos[n] \in Nodes
             /\ own[topoPos[n]] = IF parent[n] = None THEN 0 ELSE topoPos[parent[n]]
             /\ d[topoPos[n]] = dep[n]
  <2>1. topoPos[n] \in Nodes /\ Topo[topoPos[n]] = n
    BY <1>0, TopoInverts
  <2> QED BY <2>1
<1>10. own \in [1 .. NumNodes -> 0 .. NumNodes] /\ d \in [1 .. NumNodes -> 0 .. NumNodes]
  <2>1. ASSUME NEW i \in Nodes
        PROVE  /\ (IF parent[Topo[i]] = None THEN 0 ELSE topoPos[parent[Topo[i]]]) \in 0 .. NumNodes
               /\ dep[Topo[i]] \in 0 .. NumNodes
    <3>1. Topo[i] \in Nodes
      BY <1>8
    <3>2. dep[Topo[i]] \in 0 .. NumNodes
      BY <1>7, <3>1 DEF Deep
    <3>3. parent[Topo[i]] # None => topoPos[parent[Topo[i]]] \in Nodes
      BY <1>0, <3>1
    <3> QED BY <1>0, <3>2, <3>3
  <2> QED BY <1>0, <2>1
<1> HIDE DEF own, d
<1>11. ASSUME NEW n \in Nodes
       PROVE  LET i == topoPos[n]
              IN  /\ a[i].l \in 0 .. NumNodes /\ a[i].r \in 0 .. NumNodes
                  /\ a[i].l = 0 <=> a[i].r = 0
                  /\ a[i].l # 0 => /\ a[i].l # a[i].r /\ own[a[i].l] = i /\ own[a[i].r] = i
                                   /\ d[a[i].l] = d[i] + 1 /\ d[a[i].r] = d[i] + 1
                  /\ own[i] # 0 => i \in {a[own[i]].l, a[own[i]].r}
                  /\ own[i] = 0 <=> i = topoPos[r]
                  /\ d[i] = 0 <=> i = topoPos[r]
  <2> DEFINE i == topoPos[n]
  <2>1. /\ i \in Nodes /\ own[i] = IF parent[n] = None THEN 0 ELSE topoPos[parent[n]]
        /\ d[i] = dep[n]
    BY <1>9
  <2>2. 0 \notin Nodes /\ \A m \in Nodes : m \in 0 .. NumNodes
    BY <1>0
  <2>3. /\ left[n] = None => a[i].l = 0 /\ a[i].r = 0
        /\ left[n] # None => a[i].l = topoPos[left[n]] /\ a[i].r = topoPos[right[n]]
    BY <1>3
  <2> HIDE DEF i
  <2>4. ASSUME left[n] # None
        PROVE  /\ a[i].l \in Nodes /\ a[i].r \in Nodes /\ a[i].l # a[i].r
               /\ own[a[i].l] = i /\ own[a[i].r] = i
               /\ d[a[i].l] = d[i] + 1 /\ d[a[i].r] = d[i] + 1
    <3>1. /\ left[n] \in Nodes /\ right[n] \in Nodes /\ left[n] # right[n]
          /\ parent[left[n]] = n /\ parent[right[n]] = n /\ n # None
      BY <1>0, <1>1, <2>4, ChildrenOf DEF Consistent
    <3>2. a[i].l = topoPos[left[n]] /\ a[i].r = topoPos[right[n]]
      BY <2>3, <2>4
    <3>3. a[i].l \in Nodes /\ a[i].r \in Nodes /\ a[i].l # a[i].r
      BY <1>0, <3>1, <3>2
    <3>4. own[a[i].l] = i /\ own[a[i].r] = i
      BY <1>9, <3>1, <3>2 DEF i
    <3>5. d[a[i].l] = dep[left[n]] /\ d[a[i].r] = dep[right[n]]
      BY <1>9, <3>1, <3>2
    <3>6. dep[left[n]] = dep[n] + 1 /\ dep[right[n]] = dep[n] + 1
      BY <1>7, <3>1 DEF Deep
    <3> QED BY <2>1, <3>3, <3>4, <3>5, <3>6
  <2>5. ASSUME parent[n] # None
        PROVE  i \in {a[own[i]].l, a[own[i]].r} /\ own[i] # 0 /\ d[i] # 0 /\ i # topoPos[r]
    <3>1. parent[n] \in Nodes /\ n \in {left[parent[n]], right[parent[n]]} /\ n # None
      BY <1>0, <1>1, <2>5 DEF Consistent
    <3>2. left[parent[n]] # None
      BY <1>1, <3>1 DEF Consistent
    <3>3. a[own[i]].l = topoPos[left[parent[n]]] /\ a[own[i]].r = topoPos[right[parent[n]]]
      BY <1>3, <2>1, <2>5, <3>1, <3>2
    <3>4. own[i] \in Nodes
      BY <1>0, <2>1, <2>5, <3>1
    <3>5. dep[n] = dep[parent[n]] + 1 /\ dep[parent[n]] \in 0 .. NumNodes
      BY <1>7, <2>5, <3>1 DEF Deep
    <3>6. d[i] # 0
      BY <2>1, <3>5
    <3>7. n # r /\ i # topoPos[r]
      BY <1>0, <1>4, <2>5 DEF i
    <3> QED BY <2>2, <3>1, <3>3, <3>4, <3>6, <3>7 DEF i
  <2>6. ASSUME parent[n] = None PROVE own[i] = 0 /\ d[i] = 0 /\ i = topoPos[r]
    <3>1. dep[n] = 0
      BY <1>7, <2>6 DEF Deep
    <3> QED BY <1>4, <2>1, <2>6, <3>1 DEF i
  <2>7. /\ a[i].l \in 0 .. NumNodes /\ a[i].r \in 0 .. NumNodes
        /\ a[i].l = 0 <=> a[i].r = 0
        /\ a[i].l # 0 => /\ a[i].l # a[i].r /\ own[a[i].l] = i /\ own[a[i].r] = i
                         /\ d[a[i].l] = d[i] + 1 /\ d[a[i].r] = d[i] + 1
    <3>1. CASE left[n] = None
      BY SMTT(20), <1>0, <2>3, <3>1
    <3>2. CASE left[n] # None
      BY <2>2, <2>4, <3>2
    <3> QED BY <3>1, <3>2
  <2> QED BY <2>5, <2>6, <2>7 DEF i
<1>12. ASSUME NEW i \in 1 .. NumNodes
       PROVE  /\ a[i].l \in 0 .. NumNodes /\ a[i].r \in 0 .. NumNodes
              /\ a[i].l = 0 <=> a[i].r = 0
              /\ a[i].l # 0 => /\ a[i].l # a[i].r /\ own[a[i].l] = i /\ own[a[i].r] = i
                               /\ d[a[i].l] = d[i] + 1 /\ d[a[i].r] = d[i] + 1
              /\ own[i] # 0 => i \in {a[own[i]].l, a[own[i]].r}
              /\ own[i] = 0 <=> i = NumNodes
              /\ d[i] = 0 <=> i = NumNodes
  <2>1. Topo[i] \in Nodes /\ topoPos[Topo[i]] = i
    BY <1>0, <1>8
  <2> QED BY <1>6, <1>11, <2>1
<1>13. Len(a) = NumNodes
  <2> DEFINE R == {a[i] : i \in Nodes}
  <2>1. a \in [1 .. NumNodes -> R]
    <3>1. a = [i \in Nodes |-> a[i]]
      BY <1>2 DEF a, Arena
    <3> QED BY <1>0, <3>1
  <2> HIDE DEF R
  <2> QED BY <1>0, <2>1
<1>14. ArenaTree(a, NumNodes, NumNodes, own, d)
  <2>1. NumNodes \in Nat /\ DOMAIN a = 1 .. NumNodes /\ NumNodes \in 1 .. NumNodes
    BY <1>0, <1>2, <1>6
  <2> QED BY <1>10, <1>12, <1>13, <2>1, Zenon DEF ArenaTree
<1> QED BY <1>3, <1>4, <1>5, <1>6, <1>14, Zenon DEF a

-----------------------------------------------------------------------------
(***************************************************************************)
(* The order from_nodes lays an arena out in.                              *)
(***************************************************************************)
\* The children of the nodes of s, pair after pair.
ChildrenIn(a, s) == FlattenSeq([k \in DOMAIN s |-> Below(a, s[k])])

LEMMA ChildrenTyped ==
  ASSUME NEW a, NEW n, NEW root, NEW own, NEW d, ArenaTree(a, n, root, own, d), NEW s \in Seq(1 .. n)
  PROVE  ChildrenIn(a, s) \in Seq(1 .. n)
<1> DEFINE m == Len(s)
           seqs == [k \in 1 .. m |-> Below(a, s[k])]
<1>1. m \in Nat /\ DOMAIN s = 1 .. m /\ \A k \in 1 .. m : s[k] \in 1 .. n
  BY Elements
<1> HIDE DEF m
<1>2. ASSUME NEW k \in 1 .. m PROVE Below(a, s[k]) \in Seq(1 .. n)
  <2>1. s[k] \in 1 .. n
    BY <1>1
  <2>2. a[s[k]].l \in 0 .. n /\ a[s[k]].r \in 0 .. n /\ n \in Nat /\ (a[s[k]].l = 0 <=> a[s[k]].r = 0)
    BY <2>1 DEF ArenaTree
  <2>3. CASE a[s[k]].l = 0
    <3>1. Below(a, s[k]) = <<>>
      BY <2>3 DEF Below
    <3> QED BY <2>1, <3>1, ListsOne
  <2>4. CASE a[s[k]].l # 0
    <3>1. Below(a, s[k]) = <<a[s[k]].l, a[s[k]].r>>
      BY <2>4 DEF Below
    <3>2. a[s[k]].l \in 1 .. n /\ a[s[k]].r \in 1 .. n
      BY <2>2, <2>4
    <3> QED BY <3>1, <3>2, PairListed
  <2> QED BY <2>3, <2>4
<1>3. seqs \in [1 .. m -> Seq(1 .. n)]
  BY <1>2
<1>4. ChildrenIn(a, s) = FlattenSeq(seqs)
  BY <1>1 DEF ChildrenIn
<1> HIDE DEF seqs
<1> QED BY <1>1, <1>3, <1>4, FlattenTyped

LEMMA ChildrenListed ==
  ASSUME NEW a, NEW n, NEW root, NEW own, NEW d, ArenaTree(a, n, root, own, d),
         NEW s \in Seq(1 .. n), NEW S \in SUBSET (1 .. n), Enumerates(s, S)
  PROVE  Enumerates(ChildrenIn(a, s), {i \in 1 .. n : own[i] \in S})
<1> DEFINE m == Len(s)
           seqs == [k \in 1 .. m |-> Below(a, s[k])]
           parts == [k \in 1 .. m |-> {i \in 1 .. n : own[i] = s[k]}]
<1>1. m \in Nat /\ DOMAIN s = 1 .. m /\ \A k \in 1 .. m : s[k] \in 1 .. n
  BY Elements
<1>2. /\ \A k \in 1 .. m : s[k] \in S
      /\ \A x \in S : \E k \in 1 .. m : s[k] = x
      /\ \A i, j \in 1 .. m : s[i] = s[j] => i = j
  BY DEF Enumerates
<1> HIDE DEF m
<1>3. ASSUME NEW k \in 1 .. m
      PROVE  Below(a, s[k]) \in Seq(1 .. n) /\ Enumerates(Below(a, s[k]), parts[k])
  <2> DEFINE p == s[k]
             part == parts[k]
  <2>1. p \in 1 .. n /\ part = {i \in 1 .. n : own[i] = p}
    BY <1>1
  <2> HIDE DEF p, part
  <2>2. /\ n \in Nat /\ a[p].l \in 0 .. n /\ a[p].r \in 0 .. n /\ (a[p].l = 0 <=> a[p].r = 0)
        /\ a[p].l # 0 => a[p].l # a[p].r /\ own[a[p].l] = p /\ own[a[p].r] = p
        /\ \A i \in part : i \in {a[p].l, a[p].r} /\ i # 0
    <3>1. p # 0
      BY <2>1
    <3> QED BY SMTT(20), <2>1, <3>1 DEF ArenaTree
  <2>3. CASE a[p].l = 0
    <3>1. part = {}
      BY <2>2, <2>3
    <3>2. Below(a, p) = <<>>
      BY <2>3 DEF Below
    <3> QED BY <2>1, <3>1, <3>2, ListsOne DEF p, part
  <2>4. CASE a[p].l # 0
    <3>1. a[p].l \in 1 .. n /\ a[p].r \in 1 .. n /\ a[p].l # a[p].r
      BY <2>2, <2>4
    <3>2. part = {a[p].l, a[p].r}
      BY <2>1, <2>2, <2>4, <3>1
    <3>3. Below(a, p) = <<a[p].l, a[p].r>>
      BY <2>4 DEF Below
    <3> QED BY <3>1, <3>2, <3>3, PairListed DEF p, part
  <2> QED BY <2>3, <2>4
<1>4. seqs \in [1 .. m -> Seq(1 .. n)] /\ \A k \in 1 .. m : Enumerates(seqs[k], parts[k])
  BY <1>3
<1>5. ASSUME NEW i \in 1 .. m, NEW j \in 1 .. m, i # j PROVE parts[i] \cap parts[j] = {}
  <2>1. s[i] # s[j]
    BY <1>2, <1>5
  <2> QED BY <2>1
<1>6. UNION {parts[k] : k \in 1 .. m} = {i \in 1 .. n : own[i] \in S}
  <2>1. ASSUME NEW i \in 1 .. n, own[i] \in S PROVE \E k \in 1 .. m : i \in parts[k]
    BY <1>2, <2>1
  <2>2. ASSUME NEW k \in 1 .. m, NEW i \in parts[k] PROVE i \in 1 .. n /\ own[i] \in S
    BY <1>2, <2>2
  <2> HIDE DEF parts
  <2> QED BY <2>1, <2>2
<1>7. ChildrenIn(a, s) = FlattenSeq(seqs)
  BY <1>1 DEF ChildrenIn
<1> HIDE DEF seqs, parts
<1>8. ListParts(seqs, parts, m, 1 .. n)
  BY <1>1, <1>4, <1>5 DEF ListParts
<1>9. Enumerates(FlattenSeq(seqs), UNION {parts[k] : k \in 1 .. m})
  BY <1>8, ListsFlattened
<1> QED BY <1>6, <1>7, <1>9

\* Level k holds the nodes that lie k below root.
LEMMA LevelsListed ==
  ASSUME NEW a, NEW n, NEW root, NEW own, NEW d, ArenaTree(a, n, root, own, d)
  PROVE  /\ Levels(a, root) \in [0 .. n -> Seq(1 .. n)]
         /\ \A k \in 0 .. n : Enumerates(Levels(a, root)[k], {i \in 1 .. n : d[i] = k})
<1> DEFINE Rows == [0 .. n -> Seq(1 .. n)]
           step == [p \in (0 .. n) \X Rows |->
                      IF p[1] = 0 THEN <<root>> ELSE ChildrenIn(a, p[2][p[1] - 1])]
           rank == [k \in 0 .. n |-> k]
           level == CHOOSE f : f = [k \in 0 .. Len(a) |->
                      IF k = 0 THEN <<root>>
                      ELSE LET above == f[k - 1]
                           IN  FlattenSeq([j \in DOMAIN above |-> Below(a, above[j])])]
<1>0. n \in Nat /\ Len(a) = n /\ root \in 1 .. n
  BY DEF ArenaTree
<1>1. rank \in [0 .. n -> 0 .. n]
  OBVIOUS
<1>2. step \in [(0 .. n) \X Rows -> Seq(1 .. n)]
  <2>1. ASSUME NEW k \in 0 .. n, NEW f \in Rows
        PROVE  (IF k = 0 THEN <<root>> ELSE ChildrenIn(a, f[k - 1])) \in Seq(1 .. n)
    <3>1. CASE k = 0
      BY <1>0, <3>1
    <3>2. CASE k # 0
      <4>1. f[k - 1] \in Seq(1 .. n)
        BY <1>0, <3>2
      <4> QED BY <3>2, <4>1, ChildrenTyped
    <3> QED BY <3>1, <3>2
  <2> QED BY <2>1
<1>3. \A k \in 0 .. n, f \in Rows : step[<<k, f>>] = IF k = 0 THEN <<root>> ELSE ChildrenIn(a, f[k - 1])
  OBVIOUS
<1> HIDE DEF step
<1>4. Recursion(step, rank, n, 0 .. n, Seq(1 .. n))
  <2> SUFFICES ASSUME NEW k \in 0 .. n, NEW f \in Rows, NEW g \in Rows,
                      \A m \in 0 .. n : rank[m] < rank[k] => f[m] = g[m]
               PROVE  step[<<k, f>>] = step[<<k, g>>]
    <3> HIDE DEF rank
    <3> QED BY <1>0, <1>1, <1>2 DEF Recursion
  <2>1. k # 0 => f[k - 1] = g[k - 1]
    BY <1>0
  <2>2. /\ step[<<k, f>>] = IF k = 0 THEN <<root>> ELSE ChildrenIn(a, f[k - 1])
        /\ step[<<k, g>>] = IF k = 0 THEN <<root>> ELSE ChildrenIn(a, g[k - 1])
    BY <1>3
  <2> QED BY <2>1, <2>2
<1>5. <<>> \in Seq(1 .. n)
  OBVIOUS
<1>6. PICK f : Recurses(f, step, 0 .. n, Seq(1 .. n))
  <2> HIDE DEF rank
  <2> QED BY <1>4, <1>5, RankedRecursion
<1>7. f = [k \in 0 .. n |-> IF k = 0 THEN <<root>> ELSE ChildrenIn(a, f[k - 1])] /\ f \in Rows
  BY <1>3, <1>6 DEF Recurses
<1>8. f = [k \in 0 .. Len(a) |->
             IF k = 0 THEN <<root>>
             ELSE LET above == f[k - 1]
                  IN  FlattenSeq([j \in DOMAIN above |-> Below(a, above[j])])]
  BY <1>0, <1>7, Zenon DEF ChildrenIn
<1>9. level = [k \in 0 .. n |-> IF k = 0 THEN <<root>> ELSE ChildrenIn(a, level[k - 1])]
  BY <1>0, <1>8, Zenon DEF ChildrenIn
<1>10. Levels(a, root) = level
  BY Zenon DEF Levels
<1> HIDE DEF level
<1>11. level[0] = <<root>> /\ \A k \in 1 .. n : level[k] = ChildrenIn(a, level[k - 1])
  BY <1>0, <1>9
<1> DEFINE At(k) == {i \in 1 .. n : d[i] = k}
           Good == {k \in 0 .. n : level[k] \in Seq(1 .. n) /\ Enumerates(level[k], At(k))}
<1>12. 0 \in Good
  <2>1. At(0) = {root}
    BY <1>0 DEF ArenaTree
  <2> HIDE DEF At
  <2>2. <<root>> \in Seq(1 .. n) /\ Enumerates(<<root>>, {root})
    BY <1>0, ListsOne
  <2>3. 0 \in 0 .. n
    BY <1>0
  <2> QED BY <1>11, <2>1, <2>2, <2>3
<1>13. ASSUME NEW k \in 0 .. n - 1, k \in Good PROVE k + 1 \in Good
  <2>1. k + 1 \in 1 .. n /\ k + 1 \in 0 .. n /\ (k + 1) - 1 = k
    BY <1>0
  <2>2. level[k + 1] = ChildrenIn(a, level[k])
    BY <1>11, <2>1
  <2>3. level[k] \in Seq(1 .. n) /\ Enumerates(level[k], At(k)) /\ At(k) \in SUBSET (1 .. n)
    BY <1>13
  <2>4. {i \in 1 .. n : own[i] \in At(k)} = At(k + 1)
    <3>1. ASSUME NEW i \in 1 .. n PROVE own[i] \in At(k) <=> d[i] = k + 1
      <4>1. CASE i = root
        <5>1. own[i] = 0 /\ d[i] = 0
          BY <4>1 DEF ArenaTree
        <5> QED BY <1>0, <5>1
      <4>2. CASE i # root
        <5>1. own[i] \in 0 .. n /\ own[i] # 0
          BY <4>2 DEF ArenaTree
        <5>2. own[i] \in 1 .. n /\ i \in {a[own[i]].l, a[own[i]].r} /\ i # 0
          BY <1>0, <5>1 DEF ArenaTree
        <5> DEFINE p == own[i]
        <5>3. /\ p \in 1 .. n /\ d[p] \in 0 .. n /\ i \in {a[p].l, a[p].r} /\ i # 0
              /\ (a[p].l = 0 <=> a[p].r = 0)
              /\ a[p].l # 0 => d[a[p].l] = d[p] + 1 /\ d[a[p].r] = d[p] + 1
          <6> HIDE DEF p
          <6>1. p \in 1 .. n /\ i \in {a[p].l, a[p].r} /\ i # 0
            BY <5>2 DEF p
          <6> QED BY <6>1 DEF ArenaTree
        <5>4. d[i] = k + 1 <=> d[own[i]] = k
          <6> HIDE DEF p
          <6>1. d[i] = d[p] + 1
            BY <5>3
          <6>2. k \in Int /\ d[p] \in Int
            BY <1>0, <5>3
          <6> QED BY <6>1, <6>2 DEF p
        <5> QED BY <5>2, <5>4
      <4> QED BY <4>1, <4>2
    <3> QED BY <3>1
  <2> HIDE DEF At
  <2>5. Enumerates(ChildrenIn(a, level[k]), At(k + 1))
    BY <2>3, <2>4, ChildrenListed
  <2>6. ChildrenIn(a, level[k]) \in Seq(1 .. n)
    BY <2>3, ChildrenTyped
  <2> QED BY <2>1, <2>2, <2>5, <2>6
<1>14. \A k \in 0 .. n : k \in Good
  <2> HIDE DEF Good
  <2>1. 0 .. n \subseteq Good
    BY <1>0, <1>12, <1>13, BoundedInduction
  <2> QED BY <2>1
<1>15. level \in [0 .. n -> Seq(1 .. n)]
  <2>1. level = [k \in 0 .. n |-> level[k]]
    BY <1>9
  <2> QED BY <1>14, <2>1
<1> QED BY <1>10, <1>14, <1>15

\* Going up level by level meets each node once, the deeper ones first.
LEMMA UpwardListed ==
  ASSUME NEW a, NEW n, NEW root, NEW own, NEW d, ArenaTree(a, n, root, own, d)
  PROVE  /\ Upward(a, root) \in Seq(1 .. n) /\ Enumerates(Upward(a, root), 1 .. n)
         /\ \A x \in 1 .. n, y \in 1 .. n : d[y] < d[x] => Precedes(Upward(a, root), x, y)
<1> DEFINE level == Levels(a, root)
           At(k) == {i \in 1 .. n : d[i] = k}
           seqs == [k \in 1 .. n + 1 |-> level[n + 1 - k]]
           parts == [k \in 1 .. n + 1 |-> At(n + 1 - k)]
<1>0. /\ n \in Nat /\ n + 1 \in Nat /\ Len(a) = n /\ \A i \in 1 .. n : d[i] \in 0 .. n
  BY DEF ArenaTree
<1>1. level \in [0 .. n -> Seq(1 .. n)] /\ \A k \in 0 .. n : Enumerates(level[k], At(k))
  BY LevelsListed
<1>2. \A k \in 1 .. n + 1 : n + 1 - k \in 0 .. n
  BY <1>0
<1> HIDE DEF level, At
<1>3. seqs \in [1 .. n + 1 -> Seq(1 .. n)]
  BY <1>1, <1>2
<1>4. \A k \in 1 .. n + 1 : seqs[k] = level[n + 1 - k] /\ parts[k] = At(n + 1 - k)
  OBVIOUS
<1> HIDE DEF parts
<1>5. \A k \in 1 .. n + 1 : Enumerates(seqs[k], parts[k])
  BY <1>1, <1>2, <1>4
<1>6. ASSUME NEW i \in 1 .. n + 1, NEW j \in 1 .. n + 1, i # j PROVE parts[i] \cap parts[j] = {}
  <2>1. n + 1 - i # n + 1 - j
    BY <1>0, <1>6
  <2> QED BY <1>4, <2>1 DEF At
<1>7. UNION {parts[k] : k \in 1 .. n + 1} = 1 .. n
  <2>1. ASSUME NEW i \in 1 .. n PROVE \E k \in 1 .. n + 1 : i \in parts[k]
    <3>1. n + 1 - d[i] \in 1 .. n + 1 /\ n + 1 - (n + 1 - d[i]) = d[i]
      BY <1>0
    <3>2. i \in At(d[i])
      BY DEF At
    <3> QED BY <1>4, <3>1, <3>2
  <2>2. ASSUME NEW k \in 1 .. n + 1, NEW i \in parts[k] PROVE i \in 1 .. n
    BY <1>4 DEF At
  <2> QED BY <2>1, <2>2
<1>8. Upward(a, root) = FlattenSeq(seqs)
  BY <1>0 DEF Upward, level
<1> HIDE DEF seqs
<1>9. ListParts(seqs, parts, n + 1, 1 .. n)
  BY <1>0, <1>3, <1>5, <1>6 DEF ListParts
<1> DEFINE flat == FlattenSeq(seqs)
           whole == UNION {parts[k] : k \in 1 .. n + 1}
<1>10. /\ flat \in Seq(1 .. n) /\ Enumerates(flat, whole)
       /\ \A i, j \in 1 .. n + 1 : i < j => \A x \in parts[i], y \in parts[j] : Precedes(flat, x, y)
  BY <1>9, ListsFlattened
<1> HIDE DEF flat, whole
<1>11. ASSUME NEW x \in 1 .. n, NEW y \in 1 .. n, d[y] < d[x]
       PROVE  Precedes(flat, x, y)
  <2> DEFINE p == d[x]
             q == d[y]
             i == n + 1 - p
             j == n + 1 - q
  <2>0. p \in Int /\ q \in Int /\ 0 <= q /\ q < p /\ p <= n
    BY <1>0, <1>11
  <2>1. x \in At(p) /\ y \in At(q)
    BY DEF At
  <2> HIDE DEF p, q
  <2>2. i \in 1 .. n + 1 /\ j \in 1 .. n + 1 /\ i < j /\ n + 1 - i = p /\ n + 1 - j = q
    BY <1>0, <2>0
  <2> HIDE DEF i, j
  <2>3. x \in parts[i] /\ y \in parts[j]
    BY <1>4, <2>1, <2>2
  <2> QED BY <1>10, <2>2, <2>3
<1> QED BY <1>7, <1>8, <1>10, <1>11 DEF flat, whole

\* The new order holds each node once, leaves before the nodes that join them.
LEMMA ReindexedListed ==
  ASSUME NEW a, NEW n, NEW root, NEW own, NEW d, ArenaTree(a, n, root, own, d)
  PROVE  /\ Reindexed(a, root) \in [1 .. n -> 1 .. n] /\ Len(Reindexed(a, root)) = n
         /\ Enumerates(Reindexed(a, root), 1 .. n)
         /\ \A j, k \in 1 .. n :
              LET x == Reindexed(a, root)[j]
                  y == Reindexed(a, root)[k]
              IN  /\ a[x].l = 0 /\ a[y].l # 0 => j < k
                  /\ a[y].l # 0 /\ x \in {a[y].l, a[y].r} => j < k
<1> DEFINE up == Upward(a, root)
           P == {i \in 1 .. n : a[i].l = 0}
           Q == {i \in 1 .. n : a[i].l # 0}
           one == [k \in 1 .. Len(up) |-> IF a[up[k]].l = 0 THEN <<up[k]>> ELSE <<>>]
           two == [k \in 1 .. Len(up) |-> IF a[up[k]].l = 0 THEN <<>> ELSE <<up[k]>>]
           old == Reindexed(a, root)
           s == LeavesOf(a, up)
           t == InnerOf(a, up)
<1>0. n \in Nat
  BY DEF ArenaTree
<1>1. /\ up \in Seq(1 .. n) /\ Enumerates(up, 1 .. n)
      /\ \A x \in 1 .. n, y \in 1 .. n : d[y] < d[x] => Precedes(up, x, y)
  BY UpwardListed
<1>2. old = s \o t
  BY Zenon DEF Reindexed
<1> HIDE DEF up
<1>3. Len(up) \in Nat /\ DOMAIN up = 1 .. Len(up) /\ \A k \in 1 .. Len(up) : up[k] \in 1 .. n
  BY <1>1, Elements
<1>4. s = FlattenSeq(one) /\ t = FlattenSeq(two)
  BY <1>3 DEF LeavesOf, InnerOf
<1>5. Selects(one, up, P) /\ Selects(two, up, Q)
  BY <1>3 DEF Selects
<1> HIDE DEF one, two, P, Q
<1>6. /\ FlattenSeq(one) \in Seq(1 .. n) /\ Enumerates(FlattenSeq(one), (1 .. n) \cap P)
  BY <1>1, <1>5, ListsSelected
<1>7. /\ FlattenSeq(two) \in Seq(1 .. n) /\ Enumerates(FlattenSeq(two), (1 .. n) \cap Q)
      /\ \A x \in (1 .. n) \cap Q, y \in (1 .. n) \cap Q : Precedes(up, x, y) => Precedes(FlattenSeq(two), x, y)
  BY <1>1, <1>5, ListsSelected
<1>8. (1 .. n) \cap P = P /\ (1 .. n) \cap Q = Q /\ P \cap Q = {} /\ P \cup Q = 1 .. n
  BY DEF P, Q
<1>9. /\ s \in Seq(1 .. n) /\ t \in Seq(1 .. n) /\ Enumerates(s, P) /\ Enumerates(t, Q)
      /\ \A x \in Q, y \in Q : Precedes(up, x, y) => Precedes(t, x, y)
  BY <1>4, <1>6, <1>7, <1>8
<1> HIDE DEF s, t
<1>10. /\ s \o t \in Seq(1 .. n) /\ Enumerates(s \o t, P \cup Q)
       /\ \A x, y : Precedes(s, x, y) \/ Precedes(t, x, y) => Precedes(s \o t, x, y)
       /\ \A x \in P, y \in Q : Precedes(s \o t, x, y)
  BY <1>8, <1>9, ListsJoined
<1> HIDE DEF old
<1>11. /\ old \in Seq(1 .. n) /\ Enumerates(old, 1 .. n)
       /\ \A x \in P, y \in Q : Precedes(old, x, y)
       /\ \A x \in Q, y \in Q : d[y] < d[x] => Precedes(old, x, y)
  BY <1>1, <1>2, <1>8, <1>9, <1>10
<1>12. Len(old) = n /\ DOMAIN old = 1 .. n /\ \A k \in 1 .. n : old[k] \in 1 .. n
  <2>1. Len(old) = n
    BY <1>0, <1>11, ListsNumbers
  <2> QED BY <1>11, <2>1, Elements
<1>13. old \in [1 .. n -> 1 .. n]
  <2>1. old = [k \in DOMAIN old |-> old[k]]
    BY <1>11
  <2> QED BY <1>12, <2>1
<1>14. ASSUME NEW j \in 1 .. n, NEW k \in 1 .. n
       PROVE  /\ a[old[j]].l = 0 /\ a[old[k]].l # 0 => j < k
              /\ a[old[k]].l # 0 /\ old[j] \in {a[old[k]].l, a[old[k]].r} => j < k
  <2>0. Precedes(old, old[j], old[k]) => j < k
    BY <1>11, <1>12, PlacesOrdered
  <2> DEFINE x == old[j]
             y == old[k]
  <2>1. x \in 1 .. n /\ y \in 1 .. n
    BY <1>12
  <2> HIDE DEF x, y
  <2>2. a[x].l = 0 /\ a[y].l # 0 => Precedes(old, x, y)
    BY <1>11, <2>1 DEF P, Q
  <2>3. ASSUME a[x].l # 0, a[y].l # 0, x \in {a[y].l, a[y].r} PROVE Precedes(old, x, y)
    <3>1. d[x] = d[y] + 1 /\ d[y] \in Int
      <4>1. d[y] \in 0 .. n /\ d[a[y].l] = d[y] + 1 /\ d[a[y].r] = d[y] + 1
        BY <2>1, <2>3 DEF ArenaTree
      <4> QED BY <2>3, <4>1
    <3>2. d[y] < d[x] /\ x \in Q /\ y \in Q
      BY <2>1, <2>3, <3>1 DEF Q
    <3> QED BY <1>11, <3>2
  <2> QED BY <2>0, <2>2, <2>3 DEF x, y
<1> QED BY <1>11, <1>12, <1>13, <1>14 DEF old

\* What from_nodes keeps of the arena: new takes each node to its index in back.
Copies(back, a, n, root, new) ==
  /\ new \in [1 .. n -> 1 .. n] /\ DOMAIN back.left = 1 .. n
  /\ \A k \in 1 .. n : \E i \in 1 .. n : new[i] = k
  /\ \A i, j \in 1 .. n : new[i] = new[j] => i = j
  /\ \A i \in 1 .. n :
       /\ back.var[new[i]] = a[i].var
       /\ a[i].l = 0 => back.left[new[i]] = 0
       /\ a[i].l # 0 => back.left[new[i]] = new[a[i].l] /\ back.right[new[i]] = new[a[i].r]
  /\ RootOf(back) = new[root]

\* Leaves first, children below their parents.
LaidOut(back, n) ==
  \A k \in 1 .. n : back.left[k] # 0 =>
    /\ {back.left[k], back.right[k]} \subseteq 1 .. k - 1
    /\ \A m \in k .. n : back.left[m] # 0

LEMMA ArenaBuilt ==
  ASSUME NEW a, NEW n, NEW root, NEW own, NEW d, ArenaTree(a, n, root, own, d)
  PROVE  /\ LaidOut(FromNodes(a, root), n)
         /\ \E new : Copies(FromNodes(a, root), a, n, root, new)
<1> DEFINE old == Reindexed(a, root)
           name(i) == IF i = 0 THEN 0 ELSE CHOOSE k \in DOMAIN old : old[k] = i
           l == [k \in DOMAIN old |-> name(a[old[k]].l)]
           r == [k \in DOMAIN old |-> name(a[old[k]].r)]
           above(k) == {p \in DOMAIN old : k \in {l[p], r[p]}}
           par == [k \in DOMAIN old |-> IF above(k) = {} THEN 0 ELSE CHOOSE p \in above(k) : TRUE]
           back == FromNodes(a, root)
           new == [i \in 1 .. n |-> CHOOSE k \in 1 .. n : old[k] = i]
<1>0. /\ n \in Nat /\ root \in 1 .. n
      /\ \A i \in 1 .. n :
           /\ a[i].l \in 0 .. n /\ a[i].r \in 0 .. n
           /\ a[i].l = 0 <=> a[i].r = 0
           /\ a[i].l # 0 => own[a[i].l] = i /\ own[a[i].r] = i
           /\ own[i] # 0 => i \in {a[own[i]].l, a[own[i]].r}
           /\ own[i] = 0 <=> i = root
           /\ own[i] \in 0 .. n
  BY DEF ArenaTree
<1>1. /\ old \in [1 .. n -> 1 .. n] /\ Enumerates(old, 1 .. n) /\ Len(old) = n
      /\ \A j, k \in 1 .. n :
           LET x == old[j]
               y == old[k]
           IN  /\ a[x].l = 0 /\ a[y].l # 0 => j < k
               /\ a[y].l # 0 /\ x \in {a[y].l, a[y].r} => j < k
  BY ReindexedListed
<1>2. back = [left |-> l, right |-> r, parent |-> par, pos |-> [k \in DOMAIN old |-> k],
              var |-> [k \in DOMAIN old |-> a[old[k]].var]]
  BY Zenon DEF FromNodes
<1> HIDE DEF old, back
<1>3. DOMAIN old = 1 .. n
  BY <1>1
<1>4. ASSUME NEW i \in 1 .. n
      PROVE  new[i] \in 1 .. n /\ old[new[i]] = i
  <2>1. \E k \in 1 .. n : old[k] = i
    BY <1>1 DEF Enumerates
  <2> QED BY <2>1
<1>5. ASSUME NEW k \in 1 .. n
      PROVE  old[k] \in 1 .. n /\ new[old[k]] = k
  <2>1. old[k] \in 1 .. n
    BY <1>1
  <2>2. new[old[k]] \in 1 .. n /\ old[new[old[k]]] = old[k]
    BY <1>4, <2>1
  <2> QED BY <1>1, <2>1, <2>2 DEF Enumerates
<1>6. ASSUME NEW i \in 0 .. n
      PROVE  name(i) = IF i = 0 THEN 0 ELSE new[i]
  <2>1. i # 0 => i \in 1 .. n
    BY <1>0
  <2> QED BY <1>3, <2>1
<1>7. new \in [1 .. n -> 1 .. n]
  <2>1. ASSUME NEW i \in 1 .. n PROVE (CHOOSE k \in 1 .. n : old[k] = i) \in 1 .. n
    BY <1>4
  <2> QED BY <2>1
<1> HIDE DEF new
<1>8. ASSUME NEW k \in 1 .. n
      PROVE  /\ l[k] = IF a[old[k]].l = 0 THEN 0 ELSE new[a[old[k]].l]
             /\ r[k] = IF a[old[k]].l = 0 THEN 0 ELSE new[a[old[k]].r]
  <2>1. a[old[k]].l \in 0 .. n /\ a[old[k]].r \in 0 .. n /\ (a[old[k]].l = 0 <=> a[old[k]].r = 0)
    BY <1>0, <1>5
  <2>2. l[k] = name(a[old[k]].l) /\ r[k] = name(a[old[k]].r)
    BY <1>3
  <2> HIDE DEF name, l, r
  <2> QED BY <1>6, <2>1, <2>2
<1>9. DOMAIN l = 1 .. n
  BY <1>3
<1> HIDE DEF l, r
<1>10. ASSUME NEW k \in 1 .. n
       PROVE  above(k) = {} <=> old[k] = root
  <2>1. ASSUME old[k] = root, NEW p \in 1 .. n, k \in {l[p], r[p]} PROVE FALSE
    <3>1. /\ old[p] \in 1 .. n /\ a[old[p]].l \in 0 .. n /\ a[old[p]].r \in 0 .. n
          /\ (a[old[p]].l = 0 <=> a[old[p]].r = 0)
      BY <1>0, <1>5
    <3>2. a[old[p]].l # 0
      BY <1>8, <2>1
    <3>3. k \in {new[a[old[p]].l], new[a[old[p]].r]}
      BY <1>8, <2>1, <3>2
    <3>4. root \in {a[old[p]].l, a[old[p]].r}
      BY <1>4, <2>1, <3>1, <3>2, <3>3
    <3>5. own[root] = old[p]
      BY <1>0, <3>1, <3>2, <3>4
    <3> QED BY <1>0, <3>1, <3>5
  <2>2. ASSUME old[k] # root PROVE \E p \in 1 .. n : k \in {l[p], r[p]}
    <3> DEFINE i == old[k]
               q == own[i]
    <3>1. i \in 1 .. n /\ new[i] = k
      BY <1>5
    <3>2. q \in 1 .. n /\ i \in {a[q].l, a[q].r}
      BY <1>0, <2>2, <3>1
    <3> HIDE DEF i, q
    <3>3. new[q] \in 1 .. n /\ old[new[q]] = q
      BY <1>4, <3>2
    <3>4. a[q].l # 0
      BY <1>0, <3>1, <3>2
    <3>5. l[new[q]] = new[a[q].l] /\ r[new[q]] = new[a[q].r]
      BY <1>8, <3>3, <3>4
    <3> QED BY <3>1, <3>2, <3>3, <3>5
  <2> QED BY <1>3, <2>1, <2>2
<1>11. ASSUME NEW k \in 1 .. n
       PROVE  par[k] = 0 <=> old[k] = root
  <2>1. above(k) \subseteq 1 .. n
    BY <1>3
  <2>2. par[k] = IF above(k) = {} THEN 0 ELSE CHOOSE p \in above(k) : TRUE
    BY <1>3
  <2> HIDE DEF above, par
  <2>3. 0 \notin 1 .. n
    OBVIOUS
  <2> QED BY <1>10, <2>1, <2>2, <2>3
<1> HIDE DEF par
<1>12. RootOf(back) = new[root]
  <2>1. back.left = l /\ back.parent = par
    BY <1>2
  <2>2. new[root] \in 1 .. n /\ \A k \in 1 .. n : par[k] = 0 <=> k = new[root]
    BY <1>0, <1>4, <1>5, <1>11
  <2> QED BY <1>9, <2>1, <2>2 DEF RootOf, None
<1>13. Copies(back, a, n, root, new)
  <2>1. back.left = l /\ back.right = r /\ \A k \in 1 .. n : back.var[k] = a[old[k]].var
    BY <1>2, <1>3
  <2>2. ASSUME NEW i \in 1 .. n
        PROVE  /\ back.var[new[i]] = a[i].var
               /\ a[i].l = 0 => back.left[new[i]] = 0
               /\ a[i].l # 0 => back.left[new[i]] = new[a[i].l] /\ back.right[new[i]] = new[a[i].r]
    <3>1. new[i] \in 1 .. n /\ old[new[i]] = i
      BY <1>4
    <3> QED BY <1>8, <2>1, <3>1
  <2>3. \A k \in 1 .. n : \E i \in 1 .. n : new[i] = k
    BY <1>5
  <2>4. \A i, j \in 1 .. n : new[i] = new[j] => i = j
    BY <1>4
  <2> QED BY <1>7, <1>9, <1>12, <2>1, <2>2, <2>3, <2>4 DEF Copies
<1>14. LaidOut(back, n)
  <2>1. back.left = l /\ back.right = r
    BY <1>2
  <2>2. ASSUME NEW k \in 1 .. n, l[k] # 0
        PROVE  {l[k], r[k]} \subseteq 1 .. k - 1 /\ \A m \in k .. n : l[m] # 0
    <3> DEFINE y == old[k]
    <3>1. y \in 1 .. n
      BY <1>5
    <3>2. a[y].l # 0 /\ l[k] = new[a[y].l] /\ r[k] = new[a[y].r]
      BY <1>8, <2>2
    <3>3. a[y].l \in 1 .. n /\ a[y].r \in 1 .. n
      <4> HIDE DEF y
      <4>1. a[y].l \in 0 .. n /\ a[y].r \in 0 .. n /\ a[y].r # 0
        BY <1>0, <3>1, <3>2
      <4> QED BY <1>0, <3>2, <4>1
    <3>4. /\ l[k] \in 1 .. n /\ old[l[k]] = a[y].l
          /\ r[k] \in 1 .. n /\ old[r[k]] = a[y].r
      BY <1>4, <3>2, <3>3
    <3>5. l[k] < k /\ r[k] < k
      BY <1>1, <3>2, <3>4
    <3>6. ASSUME NEW m \in k .. n, l[m] = 0 PROVE FALSE
      <4>1. m \in 1 .. n /\ k <= m
        BY <1>0
      <4>2. a[old[m]].l = 0
        <5>1. ASSUME a[old[m]].l # 0 PROVE FALSE
          <6>1. old[m] \in 1 .. n /\ a[old[m]].l \in 0 .. n
            BY <1>0, <1>5, <4>1
          <6>2. a[old[m]].l \in 1 .. n
            BY <1>0, <5>1, <6>1
          <6>3. l[m] = new[a[old[m]].l] /\ new[a[old[m]].l] \in 1 .. n
            BY <1>4, <1>8, <4>1, <5>1, <6>2
          <6> QED BY <3>6, <6>3
        <5> QED BY <5>1
      <4>3. m < k
        BY <1>1, <3>2, <4>1, <4>2
      <4> QED BY <1>0, <4>1, <4>3
    <3> QED BY <1>0, <3>4, <3>5, <3>6
  <2> QED BY <2>1, <2>2 DEF LaidOut
<1> QED BY <1>13, <1>14 DEF back

-----------------------------------------------------------------------------
(***************************************************************************)
(* The shape of the tree read.                                             *)
(***************************************************************************)
\* The shape below every node of the tree.
HasShapes(f) ==
  \A n \in Nodes : f[n] = IF left[n] = None THEN <<varAt[n]>> ELSE <<f[left[n]], f[right[n]]>>

LEMMA ShapesExist ==
  ASSUME Consistent(tree)
  PROVE  \E f : f = [n \in Nodes |-> f[n]] /\ HasShapes(f)
<1> DEFINE Turn(f, n) == IF left[n] = None THEN <<varAt[n]>> ELSE <<f[left[n]], f[right[n]]>>
           Good == {k \in 0 .. NumNodes : \E f : \A n \in Nodes : topoPos[n] <= k => f[n] = Turn(f, n)}
<1>0. NumNodes \in Nat /\ Nodes = 1 .. NumNodes /\ topoPos \in [Nodes -> Nodes]
  BY TreeFields
<1>1. tree.left = left /\ tree.right = right /\ tree.pos = topoPos
  BY DEF tree
<1>2. ASSUME NEW n \in Nodes, left[n] # None
      PROVE  left[n] \in Nodes /\ right[n] \in Nodes /\ topoPos[left[n]] < topoPos[n] /\ topoPos[right[n]] < topoPos[n]
  BY <1>1, <1>2, ChildrenOf
<1>3. 0 \in Good
  <2>1. \A n \in Nodes : ~ (topoPos[n] <= 0)
    BY <1>0
  <2> HIDE DEF Turn
  <2> QED BY <1>0, <2>1
<1>4. ASSUME NEW k \in 0 .. NumNodes - 1, k \in Good PROVE k + 1 \in Good
  <2>1. PICK f : \A n \in Nodes : topoPos[n] <= k => f[n] = Turn(f, n)
    <3> HIDE DEF Turn
    <3> QED BY <1>4
  <2> DEFINE g == [n \in Nodes |-> Turn(f, n)]
  <2>2. ASSUME NEW n \in Nodes, topoPos[n] <= k + 1 PROVE g[n] = Turn(g, n)
    <3>1. g[n] = Turn(f, n)
      <4> HIDE DEF Turn
      <4> QED OBVIOUS
    <3>2. ASSUME NEW m \in Nodes, topoPos[m] < topoPos[n] PROVE g[m] = f[m]
      <4>1. topoPos[m] \in Int /\ topoPos[n] \in Int /\ k \in Int
        BY <1>0
      <4>2. topoPos[m] <= k
        BY <2>2, <3>2, <4>1
      <4> HIDE DEF Turn
      <4> QED BY <2>1, <4>2
    <3> HIDE DEF g
    <3>3. left[n] # None => g[left[n]] = f[left[n]] /\ g[right[n]] = f[right[n]]
      BY <1>2, <3>2
    <3> QED BY <3>1, <3>3
  <2>3. k + 1 \in 0 .. NumNodes
    BY <1>0
  <2> HIDE DEF Turn, g
  <2> QED BY <2>2, <2>3
<1>5. NumNodes \in Good
  <2> HIDE DEF Good
  <2>1. 0 .. NumNodes \subseteq Good
    BY <1>0, <1>3, <1>4, BoundedInduction
  <2> QED BY <1>0, <2>1
<1>6. PICK f : \A n \in Nodes : topoPos[n] <= NumNodes => f[n] = Turn(f, n)
  <2> HIDE DEF Turn
  <2> QED BY <1>5
<1>7. \A n \in Nodes : f[n] = Turn(f, n)
  <2>1. \A n \in Nodes : topoPos[n] <= NumNodes
    BY <1>0
  <2> HIDE DEF Turn
  <2> QED BY <1>6, <2>1
<1> DEFINE g == [n \in Nodes |-> f[n]]
<1>8. \A n \in Nodes : g[n] = f[n] /\ g[n] = Turn(g, n)
  <2>1. ASSUME NEW n \in Nodes PROVE g[n] = f[n] /\ g[n] = Turn(g, n)
    <3>1. left[n] # None => g[left[n]] = f[left[n]] /\ g[right[n]] = f[right[n]]
      BY <1>2
    <3>2. g[n] = f[n]
      OBVIOUS
    <3> HIDE DEF g
    <3> QED BY <1>7, <3>1, <3>2
  <2> QED BY <2>1
<1>9. g = [n \in Nodes |-> g[n]]
  OBVIOUS
<1>10. HasShapes(g)
  <2> HIDE DEF g
  <2> QED BY <1>8 DEF HasShapes
<1> QED BY <1>9, <1>10

\* The arena has each node at its position.
Placed(a) ==
  \A n \in Nodes :
    /\ left[n] = None => a[topoPos[n]].l = 0 /\ a[topoPos[n]].var = varAt[n]
    /\ left[n] # None => a[topoPos[n]].l = topoPos[left[n]] /\ a[topoPos[n]].r = topoPos[right[n]]

\* The copy has the same shape.
LEMMA ShapeOfCopy ==
  ASSUME Consistent(tree), NEW a, NEW back, NEW r \in Nodes, NEW new,
         RootOf(tree) = r, Copies(back, a, NumNodes, topoPos[r], new),
         Placed(a)
  PROVE  Shape(back, back.var) = Shape(tree, varAt)
<1> DEFINE shape == CHOOSE f : f = [n \in DOMAIN tree.left |->
                                      IF tree.left[n] = None THEN <<varAt[n]>>
                                      ELSE <<f[tree.left[n]], f[tree.right[n]]>>]
           copy == CHOOSE f : f = [n \in DOMAIN back.left |->
                                     IF back.left[n] = None THEN <<back.var[n]>>
                                     ELSE <<f[back.left[n]], f[back.right[n]]>>]
           to(n) == new[topoPos[n]]
           from(k) == CHOOSE n \in Nodes : to(n) = k
<1>0. /\ NumNodes \in Nat /\ Nodes = 1 .. NumNodes /\ None = 0 /\ None \notin Nodes
      /\ topoPos \in [Nodes -> Nodes]
  BY TreeFields
<1>1. tree.left = left /\ tree.right = right /\ tree.pos = topoPos /\ DOMAIN tree.left = Nodes
  <2>1. tree.left = left /\ tree.right = right /\ tree.pos = topoPos
    BY DEF tree
  <2> QED BY <2>1 DEF Consistent
<1>2. ASSUME NEW n \in Nodes, left[n] # None
      PROVE  left[n] \in Nodes /\ right[n] \in Nodes /\ topoPos[left[n]] < topoPos[n] /\ topoPos[right[n]] < topoPos[n]
  BY <1>1, <1>2, ChildrenOf
<1>3. /\ new \in [Nodes -> Nodes] /\ DOMAIN back.left = Nodes
      /\ \A k \in Nodes : \E i \in Nodes : new[i] = k
      /\ \A i, j \in Nodes : new[i] = new[j] => i = j
      /\ \A i \in Nodes :
           /\ back.var[new[i]] = a[i].var
           /\ a[i].l = 0 => back.left[new[i]] = 0
           /\ a[i].l # 0 => back.left[new[i]] = new[a[i].l] /\ back.right[new[i]] = new[a[i].r]
      /\ RootOf(back) = to(r)
  BY <1>0 DEF Copies
<1>4. ASSUME NEW n \in Nodes
      PROVE  /\ to(n) \in Nodes
             /\ left[n] = None => back.left[to(n)] = None /\ back.var[to(n)] = varAt[n]
             /\ left[n] # None => /\ back.left[to(n)] = to(left[n]) /\ back.right[to(n)] = to(right[n])
                                  /\ back.left[to(n)] # None
  <2>1. topoPos[n] \in Nodes
    BY <1>0
  <2>2. /\ left[n] = None => a[topoPos[n]].l = 0 /\ a[topoPos[n]].var = varAt[n]
        /\ left[n] # None => a[topoPos[n]].l = topoPos[left[n]] /\ a[topoPos[n]].r = topoPos[right[n]]
    BY DEF Placed
  <2>3. CASE left[n] = None
    BY <1>0, <1>3, <2>1, <2>2, <2>3
  <2>4. CASE left[n] # None
    <3>1. topoPos[left[n]] \in Nodes /\ to(left[n]) \in Nodes
      BY <1>0, <1>2, <1>3, <2>4
    <3>2. a[topoPos[n]].l # 0 /\ None \notin Nodes
      BY <1>0, <2>2, <2>4, <3>1
    <3>3. /\ back.left[new[topoPos[n]]] = new[a[topoPos[n]].l]
          /\ back.right[new[topoPos[n]]] = new[a[topoPos[n]].r]
      BY <1>0, <1>3, <2>1, <3>2
    <3>4. back.left[to(n)] = to(left[n]) /\ back.right[to(n)] = to(right[n])
      BY <2>2, <2>4, <3>3
    <3>5. to(n) \in Nodes
      BY <1>3, <2>1
    <3> HIDE DEF to
    <3> QED BY <2>4, <3>1, <3>2, <3>4, <3>5
  <2> QED BY <2>3, <2>4
<1>5. ASSUME NEW k \in Nodes PROVE \E n \in Nodes : to(n) = k
  <2>1. PICK i \in Nodes : new[i] = k
    BY <1>3
  <2>2. Topo[i] \in Nodes /\ topoPos[Topo[i]] = i
    BY TopoInverts
  <2> QED BY <2>1, <2>2
<1>6. ASSUME NEW m \in Nodes, NEW n \in Nodes, to(m) = to(n) PROVE m = n
  <2>1. topoPos[m] = topoPos[n]
    BY <1>0, <1>3, <1>6
  <2> QED BY <2>1, TreeFields
<1> HIDE DEF to
<1>7. ASSUME NEW n \in Nodes PROVE from(to(n)) = n
  <2>1. from(to(n)) \in Nodes /\ to(from(to(n))) = to(n)
    OBVIOUS
  <2> QED BY <1>6, <2>1
<1>8. PICK f : f = [n \in Nodes |-> f[n]] /\ HasShapes(f)
  BY ShapesExist
<1>9. shape = [n \in Nodes |-> IF left[n] = None THEN <<varAt[n]>> ELSE <<shape[left[n]], shape[right[n]]>>]
  <2>1. f = [n \in DOMAIN tree.left |->
               IF tree.left[n] = None THEN <<varAt[n]>> ELSE <<f[tree.left[n]], f[tree.right[n]]>>]
    BY <1>1, <1>8 DEF HasShapes
  <2>2. shape = [n \in DOMAIN tree.left |->
                   IF tree.left[n] = None THEN <<varAt[n]>> ELSE <<shape[tree.left[n]], shape[tree.right[n]]>>]
    BY <2>1
  <2> HIDE DEF shape
  <2> QED BY <1>1, <2>2
<1>10. Shape(tree, varAt) = shape[r]
  BY Zenon DEF Shape
<1>11. Shape(back, back.var) = copy[to(r)]
  <2>1. Shape(back, back.var) = copy[RootOf(back)]
    BY Zenon DEF Shape
  <2> HIDE DEF copy
  <2> QED BY <1>3, <2>1
<1> HIDE DEF shape, from
<1> DEFINE g == [k \in Nodes |-> shape[from(k)]]
<1>12. ASSUME NEW k \in Nodes
       PROVE  g[k] = IF back.left[k] = None THEN <<back.var[k]>> ELSE <<g[back.left[k]], g[back.right[k]]>>
  <2>1. PICK n \in Nodes : to(n) = k
    BY <1>5
  <2>2. \A m \in Nodes : g[to(m)] = shape[m]
    BY <1>4, <1>7
  <2>3. left[n] # None => left[n] \in Nodes /\ right[n] \in Nodes
    BY <1>2
  <2>4. shape[n] = IF left[n] = None THEN <<varAt[n]>> ELSE <<shape[left[n]], shape[right[n]]>>
    BY <1>9
  <2> HIDE DEF g
  <2> QED BY <1>4, <2>1, <2>2, <2>3, <2>4
<1>13. g = [n \in DOMAIN back.left |->
              IF back.left[n] = None THEN <<back.var[n]>> ELSE <<g[back.left[n]], g[back.right[n]]>>]
  <2>1. g = [k \in Nodes |-> g[k]]
    OBVIOUS
  <2> HIDE DEF g
  <2> QED BY <1>3, <1>12, <2>1
<1> HIDE DEF g
<1>14. copy = [n \in DOMAIN back.left |->
                 IF back.left[n] = None THEN <<back.var[n]>> ELSE <<copy[back.left[n]], copy[back.right[n]]>>]
  BY <1>13
<1> HIDE DEF copy
<1>15. \A k \in Nodes : copy[k] = IF back.left[k] = None THEN <<back.var[k]>>
                                  ELSE <<copy[back.left[k]], copy[back.right[k]]>>
  BY <1>3, <1>14
<1> DEFINE Good == {k \in 0 .. NumNodes : \A n \in Nodes : topoPos[n] <= k => copy[to(n)] = shape[n]}
<1>16. 0 \in Good
  <2>1. \A n \in Nodes : ~ (topoPos[n] <= 0)
    BY <1>0
  <2> QED BY <1>0, <2>1
<1>17. ASSUME NEW k \in 0 .. NumNodes - 1, k \in Good PROVE k + 1 \in Good
  <2>1. ASSUME NEW n \in Nodes, topoPos[n] <= k + 1 PROVE copy[to(n)] = shape[n]
    <3>1. ASSUME NEW m \in Nodes, topoPos[m] < topoPos[n] PROVE copy[to(m)] = shape[m]
      <4>1. topoPos[m] \in Int /\ topoPos[n] \in Int /\ k \in Int
        BY <1>0
      <4>2. topoPos[m] <= k
        BY <2>1, <3>1, <4>1
      <4> QED BY <1>17, <4>2
    <3>2. left[n] # None => copy[to(left[n])] = shape[left[n]] /\ copy[to(right[n])] = shape[right[n]]
      BY <1>2, <3>1
    <3>3. shape[n] = IF left[n] = None THEN <<varAt[n]>> ELSE <<shape[left[n]], shape[right[n]]>>
      BY <1>9
    <3>4. copy[to(n)] = IF back.left[to(n)] = None THEN <<back.var[to(n)]>>
                        ELSE <<copy[back.left[to(n)]], copy[back.right[to(n)]]>>
      BY <1>4, <1>15
    <3> QED BY <1>4, <3>2, <3>3, <3>4
  <2>2. k + 1 \in 0 .. NumNodes
    BY <1>0
  <2> QED BY <2>1, <2>2
<1>18. NumNodes \in Good
  <2> HIDE DEF Good
  <2>1. 0 .. NumNodes \subseteq Good
    BY <1>0, <1>16, <1>17, BoundedInduction
  <2> QED BY <1>0, <2>1
<1>19. copy[to(r)] = shape[r]
  <2>1. topoPos[r] <= NumNodes
    BY <1>0
  <2> QED BY <1>18, <2>1
<1> QED BY <1>10, <1>11, <1>19

\* The text of a consistent tree reads back as the tree.
LEMMA TextReadsBack ==
  ASSUME Consistent(tree)
  PROVE  TextRoundTrip
<1> DEFINE a == Arena(Text)
           root == Text[Len(Text)].id
           back == Parsed(Text)
<1>0. NumNodes \in Nat /\ Nodes = 1 .. NumNodes /\ None = 0
  BY TreeFields
<1>1. PICK r \in Nodes : RootOf(tree) = r /\ root = topoPos[r]
  BY TextArena
<1>2. /\ back = FromNodes(a, root)
      /\ \E own, d : ArenaTree(a, NumNodes, root, own, d)
      /\ Placed(a)
  BY TextArena DEF Parsed, Placed
<1> HIDE DEF a, root, back
<1>3. LaidOut(back, NumNodes) /\ \E new : Copies(back, a, NumNodes, root, new)
  BY <1>2, ArenaBuilt
<1>4. PICK new : Copies(back, a, NumNodes, topoPos[r], new)
  BY <1>1, <1>3
<1>5. Shape(back, back.var) = Shape(tree, varAt)
  BY <1>1, <1>2, <1>4, ShapeOfCopy
<1>6. \A i \in DOMAIN Text : Text[i].id = i /\ Text[i].l < i /\ Text[i].r < i
  BY LinesListed
<1>7. \A k \in Nodes : back.left[k] # None =>
        /\ {back.left[k], back.right[k]} \subseteq 1 .. k - 1
        /\ \A m \in k .. NumNodes : back.left[m] # None
  BY <1>0, <1>3 DEF LaidOut
<1> QED BY <1>5, <1>6, <1>7 DEF TextRoundTrip, back

\* In a tree of any size, after any run of rotations, the walk that compares positions
\* ends at the lowest common ancestor, and the text read back is the same tree, laid
\* out leaves first (lca, to_vtree_text, from_vtree_text).
THEOREM TraversalsAlwaysAgree == Spec => []TraversalsAgree
<1>1. TreeConsistent => TraversalsAgree
  BY WalkEndsLowest, TextReadsBack DEF TreeConsistent, TraversalsAgree
<1> QED BY <1>1, TreeStaysConsistent, PTL

-----------------------------------------------------------------------------
(***************************************************************************)
(* Rooting: a walk meets the component of its root, and named roots that   *)
(* are one of each component root exactly it.                              *)
(***************************************************************************)
\* What SearchAssumption says of a decomposition.
Decomposes(td) ==
  /\ td.bags \in Seq(SUBSET Nat) /\ td.bags # <<>>
  /\ td.adj \in [BagsOf(td) -> Seq(BagsOf(td))]
  /\ \A a, b \in BagsOf(td) : a \in ToSet(td.adj[b]) => b \in ToSet(td.adj[a])

Closed(td, S) == \A b \in S : ToSet(td.adj[b]) \subseteq S

\* The component of b: whatever a closed set with b in it holds.
Reach(td, b) == {c \in BagsOf(td) : \A S \in SUBSET BagsOf(td) : b \in S /\ Closed(td, S) => c \in S}

\* The bags are numbered from one.
LEMMA BagNumbers ==
  ASSUME NEW td, Decomposes(td)
  PROVE  /\ Len(td.bags) \in Nat /\ Len(td.bags) >= 1 /\ BagsOf(td) = 1 .. Len(td.bags)
         /\ NoBag \notin BagsOf(td)
         /\ \A b \in BagsOf(td) : td.adj[b] \in Seq(BagsOf(td)) /\ ToSet(td.adj[b]) \subseteq BagsOf(td)
<1>1. Len(td.bags) \in Nat /\ BagsOf(td) = 1 .. Len(td.bags)  BY DEF Decomposes, BagsOf
<1>2. Len(td.bags) # 0  BY DEF Decomposes
<1>3. \A b \in BagsOf(td) : td.adj[b] \in Seq(BagsOf(td))  BY DEF Decomposes
<1>4. ASSUME NEW b \in BagsOf(td) PROVE ToSet(td.adj[b]) \subseteq BagsOf(td)
  <2>. DEFINE B == BagsOf(td)
              s == td.adj[b]
  <2>1. s \in Seq(B)  BY <1>3
  <2>. HIDE DEF s, B
  <2>2. ToSet(s) \subseteq B  BY <2>1 DEF ToSet
  <2>. QED  BY <2>2 DEF s, B
<1>5. 0 \notin 1 .. Len(td.bags)  BY <1>1
<1>. QED  BY <1>1, <1>2, <1>3, <1>4, <1>5 DEF NoBag

\* It is closed itself, within every other closed set, and the same for all of its bags.
LEMMA ReachIsComponent ==
  ASSUME NEW td, Decomposes(td), NEW b \in BagsOf(td)
  PROVE  /\ b \in Reach(td, b) /\ Reach(td, b) \subseteq BagsOf(td) /\ Closed(td, Reach(td, b))
         /\ \A S \in SUBSET BagsOf(td) : b \in S /\ Closed(td, S) => Reach(td, b) \subseteq S
         /\ \A c \in Reach(td, b) : Reach(td, c) = Reach(td, b)
<1>. DEFINE B == BagsOf(td)
<1>0. \A a \in B : ToSet(td.adj[a]) \subseteq B  BY BagNumbers
<1>1. \A a \in B : a \in Reach(td, a) /\ Reach(td, a) \subseteq B  BY DEF Reach
<1>2. ASSUME NEW a \in B PROVE Closed(td, Reach(td, a))
  <2>1. ASSUME NEW c \in Reach(td, a), NEW d \in ToSet(td.adj[c]), NEW S \in SUBSET B, a \in S, Closed(td, S)
        PROVE  d \in S
    BY <2>1 DEF Reach, Closed
  <2>2. ASSUME NEW c \in Reach(td, a), NEW d \in ToSet(td.adj[c]) PROVE d \in Reach(td, a)
    <3>1. d \in B  BY <1>0, <1>1, <2>2
    <3>. QED  BY <2>1, <2>2, <3>1 DEF Reach
  <2>. QED  BY <2>2 DEF Closed
<1>3. \A a \in B : \A S \in SUBSET B : a \in S /\ Closed(td, S) => Reach(td, a) \subseteq S  BY DEF Reach
<1>4. ASSUME NEW c \in Reach(td, b) PROVE Reach(td, c) = Reach(td, b)
  <2>1. c \in B  BY <1>1, <1>4
  <2>2. Reach(td, c) \subseteq Reach(td, b)  BY <1>1, <1>2, <1>3, <1>4, <2>1
  <2>3. b \in Reach(td, c)
    <3>. SUFFICES ASSUME b \notin Reach(td, c) PROVE FALSE  OBVIOUS
    <3>. DEFINE S == Reach(td, b) \ Reach(td, c)
    <3>1. ASSUME NEW x \in S, NEW y \in ToSet(td.adj[x]) PROVE y \in S
      <4>1. x \in B /\ y \in B  BY <1>0, <1>1, <3>1
      <4>2. y \in Reach(td, b)  BY <1>2, <3>1 DEF Closed
      <4>3. x \in ToSet(td.adj[y])  BY <3>1, <4>1 DEF Decomposes
      <4>4. y \notin Reach(td, c)  BY <1>2, <2>1, <3>1, <4>3 DEF Closed
      <4>. QED  BY <4>2, <4>4
    <3>2. Closed(td, S)  BY <3>1 DEF Closed
    <3>3. S \in SUBSET B /\ b \in S  BY <1>1
    <3>4. c \in S  BY <1>4, <3>2, <3>3 DEF Reach
    <3>. QED  BY <1>1, <2>1, <3>4
  <2>4. Reach(td, b) \subseteq Reach(td, c)  BY <1>1, <1>2, <1>3, <2>1, <2>3
  <2>. QED  BY <2>2, <2>4
<1>. QED  BY <1>1, <1>2, <1>3, <1>4

Entries(td) == [bag : BagsOf(td), from : BagsOf(td) \cup {NoBag}, depth : Nat]

\* What is met from a bag: its neighbours but the one it was reached from.
LEMMA OnwardHolds ==
  ASSUME NEW td, Decomposes(td), NEW s \in Entries(td)
  PROVE  /\ Onward(td, s) \in Seq(Entries(td))
         /\ ToSet(Onward(td, s)) = {[bag |-> c, from |-> s.bag, depth |-> s.depth + 1] :
                                       c \in ToSet(td.adj[s.bag]) \ {s.from}}
<1>. DEFINE B == BagsOf(td)
            adj == td.adj[s.bag]
            n == Len(adj)
            made(c) == [bag |-> c, from |-> s.bag, depth |-> s.depth + 1]
            seqs == [i \in 1 .. n |-> IF adj[i] = s.from THEN <<>> ELSE <<made(adj[i])>>]
<1>1. s.bag \in B /\ s.depth \in Nat  BY DEF Entries
<1>2. adj \in Seq(B)  BY <1>1, BagNumbers
<1>3. n \in Nat /\ DOMAIN adj = 1 .. n /\ \A i \in 1 .. n : adj[i] \in B
  <2>. HIDE DEF adj, B
  <2>. QED  BY <1>2
<1>4. \A c \in B : made(c) \in Entries(td)  BY <1>1 DEF Entries
<1>5. Onward(td, s) = FlattenSeq(seqs)  BY <1>3 DEF Onward
<1>. HIDE DEF made, B
<1>6. \A i \in 1 .. n : seqs[i] \in Seq(Entries(td))
  <2>1. \A i \in 1 .. n : made(adj[i]) \in Entries(td)  BY <1>3, <1>4
  <2>. HIDE DEF adj, n
  <2>2. \A x \in Entries(td) : <<x>> \in Seq(Entries(td))  OBVIOUS
  <2>. QED  BY <2>1, <2>2
<1>7. \A i \in 1 .. n : ToSet(seqs[i]) = IF adj[i] = s.from THEN {} ELSE {made(adj[i])}
  <2>1. ToSet(<<>>) = {} /\ \A x : ToSet(<<x>>) = {x}  BY DEF ToSet
  <2>. HIDE DEF adj, n
  <2>. QED  BY <2>1
<1>8. seqs \in [1 .. n -> Seq(Entries(td))]
  <2>1. \A i \in 1 .. n : (IF adj[i] = s.from THEN <<>> ELSE <<made(adj[i])>>) \in Seq(Entries(td))  BY <1>6
  <2>. QED  BY <2>1
<1>. HIDE DEF seqs
<1>9. ToSet(FlattenSeq(seqs)) = UNION {ToSet(seqs[k]) : k \in 1 .. n}  BY <1>3, <1>8, FlattenHolds
<1>10. FlattenSeq(seqs) \in Seq(Entries(td))  BY <1>3, <1>8, FlattenTyped
<1>11. ToSet(adj) = {adj[i] : i \in 1 .. n}  BY <1>3 DEF ToSet
<1>12. UNION {ToSet(seqs[k]) : k \in 1 .. n} = {made(c) : c \in ToSet(adj) \ {s.from}}
  <2>. HIDE DEF adj, n
  <2>1. ASSUME NEW x \in UNION {ToSet(seqs[k]) : k \in 1 .. n}
        PROVE  x \in {made(c) : c \in ToSet(adj) \ {s.from}}
    <3>1. PICK k \in 1 .. n : x \in ToSet(seqs[k])  BY <2>1
    <3>2. adj[k] # s.from /\ x = made(adj[k])  BY <1>7, <3>1
    <3>. QED  BY <1>11, <3>2
  <2>2. ASSUME NEW c \in ToSet(adj) \ {s.from} PROVE made(c) \in UNION {ToSet(seqs[k]) : k \in 1 .. n}
    <3>1. PICK k \in 1 .. n : c = adj[k]  BY <1>11
    <3>2. made(c) \in ToSet(seqs[k])  BY <1>7, <3>1
    <3>. QED  BY <3>2
  <2>. QED  BY <2>1, <2>2
<1>. QED  BY <1>5, <1>9, <1>10, <1>12 DEF made, n, adj

\* The levels of a walk.
Leveled(td, root, level) ==
  /\ level \in [0 .. Len(td.bags) -> Seq(Entries(td))]
  /\ level[0] = <<[bag |-> root, from |-> NoBag, depth |-> 0]>>
  /\ \A d \in 1 .. Len(td.bags) :
       level[d] = FlattenSeq([i \in DOMAIN level[d - 1] |-> Onward(td, level[d - 1][i])])
  /\ Walk(td, root) = FlattenSeq([k \in 1 .. Len(td.bags) |-> level[k - 1]])

Following(td, above) == FlattenSeq([i \in DOMAIN above |-> Onward(td, above[i])])

\* The level below a level.
LEMMA FollowingHolds ==
  ASSUME NEW td, Decomposes(td), NEW above \in Seq(Entries(td))
  PROVE  /\ Following(td, above) \in Seq(Entries(td))
         /\ ToSet(Following(td, above)) = UNION {ToSet(Onward(td, s)) : s \in ToSet(above)}
<1>. DEFINE n == Len(above)
            E == Entries(td)
            seqs == [i \in 1 .. n |-> Onward(td, above[i])]
<1>1. n \in Nat /\ DOMAIN above = 1 .. n /\ \A i \in 1 .. n : above[i] \in E
  <2>1. above \in Seq(E)  OBVIOUS
  <2>. HIDE DEF E
  <2>. QED  BY <2>1
<1>2. \A i \in 1 .. n : Onward(td, above[i]) \in Seq(E)  BY <1>1, OnwardHolds
<1>. HIDE DEF E, n
<1>3. seqs \in [1 .. n -> Seq(E)]  BY <1>2
<1>4. Following(td, above) = FlattenSeq(seqs)  BY <1>1 DEF Following
<1>5. \A i \in 1 .. n : seqs[i] = Onward(td, above[i])  OBVIOUS
<1>6. ToSet(above) = {above[i] : i \in 1 .. n}  BY <1>1 DEF ToSet
<1>. HIDE DEF seqs
<1>7. ToSet(FlattenSeq(seqs)) = UNION {ToSet(seqs[k]) : k \in 1 .. n} /\ FlattenSeq(seqs) \in Seq(E)
  BY <1>1, <1>3, FlattenHolds, FlattenTyped
<1>8. UNION {ToSet(seqs[k]) : k \in 1 .. n} = UNION {ToSet(Onward(td, s)) : s \in ToSet(above)}
  BY <1>5, <1>6
<1>. QED  BY <1>4, <1>7, <1>8 DEF E

\* The recursion a walk is defined by has a solution.
LEMMA LevelsExist ==
  ASSUME NEW td, Decomposes(td), NEW root \in BagsOf(td)
  PROVE  \E level : Leveled(td, root, level)
<1>. DEFINE n == Len(td.bags)
            St == Seq(Entries(td))
            Rows == [0 .. n -> St]
            first == <<[bag |-> root, from |-> NoBag, depth |-> 0]>>
            step == [p \in (0 .. n) \X Rows |-> IF p[1] = 0 THEN first ELSE Following(td, p[2][p[1] - 1])]
            rank == [k \in 0 .. n |-> k]
            level == CHOOSE f : f = [k \in 0 .. Len(td.bags) |->
                       IF k = 0 THEN first
                       ELSE LET above == f[k - 1] IN FlattenSeq([i \in DOMAIN above |-> Onward(td, above[i])])]
<1>0. n \in Nat  BY BagNumbers
<1>1. first \in St
  <2>1. [bag |-> root, from |-> NoBag, depth |-> 0] \in Entries(td)  BY DEF Entries
  <2>. QED  BY <2>1
<1>2. rank \in [0 .. n -> 0 .. n]  OBVIOUS
<1>3. step \in [(0 .. n) \X Rows -> St]
  <2>1. ASSUME NEW k \in 0 .. n, NEW f \in Rows
        PROVE  (IF k = 0 THEN first ELSE Following(td, f[k - 1])) \in St
    <3>1. CASE k = 0  BY <1>1, <3>1
    <3>2. CASE k # 0
      <4>1. k - 1 \in 0 .. n  BY <1>0, <3>2
      <4>2. f[k - 1] \in St  BY <4>1
      <4>. QED  BY <3>2, <4>2, FollowingHolds
    <3>. QED  BY <3>1, <3>2
  <2>. HIDE DEF first, St, n
  <2>. QED  BY <2>1
<1>4. \A k \in 0 .. n, f \in Rows : step[<<k, f>>] = IF k = 0 THEN first ELSE Following(td, f[k - 1])
  OBVIOUS
<1>. HIDE DEF step, first, St
<1>5. Recursion(step, rank, n, 0 .. n, St)
  <2>. SUFFICES ASSUME NEW k \in 0 .. n, NEW f \in Rows, NEW g \in Rows,
                       \A m \in 0 .. n : rank[m] < rank[k] => f[m] = g[m]
                PROVE  step[<<k, f>>] = step[<<k, g>>]
    <3>. HIDE DEF rank, n
    <3>. QED  BY <1>0, <1>2, <1>3 DEF Recursion
  <2>1. k # 0 => f[k - 1] = g[k - 1]
    <3>1. k # 0 => k - 1 \in 0 .. n /\ rank[k - 1] < rank[k]  BY <1>0
    <3>. QED  BY <3>1
  <2>2. /\ step[<<k, f>>] = IF k = 0 THEN first ELSE Following(td, f[k - 1])
        /\ step[<<k, g>>] = IF k = 0 THEN first ELSE Following(td, g[k - 1])
    BY <1>4
  <2>. QED  BY <2>1, <2>2
<1>6. PICK f : Recurses(f, step, 0 .. n, St)
  <2>. HIDE DEF rank, n
  <2>. QED  BY <1>1, <1>5, RankedRecursion
<1>. HIDE DEF rank
<1>7. f = [k \in 0 .. n |-> IF k = 0 THEN first ELSE Following(td, f[k - 1])] /\ f \in Rows
  <2>. HIDE DEF n
  <2>. QED  BY <1>4, <1>6 DEF Recurses
<1>8. f = [k \in 0 .. Len(td.bags) |->
             IF k = 0 THEN first
             ELSE LET above == f[k - 1] IN FlattenSeq([i \in DOMAIN above |-> Onward(td, above[i])])]
  BY <1>7, Zenon DEF Following
<1>9. level = [k \in 0 .. n |-> IF k = 0 THEN first ELSE Following(td, level[k - 1])]
  BY <1>8, Zenon DEF Following
<1>10. Walk(td, root) = FlattenSeq([k \in 1 .. n |-> level[k - 1]])  BY Zenon DEF Walk, first
<1>. HIDE DEF level
<1>11. level[0] = first /\ \A k \in 1 .. n : level[k] = Following(td, level[k - 1])
  <2>. HIDE DEF n
  <2>1. 0 \in 0 .. n /\ \A k \in 1 .. n : k \in 0 .. n /\ k # 0  BY <1>0
  <2>. QED  BY <1>9, <2>1
<1>12. level \in Rows
  <2>. DEFINE Good == {k \in 0 .. n : level[k] \in St}
  <2>1. 0 \in Good  BY <1>0, <1>1, <1>11
  <2>2. ASSUME NEW k \in 0 .. n - 1, k \in Good PROVE k + 1 \in Good
    <3>1. k + 1 \in 1 .. n /\ k + 1 \in 0 .. n /\ (k + 1) - 1 = k  BY <1>0
    <3>2. level[k + 1] = Following(td, level[k])  BY <1>11, <3>1
    <3>3. level[k + 1] \in St  BY <2>2, <3>2, FollowingHolds DEF St
    <3>. QED  BY <3>1, <3>3
  <2>. HIDE DEF Good
  <2>3. 0 .. n \subseteq Good
    <3>. HIDE DEF n
    <3>. QED  BY <1>0, <2>1, <2>2, BoundedInduction
  <2>4. \A k \in 0 .. n : level[k] \in St  BY <2>3 DEF Good
  <2>. HIDE DEF n, St
  <2>5. level = [k \in 0 .. n |-> level[k]]  BY <1>9
  <2>. QED  BY <2>4, <2>5
<1>13. Leveled(td, root, level)  BY <1>10, <1>11, <1>12 DEF Leveled, Following, first, St
<1>. QED  BY <1>13


\* A walk meets the component of its root.
LEMMA WalkMeets ==
  ASSUME NEW td, Decomposes(td), NEW root \in BagsOf(td)
  PROVE  /\ Walk(td, root) \in Seq(Entries(td))
         /\ {s.bag : s \in ToSet(Walk(td, root))} = Reach(td, root)
<1>. DEFINE n == Len(td.bags)
            B == BagsOf(td)
            E == Entries(td)
            R == Reach(td, root)
<1>0. n \in Nat /\ n >= 1 /\ B = 1 .. n /\ NoBag \notin B  BY BagNumbers
<1>1. PICK level : Leveled(td, root, level)  BY LevelsExist
<1>2. root \in R /\ R \subseteq B /\ Closed(td, R)  BY ReachIsComponent
<1>. DEFINE At(k) == ToSet(level[k])
            U(k) == {b \in B : \E j \in 0 .. k : \E s \in At(j) : s.bag = b}
<1>3. \A k \in 0 .. n : level[k] \in Seq(E)  BY <1>1 DEF Leveled
<1>4. \A k \in 0 .. n : At(k) \subseteq E
  <2>. HIDE DEF E
  <2>. QED  BY <1>3 DEF ToSet
<1>5. At(0) = {[bag |-> root, from |-> NoBag, depth |-> 0]}
  <2>1. \A x : ToSet(<<x>>) = {x}  BY DEF ToSet
  <2>. QED  BY <1>1, <2>1 DEF Leveled
<1>6. ASSUME NEW k \in 0 .. n - 1
      PROVE  At(k + 1) = UNION {{[bag |-> c, from |-> s.bag, depth |-> s.depth + 1] :
                                   c \in ToSet(td.adj[s.bag]) \ {s.from}} : s \in At(k)}
  <2>1. k + 1 \in 1 .. n /\ (k + 1) - 1 = k /\ k \in 0 .. n  BY <1>0
  <2>2. level[k + 1] = Following(td, level[k])  BY <1>1, <2>1 DEF Leveled, Following
  <2>3. At(k + 1) = UNION {ToSet(Onward(td, s)) : s \in At(k)}  BY <1>3, <2>1, <2>2, FollowingHolds
  <2>4. \A s \in At(k) : ToSet(Onward(td, s)) = {[bag |-> c, from |-> s.bag, depth |-> s.depth + 1] :
                                                    c \in ToSet(td.adj[s.bag]) \ {s.from}}
    BY <1>4, <2>1, OnwardHolds
  <2>. HIDE DEF At
  <2>. QED  BY <2>3, <2>4
<1>. HIDE DEF At
<1>u. ASSUME NEW k \in 0 .. n - 1, NEW t \in At(k + 1)
      PROVE  \E s \in At(k) : \E c \in ToSet(td.adj[s.bag]) \ {s.from} :
               t = [bag |-> c, from |-> s.bag, depth |-> s.depth + 1]
  <2>. DEFINE made(s) == {[bag |-> c, from |-> s.bag, depth |-> s.depth + 1] : c \in ToSet(td.adj[s.bag]) \ {s.from}}
  <2>1. At(k + 1) = UNION {made(s) : s \in At(k)}  BY <1>6
  <2>2. PICK s \in At(k) : t \in made(s)
    <3>. HIDE DEF made
    <3>. QED  BY <1>u, <2>1
  <2>. QED  BY <2>2
<1>7. ASSUME NEW k \in 0 .. n - 1, NEW s \in At(k), NEW b \in ToSet(td.adj[s.bag])
      PROVE  b \in U(k + 1)
  <2>1. k \in 0 .. n /\ k + 1 \in 0 .. n /\ k + 1 \in 0 .. k + 1  BY <1>0
  <2>2. s.bag \in B /\ b \in B
    <3>1. s \in E  BY <1>4, <2>1
    <3>2. s.bag \in B  BY <3>1 DEF Entries
    <3>. QED  BY <3>2, <1>7, BagNumbers
  <2>3. CASE b # s.from
    <3>. DEFINE t == [bag |-> b, from |-> s.bag, depth |-> s.depth + 1]
    <3>1. t \in At(k + 1)  BY <1>6, <2>3
    <3>2. t.bag = b  OBVIOUS
    <3>. QED  BY <2>1, <2>2, <3>1, <3>2
  <2>4. CASE b = s.from
    <3>1. k # 0
      <4>. SUFFICES ASSUME k = 0 PROVE FALSE  OBVIOUS
      <4>1. s.from = NoBag  BY <1>5
      <4>. QED  BY <1>0, <2>2, <2>4, <4>1
    <3>2. k - 1 \in 0 .. n - 1 /\ (k - 1) + 1 = k /\ k - 1 \in 0 .. k + 1  BY <1>0, <3>1
    <3>3. PICK r \in At(k - 1) : s.from = r.bag
      <4>1. s \in At((k - 1) + 1)  BY <3>2
      <4>2. PICK r \in At(k - 1) : \E c \in ToSet(td.adj[r.bag]) \ {r.from} :
               s = [bag |-> c, from |-> r.bag, depth |-> r.depth + 1]
        BY <1>u, <3>2, <4>1
      <4>. QED  BY <4>2
    <3>4. r.bag = b  BY <2>4, <3>3
    <3>. QED  BY <2>2, <3>2, <3>4
  <2>. QED  BY <2>3, <2>4
<1>8. \A k \in 0 .. n - 1 : \A b \in U(k) : ToSet(td.adj[b]) \subseteq U(k + 1)
  <2>. SUFFICES ASSUME NEW k \in 0 .. n - 1, NEW b \in U(k), NEW c \in ToSet(td.adj[b]) PROVE c \in U(k + 1)
    OBVIOUS
  <2>1. PICK j \in 0 .. k : \E s \in At(j) : s.bag = b  OBVIOUS
  <2>2. j \in 0 .. n - 1 /\ j + 1 \in 0 .. k + 1 /\ 0 .. j + 1 \subseteq 0 .. k + 1  BY <1>0
  <2>3. c \in U(j + 1)  BY <1>7, <2>1, <2>2
  <2>. QED  BY <2>2, <2>3
<1>9. \A k \in 0 .. n - 1 : U(k) \subseteq U(k + 1)
  <2>1. \A k \in 0 .. n - 1 : 0 .. k \subseteq 0 .. k + 1  BY <1>0
  <2>. QED  BY <2>1
<1>10. \A k \in 0 .. n : \A s \in At(k) : s.bag \in R
  <2>. DEFINE Good == {k \in 0 .. n : \A s \in At(k) : s.bag \in R}
  <2>1. 0 \in Good  BY <1>0, <1>2, <1>5
  <2>2. ASSUME NEW k \in 0 .. n - 1, k \in Good PROVE k + 1 \in Good
    <3>1. k + 1 \in 0 .. n  BY <1>0
    <3>2. ASSUME NEW t \in At(k + 1) PROVE t.bag \in R
      <4>1. PICK s \in At(k) : \E c \in ToSet(td.adj[s.bag]) \ {s.from} :
               t = [bag |-> c, from |-> s.bag, depth |-> s.depth + 1]
        BY <1>u, <3>2
      <4>2. t.bag \in ToSet(td.adj[s.bag]) /\ s.bag \in R  BY <2>2, <4>1
      <4>. QED  BY <1>2, <4>2 DEF Closed
    <3>. QED  BY <3>1, <3>2
  <2>. HIDE DEF Good
  <2>3. 0 .. n \subseteq Good
    <3>. HIDE DEF n
    <3>. QED  BY <1>0, <2>1, <2>2, BoundedInduction
  <2>. QED  BY <2>3 DEF Good
<1>11. \A k \in 0 .. n : U(k) \subseteq R
  <2>1. \A k \in 0 .. n : \A j \in 0 .. k : j \in 0 .. n  BY <1>0
  <2>. QED  BY <1>10, <2>1
<1>12. \A k \in 0 .. n : root \in U(k)
  <2>1. \E s \in At(0) : s.bag = root
    <3>. DEFINE s == [bag |-> root, from |-> NoBag, depth |-> 0]
    <3>1. s \in At(0) /\ s.bag = root  BY <1>5
    <3>. QED  BY <3>1
  <2>2. \A k \in 0 .. n : 0 \in 0 .. k  BY <1>0
  <2>. QED  BY <2>1, <2>2
<1>13. \A k \in 0 .. n : IsFiniteSet(U(k)) /\ Cardinality(U(k)) \in Nat /\ Cardinality(U(k)) <= n
  <2>1. IsFiniteSet(B) /\ Cardinality(B) = n  BY <1>0, FS_Interval
  <2>2. \A k \in 0 .. n : U(k) \subseteq B  OBVIOUS
  <2>. HIDE DEF U, B, n
  <2>. QED  BY <2>1, <2>2, FS_Subset, FS_CardinalityType
<1>. HIDE DEF U
<1>14. ASSUME NEW k \in 0 .. n - 1, U(k + 1) = U(k) PROVE U(k) = R
  <2>1. k \in 0 .. n  BY <1>0
  <2>2. Closed(td, U(k))  BY <1>8, <1>14 DEF Closed
  <2>3. U(k) \subseteq B  BY <1>2, <1>11, <2>1
  <2>4. R \subseteq U(k)  BY <1>12, <2>1, <2>2, <2>3, ReachIsComponent
  <2>. QED  BY <1>11, <2>1, <2>4
<1>15. U(n - 1) = R
  <2>. DEFINE Grown(k) == U(k) = R \/ Cardinality(U(k)) >= k + 1
              Good == {k \in 0 .. n - 1 : Grown(k)}
  <2>1. 0 \in Good
    <3>1. 0 \in 0 .. n /\ 0 \in 0 .. n - 1  BY <1>0
    <3>2. U(0) # {}  BY <1>12, <3>1
    <3>3. Cardinality(U(0)) # 0  BY <1>13, <3>1, <3>2, FS_EmptySet
    <3>4. Cardinality(U(0)) >= 0 + 1  BY <1>13, <3>1, <3>3
    <3>. QED  BY <3>1, <3>4
  <2>2. ASSUME NEW k \in 0 .. (n - 1) - 1, k \in Good PROVE k + 1 \in Good
    <3>1. k \in 0 .. n - 1 /\ k + 1 \in 0 .. n - 1 /\ k \in 0 .. n /\ k + 1 \in 0 .. n /\ k \in Nat  BY <1>0
    <3>2. CASE U(k) = R
      <4>1. U(k) \subseteq U(k + 1) /\ U(k + 1) \subseteq R  BY <1>9, <1>11, <3>1
      <4>2. U(k + 1) = R  BY <3>2, <4>1
      <4>. QED  BY <3>1, <4>2
    <3>3. CASE U(k + 1) = U(k)
      <4>1. U(k + 1) = R  BY <1>14, <3>1, <3>3
      <4>. QED  BY <3>1, <4>1
    <3>4. CASE U(k) # R /\ U(k + 1) # U(k)
      <4>1. U(k) \subseteq U(k + 1)  BY <1>9, <3>1
      <4>2. Cardinality(U(k)) <= Cardinality(U(k + 1)) /\ Cardinality(U(k)) # Cardinality(U(k + 1))
        BY <1>13, <3>1, <3>4, <4>1, FS_Subset
      <4>3. Cardinality(U(k)) >= k + 1  BY <2>2, <3>4
      <4>4. Cardinality(U(k)) \in Nat /\ Cardinality(U(k + 1)) \in Nat  BY <1>13, <3>1
      <4>5. Cardinality(U(k + 1)) >= (k + 1) + 1  BY <3>1, <4>2, <4>3, <4>4
      <4>. QED  BY <3>1, <4>5
    <3>. QED  BY <3>2, <3>3, <3>4
  <2>3. n - 1 \in Nat  BY <1>0
  <2>4. n - 1 \in Good
    <3>1. 0 .. n - 1 \subseteq Good
      <4>. HIDE DEF Good, n
      <4>. QED  BY <2>1, <2>2, <2>3, BoundedInduction
    <3>. QED  BY <2>3, <3>1
  <2>5. CASE U(n - 1) = R  BY <2>5
  <2>6. CASE Cardinality(U(n - 1)) >= (n - 1) + 1
    <3>1. n - 1 \in 0 .. n  BY <1>0
    <3>2. U(n - 1) \subseteq B  BY <1>2, <1>11, <3>1
    <3>3. Cardinality(U(n - 1)) = n
      <4>1. Cardinality(U(n - 1)) \in Nat /\ Cardinality(U(n - 1)) <= n  BY <1>13, <3>1
      <4>. HIDE DEF n
      <4>. QED  BY <1>0, <2>6, <4>1
    <3>4. IsFiniteSet(B) /\ Cardinality(B) = n  BY <1>0, FS_Interval
    <3>5. U(n - 1) = B
      <4>. HIDE DEF B, n
      <4>. QED  BY <3>2, <3>3, <3>4, FS_Subset
    <3>. QED  BY <1>2, <1>11, <3>1, <3>5
  <2>. QED  BY <2>4, <2>5, <2>6
<1>. DEFINE seqs == [k \in 1 .. n |-> level[k - 1]]
<1>16. \A k \in 1 .. n : k - 1 \in 0 .. n  BY <1>0
<1>17. seqs \in [1 .. n -> Seq(E)]
  <2>. HIDE DEF n, E
  <2>. QED  BY <1>3, <1>16
<1>18. Walk(td, root) = FlattenSeq(seqs)  BY <1>1 DEF Leveled
<1>19. \A k \in 1 .. n : ToSet(seqs[k]) = At(k - 1)
  <2>1. \A k \in 1 .. n : seqs[k] = level[k - 1]  OBVIOUS
  <2>. QED  BY <2>1 DEF At
<1>. HIDE DEF seqs
<1>20. /\ Walk(td, root) \in Seq(E)
       /\ ToSet(Walk(td, root)) = UNION {ToSet(seqs[k]) : k \in 1 .. n}
  <2>. HIDE DEF n, E
  <2>1. n \in Nat  BY <1>0
  <2>2. FlattenSeq(seqs) \in Seq(E)  BY <1>17, <2>1, FlattenTyped
  <2>3. ToSet(FlattenSeq(seqs)) = UNION {ToSet(seqs[k]) : k \in 1 .. n}  BY <1>17, <2>1, FlattenHolds
  <2>. QED  BY <1>18, <2>2, <2>3
<1>21. {s.bag : s \in ToSet(Walk(td, root))} = U(n - 1)
  <2>1. ASSUME NEW s \in ToSet(Walk(td, root)) PROVE s.bag \in U(n - 1)
    <3>1. PICK k \in 1 .. n : s \in At(k - 1)  BY <1>19, <1>20, <2>1
    <3>2. k - 1 \in 0 .. n - 1 /\ k - 1 \in 0 .. n  BY <1>0
    <3>3. s.bag \in B  BY <1>4, <3>1, <3>2 DEF Entries
    <3>. QED  BY <3>1, <3>2, <3>3 DEF U
  <2>2. ASSUME NEW b \in U(n - 1) PROVE \E s \in ToSet(Walk(td, root)) : s.bag = b
    <3>1. PICK j \in 0 .. n - 1 : \E s \in At(j) : s.bag = b  BY <2>2 DEF U
    <3>2. j + 1 \in 1 .. n /\ (j + 1) - 1 = j  BY <1>0
    <3>. QED  BY <1>19, <1>20, <3>1, <3>2
  <2>. QED  BY <2>1, <2>2
<1>. QED  BY <1>15, <1>20, <1>21

\* What rooting goes through: a forest that has claimed some of the bags.
Forests(td) ==
  [order : Seq(BagsOf(td)), roots : Seq(BagsOf(td)),
   parent : [BagsOf(td) -> BagsOf(td) \cup {NoBag}], depth : [BagsOf(td) -> Nat]]

Bare(td) ==
  [order |-> <<>>, roots |-> <<>>,
   parent |-> [b \in BagsOf(td) |-> NoBag], depth |-> [b \in BagsOf(td) |-> 0]]

\* Rooting a bag claims its component.
LEMMA WalkedHolds ==
  ASSUME NEW td, Decomposes(td), NEW f \in Forests(td), NEW root \in BagsOf(td)
  PROVE  /\ Walked(td, f, root) \in Forests(td)
         /\ Walked(td, f, root).roots = Append(f.roots, root)
         /\ ToSet(Walked(td, f, root).order) = ToSet(f.order) \cup Reach(td, root)
<1>. DEFINE B == BagsOf(td)
            E == Entries(td)
            walk == Walk(td, root)
            n == Len(walk)
            of(b) == {i \in DOMAIN walk : walk[i].bag = b}
            met(b) == walk[CHOOSE i \in of(b) : TRUE]
            order == f.order \o [i \in DOMAIN walk |-> walk[i].bag]
            parents == [b \in B |-> IF of(b) = {} THEN f.parent[b] ELSE met(b).from]
            depths == [b \in B |-> IF of(b) = {} THEN f.depth[b] ELSE met(b).depth]
            bags == [i \in 1 .. n |-> walk[i].bag]
            g == Walked(td, f, root)
<1>1. walk \in Seq(E) /\ {s.bag : s \in ToSet(walk)} = Reach(td, root)  BY WalkMeets
<1>2. f.order \in Seq(B) /\ f.roots \in Seq(B) /\ f.parent \in [B -> B \cup {NoBag}] /\ f.depth \in [B -> Nat]
  BY DEF Forests
<1>3. g = [order |-> order, roots |-> Append(f.roots, root), parent |-> parents, depth |-> depths]
  BY Zenon DEF Walked, Joining
<1>4. n \in Nat /\ DOMAIN walk = 1 .. n /\ \A i \in 1 .. n : walk[i] \in E
  <2>. HIDE DEF walk, E
  <2>. QED  BY <1>1
<1>5. \A s \in E : s.bag \in B /\ s.from \in B \cup {NoBag} /\ s.depth \in Nat  BY DEF Entries
<1>6. \A b : of(b) # {} => met(b) \in E
  <2>1. \A b : of(b) # {} => (CHOOSE i \in of(b) : TRUE) \in of(b)
    <3>. HIDE DEF walk
    <3>. QED  OBVIOUS
  <2>2. \A b : of(b) \subseteq 1 .. n  BY <1>4
  <2>. HIDE DEF of, walk
  <2>. QED  BY <1>4, <2>1, <2>2
<1>. HIDE DEF walk, E, B, of, met, n
<1>7. parents \in [B -> B \cup {NoBag}] /\ depths \in [B -> Nat]
  <2>1. ASSUME NEW b \in B
        PROVE  /\ (IF of(b) = {} THEN f.parent[b] ELSE met(b).from) \in B \cup {NoBag}
               /\ (IF of(b) = {} THEN f.depth[b] ELSE met(b).depth) \in Nat
    <3>1. CASE of(b) = {}  BY <1>2, <3>1
    <3>2. CASE of(b) # {}  BY <1>5, <1>6, <3>2
    <3>. QED  BY <3>1, <3>2
  <2>. QED  BY <2>1
<1>8. bags \in Seq(B) /\ order = f.order \o bags
  <2>1. \A i \in 1 .. n : walk[i].bag \in B  BY <1>4, <1>5
  <2>2. bags \in [1 .. n -> B]  BY <2>1
  <2>3. bags \in Seq(B)
    <3>. HIDE DEF bags
    <3>. QED  BY <1>4, <2>2
  <2>. QED  BY <1>4, <2>3
<1>9. ToSet(bags) = Reach(td, root)
  <2>0. DOMAIN bags = 1 .. n /\ \A i \in 1 .. n : bags[i] = walk[i].bag  OBVIOUS
  <2>. HIDE DEF bags
  <2>1. ToSet(bags) = {walk[i].bag : i \in 1 .. n}  BY <2>0 DEF ToSet
  <2>2. ToSet(walk) = {walk[i] : i \in 1 .. n}  BY <1>4 DEF ToSet
  <2>3. {s.bag : s \in ToSet(walk)} = {walk[i].bag : i \in 1 .. n}  BY <2>2
  <2>. QED  BY <1>1, <2>1, <2>3
<1>. HIDE DEF bags
<1>10. order \in Seq(B) /\ ToSet(order) = ToSet(f.order) \cup Reach(td, root)
  <2>. HIDE DEF order
  <2>1. f.order \o bags \in Seq(B) /\ ToSet(f.order \o bags) = ToSet(f.order) \cup ToSet(bags)
    BY <1>2, <1>8, ConcatHolds
  <2>. QED  BY <1>8, <1>9, <2>1
<1>11. Append(f.roots, root) \in Seq(B)
  <2>1. root \in B  BY DEF B
  <2>. QED  BY <1>2, <2>1
<1>. HIDE DEF order, parents, depths, g
<1>12. g \in Forests(td)  BY <1>3, <1>7, <1>10, <1>11 DEF Forests, B
<1>. QED  BY <1>3, <1>10, <1>12 DEF g

\* The bags as rooting goes through them, and the forest after each.
Claiming(td, roots) == roots \o [b \in BagsOf(td) |-> b]

LEMMA ClaimingHolds ==
  ASSUME NEW td, Decomposes(td), NEW roots \in Seq(BagsOf(td))
  PROVE  /\ Claiming(td, roots) \in Seq(BagsOf(td))
         /\ Len(roots) \in Nat /\ Len(Claiming(td, roots)) \in Nat /\ Len(roots) <= Len(Claiming(td, roots))
         /\ \A i \in 1 .. Len(roots) : Claiming(td, roots)[i] = roots[i]
         /\ \A b \in BagsOf(td) : \E i \in 1 .. Len(Claiming(td, roots)) : Claiming(td, roots)[i] = b
<1>. DEFINE B == BagsOf(td)
            n == Len(td.bags)
            all == [b \in B |-> b]
<1>1. n \in Nat /\ B = 1 .. n  BY BagNumbers
<1>2. all \in Seq(B) /\ Len(all) = n
  <2>1. all = [b \in 1 .. n |-> b] /\ \A b \in 1 .. n : b \in B  BY <1>1
  <2>. HIDE DEF n, B
  <2>. QED  BY <1>1, <2>1
<1>3. \A b \in B : all[b] = b  OBVIOUS
<1>4. Claiming(td, roots) = roots \o all  BY DEF Claiming
<1>. HIDE DEF all, n
<1>5. ASSUME NEW b \in B PROVE \E i \in 1 .. Len(roots) + n : (roots \o all)[i] = b
  <2>. HIDE DEF B
  <2>1. Len(roots) \in Nat /\ roots \in Seq(B)  BY DEF B
  <2>2. Len(roots) + b \in 1 .. Len(roots) + n  BY <1>1, <1>5, <2>1
  <2>3. (roots \o all)[Len(roots) + b] = all[b]  BY <1>1, <1>2, <1>5, <2>1, <2>2
  <2>. QED  BY <1>3, <1>5, <2>2, <2>3
<1>. HIDE DEF B
<1>6. roots \in Seq(B)  BY DEF B
<1>7. /\ roots \o all \in Seq(B) /\ Len(roots \o all) = Len(roots) + n /\ Len(roots) \in Nat
      /\ \A i \in 1 .. Len(roots) : (roots \o all)[i] = roots[i]
  <2>1. Len(roots) \in Nat  BY <1>6
  <2>2. roots \o all \in Seq(B)  BY <1>2, <1>6
  <2>3. Len(roots \o all) = Len(roots) + n  BY <1>2, <1>6
  <2>4. \A i \in 1 .. Len(roots) : (roots \o all)[i] = roots[i]  BY <1>2, <1>6
  <2>. QED  BY <2>1, <2>2, <2>3, <2>4
<1>8. /\ Claiming(td, roots) \in Seq(B) /\ Len(Claiming(td, roots)) = Len(roots) + n
      /\ \A i \in 1 .. Len(roots) : Claiming(td, roots)[i] = roots[i]
      /\ \A b \in B : \E i \in 1 .. Len(roots) + n : Claiming(td, roots)[i] = b
  BY <1>4, <1>5, <1>7
<1>9. Len(roots) + n \in Nat /\ Len(roots) <= Len(roots) + n  BY <1>1, <1>7
<1>. QED  BY <1>7, <1>8, <1>9 DEF B

RootsInTurn(td, roots, forests) ==
  LET seq == Claiming(td, roots)
  IN  /\ forests \in [0 .. Len(seq) -> Forests(td)]
      /\ forests[0] = Bare(td) /\ forests[Len(seq)] = Forest(td, roots)
      /\ \A k \in 1 .. Len(seq) : forests[k] = Claimed(td, forests[k - 1], seq[k])

\* The forest that comes of it is reached by such steps.
LEMMA RootingRuns ==
  ASSUME NEW td, Decomposes(td), NEW roots \in Seq(BagsOf(td))
  PROVE  \E forests : RootsInTurn(td, roots, forests)
<1>. DEFINE B == BagsOf(td)
            St == Forests(td)
            seq == Claiming(td, roots)
            n == Len(seq)
            base == Bare(td)
            step == [p \in (1 .. n) \X St |-> Claimed(td, p[2], seq[p[1]])]
            Turn(it, T) == IF T = {} THEN base ELSE Claimed(td, it[T \ {Max(T)}], seq[Max(T)])
            iter == CHOOSE it : it = [T \in SUBSET (1 .. n) |-> Turn(it, T)]
<1>1. n \in Nat /\ DOMAIN seq = 1 .. n /\ \A i \in 1 .. n : seq[i] \in B
  <2>1. seq \in Seq(B)  BY ClaimingHolds
  <2>. HIDE DEF seq, B
  <2>. QED  BY <2>1
<1>2. step \in [(1 .. n) \X St -> St]
  <2>1. \A k \in 1 .. n, f \in St : Claimed(td, f, seq[k]) \in St  BY <1>1, WalkedHolds DEF Claimed
  <2>. HIDE DEF St, n, seq
  <2>. QED  BY <2>1
<1>3. base \in St
  <2>1. <<>> \in Seq(B)  OBVIOUS
  <2>. QED  BY <2>1 DEF Bare, Forests
<1>4. Forest(td, roots) = iter[1 .. n]
  BY <1>1, Zenon DEF Forest, FoldLeft, MapThenFoldSet, Bare, Claiming
<1>. HIDE DEF n
<1>5. PICK g \in [SUBSET (1 .. n) -> St] : IsIteration(g, n, base, step)
  <2>. HIDE DEF step, base, St
  <2>. QED  BY <1>1, <1>2, <1>3, IterationExists
<1>6. \A T \in (SUBSET (1 .. n)) \ {{}} : Max(T) \in 1 .. n
  BY <1>1, MaxOfNumbers
<1>. HIDE DEF St, base, seq
<1>7. g = [T \in SUBSET (1 .. n) |-> Turn(g, T)]
  <2>1. \A T \in SUBSET (1 .. n) : T \ {Max(T)} \in SUBSET (1 .. n)  OBVIOUS
  <2>. QED  BY <1>5, <1>6, <2>1 DEF IsIteration
<1>8. iter = [T \in SUBSET (1 .. n) |-> Turn(iter, T)]
  <2>. HIDE DEF Turn
  <2>. QED  BY <1>7
<1>9. Iterates(iter, n, St, base, step)
  <2>. HIDE DEF iter
  <2>. QED  BY <1>6, <1>8 DEF Iterates
<1>. HIDE DEF iter
<1>10. GoesThrough(iter, n, St, step)
  <2>. HIDE DEF step
  <2>. QED  BY <1>1, <1>2, <1>3, <1>9, IterationRuns
<1>11. iter[1 .. 0] = base
  <2>1. 1 .. 0 = {}  OBVIOUS
  <2>. QED  BY <1>9, <2>1 DEF Iterates
<1>12. \A k \in 1 .. n : iter[1 .. k] = Claimed(td, iter[1 .. k - 1], seq[k])
  <2>1. \A k \in 1 .. n, f \in St : step[<<k, f>>] = Claimed(td, f, seq[k])  OBVIOUS
  <2>2. \A k \in 1 .. n : k - 1 \in 0 .. n  BY <1>1
  <2>. HIDE DEF step
  <2>. QED  BY <1>10, <2>1, <2>2 DEF GoesThrough
<1>. DEFINE forests == [k \in 0 .. n |-> iter[1 .. k]]
<1>13. forests \in [0 .. n -> St]
  <2>. HIDE DEF step
  <2>. QED  BY <1>10 DEF GoesThrough
<1>14. /\ forests[0] = base /\ forests[n] = Forest(td, roots)
       /\ \A k \in 1 .. n : forests[k] = Claimed(td, forests[k - 1], seq[k])
  <2>. HIDE DEF step
  <2>. QED  BY <1>1, <1>4, <1>11, <1>12
<1>. HIDE DEF forests
<1>15. RootsInTurn(td, roots, forests)  BY <1>13, <1>14 DEF RootsInTurn, n, St, base, seq
<1>. QED  BY <1>15

\* One root for each component.
OneEach(td, roots) ==
  /\ roots \in Seq(BagsOf(td))
  /\ \A i, j \in 1 .. Len(roots) : roots[i] \in Reach(td, roots[j]) => i = j
  /\ \A b \in BagsOf(td) : \E i \in 1 .. Len(roots) : b \in Reach(td, roots[i])

\* What holds of the forest after the k first of seq.
ClaimedSoFar(td, seq, k, f) ==
  /\ f \in Forests(td)
  /\ \A b \in BagsOf(td) : b \in ToSet(f.order) <=> \E i \in 1 .. Len(f.roots) : b \in Reach(td, f.roots[i])
  /\ \A j \in 1 .. k : seq[j] \in ToSet(f.order)
  /\ \A i, j \in 1 .. Len(f.roots) : f.roots[i] \in Reach(td, f.roots[j]) => i = j
  /\ IF k = 0 THEN f.roots = <<>> ELSE Len(f.roots) > 0 /\ f.roots[1] = seq[1]

\* One more bag: it is claimed already, or roots its component.
LEMMA ClaimHolds ==
  ASSUME NEW td, Decomposes(td), NEW seq \in Seq(BagsOf(td)), NEW k \in Nat, k + 1 <= Len(seq),
         NEW f, ClaimedSoFar(td, seq, k, f)
  PROVE  ClaimedSoFar(td, seq, k + 1, Claimed(td, f, seq[k + 1]))
<1>. DEFINE B == BagsOf(td)
            r == seq[k + 1]
            g == Claimed(td, f, r)
            m == Len(f.roots)
<1>1. Len(seq) \in Nat /\ k + 1 \in 1 .. Len(seq) /\ r \in B /\ (k = 0 \/ 1 \in 1 .. k)
  <2>1. seq \in Seq(B)  OBVIOUS
  <2>. HIDE DEF B
  <2>. QED  BY <2>1
<1>2. 1 .. k + 1 = (1 .. k) \cup {k + 1}  OBVIOUS
<1>3. f.roots \in Seq(B) /\ f.order \in Seq(B)  BY DEF ClaimedSoFar, Forests
<1>4. m \in Nat /\ \A i \in 1 .. m : f.roots[i] \in B
  <2>. HIDE DEF B
  <2>. QED  BY <1>3
<1>5. CASE r \in ToSet(f.order)
  <2>1. g = f  BY <1>5 DEF Claimed
  <2>2. m > 0 /\ f.roots[1] = seq[1]
    <3>1. CASE k > 0  BY <3>1 DEF ClaimedSoFar
    <3>2. CASE k = 0
      <4>1. PICK i \in 1 .. m : r \in Reach(td, f.roots[i])  BY <1>1, <1>5 DEF ClaimedSoFar
      <4>2. f.roots = <<>>  BY <3>2 DEF ClaimedSoFar
      <4>3. m = 0  BY <4>2
      <4>. QED  BY <4>1, <4>3
    <3>. QED  BY <3>1, <3>2
  <2>. QED  BY <1>2, <1>5, <2>1, <2>2 DEF ClaimedSoFar
<1>6. CASE r \notin ToSet(f.order)
  <2>1. g = Walked(td, f, r)  BY <1>6 DEF Claimed
  <2>2. g \in Forests(td) /\ g.roots = Append(f.roots, r) /\ ToSet(g.order) = ToSet(f.order) \cup Reach(td, r)
    <3>1. f \in Forests(td)  BY DEF ClaimedSoFar
    <3>2. /\ Walked(td, f, r) \in Forests(td) /\ Walked(td, f, r).roots = Append(f.roots, r)
          /\ ToSet(Walked(td, f, r).order) = ToSet(f.order) \cup Reach(td, r)
      BY <1>1, <3>1, WalkedHolds
    <3>. QED  BY <2>1, <3>2
  <2>3. Len(g.roots) = m + 1 /\ g.roots[m + 1] = r /\ \A i \in 1 .. m : g.roots[i] = f.roots[i]
    <3>. HIDE DEF g, r, B
    <3>. QED  BY <1>1, <1>3, <2>2
  <2>4. 1 .. m + 1 = (1 .. m) \cup {m + 1}  BY <1>4
  <2>. HIDE DEF g
  <2>5. ASSUME NEW b \in B
        PROVE  b \in ToSet(g.order) <=> \E i \in 1 .. Len(g.roots) : b \in Reach(td, g.roots[i])
    <3>1. b \in ToSet(f.order) <=> \E i \in 1 .. m : b \in Reach(td, f.roots[i])  BY DEF ClaimedSoFar
    <3>. HIDE DEF m, r
    <3>. QED  BY <2>2, <2>3, <2>4, <3>1
  <2>6. \A j \in 1 .. k + 1 : seq[j] \in ToSet(g.order)
    <3>1. r \in Reach(td, r)  BY <1>1, ReachIsComponent
    <3>. QED  BY <1>2, <2>2, <3>1 DEF ClaimedSoFar
  <2>7. \A i \in 1 .. m : r \notin Reach(td, f.roots[i]) /\ f.roots[i] \notin Reach(td, r)
    <3>1. \A i \in 1 .. m : r \notin Reach(td, f.roots[i])  BY <1>1, <1>6 DEF ClaimedSoFar
    <3>2. ASSUME NEW i \in 1 .. m, f.roots[i] \in Reach(td, r) PROVE FALSE
      <4>1. Reach(td, f.roots[i]) = Reach(td, r) /\ r \in Reach(td, r)  BY <1>1, <3>2, ReachIsComponent
      <4>. QED  BY <3>1, <3>2, <4>1
    <3>. QED  BY <3>1, <3>2
  <2>8. ASSUME NEW i \in 1 .. m + 1, NEW j \in 1 .. m + 1, g.roots[i] \in Reach(td, g.roots[j]) PROVE i = j
    <3>1. CASE i \in 1 .. m /\ j \in 1 .. m
      <4>1. f.roots[i] \in Reach(td, f.roots[j])  BY <2>3, <2>8, <3>1
      <4>. QED  BY <3>1, <4>1 DEF ClaimedSoFar
    <3>2. CASE i = m + 1 /\ j \in 1 .. m  BY <2>3, <2>7, <2>8, <3>2
    <3>3. CASE i \in 1 .. m /\ j = m + 1  BY <2>3, <2>7, <2>8, <3>3
    <3>. HIDE DEF m
    <3>. QED  BY <2>4, <3>1, <3>2, <3>3
  <2>9. Len(g.roots) > 0 /\ g.roots[1] = seq[1]
    <3>1. CASE k > 0
      <4>1. m > 0 /\ f.roots[1] = seq[1]  BY <3>1 DEF ClaimedSoFar
      <4>. HIDE DEF m
      <4>. QED  BY <1>4, <2>3, <4>1
    <3>2. CASE k = 0
      <4>0. f.roots = <<>>  BY <3>2 DEF ClaimedSoFar
      <4>1. m = 0  BY <4>0
      <4>. QED  BY <2>3, <3>2, <4>1
    <3>. QED  BY <3>1, <3>2
  <2>. QED  BY <2>2, <2>3, <2>5, <2>6, <2>8, <2>9 DEF ClaimedSoFar, g
<1>. QED  BY <1>5, <1>6

\* Whatever is named, one bag of each component roots it, and the first named does.
LEMMA ForestRoots ==
  ASSUME NEW td, Decomposes(td), NEW roots \in Seq(BagsOf(td))
  PROVE  /\ OneEach(td, Forest(td, roots).roots)
         /\ roots # <<>> => Forest(td, roots).roots # <<>> /\ Forest(td, roots).roots[1] = roots[1]
         /\ Forest(td, roots).roots # <<>>
<1>. DEFINE B == BagsOf(td)
            seq == Claiming(td, roots)
            n == Len(seq)
            f == Forest(td, roots)
<1>1. PICK forests : RootsInTurn(td, roots, forests)  BY RootingRuns
<1>2. seq \in Seq(B) /\ n \in Nat /\ \A b \in B : \E i \in 1 .. n : seq[i] = b  BY ClaimingHolds
<1>3. /\ forests \in [0 .. n -> Forests(td)] /\ forests[0] = Bare(td) /\ forests[n] = f
      /\ \A k \in 1 .. n : forests[k] = Claimed(td, forests[k - 1], seq[k])
  BY <1>1 DEF RootsInTurn
<1>4. B = 1 .. Len(td.bags) /\ Len(td.bags) \in Nat /\ Len(td.bags) >= 1  BY BagNumbers
<1>5. 1 \in B  BY <1>4
<1>6. n > 0  BY <1>2, <1>5
<1>. DEFINE Good == {k \in 0 .. n : ClaimedSoFar(td, seq, k, forests[k])}
<1>. HIDE DEF seq, f, n
<1>7. 0 \in Good
  <2>1. forests[0] \in Forests(td)  BY <1>2, <1>3
  <2>2. forests[0].roots = <<>> /\ forests[0].order = <<>>  BY <1>3 DEF Bare
  <2>3. ToSet(forests[0].order) = {} /\ Len(forests[0].roots) = 0  BY <2>2 DEF ToSet
  <2>4. ClaimedSoFar(td, seq, 0, forests[0])  BY <2>1, <2>2, <2>3 DEF ClaimedSoFar
  <2>. QED  BY <1>2, <2>4
<1>8. ASSUME NEW k \in 0 .. n - 1, k \in Good PROVE k + 1 \in Good
  <2>1. k + 1 \in 1 .. n /\ k + 1 \in 0 .. n /\ (k + 1) - 1 = k /\ k \in Nat /\ k + 1 <= n  BY <1>2
  <2>2. forests[k + 1] = Claimed(td, forests[k], seq[k + 1])  BY <1>3, <2>1
  <2>3. ClaimedSoFar(td, seq, k, forests[k])  BY <1>8
  <2>4. ClaimedSoFar(td, seq, k + 1, forests[k + 1])  BY <1>2, <2>1, <2>2, <2>3, ClaimHolds DEF n
  <2>. QED  BY <2>1, <2>4
<1>9. ClaimedSoFar(td, seq, n, f)
  <2>1. 0 .. n \subseteq Good
    <3>. HIDE DEF Good
    <3>. QED  BY <1>2, <1>7, <1>8, BoundedInduction
  <2>. QED  BY <1>2, <1>3, <2>1
<1>10. /\ f.roots \in Seq(B) /\ Len(f.roots) > 0 /\ f.roots[1] = seq[1]
       /\ \A i, j \in 1 .. Len(f.roots) : f.roots[i] \in Reach(td, f.roots[j]) => i = j
       /\ \A j \in 1 .. n : seq[j] \in ToSet(f.order)
       /\ \A b \in B : b \in ToSet(f.order) <=> \E i \in 1 .. Len(f.roots) : b \in Reach(td, f.roots[i])
  BY <1>2, <1>6, <1>9 DEF ClaimedSoFar, Forests
<1>11. \A b \in B : \E i \in 1 .. Len(f.roots) : b \in Reach(td, f.roots[i])
  <2>1. ASSUME NEW b \in B PROVE b \in ToSet(f.order)
    <3>1. PICK i \in 1 .. n : seq[i] = b  BY <1>2, <2>1
    <3>. QED  BY <1>10, <3>1
  <2>. HIDE DEF B
  <2>. QED  BY <1>10, <2>1
<1>12. OneEach(td, f.roots)  BY <1>10, <1>11 DEF OneEach
<1>13. roots # <<>> => seq[1] = roots[1]
  <2>. HIDE DEF B
  <2>1. roots \in Seq(B)  BY DEF B
  <2>2. roots # <<>> => 1 \in 1 .. Len(roots)  BY <2>1
  <2>. QED  BY <2>2, ClaimingHolds DEF seq
<1>14. f.roots # <<>>  BY <1>10
<1>. QED  BY <1>10, <1>12, <1>13, <1>14 DEF f

\* Roots that are one of each component root as they are.
LEMMA ForestKeeps ==
  ASSUME NEW td, Decomposes(td), NEW roots, OneEach(td, roots)
  PROVE  Forest(td, roots).roots = roots
<1>. DEFINE B == BagsOf(td)
            seq == Claiming(td, roots)
            n == Len(seq)
            m == Len(roots)
            f == Forest(td, roots)
<1>0. roots \in Seq(B)  BY DEF OneEach
<1>1. PICK forests : RootsInTurn(td, roots, forests)  BY <1>0, RootingRuns
<1>2. /\ seq \in Seq(B) /\ n \in Nat /\ m \in Nat /\ m <= n
      /\ \A i \in 1 .. m : seq[i] = roots[i]
  BY <1>0, ClaimingHolds
<1>3. /\ forests \in [0 .. n -> Forests(td)] /\ forests[0] = Bare(td) /\ forests[n] = f
      /\ \A k \in 1 .. n : forests[k] = Claimed(td, forests[k - 1], seq[k])
  BY <1>1 DEF RootsInTurn
<1>4. /\ \A i, j \in 1 .. m : roots[i] \in Reach(td, roots[j]) => i = j
      /\ \A b \in B : \E i \in 1 .. m : b \in Reach(td, roots[i])
  BY DEF OneEach
<1>5. \A i \in 1 .. n : seq[i] \in B
  <2>. HIDE DEF seq, B
  <2>. QED  BY <1>2
<1>. DEFINE upto(k) == IF k <= m THEN k ELSE m
            Prefix(k) == /\ Len(forests[k].roots) = upto(k)
                         /\ \A i \in 1 .. upto(k) : forests[k].roots[i] = roots[i]
            Good == {k \in 0 .. n : ClaimedSoFar(td, seq, k, forests[k]) /\ Prefix(k)}
<1>. HIDE DEF seq, f, n, m
<1>7. 0 \in Good
  <2>1. forests[0] \in Forests(td)  BY <1>2, <1>3
  <2>2. forests[0].roots = <<>> /\ forests[0].order = <<>>  BY <1>3 DEF Bare
  <2>3. ToSet(forests[0].order) = {} /\ Len(forests[0].roots) = 0  BY <2>2 DEF ToSet
  <2>4. ClaimedSoFar(td, seq, 0, forests[0])  BY <2>1, <2>2, <2>3 DEF ClaimedSoFar
  <2>5. Prefix(0)  BY <1>2, <2>3
  <2>. QED  BY <1>2, <2>4, <2>5
<1>8. ASSUME NEW k \in 0 .. n - 1, k \in Good PROVE k + 1 \in Good
  <2>. DEFINE a == forests[k]
              r == seq[k + 1]
              g == forests[k + 1]
  <2>1. k + 1 \in 1 .. n /\ k + 1 \in 0 .. n /\ (k + 1) - 1 = k /\ k \in Nat /\ k + 1 <= n  BY <1>2
  <2>2. g = Claimed(td, a, r)  BY <1>3, <2>1
  <2>3. ClaimedSoFar(td, seq, k, a) /\ Prefix(k)  BY <1>8
  <2>4. ClaimedSoFar(td, seq, k + 1, g)  BY <1>2, <2>1, <2>2, <2>3, ClaimHolds DEF n
  <2>5. r \in B /\ a \in Forests(td)  BY <1>5, <2>1, <2>3 DEF ClaimedSoFar
  <2>6. r \in ToSet(a.order) <=> \E i \in 1 .. upto(k) : r \in Reach(td, roots[i])
    <3>1. r \in ToSet(a.order) <=> \E i \in 1 .. Len(a.roots) : r \in Reach(td, a.roots[i])
      BY <2>3, <2>5 DEF ClaimedSoFar
    <3>2. Len(a.roots) = upto(k) /\ \A i \in 1 .. upto(k) : a.roots[i] = roots[i]  BY <2>3
    <3>. HIDE DEF upto, a, r
    <3>. QED  BY <3>1, <3>2
  <2>7. CASE k + 1 <= m
    <3>1. upto(k) = k /\ upto(k + 1) = k + 1 /\ k + 1 \in 1 .. m  BY <1>2, <2>1, <2>7
    <3>2. r = roots[k + 1]  BY <1>2, <3>1
    <3>3. r \notin ToSet(a.order)
      <4>. SUFFICES ASSUME r \in ToSet(a.order) PROVE FALSE  OBVIOUS
      <4>1. PICK i \in 1 .. k : r \in Reach(td, roots[i])  BY <2>6, <3>1
      <4>2. i \in 1 .. m /\ i # k + 1  BY <1>2, <2>1, <2>7
      <4>. QED  BY <1>4, <3>1, <3>2, <4>1, <4>2
    <3>4. g.roots = Append(a.roots, r)  BY <2>2, <2>5, <3>3, WalkedHolds DEF Claimed
    <3>5. a.roots \in Seq(B) /\ Len(a.roots) = k /\ \A i \in 1 .. k : a.roots[i] = roots[i]
      BY <2>3, <2>5, <3>1 DEF Forests
    <3>6. Len(g.roots) = k + 1 /\ g.roots[k + 1] = r /\ \A i \in 1 .. k : g.roots[i] = roots[i]
      <4>. HIDE DEF a, r, g, B
      <4>. QED  BY <2>1, <2>5, <3>4, <3>5
    <3>7. \A i \in 1 .. k + 1 : i \in 1 .. k \/ i = k + 1  OBVIOUS
    <3>8. Prefix(k + 1)
      <4>1. \A i \in 1 .. k + 1 : g.roots[i] = roots[i]  BY <3>2, <3>6, <3>7
      <4>. HIDE DEF upto
      <4>. QED  BY <3>1, <3>6, <4>1
    <3>. QED  BY <2>1, <2>4, <3>8
  <2>8. CASE ~ (k + 1 <= m)
    <3>1. upto(k) = m /\ upto(k + 1) = m  BY <1>2, <2>1, <2>8
    <3>2. g = a  BY <1>4, <2>2, <2>5, <2>6, <3>1 DEF Claimed
    <3>3. Prefix(k + 1)
      <4>. HIDE DEF upto
      <4>. QED  BY <2>3, <3>1, <3>2
    <3>. QED  BY <2>1, <2>4, <3>3
  <2>. QED  BY <2>7, <2>8
<1>9. ClaimedSoFar(td, seq, n, f) /\ Prefix(n)
  <2>1. 0 .. n \subseteq Good
    <3>. HIDE DEF Good
    <3>. QED  BY <1>2, <1>7, <1>8, BoundedInduction
  <2>. QED  BY <1>2, <1>3, <2>1
<1>10. upto(n) = m  BY <1>2
<1>11. f.roots \in Seq(B) /\ Len(f.roots) = m /\ \A i \in 1 .. m : f.roots[i] = roots[i]
  BY <1>3, <1>9, <1>10 DEF ClaimedSoFar, Forests
<1>. HIDE DEF B
<1>. QED  BY <1>0, <1>11 DEF m, f

\* The bag found most central is one the walk has met.
LEMMA MostCentralMet ==
  ASSUME NEW td, NEW start, NEW U, NEW walk \in Seq(U), NEW size
  PROVE  MostCentral(td, start, walk, size) \in {start} \cup {s.bag : s \in ToSet(walk)}
<1>. DEFINE n == Len(walk)
            part(k) == LargestPart(td, walk, size, walk[k])
            R == {start} \cup {walk[k].bag : k \in 1 .. n}
            P == {n} \cup {part(k) : k \in 1 .. n}
            St == [bag : R, part : P]
            base == [bag |-> start, part |-> n]
            step == [p \in (1 .. n) \X St |-> Lighter(p[2], walk[p[1]], part(p[1]))]
            Turn(it, T) == IF T = {} THEN base ELSE Lighter(it[T \ {Max(T)}], walk[Max(T)], part(Max(T)))
            iter == CHOOSE it : it = [T \in SUBSET (1 .. n) |-> Turn(it, T)]
<1>1. n \in Nat /\ DOMAIN walk = 1 .. n  BY Elements
<1>2. step \in [(1 .. n) \X St -> St]
  <2>1. ASSUME NEW k \in 1 .. n, NEW best \in St PROVE Lighter(best, walk[k], part(k)) \in St
    <3>1. walk[k].bag \in R /\ part(k) \in P  OBVIOUS
    <3>. HIDE DEF R, P, part
    <3>. QED  BY <3>1 DEF Lighter
  <2>. HIDE DEF St, n, part
  <2>. QED  BY <2>1
<1>3. base \in St  OBVIOUS
<1>4. MostCentral(td, start, walk, size) = iter[1 .. n].bag
  BY <1>1, Zenon DEF MostCentral, FoldLeft, MapThenFoldSet
<1>. HIDE DEF n
<1>5. PICK g \in [SUBSET (1 .. n) -> St] : IsIteration(g, n, base, step)
  <2>. HIDE DEF step, base, St
  <2>. QED  BY <1>1, <1>2, <1>3, IterationExists
<1>6. \A T \in (SUBSET (1 .. n)) \ {{}} : Max(T) \in 1 .. n
  BY <1>1, MaxOfNumbers
<1>. HIDE DEF St, base, part
<1>7. g = [T \in SUBSET (1 .. n) |-> Turn(g, T)]
  <2>1. \A T \in SUBSET (1 .. n) : T \ {Max(T)} \in SUBSET (1 .. n)  OBVIOUS
  <2>. QED  BY <1>5, <1>6, <2>1 DEF IsIteration
<1>8. iter = [T \in SUBSET (1 .. n) |-> Turn(iter, T)]
  <2>. HIDE DEF Turn
  <2>. QED  BY <1>7
<1>9. Iterates(iter, n, St, base, step)
  <2>. HIDE DEF iter
  <2>. QED  BY <1>6, <1>8 DEF Iterates
<1>. HIDE DEF iter
<1>10. GoesThrough(iter, n, St, step)
  <2>. HIDE DEF step
  <2>. QED  BY <1>1, <1>2, <1>3, <1>9, IterationRuns
<1>11. iter[1 .. n] \in St
  <2>1. n \in 0 .. n  BY <1>1
  <2>. QED  BY <1>10, <2>1 DEF GoesThrough
<1>12. iter[1 .. n].bag \in R  BY <1>11 DEF St
<1>13. R = {start} \cup {s.bag : s \in ToSet(walk)}
  <2>1. ToSet(walk) = {walk[k] : k \in 1 .. n}  BY <1>1 DEF ToSet
  <2>. QED  BY <2>1
<1>. QED  BY <1>4, <1>12, <1>13

\* So a centroid is in the component it was looked for in.
LEMMA CentroidReached ==
  ASSUME NEW td, Decomposes(td), NEW start \in BagsOf(td)
  PROVE  Centroid(td, start) \in Reach(td, start)
<1>. DEFINE walk == Walk(td, start)
<1>1. walk \in Seq(Entries(td)) /\ {s.bag : s \in ToSet(walk)} = Reach(td, start)  BY WalkMeets
<1>2. start \in Reach(td, start)  BY ReachIsComponent
<1>3. MostCentral(td, start, walk, SubtreeSizes(td, walk)) \in {start} \cup {s.bag : s \in ToSet(walk)}
  <2>. DEFINE size == SubtreeSizes(td, walk)
  <2>. HIDE DEF walk, size
  <2>1. MostCentral(td, start, walk, size) \in {start} \cup {s.bag : s \in ToSet(walk)}
    BY <1>1, MostCentralMet
  <2>. QED  BY <2>1 DEF size
<1>4. Centroid(td, start) = start \/ Centroid(td, start) = MostCentral(td, start, walk, SubtreeSizes(td, walk))
  BY Zenon DEF Centroid
<1>. QED  BY <1>1, <1>2, <1>3, <1>4

\* The first bags, and the centroids, root as they stand.
LEMMA HeadsRoot ==
  ASSUME NEW td, Decomposes(td), NEW pick \in {AtFirst, AtCentroid}
  PROVE  /\ OneEach(td, RootBags(td, pick)) /\ RootBags(td, pick) # <<>>
         /\ Forest(td, RootBags(td, pick)).roots = RootBags(td, pick)
<1>. DEFINE B == BagsOf(td)
            first == Forest(td, <<>>).roots
            central == [i \in DOMAIN first |-> Centroid(td, first[i])]
            m == Len(first)
<1>1. OneEach(td, first) /\ first # <<>>
  <2>1. <<>> \in Seq(B)  OBVIOUS
  <2>. QED  BY <2>1, ForestRoots
<1>2. /\ first \in Seq(B) /\ m \in Nat /\ DOMAIN first = 1 .. m /\ \A i \in 1 .. m : first[i] \in B
      /\ \A i, j \in 1 .. m : first[i] \in Reach(td, first[j]) => i = j
      /\ \A b \in B : \E i \in 1 .. m : b \in Reach(td, first[i])
  <2>1. /\ first \in Seq(B)
        /\ \A i, j \in 1 .. m : first[i] \in Reach(td, first[j]) => i = j
        /\ \A b \in B : \E i \in 1 .. m : b \in Reach(td, first[i])
    BY <1>1 DEF OneEach
  <2>. HIDE DEF first, B
  <2>2. m \in Nat /\ DOMAIN first = 1 .. m /\ \A i \in 1 .. m : first[i] \in B  BY <2>1, Elements
  <2>. QED  BY <2>1, <2>2
<1>3. OneEach(td, central) /\ central # <<>>
  <2>1. \A i \in 1 .. m : central[i] \in Reach(td, first[i]) /\ central[i] = Centroid(td, first[i])
    BY <1>2, CentroidReached
  <2>2. \A i \in 1 .. m : central[i] \in B /\ Reach(td, central[i]) = Reach(td, first[i])
    <3>. HIDE DEF first, central
    <3>1. ASSUME NEW i \in 1 .. m PROVE central[i] \in B /\ Reach(td, central[i]) = Reach(td, first[i])
      <4>1. first[i] \in B /\ central[i] \in Reach(td, first[i])  BY <1>2, <2>1
      <4>. QED  BY <4>1, ReachIsComponent
    <3>. QED  BY <3>1
  <2>3. central \in Seq(B) /\ Len(central) = m
    <3>1. central = [i \in 1 .. m |-> Centroid(td, first[i])]  BY <1>2
    <3>2. \A i \in 1 .. m : Centroid(td, first[i]) \in B  BY <2>1, <2>2
    <3>. HIDE DEF central, first, B, m
    <3>. QED  BY <1>2, <3>1, <3>2
  <2>4. ASSUME NEW i \in 1 .. m, NEW j \in 1 .. m, central[i] \in Reach(td, central[j]) PROVE i = j
    <3>1. central[i] \in Reach(td, first[j])  BY <2>2, <2>4
    <3>2. Reach(td, first[i]) = Reach(td, first[j])
      <4>. HIDE DEF first, central
      <4>1. first[j] \in B  BY <1>2
      <4>2. Reach(td, central[i]) = Reach(td, first[j])  BY <3>1, <4>1, ReachIsComponent
      <4>. QED  BY <2>2, <4>2
    <3>3. first[i] \in Reach(td, first[j])  BY <1>2, <3>2, ReachIsComponent
    <3>. QED  BY <1>2, <3>3
  <2>5. \A b \in B : \E i \in 1 .. m : b \in Reach(td, central[i])  BY <1>2, <2>2
  <2>6. m # 0
    <3>. HIDE DEF first, B
    <3>. QED  BY <1>1, <1>2
  <2>7. central # <<>>  
    <3>. HIDE DEF central
    <3>. QED  BY <2>3, <2>6
  <2>. QED  BY <2>3, <2>4, <2>5, <2>7 DEF OneEach
<1>4. RootBags(td, AtFirst) = first /\ RootBags(td, AtCentroid) = central
  BY DEF RootBags, Picked, AtFirst, AtCentroid
<1>5. RootBags(td, pick) \in {first, central}  BY <1>4
<1>. HIDE DEF first, central
<1>. QED  BY <1>1, <1>3, <1>5, ForestKeeps

\* A leaf bag roots its own component.
LEMMA LeafRootsFirst ==
  ASSUME NEW td, Decomposes(td), NEW b \in BagsOf(td)
  PROVE  /\ RootBags(td, AtLeaf(b)) = <<b>>
         /\ Forest(td, RootBags(td, AtLeaf(b))).roots[1] = b
         /\ b \in ToSet(Forest(td, RootBags(td, AtLeaf(b))).roots)
<1>1. RootBags(td, AtLeaf(b)) = <<b>>  BY DEF RootBags, Picked, AtLeaf
<1>. DEFINE roots == <<b>>
            f == Forest(td, roots)
<1>2. roots \in Seq(BagsOf(td)) /\ roots # <<>> /\ roots[1] = b  OBVIOUS
<1>. HIDE DEF roots
<1>3. OneEach(td, f.roots) /\ f.roots # <<>> /\ f.roots[1] = b  BY <1>2, ForestRoots
<1>4. f.roots \in Seq(BagsOf(td))  BY <1>3 DEF OneEach
<1>5. b \in ToSet(f.roots)
  <2>. DEFINE B == BagsOf(td)
              s == f.roots
  <2>1. s \in Seq(B) /\ s # <<>> /\ s[1] = b  BY <1>3, <1>4
  <2>. HIDE DEF s, B
  <2>2. Len(s) \in Nat /\ DOMAIN s = 1 .. Len(s) /\ Len(s) # 0  BY <2>1
  <2>3. 1 \in DOMAIN s  BY <2>2
  <2>. QED  BY <2>1, <2>3 DEF ToSet, s
<1>. QED  BY <1>1, <1>3, <1>5 DEF f, roots

\* The ways to root td, and the roots they come to.
Picks(td) == {AtFirst, AtCentroid} \cup {AtLeaf(b) : b \in BagsOf(td)}

RootedAt(td, pick) == Forest(td, RootBags(td, pick)).roots

\* No two of the roots root the decomposition alike.
RootedApart(td, roots) ==
  \A i, j \in 1 .. Len(roots) : RootedAt(td, roots[i]) = RootedAt(td, roots[j]) => i = j

LEMMA LeastOfTwo ==
  ASSUME NEW a \in Int, NEW b \in Int
  PROVE  Min({a, b}) \in {a, b} /\ Min({a, b}) <= a /\ Min({a, b}) <= b
<1>1. \E x \in {a, b} : \A y \in {a, b} : x <= y
  <2>1. CASE a <= b  BY <2>1
  <2>2. CASE ~ (a <= b)  BY <2>2
  <2>. QED  BY <2>1, <2>2
<1>2. Min({a, b}) \in {a, b} /\ \A y \in {a, b} : Min({a, b}) <= y  BY <1>1 DEF Min
<1>. QED  BY <1>2

\* The leaf bags named, each once, and none of them a root of heads.
NamesLeaves(td, heads, n, leaves) ==
  /\ n \in Nat /\ leaves \in [1 .. n -> BagsOf(td)]
  /\ LeafRoots(td, heads) = [i \in 1 .. n |-> AtLeaf(leaves[i])]
  /\ \A i, j \in 1 .. n : leaves[i] = leaves[j] => i = j
  /\ \A i \in 1 .. n : \A h \in DOMAIN heads : leaves[i] \notin ToSet(RootBags(td, heads[h]))

LEMMA LeavesNamed ==
  ASSUME NEW td, Decomposes(td), NEW heads, Len(heads) \in Nat
  PROVE  \E n, leaves : NamesLeaves(td, heads, n, leaves)
<1>. DEFINE B == BagsOf(td)
            ends == {b \in B : Len(td.adj[b]) = 1 /\ \A i \in DOMAIN heads : b \notin ToSet(RootBags(td, heads[i]))}
            N == Cardinality(ends)
            lowest == [k \in 1 .. N |-> CHOOSE b \in ends : Cardinality({a \in ends : a < b}) = k - 1]
            cut == Min({N, RootCap - Len(heads)})
            n == IF cut >= 0 THEN cut ELSE 0
            leaves == [i \in 1 .. n |-> lowest[i]]
<1>1. B = 1 .. Len(td.bags) /\ Len(td.bags) \in Nat  BY BagNumbers
<1>2. LeafRoots(td, heads) = [i \in 1 .. cut |-> AtLeaf(lowest[i])]  BY Zenon DEF LeafRoots
<1>3. \A b \in ends : \A h \in DOMAIN heads : b \notin ToSet(RootBags(td, heads[h]))  OBVIOUS
<1>4. ends \subseteq B  OBVIOUS
<1>. HIDE DEF ends
<1>5. IsFiniteSet(ends) /\ Lists(lowest, ends)  BY <1>1, <1>4, NumbersListed
<1>6. N \in Nat  BY <1>5, FS_CardinalityType
<1>. HIDE DEF lowest, N
<1>7. lowest \in [1 .. N -> ends] /\ \A i, j \in 1 .. N : lowest[i] = lowest[j] => i = j
  BY <1>5 DEF Lists, N
<1>8. RootCap - Len(heads) \in Int  BY SearchAssumption
<1>9. cut \in Int /\ cut <= N
  <2>. DEFINE room == RootCap - Len(heads)
  <2>1. N \in Int /\ room \in Int  BY <1>6, <1>8
  <2>. HIDE DEF room
  <2>2. Min({N, room}) \in {N, room} /\ Min({N, room}) <= N  BY <2>1, LeastOfTwo
  <2>3. cut = Min({N, room})  BY DEF cut, room
  <2>. HIDE DEF cut
  <2>. QED  BY <2>1, <2>2, <2>3
<1>. HIDE DEF cut
<1>10. n \in Nat /\ n <= N /\ 1 .. cut = 1 .. n  BY <1>6, <1>9
<1>. HIDE DEF n
<1>11. \A i \in 1 .. n : i \in 1 .. N  BY <1>6, <1>10
<1>12. leaves \in [1 .. n -> ends] /\ \A i \in 1 .. n : leaves[i] = lowest[i]  BY <1>7, <1>11
<1>. HIDE DEF leaves
<1>13. LeafRoots(td, heads) = [i \in 1 .. n |-> AtLeaf(leaves[i])]  BY <1>2, <1>10, <1>12
<1>14. \A i, j \in 1 .. n : leaves[i] = leaves[j] => i = j  BY <1>7, <1>11, <1>12
<1>15. \A i \in 1 .. n : \A h \in DOMAIN heads : leaves[i] \notin ToSet(RootBags(td, heads[h]))
  BY <1>3, <1>12
<1>16. leaves \in [1 .. n -> B]  BY <1>4, <1>12
<1>17. NamesLeaves(td, heads, n, leaves)  BY <1>10, <1>13, <1>14, <1>15, <1>16 DEF NamesLeaves
<1>. QED  BY <1>17

\* The roots that are no leaf's differ in what they root.
LEMMA HeadsApart ==
  ASSUME NEW td, Decomposes(td), NEW named \in {"any", "first", "centroid", "leaf"}
  PROVE  /\ Heads(td, named) \in Seq({AtFirst, AtCentroid}) /\ RootedApart(td, Heads(td, named))
         /\ named # "leaf" => Heads(td, named) # <<>>
<1>. DEFINE H == {AtFirst, AtCentroid}
<1>1. \A x \in H : <<x>> \in Seq(H) /\ <<x>> # <<>> /\ RootedApart(td, <<x>>)
  BY DEF RootedApart
<1>2. <<>> \in Seq(H) /\ RootedApart(td, <<>>)  BY DEF RootedApart
<1>3. AtFirst \in H /\ AtCentroid \in H  OBVIOUS
<1>4. ASSUME CentroidDiffers(td, RootBags(td, AtFirst))
      PROVE  /\ <<AtFirst, AtCentroid>> \in Seq(H) /\ <<AtFirst, AtCentroid>> # <<>>
             /\ RootedApart(td, <<AtFirst, AtCentroid>>)
  <2>1. RootedAt(td, AtFirst) # RootedAt(td, AtCentroid)
    BY <1>3, <1>4, HeadsRoot DEF CentroidDiffers, RootedAt
  <2>. DEFINE s == <<AtFirst, AtCentroid>>
  <2>2. s \in Seq(H) /\ s # <<>> /\ Len(s) = 2 /\ s[1] = AtFirst /\ s[2] = AtCentroid  OBVIOUS
  <2>. HIDE DEF s
  <2>3. \A i \in 1 .. 2 : i = 1 \/ i = 2  OBVIOUS
  <2>4. RootedApart(td, s)  BY <2>1, <2>2, <2>3 DEF RootedApart
  <2>. QED  BY <2>2, <2>4 DEF s
<1>. HIDE DEF H
<1>5. CASE named = "first"
  <2>1. Heads(td, named) = <<AtFirst>>  BY <1>5 DEF Heads
  <2>. QED  BY <1>1, <1>3, <2>1 DEF H
<1>6. CASE named = "any"
  <2>1. Heads(td, named) = IF CentroidDiffers(td, RootBags(td, AtFirst)) THEN <<AtFirst, AtCentroid>> ELSE <<AtFirst>>
    BY <1>6 DEF Heads
  <2>2. CASE CentroidDiffers(td, RootBags(td, AtFirst))  BY <1>4, <2>1, <2>2 DEF H
  <2>3. CASE ~ CentroidDiffers(td, RootBags(td, AtFirst))  BY <1>1, <1>3, <2>1, <2>3 DEF H
  <2>. QED  BY <2>2, <2>3
<1>7. CASE named = "centroid"
  <2>1. Heads(td, named) = <<AtCentroid>>  BY <1>7 DEF Heads
  <2>. QED  BY <1>1, <1>3, <2>1 DEF H
<1>8. CASE named = "leaf"
  <2>1. Heads(td, named) = <<>>  BY <1>8 DEF Heads
  <2>. QED  BY <1>2, <1>8, <2>1 DEF H
<1>. QED  BY <1>5, <1>6, <1>7, <1>8

\* The leaves come behind heads that root something else.
LEMMA LeavesApart ==
  ASSUME NEW td, Decomposes(td), NEW heads \in Seq({AtFirst, AtCentroid}), RootedApart(td, heads)
  PROVE  heads \o LeafRoots(td, heads) \in Seq(Picks(td)) /\ RootedApart(td, heads \o LeafRoots(td, heads))
<1>. DEFINE B == BagsOf(td)
            P == Picks(td)
            m == Len(heads)
            more == LeafRoots(td, heads)
            all == heads \o more
<1>1. m \in Nat /\ DOMAIN heads = 1 .. m /\ \A i \in 1 .. m : heads[i] \in {AtFirst, AtCentroid}  OBVIOUS
<1>2. PICK n, leaves : NamesLeaves(td, heads, n, leaves)  BY <1>1, LeavesNamed
<1>3. n \in Nat /\ leaves \in [1 .. n -> B] /\ more = [i \in 1 .. n |-> AtLeaf(leaves[i])]
  BY <1>2 DEF NamesLeaves
<1>4. /\ \A i, j \in 1 .. n : leaves[i] = leaves[j] => i = j
      /\ \A i \in 1 .. n : \A h \in 1 .. m : leaves[i] \notin ToSet(RootBags(td, heads[h]))
  BY <1>1, <1>2 DEF NamesLeaves
<1>. HIDE DEF more
<1>5. heads \in Seq(P) /\ more \in Seq(P) /\ Len(more) = n /\ \A i \in 1 .. n : more[i] = AtLeaf(leaves[i])
  <2>1. \A b \in B : AtLeaf(b) \in P  BY DEF Picks
  <2>2. {AtFirst, AtCentroid} \subseteq P  BY DEF Picks
  <2>. HIDE DEF P, B
  <2>. QED  BY <1>1, <1>3, <2>1, <2>2
<1>6. /\ all \in Seq(P) /\ Len(all) = m + n
      /\ \A i \in 1 .. m + n : all[i] = IF i <= m THEN heads[i] ELSE more[i - m]
  <2>. HIDE DEF P
  <2>. QED  BY <1>5, ConcatProperties
<1>. HIDE DEF all, m
<1>7. ASSUME NEW i \in 1 .. m, NEW k \in 1 .. n, RootedAt(td, heads[i]) = RootedAt(td, AtLeaf(leaves[k])) PROVE FALSE
  <2>1. RootedAt(td, heads[i]) = RootBags(td, heads[i])  BY <1>1, HeadsRoot DEF RootedAt
  <2>2. leaves[k] \in B  BY <1>3
  <2>3. leaves[k] \in ToSet(RootedAt(td, AtLeaf(leaves[k])))  BY <2>2, LeafRootsFirst DEF RootedAt
  <2>. QED  BY <1>4, <1>7, <2>1, <2>3
<1>8. ASSUME NEW k \in 1 .. n, NEW l \in 1 .. n, RootedAt(td, AtLeaf(leaves[k])) = RootedAt(td, AtLeaf(leaves[l]))
      PROVE  k = l
  <2>1. leaves[k] \in B /\ leaves[l] \in B  BY <1>3
  <2>2. RootedAt(td, AtLeaf(leaves[k]))[1] = leaves[k] /\ RootedAt(td, AtLeaf(leaves[l]))[1] = leaves[l]
    BY <2>1, LeafRootsFirst DEF RootedAt
  <2>. QED  BY <1>4, <1>8, <2>2
<1>9. ASSUME NEW i \in 1 .. m + n, NEW j \in 1 .. m + n, RootedAt(td, all[i]) = RootedAt(td, all[j]) PROVE i = j
  <2>1. CASE i <= m /\ j <= m
    <3>1. i \in 1 .. m /\ j \in 1 .. m /\ all[i] = heads[i] /\ all[j] = heads[j]  BY <1>1, <1>3, <1>6, <2>1
    <3>. QED  BY <1>9, <3>1 DEF RootedApart, m
  <2>2. CASE i <= m /\ ~ (j <= m)
    <3>1. i \in 1 .. m /\ j - m \in 1 .. n /\ all[i] = heads[i] /\ all[j] = AtLeaf(leaves[j - m])
      BY <1>1, <1>3, <1>5, <1>6, <2>2
    <3>. QED  BY <1>7, <1>9, <3>1
  <2>3. CASE ~ (i <= m) /\ j <= m
    <3>1. j \in 1 .. m /\ i - m \in 1 .. n /\ all[j] = heads[j] /\ all[i] = AtLeaf(leaves[i - m])
      BY <1>1, <1>3, <1>5, <1>6, <2>3
    <3>. QED  BY <1>7, <1>9, <3>1
  <2>4. CASE ~ (i <= m) /\ ~ (j <= m)
    <3>1. i - m \in 1 .. n /\ j - m \in 1 .. n /\ all[i] = AtLeaf(leaves[i - m]) /\ all[j] = AtLeaf(leaves[j - m])
      BY <1>1, <1>3, <1>5, <1>6, <2>4
    <3>2. i - m = j - m  BY <1>8, <1>9, <3>1
    <3>. QED  BY <1>1, <1>3, <3>2
  <2>. QED  BY <2>1, <2>2, <2>3, <2>4
<1>10. RootedApart(td, all)  BY <1>6, <1>9 DEF RootedApart
<1>. QED  BY <1>6, <1>10 DEF all, more

\* The candidates: at least one, no two of which root alike (candidate_roots).
LEMMA CandidatesApart ==
  ASSUME NEW td, Decomposes(td), NEW named \in {"any", "first", "centroid", "leaf"}, NEW scored \in BOOLEAN
  PROVE  /\ CandidateRoots(td, named, scored) \in Seq(Picks(td)) /\ CandidateRoots(td, named, scored) # <<>>
         /\ RootedApart(td, CandidateRoots(td, named, scored))
<1>. DEFINE P == Picks(td)
            heads == Heads(td, named)
            all == IF named \in {"any", "leaf"} THEN heads \o LeafRoots(td, heads) ELSE heads
            some == IF all = <<>> THEN <<AtFirst>> ELSE all
<1>1. CandidateRoots(td, named, scored) = IF scored THEN some ELSE <<Head(some)>>
  BY Zenon DEF CandidateRoots
<1>2. all \in Seq(P) /\ RootedApart(td, all)
  <2>1. heads \in Seq({AtFirst, AtCentroid}) /\ RootedApart(td, heads)  BY HeadsApart
  <2>2. {AtFirst, AtCentroid} \subseteq P  BY DEF Picks
  <2>. HIDE DEF heads, P
  <2>3. heads \in Seq(P)  BY <2>1, <2>2
  <2>4. heads \o LeafRoots(td, heads) \in Seq(P) /\ RootedApart(td, heads \o LeafRoots(td, heads))
    BY <2>1, LeavesApart DEF P
  <2>. QED  BY <2>1, <2>3, <2>4
<1>3. AtFirst \in P  BY DEF Picks
<1>. HIDE DEF all, P
<1>4. \A x \in P : <<x>> \in Seq(P) /\ <<x>> # <<>> /\ RootedApart(td, <<x>>)  BY DEF RootedApart
<1>5. some \in Seq(P) /\ some # <<>> /\ RootedApart(td, some)  BY <1>2, <1>3, <1>4
<1>. HIDE DEF some
<1>6. Head(some) \in P  BY <1>5
<1>. QED  BY <1>1, <1>4, <1>5, <1>6 DEF P

-----------------------------------------------------------------------------
(***************************************************************************)
(* The search: no reading is planned twice, and the cheapest offered is in *)
(* hand.                                                                   *)
(***************************************************************************)
\* The screened roots in the order of their scores, those of one score as they came.
LEMMA BestHolds ==
  ASSUME NEW X, NEW roots \in Seq([root : X, cost : Int]),
         \A i, j \in 1 .. Len(roots) : roots[i].root = roots[j].root => i = j
  PROVE  /\ Best(roots) \in Seq(X)
         /\ \A i, j \in 1 .. Len(Best(roots)) : Best(roots)[i] = Best(roots)[j] => i = j
<1>. DEFINE n == Len(roots)
            D == 1 .. n
            below == [i \in D |-> Better(roots, i)]
            at == [k \in DOMAIN roots |-> CHOOSE i \in DOMAIN roots : Cardinality(Better(roots, i)) = k - 1]
            ranked == [k \in 1 .. Cardinality(D) |-> CHOOSE i \in D : Cardinality(below[i]) = k - 1]
            cut == Min({n, ScreenedRoots})
            best == [k \in 1 .. cut |-> roots[at[k]].root]
<1>1. n \in Nat /\ DOMAIN roots = D /\ \A i \in D : roots[i] \in [root : X, cost : Int]
  BY Elements
<1>2. \A i \in D : roots[i].root \in X /\ roots[i].cost \in Int  BY <1>1
<1>3. Best(roots) = best  BY Zenon DEF Best
<1>4. \A i \in D : Better(roots, i) = {j \in D : roots[j].cost < roots[i].cost
                                               \/ (roots[j].cost = roots[i].cost /\ j < i)}
  BY <1>1 DEF Better
<1>5. IsFiniteSet(D) /\ Cardinality(D) = n
  <2>. HIDE DEF n
  <2>1. n >= 0  BY <1>1
  <2>2. IsFiniteSet(1 .. n) /\ Cardinality(1 .. n) = n  BY <1>1, <2>1, FS_Interval
  <2>. QED  BY <2>2
<1>. HIDE DEF D
<1>6. Orders(below, D)
  <2>1. below \in [D -> SUBSET D]
    <3>1. \A i \in D : Better(roots, i) \subseteq D  BY <1>4
    <3>. QED  BY <3>1
  <2>2. \A i \in D : below[i] = Better(roots, i) /\ i \in Int  BY <1>1 DEF D
  <2>. HIDE DEF below
  <2>3. \A i \in D : i \notin below[i]  BY <1>2, <1>4, <2>2
  <2>4. \A i, j \in D : i # j => i \in below[j] \/ j \in below[i]  BY <1>2, <1>4, <2>2
  <2>5. ASSUME NEW i \in D, NEW j \in D, i \in below[j], NEW k \in below[i] PROVE k \in below[j]
    <3>1. k \in D  BY <2>1, <2>5
    <3>2. roots[k].cost < roots[i].cost \/ (roots[k].cost = roots[i].cost /\ k < i)  BY <1>4, <2>2, <2>5
    <3>3. roots[i].cost < roots[j].cost \/ (roots[i].cost = roots[j].cost /\ i < j)  BY <1>4, <2>2, <2>5
    <3>4. roots[k].cost < roots[j].cost \/ (roots[k].cost = roots[j].cost /\ k < j)
      BY <1>2, <2>2, <3>1, <3>2, <3>3
    <3>. QED  BY <1>4, <2>2, <3>1, <3>4
  <2>. QED  BY <2>1, <2>3, <2>4, <2>5 DEF Orders
<1>7. Lists(ranked, D)
  <2>. HIDE DEF below
  <2>. QED  BY <1>5, <1>6, RankListing
<1>8. at = ranked
  <2>1. \A i \in D : below[i] = Better(roots, i)  OBVIOUS
  <2>2. \A k : (CHOOSE i \in D : Cardinality(Better(roots, i)) = k - 1) = (CHOOSE i \in D : Cardinality(below[i]) = k - 1)
    <3>. HIDE DEF below
    <3>. QED  BY <2>1
  <2>3. DOMAIN roots = D /\ D = 1 .. Cardinality(D)  BY <1>1, <1>5 DEF D
  <2>. HIDE DEF below
  <2>. QED  BY <2>2, <2>3
<1>. HIDE DEF at, ranked
<1>9. at \in [1 .. n -> D] /\ \A i, j \in 1 .. n : at[i] = at[j] => i = j
  BY <1>5, <1>7, <1>8 DEF Lists
<1>10. cut \in Nat /\ cut <= n
  <2>1. ScreenedRoots \in Nat  BY SearchAssumption
  <2>. HIDE DEF n
  <2>2. n \in Int /\ ScreenedRoots \in Int  BY <1>1, <2>1
  <2>3. Min({n, ScreenedRoots}) \in {n, ScreenedRoots} /\ Min({n, ScreenedRoots}) <= n  BY <2>2, LeastOfTwo
  <2>4. cut = Min({n, ScreenedRoots})  OBVIOUS
  <2>. HIDE DEF cut
  <2>. QED  BY <1>1, <2>1, <2>3, <2>4
<1>. HIDE DEF cut
<1>11. \A k \in 1 .. cut : at[k] \in D /\ k \in 1 .. n
  <2>1. \A k \in 1 .. cut : k \in 1 .. n
    <3>. HIDE DEF n
    <3>. QED  BY <1>1, <1>10
  <2>. QED  BY <1>9, <2>1
<1>12. best \in Seq(X) /\ Len(best) = cut /\ \A k \in 1 .. cut : best[k] = roots[at[k]].root
  <2>1. best \in [1 .. cut -> X]  BY <1>2, <1>11
  <2>. QED  BY <1>10, <2>1
<1>. HIDE DEF best
<1>13. ASSUME NEW i \in 1 .. cut, NEW j \in 1 .. cut, best[i] = best[j] PROVE i = j
  <2>1. at[i] \in 1 .. Len(roots) /\ at[j] \in 1 .. Len(roots)  BY <1>11 DEF D
  <2>2. roots[at[i]].root = roots[at[j]].root  BY <1>12, <1>13
  <2>3. at[i] = at[j]  BY <2>1, <2>2
  <2>. QED  BY <1>9, <1>11, <2>3
<1>. QED  BY <1>3, <1>12, <1>13

\* A root with a pair of choices, and all the roots with all the pairs.
Read(root, pair) == [root |-> root, place |-> pair[1], binarize |-> pair[2]]

Reads(best, pairs) == {Read(best[i], pairs[p]) : i \in 1 .. Len(best), p \in 1 .. Len(pairs)}

\* Each root is read with each pair, once.
LEMMA CrossedHolds ==
  ASSUME NEW X, NEW V, NEW W, NEW best \in Seq(X), NEW pairs \in Seq(V \X W),
         \A i, j \in 1 .. Len(best) : best[i] = best[j] => i = j,
         \A i, j \in 1 .. Len(pairs) : pairs[i] = pairs[j] => i = j
  PROVE  /\ Crossed(best, pairs) \in Seq([root : X, place : V, binarize : W])
         /\ Enumerates(Crossed(best, pairs), Reads(best, pairs))
<1>. DEFINE U == [root : X, place : V, binarize : W]
            m == Len(best)
            n == Len(pairs)
            seqs == [p \in 1 .. n |-> [i \in 1 .. m |-> Read(best[i], pairs[p])]]
            parts == [p \in 1 .. n |-> {Read(best[i], pairs[p]) : i \in 1 .. m}]
<1>1. m \in Nat /\ DOMAIN best = 1 .. m /\ \A i \in 1 .. m : best[i] \in X  BY Elements
<1>2. n \in Nat /\ DOMAIN pairs = 1 .. n /\ \A p \in 1 .. n : pairs[p] \in V \X W
  <2>. DEFINE Z == V \X W
  <2>. HIDE DEF Z
  <2>1. pairs \in Seq(Z)  BY DEF Z
  <2>2. n \in Nat /\ DOMAIN pairs = 1 .. n /\ \A p \in 1 .. n : pairs[p] \in Z  BY <2>1, Elements
  <2>. QED  BY <2>2 DEF Z
<1>3. Crossed(best, pairs) = FlattenSeq(seqs)  BY <1>1, <1>2 DEF Crossed, Read
<1>4. \A i \in 1 .. m, p \in 1 .. n : Read(best[i], pairs[p]) \in U  BY <1>1, <1>2 DEF Read
<1>5. \A i, j \in 1 .. m, p, q \in 1 .. n :
        Read(best[i], pairs[p]) = Read(best[j], pairs[q]) => best[i] = best[j] /\ pairs[p] = pairs[q]
  <2>1. \A p, q \in 1 .. n : pairs[p][1] = pairs[q][1] /\ pairs[p][2] = pairs[q][2] => pairs[p] = pairs[q]
    BY <1>2
  <2>2. \A x, y : \A a, b : Read(x, a) = Read(y, b) => x = y /\ a[1] = b[1] /\ a[2] = b[2]  BY DEF Read
  <2>. SUFFICES ASSUME NEW i \in 1 .. m, NEW j \in 1 .. m, NEW p \in 1 .. n, NEW q \in 1 .. n,
                       Read(best[i], pairs[p]) = Read(best[j], pairs[q])
                PROVE  best[i] = best[j] /\ pairs[p] = pairs[q]
    OBVIOUS
  <2>3. best[i] = best[j] /\ pairs[p][1] = pairs[q][1] /\ pairs[p][2] = pairs[q][2]  BY <2>2
  <2>. QED  BY <2>1, <2>3
<1>. HIDE DEF m, n, U
<1>6. \A i, j \in 1 .. m, p, q \in 1 .. n :
        Read(best[i], pairs[p]) = Read(best[j], pairs[q]) => i = j /\ p = q
  BY <1>5 DEF m, n
<1>7. ASSUME NEW p \in 1 .. n PROVE seqs[p] \in Seq(U) /\ Enumerates(seqs[p], parts[p])
  <2>. DEFINE s == [i \in 1 .. m |-> Read(best[i], pairs[p])]
  <2>1. seqs[p] = s /\ parts[p] = {Read(best[i], pairs[p]) : i \in 1 .. m}  OBVIOUS
  <2>2. s \in Seq(U) /\ Len(s) = m /\ \A i \in 1 .. m : s[i] = Read(best[i], pairs[p])  BY <1>1, <1>4
  <2>. HIDE DEF s, seqs, parts
  <2>. QED  BY <1>6, <2>1, <2>2 DEF Enumerates
<1>8. ListParts(seqs, parts, n, U)
  <2>1. seqs \in [1 .. n -> Seq(U)]  BY <1>7
  <2>2. ASSUME NEW p \in 1 .. n, NEW q \in 1 .. n, p # q PROVE parts[p] \cap parts[q] = {}
    <3>1. parts[p] = {Read(best[i], pairs[p]) : i \in 1 .. m} /\ parts[q] = {Read(best[i], pairs[q]) : i \in 1 .. m}
      OBVIOUS
    <3>. HIDE DEF parts
    <3>. QED  BY <1>6, <2>2, <3>1
  <2>. QED  BY <1>2, <1>7, <2>1, <2>2 DEF ListParts
<1>9. UNION {parts[p] : p \in 1 .. n} = Reads(best, pairs)
  <2>1. \A p \in 1 .. n : parts[p] = {Read(best[i], pairs[p]) : i \in 1 .. m}  OBVIOUS
  <2>. HIDE DEF parts
  <2>2. ASSUME NEW y \in UNION {parts[p] : p \in 1 .. n} PROVE y \in Reads(best, pairs)
    <3>1. PICK p \in 1 .. n : y \in parts[p]  BY <2>2
    <3>2. PICK i \in 1 .. m : y = Read(best[i], pairs[p])  BY <2>1, <3>1
    <3>. QED  BY <3>2 DEF Reads, m, n
  <2>3. ASSUME NEW y \in Reads(best, pairs) PROVE y \in UNION {parts[p] : p \in 1 .. n}
    <3>1. PICK i \in 1 .. m, p \in 1 .. n : y = Read(best[i], pairs[p])  BY <2>3 DEF Reads, m, n
    <3>. QED  BY <2>1, <3>1
  <2>. QED  BY <2>2, <2>3
<1>. HIDE DEF seqs, parts
<1>10. FlattenSeq(seqs) \in Seq(U) /\ Enumerates(FlattenSeq(seqs), UNION {parts[p] : p \in 1 .. n})
  BY <1>8, ListsFlattened
<1>11. Crossed(best, pairs) \in Seq(U) /\ Enumerates(Crossed(best, pairs), UNION {parts[p] : p \in 1 .. n})
  BY <1>3, <1>10
<1>. QED  BY <1>9, <1>11 DEF U

\* All pairs, the first ones first.
AllPairs(places, ways) ==
  FlattenSeq([i \in DOMAIN places |-> [j \in DOMAIN ways |-> <<places[i], ways[j]>>]])

\* Each pair once, the pair of the first ones at the head.
PairsInTurn(V, W, places, ways) ==
  /\ AllPairs(places, ways) \in Seq(V \X W)
  /\ \A i, j \in 1 .. Len(AllPairs(places, ways)) : AllPairs(places, ways)[i] = AllPairs(places, ways)[j] => i = j
  /\ AllPairs(places, ways) # <<>> /\ AllPairs(places, ways)[1] = <<places[1], ways[1]>>

LEMMA PairsHold ==
  ASSUME NEW V, NEW W, NEW places \in Seq(V), NEW ways \in Seq(W), places # <<>>, ways # <<>>,
         \A i, j \in 1 .. Len(places) : places[i] = places[j] => i = j,
         \A i, j \in 1 .. Len(ways) : ways[i] = ways[j] => i = j
  PROVE  PairsInTurn(V, W, places, ways)
<1>. DEFINE U == V \X W
            m == Len(places)
            n == Len(ways)
            seqs == [i \in 1 .. m |-> [j \in 1 .. n |-> <<places[i], ways[j]>>]]
            parts == [i \in 1 .. m |-> {<<places[i], ways[j]>> : j \in 1 .. n}]
            all == AllPairs(places, ways)
            S == UNION {parts[i] : i \in 1 .. m}
            x == <<places[1], ways[1]>>
<1>1. m \in Nat /\ DOMAIN places = 1 .. m /\ (\A i \in 1 .. m : places[i] \in V) /\ 1 \in 1 .. m
  <2>1. m \in Nat /\ DOMAIN places = 1 .. m /\ \A i \in 1 .. m : places[i] \in V  BY Elements
  <2>2. m # 0  OBVIOUS
  <2>. QED  BY <2>1, <2>2
<1>2. n \in Nat /\ DOMAIN ways = 1 .. n /\ (\A i \in 1 .. n : ways[i] \in W) /\ 1 \in 1 .. n
  <2>1. n \in Nat /\ DOMAIN ways = 1 .. n /\ \A i \in 1 .. n : ways[i] \in W  BY Elements
  <2>2. n # 0  OBVIOUS
  <2>. QED  BY <2>1, <2>2
<1>3. all = FlattenSeq(seqs)  BY <1>1, <1>2 DEF AllPairs
<1>4. \A i \in 1 .. m, j \in 1 .. n : <<places[i], ways[j]>> \in U  BY <1>1, <1>2
<1>5. \A i, k \in 1 .. m, j, l \in 1 .. n : <<places[i], ways[j]>> = <<places[k], ways[l]>> => i = k /\ j = l
  OBVIOUS
<1>. HIDE DEF m, n, U
<1>7. ASSUME NEW i \in 1 .. m PROVE seqs[i] \in Seq(U) /\ Enumerates(seqs[i], parts[i])
  <2>. DEFINE s == [j \in 1 .. n |-> <<places[i], ways[j]>>]
  <2>1. seqs[i] = s /\ parts[i] = {<<places[i], ways[j]>> : j \in 1 .. n}  OBVIOUS
  <2>2. s \in Seq(U) /\ Len(s) = n /\ \A j \in 1 .. n : s[j] = <<places[i], ways[j]>>  BY <1>2, <1>4
  <2>. HIDE DEF s, seqs, parts
  <2>3. \A j, l \in 1 .. n : s[j] = s[l] => j = l  BY <1>5, <2>2
  <2>4. \A j \in 1 .. n : s[j] \in parts[i]  BY <2>1, <2>2
  <2>5. \A y \in parts[i] : \E j \in 1 .. n : s[j] = y  BY <2>1, <2>2
  <2>. QED  BY <2>1, <2>2, <2>3, <2>4, <2>5 DEF Enumerates
<1>8. ListParts(seqs, parts, m, U)
  <2>1. seqs \in [1 .. m -> Seq(U)]  BY <1>7
  <2>2. ASSUME NEW p \in 1 .. m, NEW q \in 1 .. m, p # q PROVE parts[p] \cap parts[q] = {}
    <3>1. parts[p] = {<<places[p], ways[j]>> : j \in 1 .. n} /\ parts[q] = {<<places[q], ways[j]>> : j \in 1 .. n}
      OBVIOUS
    <3>. HIDE DEF parts
    <3>. QED  BY <1>5, <2>2, <3>1
  <2>. QED  BY <1>1, <1>7, <2>1, <2>2 DEF ListParts
<1>9. x \in parts[1] /\ \A y \in parts[1] : y = x \/ Precedes(seqs[1], x, y)
  <2>1. parts[1] = {<<places[1], ways[j]>> : j \in 1 .. n}  BY <1>1
  <2>2. Len(seqs[1]) = n /\ \A j \in 1 .. n : seqs[1][j] = <<places[1], ways[j]>>  BY <1>1, <1>2
  <2>. HIDE DEF parts, seqs
  <2>3. ASSUME NEW j \in 1 .. n, j # 1 PROVE Precedes(seqs[1], x, <<places[1], ways[j]>>)
    <3>1. 1 < j  BY <1>2, <2>3
    <3>. QED  BY <1>2, <2>2, <3>1 DEF Precedes
  <2>4. x \in parts[1]  BY <1>2, <2>1
  <2>5. ASSUME NEW y \in parts[1] PROVE y = x \/ Precedes(seqs[1], x, y)
    <3>1. PICK j \in 1 .. n : y = <<places[1], ways[j]>>  BY <2>1, <2>5
    <3>. QED  BY <2>3, <3>1
  <2>. QED  BY <2>4, <2>5
<1>. HIDE DEF seqs, parts
<1>10. /\ FlattenSeq(seqs) \in Seq(U) /\ Enumerates(FlattenSeq(seqs), S)
       /\ \A k \in 1 .. m : \A a, b : Precedes(seqs[k], a, b) => Precedes(FlattenSeq(seqs), a, b)
       /\ \A i, j \in 1 .. m : i < j => \A a \in parts[i], b \in parts[j] : Precedes(FlattenSeq(seqs), a, b)
  <2>. HIDE DEF m
  <2>1. FlattenSeq(seqs) \in Seq(U)  BY <1>8, ListsFlattened
  <2>2. Enumerates(FlattenSeq(seqs), UNION {parts[i] : i \in 1 .. m})  BY <1>8, ListsFlattened
  <2>3. \A k \in 1 .. m : \A a, b : Precedes(seqs[k], a, b) => Precedes(FlattenSeq(seqs), a, b)
    BY <1>8, ListsFlattened
  <2>4. \A i, j \in 1 .. m : i < j => \A a \in parts[i], b \in parts[j] : Precedes(FlattenSeq(seqs), a, b)
    BY <1>8, ListsFlattened
  <2>. QED  BY <2>1, <2>2, <2>3, <2>4
<1>. HIDE DEF x, all
<1>11. \A y \in S : y = x \/ Precedes(all, x, y)
  <2>1. ASSUME NEW i \in 1 .. m, NEW y \in parts[i] PROVE y = x \/ Precedes(all, x, y)
    <3>1. CASE i = 1  BY <1>1, <1>3, <1>9, <1>10, <2>1, <3>1
    <3>2. CASE i # 1
      <4>1. 1 < i  BY <1>1, <3>2
      <4>. QED  BY <1>1, <1>3, <1>9, <1>10, <2>1, <4>1
    <3>. QED  BY <3>1, <3>2
  <2>. QED  BY <2>1
<1>12. x \in S  BY <1>1, <1>9
<1>. HIDE DEF S
<1>13. all \in Seq(U) /\ Enumerates(all, S)  BY <1>3, <1>10
<1>14. Len(all) \in Nat  BY <1>13
<1>15. PICK i \in 1 .. Len(all) : all[i] = x  BY <1>12, <1>13 DEF Enumerates
<1>16. i = 1
  <2>. SUFFICES ASSUME i # 1 PROVE FALSE  OBVIOUS
  <2>1. 1 \in 1 .. Len(all)  BY <1>14, <1>15
  <2>2. all[1] \in S /\ all[1] # x  BY <1>13, <1>15, <2>1 DEF Enumerates
  <2>3. Precedes(all, all[i], all[1])  BY <1>11, <1>15, <2>2
  <2>4. i < 1  BY <1>13, <2>1, <2>3, PlacesOrdered
  <2>. QED  BY <1>14, <2>4
<1>17. all # <<>>
  <2>1. Len(all) # 0  BY <1>14, <1>15
  <2>. QED  BY <2>1
<1>. QED  BY <1>13, <1>15, <1>16, <1>17 DEF PairsInTurn, Enumerates, all, x, U

\* What a case leaves open, as sequences without repeats.
LEMMA CaseFacts ==
  ASSUME NEW c \in Cases
  PROVE  /\ Decomposes(c.td) /\ c.scored \in BOOLEAN
         /\ c.named.root \in {"any", "first", "centroid", "leaf"}
         /\ Places(c) \in Seq(Range(PLACES)) /\ Places(c) # <<>>
         /\ Binarizations(c) \in Seq(Range(BINARIZATIONS)) /\ Binarizations(c) # <<>>
         /\ \A i, j \in 1 .. Len(Places(c)) : Places(c)[i] = Places(c)[j] => i = j
         /\ \A i, j \in 1 .. Len(Binarizations(c)) : Binarizations(c)[i] = Binarizations(c)[j] => i = j
<1>. DEFINE P == Range(PLACES)
            W == Range(BINARIZATIONS)
            Distinct(s) == \A i, j \in 1 .. Len(s) : s[i] = s[j] => i = j
<1>1. /\ Decomposes(c.td) /\ c.scored \in BOOLEAN
      /\ c.named \in [root : {"any", "first", "centroid", "leaf"}, place : {"any"} \cup P, binarize : {"any"} \cup W]
  BY SearchAssumption DEF Decomposes
<1>2. /\ c.named.root \in {"any", "first", "centroid", "leaf"}
      /\ c.named.place \in {"any"} \cup P /\ c.named.binarize \in {"any"} \cup W
  <2>. HIDE DEF P, W
  <2>. QED  BY <1>1
<1>3. PLACES \in Seq(P) /\ PLACES # <<>> /\ PLACES[1] \in P /\ Distinct(PLACES)
  <2>1. Len(PLACES) = 2 /\ DOMAIN PLACES = 1 .. 2 /\ PLACES[1] = "shallow" /\ PLACES[2] = "deep"  BY DEF PLACES
  <2>2. \A i \in 1 .. 2 : i = 1 \/ i = 2  OBVIOUS
  <2>3. P = {PLACES[i] : i \in 1 .. 2}  BY <2>1 DEF Range
  <2>4. P = {"shallow", "deep"}  BY <2>1, <2>2, <2>3
  <2>. HIDE DEF P
  <2>5. PLACES \in Seq(P) /\ PLACES # <<>>  BY <2>4 DEF PLACES
  <2>6. Distinct(PLACES)  BY <2>1, <2>2
  <2>. QED  BY <2>1, <2>4, <2>5, <2>6
<1>4. BINARIZATIONS \in Seq(W) /\ BINARIZATIONS # <<>> /\ "balanced" \in W /\ Distinct(BINARIZATIONS)
  <2>1. /\ Len(BINARIZATIONS) = 3 /\ DOMAIN BINARIZATIONS = 1 .. 3
        /\ BINARIZATIONS[1] = "edge" /\ BINARIZATIONS[2] = "hypergraph" /\ BINARIZATIONS[3] = "balanced"
    BY DEF BINARIZATIONS
  <2>2. \A i \in 1 .. 3 : i = 1 \/ i = 2 \/ i = 3  OBVIOUS
  <2>3. W = {BINARIZATIONS[i] : i \in 1 .. 3}  BY <2>1 DEF Range
  <2>4. W = {"edge", "hypergraph", "balanced"}  BY <2>1, <2>2, <2>3
  <2>. HIDE DEF W
  <2>5. BINARIZATIONS \in Seq(W) /\ BINARIZATIONS # <<>>  BY <2>4 DEF BINARIZATIONS
  <2>6. Distinct(BINARIZATIONS)  BY <2>1, <2>2
  <2>. QED  BY <2>1, <2>4, <2>5, <2>6
<1>5. ASSUME NEW S, NEW x \in S PROVE <<x>> \in Seq(S) /\ <<x>> # <<>> /\ Distinct(<<x>>)  OBVIOUS
<1>. HIDE DEF P, W, Distinct
<1>6. Places(c) \in Seq(P) /\ Places(c) # <<>> /\ Distinct(Places(c))
  <2>1. \/ c.named.place \in P /\ Places(c) = <<c.named.place>>
        \/ Places(c) = PLACES
        \/ Places(c) = <<PLACES[1]>>
    BY <1>2 DEF Places, Axis
  <2>. QED  BY <1>3, <1>5, <2>1
<1>7. Binarizations(c) \in Seq(W) /\ Binarizations(c) # <<>> /\ Distinct(Binarizations(c))
  <2>1. \/ c.named.binarize \in W /\ Binarizations(c) = <<c.named.binarize>>
        \/ Binarizations(c) = BINARIZATIONS
        \/ Binarizations(c) = <<"balanced">>
    BY <1>2 DEF Binarizations, Axis
  <2>. QED  BY <1>4, <1>5, <2>1
<1>. QED  BY <1>1, <1>2, <1>6, <1>7 DEF P, W, Distinct

\* The candidates of a case, and the pair they are screened with.
Roots(c) == CandidateRoots(c.td, c.named.root, c.scored)
FirstPair(c) == <<Places(c)[1], Binarizations(c)[1]>>

\* The screen reads each candidate with the first pair.
LEMMA ScreenHolds ==
  ASSUME NEW c \in Cases
  PROVE  /\ Roots(c) \in Seq(Picks(c.td)) /\ Roots(c) # <<>> /\ RootedApart(c.td, Roots(c))
         /\ Screen(c) \in Seq(Readings(c)) /\ Screen(c) # <<>> /\ Len(Screen(c)) = Len(Roots(c))
         /\ \A i \in 1 .. Len(Screen(c)) : Screen(c)[i] = Read(Roots(c)[i], FirstPair(c))
<1>. DEFINE roots == Roots(c)
            n == Len(roots)
            P == Picks(c.td)
            U == Readings(c)
            p == Places(c)[1]
            b == Binarizations(c)[1]
            s == [i \in 1 .. n |-> [root |-> roots[i], place |-> p, binarize |-> b]]
<1>1. Roots(c) \in Seq(P) /\ Roots(c) # <<>> /\ RootedApart(c.td, Roots(c))
  BY CaseFacts, CandidatesApart DEF Roots
<1>2. p \in Range(PLACES) /\ b \in Range(BINARIZATIONS)
  <2>. DEFINE X == Range(PLACES)
              Y == Range(BINARIZATIONS)
  <2>. HIDE DEF X, Y
  <2>1. Places(c) \in Seq(X) /\ Places(c) # <<>> /\ Binarizations(c) \in Seq(Y) /\ Binarizations(c) # <<>>
    BY CaseFacts DEF X, Y
  <2>. QED  BY <2>1 DEF X, Y
<1>. HIDE DEF P
<1>3. n \in Nat /\ DOMAIN roots = 1 .. n /\ \A i \in 1 .. n : roots[i] \in P  BY <1>1, Elements
<1>4. Screen(c) = s  BY <1>3, Zenon DEF Screen, InFirstPair, Roots
<1>5. \A i \in 1 .. n : [root |-> roots[i], place |-> p, binarize |-> b] \in U
  BY <1>2, <1>3 DEF P, Picks, Readings
<1>. HIDE DEF roots, p, b, U, n
<1>6. s \in Seq(U) /\ Len(s) = n /\ \A i \in 1 .. n : s[i] = [root |-> roots[i], place |-> p, binarize |-> b]
  BY <1>3, <1>5
<1>7. n # 0  BY <1>1 DEF roots, n
<1>. HIDE DEF s
<1>8. s # <<>>
  <2>. QED  BY <1>6, <1>7
<1>9. \A x : Read(x, FirstPair(c)) = [root |-> x, place |-> p, binarize |-> b]  BY DEF Read, FirstPair, p, b
<1>. QED  BY <1>1, <1>4, <1>6, <1>8, <1>9 DEF P, U, roots, n

\* The roots screened so far, with their scores.
RootsScreened(c, roots) ==
  /\ roots \in Seq([root : Picks(c.td), cost : Int]) /\ Len(roots) <= Len(Screen(c))
  /\ \A i \in 1 .. Len(roots) : roots[i].root = Screen(c)[i].root

\* All the readings of a case, those of the screen first.
Schedule(c, roots) == Screen(c) \o Plan(c, roots)

\* The roots screened are the first candidates.
LEMMA ScreenedApart ==
  ASSUME NEW c \in Cases, NEW roots, RootsScreened(c, roots)
  PROVE  /\ \A i, j \in 1 .. Len(roots) : RootedAt(c.td, roots[i].root) = RootedAt(c.td, roots[j].root) => i = j
         /\ \A i, j \in 1 .. Len(roots) : roots[i].root = roots[j].root => i = j
<1>1. Len(roots) \in Nat /\ Len(Screen(c)) \in Nat /\ Len(roots) <= Len(Screen(c))
  <2>. DEFINE U == Readings(c)
              V == [root : Picks(c.td), cost : Int]
  <2>1. Screen(c) \in Seq(U) /\ roots \in Seq(V)  BY ScreenHolds DEF RootsScreened
  <2>. HIDE DEF U, V
  <2>. QED  BY <2>1 DEF RootsScreened
<1>2. \A i \in 1 .. Len(roots) : i \in 1 .. Len(Screen(c)) /\ i \in 1 .. Len(Roots(c))
  BY <1>1, ScreenHolds
<1>3. \A x : Read(x, FirstPair(c)).root = x  BY DEF Read
<1>4. \A i \in 1 .. Len(roots) : roots[i].root = Roots(c)[i]
  BY <1>2, <1>3, ScreenHolds DEF RootsScreened
<1>5. \A i, j \in 1 .. Len(roots) : RootedAt(c.td, roots[i].root) = RootedAt(c.td, roots[j].root) => i = j
  BY <1>2, <1>4, ScreenHolds DEF RootedApart
<1>. QED  BY <1>5

\* No reading is planned twice.
LEMMA ScheduleHolds ==
  ASSUME NEW c \in Cases, NEW roots, RootsScreened(c, roots)
  PROVE  /\ Plan(c, roots) \in Seq(Readings(c)) /\ Schedule(c, roots) \in Seq(Readings(c))
         /\ Len(Schedule(c, roots)) = Len(Screen(c)) + Len(Plan(c, roots))
         /\ \A i \in 1 .. Len(Screen(c)) : Schedule(c, roots)[i] = Screen(c)[i]
         /\ \A i \in 1 .. Len(Plan(c, roots)) : Schedule(c, roots)[Len(Screen(c)) + i] = Plan(c, roots)[i]
         /\ \A i, j \in 1 .. Len(Schedule(c, roots)) : Schedule(c, roots)[i] = Schedule(c, roots)[j] => i = j
<1>. DEFINE X == Picks(c.td)
            V == Range(PLACES)
            W == Range(BINARIZATIONS)
            Z == V \X W
            all == AllPairs(Places(c), Binarizations(c))
            pairs == OtherPairs(c)
            best == Best(roots)
            plan == Plan(c, roots)
            screen == Screen(c)
            U == Readings(c)
<1>1. all \in Seq(Z) /\ (\A i, j \in 1 .. Len(all) : all[i] = all[j] => i = j) /\ all # <<>> /\ all[1] = FirstPair(c)
  <2>. HIDE DEF V, W
  <2>1. /\ Places(c) \in Seq(V) /\ Places(c) # <<>> /\ Binarizations(c) \in Seq(W) /\ Binarizations(c) # <<>>
        /\ \A i, j \in 1 .. Len(Places(c)) : Places(c)[i] = Places(c)[j] => i = j
        /\ \A i, j \in 1 .. Len(Binarizations(c)) : Binarizations(c)[i] = Binarizations(c)[j] => i = j
    BY CaseFacts DEF V, W
  <2>. DEFINE places == Places(c)
              ways == Binarizations(c)
  <2>. HIDE DEF places, ways
  <2>2. /\ places \in Seq(V) /\ places # <<>> /\ ways \in Seq(W) /\ ways # <<>>
        /\ \A i, j \in 1 .. Len(places) : places[i] = places[j] => i = j
        /\ \A i, j \in 1 .. Len(ways) : ways[i] = ways[j] => i = j
    BY <2>1 DEF places, ways
  <2>. DEFINE ap == AllPairs(places, ways)
  <2>3. /\ ap \in Seq(V \X W) /\ (\A i, j \in 1 .. Len(ap) : ap[i] = ap[j] => i = j)
        /\ ap # <<>> /\ ap[1] = <<places[1], ways[1]>>
    <3>1. PairsInTurn(V, W, places, ways)  BY <2>2, PairsHold
    <3>. QED  BY <3>1 DEF PairsInTurn
  <2>. QED  BY <2>3 DEF FirstPair, places, ways
<1>2. pairs = Tail(all)  BY Zenon DEF OtherPairs, AllPairs
<1>. HIDE DEF all, Z
<1>3. /\ pairs \in Seq(Z) /\ (\A i, j \in 1 .. Len(pairs) : pairs[i] = pairs[j] => i = j)
      /\ \A i \in 1 .. Len(pairs) : pairs[i] # FirstPair(c)
  <2>. DEFINE s == Tail(all)
  <2>0. Len(all) \in Nat /\ Len(all) # 0  BY <1>1
  <2>1. s \in Seq(Z) /\ Len(s) = Len(all) - 1 /\ \A i \in 1 .. Len(s) : s[i] = all[i + 1]  BY <1>1
  <2>. HIDE DEF s
  <2>2. \A i \in 1 .. Len(s) : i + 1 \in 1 .. Len(all) /\ i + 1 # 1  BY <2>0, <2>1
  <2>3. 1 \in 1 .. Len(all)  BY <2>0
  <2>4. \A i \in 1 .. Len(s) : s[i] # FirstPair(c)  BY <1>1, <2>1, <2>2, <2>3
  <2>5. \A i, j \in 1 .. Len(s) : s[i] = s[j] => i = j
    <3>. SUFFICES ASSUME NEW i \in 1 .. Len(s), NEW j \in 1 .. Len(s), s[i] = s[j] PROVE i = j  OBVIOUS
    <3>1. i + 1 = j + 1  BY <1>1, <2>1, <2>2
    <3>. QED  BY <3>1
  <2>. QED  BY <1>2, <2>1, <2>4, <2>5 DEF s
<1>4. best \in Seq(X) /\ \A i, j \in 1 .. Len(best) : best[i] = best[j] => i = j
  <2>. HIDE DEF X
  <2>1. roots \in Seq([root : X, cost : Int])  BY DEF RootsScreened, X
  <2>2. \A i, j \in 1 .. Len(roots) : roots[i].root = roots[j].root => i = j  BY ScreenedApart
  <2>. QED  BY <2>1, <2>2, BestHolds
<1>5. U = [root : X, place : V, binarize : W]  BY DEF Readings, Picks
<1>6. plan = Crossed(best, pairs)  BY DEF Plan
<1>. HIDE DEF pairs, best, plan, X, V, W, U
<1>7. plan \in Seq(U) /\ Enumerates(plan, Reads(best, pairs))
  <2>1. pairs \in Seq(V \X W)  BY <1>3 DEF Z
  <2>2. Crossed(best, pairs) \in Seq([root : X, place : V, binarize : W]) /\ Enumerates(Crossed(best, pairs), Reads(best, pairs))
    BY <1>3, <1>4, <2>1, CrossedHolds
  <2>. QED  BY <1>5, <1>6, <2>2
<1>8. pairs \in Seq(Z) /\ \A p \in 1 .. Len(pairs) : pairs[p] \in Z  BY <1>3
<1>9. FirstPair(c) \in Z
  <2>1. 1 \in 1 .. Len(all)  BY <1>1
  <2>. QED  BY <1>1, <2>1
<1>10. \A x, y : \A p, q \in Z : Read(x, p) = Read(y, q) => x = y /\ p = q
  <2>1. \A p, q \in Z : p[1] = q[1] /\ p[2] = q[2] => p = q  BY DEF Z
  <2>2. \A x, y : \A p, q : Read(x, p) = Read(y, q) => x = y /\ p[1] = q[1] /\ p[2] = q[2]  BY DEF Read
  <2>. QED  BY <2>1, <2>2
<1>11. /\ screen \in Seq(U) /\ screen # <<>> /\ Len(screen) = Len(Roots(c))
       /\ \A i \in 1 .. Len(screen) : screen[i] = Read(Roots(c)[i], FirstPair(c))
       /\ RootedApart(c.td, Roots(c))
  BY ScreenHolds DEF U
<1>. HIDE DEF screen
<1>12. \A i, j \in 1 .. Len(screen) : screen[i] = screen[j] => i = j
  BY <1>9, <1>10, <1>11 DEF RootedApart
<1>13. \A i \in 1 .. Len(screen), j \in 1 .. Len(plan) : screen[i] # plan[j]
  <2>. SUFFICES ASSUME NEW i \in 1 .. Len(screen), NEW j \in 1 .. Len(plan), screen[i] = plan[j] PROVE FALSE
    OBVIOUS
  <2>1. plan[j] \in Reads(best, pairs)  BY <1>7 DEF Enumerates
  <2>2. PICK k \in 1 .. Len(best), p \in 1 .. Len(pairs) : plan[j] = Read(best[k], pairs[p])  BY <2>1 DEF Reads
  <2>3. FirstPair(c) = pairs[p]  BY <1>8, <1>9, <1>10, <1>11, <2>2
  <2>. QED  BY <1>3, <2>3
<1>14. \A i, j \in 1 .. Len(plan) : plan[i] = plan[j] => i = j  BY <1>7 DEF Enumerates
<1>. DEFINE t == screen \o plan
            m == Len(screen)
            n == Len(plan)
<1>15. m \in Nat /\ n \in Nat  BY <1>7, <1>11
<1>16. /\ t \in Seq(U) /\ Len(t) = m + n
       /\ \A i \in 1 .. m + n : t[i] = IF i <= m THEN screen[i] ELSE plan[i - m]
  BY <1>7, <1>11, ConcatProperties
<1>17. Schedule(c, roots) = t  BY DEF Schedule, plan, screen
<1>. HIDE DEF t, m, n
<1>18. \A i \in 1 .. m : t[i] = screen[i]
  <2>1. \A i \in 1 .. m : i \in 1 .. m + n /\ i <= m  BY <1>15
  <2>. QED  BY <1>16, <2>1
<1>19. \A i \in 1 .. n : t[m + i] = plan[i]
  <2>1. \A i \in 1 .. n : m + i \in 1 .. m + n /\ ~ (m + i <= m) /\ (m + i) - m = i  BY <1>15
  <2>. QED  BY <1>16, <2>1
<1>20. ASSUME NEW i \in 1 .. m + n, NEW j \in 1 .. m + n, t[i] = t[j] PROVE i = j
  <2>0. \A k \in 1 .. m + n : IF k <= m THEN k \in 1 .. m ELSE k - m \in 1 .. n  BY <1>15
  <2>1. CASE i <= m /\ j <= m  BY <1>12, <1>16, <1>20, <2>0, <2>1 DEF m
  <2>2. CASE i <= m /\ ~ (j <= m)  BY <1>13, <1>16, <1>20, <2>0, <2>2 DEF m, n
  <2>3. CASE ~ (i <= m) /\ j <= m  BY <1>13, <1>16, <1>20, <2>0, <2>3 DEF m, n
  <2>4. CASE ~ (i <= m) /\ ~ (j <= m)
    <3>1. i - m = j - m  BY <1>14, <1>16, <1>20, <2>0, <2>4 DEF n
    <3>. QED  BY <1>15, <3>1
  <2>. QED  BY <2>1, <2>2, <2>3, <2>4
<1>. QED  BY <1>7, <1>16, <1>17, <1>18, <1>19, <1>20 DEF U, plan, screen, m, n

\* What is left of a schedule when the readings offered are its first ones.
Remains(schedule) ==
  /\ Len(offered) + Len(pending) = Len(schedule)
  /\ \A i \in 1 .. Len(pending) : pending[i] = schedule[Len(offered) + i]

\* Reading w is the cheapest offered, and the first of those.
Wins(w) ==
  /\ w \in 1 .. Len(offered)
  /\ \A i \in 1 .. Len(offered) :
       offered[i].cost > offered[w].cost \/ (offered[i].cost = offered[w].cost /\ w <= i)
  /\ kept.cost = offered[w].cost /\ kept.reading = offered[w].reading

\* The readings are offered as they were planned, one after the other, and the cheapest so
\* far is in hand with its tree and its cost.
SearchInv ==
  /\ stage \in {"screen", "pairs", "cut off", "kept", "rotated"}
  /\ Converting =>
       /\ asked \in Cases
       /\ offered \in Seq([reading : Readings(asked), cost : Int]) /\ pending \in Seq(Readings(asked))
       /\ RootsScreened(asked, screened)
       /\ Len(offered) <= Len(Schedule(asked, screened))
       /\ \A i \in 1 .. Len(offered) : offered[i].reading = Schedule(asked, screened)[i]
       /\ stage = "screen" => Len(screened) = Len(offered) /\ Remains(Screen(asked))
       /\ stage = "pairs" => Remains(Schedule(asked, screened))
       /\ \E w \in 1 .. Len(offered) : Wins(w)
       /\ asked.scored => kept.cost = Cost(placed, asked.formula)

\* A reading gives a tree and what it costs.
LEMMA CostedHolds ==
  ASSUME NEW c \in Cases, NEW reading \in Readings(c), NEW new, new = Costed(c, reading)
  PROVE  /\ new.tree \in PlacedTrees /\ new.cost \in Int /\ new.reading = reading
         /\ c.scored => new.cost = Cost(new.tree, c.formula)
<1>. DEFINE built == Build(c, reading)
<1>1. built.tree \in PlacedTrees /\ Cost(built.tree, c.formula) \in Int /\ c.scored \in BOOLEAN
  BY SearchAssumption
<1>2. new = [tree |-> built.tree, meta |-> built.meta, reading |-> reading,
             cost |-> IF c.scored THEN Cost(built.tree, c.formula) ELSE 0]
  BY DEF Costed, WithCost
<1>. HIDE DEF built
<1>3. new.tree = built.tree /\ new.reading = reading
      /\ new.cost = IF c.scored THEN Cost(built.tree, c.formula) ELSE 0
  BY <1>2
<1>4. CASE c.scored  BY <1>1, <1>3, <1>4
<1>5. CASE ~ c.scored  BY <1>1, <1>3, <1>5
<1>. QED  BY <1>4, <1>5

\* The first reading is in hand at the start.
LEMMA SearchStarts == SearchInit => SearchInv
<1>1. ASSUME Constructed PROVE SearchInv
  <2>1. stage = "rotated"  BY <1>1 DEF Constructed
  <2>. QED  BY <2>1 DEF SearchInv, Converting
<1>2. ASSUME Started PROVE SearchInv
  <2>1. PICK c \in Cases : \E new \in {Costed(c, Screen(c)[1])} :
        /\ left = new.tree.left /\ right = new.tree.right /\ parent = new.tree.parent
        /\ topoPos = new.tree.pos /\ varAt = new.tree.var
        /\ asked = c /\ stage = "screen" /\ pending = Tail(Screen(c))
        /\ screened = <<[root |-> Screen(c)[1].root, cost |-> new.cost]>>
        /\ kept = [cost |-> new.cost, reading |-> new.reading, meta |-> new.meta]
        /\ offered = <<[reading |-> new.reading, cost |-> new.cost]>>
    BY <1>2, Zenon DEF Started
  <2>. DEFINE s == Screen(c)
              new == Costed(c, s[1])
              U == Readings(c)
  <2>2. /\ left = new.tree.left /\ right = new.tree.right /\ parent = new.tree.parent
        /\ topoPos = new.tree.pos /\ varAt = new.tree.var
        /\ asked = c /\ stage = "screen" /\ pending = Tail(s)
        /\ screened = <<[root |-> s[1].root, cost |-> new.cost]>>
        /\ kept = [cost |-> new.cost, reading |-> new.reading, meta |-> new.meta]
        /\ offered = <<[reading |-> new.reading, cost |-> new.cost]>>
    BY <2>1
  <2>3. s \in Seq(U) /\ s # <<>> /\ Len(s) \in Nat /\ Len(s) >= 1 /\ s[1] \in U
    <3>. DEFINE r == s
    <3>1. s \in Seq(U) /\ s # <<>>  BY ScreenHolds
    <3>. HIDE DEF s, U
    <3>. QED  BY <3>1
  <2>4. s[1].root \in Picks(c.td)  BY <2>3 DEF Readings, Picks
  <2>. HIDE DEF s, U, new
  <2>5. /\ new.tree \in PlacedTrees /\ new.cost \in Int /\ new.reading = s[1]
        /\ c.scored => new.cost = Cost(new.tree, c.formula)
    BY <2>3, CostedHolds DEF new, U
  <2>6. placed = new.tree  BY <2>2, <2>5 DEF placed, PlacedTrees
  <2>7. Len(offered) = 1 /\ offered[1] = [reading |-> s[1], cost |-> new.cost]  BY <2>2, <2>5
  <2>8. offered \in Seq([reading : U, cost : Int])  BY <2>2, <2>3, <2>5
  <2>9. pending \in Seq(U) /\ Len(pending) = Len(s) - 1 /\ \A i \in 1 .. Len(pending) : pending[i] = s[1 + i]
    BY <2>2, <2>3
  <2>10. Len(screened) = 1 /\ screened[1].root = s[1].root /\ screened[1].cost = new.cost
         /\ screened \in Seq([root : Picks(c.td), cost : Int])
    BY <2>2, <2>4, <2>5
  <2>11. \A i \in 1 .. 1 : i = 1  OBVIOUS
  <2>12. RootsScreened(c, screened)  BY <2>3, <2>10, <2>11 DEF RootsScreened, s
  <2>13. /\ Len(Schedule(c, screened)) >= Len(s) /\ Schedule(c, screened)[1] = s[1]
    <3>1. /\ Plan(c, screened) \in Seq(U)
          /\ Len(Schedule(c, screened)) = Len(s) + Len(Plan(c, screened))
          /\ \A i \in 1 .. Len(s) : Schedule(c, screened)[i] = s[i]
      BY <2>12, ScheduleHolds DEF s, U
    <3>2. Len(Plan(c, screened)) \in Nat  BY <3>1
    <3>. QED  BY <2>3, <3>1, <3>2
  <2>14. Remains(s)  BY <2>3, <2>7, <2>9 DEF Remains
  <2>15. Wins(1)  BY <2>2, <2>5, <2>7, <2>11 DEF Wins
  <2>16. asked.scored => kept.cost = Cost(placed, asked.formula)  BY <2>2, <2>5, <2>6
  <2>17. \A i \in 1 .. Len(offered) : offered[i].reading = Schedule(c, screened)[i]
    BY <2>7, <2>11, <2>13
  <2>18. Len(offered) <= Len(Schedule(c, screened))
    <3>1. Len(Schedule(c, screened)) \in Nat  BY <2>12, ScheduleHolds
    <3>. QED  BY <2>3, <2>7, <2>13, <3>1
  <2>19. \E w \in 1 .. Len(offered) : Wins(w)  BY <2>7, <2>15
  <2>. QED
    BY <2>2, <2>7, <2>8, <2>9, <2>10, <2>12, <2>14, <2>16, <2>17, <2>18, <2>19 DEF SearchInv, U, s
<1>. QED  BY <1>1, <1>2 DEF SearchInit

\* What the next reading does to the winner.
LEMMA OfferWins ==
  ASSUME NEW new, new.cost \in Int, NEW w, Wins(w), NEW U, NEW reading \in U, new.reading = reading,
         offered \in Seq([reading : U, cost : Int]),
         kept' = Kept(new, Cheaper(new.cost)),
         offered' = Append(offered, [reading |-> new.reading, cost |-> new.cost])
  PROVE  \E x \in 1 .. Len(offered') : Wins(x)'
<1>. DEFINE n == Len(offered)
            more == offered'
            V == [reading : U, cost : Int]
            entry == [reading |-> new.reading, cost |-> new.cost]
<1>1. n \in Nat /\ \A i \in 1 .. n : offered[i].cost \in Int
  <2>1. n \in Nat /\ \A i \in 1 .. n : offered[i] \in V  BY Elements
  <2>. QED  BY <2>1
<1>2. /\ w \in 1 .. n /\ kept.cost = offered[w].cost /\ kept.reading = offered[w].reading
      /\ \A i \in 1 .. n : offered[i].cost > offered[w].cost \/ (offered[i].cost = offered[w].cost /\ w <= i)
  BY DEF Wins
<1>3. Len(more) = n + 1 /\ more[n + 1] = entry /\ \A i \in 1 .. n : more[i] = offered[i]
  <2>1. entry \in V  OBVIOUS
  <2>2. offered \in Seq(V) /\ more = Append(offered, entry)  OBVIOUS
  <2>. HIDE DEF V, entry, more
  <2>. QED  BY <2>1, <2>2
<1>4. \A i \in 1 .. n + 1 : i \in 1 .. n \/ i = n + 1  BY <1>1
<1>. HIDE DEF n
<1>5. more[n + 1].cost = new.cost /\ more[n + 1].reading = new.reading  BY <1>3
<1>6. CASE new.cost < kept.cost
  <2>0. PICK x \in Nat : x = n + 1  BY <1>1
  <2>1. kept'.cost = new.cost /\ kept'.reading = new.reading  BY <1>6 DEF Kept, Cheaper
  <2>. HIDE DEF more, entry
  <2>2. ASSUME NEW i \in 1 .. n PROVE more[i].cost > new.cost
    <3>0. offered[i].cost \in Int /\ offered[w].cost \in Int  BY <1>1, <1>2
    <3>1. kept.cost \in Int /\ kept.cost <= offered[i].cost  BY <1>2, <3>0
    <3>2. new.cost < offered[i].cost  BY <1>6, <3>0, <3>1
    <3>. QED  BY <1>3, <3>2
  <2>3. x \in 1 .. Len(more)  BY <1>1, <1>3, <2>0
  <2>4. \A i \in 1 .. Len(more) : more[i].cost > more[x].cost \/ (more[i].cost = more[x].cost /\ x <= i)
    BY <1>1, <1>3, <1>4, <1>5, <2>0, <2>2
  <2>5. more[x].cost = new.cost /\ more[x].reading = new.reading  BY <1>5, <2>0
  <2>6. Wins(x)'  BY <2>1, <2>3, <2>4, <2>5 DEF Wins, more
  <2>. QED  BY <2>3, <2>6 DEF more
<1>7. CASE ~ (new.cost < kept.cost)
  <2>1. kept' = kept  BY <1>7 DEF Kept, Cheaper
  <2>2. w \in 1 .. Len(more) /\ more[w] = offered[w] /\ w <= n + 1  BY <1>1, <1>2, <1>3
  <2>3. new.cost > kept.cost \/ new.cost = kept.cost  BY <1>1, <1>2, <1>7
  <2>. HIDE DEF more, entry
  <2>4. \A i \in 1 .. Len(more) : more[i].cost > more[w].cost \/ (more[i].cost = more[w].cost /\ w <= i)
    BY <1>2, <1>3, <1>4, <1>5, <2>2, <2>3
  <2>5. Wins(w)'  BY <1>2, <2>1, <2>2, <2>4 DEF Wins, more
  <2>. QED  BY <2>2, <2>5 DEF more
<1>. QED  BY <1>6, <1>7

\* The next reading is the next of the schedule.
LEMMA OfferKeeps ==
  ASSUME SearchInv, Offer
  PROVE  SearchInv'
<1>. DEFINE c == asked
            s == Screen(c)
            U == Readings(c)
            n == Len(offered)
            head == Head(pending)
            new == Costed(c, head)
            schedule == Schedule(c, screened)
<1>1. stage \in {"screen", "pairs"} /\ pending # <<>> /\ Converting  BY DEF Offer, Converting
<1>2. /\ c \in Cases
      /\ offered \in Seq([reading : U, cost : Int]) /\ pending \in Seq(U)
      /\ RootsScreened(c, screened) /\ n <= Len(schedule)
      /\ \A i \in 1 .. n : offered[i].reading = schedule[i]
      /\ stage = "screen" => Len(screened) = n /\ Remains(s)
      /\ stage = "pairs" => Remains(schedule)
      /\ \E w \in 1 .. n : Wins(w)
      /\ c.scored => kept.cost = Cost(placed, c.formula)
  BY <1>1 DEF SearchInv
<1>3. /\ IF Cheaper(new.cost) THEN Take(new.tree) ELSE UNCHANGED <<vars, varAt>>
      /\ kept' = Kept(new, Cheaper(new.cost))
      /\ offered' = Append(offered, [reading |-> new.reading, cost |-> new.cost])
      /\ screened' = IF stage = "screen" THEN Append(screened, [root |-> new.reading.root, cost |-> new.cost])
                     ELSE screened
      /\ pending' = Tail(pending) /\ asked' = c /\ stage' = stage
  BY Zenon DEF Offer
<1>4. /\ s \in Seq(U) /\ Len(s) \in Nat /\ head \in U /\ Len(pending) \in Nat /\ Len(pending) >= 1 /\ n \in Nat
      /\ pending[1] = head /\ Len(screened) \in Nat
  <2>. DEFINE V == [reading : U, cost : Int]
              X == [root : Picks(c.td), cost : Int]
  <2>1. s \in Seq(U) /\ offered \in Seq(V) /\ pending \in Seq(U) /\ screened \in Seq(X)
    BY <1>2, ScreenHolds DEF RootsScreened
  <2>. HIDE DEF s, U, V, X
  <2>. QED  BY <1>1, <2>1
<1>5. head.root \in Picks(c.td)  BY <1>4 DEF Readings, Picks
<1>6. /\ new.tree \in PlacedTrees /\ new.cost \in Int /\ new.reading = head
      /\ c.scored => new.cost = Cost(new.tree, c.formula)
  BY <1>2, <1>4, CostedHolds
<1>. HIDE DEF s, U, new, head
<1>. DEFINE m == Len(pending)
            rest == pending'
            more == offered'
            roots == screened'
            V == [reading : U, cost : Int]
            X == [root : Picks(c.td), cost : Int]
            entry == [reading |-> head, cost |-> new.cost]
            note == [root |-> head.root, cost |-> new.cost]
<1>7. more \in Seq(V) /\ Len(more) = n + 1 /\ more[n + 1] = entry /\ \A i \in 1 .. n : more[i] = offered[i]
  <2>1. more = Append(offered, entry) /\ offered \in Seq(V) /\ entry \in V  BY <1>2, <1>3, <1>4, <1>6
  <2>. HIDE DEF more, V, entry
  <2>. QED  BY <2>1
<1>8. rest \in Seq(U) /\ Len(rest) = m - 1 /\ \A i \in 1 .. Len(rest) : rest[i] = pending[i + 1]
  <2>1. rest = Tail(pending)  BY <1>3
  <2>. HIDE DEF rest
  <2>. QED  BY <1>1, <1>2, <2>1
<1>. HIDE DEF m, rest, n
<1>9. ASSUME NEW list, Len(list) \in Nat, Remains(list)
      PROVE  /\ n + 1 <= Len(list) /\ list[n + 1] = head
             /\ Len(more) + Len(rest) = Len(list)
             /\ \A i \in 1 .. Len(rest) : rest[i] = list[Len(more) + i]
  <2>. HIDE DEF more
  <2>1. n + m = Len(list) /\ \A i \in 1 .. m : pending[i] = list[n + i]  BY <1>9 DEF Remains, n, m
  <2>2. m >= 1 /\ m \in Nat /\ n \in Nat  BY <1>4 DEF m, n
  <2>8. Len(more) = n + 1 /\ Len(rest) = m - 1  BY <1>7, <1>8
  <2>3. 1 \in 1 .. m  BY <2>2
  <2>4. list[n + 1] = head  BY <1>4, <2>1, <2>3
  <2>5. ASSUME NEW i \in 1 .. Len(rest) PROVE rest[i] = list[Len(more) + i]
    <3>1. i + 1 \in 1 .. m /\ n + (i + 1) = Len(more) + i  BY <2>2, <2>8
    <3>. QED  BY <1>8, <2>1, <3>1
  <2>6. n + 1 <= Len(list)  BY <1>9, <2>1, <2>2
  <2>7. Len(more) + Len(rest) = Len(list)  BY <2>1, <2>2, <2>8
  <2>. QED  BY <2>4, <2>5, <2>6, <2>7
<1>10. RootsScreened(c, roots)
  <2>1. CASE stage = "pairs"
    <3>1. roots = screened  BY <1>3, <2>1
    <3>. QED  BY <1>2, <3>1
  <2>2. CASE stage = "screen"
    <3>1. roots = Append(screened, note) /\ screened \in Seq(X) /\ note \in X
      BY <1>2, <1>3, <1>5, <1>6, <2>2 DEF RootsScreened
    <3>. HIDE DEF roots, X, note
    <3>2. /\ roots \in Seq(X) /\ Len(roots) = Len(screened) + 1 /\ roots[Len(screened) + 1] = note
          /\ \A i \in 1 .. Len(screened) : roots[i] = screened[i]
      BY <3>1
    <3>3. Len(screened) = n /\ n + 1 <= Len(s) /\ s[n + 1] = head  BY <1>2, <1>4, <1>9, <2>2
    <3>4. \A i \in 1 .. n : screened[i].root = s[i].root  BY <1>2, <3>3 DEF RootsScreened, s
    <3>5. note.root = s[n + 1].root  BY <3>3 DEF note
    <3>6. \A i \in 1 .. n + 1 : i \in 1 .. n \/ i = n + 1  BY <1>4 DEF n
    <3>7. \A i \in 1 .. Len(roots) : roots[i].root = s[i].root  BY <3>2, <3>3, <3>4, <3>5, <3>6
    <3>. QED  BY <3>2, <3>3, <3>7 DEF RootsScreened, s, X
  <2>. QED  BY <1>1, <2>1, <2>2
<1>. DEFINE after == Schedule(c, roots)
<1>11. /\ Plan(c, roots) \in Seq(U) /\ after \in Seq(U) /\ Len(after) = Len(s) + Len(Plan(c, roots))
       /\ \A i \in 1 .. Len(s) : after[i] = s[i]
  BY <1>2, <1>10, ScheduleHolds DEF s, U
<1>12. Len(Plan(c, roots)) \in Nat /\ Len(after) \in Nat
  <2>. HIDE DEF after
  <2>. QED  BY <1>11
<1>13. /\ schedule \in Seq(U) /\ Len(schedule) \in Nat
       /\ \A i \in 1 .. Len(s) : schedule[i] = s[i]
  <2>1. /\ schedule \in Seq(U)
        /\ \A i \in 1 .. Len(s) : schedule[i] = s[i]
    BY <1>2, ScheduleHolds DEF s, U
  <2>. HIDE DEF schedule
  <2>. QED  BY <2>1
<1>. HIDE DEF after, schedule
<1>14. n + 1 <= Len(after) /\ \A i \in 1 .. n + 1 : more[i].reading = after[i]
  <2>. HIDE DEF more
  <2>0. \A i \in 1 .. n + 1 : i \in 1 .. n \/ i = n + 1  BY <1>4 DEF n
  <2>1. CASE stage = "pairs"
    <3>1. after = schedule  BY <1>3, <2>1 DEF after, schedule
    <3>2. n + 1 <= Len(schedule) /\ schedule[n + 1] = head  BY <1>2, <1>9, <1>13, <2>1
    <3>3. \A i \in 1 .. n : more[i].reading = schedule[i]  BY <1>2, <1>7 DEF schedule
    <3>4. more[n + 1].reading = schedule[n + 1]  BY <1>7, <3>2
    <3>. QED  BY <2>0, <3>1, <3>2, <3>3, <3>4
  <2>2. CASE stage = "screen"
    <3>1. n + 1 <= Len(s) /\ s[n + 1] = head  BY <1>2, <1>4, <1>9, <2>2
    <3>2. \A i \in 1 .. n + 1 : i \in 1 .. Len(s)  BY <1>4, <3>1 DEF n
    <3>3. \A i \in 1 .. n + 1 : after[i] = s[i]  BY <1>11, <3>2
    <3>4. \A i \in 1 .. n : offered[i].reading = s[i]
      <4>1. \A i \in 1 .. n : offered[i].reading = schedule[i]  BY <1>2 DEF schedule
      <4>2. \A i \in 1 .. n : i \in 1 .. Len(s)  BY <1>4, <3>2 DEF n
      <4>. QED  BY <1>13, <4>1, <4>2
    <3>5. n + 1 <= Len(after)  BY <1>4, <1>11, <1>12, <3>1 DEF n
    <3>. QED  BY <1>7, <2>0, <3>1, <3>3, <3>4, <3>5
  <2>. QED  BY <1>1, <2>1, <2>2
<1>15. stage = "screen" => /\ Len(screened') = Len(offered')
                           /\ Len(offered') + Len(pending') = Len(s)
                           /\ \A i \in 1 .. Len(pending') : pending'[i] = s[Len(offered') + i]
  <2>. SUFFICES ASSUME stage = "screen"
                PROVE  /\ Len(roots) = Len(more) /\ Len(more) + Len(pending') = Len(s)
                       /\ \A i \in 1 .. Len(pending') : pending'[i] = s[Len(more) + i]
    OBVIOUS
  <2>1. roots = Append(screened, note) /\ screened \in Seq(X)  BY <1>2, <1>3, <1>6 DEF RootsScreened
  <2>2. Len(roots) = Len(screened) + 1
    <3>. HIDE DEF roots, X, note
    <3>. QED  BY <2>1
  <2>3. Len(roots) = Len(more)  BY <1>2, <1>7, <2>2
  <2>4. Len(more) + Len(rest) = Len(s) /\ \A i \in 1 .. Len(rest) : rest[i] = s[Len(more) + i]
    BY <1>2, <1>4, <1>9
  <2>. QED  BY <2>3, <2>4 DEF rest
<1>16. stage = "pairs" => /\ Len(offered') + Len(pending') = Len(after)
                          /\ \A i \in 1 .. Len(pending') : pending'[i] = after[Len(offered') + i]
  <2>. SUFFICES ASSUME stage = "pairs"
                PROVE  /\ Len(offered') + Len(pending') = Len(after)
                       /\ \A i \in 1 .. Len(pending') : pending'[i] = after[Len(offered') + i]
    OBVIOUS
  <2>0. after = schedule  BY <1>3 DEF after, schedule
  <2>1. Len(more) + Len(rest) = Len(schedule) /\ \A i \in 1 .. Len(rest) : rest[i] = schedule[Len(more) + i]
    BY <1>2, <1>9, <1>13
  <2>. QED  BY <2>0, <2>1 DEF rest
<1>17. \E w \in 1 .. Len(offered') : Wins(w)'
  <2>1. PICK w \in 1 .. n : Wins(w)  BY <1>2
  <2>2. head \in U  BY <1>4
  <2>. QED  BY <1>2, <1>3, <1>6, <2>1, <2>2, OfferWins DEF n
<1>18. c.scored => kept'.cost = Cost(placed', c.formula)
  <2>1. CASE Cheaper(new.cost)
    <3>1. placed' = new.tree  BY <1>3, <1>6, <2>1 DEF Take, Become, placed, PlacedTrees
    <3>2. kept'.cost = new.cost  BY <1>3, <2>1 DEF Kept
    <3>. QED  BY <1>6, <3>1, <3>2
  <2>2. CASE ~ Cheaper(new.cost)
    <3>1. placed' = placed /\ kept' = kept  BY <1>3, <2>2 DEF placed, vars, Kept
    <3>. QED  BY <1>2, <3>1
  <2>. QED  BY <2>1, <2>2
<1>19. /\ stage' \in {"screen", "pairs", "cut off", "kept", "rotated"}
       /\ asked' \in Cases
       /\ offered' \in Seq([reading : Readings(asked'), cost : Int]) /\ pending' \in Seq(Readings(asked'))
       /\ RootsScreened(asked', screened')
       /\ Len(offered') <= Len(Schedule(asked', screened'))
       /\ \A i \in 1 .. Len(offered') : offered'[i].reading = Schedule(asked', screened')[i]
  BY <1>1, <1>2, <1>3, <1>7, <1>8, <1>10, <1>14 DEF U, rest, after
<1>20. stage' = "screen" => Len(screened') = Len(offered') /\ Remains(Screen(asked))'
  BY <1>3, <1>15 DEF s, Remains
<1>21. stage' = "pairs" => Remains(Schedule(asked, screened))'
  BY <1>3, <1>16 DEF after, Remains
<1>22. asked'.scored => kept'.cost = Cost(placed', asked'.formula)  BY <1>3, <1>18
<1>. QED  BY <1>17, <1>19, <1>20, <1>21, <1>22 DEF SearchInv

\* Once the screen is through, what is left is the rest of the plan.
LEMMA ScreenedKeeps ==
  ASSUME SearchInv, Screened
  PROVE  SearchInv'
<1>. DEFINE c == asked
            s == Screen(c)
            U == Readings(c)
            plan == Plan(c, screened)
            schedule == Schedule(c, screened)
<1>1. stage = "screen" /\ pending = <<>> /\ Converting  BY DEF Screened, Converting
<1>2. /\ c \in Cases
      /\ offered \in Seq([reading : U, cost : Int]) /\ RootsScreened(c, screened)
      /\ Len(offered) <= Len(schedule)
      /\ \A i \in 1 .. Len(offered) : offered[i].reading = schedule[i]
      /\ Remains(s)
      /\ \E w \in 1 .. Len(offered) : Wins(w)
      /\ c.scored => kept.cost = Cost(placed, c.formula)
  BY <1>1 DEF SearchInv
<1>3. /\ stage' = "pairs" /\ pending' = plan /\ asked' = c /\ screened' = screened
      /\ kept' = kept /\ offered' = offered /\ placed' = placed
  BY DEF Screened, placed, vars
<1>4. /\ plan \in Seq(U) /\ Len(schedule) = Len(s) + Len(plan)
      /\ \A i \in 1 .. Len(plan) : schedule[Len(s) + i] = plan[i]
  BY <1>2, ScheduleHolds
<1>5. Len(offered) = Len(s)
  <2>. DEFINE V == [reading : U, cost : Int]
  <2>1. offered \in Seq(V) /\ s \in Seq(U)  BY <1>2, ScreenHolds
  <2>2. Len(offered) + Len(pending) = Len(s)  BY <1>2 DEF Remains
  <2>3. Len(pending) = 0  BY <1>1
  <2>. HIDE DEF V, s, U
  <2>. QED  BY <2>1, <2>2, <2>3
<1>6. Remains(schedule)'
  <2>1. schedule' = schedule  BY <1>3
  <2>2. Len(offered') + Len(pending') = Len(schedule)  BY <1>3, <1>4, <1>5
  <2>3. \A i \in 1 .. Len(pending') : pending'[i] = schedule[Len(offered') + i]  BY <1>3, <1>4, <1>5
  <2>. QED  BY <2>1, <2>2, <2>3 DEF Remains
<1>7. \E w \in 1 .. Len(offered') : Wins(w)'  BY <1>2, <1>3 DEF Wins
<1>. QED  BY <1>2, <1>3, <1>4, <1>6, <1>7 DEF SearchInv

\* Only an offer changes what is in hand.
LEMMA SearchSteps == SearchInv /\ [SearchNext]_allVars => SearchInv'
<1>. SUFFICES ASSUME SearchInv, [SearchNext]_allVars PROVE SearchInv'  OBVIOUS
<1>1. CASE Offer  BY <1>1, OfferKeeps
<1>2. CASE Screened  BY <1>2, ScreenedKeeps
<1>3. ASSUME stage' \in {"cut off", "kept"}, pending' \in {<<>>, pending}, Converting,
             UNCHANGED <<vars, varAt, asked, screened, kept, offered>>
      PROVE  SearchInv'
  <2>1. placed' = placed  BY <1>3 DEF placed, vars
  <2>2. <<>> \in Seq(Readings(asked))  OBVIOUS
  <2>3. \A w : Wins(w)' <=> Wins(w)  BY <1>3 DEF Wins
  <2>. QED  BY <1>3, <2>1, <2>2, <2>3 DEF SearchInv
<1>4. CASE CutOff  BY <1>3, <1>4 DEF CutOff, Converting
<1>5. CASE Finished  BY <1>3, <1>5 DEF Finished, Converting
<1>6. CASE Rotate
  <2>1. stage' = "rotated"  BY <1>6 DEF Rotate
  <2>. QED  BY <2>1 DEF SearchInv, Converting
<1>7. CASE UNCHANGED allVars
  <2>1. /\ asked' = asked /\ stage' = stage /\ pending' = pending /\ screened' = screened
        /\ kept' = kept /\ offered' = offered /\ placed' = placed
    BY <1>7 DEF allVars, searchVars, vars, placed
  <2>2. \A w : Wins(w)' <=> Wins(w)  BY <2>1 DEF Wins
  <2>3. Converting' <=> Converting  BY <2>1 DEF Converting
  <2>. QED  BY <2>1, <2>2, <2>3 DEF SearchInv, Remains
<1>. QED  BY <1>1, <1>2, <1>4, <1>5, <1>6, <1>7 DEF SearchNext

\* The invariant says what the property does.
LEMMA SearchShows == SearchInv => CheapestIsKept
<1>. SUFFICES ASSUME SearchInv, Converting PROVE CheapestIsKept  BY DEF CheapestIsKept
<1>. DEFINE c == asked
            U == Readings(c)
            V == [reading : U, cost : Int]
            n == Len(offered)
            keys == [i \in DOMAIN offered |-> offered[i].cost]
            win == FirstLeast(keys)
            rooted(i) == Forest(c.td, RootBags(c.td, screened[i].root)).roots
<1>1. /\ c \in Cases /\ offered \in Seq(V) /\ RootsScreened(c, screened)
      /\ n <= Len(Schedule(c, screened))
      /\ \A i \in 1 .. n : offered[i].reading = Schedule(c, screened)[i]
      /\ c.scored => kept.cost = Cost(placed, c.formula)
  BY DEF SearchInv
<1>2. PICK w \in 1 .. n : Wins(w)  BY DEF SearchInv
<1>3. n \in Nat /\ DOMAIN offered = 1 .. n /\ \A i \in 1 .. n : offered[i].cost \in Int
  <2>1. n \in Nat /\ DOMAIN offered = 1 .. n /\ \A i \in 1 .. n : offered[i] \in V  BY <1>1, Elements
  <2>. QED  BY <2>1
<1>4. /\ kept.cost = offered[w].cost /\ kept.reading = offered[w].reading
      /\ \A i \in 1 .. n : offered[i].cost > offered[w].cost \/ (offered[i].cost = offered[w].cost /\ w <= i)
  BY <1>2 DEF Wins
<1>5. DOMAIN keys = 1 .. n /\ \A i \in 1 .. n : keys[i] = offered[i].cost /\ keys[i] \in Int  BY <1>3
<1>. HIDE DEF n, keys, V, U
<1>6. win = w
  <2>1. /\ w \in DOMAIN keys
        /\ \A j \in DOMAIN keys : keys[j] > keys[w] \/ (keys[j] = keys[w] /\ w <= j)
    BY <1>2, <1>4, <1>5
  <2>2. /\ win \in DOMAIN keys
        /\ \A j \in DOMAIN keys : keys[j] > keys[win] \/ (keys[j] = keys[win] /\ win <= j)
    BY <2>1 DEF FirstLeast
  <2>. HIDE DEF win
  <2>3. w \in Int /\ win \in Int /\ keys[w] \in Int /\ keys[win] \in Int  BY <1>3, <1>5, <2>1, <2>2
  <2>4. w <= win /\ win <= w  BY <2>1, <2>2, <2>3
  <2>. QED  BY <2>3, <2>4
<1>7. ASSUME NEW i \in DOMAIN offered, NEW j \in DOMAIN offered, offered[i].reading = offered[j].reading
      PROVE  i = j
  <2>0. Len(Schedule(c, screened)) \in Nat  BY <1>1, ScheduleHolds
  <2>1. i \in 1 .. Len(Schedule(c, screened)) /\ j \in 1 .. Len(Schedule(c, screened))
    BY <1>1, <1>3, <1>7, <2>0 DEF n
  <2>2. Schedule(c, screened)[i] = Schedule(c, screened)[j]  BY <1>1, <1>3, <1>7 DEF n
  <2>. QED  BY <1>1, <2>1, <2>2, ScheduleHolds
<1>8. ASSUME NEW i \in DOMAIN screened, NEW j \in DOMAIN screened, rooted(i) = rooted(j) PROVE i = j
  <2>. DEFINE X == [root : Picks(c.td), cost : Int]
  <2>1. screened \in Seq(X)  BY <1>1 DEF RootsScreened
  <2>. HIDE DEF X
  <2>2. DOMAIN screened = 1 .. Len(screened)  BY <2>1
  <2>3. RootedAt(c.td, screened[i].root) = RootedAt(c.td, screened[j].root)  BY <1>8 DEF RootedAt
  <2>. QED  BY <1>1, <2>2, <2>3, ScreenedApart
<1>9. kept.cost = offered[win].cost /\ kept.reading = offered[win].reading  BY <1>4, <1>6
<1>. HIDE DEF win, rooted
<1>. QED  BY <1>1, <1>7, <1>8, <1>9 DEF CheapestIsKept, win, keys, rooted

\* Whatever the decomposition, the formula and the costs, and wherever the deadline falls,
\* the tree in hand is the first of the cheapest offered, no reading is offered twice, and
\* no two roots screened root the decomposition alike (BestBy, candidate_roots, convert).
THEOREM CheapestAlwaysKept == SearchSpec => []CheapestIsKept
<1>1. SearchInit => SearchInv  BY SearchStarts
<1>2. SearchInv /\ [SearchNext]_allVars => SearchInv'  BY SearchSteps
<1>3. SearchInv => CheapestIsKept  BY SearchShows
<1>. QED  BY <1>1, <1>2, <1>3, PTL DEF SearchSpec

=============================================================================

-------------------------- MODULE ComponentProofs --------------------------
(***************************************************************************)
(* Proofs about the per-component construction (ComponentBuild), for every *)
(* formula, every order of its clauses, every deadline and every numbering *)
(* a component is given: the split is into independent components that     *)
(* cannot be split further, no component starves, and the trees fit what   *)
(* they stand for.                                                         *)
(***************************************************************************)
EXTENDS ComponentBuild, FoldProofs

-----------------------------------------------------------------------------
\* Numbers, ascending.
LEMMA AscendingLists ==
  ASSUME NEW n \in Nat, NEW S \in SUBSET (1 .. n)
  PROVE  IsFiniteSet(S) /\ Lists(Ascending(S, <), S)
BY NumbersListed DEF Ascending

-----------------------------------------------------------------------------
(***************************************************************************)
(* The split.                                                              *)
(***************************************************************************)
Formulas == Seq(SUBSET Lits)
Finds == [Vars -> Vars]

LEMMA VariablesOfLiterals ==
  /\ \A l \in Lits : VarOf(l) \in Vars /\ l \in Int /\ l # 0
  /\ \A c \in SUBSET Lits : ClauseVars(c) \in SUBSET Vars /\ (c # {} => ClauseVars(c) # {})
<1>1. ASSUME NEW l \in Lits
      PROVE  VarOf(l) \in Vars /\ l \in Int /\ l # 0
  <2>1. CASE l \in Vars  BY <2>1, NumVarsAssumption DEF Vars, VarOf
  <2>2. CASE l \in {-v : v \in Vars}  BY <2>2, NumVarsAssumption DEF Vars, VarOf
  <2>. QED  BY <2>1, <2>2 DEF Lits
<1>. QED  BY <1>1 DEF ClauseVars

LEMMA MinIsLeast ==
  ASSUME NEW S \in SUBSET Vars, S # {}
  PROVE  Min(S) \in S /\ \A m \in S : Min(S) <= m
<1>1. S \in SUBSET Nat  BY NumVarsAssumption DEF Vars
<1>2. \E n \in S : \A m \in S : n <= m  BY <1>1, LeastElement
<1>. QED  BY <1>2 DEF Min

LEMMA UniteJoins ==
  ASSUME NEW find \in Finds, NEW S \in SUBSET Vars
  PROVE  /\ Unite(find, S) \in Finds
         /\ \A v, w \in S : Unite(find, S)[v] = Unite(find, S)[w]
         /\ \A v, w \in Vars : find[v] = find[w] => Unite(find, S)[v] = Unite(find, S)[w]
         /\ \A v, w \in Vars : Unite(find, S)[v] = Unite(find, S)[w] =>
              find[v] = find[w] \/ \E a, b \in S : find[v] = find[a] /\ find[w] = find[b]
<1>. DEFINE reps == {find[v] : v \in S}
            u == [v \in Vars |-> IF find[v] \in reps THEN Min(reps) ELSE find[v]]
<1>1. Unite(find, S) = u  BY DEF Unite
<1>2. reps \in SUBSET Vars /\ \A v \in S : v \in Vars /\ find[v] \in reps  BY DEF Finds
<1>3. reps # {} => Min(reps) \in reps
  <2>. HIDE DEF reps
  <2>. QED  BY <1>2, MinIsLeast
<1>4. \A x \in reps : \E a \in S : x = find[a]  OBVIOUS
<1>. HIDE DEF reps
<1>5. u \in Finds  BY <1>2, <1>3 DEF Finds
<1>6. \A v, w \in S : u[v] = u[w]  BY <1>2
<1>7. \A v, w \in Vars : find[v] = find[w] => u[v] = u[w]  OBVIOUS
<1>8. ASSUME NEW v \in Vars, NEW w \in Vars, u[v] = u[w]
      PROVE  find[v] = find[w] \/ \E a, b \in S : find[v] = find[a] /\ find[w] = find[b]
  <2>1. CASE find[v] \in reps /\ find[w] \in reps  BY <1>4, <2>1
  <2>2. CASE ~(find[v] \in reps /\ find[w] \in reps)  BY <1>3, <1>8, <2>2
  <2>. QED  BY <2>1, <2>2
<1>. QED  BY <1>1, <1>5, <1>6, <1>7, <1>8

\* The representatives are reached clause by clause.
LEMMA RepresentativeRuns ==
  ASSUME NEW clauses \in Formulas
  PROVE  \E find \in [0 .. Len(clauses) -> Finds] :
           /\ find[0] = [v \in Vars |-> v] /\ find[Len(clauses)] = Representative(clauses)
           /\ \A k \in 1 .. Len(clauses) : find[k] = Unite(find[k - 1], ClauseVars(clauses[k]))
<1>. DEFINE n == Len(clauses)
            id == [v \in Vars |-> v]
            step == [p \in (1 .. n) \X Finds |-> Unite(p[2], ClauseVars(clauses[p[1]]))]
            Turn(it, T) == IF T = {} THEN id ELSE Unite(it[T \ {Max(T)}], ClauseVars(clauses[Max(T)]))
            iter == CHOOSE it : it = [T \in SUBSET (1 .. n) |-> Turn(it, T)]
<1>1. n \in Nat /\ \A i \in 1 .. n : ClauseVars(clauses[i]) \in SUBSET Vars
  BY ElementOfSeq, VariablesOfLiterals DEF Formulas
<1>2. step \in [(1 .. n) \X Finds -> Finds]  BY <1>1, UniteJoins
<1>3. id \in Finds  BY DEF Finds
<1>4. Representative(clauses) = iter[1 .. n]
  <2>1. DOMAIN clauses = 1 .. n  BY DEF Formulas
  <2>. QED  BY <2>1, Zenon DEF Representative, FoldLeft, MapThenFoldSet
<1>. HIDE DEF id
<1>5. PICK g \in [SUBSET (1 .. n) -> Finds] : IsIteration(g, n, id, step)
  <2>. HIDE DEF step
  <2>. QED  BY <1>1, <1>2, <1>3, IterationExists
<1>6. \A T \in (SUBSET (1 .. n)) \ {{}} : Max(T) \in 1 .. n
  BY <1>1, MaxOfNumbers
<1>7. g = [T \in SUBSET (1 .. n) |-> Turn(g, T)]
  <2>1. \A T \in SUBSET (1 .. n) : T \ {Max(T)} \in SUBSET (1 .. n)  OBVIOUS
  <2>. QED  BY <1>5, <1>6, <2>1 DEF IsIteration
<1>8. iter = [T \in SUBSET (1 .. n) |-> Turn(iter, T)]
  <2>. HIDE DEF Turn, n
  <2>. QED  BY <1>7
<1>9. Iterates(iter, n, Finds, id, step)
  <2>. HIDE DEF iter
  <2>. QED  BY <1>6, <1>8 DEF Iterates
<1>10. GoesThrough(iter, n, Finds, step)
  <2>. HIDE DEF iter, step
  <2>. QED  BY <1>1, <1>2, <1>3, <1>9, IterationRuns
<1>11. [k \in 0 .. n |-> iter[1 .. k]] \in [0 .. n -> Finds]
  <2>. HIDE DEF iter, step, n
  <2>. QED  BY <1>10 DEF GoesThrough
<1>12. iter[1 .. 0] = id
  <2>. HIDE DEF iter, step, n
  <2>1. 1 .. 0 = {}  OBVIOUS
  <2>. QED  BY <1>9, <2>1 DEF Iterates
<1>13. \A k \in 1 .. n : iter[1 .. k] = Unite(iter[1 .. k - 1], ClauseVars(clauses[k]))
  <2>1. \A k \in 1 .. n, f \in Finds : step[<<k, f>>] = Unite(f, ClauseVars(clauses[k]))  OBVIOUS
  <2>2. \A k \in 1 .. n : k - 1 \in 0 .. n  BY <1>1
  <2>. HIDE DEF iter, step, n
  <2>. QED  BY <1>10, <2>1, <2>2 DEF GoesThrough
<1>. DEFINE find == [k \in 0 .. n |-> iter[1 .. k]]
<1>14. /\ find[0] = id /\ find[n] = Representative(clauses)
       /\ \A k \in 1 .. n : find[k] = Unite(find[k - 1], ClauseVars(clauses[k]))
  <2>. HIDE DEF iter, step, n
  <2>. QED  BY <1>1, <1>4, <1>12, <1>13
<1>. HIDE DEF find, iter
<1>. QED  BY <1>11, <1>14 DEF find, id

\* V is not cut by the first k clauses: each is inside or outside.
Uncut(V, clauses, k) ==
  \A j \in 1 .. k : ClauseVars(clauses[j]) \subseteq V \/ ClauseVars(clauses[j]) \cap V = {}

\* What the representatives say after k clauses: they join the variables of
\* each, and nothing across a set the clauses do not cut.
Joins(find, clauses, k) ==
  /\ find \in Finds
  /\ \A j \in 1 .. k : \A v, w \in ClauseVars(clauses[j]) : find[v] = find[w]
  /\ \A V \in SUBSET Vars : Uncut(V, clauses, k) =>
       \A v, w \in Vars : find[v] = find[w] /\ v \in V => w \in V

LEMMA UniteKeepsJoins ==
  ASSUME NEW clauses \in Formulas, NEW k \in 0 .. Len(clauses) - 1, NEW find, Joins(find, clauses, k)
  PROVE  Joins(Unite(find, ClauseVars(clauses[k + 1])), clauses, k + 1)
<1>. DEFINE S == ClauseVars(clauses[k + 1])
            u == Unite(find, S)
<1>1. k \in Nat /\ \A j \in 1 .. k + 1 : ClauseVars(clauses[j]) \in SUBSET Vars
  <2>1. \A j \in 1 .. Len(clauses) : clauses[j] \in SUBSET Lits  BY ElementOfSeq DEF Formulas
  <2>2. \A j \in 1 .. k + 1 : j \in 1 .. Len(clauses)  BY DEF Formulas
  <2>. QED  BY <2>1, <2>2, VariablesOfLiterals
<1>2. S \in SUBSET Vars /\ find \in Finds  BY <1>1 DEF Joins
<1>3. /\ u \in Finds
      /\ \A v, w \in S : u[v] = u[w]
      /\ \A v, w \in Vars : find[v] = find[w] => u[v] = u[w]
      /\ \A v, w \in Vars : u[v] = u[w] =>
           find[v] = find[w] \/ \E a, b \in S : find[v] = find[a] /\ find[w] = find[b]
  <2>. HIDE DEF S
  <2>. QED  BY <1>2, UniteJoins
<1>4. ASSUME NEW j \in 1 .. k + 1, NEW v \in ClauseVars(clauses[j]), NEW w \in ClauseVars(clauses[j])
      PROVE  u[v] = u[w]
  <2>. HIDE DEF u
  <2>1. CASE j = k + 1  BY <1>3, <2>1
  <2>2. CASE j \in 1 .. k
    <3>1. find[v] = find[w] /\ v \in Vars /\ w \in Vars  BY <1>1, <2>2 DEF Joins
    <3>. QED  BY <1>3, <3>1
  <2>. QED  BY <1>1, <2>1, <2>2
<1>5. ASSUME NEW V \in SUBSET Vars, Uncut(V, clauses, k + 1), NEW v \in Vars, NEW w \in Vars,
             u[v] = u[w], v \in V
      PROVE  w \in V
  <2>1. Uncut(V, clauses, k) /\ (S \subseteq V \/ S \cap V = {})
    <3>1. k + 1 \in 1 .. k + 1 /\ \A j \in 1 .. k : j \in 1 .. k + 1  BY <1>1
    <3>. QED  BY <1>5, <3>1 DEF Uncut
  <2>2. \A x, y \in Vars : find[x] = find[y] /\ x \in V => y \in V  BY <2>1 DEF Joins
  <2>. HIDE DEF u, S
  <2>3. CASE find[v] = find[w]  BY <1>5, <2>2, <2>3
  <2>4. CASE \E a, b \in S : find[v] = find[a] /\ find[w] = find[b]
    <3>1. PICK a \in S, b \in S : find[v] = find[a] /\ find[w] = find[b]  BY <2>4
    <3>2. a \in V  BY <1>2, <1>5, <2>2, <3>1
    <3>3. b \in V  BY <2>1, <3>2
    <3>. QED  BY <1>2, <2>2, <3>1, <3>3
  <2>. QED  BY <1>3, <1>5, <2>3, <2>4
<1>. HIDE DEF u
<1>6. Joins(u, clauses, k + 1)  BY <1>3, <1>4, <1>5 DEF Joins
<1>. QED  BY <1>6 DEF u

LEMMA RepresentativeJoins ==
  ASSUME NEW clauses \in Formulas
  PROVE  Joins(Representative(clauses), clauses, Len(clauses))
<1>1. PICK find \in [0 .. Len(clauses) -> Finds] :
        /\ find[0] = [v \in Vars |-> v] /\ find[Len(clauses)] = Representative(clauses)
        /\ \A k \in 1 .. Len(clauses) : find[k] = Unite(find[k - 1], ClauseVars(clauses[k]))
  BY RepresentativeRuns
<1>. DEFINE Good == {k \in 0 .. Len(clauses) : Joins(find[k], clauses, k)}
<1>2. Len(clauses) \in Nat  BY DEF Formulas
<1>3. 0 \in Good
  <2>1. 0 \in 0 .. Len(clauses) /\ find[0] \in Finds  BY <1>2
  <2>2. \A v \in Vars : find[0][v] = v  BY <1>1
  <2>. QED  BY <2>1, <2>2 DEF Joins
<1>4. ASSUME NEW k \in 0 .. Len(clauses) - 1, k \in Good
      PROVE  k + 1 \in Good
  <2>1. k + 1 \in 1 .. Len(clauses) /\ k + 1 \in 0 .. Len(clauses) /\ (k + 1) - 1 = k  BY <1>2
  <2>2. find[k + 1] = Unite(find[k], ClauseVars(clauses[k + 1]))  BY <1>1, <2>1
  <2>. QED  BY <1>4, <2>1, <2>2, UniteKeepsJoins
<1>5. 0 .. Len(clauses) \subseteq Good
  <2>. HIDE DEF Good
  <2>. QED  BY <1>2, <1>3, <1>4, BoundedInduction
<1>6. Len(clauses) \in Good  BY <1>2, <1>5
<1>. QED  BY <1>1, <1>6
\* The variables of a set of clauses.
LEMMA VariablesOfClauses ==
  ASSUME NEW clauses \in Formulas, NEW C \in SUBSET DOMAIN clauses
  PROVE  /\ VarsOf(clauses, C) \in SUBSET Vars
         /\ \A i \in C : clauses[i] \in SUBSET Lits /\ ClauseVars(clauses[i]) \in SUBSET VarsOf(clauses, C)
         /\ \A v \in VarsOf(clauses, C) : \E i \in C : v \in ClauseVars(clauses[i])
<1>1. \A i \in C : clauses[i] \in SUBSET Lits /\ ClauseVars(clauses[i]) \in SUBSET Vars
  BY VariablesOfLiterals DEF Formulas
<1>. QED  BY <1>1 DEF VarsOf

\* A partition of the clauses into components that share no variable and cannot
\* be split; the clauses without a variable are one of them.
AreComponents(G, clauses) ==
  /\ G \subseteq (SUBSET DOMAIN clauses) \ {{}} /\ UNION G = DOMAIN clauses
  /\ \A C, D \in G : C # D => C \cap D = {} /\ VarsOf(clauses, C) \cap VarsOf(clauses, D) = {}
  /\ \A C, D \in G : VarsOf(clauses, C) = {} /\ VarsOf(clauses, D) = {} => C = D
  /\ \A C \in G : VarsOf(clauses, C) # {} =>
       \A D \in (SUBSET C) \ {{}, C} : ~Detached(clauses, D, C)

LEMMA GroupsAreComponents ==
  ASSUME NEW clauses \in Formulas
  PROVE  AreComponents(Groups(clauses), clauses)
<1>. DEFINE N == DOMAIN clauses
            find == Representative(clauses)
            some(i) == Min(ClauseVars(clauses[i]))
            rep == [i \in N |-> IF clauses[i] = {} THEN 0 ELSE find[some(i)]]
            part(i) == {j \in N : rep[j] = rep[i]}
            G == {part(i) : i \in N}
<1>1. Groups(clauses) = G  BY DEF Groups
<1>2. /\ N = 1 .. Len(clauses) /\ find \in Finds
      /\ \A j \in N : \A v, w \in ClauseVars(clauses[j]) : find[v] = find[w]
      /\ \A V \in SUBSET Vars : Uncut(V, clauses, Len(clauses)) =>
           \A v, w \in Vars : find[v] = find[w] /\ v \in V => w \in V
  <2>. HIDE DEF find
  <2>1. Joins(find, clauses, Len(clauses))  BY RepresentativeJoins DEF find
  <2>2. N = 1 .. Len(clauses)  BY DEF Formulas
  <2>. QED  BY <2>1, <2>2 DEF Joins
<1>. HIDE DEF find
<1>3. ASSUME NEW i \in N
      PROVE  /\ clauses[i] \in SUBSET Lits /\ ClauseVars(clauses[i]) \in SUBSET Vars
             /\ clauses[i] # {} => some(i) \in ClauseVars(clauses[i]) /\ rep[i] = find[some(i)] /\ rep[i] # 0
             /\ clauses[i] = {} => ClauseVars(clauses[i]) = {} /\ rep[i] = 0
  <2>1. clauses[i] \in SUBSET Lits  BY DEF Formulas
  <2>2. ClauseVars(clauses[i]) \in SUBSET Vars /\ (clauses[i] # {} => ClauseVars(clauses[i]) # {})
    BY <2>1, VariablesOfLiterals
  <2>3. clauses[i] # {} => some(i) \in ClauseVars(clauses[i])  BY <2>2, MinIsLeast
  <2>4. clauses[i] # {} => find[some(i)] \in Vars
    <3>. HIDE DEF some
    <3>. QED  BY <1>2, <2>2, <2>3 DEF Finds
  <2>5. 0 \notin Vars  BY NumVarsAssumption DEF Vars
  <2>6. clauses[i] = {} => ClauseVars(clauses[i]) = {}  BY DEF ClauseVars
  <2>. HIDE DEF some
  <2>. QED  BY <2>1, <2>2, <2>3, <2>4, <2>5, <2>6
<1>. HIDE DEF some, N
<1>4. ASSUME NEW i \in N, NEW v \in ClauseVars(clauses[i])
      PROVE  rep[i] = find[v] /\ rep[i] # 0 /\ v \in Vars
  <2>1. clauses[i] # {}  BY <1>3
  <2>. QED  BY <1>2, <1>3, <2>1
<1>. HIDE DEF rep
<1>5. \A i \in N : i \in part(i) /\ part(i) \in SUBSET N  OBVIOUS
<1>6. G \subseteq (SUBSET N) \ {{}} /\ UNION G = N
  <2>. HIDE DEF part
  <2>. QED  BY <1>5
<1>7. ASSUME NEW C \in SUBSET N, NEW v \in VarsOf(clauses, C)
      PROVE  \E i \in C : v \in ClauseVars(clauses[i])
  BY VariablesOfClauses DEF N
<1>8. ASSUME NEW i \in N, NEW j \in N, part(i) # part(j)
      PROVE  part(i) \cap part(j) = {} /\ VarsOf(clauses, part(i)) \cap VarsOf(clauses, part(j)) = {}
  <2>1. rep[i] # rep[j]  BY <1>8
  <2>2. ASSUME NEW v \in VarsOf(clauses, part(i)), v \in VarsOf(clauses, part(j))
        PROVE  FALSE
    <3>1. PICK k \in part(i) : v \in ClauseVars(clauses[k])
      <4>. HIDE DEF part
      <4>. QED  BY <1>5, <1>7
    <3>2. PICK l \in part(j) : v \in ClauseVars(clauses[l])
      <4>. HIDE DEF part
      <4>. QED  BY <1>5, <1>7, <2>2
    <3>3. rep[k] = find[v] /\ rep[l] = find[v]  BY <1>4, <3>1, <3>2
    <3>. QED  BY <2>1, <3>3
  <2>. QED  BY <2>1, <2>2
<1>9. ASSUME NEW i \in N, NEW j \in N, VarsOf(clauses, part(i)) = {}, VarsOf(clauses, part(j)) = {}
      PROVE  part(i) = part(j)
  <2>1. ASSUME NEW k \in N, VarsOf(clauses, part(k)) = {}
        PROVE  rep[k] = 0
    <3>1. k \in part(k) /\ part(k) \in SUBSET N  BY <1>5
    <3>2. ClauseVars(clauses[k]) = {}
      <4>. HIDE DEF part
      <4>. QED  BY <2>1, <3>1, VariablesOfClauses DEF N
    <3>. QED  BY <1>3, <3>2
  <2>2. rep[i] = 0 /\ rep[j] = 0  BY <1>9, <2>1
  <2>. QED  BY <2>2
<1>10. ASSUME NEW i \in N, VarsOf(clauses, part(i)) # {},
              NEW D \in (SUBSET part(i)) \ {{}, part(i)}, Detached(clauses, D, part(i))
       PROVE  FALSE
  <2>1. D \in SUBSET N /\ part(i) \ D \in SUBSET N  BY <1>5
  <2>2. \A j \in part(i) : ClauseVars(clauses[j]) # {}
    <3>1. PICK v \in VarsOf(clauses, part(i)) : TRUE  BY <1>10
    <3>2. PICK k \in part(i) : v \in ClauseVars(clauses[k])
      <4>. HIDE DEF part
      <4>. QED  BY <1>5, <1>7
    <3>3. \A j \in part(i) : rep[j] = rep[k] /\ rep[k] # 0  BY <1>4, <3>2
    <3>4. \A j \in part(i) : j \in N  OBVIOUS
    <3>5. \A j \in N : ClauseVars(clauses[j]) = {} => rep[j] = 0
      <4>1. \A j \in N : clauses[j] # {} => ClauseVars(clauses[j]) # {}  BY <1>3
      <4>. QED  BY <1>3, <4>1
    <3>. HIDE DEF part
    <3>. QED  BY <3>3, <3>4, <3>5
  <2>. DEFINE V == VarsOf(clauses, D)
  <2>3. V \in SUBSET Vars  BY <2>1, VariablesOfClauses DEF N
  <2>4. Uncut(V, clauses, Len(clauses))
    <3>1. ASSUME NEW j \in N
          PROVE  ClauseVars(clauses[j]) \subseteq V \/ ClauseVars(clauses[j]) \cap V = {}
      <4>1. CASE j \in D  BY <2>1, <4>1, VariablesOfClauses DEF N
      <4>2. CASE j \in part(i) \ D
        <5>1. ClauseVars(clauses[j]) \subseteq VarsOf(clauses, part(i) \ D)
          <6>. HIDE DEF part
          <6>. QED  BY <2>1, <4>2, VariablesOfClauses DEF N
        <5>. QED  BY <1>10, <5>1 DEF Detached
      <4>3. CASE j \notin part(i)
        <5>1. ASSUME NEW v \in ClauseVars(clauses[j]), v \in V
              PROVE  FALSE
          <6>1. PICK k \in D : v \in ClauseVars(clauses[k])  BY <1>7, <2>1, <5>1
          <6>2. rep[j] = find[v] /\ rep[k] = find[v]  BY <1>4, <2>1, <5>1, <6>1
          <6>. QED  BY <4>3, <6>1, <6>2
        <5>. QED  BY <5>1
      <4>. QED  BY <4>1, <4>2, <4>3
    <3>. QED  BY <1>2, <3>1 DEF Uncut
  <2>5. PICK j \in D, k \in part(i) \ D : TRUE  OBVIOUS
  <2>6. PICK v \in ClauseVars(clauses[j]), w \in ClauseVars(clauses[k]) : TRUE
    <3>1. j \in part(i) /\ k \in part(i)  BY <2>5
    <3>. HIDE DEF part
    <3>. QED  BY <2>2, <3>1
  <2>7. find[v] = find[w] /\ v \in Vars /\ w \in Vars
    <3>1. rep[j] = rep[k] /\ j \in N /\ k \in N  BY <2>5
    <3>. QED  BY <1>4, <3>1
  <2>8. v \in V
    <3>. HIDE DEF part
    <3>. QED  BY <2>1, VariablesOfClauses DEF N
  <2>9. w \in VarsOf(clauses, part(i) \ D)
    <3>. HIDE DEF part
    <3>. QED  BY <2>1, VariablesOfClauses DEF N
  <2>10. w \in V
    <3>. HIDE DEF V, part
    <3>. QED  BY <1>2, <2>3, <2>4, <2>7, <2>8
  <2>. QED  BY <1>10, <2>9, <2>10 DEF Detached
<1>11. AreComponents(G, clauses)
  <2>1. \A C \in G : \E i \in N : C = part(i)  OBVIOUS
  <2>. HIDE DEF part, G
  <2>. QED  BY <1>6, <1>8, <1>9, <1>10, <2>1 DEF AreComponents, N
<1>. QED  BY <1>1, <1>11
LEMMA GroupsAreFinite ==
  ASSUME NEW clauses \in Formulas
  PROVE  /\ IsFiniteSet(DOMAIN clauses) /\ Cardinality(DOMAIN clauses) = Len(clauses)
         /\ IsFiniteSet(Groups(clauses))
         /\ \A C \in Groups(clauses) : IsFiniteSet(C) /\ Cardinality(C) \in Nat \ {0}
<1>1. DOMAIN clauses = 1 .. Len(clauses) /\ Len(clauses) \in Nat  BY DEF Formulas
<1>2. IsFiniteSet(DOMAIN clauses) /\ Cardinality(DOMAIN clauses) = Len(clauses)
  <2>1. \A n \in Nat : IsFiniteSet(1 .. n) /\ Cardinality(1 .. n) = n  BY FS_Interval
  <2>. QED  BY <1>1, <2>1
<1>3. Groups(clauses) \in SUBSET (SUBSET DOMAIN clauses) /\ {} \notin Groups(clauses)
  BY GroupsAreComponents DEF AreComponents
<1>4. IsFiniteSet(Groups(clauses))  BY <1>2, <1>3, FS_SUBSET, FS_Subset
<1>5. \A C \in Groups(clauses) : IsFiniteSet(C) /\ Cardinality(C) \in Nat \ {0}
  BY <1>2, <1>3, FS_Subset, FS_CardinalityType, FS_EmptySet
<1>. QED  BY <1>2, <1>4, <1>5

\* The components are listed, each once.
LEMMA DetectedAreListed ==
  ASSUME NEW clauses \in Formulas, DetectComponents(clauses) # <<>>
  PROVE  Lists(DetectComponents(clauses), Groups(clauses))
<1>. DEFINE G == Groups(clauses)
            first(C) == FirstVar(clauses, C)
            Less(C, D) == \/ Cardinality(C) < Cardinality(D)
                          \/ Cardinality(C) = Cardinality(D) /\ first(C) < first(D)
            below == [D \in G |-> {C \in G : Less(C, D)}]
<1>1. DetectComponents(clauses)
        = [i \in 1 .. Cardinality(G) |-> CHOOSE D \in G : Cardinality({C \in G : Less(C, D)}) = i - 1]
  BY DEF DetectComponents, Ascending
<1>2. AreComponents(G, clauses)  BY GroupsAreComponents
<1>3. ASSUME NEW C \in G
      PROVE  /\ Cardinality(C) \in Nat
             /\ first(C) \in Nat
             /\ VarsOf(clauses, C) = {} => first(C) = NumVars + 1
             /\ VarsOf(clauses, C) # {} => first(C) \in VarsOf(clauses, C) /\ first(C) # NumVars + 1
  <2>1. Cardinality(C) \in Nat  BY GroupsAreFinite
  <2>2. VarsOf(clauses, C) \in SUBSET Vars  BY <1>2, VariablesOfClauses DEF AreComponents
  <2>3. CASE VarsOf(clauses, C) = {}  BY <2>1, <2>3, NumVarsAssumption DEF FirstVar
  <2>4. CASE VarsOf(clauses, C) # {}
    <3>1. first(C) = Min(VarsOf(clauses, C))  BY <2>4 DEF FirstVar
    <3>2. first(C) \in VarsOf(clauses, C)  BY <2>2, <2>4, <3>1, MinIsLeast
    <3>. HIDE DEF first
    <3>3. first(C) \in Vars  BY <2>2, <3>2
    <3>. QED  BY <2>1, <2>4, <3>2, <3>3, NumVarsAssumption DEF Vars
  <2>. QED  BY <2>3, <2>4
<1>. HIDE DEF first
<1>4. \A C, D \in G : first(C) = first(D) => C = D
  BY <1>2, <1>3 DEF AreComponents
<1>. HIDE DEF G
<1>5. Orders(below, G)
  <2>1. below \in [G -> SUBSET G]  OBVIOUS
  <2>2. \A D \in G : below[D] = {C \in G : Less(C, D)}  OBVIOUS
  <2>. HIDE DEF below
  <2>3. \A C \in G : C \notin below[C]  BY <1>3, <2>2
  <2>4. \A C, D \in G : C # D => C \in below[D] \/ D \in below[C]  BY <1>3, <1>4, <2>2
  <2>5. ASSUME NEW C \in G, NEW D \in G, C \in below[D], NEW E \in below[C]
        PROVE  E \in below[D]
    <3>1. E \in G /\ Less(E, C) /\ Less(C, D)  BY <2>2, <2>5
    <3>2. Less(E, D)  BY <1>3, <3>1
    <3>. HIDE DEF Less
    <3>. QED  BY <2>2, <3>1, <3>2
  <2>. QED  BY <2>1, <2>3, <2>4, <2>5 DEF Orders
<1>6. Lists([i \in 1 .. Cardinality(G) |-> CHOOSE D \in G : Cardinality(below[D]) = i - 1], G)
  <2>. HIDE DEF below
  <2>. QED  BY <1>5, GroupsAreFinite, RankListing DEF G
<1>7. \A i \in 1 .. Cardinality(G) :
        (CHOOSE D \in G : Cardinality({C \in G : Less(C, D)}) = i - 1)
          = (CHOOSE D \in G : Cardinality(below[D]) = i - 1)
  <2>1. \A D \in G : below[D] = {C \in G : Less(C, D)}  OBVIOUS
  <2>. HIDE DEF below, Less
  <2>. QED  BY <2>1, Zenon
<1>. HIDE DEF below, Less
<1>8. DetectComponents(clauses)
        = [i \in 1 .. Cardinality(G) |-> CHOOSE D \in G : Cardinality(below[D]) = i - 1]
  BY <1>1, <1>7, Zenon
<1>9. Lists(DetectComponents(clauses), G)  BY <1>6, <1>8
<1>. QED  BY <1>9 DEF G
-----------------------------------------------------------------------------
(***************************************************************************)
(* A component in its own numbering.                                       *)
(***************************************************************************)
LocalLits(n) == (1 .. n) \cup {-v : v \in 1 .. n}

\* What a build sees of a component over the variables V.
IsView(view, V) ==
  /\ view.size = Cardinality(V)
  /\ Lists(view.outer, V)
  /\ \A c \in DOMAIN view.clauses : c \in SUBSET LocalLits(view.size)
  /\ view.show \in {None} \cup SUBSET (1 .. view.size)

LEMMA LocalViewIsView ==
  ASSUME NEW r \in Requests, NEW C \in SUBSET DOMAIN r.clauses
  PROVE  /\ IsView(LocalView(r, C), VarsOf(r.clauses, C))
         /\ IsFiniteSet(VarsOf(r.clauses, C)) /\ Cardinality(VarsOf(r.clauses, C)) \in 0 .. NumVars
<1>. DEFINE V == VarsOf(r.clauses, C)
            n == Cardinality(V)
            outer == LocalToOuter(r.clauses, C)
            local == [v \in ToSet(outer) |-> CHOOSE i \in DOMAIN outer : outer[i] = v]
            named == [i \in C |-> Renamed(r.clauses[i], local)]
            view == LocalView(r, C)
<1>1. r.clauses \in Formulas /\ r.show \in {None} \cup SUBSET Vars
  BY ComponentAssumption DEF Formulas
<1>2. V \in SUBSET Vars /\ \A i \in C : r.clauses[i] \in SUBSET Lits /\ ClauseVars(r.clauses[i]) \in SUBSET V
  BY <1>1, VariablesOfClauses
<1>3. IsFiniteSet(V) /\ n \in 0 .. NumVars /\ Lists(outer, V)
  <2>0. IsFiniteSet(Vars) /\ Cardinality(Vars) = NumVars
    <3>1. \A m \in Nat : IsFiniteSet(1 .. m) /\ Cardinality(1 .. m) = m  BY FS_Interval
    <3>. QED  BY <3>1, NumVarsAssumption DEF Vars
  <2>1. NumVars \in Nat /\ V \in SUBSET (1 .. NumVars)  BY <1>2, NumVarsAssumption DEF Vars
  <2>2. IsFiniteSet(V) /\ Lists(Ascending(V, <), V)
    <3>. HIDE DEF V
    <3>. QED  BY <2>1, AscendingLists
  <2>3. outer = Ascending(V, <)  BY DEF LocalToOuter
  <2>4. n \in Nat /\ n <= NumVars
    <3>. HIDE DEF V
    <3>. QED  BY <1>2, <2>0, FS_Subset, FS_CardinalityType
  <2>. HIDE DEF V, n, outer
  <2>5. n \in 0 .. NumVars  BY <2>1, <2>4
  <2>. QED  BY <2>2, <2>3, <2>5, Zenon
<1>4. /\ view.size = Len(outer) /\ view.outer = outer
      /\ DOMAIN view.clauses = {named[i] : i \in C}
      /\ view.show = IF r.show = None THEN None ELSE {local[v] : v \in r.show \cap ToSet(outer)}
  BY DEF LocalView
<1>. HIDE DEF V, outer, view
<1>5. DOMAIN outer = 1 .. n /\ Len(outer) = n /\ ToSet(outer) = V
  <2>1. outer \in [1 .. n -> V]  BY <1>3 DEF Lists
  <2>2. DOMAIN outer = 1 .. n /\ Len(outer) = n  BY <1>3, <2>1
  <2>. QED  BY <1>3, <2>2 DEF Lists, ToSet
<1>6. local \in [V -> 1 .. n]
  <2>1. \A v \in V : \E i \in DOMAIN outer : outer[i] = v  BY <1>3, <1>5 DEF Lists
  <2>. QED  BY <1>5, <2>1
<1>. HIDE DEF local
<1>7. ASSUME NEW i \in C
      PROVE  named[i] \in SUBSET LocalLits(n)
  <2>1. ASSUME NEW l \in r.clauses[i]
        PROVE  (IF l > 0 THEN local[l] ELSE -local[-l]) \in LocalLits(n)
    <3>1. l \in Int /\ VarOf(l) \in V  BY <1>2, <2>1, VariablesOfLiterals DEF ClauseVars
    <3>2. CASE l > 0
      <4>1. l \in V  BY <3>1, <3>2 DEF VarOf
      <4>. QED  BY <1>6, <3>2, <4>1 DEF LocalLits
    <3>3. CASE ~(l > 0)
      <4>1. -l \in V  BY <3>1, <3>3 DEF VarOf
      <4>2. local[-l] \in 1 .. n  BY <1>6, <4>1
      <4>. QED  BY <3>3, <4>2 DEF LocalLits
    <3>. QED  BY <3>2, <3>3
  <2>. QED  BY <2>1 DEF Renamed
<1>. HIDE DEF named
<1>8. \A c \in DOMAIN view.clauses : c \in SUBSET LocalLits(n)  BY <1>4, <1>7
<1>9. view.show \in {None} \cup SUBSET (1 .. n)  BY <1>4, <1>5, <1>6
<1>. HIDE DEF n
<1>10. IsView(view, V)  BY <1>3, <1>4, <1>5, <1>8, <1>9 DEF IsView, n
<1>. QED  BY <1>3, <1>10 DEF V, n, view

\* The components of a request, in build order.
SplitOf(r) ==
  [i \in DOMAIN DetectComponents(r.clauses) |->
     [clauses |-> DetectComponents(r.clauses)[i], view |-> LocalView(r, DetectComponents(r.clauses)[i])]]

LEMMA SplitIsListed ==
  ASSUME NEW r \in Requests, DetectComponents(r.clauses) # <<>>
  PROVE  LET n == Cardinality(Groups(r.clauses))
         IN  /\ n \in Nat /\ DOMAIN SplitOf(r) = 1 .. n /\ Len(SplitOf(r)) = n
             /\ \A i \in 1 .. n : SplitOf(r)[i].clauses \in Groups(r.clauses)
             /\ \A C \in Groups(r.clauses) : \E i \in 1 .. n : SplitOf(r)[i].clauses = C
             /\ \A i, j \in 1 .. n : SplitOf(r)[i].clauses = SplitOf(r)[j].clauses => i = j
             /\ \A i \in 1 .. n : /\ SplitOf(r)[i].view = LocalView(r, SplitOf(r)[i].clauses)
                                  /\ SplitOf(r)[i].clauses \in SUBSET DOMAIN r.clauses
<1>. DEFINE n == Cardinality(Groups(r.clauses))
            found == DetectComponents(r.clauses)
<1>1. r.clauses \in Formulas  BY ComponentAssumption DEF Formulas
<1>2. n \in Nat  BY <1>1, GroupsAreFinite, FS_CardinalityType
<1>3. Lists(found, Groups(r.clauses))  BY <1>1, DetectedAreListed
<1>4. Groups(r.clauses) \subseteq SUBSET DOMAIN r.clauses
  BY <1>1, GroupsAreComponents DEF AreComponents
<1>. HIDE DEF found
<1>5. found \in [1 .. n -> Groups(r.clauses)]  BY <1>3 DEF Lists
<1>. HIDE DEF n
<1>6. SplitOf(r) = [i \in 1 .. n |-> [clauses |-> found[i], view |-> LocalView(r, found[i])]]
  BY <1>5 DEF SplitOf, found
<1>7. DOMAIN SplitOf(r) = 1 .. n /\ Len(SplitOf(r)) = n
  BY <1>2, <1>6
<1>8. \A i \in 1 .. n : SplitOf(r)[i].clauses = found[i] /\ SplitOf(r)[i].view = LocalView(r, found[i])
  BY <1>6
<1>. QED  BY <1>2, <1>3, <1>4, <1>5, <1>7, <1>8 DEF Lists, n

-----------------------------------------------------------------------------
(***************************************************************************)
(* The split is into independent components.                               *)
(***************************************************************************)

\* What the components are, in every state.
Splitting ==
  /\ req \in Requests
  /\ comps # <<>> => DetectComponents(req.clauses) # <<>> /\ comps = SplitOf(req)
  /\ phase = "splitting" => comps = <<>>
  /\ phase = "building" => comps # <<>>

LEMMA NextActions ==
  ASSUME Next
  PROVE  \/ Split \/ BuildWhole \/ EmptyPanics \/ Graft \/ Returned
         \/ /\ Buildable
            /\ \E to \in Numberings(ViewHere) :
                 \/ Reuse(Key(ViewHere, to), to) \/ BuildTiny(Key(ViewHere, to), to)
                 \/ BuildComponent(Key(ViewHere, to), to) \/ ComponentFails(Key(ViewHere, to))
  BY DEF Next, BuildNext

LEMMA SplittingSteps == (Init => Splitting) /\ (Splitting /\ [Next]_vars => Splitting')
<1>1. Init => Splitting
  BY DEF Init, Splitting
<1>2. Splitting /\ [Next]_vars => Splitting'
  <2>. SUFFICES ASSUME Splitting, [Next]_vars PROVE Splitting'  OBVIOUS
  <2>1. CASE Split
    <3>1. comps' = SplitOf(req) /\ DetectComponents(req.clauses) # <<>> /\ phase' = "building" /\ req' = req
      BY <2>1 DEF Split, SplitOf
    <3>2. comps' # <<>>
      <4>1. req \in Requests  BY DEF Splitting
      <4>2. DOMAIN SplitOf(req) = DOMAIN DetectComponents(req.clauses)  BY DEF SplitOf
      <4>3. DOMAIN DetectComponents(req.clauses) # {}
        <5>1. req.clauses \in Formulas  BY <4>1, ComponentAssumption DEF Formulas
        <5>2. Lists(DetectComponents(req.clauses), Groups(req.clauses))  BY <3>1, <5>1, DetectedAreListed
        <5>3. DetectComponents(req.clauses) \in [1 .. Cardinality(Groups(req.clauses)) -> Groups(req.clauses)]
          BY <5>2 DEF Lists
        <5>4. Cardinality(Groups(req.clauses)) \in Nat  BY <5>1, GroupsAreFinite, FS_CardinalityType
        <5>5. DetectComponents(req.clauses) \in Seq(Groups(req.clauses))  BY <5>3, <5>4
        <5>6. \A S : \A s \in Seq(S) : s # <<>> => 1 \in DOMAIN s
          <6>1. \A S : \A s \in Seq(S) : s # <<>> => Len(s) \in Nat \ {0}  BY EmptySeq
          <6>. QED  BY <6>1
        <5>. QED  BY <3>1, <5>5, <5>6
      <4>. QED  BY <3>1, <4>2, <4>3
    <3>. QED  BY <3>1, <3>2 DEF Splitting
  <2>2. CASE BuildWhole  BY <2>2 DEF BuildWhole, Splitting
  <2>3. CASE EmptyPanics  BY <2>3 DEF EmptyPanics, Splitting
  <2>4. CASE Graft  BY <2>4 DEF Graft, Splitting
  <2>5. CASE Returned \/ UNCHANGED vars  BY <2>5 DEF Returned, vars, Splitting
  <2>6. ASSUME Buildable, NEW key, NEW to,
               Reuse(key, to) \/ BuildTiny(key, to) \/ BuildComponent(key, to) \/ ComponentFails(key)
        PROVE  Splitting'
    <3>1. UNCHANGED <<req, comps>> /\ (phase' = phase \/ phase' = "failed")
      BY <2>6 DEF Reuse, BuildTiny, BuildComponent, ComponentFails, Takes
    <3>. QED  BY <3>1 DEF Splitting
  <2>. QED  BY <2>1, <2>2, <2>3, <2>4, <2>5, <2>6, NextActions
<1>. QED  BY <1>1, <1>2

\* A formula is split into components that partition its clauses, share no
\* variable and cannot be split further, whatever the order of its clauses.
THEOREM SplitIsAlwaysIndependent == Spec => []SplitIsIndependent
<1>1. Splitting => SplitIsIndependent
  <2>. SUFFICES ASSUME Splitting, comps # <<>> PROVE SplitIsIndependent
    BY DEF SplitIsIndependent
  <2>. DEFINE F == req.clauses
              n == Cardinality(Groups(F))
              group(i) == comps[i].clauses
  <2>1. req \in Requests /\ DetectComponents(F) # <<>> /\ comps = SplitOf(req)  BY DEF Splitting
  <2>2. F \in Formulas  BY <2>1, ComponentAssumption DEF Formulas
  <2>3. /\ n \in Nat /\ DOMAIN comps = 1 .. n
        /\ \A i \in 1 .. n : group(i) \in Groups(F)
        /\ \A C \in Groups(F) : \E i \in 1 .. n : group(i) = C
        /\ \A i, j \in 1 .. n : group(i) = group(j) => i = j
        /\ \A i \in 1 .. n : comps[i].view = LocalView(req, group(i)) /\ group(i) \in SUBSET DOMAIN F
    BY ZenonT(40), <2>1, SplitIsListed
  <2>4. AreComponents(Groups(F), F)  BY <2>2, GroupsAreComponents
  <2>. HIDE DEF F, n, group
  <2>5. UNION {group(i) : i \in 1 .. n} = DOMAIN F
    <3>1. {group(i) : i \in 1 .. n} = Groups(F)  BY <2>3
    <3>. QED  BY <2>4, <3>1 DEF AreComponents
  <2>6. ASSUME NEW i \in 1 .. n, NEW j \in 1 .. n, i # j
        PROVE  group(i) \cap group(j) = {} /\ Detached(F, group(i), DOMAIN F)
    <3>1. group(i) \cap group(j) = {}  BY <2>3, <2>4, <2>6 DEF AreComponents
    <3>2. ASSUME NEW v \in VarsOf(F, group(i)), v \in VarsOf(F, DOMAIN F \ group(i))
          PROVE  FALSE
      <4>1. PICK k \in DOMAIN F \ group(i) : v \in ClauseVars(F[k])
        BY <2>2, <3>2, VariablesOfClauses
      <4>2. PICK C \in Groups(F) : k \in C  BY <2>4 DEF AreComponents
      <4>3. v \in VarsOf(F, C)  BY <2>2, <2>4, <4>1, <4>2, VariablesOfClauses DEF AreComponents
      <4>. QED  BY <2>3, <2>4, <3>2, <4>1, <4>2, <4>3 DEF AreComponents
    <3>. QED  BY <3>1, <3>2 DEF Detached
  <2>7. ASSUME NEW i \in 1 .. n, comps[i].view.size > 0
        PROVE  \A D \in (SUBSET group(i)) \ {{}, group(i)} : ~Detached(F, D, group(i))
    <3>1. comps[i].view.size = Cardinality(VarsOf(F, group(i)))
      BY <2>1, <2>3, LocalViewIsView DEF IsView, F
    <3>2. VarsOf(F, group(i)) # {}  BY <2>7, <3>1, FS_EmptySet
    <3>. QED  BY <2>3, <2>4, <3>2 DEF AreComponents
  <2>. QED  BY <2>3, <2>5, <2>6, <2>7 DEF SplitIsIndependent, F, group
<1>2. Spec => []Splitting
  <2>1. (Init => Splitting) /\ (Splitting /\ [Next]_vars => Splitting')  BY SplittingSteps
  <2>. QED  BY <2>1, PTL DEF Spec
<1>. QED  BY <1>1, <1>2, PTL
-----------------------------------------------------------------------------
(***************************************************************************)
(* The shares of the deadline.                                             *)
(***************************************************************************)
LEMMA Divide ==
  ASSUME NEW a \in Nat, NEW c \in Nat \ {0}
  PROVE  a \div c \in Nat /\ (a \div c) * c <= a /\ a < ((a \div c) + 1) * c
OBVIOUS

LEMMA ScaleUp ==
  ASSUME NEW x \in Int, NEW y \in Int, NEW c \in Nat, x <= y
  PROVE  x * c <= y * c
OBVIOUS

LEMMA ScaleDown ==
  ASSUME NEW x \in Int, NEW y \in Int, NEW c \in Nat \ {0}, x * c <= y * c
  PROVE  x <= y
<1>. SUFFICES ASSUME y + 1 <= x PROVE FALSE  OBVIOUS
<1>1. (y + 1) * c <= x * c  BY ScaleUp
<1>2. (y + 1) * c = y * c + c  OBVIOUS
<1>. QED  BY <1>1, <1>2

LEMMA ScaleBelow ==
  ASSUME NEW x \in Int, NEW y \in Int, NEW c \in Nat \ {0}, x * c < (y + 1) * c
  PROVE  x <= y
<1>. SUFFICES ASSUME y + 1 <= x PROVE FALSE  OBVIOUS
<1>1. (y + 1) * c <= x * c  BY ScaleUp
<1>. QED  BY <1>1

\* The share of w in c: never more than all.
LEMMA ShareIsPart ==
  ASSUME NEW L \in Nat, NEW w \in Nat, NEW c \in Nat \ {0}, w <= c
  PROVE  /\ (L * w) \div c \in 0 .. L
         /\ w = c => (L * w) \div c = L
<1>. DEFINE q == (L * w) \div c
<1>1. L * w \in Nat /\ q \in Nat /\ q * c <= L * w /\ L * w < (q + 1) * c
  <2>1. L * w \in Nat  OBVIOUS
  <2>. QED  BY <2>1, Divide
<1>. HIDE DEF q
<1>2. w * L <= c * L  BY ScaleUp
<1>3. q * c <= L * c  BY <1>1, <1>2
<1>4. q <= L  BY <1>1, <1>3, ScaleDown
<1>5. w = c => L * c < (q + 1) * c  BY <1>1
<1>6. w = c => L <= q  BY <1>1, <1>5, ScaleBelow
<1>. QED  BY <1>1, <1>4, <1>6 DEF q

\* While what is left of D is in proportion to the clauses c left of T, so is the
\* share of w, and so is what is left after it.
LEMMA ShareKeepsPace ==
  ASSUME NEW D \in Nat, NEW T \in Nat \ {0}, NEW L \in Nat, NEW w \in Nat, NEW c \in Nat \ {0}, w <= c,
         D * c <= L * T
  PROVE  /\ (D * w) \div T <= (L * w) \div c
         /\ D * (c - w) <= (L - (L * w) \div c) * T
<1>. DEFINE q == (L * w) \div c
            p == (D * w) \div T
<1>1. q \in Nat /\ q * c <= L * w /\ L * w < (q + 1) * c
  <2>1. L * w \in Nat  OBVIOUS
  <2>. QED  BY <2>1, Divide
<1>2. p \in Nat /\ p * T <= D * w
  <2>1. D * w \in Nat  OBVIOUS
  <2>. QED  BY <2>1, Divide
<1>. HIDE DEF p, q
<1>3. p <= q
  <2>0. p * c \in Int /\ L * w \in Int  BY <1>2
  <2>1. (p * T) * c <= (D * w) * c  BY <1>2, ScaleUp, p * T \in Int, D * w \in Int
  <2>2. (D * c) * w <= (L * T) * w  BY ScaleUp, D * c \in Int, L * T \in Int
  <2>3. (p * c) * T = (p * T) * c /\ (D * w) * c = (D * c) * w /\ (L * T) * w = (L * w) * T
    BY <1>2
  <2>4. (p * c) * T <= (L * w) * T  BY <2>1, <2>2, <2>3, <1>2
  <2>5. p * c <= L * w  BY <2>4, <2>0, ScaleDown
  <2>6. p * c < (q + 1) * c  BY <1>1, <1>2, <2>5
  <2>. QED  BY <1>1, <1>2, <2>6, ScaleBelow
<1>4. D * (c - w) <= (L - q) * T
  <2>. DEFINE u == c - w
              m == L - q
  <2>1. u \in Nat /\ m \in Int /\ u + w = c /\ m + q = L  BY <1>1
  <2>2. L * u <= m * c
    <3>1. m * c = L * c - q * c  BY <1>1
    <3>2. L * u = L * c - L * w  OBVIOUS
    <3>. HIDE DEF m, u
    <3>. QED  BY <1>1, <2>1, <3>1, <3>2
  <2>. HIDE DEF u, m
  <2>3. (L * u) * T <= (m * c) * T  BY <2>1, <2>2, ScaleUp, L * u \in Int, m * c \in Int
  <2>4. (D * c) * u <= (L * T) * u  BY <2>1, ScaleUp, D * c \in Int, L * T \in Int
  <2>5. (D * u) * c = (D * c) * u /\ (L * T) * u = (L * u) * T /\ (m * c) * T = (m * T) * c
    BY <2>1
  <2>6. (D * u) * c <= (m * T) * c  BY <2>1, <2>3, <2>4, <2>5
  <2>7. D * u <= m * T  BY <2>1, <2>6, ScaleDown, D * u \in Int, m * T \in Int
  <2>. QED  BY <2>7 DEF u, m
<1>. QED  BY <1>3, <1>4 DEF p, q
-----------------------------------------------------------------------------
(***************************************************************************)
(* Renamings: numberings, leaf orders, and what they do to literals.       *)
(***************************************************************************)
LEMMA RenamingIsOnto ==
  ASSUME NEW n \in Nat, NEW p \in Renamings(n)
  PROVE  /\ p \in [1 .. n -> 1 .. n]
         /\ \A x, y \in 1 .. n : p[x] = p[y] => x = y
         /\ \A y \in 1 .. n : \E x \in 1 .. n : p[x] = y
<1>1. p \in [1 .. n -> 1 .. n] /\ \A x, y \in 1 .. n : p[x] = p[y] => x = y
  BY DEF Renamings, IsInjective
<1>2. p \in Injection(1 .. n, 1 .. n)  BY <1>1 DEF Injection, IsInjective
<1>3. IsFiniteSet(1 .. n)
  <2>1. \A m \in Nat : IsFiniteSet(1 .. m)  BY FS_Interval
  <2>. QED  BY <2>1
<1>4. p \in Surjection(1 .. n, 1 .. n)  BY <1>2, <1>3, FS_Injection
<1>. QED  BY <1>1, <1>4 DEF Surjection

LEMMA IsRenaming ==
  ASSUME NEW n \in Nat, NEW p \in [1 .. n -> 1 .. n], \A x, y \in 1 .. n : p[x] = p[y] => x = y
  PROVE  p \in Renamings(n)
BY DEF Renamings, IsInjective

LEMMA NumberingsRename ==
  ASSUME NEW view, view.size \in Nat, NEW to \in Numberings(view)
  PROVE  to \in Renamings(view.size)
<1>. DEFINE n == view.size
<1>1. PICK k \in 0 .. n - 1 : to = [v \in 1 .. n |-> 1 + ((v - 1 + k) % n)]  BY DEF Numberings
<1>. HIDE DEF n
<1>2. n \in Nat /\ n > 0  BY <1>1 DEF n
<1>3. ASSUME NEW v \in 1 .. n
      PROVE  to[v] = IF v + k <= n THEN v + k ELSE v + k - n
  <2>1. CASE v + k <= n
    <3>1. v - 1 + k \in 0 .. n - 1  BY <1>2, <2>1
    <3>2. (v - 1 + k) % n = v - 1 + k  BY <1>2, <3>1
    <3>. QED  BY <1>1, <2>1, <3>2
  <2>2. CASE ~(v + k <= n)
    <3>1. v - 1 + k \in n .. 2 * n - 1  BY <1>2, <2>2
    <3>2. (v - 1 + k) % n = v - 1 + k - n  BY <1>2, <3>1
    <3>3. to[v] = 1 + ((v - 1 + k) % n)  BY <1>1
    <3>4. to[v] = 1 + (v - 1 + k - n)  BY <3>2, <3>3
    <3>. QED  BY <1>2, <2>2, <3>4
  <2>. QED  BY <2>1, <2>2
<1>4. \A v \in 1 .. n : to[v] \in 1 .. n  BY <1>2, <1>3
<1>5. to \in [1 .. n -> 1 .. n]  BY <1>1, <1>4
<1>6. \A x, y \in 1 .. n : to[x] = to[y] => x = y  BY <1>2, <1>3
<1>. QED  BY <1>2, <1>5, <1>6, IsRenaming DEF n

LEMMA TreesRename ==
  ASSUME NEW n \in Nat, NEW tree \in Trees(n)
  PROVE  tree \in Renamings(n)
<1>1. CASE tree = [i \in 1 .. n |-> i]  BY <1>1, IsRenaming
<1>2. CASE tree = [i \in 1 .. n |-> n + 1 - i]
  <2>1. tree \in [1 .. n -> 1 .. n] /\ \A x, y \in 1 .. n : tree[x] = tree[y] => x = y  BY <1>2
  <2>. QED  BY <2>1, IsRenaming
<1>. QED  BY <1>1, <1>2 DEF Trees

\* The literal l under the renaming p.
Name(l, p) == IF l > 0 THEN p[l] ELSE -p[-l]

LEMMA LiteralsRename ==
  ASSUME NEW n \in Nat, NEW p \in Renamings(n)
  PROVE  /\ \A l \in LocalLits(n) : Name(l, p) \in LocalLits(n) /\ (Name(l, p) > 0 <=> l > 0)
         /\ \A l, m \in LocalLits(n) : Name(l, p) = Name(m, p) => l = m
<1>1. /\ p \in [1 .. n -> 1 .. n]
      /\ \A x, y \in 1 .. n : p[x] = p[y] => x = y
  BY RenamingIsOnto
<1>2. ASSUME NEW l \in LocalLits(n)
      PROVE  \/ l > 0 /\ l \in 1 .. n /\ Name(l, p) = p[l] /\ p[l] \in 1 .. n
             \/ ~(l > 0) /\ l \in Int /\ -l \in 1 .. n /\ Name(l, p) = -p[-l] /\ p[-l] \in 1 .. n
  <2>1. CASE l \in 1 .. n  BY <1>1, <2>1 DEF Name
  <2>2. CASE l \in {-v : v \in 1 .. n}
    <3>1. PICK v \in 1 .. n : l = -v  BY <2>2
    <3>2. -l = v /\ ~(l > 0) /\ l \in Int  BY <3>1
    <3>. QED  BY <1>1, <3>2 DEF Name
  <2>. QED  BY <2>1, <2>2 DEF LocalLits
<1>3. ASSUME NEW l \in LocalLits(n)
      PROVE  Name(l, p) \in LocalLits(n) /\ (Name(l, p) > 0 <=> l > 0)
  <2>1. CASE l > 0 /\ Name(l, p) = p[l] /\ p[l] \in 1 .. n  BY <2>1 DEF LocalLits
  <2>2. CASE ~(l > 0) /\ Name(l, p) = -p[-l] /\ p[-l] \in 1 .. n
    <3>1. -p[-l] \in LocalLits(n)  BY <2>2 DEF LocalLits
    <3>2. ~(-p[-l] > 0)  BY <2>2
    <3>. QED  BY <2>2, <3>1, <3>2
  <2>. QED  BY <1>2, <2>1, <2>2
<1>4. ASSUME NEW l \in LocalLits(n), NEW m \in LocalLits(n), Name(l, p) = Name(m, p)
      PROVE  l = m
  <2>1. l > 0 <=> m > 0  BY <1>3, <1>4
  <2>2. CASE l > 0  BY <1>1, <1>2, <1>4, <2>1, <2>2
  <2>3. CASE ~(l > 0)
    <3>1. p[-l] = p[-m] /\ -l \in 1 .. n /\ -m \in 1 .. n /\ l \in Int /\ m \in Int
      BY <1>2, <1>4, <2>1, <2>3
    <3>2. -l = -m  BY <1>1, <3>1
    <3>. QED  BY <3>1, <3>2
  <2>. QED  BY <2>2, <2>3
<1>. QED  BY <1>3, <1>4

LEMMA ClausesRename ==
  ASSUME NEW n \in Nat, NEW p \in Renamings(n)
  PROVE  /\ \A c \in SUBSET LocalLits(n) : Renamed(c, p) = {Name(l, p) : l \in c}
         /\ \A c \in SUBSET LocalLits(n) : Renamed(c, p) \in SUBSET LocalLits(n)
         /\ \A c, d \in SUBSET LocalLits(n) : Renamed(c, p) = Renamed(d, p) => c = d
<1>1. \A c : Renamed(c, p) = {Name(l, p) : l \in c}  BY DEF Renamed, Name
<1>2. /\ \A l \in LocalLits(n) : Name(l, p) \in LocalLits(n)
      /\ \A l, m \in LocalLits(n) : Name(l, p) = Name(m, p) => l = m
  BY LiteralsRename
<1>3. ASSUME NEW c \in SUBSET LocalLits(n), NEW d \in SUBSET LocalLits(n), Renamed(c, p) = Renamed(d, p)
      PROVE  c \subseteq d
  <2>1. ASSUME NEW l \in c PROVE l \in d
    <3>1. Name(l, p) \in Renamed(d, p)  BY <1>1, <1>3
    <3>2. PICK m \in d : Name(m, p) = Name(l, p)  BY <1>1, <3>1
    <3>. QED  BY <1>2, <3>2
  <2>. QED  BY <2>1
<1>4. \A c, d \in SUBSET LocalLits(n) : Renamed(c, p) = Renamed(d, p) => c = d
  BY <1>3
<1>5. \A c \in SUBSET LocalLits(n) : Renamed(c, p) \in SUBSET LocalLits(n)  BY <1>1, <1>2
<1>. QED  BY <1>1, <1>4, <1>5

\* From one numbering to another: what `a' calls as `b' does.
Across(n, a, b) == [v \in 1 .. n |-> CHOOSE u \in 1 .. n : b[u] = a[v]]

LEMMA AcrossRenames ==
  ASSUME NEW n \in Nat, NEW a \in Renamings(n), NEW b \in Renamings(n)
  PROVE  /\ Across(n, a, b) \in Renamings(n)
         /\ \A v \in 1 .. n : b[Across(n, a, b)[v]] = a[v]
         /\ \A c \in SUBSET LocalLits(n) : Renamed(Renamed(c, Across(n, a, b)), b) = Renamed(c, a)
<1>. DEFINE f == Across(n, a, b)
<1>1. /\ a \in [1 .. n -> 1 .. n] /\ b \in [1 .. n -> 1 .. n]
      /\ \A x, y \in 1 .. n : a[x] = a[y] => x = y
      /\ \A y \in 1 .. n : \E x \in 1 .. n : b[x] = y
  BY RenamingIsOnto
<1>2. \A v \in 1 .. n : f[v] \in 1 .. n /\ b[f[v]] = a[v]  BY <1>1 DEF Across
<1>3. f \in [1 .. n -> 1 .. n]
  <2>1. f = [v \in 1 .. n |-> f[v]]  BY DEF Across
  <2>. HIDE DEF f
  <2>. QED  BY <1>2, <2>1
<1>. HIDE DEF f
<1>4. f \in Renamings(n)
  <2>1. ASSUME NEW x \in 1 .. n, NEW y \in 1 .. n, f[x] = f[y]
        PROVE  x = y
    <3>1. a[x] = a[y]  BY <1>2, <2>1
    <3>. QED  BY <1>1, <3>1
  <2>. QED  BY <1>3, <2>1, IsRenaming
<1>5. ASSUME NEW l \in LocalLits(n)
      PROVE  Name(Name(l, f), b) = Name(l, a)
  <2>1. CASE l \in 1 .. n
    <3>1. Name(l, f) = f[l] /\ f[l] \in 1 .. n /\ Name(l, a) = a[l]  BY <1>2, <2>1 DEF Name
    <3>2. Name(f[l], b) = b[f[l]]  BY <3>1 DEF Name
    <3>. QED  BY <1>2, <2>1, <3>1, <3>2
  <2>2. CASE l \in {-v : v \in 1 .. n}
    <3>1. PICK v \in 1 .. n : l = -v  BY <2>2
    <3>2. ~(l > 0) /\ -l = v  BY <3>1
    <3>3. Name(l, f) = -f[v] /\ f[v] \in 1 .. n /\ Name(l, a) = -a[v]  BY <1>2, <3>2 DEF Name
    <3>4. ~(-f[v] > 0) /\ -(-f[v]) = f[v]  BY <3>3
    <3>5. Name(-f[v], b) = -b[f[v]]  BY <3>4 DEF Name
    <3>. QED  BY <1>2, <3>3, <3>5
  <2>. QED  BY <2>1, <2>2 DEF LocalLits
<1>6. ASSUME NEW c \in SUBSET LocalLits(n)
      PROVE  Renamed(Renamed(c, f), b) = Renamed(c, a)
  <2>1. /\ Renamed(c, f) = {Name(l, f) : l \in c} /\ Renamed(c, f) \in SUBSET LocalLits(n)
        /\ Renamed(c, a) = {Name(l, a) : l \in c}
    BY <1>4, ClausesRename
  <2>2. Renamed(Renamed(c, f), b) = {Name(m, b) : m \in Renamed(c, f)}  BY <2>1, ClausesRename
  <2>3. {Name(m, b) : m \in Renamed(c, f)} = {Name(Name(l, f), b) : l \in c}  BY <2>1
  <2>. QED  BY <1>5, <2>1, <2>2, <2>3
<1>. QED  BY <1>2, <1>4, <1>6 DEF f
-----------------------------------------------------------------------------
(***************************************************************************)
(* The cache: equal keys are components equal up to a renaming.            *)
(***************************************************************************)

\* What the key of a component under a numbering holds.
IsKey(key, view, to) ==
  /\ key.size = view.size
  /\ key.show = IF view.show = None \/ IsTiny(view) THEN None ELSE {to[v] : v \in view.show}
  /\ DOMAIN key.clauses = {Renamed(c, to) : c \in DOMAIN view.clauses}
  /\ \A c \in DOMAIN view.clauses : key.clauses[Renamed(c, to)] = view.clauses[c]

LEMMA KeyHolds ==
  ASSUME NEW view, NEW V, IsView(view, V), view.size \in Nat, NEW to \in Renamings(view.size)
  PROVE  IsKey(Key(view, to), view, to)
<1>. DEFINE at(d) == CHOOSE c \in DOMAIN view.clauses : Renamed(c, to) = d
            counts == [d \in {Renamed(c, to) : c \in DOMAIN view.clauses} |-> view.clauses[at(d)]]
            show == IF view.show = None \/ IsTiny(view) THEN None ELSE {to[v] : v \in view.show}
<1>1. Key(view, to) = [size |-> view.size, show |-> show, clauses |-> counts]  BY DEF Key
<1>2. ASSUME NEW c \in DOMAIN view.clauses
      PROVE  counts[Renamed(c, to)] = view.clauses[c]
  <2>1. at(Renamed(c, to)) \in DOMAIN view.clauses /\ Renamed(at(Renamed(c, to)), to) = Renamed(c, to)
    OBVIOUS
  <2>. HIDE DEF at
  <2>2. at(Renamed(c, to)) = c  BY <2>1, ClausesRename DEF IsView
  <2>. QED  BY <2>2
<1>3. DOMAIN counts = {Renamed(c, to) : c \in DOMAIN view.clauses}  OBVIOUS
<1>. HIDE DEF counts, show
<1>. QED  BY <1>1, <1>2, <1>3 DEF IsKey, show

\* The tree is `built' under a renaming that makes the component a the component b.
SameTree(tree, built, a, b) ==
  /\ a.size = b.size /\ tree \in Renamings(b.size)
  /\ \E f \in Renamings(b.size) :
       Isomorphism(f, a, b) /\ tree = [k \in DOMAIN built |-> f[built[k]]]

\* The component b has the key of a, so a's tree is b's under one renaming.
LEMMA ReuseFits ==
  ASSUME NEW a, NEW b, NEW V, NEW W, IsView(a, V), IsView(b, W), a.size \in 0 .. NumVars, b.size \in Nat,
         NEW ta \in Renamings(a.size), NEW tb \in Renamings(b.size), NEW tree \in Renamings(a.size),
         Key(a, ta) = Key(b, tb)
  PROVE  SameTree(ToLocal(ToCanonical(tree, ta), tb), tree, a, b)
<1>. DEFINE n == a.size
            f == Across(n, ta, tb)
<1>0. n \in Nat /\ (1 .. n) \subseteq Vars /\ a.size = n  BY NumVarsAssumption DEF Vars
<1>1. /\ \A c \in DOMAIN a.clauses : c \in SUBSET LocalLits(n)
      /\ \A c \in DOMAIN b.clauses : c \in SUBSET LocalLits(b.size)
      /\ a.show \in {None} \cup SUBSET (1 .. n) /\ b.show \in {None} \cup SUBSET (1 .. b.size)
  BY DEF IsView
<1>. DEFINE key == Key(b, tb)
<1>2. IsKey(key, a, ta) /\ IsKey(key, b, tb)
  <2>1. a.size \in Nat  BY <1>0
  <2>2. IsKey(Key(a, ta), a, ta) /\ IsKey(Key(b, tb), b, tb)  BY <2>1, KeyHolds
  <2>. QED  BY <2>2
<1>. HIDE DEF key
<1>3. b.size = n  BY <1>2 DEF IsKey
<1>4. /\ ta \in [1 .. n -> 1 .. n] /\ tb \in [1 .. n -> 1 .. n]
      /\ \A x, y \in 1 .. n : tb[x] = tb[y] => x = y
      /\ tree \in [1 .. n -> 1 .. n] /\ \A x, y \in 1 .. n : tree[x] = tree[y] => x = y
  <2>1. ta \in Renamings(n) /\ tb \in Renamings(n) /\ tree \in Renamings(n)  BY <1>3
  <2>. HIDE DEF n
  <2>2. n \in Nat  BY <1>0
  <2>3. \A p \in Renamings(n) : /\ p \in [1 .. n -> 1 .. n]
                               /\ \A x, y \in 1 .. n : p[x] = p[y] => x = y
    BY <2>2, RenamingIsOnto
  <2>. QED  BY <2>1, <2>3
<1>5. /\ f \in Renamings(n) /\ \A v \in 1 .. n : tb[f[v]] = ta[v]
      /\ \A c \in SUBSET LocalLits(n) : Renamed(Renamed(c, f), tb) = Renamed(c, ta)
  BY <1>0, <1>3, AcrossRenames
<1>6. /\ f \in [1 .. n -> 1 .. n] /\ \A x, y \in 1 .. n : f[x] = f[y] => x = y
  BY <1>0, <1>5, RenamingIsOnto
<1>. HIDE DEF f
<1>. DEFINE A == DOMAIN a.clauses
            B == DOMAIN b.clauses
<1>7. /\ {Renamed(c, ta) : c \in A} = {Renamed(c, tb) : c \in B}
      /\ \A c \in A : key.clauses[Renamed(c, ta)] = a.clauses[c]
      /\ \A c \in B : key.clauses[Renamed(c, tb)] = b.clauses[c]
  BY <1>2 DEF IsKey
<1>8. /\ \A c \in A : c \in SUBSET LocalLits(n) /\ Renamed(c, f) \in SUBSET LocalLits(n)
      /\ \A c \in B : c \in SUBSET LocalLits(n)
      /\ \A c, d \in SUBSET LocalLits(n) : Renamed(c, tb) = Renamed(d, tb) => c = d
  BY <1>0, <1>1, <1>3, <1>5, ClausesRename
<1>. HIDE DEF A, B
<1>9. ASSUME NEW c \in A, NEW d \in B, Renamed(d, tb) = Renamed(c, ta)
      PROVE  d = Renamed(c, f) /\ b.clauses[d] = a.clauses[c]
  <2>1. Renamed(Renamed(c, f), tb) = Renamed(d, tb)  BY <1>5, <1>8, <1>9
  <2>2. d = Renamed(c, f)  BY <1>8, <2>1
  <2>3. b.clauses[d] = a.clauses[c]  BY <1>7, <1>9
  <2>. QED  BY <2>2, <2>3
<1>10. \A c \in A : Renamed(c, f) \in B /\ b.clauses[Renamed(c, f)] = a.clauses[c]
  <2>. SUFFICES ASSUME NEW c \in A
                PROVE  Renamed(c, f) \in B /\ b.clauses[Renamed(c, f)] = a.clauses[c]
    OBVIOUS
  <2>1. Renamed(c, ta) \in {Renamed(d, tb) : d \in B}  BY <1>7
  <2>2. PICK d \in B : Renamed(d, tb) = Renamed(c, ta)  BY <2>1
  <2>. QED  BY <1>9, <2>2
<1>11. \A d \in B : \E c \in A : d = Renamed(c, f)
  <2>. SUFFICES ASSUME NEW d \in B
                PROVE  \E c \in A : d = Renamed(c, f)
    OBVIOUS
  <2>1. Renamed(d, tb) \in {Renamed(c, ta) : c \in A}  BY <1>7
  <2>2. PICK c \in A : Renamed(c, ta) = Renamed(d, tb)  BY <2>1
  <2>. QED  BY <1>9, <2>2
<1>12. ASSUME ~IsTiny(a)
       PROVE  b.show = IF a.show = None THEN None ELSE {f[v] : v \in a.show}
  <2>1. ~IsTiny(b)  BY <1>3, <1>12 DEF IsTiny
  <2>2. /\ key.show = IF a.show = None THEN None ELSE {ta[v] : v \in a.show}
        /\ key.show = IF b.show = None THEN None ELSE {tb[v] : v \in b.show}
    BY <1>12, <1>2, <2>1 DEF IsKey
  <2>3. \A S \in SUBSET (1 .. n) : S # None
    BY <1>0, ComponentAssumption
  <2>4. /\ a.show # None => {ta[v] : v \in a.show} # None
        /\ b.show # None => {tb[v] : v \in b.show} # None
    <3>1. a.show # None => {ta[v] : v \in a.show} \in SUBSET (1 .. n)  BY <1>1, <1>4
    <3>2. b.show # None => {tb[v] : v \in b.show} \in SUBSET (1 .. n)  BY <1>1, <1>3, <1>4
    <3>. QED  BY <2>3, <3>1, <3>2
  <2>5. CASE a.show = None  BY <2>2, <2>4, <2>5
  <2>6. CASE a.show # None
    <3>1. b.show # None  BY <2>2, <2>4, <2>6
    <3>2. {ta[v] : v \in a.show} = {tb[v] : v \in b.show}  BY <2>2, <2>6, <3>1
    <3>3. a.show \in SUBSET (1 .. n) /\ b.show \in SUBSET (1 .. n)  BY <1>1, <1>3, <2>6, <3>1
    <3>4. ASSUME NEW v \in a.show PROVE f[v] \in b.show
      <4>1. PICK u \in b.show : tb[u] = ta[v]
        <5>1. ta[v] \in {tb[u] : u \in b.show}  BY <3>2
        <5>. QED  BY <5>1
      <4>2. tb[f[v]] = tb[u] /\ f[v] \in 1 .. n /\ u \in 1 .. n  BY <1>5, <1>6, <3>3, <4>1
      <4>. QED  BY <1>4, <4>1, <4>2
    <3>5. ASSUME NEW u \in b.show PROVE \E v \in a.show : u = f[v]
      <4>1. PICK v \in a.show : tb[u] = ta[v]
        <5>1. tb[u] \in {ta[v] : v \in a.show}  BY <3>2
        <5>. QED  BY <5>1
      <4>2. tb[f[v]] = tb[u] /\ f[v] \in 1 .. n /\ u \in 1 .. n  BY <1>5, <1>6, <3>3, <4>1
      <4>. QED  BY <1>4, <4>1, <4>2
    <3>6. b.show = {f[v] : v \in a.show}  BY <3>4, <3>5
    <3>. QED  BY <2>6, <3>6
  <2>. QED  BY <2>5, <2>6
<1>13. Isomorphism(f, a, b)
  <2>1. B = {Renamed(c, f) : c \in A}  BY <1>10, <1>11
  <2>. QED  BY <1>10, <1>12, <2>1 DEF Isomorphism, A, B
<1>14. ToLocal(ToCanonical(tree, ta), tb) = [k \in DOMAIN tree |-> f[tree[k]]]
  <2>1. /\ DOMAIN tree = 1 .. n /\ DOMAIN tb = 1 .. n
        /\ \A k \in 1 .. n : tree[k] \in 1 .. n /\ f[tree[k]] \in 1 .. n
    BY <1>4, <1>6
  <2>2. ToCanonical(tree, ta) = [k \in 1 .. n |-> ta[tree[k]]]  BY <2>1 DEF ToCanonical
  <2>3. \A k \in 1 .. n : (CHOOSE v \in 1 .. n : tb[v] = ta[tree[k]]) = f[tree[k]]
    <3>. SUFFICES ASSUME NEW k \in 1 .. n
                  PROVE  (CHOOSE v \in 1 .. n : tb[v] = ta[tree[k]]) = f[tree[k]]
      OBVIOUS
    <3>. DEFINE v == CHOOSE v \in 1 .. n : tb[v] = ta[tree[k]]
    <3>1. tb[f[tree[k]]] = ta[tree[k]]  BY <1>5, <2>1
    <3>2. v \in 1 .. n /\ tb[v] = ta[tree[k]]  BY <2>1, <3>1
    <3>. HIDE DEF v
    <3>3. v = f[tree[k]]  BY <1>4, <2>1, <3>1, <3>2
    <3>. QED  BY <3>3 DEF v
  <2>4. ToLocal(ToCanonical(tree, ta), tb)
          = [k \in 1 .. n |-> CHOOSE v \in 1 .. n : tb[v] = ta[tree[k]]]
    <3>. DEFINE canonical == ToCanonical(tree, ta)
    <3>1. DOMAIN canonical = 1 .. n /\ \A k \in 1 .. n : canonical[k] = ta[tree[k]]  BY <2>2
    <3>. HIDE DEF canonical
    <3>. DEFINE of(k) == CHOOSE v \in 1 .. n : tb[v] = canonical[k]
                by(k) == CHOOSE v \in 1 .. n : tb[v] = ta[tree[k]]
    <3>2. ToLocal(canonical, tb) = [k \in 1 .. n |-> of(k)]  BY <2>1, <3>1 DEF ToLocal
    <3>3. \A k \in 1 .. n : of(k) = by(k)  BY <3>1
    <3>4. [k \in 1 .. n |-> by(k)] = [k \in 1 .. n |-> CHOOSE v \in 1 .. n : tb[v] = ta[tree[k]]]  OBVIOUS
    <3>. HIDE DEF of, by
    <3>5. ToLocal(canonical, tb) = [k \in 1 .. n |-> by(k)]  BY <3>2, <3>3
    <3>. QED  BY <3>4, <3>5 DEF canonical
  <2>. QED  BY <2>1, <2>3, <2>4
<1>15. [k \in DOMAIN tree |-> f[tree[k]]] \in Renamings(n)
  <2>. DEFINE g == [k \in 1 .. n |-> f[tree[k]]]
  <2>1. DOMAIN tree = 1 .. n  BY <1>4
  <2>2. g \in [1 .. n -> 1 .. n] /\ \A x, y \in 1 .. n : g[x] = g[y] => x = y
    <3>1. \A k \in 1 .. n : g[k] = f[tree[k]] /\ tree[k] \in 1 .. n  BY <1>4
    <3>2. g \in [1 .. n -> 1 .. n]  BY <1>4, <1>6
    <3>. HIDE DEF g
    <3>3. ASSUME NEW x \in 1 .. n, NEW y \in 1 .. n, g[x] = g[y]
          PROVE  x = y
      <4>1. f[tree[x]] = f[tree[y]]  BY <3>1, <3>3
      <4>2. tree[x] = tree[y]  BY <1>6, <3>1, <4>1
      <4>. QED  BY <1>4, <4>2
    <3>. QED  BY <3>2, <3>3
  <2>3. g \in Renamings(n)
    <3>. HIDE DEF g
    <3>. QED  BY <1>0, <2>2, IsRenaming
  <2>. QED  BY <2>1, <2>3
<1>. QED  BY <1>0, <1>3, <1>5, <1>13, <1>14, <1>15 DEF SameTree
-----------------------------------------------------------------------------
(***************************************************************************)
(* What is built, and what is left of the clauses.                         *)
(***************************************************************************)

\* What is recorded of the components built or reused.
Entries ==
  [tree : Seq(Nat), view : {comps[i].view : i \in DOMAIN comps}, reused : BOOLEAN,
   from : Nat, deadline : Nat \cup {None}]

\* Each tree is one over its component's variables.
History ==
  /\ now \in Nat
  /\ vtrees \in Seq(Entries) /\ Len(vtrees) <= Len(comps)
  /\ \A i \in 1 .. Len(vtrees) :
       vtrees[i].view = comps[i].view /\ vtrees[i].tree \in Renamings(comps[i].view.size)

\* The clauses of none of the first k components.
Rest(k) == DOMAIN req.clauses \ UNION {comps[i].clauses : i \in 1 .. k}

Working == phase \in {"splitting", "building"}

\* The clauses left are those of the components not yet started.
Accounts ==
  Working => clausesLeft = Cardinality(Rest(Len(vtrees))) /\ (vtrees = <<>> => now = 0)

LEMMA ComponentFacts ==
  ASSUME Splitting
  PROVE  /\ Len(comps) \in Nat /\ DOMAIN comps = 1 .. Len(comps)
         /\ req.clauses \in Formulas /\ req.deadline \in Nat \cup {None}
         /\ \A i \in 1 .. Len(comps) :
              /\ comps[i].clauses \in Groups(req.clauses) /\ comps[i].clauses \in SUBSET DOMAIN req.clauses
              /\ comps[i].view.size \in 0 .. NumVars
              /\ IsView(comps[i].view, VarsOf(req.clauses, comps[i].clauses))
         /\ \A i, j \in 1 .. Len(comps) : comps[i].clauses = comps[j].clauses => i = j
         /\ comps # <<>> => \A C \in Groups(req.clauses) : \E i \in 1 .. Len(comps) : comps[i].clauses = C
<1>1. req \in Requests /\ req.clauses \in Formulas /\ req.deadline \in Nat \cup {None}
  BY ComponentAssumption DEF Splitting, Formulas
<1>2. CASE comps = <<>>  BY <1>1, <1>2
<1>3. CASE comps # <<>>
  <2>. DEFINE n == Cardinality(Groups(req.clauses))
  <2>1. comps = SplitOf(req) /\ DetectComponents(req.clauses) # <<>>  BY <1>3 DEF Splitting
  <2>2. /\ n \in Nat /\ DOMAIN comps = 1 .. n /\ Len(comps) = n
        /\ \A i \in 1 .. n : comps[i].clauses \in Groups(req.clauses)
        /\ \A C \in Groups(req.clauses) : \E i \in 1 .. n : comps[i].clauses = C
        /\ \A i, j \in 1 .. n : comps[i].clauses = comps[j].clauses => i = j
        /\ \A i \in 1 .. n : /\ comps[i].view = LocalView(req, comps[i].clauses)
                             /\ comps[i].clauses \in SUBSET DOMAIN req.clauses
    BY <1>1, <2>1, SplitIsListed
  <2>. HIDE DEF n
  <2>3. ASSUME NEW i \in 1 .. n
        PROVE  /\ comps[i].view.size \in 0 .. NumVars
               /\ IsView(comps[i].view, VarsOf(req.clauses, comps[i].clauses))
    <3>1. /\ IsView(comps[i].view, VarsOf(req.clauses, comps[i].clauses))
          /\ Cardinality(VarsOf(req.clauses, comps[i].clauses)) \in 0 .. NumVars
      BY <1>1, <2>2, LocalViewIsView
    <3>. QED  BY <3>1 DEF IsView
  <2>. QED  BY <1>1, <2>2, <2>3
<1>. QED  BY <1>2, <1>3

\* The component at hand has clauses, all of them among those left.
LEMMA WeightHere ==
  ASSUME Splitting, History, Accounts, Buildable
  PROVE  /\ Cardinality(Here) \in Nat \ {0} /\ clausesLeft \in Nat \ {0}
         /\ Cardinality(Here) <= clausesLeft
         /\ Cardinality(Rest(Len(vtrees) + 1)) = clausesLeft - Cardinality(Here)
         /\ Len(vtrees) + 1 = Len(comps) => Cardinality(Here) = clausesLeft
         /\ Len(req.clauses) \in Nat \ {0}
<1>. DEFINE F == req.clauses
            n == Len(vtrees)
            C == comps[n + 1].clauses
<1>1. n \in Nat /\ n + 1 \in 1 .. Len(comps) /\ Len(comps) \in Nat /\ comps # <<>>
  <2>1. n \in Nat /\ n < Len(comps) /\ Len(comps) \in Nat
    BY ComponentFacts DEF Buildable, History
  <2>. HIDE DEF n
  <2>. QED  BY <2>1
<1>. HIDE DEF n
<1>2. /\ F \in Formulas
      /\ \A i \in 1 .. Len(comps) : comps[i].clauses \in Groups(F) /\ comps[i].clauses \in SUBSET DOMAIN F
      /\ \A i, j \in 1 .. Len(comps) : comps[i].clauses = comps[j].clauses => i = j
      /\ \A D \in Groups(F) : \E i \in 1 .. Len(comps) : comps[i].clauses = D
  BY <1>1, ComponentFacts
<1>3. AreComponents(Groups(F), F)  BY <1>2, GroupsAreComponents
<1>4. /\ IsFiniteSet(DOMAIN F) /\ Cardinality(DOMAIN F) = Len(F)
      /\ IsFiniteSet(C) /\ Cardinality(C) \in Nat \ {0}
  BY <1>1, <1>2, GroupsAreFinite
<1>. HIDE DEF F
<1>5. \A k \in Nat : Rest(k) \in SUBSET DOMAIN F /\ Rest(k) = DOMAIN F \ UNION {comps[i].clauses : i \in 1 .. k}
  BY DEF Rest, F
<1>6. C \subseteq Rest(n)
  <2>1. ASSUME NEW x \in C, NEW i \in 1 .. n, x \in comps[i].clauses
        PROVE  FALSE
    <3>1. i \in 1 .. Len(comps) /\ i # n + 1  BY <1>1
    <3>2. comps[i].clauses \cap C = {}  BY <1>1, <1>2, <1>3, <3>1 DEF AreComponents
    <3>. QED  BY <2>1, <3>2
  <2>2. C \subseteq DOMAIN F  BY <1>1, <1>2
  <2>. HIDE DEF C
  <2>. QED  BY <1>1, <1>5, <2>1, <2>2
<1>7. Rest(n + 1) = Rest(n) \ C
  <2>1. \A k \in Nat : \A x : x \in Rest(k) <=> x \in DOMAIN F /\ \A i \in 1 .. k : x \notin comps[i].clauses
    BY <1>5
  <2>2. ASSUME NEW x PROVE x \in Rest(n + 1) <=> x \in Rest(n) /\ x \notin C
    <3>1. n + 1 \in Nat /\ \A i \in 1 .. n + 1 : i \in 1 .. n \/ i = n + 1  BY <1>1
    <3>2. n + 1 \in 1 .. n + 1 /\ \A i \in 1 .. n : i \in 1 .. n + 1  BY <1>1
    <3>. QED  BY <1>1, <2>1, <3>1, <3>2
  <2>. HIDE DEF C
  <2>. QED  BY <2>2
<1>8. Working /\ clausesLeft = Cardinality(Rest(n))
  BY DEF Accounts, Buildable, Working, n
<1>. HIDE DEF C
<1>9. IsFiniteSet(Rest(n))  BY <1>1, <1>4, <1>5, FS_Subset
<1>10. clausesLeft \in Nat /\ Cardinality(C) <= clausesLeft
  BY <1>6, <1>8, <1>9, FS_CardinalityType, FS_Subset
<1>11. Cardinality(Rest(n + 1)) = clausesLeft - Cardinality(C)
  <2>1. Rest(n) \cap C = C  BY <1>6
  <2>2. Cardinality(Rest(n) \ C) = Cardinality(Rest(n)) - Cardinality(Rest(n) \cap C)
    BY <1>9, FS_Difference
  <2>. QED  BY <1>7, <1>8, <2>1, <2>2
<1>12. n + 1 = Len(comps) => Cardinality(C) = clausesLeft
  <2>. SUFFICES ASSUME n + 1 = Len(comps) PROVE Rest(n) = C  BY <1>8
  <2>1. ASSUME NEW x \in Rest(n)
        PROVE  x \in C
    <3>1. x \in DOMAIN F /\ \A i \in 1 .. n : x \notin comps[i].clauses  BY <1>1, <1>5
    <3>2. PICK D \in Groups(F) : x \in D  BY <1>3, <3>1 DEF AreComponents
    <3>3. PICK i \in 1 .. Len(comps) : comps[i].clauses = D  BY <1>2
    <3>4. i = n + 1  BY <1>1, <3>1, <3>2, <3>3
    <3>. QED  BY <3>2, <3>3, <3>4 DEF C
  <2>. QED  BY <1>6, <2>1
<1>13. Len(F) \in Nat \ {0}
  <2>1. Len(F) \in Nat  BY <1>2
  <2>2. Cardinality(Rest(n)) <= Len(F)  BY <1>1, <1>4, <1>5, FS_Subset
  <2>. QED  BY <1>4, <1>8, <1>10, <2>1, <2>2
<1>. QED  BY <1>4, <1>10, <1>11, <1>12, <1>13 DEF Here, C, n, F

\* The deadline of a component lies between its share of what is left and the
\* shared one.
LEMMA DeadlineHere ==
  ASSUME Splitting, History, Accounts, Buildable
  PROVE  LET w == Cardinality(Here)
             D == req.deadline
         IN  /\ ComponentDeadline(w) \in Nat \cup {None}
             /\ D = None => ComponentDeadline(w) = None
             /\ D # None =>
                  /\ D \in Nat /\ LeftUntil(D) \in Nat /\ (now <= D => LeftUntil(D) = D - now)
                  /\ ComponentDeadline(w) = D - (LeftUntil(D) - (LeftUntil(D) * w) \div clausesLeft)
                  /\ ComponentDeadline(w) \in 0 .. D
                  /\ Len(vtrees) + 1 = Len(comps) => ComponentDeadline(w) = D
<1>. DEFINE w == Cardinality(Here)
            D == req.deadline
            L == LeftUntil(D)
            q == (L * w) \div clausesLeft
<1>1. D \in Nat \cup {None} /\ now \in Nat  BY ComponentFacts DEF History
<1>2. /\ w \in Nat \ {0} /\ clausesLeft \in Nat \ {0} /\ w <= clausesLeft
      /\ Len(vtrees) + 1 = Len(comps) => w = clausesLeft
  BY WeightHere
<1>. HIDE DEF w, D
<1>3. CASE D = None
  <2>1. ComponentDeadline(w) = None  BY <1>3 DEF ComponentDeadline, D
  <2>. QED  BY <1>3, <2>1 DEF w, D
<1>4. CASE D # None
  <2>1. D \in Nat /\ L \in 0 .. D /\ (now <= D => L = D - now)  BY <1>1, <1>4 DEF LeftUntil
  <2>. HIDE DEF L
  <2>2. q \in 0 .. L /\ (w = clausesLeft => q = L)  BY <1>2, <2>1, ShareIsPart
  <2>3. ComponentDeadline(w) = D - (L - q)  BY <1>2, <1>4 DEF ComponentDeadline, D, L
  <2>. HIDE DEF q
  <2>4. D - (L - q) \in 0 .. D /\ (w = clausesLeft => D - (L - q) = D)  BY <2>1, <2>2
  <2>5. L \in Nat  BY <2>1
  <2>. QED  BY <1>2, <1>4, <2>1, <2>3, <2>4, <2>5 DEF w, D, L, q
<1>. QED  BY <1>3, <1>4

\* A component's tree is appended to what is recorded.
LEMMA TakesAppends ==
  ASSUME Splitting, History, Accounts, Buildable, now' \in Nat,
         NEW tree \in Renamings(ViewHere.size), NEW reused \in BOOLEAN, NEW deadline \in Nat \cup {None},
         Takes(tree, reused, deadline)
  PROVE  /\ History' /\ Accounts'
         /\ UNCHANGED <<phase, req, comps, grafted>>
         /\ Len(vtrees) \in Nat /\ Len(vtrees') = Len(vtrees) + 1 /\ Len(vtrees) + 1 \in 1 .. Len(comps)
         /\ clausesLeft' = clausesLeft - Cardinality(Here)
         /\ \A i \in 1 .. Len(vtrees) : vtrees'[i] = vtrees[i]
         /\ vtrees'[Len(vtrees) + 1] = [tree |-> tree, view |-> ViewHere, reused |-> reused,
                                        from |-> now, deadline |-> deadline]
<1>. DEFINE n == Len(vtrees)
            e == [tree |-> tree, view |-> ViewHere, reused |-> reused, from |-> now, deadline |-> deadline]
<1>1. /\ clausesLeft' = clausesLeft - Cardinality(Here) /\ vtrees' = Append(vtrees, e)
      /\ UNCHANGED <<phase, req, comps, grafted>>
  BY DEF Takes
<1>2. n \in Nat /\ n + 1 \in 1 .. Len(comps) /\ DOMAIN comps = 1 .. Len(comps)
  <2>1. n \in Nat /\ n < Len(comps) /\ Len(comps) \in Nat /\ DOMAIN comps = 1 .. Len(comps)
    BY ComponentFacts DEF Buildable, History
  <2>. HIDE DEF n
  <2>. QED  BY <2>1
<1>3. e \in Entries
  <2>1. tree \in Seq(Nat)
    <3>1. ViewHere.size \in Nat  BY <1>2, ComponentFacts DEF ViewHere
    <3>2. tree \in [1 .. ViewHere.size -> 1 .. ViewHere.size]  BY <3>1, RenamingIsOnto
    <3>3. tree \in [1 .. ViewHere.size -> Nat]  BY <3>1, <3>2
    <3>. QED  BY <3>1, <3>3
  <2>2. ViewHere \in {comps[i].view : i \in DOMAIN comps}  BY <1>2 DEF ViewHere
  <2>3. now \in Nat  BY DEF History
  <2>. QED  BY <2>1, <2>2, <2>3 DEF Entries
<1>. HIDE DEF e
<1>4. /\ vtrees' \in Seq(Entries) /\ Len(vtrees') = n + 1
      /\ \A i \in 1 .. n : vtrees'[i] = vtrees[i]
      /\ vtrees'[n + 1] = e
  <2>1. vtrees \in Seq(Entries)  BY DEF History
  <2>. QED  BY <1>1, <1>3, <2>1
<1>5. Entries' = Entries  BY <1>1 DEF Entries
<1>6. \A i \in 1 .. n + 1 :
        vtrees'[i].view = comps[i].view /\ vtrees'[i].tree \in Renamings(comps[i].view.size)
  <2>1. \A i \in 1 .. n : vtrees[i].view = comps[i].view /\ vtrees[i].tree \in Renamings(comps[i].view.size)
    BY DEF History
  <2>2. e.view = comps[n + 1].view /\ e.tree = tree  BY DEF e, ViewHere
  <2>3. tree \in Renamings(comps[n + 1].view.size)  BY DEF ViewHere
  <2>. HIDE DEF n
  <2>. QED  BY <1>2, <1>4, <2>1, <2>2, <2>3
<1>7. History'
  <2>. HIDE DEF n
  <2>. QED  BY <1>1, <1>2, <1>4, <1>5, <1>6 DEF History
<1>8. Accounts'
  <2>1. Rest(Len(vtrees))' = Rest(n + 1)  BY <1>1, <1>4 DEF Rest
  <2>2. Cardinality(Rest(n + 1)) = clausesLeft - Cardinality(Here)  BY WeightHere
  <2>3. vtrees' # <<>>  BY <1>2, <1>4
  <2>. QED  BY <1>1, <2>1, <2>2, <2>3 DEF Accounts
<1>. QED  BY <1>1, <1>2, <1>4, <1>7, <1>8 DEF e
-----------------------------------------------------------------------------
(***************************************************************************)
(* What the cache holds, and what is reused of it.                         *)
(***************************************************************************)

\* The tree is that of the entry e, built for a component with that key.
Stores(key, tree, e) ==
  ~e.reused /\ \E to \in Numberings(e.view) : key = Key(e.view, to) /\ tree = ToCanonical(e.tree, to)

CacheFits == \A k \in DOMAIN cache : \E j \in 1 .. Len(vtrees) : Stores(k, cache[k], vtrees[j])

\* The tree is that of the entry e under a renaming that makes e's component view.
FitsLike(tree, view, e) ==
  /\ ~e.reused /\ e.view.size = view.size
  /\ \E f \in Renamings(view.size) :
       Isomorphism(f, e.view, view) /\ tree = [k \in DOMAIN e.tree |-> f[e.tree[k]]]

\* What a step adds to the record: a tree over the component's variables, built
\* under its deadline, or reused.
Adds(tree, reused, deadline, key, to) ==
  /\ Takes(tree, reused, deadline) /\ now' \in Nat
  /\ deadline # None => deadline = ComponentDeadline(Cardinality(Here))
  /\ reused => cache' = cache /\ \E j \in 1 .. Len(vtrees) : FitsLike(tree, ViewHere, vtrees[j])
  /\ ~reused => cache' = Cached(key, ToCanonical(tree, to))

LEMMA StepsAdd ==
  ASSUME Splitting, History, Accounts, CacheFits, Buildable,
         NEW to \in Numberings(ViewHere), NEW key, key = Key(ViewHere, to),
         Reuse(key, to) \/ BuildTiny(key, to) \/ BuildComponent(key, to)
  PROVE  \E tree \in Renamings(ViewHere.size), reused \in BOOLEAN, deadline \in Nat \cup {None} :
           Adds(tree, reused, deadline, key, to)
<1>. DEFINE n == Len(vtrees)
            W == VarsOf(req.clauses, comps[n + 1].clauses)
<1>1. n \in Nat /\ n + 1 \in 1 .. Len(comps) /\ Len(comps) \in Nat /\ now \in Nat /\ n <= Len(comps)
  <2>1. n \in Nat /\ n < Len(comps) /\ Len(comps) \in Nat /\ now \in Nat
    BY ComponentFacts DEF Buildable, History
  <2>. HIDE DEF n
  <2>. QED  BY <2>1
<1>2. ViewHere.size \in 0 .. NumVars /\ ViewHere.size \in Nat /\ IsView(ViewHere, W)
  <2>. HIDE DEF n
  <2>1. ViewHere.size \in 0 .. NumVars /\ IsView(ViewHere, W)  BY <1>1, ComponentFacts DEF ViewHere, n
  <2>. QED  BY <2>1
<1>3. to \in Renamings(ViewHere.size)  BY <1>2, NumberingsRename
<1>4. CASE Reuse(key, to)
  <2>1. key \in DOMAIN cache /\ now' = now /\ cache' = cache /\ Takes(ToLocal(cache[key], to), TRUE, None)
    BY <1>4 DEF Reuse
  <2>2. PICK j \in 1 .. n : Stores(key, cache[key], vtrees[j])  BY <2>1 DEF CacheFits
  <2>. DEFINE e == vtrees[j]
              V == VarsOf(req.clauses, comps[j].clauses)
  <2>3. PICK te \in Numberings(e.view) :
          ~e.reused /\ key = Key(e.view, te) /\ cache[key] = ToCanonical(e.tree, te)
    BY <2>2 DEF Stores
  <2>4. e.view = comps[j].view /\ e.tree \in Renamings(comps[j].view.size)  BY DEF History
  <2>5. comps[j].view.size \in 0 .. NumVars /\ IsView(comps[j].view, V)
    <3>1. j \in 1 .. Len(comps)  BY <1>1
    <3>. QED  BY <3>1, ComponentFacts
  <2>. HIDE DEF e, V, W
  <2>6. te \in Renamings(e.view.size)
    <3>1. e.view.size \in Nat  BY <2>4, <2>5
    <3>. QED  BY <3>1, NumberingsRename
  <2>. DEFINE m == e.view.size
              tree == ToLocal(cache[key], to)
  <2>7. SameTree(tree, e.tree, e.view, ViewHere)
    <3>1. /\ m \in 0 .. NumVars /\ IsView(e.view, V) /\ e.tree \in Renamings(m) /\ te \in Renamings(m)
          /\ Key(e.view, te) = Key(ViewHere, to)
      BY <2>3, <2>4, <2>5, <2>6
    <3>2. tree = ToLocal(ToCanonical(e.tree, te), to)  BY <2>3
    <3>. HIDE DEF tree
    <3>. QED  BY <1>2, <1>3, <3>1, <3>2, ReuseFits
  <2>8. FitsLike(tree, ViewHere, e)
    <3>. HIDE DEF tree
    <3>. QED  BY <2>3, <2>7 DEF FitsLike, SameTree
  <2>9. Adds(tree, TRUE, None, key, to)
    <3>1. \E i \in 1 .. n : FitsLike(tree, ViewHere, vtrees[i])
      <4>. HIDE DEF tree
      <4>. QED  BY <2>8 DEF e
    <3>. HIDE DEF tree
    <3>. QED  BY <1>1, <2>1, <3>1 DEF Adds, tree
  <2>. HIDE DEF tree
  <2>. QED  BY <2>7, <2>9 DEF SameTree
<1>5. CASE BuildTiny(key, to)
  <2>1. PICK tree \in Trees(ViewHere.size) :
          /\ now' \in now .. now + MaxOverrun /\ cache' = Cached(key, ToCanonical(tree, to))
          /\ Takes(tree, FALSE, None)
    BY <1>5 DEF BuildTiny
  <2>2. tree \in Renamings(ViewHere.size)  BY <1>2, TreesRename
  <2>3. now' \in Nat  BY <1>1, <2>1, ComponentAssumption
  <2>4. Adds(tree, FALSE, None, key, to)  BY <2>1, <2>3 DEF Adds
  <2>. QED  BY <2>2, <2>4
<1>6. CASE BuildComponent(key, to)
  <2>. DEFINE deadline == ComponentDeadline(Cardinality(Here))
  <2>1. PICK b \in BuildTimes(deadline), tree \in Trees(ViewHere.size) :
          /\ now' = now + b[1] /\ cache' = Cached(key, ToCanonical(tree, to))
          /\ Takes(tree, FALSE, deadline)
    BY <1>6 DEF BuildComponent
  <2>2. tree \in Renamings(ViewHere.size)  BY <1>2, TreesRename
  <2>3. deadline \in Nat \cup {None}  BY DeadlineHere
  <2>. HIDE DEF deadline
  <2>4. b[1] \in Nat
    <3>1. CASE deadline = None  BY <3>1, ComponentAssumption DEF BuildTimes
    <3>2. CASE deadline # None
      <4>1. LeftUntil(deadline) \in Nat  BY <1>1, <2>3, <3>2 DEF LeftUntil
      <4>. QED  BY <3>2, <4>1, ComponentAssumption DEF BuildTimes
    <3>. QED  BY <3>1, <3>2
  <2>5. now' \in Nat  BY <1>1, <2>1, <2>4
  <2>6. Adds(tree, FALSE, deadline, key, to)  BY <2>1, <2>5 DEF Adds, deadline
  <2>. QED  BY <2>2, <2>3, <2>6
<1>. QED  BY <1>4, <1>5, <1>6

\* A component added keeps what the cache holds true, and what is reused.
LEMMA AddsFit ==
  ASSUME Splitting, History, Accounts, CacheFits, ReusedTreesFit, Buildable,
         NEW to \in Numberings(ViewHere), NEW key, key = Key(ViewHere, to),
         NEW tree \in Renamings(ViewHere.size), NEW reused \in BOOLEAN, NEW deadline \in Nat \cup {None},
         Adds(tree, reused, deadline, key, to)
  PROVE  CacheFits' /\ ReusedTreesFit'
<1>. DEFINE n == Len(vtrees)
            e == [tree |-> tree, view |-> ViewHere, reused |-> reused, from |-> now, deadline |-> deadline]
<1>1. /\ n \in Nat /\ Len(vtrees') = n + 1
      /\ \A i \in 1 .. n : vtrees'[i] = vtrees[i]
      /\ vtrees'[n + 1] = e
      /\ History'
  BY TakesAppends DEF Adds
<1>. HIDE DEF n
<1>2. 1 .. n + 1 = (1 .. n) \cup {n + 1} /\ DOMAIN vtrees' = 1 .. n + 1 /\ DOMAIN vtrees = 1 .. n
  BY <1>1 DEF History, n
<1>3. CacheFits'
  <2>. SUFFICES ASSUME NEW k \in DOMAIN cache' PROVE \E j \in 1 .. n + 1 : Stores(k, cache'[k], vtrees'[j])
    BY <1>1 DEF CacheFits, Stores, Numberings, Key, IsTiny, ToCanonical, Renamed
  <2>1. CASE k \in DOMAIN cache /\ cache'[k] = cache[k]
    <3>1. PICK j \in 1 .. n : Stores(k, cache[k], vtrees[j])  BY <2>1 DEF CacheFits, n
    <3>. QED  BY <1>1, <1>2, <2>1, <3>1
  <2>2. CASE ~reused /\ k = key /\ cache'[k] = ToCanonical(tree, to)
    <3>1. Stores(k, cache'[k], e)  BY <2>2 DEF Stores
    <3>. QED  BY <1>1, <1>2, <3>1
  <2>3. reused => cache' = cache  BY DEF Adds
  <2>4. ~reused => cache' = [x \in DOMAIN cache \cup {key} |-> IF x = key THEN ToCanonical(tree, to) ELSE cache[x]]
    BY DEF Adds, Cached
  <2>. QED  BY <2>1, <2>2, <2>3, <2>4
<1>4. ReusedTreesFit'
  <2>. DEFINE Fits(r, i) == r[i].reused => \E j \in 1 .. i - 1 : FitsLike(r[i].tree, r[i].view, r[j])
  <2>1. ReusedTreesFit <=> \A i \in 1 .. n : Fits(vtrees, i)
    BY <1>2 DEF ReusedTreesFit, FitsLike
  <2>2. ReusedTreesFit' <=> \A i \in 1 .. n + 1 : Fits(vtrees', i)
    BY <1>2 DEF ReusedTreesFit, FitsLike, Isomorphism, Renamings, Renamed, IsTiny
  <2>3. ASSUME NEW i \in 1 .. n PROVE Fits(vtrees', i)
    <3>1. Fits(vtrees, i)  BY <2>1
    <3>2. \A j \in 1 .. i - 1 : j \in 1 .. n  BY <1>1
    <3>. QED  BY <1>1, <3>1, <3>2
  <2>4. Fits(vtrees', n + 1)
    <3>1. reused => \E j \in 1 .. n : FitsLike(tree, ViewHere, vtrees[j])  BY DEF Adds, n
    <3>2. (n + 1) - 1 = n /\ e.reused = reused /\ e.tree = tree /\ e.view = ViewHere  BY <1>1
    <3>. HIDE DEF e
    <3>. QED  BY <1>1, <3>1, <3>2
  <2>. HIDE DEF Fits
  <2>. QED  BY <1>2, <2>2, <2>3, <2>4
<1>. QED  BY <1>3, <1>4
-----------------------------------------------------------------------------
(***************************************************************************)
(* The graft.                                                              *)
(***************************************************************************)
\* The variables of the i-th component.
VarsAt(i) == VarsOf(req.clauses, comps[i].clauses)

LEMMA VariablesApart ==
  ASSUME Splitting
  PROVE  /\ \A i \in 1 .. Len(comps) :
              /\ VarsAt(i) \in SUBSET Vars /\ IsFiniteSet(VarsAt(i)) /\ IsView(comps[i].view, VarsAt(i))
              /\ Cardinality(VarsAt(i)) = comps[i].view.size /\ Cardinality(VarsAt(i)) \in Nat
         /\ \A i, j \in 1 .. Len(comps) : i # j => VarsAt(i) \cap VarsAt(j) = {}
<1>1. AreComponents(Groups(req.clauses), req.clauses)
  BY ComponentFacts, GroupsAreComponents
<1>2. ASSUME NEW i \in 1 .. Len(comps)
      PROVE  /\ VarsAt(i) \in SUBSET Vars /\ IsFiniteSet(VarsAt(i)) /\ IsView(comps[i].view, VarsAt(i))
             /\ Cardinality(VarsAt(i)) = comps[i].view.size /\ Cardinality(VarsAt(i)) \in Nat
  <2>1. VarsAt(i) \in SUBSET Vars /\ IsView(comps[i].view, VarsAt(i)) /\ comps[i].view.size \in 0 .. NumVars
    <3>1. /\ req.clauses \in Formulas /\ comps[i].clauses \in SUBSET DOMAIN req.clauses
          /\ IsView(comps[i].view, VarsOf(req.clauses, comps[i].clauses)) /\ comps[i].view.size \in 0 .. NumVars
      BY ComponentFacts
    <3>2. VarsOf(req.clauses, comps[i].clauses) \in SUBSET Vars  BY <3>1, VariablesOfClauses
    <3>. QED  BY <3>1, <3>2 DEF VarsAt
  <2>2. IsFiniteSet(VarsAt(i))
    <3>1. \A m \in Nat : IsFiniteSet(1 .. m)  BY FS_Interval
    <3>. QED  BY <2>1, <3>1, NumVarsAssumption, FS_Subset DEF Vars
  <2>. QED  BY <2>1, <2>2, FS_CardinalityType DEF IsView
<1>3. ASSUME NEW i \in 1 .. Len(comps), NEW j \in 1 .. Len(comps), i # j
      PROVE  VarsAt(i) \cap VarsAt(j) = {}
  <2>1. comps[i].clauses # comps[j].clauses  BY <1>3, ComponentFacts
  <2>2. comps[i].clauses \in Groups(req.clauses) /\ comps[j].clauses \in Groups(req.clauses)
    BY ComponentFacts
  <2>. QED  BY <1>1, <2>1, <2>2 DEF VarsAt, AreComponents
<1>. QED  BY <1>2, <1>3

\* A component's tree over the outer variables has each of them once.
LEMMA OuterHolds ==
  ASSUME Splitting, History, NEW i \in 1 .. Len(vtrees)
  PROVE  /\ Outer(vtrees[i]) \in Seq(Vars)
         /\ Len(Outer(vtrees[i])) = Cardinality(VarsAt(i))
         /\ ToSet(Outer(vtrees[i])) = VarsAt(i)
         /\ ToSet(vtrees[i].view.outer) = VarsAt(i)
<1>. DEFINE V == VarsAt(i)
            n == Cardinality(V)
            outer == vtrees[i].view.outer
            tree == vtrees[i].tree
<1>0. i \in 1 .. Len(comps)  BY ComponentFacts DEF History
<1>1. V \in SUBSET Vars /\ IsFiniteSet(V) /\ n \in Nat /\ n = comps[i].view.size /\ IsView(comps[i].view, V)
  BY <1>0, VariablesApart
<1>2. vtrees[i].view = comps[i].view /\ tree \in Renamings(comps[i].view.size)  BY DEF History
<1>3. Lists(outer, V) /\ tree \in Renamings(n)  BY <1>1, <1>2 DEF IsView
<1>. HIDE DEF V, outer, tree
<1>4. DOMAIN outer = 1 .. n /\ ToSet(outer) = V /\ outer \in [1 .. n -> V]
  BY <1>1, <1>3, ListedSequence DEF Lists
<1>. HIDE DEF n
<1>5. /\ tree \in [1 .. n -> 1 .. n]
      /\ \A y \in 1 .. n : \E x \in 1 .. n : tree[x] = y
  BY <1>1, <1>3, RenamingIsOnto
<1>. DEFINE out == [k \in 1 .. n |-> outer[tree[k]]]
<1>6. Outer(vtrees[i]) = out  BY <1>5 DEF Outer, outer, tree
<1>7. out \in [1 .. n -> V]  BY <1>4, <1>5
<1>8. \A v \in V : \E k \in 1 .. n : out[k] = v
  <2>. SUFFICES ASSUME NEW v \in V PROVE \E k \in 1 .. n : out[k] = v  OBVIOUS
  <2>1. PICK y \in 1 .. n : outer[y] = v  BY <1>4 DEF ToSet
  <2>2. PICK k \in 1 .. n : tree[k] = y  BY <1>5
  <2>. QED  BY <2>1, <2>2
<1>. HIDE DEF out
<1>9. out \in Seq(Vars) /\ Len(out) = n /\ DOMAIN out = 1 .. n
  <2>1. out \in [1 .. n -> Vars]  BY <1>1, <1>7
  <2>. QED  BY <1>1, <2>1
<1>10. ToSet(out) = V  BY <1>7, <1>8, <1>9 DEF ToSet
<1>. QED  BY <1>4, <1>6, <1>9, <1>10 DEF V, n, outer

LEMMA GraftIsWhole ==
  ASSUME Splitting, History, Graft
  PROVE  Len(grafted') = NumVars /\ ToSet(grafted') = Vars
<1>. DEFINE n == Len(vtrees)
            seqs == [i \in 1 .. n |-> Outer(vtrees[i])]
            Covered(k) == {v \in Vars : \E i \in 1 .. k : v \in VarsAt(i)}
            free == FreeVars
<1>1. n \in Nat /\ n = Len(comps) /\ DOMAIN vtrees = 1 .. n
  <2>1. vtrees \in Seq(Entries)  BY DEF History
  <2>2. n \in Nat /\ DOMAIN vtrees = 1 .. n  BY <2>1
  <2>. QED  BY <2>2 DEF Graft
<1>2. grafted' = FlattenSeq(seqs) \o Ascending(free, <)  BY <1>1 DEF Graft
<1>3. \A i \in 1 .. n : /\ Outer(vtrees[i]) \in Seq(Vars)
                        /\ Len(Outer(vtrees[i])) = Cardinality(VarsAt(i))
                        /\ ToSet(Outer(vtrees[i])) = VarsAt(i)
                        /\ ToSet(vtrees[i].view.outer) = VarsAt(i)
  BY OuterHolds
<1>4. /\ \A i \in 1 .. n : VarsAt(i) \in SUBSET Vars /\ IsFiniteSet(VarsAt(i)) /\ Cardinality(VarsAt(i)) \in Nat
      /\ \A i, j \in 1 .. n : i # j => VarsAt(i) \cap VarsAt(j) = {}
  BY <1>1, VariablesApart
<1>5. IsFiniteSet(Vars) /\ Cardinality(Vars) = NumVars /\ NumVars \in Nat
  <2>1. \A m \in Nat : IsFiniteSet(1 .. m) /\ Cardinality(1 .. m) = m  BY FS_Interval
  <2>. QED  BY <2>1, NumVarsAssumption DEF Vars
<1>6. free = Vars \ Covered(n)
  <2>1. \A v : v \in UNION {ToSet(vtrees[i].view.outer) : i \in 1 .. n} <=> \E i \in 1 .. n : v \in VarsAt(i)
    BY <1>3
  <2>. QED  BY <1>1, <2>1 DEF FreeVars
<1>7. /\ seqs \in [1 .. n -> Seq(Vars)]
      /\ \A i \in 1 .. n : seqs[i] \in Seq(Vars) /\ Len(seqs[i]) = Cardinality(VarsAt(i)) /\ ToSet(seqs[i]) = VarsAt(i)
  BY <1>3
<1>. HIDE DEF n, seqs, free
<1>8. PICK flat : Flattens(flat, Vars, n, seqs)
  BY <1>1, <1>7, FlattenRuns
<1>. DEFINE Good == {k \in 0 .. n : ToSet(flat[k]) = Covered(k) /\ Len(flat[k]) = Cardinality(Covered(k))}
<1>9. 0 \in Good
  <2>1. Covered(0) = {} /\ ToSet(<<>>) = {} /\ Len(<<>>) = 0  BY DEF ToSet
  <2>. HIDE DEF Covered
  <2>. QED  BY <1>1, <1>8, <2>1, FS_EmptySet DEF Flattens
<1>10. ASSUME NEW k \in 0 .. n - 1, k \in Good
       PROVE  k + 1 \in Good
  <2>1. k + 1 \in 1 .. n /\ k + 1 \in 0 .. n /\ (k + 1) - 1 = k /\ k \in 0 .. n  BY <1>1
  <2>2. flat[k + 1] = flat[k] \o seqs[k + 1] /\ flat[k] \in Seq(Vars)  BY <1>8, <2>1 DEF Flattens
  <2>3. Covered(k + 1) = Covered(k) \cup VarsAt(k + 1)
    <3>1. \A i \in 1 .. k + 1 : i \in 1 .. k \/ i = k + 1  BY <2>1
    <3>2. k + 1 \in 1 .. k + 1 /\ \A i \in 1 .. k : i \in 1 .. k + 1  BY <2>1
    <3>. QED  BY <1>4, <2>1, <3>1, <3>2
  <2>4. Covered(k) \cap VarsAt(k + 1) = {}
    <3>1. \A i \in 1 .. k : i \in 1 .. n /\ i # k + 1  BY <1>1, <2>1
    <3>. QED  BY <1>4, <2>1, <3>1
  <2>5. IsFiniteSet(Covered(k)) /\ Cardinality(Covered(k)) \in Nat
    <3>1. Covered(k) \in SUBSET Vars  OBVIOUS
    <3>. HIDE DEF Covered
    <3>. QED  BY <1>5, <3>1, FS_Subset, FS_CardinalityType
  <2>. HIDE DEF Covered
  <2>6. ToSet(flat[k]) = Covered(k) /\ Len(flat[k]) = Cardinality(Covered(k))  BY <1>10
  <2>7. /\ ToSet(flat[k + 1]) = Covered(k) \cup VarsAt(k + 1)
        /\ Len(flat[k + 1]) = Cardinality(Covered(k)) + Cardinality(VarsAt(k + 1))
    <3>1. /\ flat[k] \o seqs[k + 1] \in Seq(Vars)
          /\ Len(flat[k] \o seqs[k + 1]) = Len(flat[k]) + Len(seqs[k + 1])
          /\ ToSet(flat[k] \o seqs[k + 1]) = ToSet(flat[k]) \cup ToSet(seqs[k + 1])
      BY <1>7, <2>1, <2>2, ConcatHolds
    <3>. QED  BY <1>7, <2>1, <2>2, <2>6, <3>1
  <2>8. Cardinality(Covered(k) \cup VarsAt(k + 1)) = Cardinality(Covered(k)) + Cardinality(VarsAt(k + 1))
    <3>1. IsFiniteSet(VarsAt(k + 1)) /\ Cardinality(VarsAt(k + 1)) \in Nat  BY <1>4, <2>1
    <3>2. Cardinality(Covered(k) \cup VarsAt(k + 1))
            = Cardinality(Covered(k)) + Cardinality(VarsAt(k + 1)) - Cardinality(Covered(k) \cap VarsAt(k + 1))
      BY <2>5, <3>1, FS_Union
    <3>3. Cardinality(Covered(k) \cap VarsAt(k + 1)) = 0  BY <2>4, FS_EmptySet
    <3>. QED  BY <2>5, <3>1, <3>2, <3>3
  <2>. QED  BY <2>1, <2>3, <2>7, <2>8
<1>11. n \in Good
  <2>1. 0 .. n \subseteq Good
    <3>. HIDE DEF Good
    <3>. QED  BY <1>1, <1>9, <1>10, BoundedInduction
  <2>. HIDE DEF Good
  <2>. QED  BY <1>1, <2>1
<1>12. Covered(n) \in SUBSET Vars  OBVIOUS
<1>13. FlattenSeq(seqs) \in Seq(Vars) /\ ToSet(FlattenSeq(seqs)) = Covered(n) /\ Len(FlattenSeq(seqs)) = Cardinality(Covered(n))
  <2>. HIDE DEF Covered
  <2>1. n \in 0 .. n  BY <1>1
  <2>. QED  BY <1>8, <1>11, <2>1 DEF Flattens
<1>. HIDE DEF Covered, Good
<1>14. IsFiniteSet(free) /\ Lists(Ascending(free, <), free)
  <2>1. free \in SUBSET (1 .. NumVars)  BY <1>6 DEF Vars
  <2>. QED  BY <1>5, <2>1, AscendingLists
<1>. DEFINE tail == Ascending(free, <)
<1>15. tail \in Seq(Vars) /\ ToSet(tail) = free /\ Len(tail) = Cardinality(free)
  <2>. HIDE DEF tail
  <2>1. tail \in Seq(free) /\ ToSet(tail) = free /\ Len(tail) = Cardinality(free)
    BY <1>14, ListedSequence DEF tail
  <2>2. free \subseteq Vars  BY <1>6
  <2>3. tail \in Seq(Vars)  BY <2>1, <2>2
  <2>. QED  BY <2>1, <2>3
<1>16. Cardinality(Covered(n)) \in Nat /\ Cardinality(free) = NumVars - Cardinality(Covered(n))
  <2>1. IsFiniteSet(Covered(n)) /\ Cardinality(Covered(n)) \in Nat  BY <1>5, <1>12, FS_Subset, FS_CardinalityType
  <2>2. Vars \cap Covered(n) = Covered(n)  BY <1>12
  <2>3. Cardinality(Vars \ Covered(n)) = Cardinality(Vars) - Cardinality(Vars \cap Covered(n))
    BY <1>5, FS_Difference
  <2>. QED  BY <1>5, <1>6, <2>1, <2>2, <2>3
<1>. HIDE DEF tail
<1>17. grafted' = FlattenSeq(seqs) \o tail  BY <1>2 DEF tail
<1>18. Len(grafted') = Len(FlattenSeq(seqs)) + Len(tail) /\ ToSet(grafted') = ToSet(FlattenSeq(seqs)) \cup ToSet(tail)
  <2>1. \A s, t \in Seq(Vars) : Len(s \o t) = Len(s) + Len(t) /\ ToSet(s \o t) = ToSet(s) \cup ToSet(t)
    BY ConcatHolds
  <2>. QED  BY <1>13, <1>15, <1>17, <2>1
<1>19. Len(grafted') = NumVars
  BY <1>5, <1>13, <1>15, <1>16, <1>18
<1>20. ToSet(grafted') = Vars  BY <1>6, <1>12, <1>13, <1>15, <1>18
<1>. QED  BY <1>19, <1>20
-----------------------------------------------------------------------------
(***************************************************************************)
(* The pace: while no build has outlived its deadline, the time left of    *)
(* the whole budget is in proportion to the clauses left.                  *)
(***************************************************************************)

\* The j-th component was done by its deadline when the clock read t.
InTime(e, t) == (e.deadline = None => t = e.from) /\ (e.deadline # None => t <= e.deadline)

\* So were all the components before the k-th.
Paced(r, k) == \A j \in 1 .. k - 1 : InTime(r[j], r[j + 1].from)

\* So were all recorded by now.
PacedByNow ==
  LET n == Len(vtrees)
  IN  Paced(vtrees, n) /\ (n > 0 => InTime(vtrees[n], now))

Pace ==
  Working /\ req.deadline # None /\ PacedByNow =>
    req.deadline * clausesLeft <= (req.deadline - now) * Len(req.clauses)

\* What the property says of the i-th entry of the record r.
Served(r, i) ==
  r[i].deadline # None =>
    /\ r[i].deadline <= req.deadline
    /\ i = Len(comps) => r[i].deadline = req.deadline
    /\ Paced(r, i) => r[i].deadline - r[i].from >= (req.deadline * WeightOf(i)) \div TotalWeight

LEMMA ServedIsTheProperty ==
  ASSUME History
  PROVE  NoComponentStarves <=> \A i \in 1 .. Len(vtrees) : Served(vtrees, i)
<1>1. DOMAIN vtrees = 1 .. Len(vtrees)  BY DEF History
<1>2. ASSUME NEW i \in 1 .. Len(vtrees)
      PROVE  Paced(vtrees, i) <=>
               \A j \in 1 .. i - 1 :
                 /\ vtrees[j].deadline = None => vtrees[j + 1].from = vtrees[j].from
                 /\ vtrees[j].deadline # None => vtrees[j + 1].from <= vtrees[j].deadline
  BY DEF Paced, InTime
<1>. QED  BY <1>1, <1>2 DEF NoComponentStarves, Served

\* A component's share, and what is left after it.
LEMMA SharesAreFair ==
  ASSUME Splitting, History, Accounts, Pace, Buildable, req.deadline # None, PacedByNow
  PROVE  LET w == Cardinality(Here)
             D == req.deadline
             T == Len(req.clauses)
         IN  /\ now <= D
             /\ ComponentDeadline(w) - now >= (D * w) \div T
             /\ D * (clausesLeft - w) <= (D - ComponentDeadline(w)) * T
             /\ D * (clausesLeft - w) <= (D - now) * T
<1>. DEFINE w == Cardinality(Here)
            D == req.deadline
            T == Len(req.clauses)
            c == clausesLeft
            L == D - now
            q == (L * w) \div c
<1>1. /\ w \in Nat \ {0} /\ c \in Nat \ {0} /\ w <= c /\ T \in Nat \ {0}
  BY WeightHere
<1>2. D \in Nat /\ now \in Nat  BY ComponentFacts DEF History
<1>3. D * c <= L * T  BY DEF Pace, Working, Buildable
<1>4. now <= D => ComponentDeadline(w) = D - (L - q)
  <2>1. /\ now <= D => LeftUntil(D) = L
        /\ ComponentDeadline(w) = D - (LeftUntil(D) - (LeftUntil(D) * w) \div c)
    BY DeadlineHere
  <2>. HIDE DEF w, D, c
  <2>. QED  BY <2>1
<1>. HIDE DEF w, D, T, c
<1>5. L \in Int /\ 0 <= L
  <2>1. L \in Int  BY <1>2
  <2>2. D * c \in Nat /\ 0 * T = 0  BY <1>1, <1>2
  <2>. HIDE DEF L
  <2>3. L * T \in Int  BY <1>1, <2>1
  <2>4. 0 * T <= L * T  BY <1>3, <2>2, <2>3
  <2>. QED  BY <1>1, <2>1, <2>4, ScaleDown
<1>6. now <= D /\ L \in Nat  BY <1>2, <1>5
<1>7. (D * w) \div T <= q /\ D * (c - w) <= (L - q) * T /\ q \in 0 .. L
  <2>. HIDE DEF L
  <2>. QED  BY <1>1, <1>2, <1>3, <1>6, ShareKeepsPace, ShareIsPart
<1>8. L - q <= L /\ L - q \in Int /\ L \in Int  BY <1>6, <1>7
<1>. HIDE DEF q
<1>9. (L - q) * T <= L * T
  <2>. HIDE DEF L
  <2>. QED  BY <1>1, <1>8, ScaleUp
<1>10. D * (c - w) \in Int /\ (L - q) * T \in Int /\ L * T \in Int /\ q \in Int /\ (D * w) \div T \in Int
  <2>1. c - w \in Int /\ D * w \in Nat  BY <1>1, <1>2
  <2>2. (D * w) \div T \in Nat  BY <1>1, <2>1, Divide
  <2>. HIDE DEF L
  <2>. QED  BY <1>1, <1>2, <1>7, <1>8, <2>1, <2>2
<1>11. D * (c - w) <= L * T
  <2>. HIDE DEF L
  <2>. QED  BY <1>7, <1>9, <1>10
<1>12. ComponentDeadline(w) - now = q /\ D - ComponentDeadline(w) = L - q
  <2>1. ComponentDeadline(w) = D - (L - q)  BY <1>4, <1>6
  <2>. QED  BY <1>2, <1>10, <2>1
<1>. QED  BY <1>6, <1>7, <1>10, <1>11, <1>12 DEF w, D, T, c, L

\* A component added keeps the pace, and is served.
LEMMA AddsKeepPace ==
  ASSUME Splitting, History, Accounts, Pace, NoComponentStarves, Buildable,
         NEW to, NEW key, NEW tree \in Renamings(ViewHere.size), NEW reused \in BOOLEAN,
         NEW deadline \in Nat \cup {None}, Adds(tree, reused, deadline, key, to)
  PROVE  Pace' /\ NoComponentStarves'
<1>. DEFINE n == Len(vtrees)
            w == Cardinality(Here)
            D == req.deadline
            T == Len(req.clauses)
            e == [tree |-> tree, view |-> ViewHere, reused |-> reused, from |-> now, deadline |-> deadline]
<1>1. /\ n \in Nat /\ n + 1 \in 1 .. Len(comps) /\ Len(vtrees') = n + 1
      /\ \A i \in 1 .. n : vtrees'[i] = vtrees[i]
      /\ vtrees'[n + 1] = e
      /\ History' /\ UNCHANGED <<phase, req, comps>>
      /\ clausesLeft' = clausesLeft - w
  BY TakesAppends DEF Adds
<1>2. e.from = now /\ e.deadline = deadline /\ now \in Nat /\ now' \in Nat  BY DEF History, Adds
<1>3. deadline # None => D # None /\ deadline = ComponentDeadline(w)
  BY DeadlineHere DEF Adds
<1>4. D # None => /\ D \in Nat /\ ComponentDeadline(w) \in 0 .. D
                  /\ n + 1 = Len(comps) => ComponentDeadline(w) = D
  BY DeadlineHere
<1>5. D # None /\ PacedByNow =>
        /\ now <= D
        /\ ComponentDeadline(w) - now >= (D * w) \div T
        /\ D * (clausesLeft - w) <= (D - ComponentDeadline(w)) * T
        /\ D * (clausesLeft - w) <= (D - now) * T
  BY SharesAreFair
<1>6. T \in Nat \ {0} /\ clausesLeft - w \in Nat
  <2>1. /\ w \in Nat \ {0} /\ clausesLeft \in Nat \ {0} /\ w <= clausesLeft /\ T \in Nat \ {0}
    BY WeightHere
  <2>. HIDE DEF w, T
  <2>. QED  BY <2>1
<1>7. WeightOf(n + 1) = w /\ TotalWeight = T  BY DEF WeightOf, TotalWeight, Here
<1>. HIDE DEF n, w, D, T, e
<1>8. Paced(vtrees', n + 1) => PacedByNow
  <2>. SUFFICES ASSUME Paced(vtrees', n + 1) PROVE PacedByNow  OBVIOUS
  <2>1. \A j \in 1 .. n : InTime(vtrees'[j], vtrees'[j + 1].from)
    <3>1. (n + 1) - 1 = n  BY <1>1
    <3>. QED  BY <3>1 DEF Paced
  <2>2. ASSUME NEW j \in 1 .. n - 1 PROVE InTime(vtrees[j], vtrees[j + 1].from)
    <3>1. j \in 1 .. n /\ j + 1 \in 1 .. n  BY <1>1
    <3>. QED  BY <1>1, <2>1, <3>1
  <2>3. n > 0 => InTime(vtrees[n], now)
    <3>. SUFFICES ASSUME n > 0 PROVE InTime(vtrees[n], now)  OBVIOUS
    <3>1. n \in 1 .. n  BY <1>1
    <3>. QED  BY <1>1, <1>2, <2>1, <3>1
  <2>. QED  BY <2>2, <2>3 DEF PacedByNow, Paced, n
<1>9. Pace'
  <2>. SUFFICES ASSUME Working', D # None, PacedByNow'
                PROVE  D * (clausesLeft - w) <= (D - now') * T
    BY <1>1 DEF Pace, D, T
  <2>1. Paced(vtrees', n + 1) /\ InTime(e, now')
    <3>1. Paced(vtrees', n + 1) /\ (n + 1 > 0 => InTime(vtrees'[n + 1], now'))
      BY <1>1 DEF PacedByNow, Paced, InTime
    <3>2. n + 1 > 0  BY <1>1
    <3>. QED  BY <1>1, <3>1, <3>2
  <2>2. /\ ComponentDeadline(w) - now >= (D * w) \div T
        /\ D * (clausesLeft - w) <= (D - ComponentDeadline(w)) * T
        /\ D * (clausesLeft - w) <= (D - now) * T
    BY <1>5, <1>8, <2>1
  <2>3. CASE deadline = None
    <3>1. now' = now  BY <1>2, <2>1, <2>3 DEF InTime
    <3>. QED  BY <2>2, <3>1
  <2>4. CASE deadline # None
    <3>1. now' <= ComponentDeadline(w)  BY <1>2, <1>3, <2>1, <2>4 DEF InTime
    <3>. DEFINE x == D - ComponentDeadline(w)
                y == D - now'
    <3>2. x \in Int /\ y \in Int /\ x <= y /\ D \in Nat  BY <1>2, <1>4, <3>1
    <3>. HIDE DEF x, y
    <3>3. x * T <= y * T  BY <1>6, <3>2, ScaleUp
    <3>4. x * T \in Int /\ y * T \in Int /\ D * (clausesLeft - w) \in Int  BY <1>6, <3>2
    <3>5. D * (clausesLeft - w) <= x * T  BY <2>2 DEF x
    <3>6. D * (clausesLeft - w) <= y * T  BY <3>3, <3>4, <3>5
    <3>. QED  BY <3>6 DEF y
  <2>. QED  BY <2>3, <2>4
<1>10. NoComponentStarves'
  <2>1. \A i \in 1 .. n : Served(vtrees, i)  BY ServedIsTheProperty DEF n
  <2>2. ASSUME NEW i \in 1 .. n PROVE Served(vtrees', i)
    <3>1. Paced(vtrees', i) <=> Paced(vtrees, i)
      <4>1. \A j \in 1 .. i - 1 : j \in 1 .. n /\ j + 1 \in 1 .. n  BY <1>1
      <4>. QED  BY <1>1, <4>1 DEF Paced
    <3>. QED  BY <1>1, <2>1, <3>1 DEF Served
  <2>3. Served(vtrees', n + 1)
    <3>. SUFFICES ASSUME deadline # None
                  PROVE  /\ deadline <= D
                         /\ n + 1 = Len(comps) => deadline = D
                         /\ Paced(vtrees', n + 1) => deadline - now >= (D * w) \div T
      BY <1>1, <1>2, <1>7 DEF Served, D
    <3>1. deadline = ComponentDeadline(w) /\ D # None  BY <1>3
    <3>2. deadline <= D /\ (n + 1 = Len(comps) => deadline = D)  BY <1>4, <3>1
    <3>3. Paced(vtrees', n + 1) => deadline - now >= (D * w) \div T
      BY <1>5, <1>8, <3>1
    <3>. QED  BY <3>2, <3>3
  <2>4. \A i \in 1 .. n + 1 : Served(vtrees', i)
    <3>1. \A i \in 1 .. n + 1 : i \in 1 .. n \/ i = n + 1  BY <1>1
    <3>. QED  BY <2>2, <2>3, <3>1
  <2>5. DOMAIN vtrees' = 1 .. n + 1  BY <1>1 DEF History
  <2>6. ASSUME NEW i \in 1 .. n + 1
        PROVE  Paced(vtrees', i) <=>
                 \A j \in 1 .. i - 1 :
                   /\ vtrees'[j].deadline = None => vtrees'[j + 1].from = vtrees'[j].from
                   /\ vtrees'[j].deadline # None => vtrees'[j + 1].from <= vtrees'[j].deadline
    BY DEF Paced, InTime
  <2>. QED  BY <1>1, <2>4, <2>5, <2>6 DEF NoComponentStarves, Served, WeightOf, TotalWeight
<1>. QED  BY <1>9, <1>10
-----------------------------------------------------------------------------
(***************************************************************************)
(* The inductive invariant, and the properties that follow.                *)
(***************************************************************************)
Inv ==
  /\ Splitting /\ History /\ Accounts
  /\ CacheFits /\ ReusedTreesFit /\ OneLeafPerVariable
  /\ Pace /\ NoComponentStarves

LEMMA InitInv == Init => Inv
<1>. SUFFICES ASSUME Init PROVE Inv  OBVIOUS
<1>1. /\ phase = "splitting" /\ req \in Requests /\ comps = <<>> /\ vtrees = <<>> /\ now = 0
      /\ clausesLeft = Len(req.clauses) /\ DOMAIN cache = {}
  BY DEF Init
<1>2. Splitting  BY SplittingSteps
<1>3. req.clauses \in Formulas /\ req.deadline \in Nat \cup {None}  BY <1>2, ComponentFacts
<1>4. Len(vtrees) = 0 /\ DOMAIN vtrees = {} /\ Len(comps) = 0 /\ vtrees \in Seq(Entries)  BY <1>1
<1>5. History  BY <1>1, <1>4 DEF History
<1>6. Accounts
  <2>1. Rest(0) = DOMAIN req.clauses  BY DEF Rest
  <2>2. Cardinality(DOMAIN req.clauses) = Len(req.clauses)  BY <1>3, GroupsAreFinite
  <2>. QED  BY <1>1, <1>4, <2>1, <2>2 DEF Accounts
<1>7. CacheFits /\ ReusedTreesFit /\ OneLeafPerVariable /\ NoComponentStarves
  BY <1>1, <1>4 DEF CacheFits, ReusedTreesFit, OneLeafPerVariable, NoComponentStarves
<1>8. Pace
  <2>. SUFFICES ASSUME req.deadline # None
                PROVE  req.deadline * Len(req.clauses) <= (req.deadline - 0) * Len(req.clauses)
    BY <1>1 DEF Pace
  <2>. DEFINE T == Len(req.clauses)
              D == req.deadline
  <2>1. T \in Nat /\ D \in Nat  BY <1>3 DEF Formulas
  <2>. HIDE DEF T, D
  <2>2. D * T <= (D - 0) * T  BY <2>1
  <2>. QED  BY <2>2 DEF T, D
<1>. QED  BY <1>2, <1>5, <1>6, <1>7, <1>8 DEF Inv

LEMMA BuildTimesAreTimes ==
  ASSUME Splitting, History, NEW deadline \in Nat \cup {None}, NEW b \in BuildTimes(deadline)
  PROVE  b[1] \in Nat
<1>1. CASE deadline = None  BY <1>1, ComponentAssumption DEF BuildTimes
<1>2. CASE deadline # None
  <2>1. LeftUntil(deadline) \in Nat  BY <1>2 DEF LeftUntil, History
  <2>. QED  BY <1>2, <2>1, ComponentAssumption DEF BuildTimes
<1>. QED  BY <1>1, <1>2

\* A step that adds no component keeps what is recorded.
LEMMA RecordKept ==
  ASSUME Inv, now' \in Nat, UNCHANGED <<req, comps, cache, vtrees>>
  PROVE  History' /\ CacheFits' /\ ReusedTreesFit' /\ NoComponentStarves'
<1>. USE DEF Inv
<1>1. History'  BY DEF History, Entries
<1>2. CacheFits'
  <2>. SUFFICES ASSUME NEW k \in DOMAIN cache'
                PROVE  \E j \in 1 .. Len(vtrees') : Stores(k, cache'[k], vtrees'[j])
    BY DEF CacheFits, Stores, Numberings, Key, IsTiny, ToCanonical, Renamed
  <2>. QED  BY DEF CacheFits
<1>3. ReusedTreesFit'
  <2>. DEFINE Fits(r, i) == r[i].reused => \E j \in 1 .. i - 1 : FitsLike(r[i].tree, r[i].view, r[j])
  <2>1. ReusedTreesFit <=> \A i \in DOMAIN vtrees : Fits(vtrees, i)
    BY DEF ReusedTreesFit, FitsLike
  <2>2. ReusedTreesFit' <=> \A i \in DOMAIN vtrees' : Fits(vtrees', i)
    BY DEF ReusedTreesFit, FitsLike, Isomorphism, Renamings, Renamed, IsTiny
  <2>. HIDE DEF Fits
  <2>. QED  BY <2>1, <2>2
<1>4. NoComponentStarves'  BY DEF NoComponentStarves, WeightOf, TotalWeight
<1>. QED  BY <1>1, <1>2, <1>3, <1>4

\* Nor does one that ends the work disturb the rest.
LEMMA EndsInv ==
  ASSUME Inv, Splitting', now' \in Nat, ~Working', OneLeafPerVariable',
         UNCHANGED <<req, comps, cache, vtrees>>
  PROVE  Inv'
<1>1. Accounts' /\ Pace'  BY DEF Accounts, Pace
<1>2. History' /\ CacheFits' /\ ReusedTreesFit' /\ NoComponentStarves'  BY RecordKept
<1>. QED  BY <1>1, <1>2 DEF Inv

LEMMA SplitInv ==
  ASSUME Inv, Splitting', Split
  PROVE  Inv'
<1>. USE DEF Inv
<1>1. /\ phase = "splitting" /\ phase' = "building"
      /\ UNCHANGED <<req, now, clausesLeft, cache, vtrees>>
  BY DEF Split
<1>2. vtrees = <<>> /\ Len(vtrees) = 0 /\ DOMAIN vtrees = {}
  <2>1. comps = <<>>  BY <1>1 DEF Splitting
  <2>2. vtrees \in Seq(Entries) /\ Len(vtrees) <= 0  BY <2>1 DEF History
  <2>3. Len(vtrees) = 0  BY <2>2
  <2>. QED  BY <2>2, <2>3
<1>3. History'
  <2>1. Len(comps') \in Nat
    <3>. DEFINE found == DetectComponents(req.clauses)
    <3>1. /\ req.clauses \in Formulas /\ found # <<>>
          /\ comps' = [i \in DOMAIN found |-> [clauses |-> found[i], view |-> LocalView(req, found[i])]]
      BY ComponentFacts DEF Split
    <3>2. found \in [1 .. Cardinality(Groups(req.clauses)) -> Groups(req.clauses)]
      BY <3>1, DetectedAreListed DEF Lists
    <3>3. Cardinality(Groups(req.clauses)) \in Nat  BY <3>1, GroupsAreFinite, FS_CardinalityType
    <3>. HIDE DEF found
    <3>. QED  BY <3>1, <3>2, <3>3
  <2>2. vtrees' \in Seq(Entries')  BY <1>1, <1>2
  <2>3. now' \in Nat  BY <1>1 DEF History
  <2>. QED  BY <1>1, <1>2, <2>1, <2>2, <2>3 DEF History
<1>4. Accounts'
  <2>1. Rest(0)' = Rest(0)  BY <1>1 DEF Rest
  <2>. QED  BY <1>1, <1>2, <2>1 DEF Accounts, Working
<1>5. CacheFits'
  <2>1. DOMAIN cache = {}  BY <1>2 DEF CacheFits
  <2>. QED  BY <1>1, <2>1 DEF CacheFits
<1>6. ReusedTreesFit' /\ OneLeafPerVariable' /\ NoComponentStarves'
  BY <1>1, <1>2 DEF ReusedTreesFit, OneLeafPerVariable, NoComponentStarves
<1>7. Pace'
  BY <1>1, <1>2 DEF Pace, Working, PacedByNow, Paced, InTime
<1>. QED  BY <1>3, <1>4, <1>5, <1>6, <1>7

LEMMA StepInv == Inv /\ [Next]_vars => Inv'
<1>. SUFFICES ASSUME Inv, [Next]_vars PROVE Inv'  OBVIOUS
<1>. USE DEF Inv
<1>1. Splitting'  BY SplittingSteps
<1>2. CASE Split  BY <1>1, <1>2, SplitInv
<1>3. CASE BuildWhole
  <2>1. PICK b \in BuildTimes(req.deadline) : now' = now + b[1]  BY <1>3 DEF BuildWhole
  <2>2. now' \in Nat
    <3>1. req.deadline \in Nat \cup {None}  BY ComponentFacts
    <3>. QED  BY <2>1, <3>1, BuildTimesAreTimes DEF History
  <2>3. \/ phase' = "grafted" /\ grafted' \in Trees(NumVars)
        \/ phase' = "failed"
    BY <1>3 DEF BuildWhole
  <2>4. OneLeafPerVariable'
    <3>. SUFFICES ASSUME grafted' \in Trees(NumVars)
                  PROVE  Len(grafted') = NumVars /\ ToSet(grafted') = Vars
      BY <2>3 DEF OneLeafPerVariable
    <3>1. NumVars \in Nat  BY NumVarsAssumption
    <3>2. /\ grafted' \in [1 .. NumVars -> 1 .. NumVars]
          /\ \A y \in 1 .. NumVars : \E x \in 1 .. NumVars : grafted'[x] = y
      BY <3>1, TreesRename, RenamingIsOnto
    <3>3. Len(grafted') = NumVars /\ DOMAIN grafted' = 1 .. NumVars  BY <3>1, <3>2
    <3>. QED  BY <3>2, <3>3 DEF ToSet, Vars
  <2>5. UNCHANGED <<req, comps, cache, vtrees>> /\ ~Working'  BY <1>3, <2>3 DEF BuildWhole, Working
  <2>. QED  BY <1>1, <2>2, <2>4, <2>5, EndsInv
<1>4. CASE EmptyPanics
  <2>1. /\ UNCHANGED <<req, comps, cache, vtrees>> /\ ~Working' /\ OneLeafPerVariable'
        /\ now' \in Nat
    BY <1>4 DEF EmptyPanics, Working, OneLeafPerVariable, History
  <2>. QED  BY <1>1, <2>1, EndsInv
<1>5. CASE Graft
  <2>1. UNCHANGED <<req, comps, cache, vtrees>> /\ ~Working' /\ now' \in Nat
    BY <1>5 DEF Graft, Working, History
  <2>2. OneLeafPerVariable'  BY <1>5, GraftIsWhole DEF OneLeafPerVariable
  <2>. QED  BY <1>1, <2>1, <2>2, EndsInv
<1>6. CASE Returned \/ UNCHANGED vars
  <2>1. UNCHANGED vars  BY <1>6 DEF Returned
  <2>2. UNCHANGED <<req, comps, cache, vtrees>> /\ now' \in Nat  BY <2>1 DEF vars, History
  <2>3. History' /\ CacheFits' /\ ReusedTreesFit' /\ NoComponentStarves'  BY <2>2, RecordKept
  <2>4. Accounts'
    <3>. DEFINE k == Len(vtrees)
    <3>1. Rest(k)' = Rest(k)  BY <2>1 DEF vars, Rest
    <3>. QED  BY <2>1, <3>1 DEF vars, Accounts, Working
  <2>5. OneLeafPerVariable'  BY <2>1 DEF vars, OneLeafPerVariable
  <2>6. Pace'  BY <2>1 DEF vars, Pace, Working, PacedByNow, Paced, InTime
  <2>. QED  BY <1>1, <2>3, <2>4, <2>5, <2>6
<1>7. ASSUME Buildable, NEW to \in Numberings(ViewHere), ComponentFails(Key(ViewHere, to))
      PROVE  Inv'
  <2>1. PICK b \in BuildTimes(ComponentDeadline(Cardinality(Here))) : now' = now + b[1]
    BY <1>7 DEF ComponentFails
  <2>2. now' \in Nat
    <3>1. ComponentDeadline(Cardinality(Here)) \in Nat \cup {None}  BY <1>7, DeadlineHere
    <3>. QED  BY <2>1, <3>1, BuildTimesAreTimes DEF History
  <2>3. UNCHANGED <<req, comps, cache, vtrees>> /\ ~Working' /\ OneLeafPerVariable'
    BY <1>7 DEF ComponentFails, Working, OneLeafPerVariable
  <2>. QED  BY <1>1, <2>2, <2>3, EndsInv
<1>8. ASSUME Buildable, NEW to \in Numberings(ViewHere), NEW key, key = Key(ViewHere, to),
             Reuse(key, to) \/ BuildTiny(key, to) \/ BuildComponent(key, to)
      PROVE  Inv'
  <2>1. PICK tree \in Renamings(ViewHere.size), reused \in BOOLEAN, deadline \in Nat \cup {None} :
          Adds(tree, reused, deadline, key, to)
    BY <1>8, StepsAdd
  <2>2. History' /\ Accounts' /\ phase' = phase
    BY <1>8, <2>1, TakesAppends DEF Adds
  <2>3. CacheFits' /\ ReusedTreesFit'  BY <1>8, <2>1, AddsFit
  <2>4. Pace' /\ NoComponentStarves'  BY <1>8, <2>1, AddsKeepPace
  <2>5. OneLeafPerVariable'  BY <1>8, <2>2 DEF Buildable, OneLeafPerVariable
  <2>. QED  BY <1>1, <2>2, <2>3, <2>4, <2>5
<1>. QED  BY <1>2, <1>3, <1>4, <1>5, <1>6, <1>7, <1>8, NextActions

\* The invariant of split, cache, graft and clock holds in every state of a build.
THEOREM InvHolds == Spec => []Inv
BY InitInv, StepInv, PTL DEF Spec

\* As long as no build outlives its own deadline, every component starts with at
\* least its share of the whole budget, and the last can use all that is left,
\* for every deadline, formula and order of events.
THEOREM NoComponentEverStarves == Spec => []NoComponentStarves
<1>1. Inv => NoComponentStarves  BY DEF Inv
<1>. QED  BY <1>1, InvHolds, PTL

\* The trees of a build fit what they stand for, whatever numbering each
\* component is given: the cached, the reused and the grafted ones.
THEOREM TreesAlwaysFit == Spec => []TreesFit
<1>1. Inv => TreesFit
  <2>. SUFFICES ASSUME Inv PROVE CachedTreesAreWhole  BY DEF Inv, TreesFit
  <2>. USE DEF Inv
  <2>1. ASSUME NEW k \in DOMAIN cache
        PROVE  Len(cache[k]) = k.size /\ ToSet(cache[k]) = 1 .. k.size
    <3>1. PICK j \in 1 .. Len(vtrees) : Stores(k, cache[k], vtrees[j])  BY DEF CacheFits
    <3>. DEFINE view == vtrees[j].view
                tree == vtrees[j].tree
                n == view.size
    <3>2. PICK to \in Numberings(view) : k = Key(view, to) /\ cache[k] = ToCanonical(tree, to)
      BY <3>1 DEF Stores
    <3>3. n \in Nat /\ tree \in Renamings(n)
      <4>1. j \in 1 .. Len(comps)  BY ComponentFacts DEF History
      <4>2. view = comps[j].view /\ tree \in Renamings(comps[j].view.size)  BY <3>1 DEF History
      <4>3. comps[j].view.size \in 0 .. NumVars  BY <4>1, ComponentFacts
      <4>4. NumVars \in Nat  BY NumVarsAssumption
      <4>. HIDE DEF view, tree
      <4>. QED  BY <4>2, <4>3, <4>4
    <3>. HIDE DEF view, tree
    <3>4. to \in Renamings(n)  BY <3>3, NumberingsRename
    <3>5. k.size = n  BY <3>2 DEF Key
    <3>. HIDE DEF n
    <3>6. /\ tree \in [1 .. n -> 1 .. n] /\ \A y \in 1 .. n : \E x \in 1 .. n : tree[x] = y
          /\ to \in [1 .. n -> 1 .. n] /\ \A y \in 1 .. n : \E x \in 1 .. n : to[x] = y
      BY <3>3, <3>4, RenamingIsOnto
    <3>. DEFINE c == [x \in 1 .. n |-> to[tree[x]]]
    <3>7. cache[k] = c  BY <3>2, <3>6 DEF ToCanonical
    <3>8. c \in [1 .. n -> 1 .. n]  BY <3>6
    <3>9. \A y \in 1 .. n : \E x \in 1 .. n : c[x] = y
      <4>. SUFFICES ASSUME NEW y \in 1 .. n PROVE \E x \in 1 .. n : c[x] = y  OBVIOUS
      <4>1. PICK z \in 1 .. n : to[z] = y  BY <3>6
      <4>2. PICK x \in 1 .. n : tree[x] = z  BY <3>6
      <4>. QED  BY <4>1, <4>2
    <3>. HIDE DEF c
    <3>10. Len(c) = n /\ DOMAIN c = 1 .. n  BY <3>3, <3>8
    <3>11. ToSet(c) = 1 .. n  BY <3>8, <3>9, <3>10 DEF ToSet
    <3>. QED  BY <3>5, <3>7, <3>10, <3>11
  <2>. QED  BY <2>1 DEF CachedTreesAreWhole
<1>. QED  BY <1>1, InvHolds, PTL
=============================================================================

----------------------------- MODULE FoldProofs -----------------------------
(***************************************************************************)
(* Induction in the form the provers can use, about sets of numbers, and   *)
(* what it says of recursion over ranked elements and of the folds of the  *)
(* community modules: a fold over a sequence is the last of the values its *)
(* steps go through.  Then sequences that hold each element of a set once: *)
(* joined, flattened, cut down to a part, and sorted by a strict order.    *)
(***************************************************************************)
EXTENDS Integers, SequencesExt, SequenceTheorems, FiniteSetTheorems, WellFoundedInduction, TLAPS

LEMMA LeastElement ==
  ASSUME NEW S \in SUBSET Nat, S # {}
  PROVE  \E n \in S : \A m \in S : n <= m
<1>. DEFINE R == {ss \in Nat \X Nat : ss[1] < ss[2]}
<1>1. IsWellFoundedOn(R, Nat)
  BY NatLessThanWellFounded, Zenon DEF OpToRel
<1>2. PICK n \in S : \A m \in S : ~ (<<m, n>> \in R)
  BY <1>1, WFMin
<1>3. ASSUME NEW m \in S PROVE n <= m
  <2>1. ~ (<<m, n>> \in R)  BY <1>2
  <2>. QED  BY <2>1
<1>. QED  BY <1>3

LEMMA SetInduction ==
  ASSUME NEW S, 0 \in S, \A n \in Nat : n \in S => n + 1 \in S
  PROVE  Nat \subseteq S
<1>. SUFFICES ASSUME Nat \ S # {} PROVE FALSE  OBVIOUS
<1>1. PICK n \in Nat \ S : \A m \in Nat \ S : n <= m  BY LeastElement
<1>2. n # 0 /\ n - 1 \in Nat  BY <1>1
<1>3. n - 1 \in S  BY <1>1, <1>2
<1>. QED  BY <1>1, <1>2, <1>3

\* The same up to a bound.
LEMMA BoundedInduction ==
  ASSUME NEW N \in Nat, NEW S, 0 \in S, \A n \in 0 .. N - 1 : n \in S => n + 1 \in S
  PROVE  0 .. N \subseteq S
<1>. DEFINE T == {n \in Nat : n <= N => n \in S}
<1>1. 0 \in T /\ \A n \in Nat : n \in T => n + 1 \in T  OBVIOUS
<1>2. Nat \subseteq T  BY <1>1, SetInduction
<1>. QED  BY <1>2

\* The step gives x a value that depends on those of lower rank alone.
Recursion(step, rank, N, D, V) ==
  /\ N \in Nat /\ rank \in [D -> 0 .. N]
  /\ step \in [D \X [D -> V] -> V]
  /\ \A x \in D : \A f, g \in [D -> V] :
       (\A y \in D : rank[y] < rank[x] => f[y] = g[y]) => step[<<x, f>>] = step[<<x, g>>]

Recurses(f, step, D, V) == f \in [D -> V] /\ \A x \in D : f[x] = step[<<x, f>>]

\* A function that recursion over ranked elements defines exists.
LEMMA RankedRecursion ==
  ASSUME NEW D, NEW V, NEW v \in V, NEW N, NEW rank, NEW step, Recursion(step, rank, N, D, V)
  PROVE  \E f : Recurses(f, step, D, V)
<1>. N \in Nat /\ rank \in [D -> 0 .. N] /\ step \in [D \X [D -> V] -> V]  BY DEF Recursion
<1>. DEFINE Upto == {k \in 0 .. N + 1 : \E f \in [D -> V] : \A x \in D : rank[x] < k => f[x] = step[<<x, f>>]}
<1>1. 0 \in Upto
  <2>. DEFINE z == [x \in D |-> v]
  <2>1. z \in [D -> V]  OBVIOUS
  <2>2. \A x \in D : ~ (rank[x] < 0)
    <3>1. \A x \in D : rank[x] \in 0 .. N  OBVIOUS
    <3>. QED  BY <3>1
  <2>. HIDE DEF z
  <2>. QED  BY <2>1, <2>2, 0 \in 0 .. N + 1
<1>2. ASSUME NEW k \in 0 .. (N + 1) - 1, k \in Upto
      PROVE  k + 1 \in Upto
  <2>1. PICK f \in [D -> V] : \A x \in D : rank[x] < k => f[x] = step[<<x, f>>]  BY <1>2
  <2>. DEFINE g == [x \in D |-> step[<<x, f>>]]
  <2>2. g \in [D -> V]  OBVIOUS
  <2>3. ASSUME NEW x \in D, rank[x] < k + 1
        PROVE  g[x] = step[<<x, g>>]
    <3>1. ASSUME NEW y \in D, rank[y] < rank[x] PROVE f[y] = g[y]
      <4>1. rank[y] \in Int /\ rank[x] \in Int /\ k \in Int  OBVIOUS
      <4>2. rank[y] < k  BY <2>3, <3>1, <4>1
      <4>. QED  BY <2>1, <4>2
    <3>. HIDE DEF g
    <3>2. step[<<x, f>>] = step[<<x, g>>]  BY <2>2, <3>1 DEF Recursion
    <3>. QED  BY <3>2 DEF g
  <2>4. k + 1 \in 0 .. N + 1  OBVIOUS
  <2>. HIDE DEF g
  <2>. QED  BY <2>2, <2>3, <2>4
<1>3. N + 1 \in Upto
  <2>. HIDE DEF Upto
  <2>1. N + 1 \in Nat  OBVIOUS
  <2>2. 0 .. N + 1 \subseteq Upto  BY <1>1, <1>2, <2>1, BoundedInduction
  <2>. QED  BY <2>2, N + 1 \in 0 .. N + 1
<1>4. PICK f \in [D -> V] : \A x \in D : rank[x] < N + 1 => f[x] = step[<<x, f>>]  BY <1>3
<1>5. \A x \in D : rank[x] < N + 1
  <2>1. \A x \in D : rank[x] \in 0 .. N  OBVIOUS
  <2>. QED  BY <2>1
<1>6. f \in [D -> V] /\ \A x \in D : f[x] = step[<<x, f>>]  BY <1>4, <1>5
<1>. QED  BY <1>6 DEF Recurses

LEMMA MaxOfNumbers ==
  ASSUME NEW n \in Nat, NEW T \in SUBSET (1 .. n), T # {}
  PROVE  Max(T) \in T /\ \A m \in T : m <= Max(T)
<1>. DEFINE Above == {k \in Nat : \A m \in T : m <= k}
<1>1. n \in Above  OBVIOUS
<1>2. PICK k \in Above : \A j \in Above : k <= j  BY <1>1, LeastElement
<1>3. k \in T
  <2>. SUFFICES ASSUME k \notin T PROVE FALSE  OBVIOUS
  <2>1. \A m \in T : m <= k - 1  BY <1>2
  <2>2. k - 1 \in Nat
    <3>1. PICK m \in T : TRUE  OBVIOUS
    <3>2. m \in Int /\ 1 <= m /\ m <= k - 1  BY <2>1
    <3>. QED  BY <3>2
  <2>. QED  BY <1>2, <2>1, <2>2
<1>. QED  BY <1>2, <1>3 DEF Max

\* What a fold over the numbers 1 .. n gives every set of them: step[<<k, v>>] is
\* its step at k.
IsIteration(g, n, base, step) ==
  \A T \in SUBSET (1 .. n) : g[T] = IF T = {} THEN base ELSE step[<<Max(T), g[T \ {Max(T)}]>>]

\* The same, said of no more than what the steps are defined on.
Iterates(iter, n, St, base, step) ==
  /\ iter[{}] = base
  /\ \A T \in (SUBSET (1 .. n)) \ {{}} :
       iter[T \ {Max(T)}] \in St => iter[T] = step[<<Max(T), iter[T \ {Max(T)}]>>]

\* The iteration a fold is defined by exists, whatever its step.
LEMMA IterationExists ==
  ASSUME NEW n \in Nat, NEW St, NEW base \in St, NEW step \in [(1 .. n) \X St -> St]
  PROVE  \E g \in [SUBSET (1 .. n) -> St] : IsIteration(g, n, base, step)
<1>. DEFINE Good(k, g) == \A T \in SUBSET (1 .. k) :
                            g[T] = IF T = {} THEN base ELSE step[<<Max(T), g[T \ {Max(T)}]>>]
            Upto == {k \in 0 .. n : \E g \in [SUBSET (1 .. k) -> St] : Good(k, g)}
<1>1. 0 \in Upto
  <2>1. [T \in SUBSET (1 .. 0) |-> base] \in [SUBSET (1 .. 0) -> St]  OBVIOUS
  <2>2. \A T \in SUBSET (1 .. 0) : T = {}  OBVIOUS
  <2>3. Good(0, [T \in SUBSET (1 .. 0) |-> base])  BY <2>2
  <2>. HIDE DEF Good
  <2>. QED  BY <2>1, <2>3
<1>2. ASSUME NEW k \in 0 .. n - 1, k \in Upto
      PROVE  k + 1 \in Upto
  <2>1. PICK g \in [SUBSET (1 .. k) -> St] : Good(k, g)  BY <1>2
  <2>. DEFINE h == [T \in SUBSET (1 .. k + 1) |->
                      IF k + 1 \in T THEN step[<<k + 1, g[T \ {k + 1}]>>] ELSE g[T]]
  <2>2. \A T \in SUBSET (1 .. k + 1) : T \ {k + 1} \in SUBSET (1 .. k) /\ (k + 1 \notin T => T \in SUBSET (1 .. k))
    OBVIOUS
  <2>3. h \in [SUBSET (1 .. k + 1) -> St]
    BY <2>2
  <2>4. ASSUME NEW T \in SUBSET (1 .. k + 1)
        PROVE  h[T] = IF T = {} THEN base ELSE step[<<Max(T), h[T \ {Max(T)}]>>]
    <3>1. CASE k + 1 \in T
      <4>1. Max(T) = k + 1
        <5>1. Max(T) \in T /\ \A m \in T : m <= Max(T)
          BY <3>1, MaxOfNumbers, k + 1 \in Nat
        <5>2. Max(T) \in 1 .. k + 1 /\ k + 1 <= Max(T)  BY <3>1, <5>1
        <5>. HIDE DEF h, Good
        <5>. QED  BY <5>2
      <4>2. h[T \ {k + 1}] = g[T \ {k + 1}]  BY <2>2
      <4>. QED  BY <3>1, <4>1, <4>2
    <3>2. CASE k + 1 \notin T
      <4>1. T \in SUBSET (1 .. k)  BY <2>2, <3>2
      <4>2. h[T] = g[T]  BY <3>2
      <4>3. CASE T = {}  BY <4>1, <4>2, <4>3, <2>1
      <4>4. CASE T # {}
        <5>1. T \ {Max(T)} \in SUBSET (1 .. k)  BY <4>1
        <5>2. h[T \ {Max(T)}] = g[T \ {Max(T)}]  BY <5>1, <2>2, k + 1 \notin 1 .. k
        <5>. QED  BY <4>1, <4>2, <4>4, <5>2, <2>1
      <4>. QED  BY <4>3, <4>4
    <3>. QED  BY <3>1, <3>2
  <2>5. Good(k + 1, h)  BY <2>4
  <2>. HIDE DEF h, Good
  <2>. QED  BY <2>3, <2>5
<1>. HIDE DEF Good
<1>3. 0 .. n \subseteq Upto  BY <1>1, <1>2, BoundedInduction
<1>. HIDE DEF Upto
<1>4. n \in Upto  BY <1>3, n \in 0 .. n
<1>. USE DEF Upto
<1>. QED  BY <1>4 DEF Good, IsIteration

\* The values a fold goes through are what its iteration gives the sets 1 .. k,
\* each a step on the one before.
GoesThrough(iter, n, St, step) ==
  /\ \A k \in 0 .. n : iter[1 .. k] \in St
  /\ \A k \in 1 .. n : iter[1 .. k] = step[<<k, iter[1 .. k - 1]>>]

LEMMA IterationRuns ==
  ASSUME NEW n \in Nat, NEW St, NEW base \in St, NEW step \in [(1 .. n) \X St -> St], NEW iter,
         Iterates(iter, n, St, base, step)
  PROVE  GoesThrough(iter, n, St, step)
<1>. DEFINE Typed == {k \in 0 .. n : iter[1 .. k] \in St}
<1>1. ASSUME NEW k \in 0 .. n - 1, k \in Typed
      PROVE  iter[1 .. k + 1] = step[<<k + 1, iter[1 .. k]>>]
  <2>1. 1 .. k + 1 \in (SUBSET (1 .. n)) \ {{}}
    <3>1. k + 1 \in 1 .. k + 1 /\ \A m \in 1 .. k + 1 : m \in 1 .. n  OBVIOUS
    <3>. QED  BY <3>1
  <2>2. Max(1 .. k + 1) = k + 1
    <3>1. 1 .. k + 1 # {} /\ k + 1 \in Nat /\ k + 1 \in 1 .. k + 1  OBVIOUS
    <3>2. Max(1 .. k + 1) \in 1 .. k + 1 /\ k + 1 <= Max(1 .. k + 1)  BY <3>1, MaxOfNumbers
    <3>. QED  BY <3>2
  <2>3. (1 .. k + 1) \ {k + 1} = 1 .. k  OBVIOUS
  <2>. QED  BY <1>1, <2>1, <2>2, <2>3 DEF Iterates
<1>2. 0 \in Typed
  <2>1. 1 .. 0 = {}  OBVIOUS
  <2>. QED  BY <2>1 DEF Iterates
<1>3. ASSUME NEW k \in 0 .. n - 1, k \in Typed
      PROVE  k + 1 \in Typed
  <2>1. iter[1 .. k] \in St /\ k + 1 \in 1 .. n  BY <1>3
  <2>2. step[<<k + 1, iter[1 .. k]>>] \in St  BY <2>1
  <2>. QED  BY <1>1, <1>3, <2>1, <2>2
<1>4. \A k \in 0 .. n : k \in Typed
  <2>. HIDE DEF Typed
  <2>. QED  BY <1>2, <1>3, BoundedInduction
<1>5. ASSUME NEW k \in 1 .. n
      PROVE  iter[1 .. k] = step[<<k, iter[1 .. k - 1]>>]
  <2>1. k - 1 \in 0 .. n - 1 /\ k - 1 \in Typed /\ (k - 1) + 1 = k  BY <1>4
  <2>. HIDE DEF Typed
  <2>. QED  BY <1>1, <2>1
<1>. QED  BY <1>4, <1>5 DEF GoesThrough

-----------------------------------------------------------------------------
(***************************************************************************)
(* Flattening: the sequences are appended one after the other.             *)
(***************************************************************************)
Flattens(flat, S, n, seqs) ==
  /\ flat \in [0 .. n -> Seq(S)]
  /\ flat[0] = <<>> /\ flat[n] = FlattenSeq(seqs)
  /\ \A k \in 1 .. n : flat[k] = flat[k - 1] \o seqs[k]

LEMMA FlattenRuns ==
  ASSUME NEW S, NEW n \in Nat, NEW seqs \in [1 .. n -> Seq(S)]
  PROVE  \E flat : Flattens(flat, S, n, seqs)
<1>. DEFINE Turn(f, i) == IF i = 1 THEN seqs[i] ELSE f[i - 1] \o seqs[i]
            Good(k, f) == \A i \in 1 .. k : f[i] = Turn(f, i)
            Upto == {k \in 0 .. n : \E f \in [1 .. k -> Seq(S)] : Good(k, f)}
            flatten == CHOOSE f : f = [i \in 1 .. n |-> Turn(f, i)]
<1>1. Len(seqs) = n /\ seqs \in Seq(Seq(S))  OBVIOUS
<1>2. 0 \in Upto
  <2>1. [i \in 1 .. 0 |-> <<>>] \in [1 .. 0 -> Seq(S)]  OBVIOUS
  <2>2. \A i \in 1 .. 0 : FALSE  OBVIOUS
  <2>3. Good(0, [i \in 1 .. 0 |-> <<>>])
    <3>. HIDE DEF Turn
    <3>. QED  BY <2>2
  <2>4. 0 \in 0 .. n  OBVIOUS
  <2>. HIDE DEF Good
  <2>. QED  BY <2>1, <2>3, <2>4
<1>3. ASSUME NEW k \in 0 .. n - 1, k \in Upto
      PROVE  k + 1 \in Upto
  <2>0. PICK f \in [1 .. k -> Seq(S)] : Good(k, f)
    <3>. HIDE DEF Good
    <3>. QED  BY <1>3
  <2>1. \A i \in 1 .. k : f[i] = Turn(f, i)
    <3>. HIDE DEF Turn
    <3>. QED  BY <2>0
  <2>. DEFINE last == IF k = 0 THEN seqs[1] ELSE f[k] \o seqs[k + 1]
              h == [i \in 1 .. k + 1 |-> IF i = k + 1 THEN last ELSE f[i]]
  <2>2. k + 1 \in 1 .. n /\ seqs[k + 1] \in Seq(S)  OBVIOUS
  <2>3. last \in Seq(S)  BY <2>2, ConcatProperties
  <2>4. h \in [1 .. k + 1 -> Seq(S)]
    <3>. HIDE DEF last
    <3>. QED  BY <2>3
  <2>5. ASSUME NEW i \in 1 .. k + 1
        PROVE  h[i] = Turn(h, i)
    <3>1. CASE i = k + 1
      <4>1. h[i] = last  BY <3>1
      <4>2. k # 0 => h[k] = f[k] /\ i - 1 = k /\ i # 1  BY <3>1
      <4>3. k = 0 => i = 1  BY <3>1
      <4>. HIDE DEF h
      <4>. QED  BY <3>1, <4>1, <4>2, <4>3
    <3>2. CASE i # k + 1
      <4>1. i \in 1 .. k /\ h[i] = f[i]  BY <3>2
      <4>2. i # 1 => i - 1 \in 1 .. k /\ i - 1 \in 1 .. k + 1 /\ i - 1 # k + 1  BY <4>1
      <4>3. i # 1 => h[i - 1] = f[i - 1]  BY <4>2
      <4>. HIDE DEF h
      <4>. QED  BY <2>1, <4>1, <4>3
    <3>. QED  BY <3>1, <3>2
  <2>6. k + 1 \in 0 .. n  OBVIOUS
  <2>7. Good(k + 1, h)
    <3>. HIDE DEF h, Turn
    <3>. QED  BY <2>5
  <2>. HIDE DEF h, Good
  <2>. QED  BY <2>4, <2>6, <2>7
<1>4. 0 .. n \subseteq Upto
  <2>. HIDE DEF Upto
  <2>. QED  BY <1>2, <1>3, BoundedInduction
<1>5. PICK g \in [1 .. n -> Seq(S)] : \A i \in 1 .. n : g[i] = Turn(g, i)
  <2>. HIDE DEF Turn
  <2>1. n \in Upto  BY <1>4, n \in 0 .. n
  <2>. QED  BY <2>1
<1>6. g = [i \in 1 .. n |-> Turn(g, i)]  BY <1>5
<1>7. flatten = [i \in 1 .. n |-> Turn(flatten, i)]
  <2>. HIDE DEF Turn
  <2>. QED  BY <1>6
<1>. DEFINE Typed == {k \in 0 .. n : k # 0 => flatten[k] \in Seq(S)}
<1>8. ASSUME NEW k \in 0 .. n - 1, k \in Typed
      PROVE  k + 1 \in Typed
  <2>1. k + 1 \in 1 .. n /\ seqs[k + 1] \in Seq(S)  OBVIOUS
  <2>2. flatten[k + 1] = Turn(flatten, k + 1)
    <3>. HIDE DEF flatten, Turn
    <3>. QED  BY <1>7, <2>1
  <2>3. (k + 1) - 1 = k /\ (k + 1 = 1 <=> k = 0)  OBVIOUS
  <2>. HIDE DEF flatten
  <2>4. k # 0 => flatten[k] \in Seq(S)  BY <1>8
  <2>5. Turn(flatten, k + 1) \in Seq(S)  BY <2>1, <2>3, <2>4, ConcatProperties
  <2>6. k + 1 \in 0 .. n  OBVIOUS
  <2>. HIDE DEF Turn
  <2>. QED  BY <2>2, <2>5, <2>6
<1>9. \A k \in 1 .. n : flatten[k] \in Seq(S)
  <2>1. 0 \in Typed  OBVIOUS
  <2>2. 0 .. n \subseteq Typed
    <3>. HIDE DEF Typed
    <3>. QED  BY <1>8, <2>1, BoundedInduction
  <2>3. ASSUME NEW k \in 1 .. n PROVE flatten[k] \in Seq(S)
    <3>1. k \in 0 .. n /\ k # 0  OBVIOUS
    <3>2. k \in Typed
      <4>. HIDE DEF Typed
      <4>. QED  BY <2>2, <3>1
    <3>. HIDE DEF flatten
    <3>. QED  BY <3>1, <3>2
  <2>. HIDE DEF flatten
  <2>. QED  BY <2>3
<1>. DEFINE flat == [k \in 0 .. n |-> IF k = 0 THEN <<>> ELSE flatten[k]]
<1>10. flat \in [0 .. n -> Seq(S)]
  <2>. HIDE DEF flatten
  <2>1. <<>> \in Seq(S)  OBVIOUS
  <2>2. \A k \in 0 .. n : k # 0 => k \in 1 .. n  OBVIOUS
  <2>3. \A k \in 0 .. n : (IF k = 0 THEN <<>> ELSE flatten[k]) \in Seq(S)
    BY <1>9, <2>1, <2>2, Zenon
  <2>. QED  BY <2>3, Zenon
<1>11. flat[n] = FlattenSeq(seqs)
  <2>1. CASE n = 0
    <3>1. seqs = <<>> /\ FlattenSeq(seqs) = seqs  BY <1>1, <2>1 DEF FlattenSeq
    <3>. QED  BY <2>1, <3>1
  <2>2. CASE n # 0
    <3>1. FlattenSeq(seqs) = flatten[n]  BY <1>1, <2>2, Zenon DEF FlattenSeq
    <3>. HIDE DEF flatten
    <3>. QED  BY <2>2, <3>1
  <2>. QED  BY <2>1, <2>2
<1>12. ASSUME NEW k \in 1 .. n
       PROVE  flat[k] = flat[k - 1] \o seqs[k]
  <2>1. flatten[k] = Turn(flatten, k)
    <3>. HIDE DEF flatten, Turn
    <3>. QED  BY <1>7
  <2>. HIDE DEF flatten
  <2>2. flat[k] = flatten[k] /\ k - 1 \in 0 .. n /\ (k # 1 => flat[k - 1] = flatten[k - 1])
    OBVIOUS
  <2>3. k = 1 => flat[k - 1] = <<>> /\ seqs[k] \in Seq(S)  OBVIOUS
  <2>. HIDE DEF flat
  <2>. QED  BY <2>1, <2>2, <2>3, ConcatEmptySeq
<1>13. flat[0] = <<>>  OBVIOUS
<1>. HIDE DEF flat
<1>14. Flattens(flat, S, n, seqs)  BY <1>10, <1>11, <1>12, <1>13 DEF Flattens
<1>. QED  BY <1>14

LEMMA FlattenTyped ==
  ASSUME NEW S, NEW n \in Nat, NEW seqs \in [1 .. n -> Seq(S)]
  PROVE  FlattenSeq(seqs) \in Seq(S)
<1>1. PICK flat : Flattens(flat, S, n, seqs)  BY FlattenRuns
<1>. QED  BY <1>1 DEF Flattens
-----------------------------------------------------------------------------
(***************************************************************************)
(* Sequences in which each element of a set occurs once.                   *)
(***************************************************************************)
Enumerates(s, S) ==
  /\ \A i \in 1 .. Len(s) : s[i] \in S
  /\ \A x \in S : \E i \in 1 .. Len(s) : s[i] = x
  /\ \A i, j \in 1 .. Len(s) : s[i] = s[j] => i = j

Precedes(s, x, y) == \E i, j \in 1 .. Len(s) : i < j /\ s[i] = x /\ s[j] = y

LEMMA ListsJoined ==
  ASSUME NEW U, NEW s \in Seq(U), NEW t \in Seq(U), NEW A, NEW B,
         Enumerates(s, A), Enumerates(t, B), A \cap B = {}
  PROVE  /\ s \o t \in Seq(U) /\ Enumerates(s \o t, A \cup B)
         /\ \A x, y : Precedes(s, x, y) \/ Precedes(t, x, y) => Precedes(s \o t, x, y)
         /\ \A x \in A, y \in B : Precedes(s \o t, x, y)
<1>. DEFINE st == s \o t
            m == Len(s)
            n == Len(t)
<1>1. /\ st \in Seq(U) /\ Len(st) = m + n /\ m \in Nat /\ n \in Nat
      /\ \A i \in 1 .. m + n : st[i] = IF i <= m THEN s[i] ELSE t[i - m]
  BY ConcatProperties
<1>2. \A i \in 1 .. m : i \in 1 .. m + n /\ st[i] = s[i]
  <2>. HIDE DEF m, n, st
  <2>. QED  BY <1>1
<1>3. \A i \in 1 .. n : i + m \in 1 .. m + n /\ st[i + m] = t[i]
  <2>. HIDE DEF m, n, st
  <2>1. ASSUME NEW i \in 1 .. n PROVE i + m \in 1 .. m + n /\ ~ (i + m <= m) /\ (i + m) - m = i
    BY <1>1
  <2>. QED  BY <1>1, <2>1
<1>4. \A i \in 1 .. m + n : i \in 1 .. m \/ (i - m \in 1 .. n /\ (i - m) + m = i)
  <2>. HIDE DEF m, n, st
  <2>. QED  BY <1>1
<1>5. /\ \A i \in 1 .. m : s[i] \in A
      /\ \A x \in A : \E i \in 1 .. m : s[i] = x
      /\ \A i, j \in 1 .. m : s[i] = s[j] => i = j
      /\ \A i \in 1 .. n : t[i] \in B
      /\ \A x \in B : \E i \in 1 .. n : t[i] = x
      /\ \A i, j \in 1 .. n : t[i] = t[j] => i = j
  BY DEF Enumerates
<1>. HIDE DEF m, n, st
<1>6. \A i \in 1 .. m + n : st[i] \in A \cup B
  BY <1>2, <1>3, <1>4, <1>5
<1>7. ASSUME NEW x \in A \cup B PROVE \E i \in 1 .. m + n : st[i] = x
  BY <1>2, <1>3, <1>5
<1>8. ASSUME NEW i \in 1 .. m + n, NEW j \in 1 .. m + n, st[i] = st[j] PROVE i = j
  <2>1. CASE i \in 1 .. m /\ j \in 1 .. m
    BY <1>2, <1>5, <1>8, <2>1
  <2>2. CASE i \in 1 .. m /\ j - m \in 1 .. n /\ (j - m) + m = j
    <3>1. st[i] \in A /\ st[j] \in B  BY <1>2, <1>3, <1>5, <2>2
    <3>. QED  BY <1>8, <3>1
  <2>3. CASE j \in 1 .. m /\ i - m \in 1 .. n /\ (i - m) + m = i
    <3>1. st[j] \in A /\ st[i] \in B  BY <1>2, <1>3, <1>5, <2>3
    <3>. QED  BY <1>8, <3>1
  <2>4. CASE i - m \in 1 .. n /\ (i - m) + m = i /\ j - m \in 1 .. n /\ (j - m) + m = j
    <3>1. st[i] = t[i - m] /\ st[j] = t[j - m]  BY <1>3, <2>4
    <3>2. i - m = j - m  BY <1>5, <1>8, <2>4, <3>1
    <3>. QED  BY <2>4, <3>2
  <2>. QED  BY <1>4, <2>1, <2>2, <2>3, <2>4
<1>9. Enumerates(st, A \cup B)  BY <1>1, <1>6, <1>7, <1>8 DEF Enumerates
<1>10. ASSUME NEW x, NEW y, Precedes(s, x, y) PROVE Precedes(st, x, y)
  <2>1. PICK i \in 1 .. m, j \in 1 .. m : i < j /\ s[i] = x /\ s[j] = y  BY <1>10 DEF Precedes, m
  <2>. QED  BY <1>1, <1>2, <2>1 DEF Precedes
<1>11. ASSUME NEW x, NEW y, Precedes(t, x, y) PROVE Precedes(st, x, y)
  <2>1. PICK i \in 1 .. n, j \in 1 .. n : i < j /\ t[i] = x /\ t[j] = y  BY <1>11 DEF Precedes, n
  <2>2. i + m < j + m  BY <1>1, <2>1
  <2>3. st[i + m] = x /\ st[j + m] = y /\ i + m \in 1 .. m + n /\ j + m \in 1 .. m + n  BY <1>3, <2>1
  <2>. QED  BY <1>1, <2>2, <2>3 DEF Precedes
<1>12. ASSUME NEW x \in A, NEW y \in B PROVE Precedes(st, x, y)
  <2>1. PICK i \in 1 .. m : s[i] = x  BY <1>5
  <2>2. PICK j \in 1 .. n : t[j] = y  BY <1>5
  <2>3. i < j + m  BY <1>1, <2>1, <2>2
  <2>4. st[i] = x /\ i \in 1 .. m + n  BY <1>2, <2>1
  <2>5. st[j + m] = y /\ j + m \in 1 .. m + n  BY <1>3, <2>2
  <2>. QED  BY <1>1, <2>3, <2>4, <2>5 DEF Precedes
<1>. QED  BY <1>1, <1>9, <1>10, <1>11, <1>12 DEF st

\* The sequences list parts of a set that have nothing in common.
ListParts(seqs, parts, n, U) ==
  /\ n \in Nat /\ seqs \in [1 .. n -> Seq(U)]
  /\ \A k \in 1 .. n : Enumerates(seqs[k], parts[k])
  /\ \A i, j \in 1 .. n : i # j => parts[i] \cap parts[j] = {}

\* Flattened they list the whole, part after part.
LEMMA ListsFlattened ==
  ASSUME NEW seqs, NEW parts, NEW n, NEW U, ListParts(seqs, parts, n, U)
  PROVE  /\ FlattenSeq(seqs) \in Seq(U)
         /\ Enumerates(FlattenSeq(seqs), UNION {parts[k] : k \in 1 .. n})
         /\ \A k \in 1 .. n : \A x, y : Precedes(seqs[k], x, y) => Precedes(FlattenSeq(seqs), x, y)
         /\ \A i, j \in 1 .. n : i < j => \A x \in parts[i], y \in parts[j] : Precedes(FlattenSeq(seqs), x, y)
<1>0. /\ n \in Nat /\ seqs \in [1 .. n -> Seq(U)]
      /\ \A k \in 1 .. n : Enumerates(seqs[k], parts[k])
      /\ \A i, j \in 1 .. n : i # j => parts[i] \cap parts[j] = {}
  BY DEF ListParts
<1>1. PICK flat : Flattens(flat, U, n, seqs)  BY <1>0, FlattenRuns
<1>2. /\ flat \in [0 .. n -> Seq(U)]
      /\ flat[0] = <<>> /\ flat[n] = FlattenSeq(seqs)
      /\ \A k \in 1 .. n : flat[k] = flat[k - 1] \o seqs[k]
  BY <1>1 DEF Flattens
<1>. DEFINE All(k) == UNION {parts[i] : i \in 1 .. k}
            Inside(k) == \A i \in 1 .. k : \A x, y : Precedes(seqs[i], x, y) => Precedes(flat[k], x, y)
            Across(k) == \A i, j \in 1 .. k : i < j => \A x \in parts[i], y \in parts[j] : Precedes(flat[k], x, y)
            Good == {k \in 0 .. n : Enumerates(flat[k], All(k)) /\ Inside(k) /\ Across(k)}
<1>3. 0 \in Good
  <2>1. 1 .. 0 = {} /\ Len(<<>>) = 0  OBVIOUS
  <2>2. All(0) = {}  BY <2>1
  <2>3. Enumerates(flat[0], All(0))
    <3>. HIDE DEF All
    <3>. QED  BY <1>2, <2>1, <2>2 DEF Enumerates
  <2>4. Inside(0) /\ Across(0)  BY <2>1
  <2>. HIDE DEF Inside, Across, All
  <2>. QED  BY <1>0, <2>3, <2>4
<1>4. ASSUME NEW k \in 0 .. n - 1, k \in Good
      PROVE  k + 1 \in Good
  <2>. DEFINE c == k + 1
  <2>1. c \in 1 .. n /\ c \in 0 .. n /\ c - 1 = k /\ k \in 0 .. n /\ 1 .. c = (1 .. k) \cup {c} /\ c \notin 1 .. k
    BY <1>0
  <2>2. flat[c] = flat[k] \o seqs[c] /\ flat[k] \in Seq(U) /\ seqs[c] \in Seq(U)
    <3>. HIDE DEF c
    <3>. QED  BY <1>0, <1>2, <2>1
  <2>3. Enumerates(flat[k], All(k)) /\ Inside(k) /\ Across(k)
    <3>. HIDE DEF Inside, Across, All
    <3>. QED  BY <1>4
  <2>4. All(c) = All(k) \cup parts[c]
    <3>. HIDE DEF c
    <3>. QED  BY <2>1
  <2>5. All(k) \cap parts[c] = {}
    <3>1. \A i \in 1 .. k : i \in 1 .. n /\ i # c  BY <1>0
    <3>2. \A i \in 1 .. k : parts[i] \cap parts[c] = {}
      <4>. HIDE DEF c
      <4>. QED  BY <1>0, <2>1, <3>1
    <3>. HIDE DEF c
    <3>. QED  BY <3>2
  <2>6. Enumerates(seqs[c], parts[c])  BY <1>0, <2>1
  <2>. DEFINE s == flat[k]
              t == seqs[c]
              before == All(k)
              part == parts[c]
  <2>. HIDE DEF c, All
  <2>61. /\ s \in Seq(U) /\ t \in Seq(U) /\ Enumerates(s, before) /\ Enumerates(t, part) /\ before \cap part = {}
    BY <2>2, <2>3, <2>5, <2>6
  <2>62. /\ Enumerates(s \o t, before \cup part)
         /\ \A x, y : Precedes(s, x, y) \/ Precedes(t, x, y) => Precedes(s \o t, x, y)
         /\ \A x \in before, y \in part : Precedes(s \o t, x, y)
    <3>. HIDE DEF s, t, before, part
    <3>. QED  BY <2>61, ListsJoined
  <2>7. /\ Enumerates(flat[c], All(c))
        /\ \A x, y : Precedes(flat[k], x, y) \/ Precedes(seqs[c], x, y) => Precedes(flat[c], x, y)
        /\ \A x \in All(k), y \in parts[c] : Precedes(flat[c], x, y)
    BY <2>2, <2>4, <2>62
  <2>8. Inside(c)
    <3>. SUFFICES ASSUME NEW i \in 1 .. c, NEW x, NEW y, Precedes(seqs[i], x, y)
                  PROVE  Precedes(flat[c], x, y)
      OBVIOUS
    <3>1. CASE i \in 1 .. k  BY <2>3, <2>7, <3>1
    <3>2. CASE i = c  BY <2>7, <3>2
    <3>. QED  BY <2>1, <3>1, <3>2
  <2>9. Across(c)
    <3>. SUFFICES ASSUME NEW i \in 1 .. c, NEW j \in 1 .. c, i < j, NEW x \in parts[i], NEW y \in parts[j]
                  PROVE  Precedes(flat[c], x, y)
      OBVIOUS
    <3>1. CASE i \in 1 .. k /\ j \in 1 .. k
      <4>1. Precedes(flat[k], x, y)  BY <2>3, <3>1
      <4>. QED  BY <2>7, <4>1
    <3>2. CASE i \in 1 .. k /\ j = c
      <4>1. x \in All(k)  BY <3>2 DEF All
      <4>. QED  BY <2>7, <3>2, <4>1
    <3>3. i # c
      <4>1. i \in Int /\ j \in Int /\ j <= c /\ c \in Int  BY <2>1
      <4>. QED  BY <4>1
    <3>. QED  BY <2>1, <3>1, <3>2, <3>3
  <2>. HIDE DEF Inside, Across
  <2>. QED  BY <2>1, <2>7, <2>8, <2>9 DEF c
<1>5. n \in Good
  <2>. HIDE DEF Good
  <2>1. 0 .. n \subseteq Good  BY <1>0, <1>3, <1>4, BoundedInduction
  <2>. QED  BY <1>0, <2>1
<1>6. Enumerates(flat[n], All(n)) /\ Inside(n) /\ Across(n)
  <2>. HIDE DEF Inside, Across, All
  <2>. QED  BY <1>5
<1>7. flat[n] \in Seq(U)  BY <1>0, <1>2
<1>. QED  BY <1>2, <1>6, <1>7

\* A sequence with each of 1 .. n once has length n.
LEMMA ListsNumbers ==
  ASSUME NEW U, NEW s \in Seq(U), NEW n \in Nat, Enumerates(s, 1 .. n)
  PROVE  Len(s) = n
<1>. DEFINE m == Len(s)
<1>1. m \in Nat /\ DOMAIN s = 1 .. m /\ s \in [1 .. m -> U]  OBVIOUS
<1>2. s \in [1 .. m -> 1 .. n]
  <2>1. \A i \in 1 .. m : s[i] \in 1 .. n  BY DEF Enumerates
  <2>. HIDE DEF m
  <2>. QED  BY <1>1, <2>1
<1>3. s \in Bijection(1 .. m, 1 .. n)
  BY <1>2 DEF Enumerates, Bijection, Injection, Surjection, IsInjective
<1>4. Cardinality(1 .. n) = m  BY <1>1, <1>3, FS_CountingElements DEF ExistsBijection
<1>5. Cardinality(1 .. n) = n  BY FS_Interval
<1>. QED  BY <1>4, <1>5

\* One element or the empty sequence.
LEMMA ListsOne ==
  ASSUME NEW U, NEW x \in U
  PROVE  /\ <<x>> \in Seq(U) /\ Enumerates(<<x>>, {x})
         /\ <<>> \in Seq(U) /\ Enumerates(<<>>, {})
<1>1. Len(<<x>>) = 1 /\ <<x>>[1] = x /\ 1 .. 1 = {1}  OBVIOUS
<1>2. Len(<<>>) = 0 /\ 1 .. 0 = {}  OBVIOUS
<1>3. Enumerates(<<x>>, {x})
  <2>. DEFINE s == <<x>>
  <2>. HIDE DEF s
  <2>. QED  BY <1>1 DEF Enumerates, s
<1>4. Enumerates(<<>>, {})  BY <1>2 DEF Enumerates
<1>. QED  BY <1>3, <1>4

LEMMA Elements ==
  ASSUME NEW U, NEW s \in Seq(U)
  PROVE  Len(s) \in Nat /\ DOMAIN s = 1 .. Len(s) /\ \A k \in 1 .. Len(s) : s[k] \in U
OBVIOUS

LEMMA PairListed ==
  ASSUME NEW U, NEW x \in U, NEW y \in U
  PROVE  <<x, y>> \in Seq(U) /\ (x # y => Enumerates(<<x, y>>, {x, y}))
<1> DEFINE s == <<x, y>>
<1>1. s \in Seq(U) /\ Len(s) = 2 /\ s[1] = x /\ s[2] = y
  OBVIOUS
<1>2. 1 .. 2 = {1, 2}
  OBVIOUS
<1> HIDE DEF s
<1>3. x # y => Enumerates(s, {x, y})
  BY <1>1, <1>2 DEF Enumerates
<1> QED BY <1>1, <1>3 DEF s

\* The elements of P, in the order they are listed in.
Selects(seqs, s, P) ==
  seqs = [k \in 1 .. Len(s) |-> IF s[k] \in P THEN <<s[k]>> ELSE <<>>]

LEMMA ListsSelected ==
  ASSUME NEW U, NEW s \in Seq(U), NEW S, Enumerates(s, S), NEW P, NEW seqs, Selects(seqs, s, P)
  PROVE  /\ FlattenSeq(seqs) \in Seq(U) /\ Enumerates(FlattenSeq(seqs), S \cap P)
         /\ \A x \in S \cap P, y \in S \cap P : Precedes(s, x, y) => Precedes(FlattenSeq(seqs), x, y)
<1>. DEFINE n == Len(s)
            parts == [k \in 1 .. n |-> IF s[k] \in P THEN {s[k]} ELSE {}]
<1>0. n \in Nat /\ \A k \in 1 .. n : s[k] \in U  OBVIOUS
<1>1. /\ \A i \in 1 .. n : s[i] \in S
      /\ \A x \in S : \E i \in 1 .. n : s[i] = x
      /\ \A i, j \in 1 .. n : s[i] = s[j] => i = j
  BY DEF Enumerates
<1>2. ASSUME NEW k \in 1 .. n
      PROVE  seqs[k] \in Seq(U) /\ Enumerates(seqs[k], parts[k])
  <2>1. seqs[k] = IF s[k] \in P THEN <<s[k]>> ELSE <<>>  BY DEF Selects
  <2>2. parts[k] = IF s[k] \in P THEN {s[k]} ELSE {}  OBVIOUS
  <2>. DEFINE x == s[k]
              part == parts[k]
              sq == seqs[k]
  <2>3. x \in U /\ sq = (IF x \in P THEN <<x>> ELSE <<>>) /\ part = IF x \in P THEN {x} ELSE {}
    BY <1>0, <2>1, <2>2
  <2>. HIDE DEF x, part, sq
  <2>4. sq \in Seq(U) /\ Enumerates(sq, part)  BY <2>3, ListsOne
  <2>. QED  BY <2>4 DEF sq, part
<1>3. \A k \in 1 .. n : parts[k] = IF s[k] \in P THEN {s[k]} ELSE {}  OBVIOUS
<1>. HIDE DEF parts, n
<1>4. seqs \in [1 .. n -> Seq(U)]
  <2>1. seqs = [k \in 1 .. n |-> seqs[k]]  BY DEF n, Selects
  <2>. QED  BY <1>2, <2>1
<1>5. ASSUME NEW i \in 1 .. n, NEW j \in 1 .. n, i # j PROVE parts[i] \cap parts[j] = {}
  <2>1. \A x \in parts[i] : x = s[i]  BY <1>3
  <2>2. \A x \in parts[j] : x = s[j]  BY <1>3
  <2>3. s[i] # s[j]  BY <1>1, <1>5
  <2>. QED  BY <2>1, <2>2, <2>3
<1>6. ListParts(seqs, parts, n, U)
  BY <1>0, <1>2, <1>4, <1>5 DEF ListParts
<1>7. UNION {parts[k] : k \in 1 .. n} = S \cap P
  <2>1. ASSUME NEW x \in S \cap P PROVE \E k \in 1 .. n : x \in parts[k]
    <3>1. PICK k \in 1 .. n : s[k] = x  BY <1>1
    <3>2. parts[k] = {x}  BY <1>3, <3>1
    <3>. QED  BY <3>2
  <2>2. ASSUME NEW k \in 1 .. n, NEW x \in parts[k] PROVE x \in S \cap P
    BY ZenonT(40), <1>1, <1>3
  <2>. QED  BY <2>1, <2>2
<1>. DEFINE flat == FlattenSeq(seqs)
            whole == UNION {parts[k] : k \in 1 .. n}
<1>8. /\ flat \in Seq(U) /\ Enumerates(flat, whole)
      /\ \A i, j \in 1 .. n : i < j => \A x \in parts[i], y \in parts[j] : Precedes(flat, x, y)
  BY <1>6, ListsFlattened
<1>. HIDE DEF flat, whole
<1>9. ASSUME NEW x \in S \cap P, NEW y \in S \cap P, Precedes(s, x, y)
      PROVE  Precedes(flat, x, y)
  <2>1. PICK i \in 1 .. n, j \in 1 .. n : i < j /\ s[i] = x /\ s[j] = y  BY <1>9 DEF Precedes, n
  <2>2. x \in parts[i] /\ y \in parts[j]  BY <1>3, <2>1
  <2>. QED  BY <1>8, <2>1, <2>2
<1>. QED  BY <1>7, <1>8, <1>9 DEF flat, whole


\* What precedes lies at a lower place.
LEMMA PlacesOrdered ==
  ASSUME NEW s, NEW S, Enumerates(s, S),
         NEW i \in 1 .. Len(s), NEW j \in 1 .. Len(s), Precedes(s, s[i], s[j])
  PROVE  i < j
<1>1. PICK p \in 1 .. Len(s), q \in 1 .. Len(s) : p < q /\ s[p] = s[i] /\ s[q] = s[j]  BY DEF Precedes
<1>2. p = i /\ q = j  BY <1>1 DEF Enumerates
<1>. QED  BY <1>1, <1>2

-----------------------------------------------------------------------------
(***************************************************************************)
(* Sorting: a finite set with a strict order on it has its elements in     *)
(* that order.                                                             *)
(***************************************************************************)
StrictOrder(R, S) ==
  /\ \A x \in S : <<x, x>> \notin R
  /\ \A x, y \in S : x # y => <<x, y>> \in R \/ <<y, x>> \in R
  /\ \A x, y, z \in S : <<x, y>> \in R /\ <<y, z>> \in R => <<x, z>> \in R

InOrder(q, n, R) == \A i, j \in 1 .. n : i < j => <<q[i], q[j]>> \in R

\* Without repetition, a sequence as long as the set holds all of it.
LEMMA InOrderLists ==
  ASSUME NEW S, IsFiniteSet(S), NEW R, StrictOrder(R, S), NEW n, n = Cardinality(S),
         NEW q \in [1 .. n -> S], InOrder(q, n, R)
  PROVE  n \in Nat /\ q \in Seq(S) /\ Len(q) = n /\ Enumerates(q, S)
<1>1. n \in Nat  BY FS_CardinalityType
<1>2. q \in Seq(S) /\ Len(q) = n  BY <1>1
<1>3. ASSUME NEW i \in 1 .. n, NEW j \in 1 .. n, i < j PROVE q[i] # q[j]
  <2>1. <<q[i], q[j]>> \in R /\ q[i] \in S  BY <1>3 DEF InOrder
  <2>2. <<q[i], q[i]>> \notin R  BY <2>1 DEF StrictOrder
  <2>. QED  BY <2>1, <2>2
<1>4. \A i, j \in 1 .. n : q[i] = q[j] => i = j
  <2>. SUFFICES ASSUME NEW i \in 1 .. n, NEW j \in 1 .. n, q[i] = q[j], i # j PROVE FALSE
    OBVIOUS
  <2>1. i < j \/ j < i  BY <1>1
  <2>. QED  BY <1>3, <2>1
<1>5. q \in Injection(1 .. n, S)  BY <1>4 DEF Injection, IsInjective
<1>6. Cardinality(1 .. n) = n  BY <1>1, FS_Interval
<1>7. q \in Surjection(1 .. n, S)  BY <1>5, <1>6, FS_Injection
<1>. QED  BY <1>1, <1>2, <1>4, <1>7 DEF Enumerates, Surjection

LEMMA SortExists ==
  ASSUME NEW S, IsFiniteSet(S), NEW R, StrictOrder(R, S)
  PROVE  \E q \in [1 .. Cardinality(S) -> S] : InOrder(q, Cardinality(S), R)
<1>. DEFINE N == Cardinality(S)
            Sortable(T, k) == \E q \in [1 .. k -> T] : InOrder(q, k, R)
            Good == {k \in 0 .. N : \A T \in SUBSET S : Cardinality(T) = k => Sortable(T, k)}
<1>1. N \in Nat  BY FS_CardinalityType
<1>2. 0 \in Good
  <2>1. ASSUME NEW T PROVE Sortable(T, 0)
    <3>1. [i \in 1 .. 0 |-> i] \in [1 .. 0 -> T]  OBVIOUS
    <3>2. InOrder([i \in 1 .. 0 |-> i], 0, R)  BY DEF InOrder
    <3>. QED  BY <3>1, <3>2
  <2>. QED  BY <1>1, <2>1
<1>3. ASSUME NEW k \in 0 .. N - 1, k \in Good PROVE k + 1 \in Good
  <2>1. k + 1 \in 0 .. N /\ k \in Nat  BY <1>1
  <2>2. ASSUME NEW T \in SUBSET S, Cardinality(T) = k + 1 PROVE Sortable(T, k + 1)
    <3>1. IsFiniteSet(T)  BY FS_Subset
    <3>2. T # {}  BY <2>1, <2>2, FS_EmptySet
    <3>3. PICK x \in T : TRUE  BY <3>2
    <3>4. ASSUME NEW m \in T
          PROVE  /\ Cardinality(T \ {m}) = k /\ T \ {m} \in SUBSET S
                 /\ StrictOrder(R, T \ {m}) /\ IsFiniteSet(T \ {m})
      <4>1. IsFiniteSet(T \ {m}) /\ Cardinality(T \ {m}) = Cardinality(T) - 1
        BY <3>1, FS_RemoveElement
      <4>2. Cardinality(T \ {m}) = k  BY <2>1, <2>2, <4>1
      <4>. QED  BY <4>1, <4>2 DEF StrictOrder
    <3>5. ASSUME NEW m \in T, \A y \in T \ {m} : <<y, m>> \in R PROVE Sortable(T, k + 1)
      <4>1. PICK q \in [1 .. k -> T \ {m}] : InOrder(q, k, R)  BY <1>3, <3>4
      <4>. DEFINE p == [i \in 1 .. k + 1 |-> IF i = k + 1 THEN m ELSE q[i]]
      <4>2. \A i \in 1 .. k + 1 : i # k + 1 => i \in 1 .. k  BY <2>1
      <4>3. \A i \in 1 .. k : q[i] \in T \ {m}  BY <4>1
      <4>4. p \in [1 .. k + 1 -> T]  BY <4>2, <4>3
      <4>5. ASSUME NEW i \in 1 .. k + 1, NEW j \in 1 .. k + 1, i < j PROVE <<p[i], p[j]>> \in R
        <5>1. i # k + 1 /\ i \in 1 .. k /\ p[i] = q[i]  BY <2>1, <4>5
        <5>2. CASE j = k + 1
          <6>1. p[j] = m  BY <5>2
          <6>. QED  BY <3>5, <4>3, <5>1, <6>1
        <5>3. CASE j # k + 1
          <6>1. j \in 1 .. k /\ p[j] = q[j]  BY <4>2, <5>3
          <6>. QED  BY <4>1, <4>5, <5>1, <6>1 DEF InOrder
        <5>. QED  BY <5>2, <5>3
      <4>6. InOrder(p, k + 1, R)
        <5>. HIDE DEF p
        <5>. QED  BY <4>5 DEF InOrder
      <4>. HIDE DEF p
      <4>. QED  BY <4>4, <4>6
    <3>6. CASE k = 0
      <4>1. T \ {x} = {}  BY <3>3, <3>4, <3>6, FS_EmptySet
      <4>. QED  BY <3>3, <3>5, <4>1
    <3>7. CASE k # 0
      <4>1. PICK q \in [1 .. k -> T \ {x}] : InOrder(q, k, R)  BY <1>3, <3>3, <3>4
      <4>. DEFINE m == q[k]
      <4>2. k \in 1 .. k /\ m \in T /\ m # x  BY <2>1, <3>7, <4>1
      <4>3. Enumerates(q, T \ {x}) /\ Len(q) = k
        BY <3>3, <3>4, <4>1, InOrderLists
      <4>4. ASSUME NEW y \in T \ {x}, y # m PROVE <<y, m>> \in R
        <5>1. PICK i \in 1 .. k : q[i] = y  BY <4>3 DEF Enumerates
        <5>2. i < k  BY <2>1, <4>4, <5>1
        <5>. QED  BY <4>1, <4>2, <5>1, <5>2 DEF InOrder
      <4>. HIDE DEF m
      <4>5. CASE <<x, m>> \in R
        <5>1. \A y \in T \ {m} : <<y, m>> \in R  BY <4>4, <4>5
        <5>. QED  BY <3>5, <4>2, <5>1
      <4>6. CASE <<m, x>> \in R
        <5>1. ASSUME NEW y \in T \ {x} PROVE <<y, x>> \in R
          <6>1. x \in S /\ m \in S /\ y \in S  BY <3>3, <4>2
          <6>. QED  BY <4>4, <4>6, <6>1 DEF StrictOrder
        <5>. QED  BY <3>3, <3>5, <5>1
      <4>7. x \in S /\ m \in S  BY <3>3, <4>2
      <4>. QED  BY <4>2, <4>5, <4>6, <4>7 DEF StrictOrder
    <3>. QED  BY <3>6, <3>7
  <2>. HIDE DEF Sortable
  <2>. QED  BY <2>1, <2>2
<1>4. N \in Good
  <2>. HIDE DEF Good, N
  <2>1. 0 .. N \subseteq Good  BY <1>1, <1>2, <1>3, BoundedInduction
  <2>. QED  BY <1>1, <2>1
<1>. QED  BY <1>4

-----------------------------------------------------------------------------
(***************************************************************************)
(* Listing a finite set in an order that is total on it.                   *)
(***************************************************************************)

\* A sequence that lists S, each member once.
Lists(seq, S) ==
  /\ seq \in [1 .. Cardinality(S) -> S]
  /\ \A x \in S : \E i \in 1 .. Cardinality(S) : seq[i] = x
  /\ \A i, j \in 1 .. Cardinality(S) : seq[i] = seq[j] => i = j

\* A strict order that is total on S, below[x] being the members before x.
Orders(below, S) ==
  /\ below \in [S -> SUBSET S]
  /\ \A x \in S : x \notin below[x]
  /\ \A x, y \in S : x # y => x \in below[y] \/ y \in below[x]
  /\ \A x, y \in S : x \in below[y] => below[x] \subseteq below[y]

LEMMA RankListing ==
  ASSUME NEW S, IsFiniteSet(S), NEW below, Orders(below, S)
  PROVE  Lists([i \in 1 .. Cardinality(S) |-> CHOOSE x \in S : Cardinality(below[x]) = i - 1], S)
<1>. DEFINE n == Cardinality(S)
            rank == [x \in S |-> Cardinality(below[x]) + 1]
            at == [i \in 1 .. n |-> CHOOSE x \in S : Cardinality(below[x]) = i - 1]
<1>. USE DEF Orders
<1>1. n \in Nat  BY FS_CardinalityType
<1>2. ASSUME NEW x \in S
      PROVE  IsFiniteSet(below[x]) /\ Cardinality(below[x]) \in Nat /\ Cardinality(below[x]) < n
  <2>1. below[x] \in SUBSET S /\ below[x] # S  OBVIOUS
  <2>2. /\ IsFiniteSet(below[x]) /\ Cardinality(below[x]) <= n
        /\ n = Cardinality(below[x]) => S = below[x]
    BY <2>1, FS_Subset
  <2>3. Cardinality(below[x]) \in Nat  BY <2>2, FS_CardinalityType
  <2>. QED  BY <1>1, <2>1, <2>2, <2>3
<1>3. ASSUME NEW x \in S, NEW y \in S, x \in below[y]
      PROVE  Cardinality(below[x]) < Cardinality(below[y])
  <2>1. below[x] \in SUBSET below[y] /\ below[x] # below[y]  BY <1>3
  <2>2. /\ Cardinality(below[x]) <= Cardinality(below[y])
        /\ Cardinality(below[y]) = Cardinality(below[x]) => below[y] = below[x]
    BY <1>2, <2>1, FS_Subset
  <2>. QED  BY <1>2, <2>1, <2>2
<1>4. \A x, y \in S : Cardinality(below[x]) = Cardinality(below[y]) => x = y
  BY <1>2, <1>3
<1>5. rank \in Injection(S, 1 .. n)
  <2>1. rank \in [S -> 1 .. n]  BY <1>1, <1>2
  <2>2. \A x, y \in S : rank[x] = rank[y] => x = y  BY <1>2, <1>4
  <2>. HIDE DEF rank, n
  <2>. QED  BY <2>1, <2>2 DEF Injection, IsInjective
<1>6. IsFiniteSet(1 .. n) /\ Cardinality(1 .. n) = n
  BY <1>1, FS_Interval
<1>7. rank \in Surjection(S, 1 .. n)
  <2>. HIDE DEF rank
  <2>. QED  BY <1>5, <1>6, FS_Injection
<1>8. ASSUME NEW i \in 1 .. n
      PROVE  at[i] \in S /\ Cardinality(below[at[i]]) = i - 1
  <2>1. PICK x \in S : rank[x] = i
    <3>. HIDE DEF rank
    <3>. QED  BY <1>7 DEF Surjection
  <2>2. Cardinality(below[x]) = i - 1  BY <1>1, <1>2, <2>1
  <2>. QED  BY <2>2
<1>9. ASSUME NEW x \in S
      PROVE  \E i \in 1 .. n : at[i] = x
  <2>1. Cardinality(below[x]) + 1 \in 1 .. n  BY <1>1, <1>2
  <2>2. Cardinality(below[at[Cardinality(below[x]) + 1]]) = Cardinality(below[x])  BY <1>2, <1>8, <2>1
  <2>3. at[Cardinality(below[x]) + 1] = x
    <3>. HIDE DEF at
    <3>. QED  BY <1>4, <1>8, <2>1, <2>2
  <2>. QED  BY <2>1, <2>3
<1>10. ASSUME NEW i \in 1 .. n, NEW j \in 1 .. n, at[i] = at[j]
       PROVE  i = j
  <2>1. i - 1 = j - 1
    <3>. HIDE DEF at
    <3>. QED  BY <1>8, <1>10
  <2>. QED  BY <1>1, <2>1
<1>. HIDE DEF n
<1>11. at \in [1 .. n -> S]
  <2>1. at = [i \in 1 .. n |-> at[i]]  OBVIOUS
  <2>. HIDE DEF at
  <2>. QED  BY <1>8, <2>1
<1>. HIDE DEF at
<1>12. Lists(at, S)  BY <1>9, <1>10, <1>11 DEF Lists, n
<1>. QED  BY <1>12 DEF at, n

\* Numbers, ascending.
LEMMA NumbersListed ==
  ASSUME NEW n \in Nat, NEW S \in SUBSET (1 .. n)
  PROVE  /\ IsFiniteSet(S)
         /\ Lists([i \in 1 .. Cardinality(S) |-> CHOOSE x \in S : Cardinality({y \in S : y < x}) = i - 1], S)
<1>. DEFINE below == [x \in S |-> {y \in S : y < x}]
<1>1. IsFiniteSet(S)
  <2>1. IsFiniteSet(1 .. n)  BY 1 \in Int, n \in Int, FS_Interval
  <2>. QED  BY <2>1, FS_Subset
<1>2. Lists([i \in 1 .. Cardinality(S) |-> CHOOSE x \in S : Cardinality(below[x]) = i - 1], S)
  <2>1. Orders(below, S)
    <3>1. below \in [S -> SUBSET S]  OBVIOUS
    <3>2. \A x \in S : below[x] = {y \in S : y < x}  OBVIOUS
    <3>3. \A x \in S : x \in Int  OBVIOUS
    <3>. HIDE DEF below
    <3>4. \A x \in S : x \notin below[x]  BY <3>2, <3>3
    <3>5. \A x, y \in S : x # y => x \in below[y] \/ y \in below[x]  BY <3>2, <3>3
    <3>6. ASSUME NEW x \in S, NEW y \in S, x \in below[y], NEW z \in below[x]
          PROVE  z \in below[y]
      <4>1. z \in S /\ z < x /\ x < y  BY <3>2, <3>6
      <4>2. z < y  BY <3>3, <4>1
      <4>. QED  BY <3>2, <4>1, <4>2
    <3>. QED  BY <3>1, <3>4, <3>5, <3>6 DEF Orders
  <2>. HIDE DEF below
  <2>. QED  BY <1>1, <2>1, RankListing
<1>. DEFINE at == [i \in 1 .. Cardinality(S) |-> CHOOSE x \in S : Cardinality({y \in S : y < x}) = i - 1]
            of(i) == CHOOSE x \in S : Cardinality({y \in S : y < x}) = i - 1
            by(i) == CHOOSE x \in S : Cardinality(below[x]) = i - 1
<1>3. at = [i \in 1 .. Cardinality(S) |-> CHOOSE x \in S : Cardinality(below[x]) = i - 1]
  <2>1. \A x \in S : below[x] = {y \in S : y < x}  OBVIOUS
  <2>2. \A i \in 1 .. Cardinality(S) : of(i) = by(i)
    <3>. HIDE DEF below
    <3>. QED  BY <2>1, Zenon
  <2>3. at = [i \in 1 .. Cardinality(S) |-> of(i)]  OBVIOUS
  <2>4. [i \in 1 .. Cardinality(S) |-> CHOOSE x \in S : Cardinality(below[x]) = i - 1]
          = [i \in 1 .. Cardinality(S) |-> by(i)]
    OBVIOUS
  <2>. HIDE DEF below, at, of, by
  <2>. QED  BY <2>2, <2>3, <2>4
<1>4. Lists(at, S)
  <2>. HIDE DEF at, below
  <2>. QED  BY <1>2, <1>3
<1>. QED  BY <1>1, <1>4

LEMMA ListedSequence ==
  ASSUME NEW S, NEW seq, IsFiniteSet(S), Lists(seq, S)
  PROVE  seq \in Seq(S) /\ DOMAIN seq = 1 .. Cardinality(S) /\ Len(seq) = Cardinality(S) /\ ToSet(seq) = S
<1>1. Cardinality(S) \in Nat  BY FS_CardinalityType
<1>2. seq \in [1 .. Cardinality(S) -> S] /\ \A x \in S : \E i \in 1 .. Cardinality(S) : seq[i] = x
  BY DEF Lists
<1>. DEFINE n == Cardinality(S)
<1>. HIDE DEF n
<1>3. seq \in Seq(S) /\ DOMAIN seq = 1 .. n /\ Len(seq) = n  BY <1>1, <1>2 DEF n
<1>4. ToSet(seq) = S  BY <1>2, <1>3 DEF ToSet, n
<1>. QED  BY <1>3, <1>4 DEF n

LEMMA ConcatHolds ==
  ASSUME NEW S, NEW s \in Seq(S), NEW t \in Seq(S)
  PROVE  s \o t \in Seq(S) /\ Len(s \o t) = Len(s) + Len(t) /\ ToSet(s \o t) = ToSet(s) \cup ToSet(t)
<1>1. /\ s \o t \in Seq(S) /\ Len(s \o t) = Len(s) + Len(t)
      /\ \A i \in 1 .. Len(s) + Len(t) : (s \o t)[i] = IF i <= Len(s) THEN s[i] ELSE t[i - Len(s)]
  BY ConcatProperties
<1>2. /\ DOMAIN s = 1 .. Len(s) /\ DOMAIN t = 1 .. Len(t) /\ Len(s) \in Nat /\ Len(t) \in Nat
      /\ DOMAIN (s \o t) = 1 .. Len(s) + Len(t)
  BY <1>1
<1>. DEFINE st == s \o t
<1>. HIDE DEF st
<1>3. ASSUME NEW x \in ToSet(st) PROVE x \in ToSet(s) \cup ToSet(t)
  <2>1. PICK i \in 1 .. Len(s) + Len(t) : st[i] = x  BY <1>2 DEF ToSet, st
  <2>2. CASE i <= Len(s)
    <3>1. i \in DOMAIN s /\ x = s[i]  BY <1>1, <1>2, <2>1, <2>2 DEF st
    <3>. QED  BY <3>1 DEF ToSet
  <2>3. CASE ~(i <= Len(s))
    <3>1. i - Len(s) \in DOMAIN t /\ x = t[i - Len(s)]  BY <1>1, <1>2, <2>1, <2>3 DEF st
    <3>. QED  BY <3>1 DEF ToSet
  <2>. QED  BY <2>2, <2>3
<1>4. ASSUME NEW x \in ToSet(s) PROVE x \in ToSet(st)
  <2>1. PICK i \in 1 .. Len(s) : s[i] = x  BY <1>2 DEF ToSet
  <2>2. i \in DOMAIN st /\ st[i] = x  BY <1>1, <1>2, <2>1 DEF st
  <2>. QED  BY <2>2 DEF ToSet
<1>5. ASSUME NEW x \in ToSet(t) PROVE x \in ToSet(st)
  <2>1. PICK i \in 1 .. Len(t) : t[i] = x  BY <1>2 DEF ToSet
  <2>2. i + Len(s) \in 1 .. Len(s) + Len(t) /\ ~(i + Len(s) <= Len(s)) /\ (i + Len(s)) - Len(s) = i  BY <1>2
  <2>3. i + Len(s) \in DOMAIN st /\ st[i + Len(s)] = x  BY <1>1, <1>2, <2>1, <2>2 DEF st
  <2>. QED  BY <2>3 DEF ToSet
<1>. QED  BY <1>1, <1>3, <1>4, <1>5 DEF st

\* What is appended holds what its parts hold.
LEMMA FlattenHolds ==
  ASSUME NEW S, NEW n \in Nat, NEW seqs \in [1 .. n -> Seq(S)]
  PROVE  ToSet(FlattenSeq(seqs)) = UNION {ToSet(seqs[k]) : k \in 1 .. n}
<1>1. PICK flat : Flattens(flat, S, n, seqs)  BY FlattenRuns
<1>. DEFINE Upto(k) == UNION {ToSet(seqs[i]) : i \in 1 .. k}
            Good == {k \in 0 .. n : ToSet(flat[k]) = Upto(k)}
<1>2. 0 \in Good
  <2>1. flat[0] = <<>>  BY <1>1 DEF Flattens
  <2>2. ToSet(<<>>) = {} /\ Upto(0) = {}  BY DEF ToSet
  <2>. QED  BY <2>1, <2>2
<1>3. ASSUME NEW k \in 0 .. n - 1, k \in Good PROVE k + 1 \in Good
  <2>1. k + 1 \in 1 .. n /\ k + 1 \in 0 .. n /\ k \in 0 .. n /\ (k + 1) - 1 = k  OBVIOUS
  <2>2. flat[k] \in Seq(S) /\ seqs[k + 1] \in Seq(S) /\ flat[k + 1] = flat[k] \o seqs[k + 1]
    BY <1>1, <2>1 DEF Flattens
  <2>3. ToSet(flat[k + 1]) = ToSet(flat[k]) \cup ToSet(seqs[k + 1])  BY <2>2, ConcatHolds
  <2>4. 1 .. k + 1 = (1 .. k) \cup {k + 1}  OBVIOUS
  <2>5. Upto(k + 1) = Upto(k) \cup ToSet(seqs[k + 1])  BY <2>4
  <2>. QED  BY <1>3, <2>1, <2>3, <2>5
<1>. HIDE DEF Upto
<1>4. n \in Good
  <2>1. 0 .. n \subseteq Good
    <3>. HIDE DEF Good
    <3>. QED  BY <1>2, <1>3, BoundedInduction
  <2>. QED  BY <2>1
<1>. QED  BY <1>1, <1>4 DEF Flattens, Upto

=============================================================================

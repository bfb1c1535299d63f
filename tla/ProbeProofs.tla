----------------------------- MODULE ProbeProofs -----------------------------
(***************************************************************************)
(* The probing stage for every formula, every answer the solver may give   *)
(* and every place the clock may run out: the classes stay a partition, no *)
(* model it reads ever loses an answer that is still to be found, and what *)
(* the stage leaves is what the chain takes it to leave, complete unless a *)
(* search was cut off or a pair given up.                                  *)
(***************************************************************************)
EXTENDS ProbeStage, FoldProofs

-----------------------------------------------------------------------------
(***************************************************************************)
(* Literals, models and what is read from a model.                         *)
(***************************************************************************)
LEMMA Literals ==
  ASSUME NEW l \in Lits
  PROVE  /\ l \in Int /\ l # 0 /\ -l \in Lits /\ -(-l) = l
         /\ VarOf(l) \in Vars /\ VarOf(-l) = VarOf(l) /\ Vars \subseteq Lits
         /\ \A T : Holds(-l, T) <=> ~Holds(l, T)
<1>1. NumVars \in Nat  BY NumVarsAssumption
<1>2. \A v \in Vars : v \in Int /\ v > 0  BY <1>1 DEF Vars
<1>3. CASE l \in Vars
  <2>1. l \in Int /\ l > 0 /\ -l < 0 /\ -(-l) = l  BY <1>2, <1>3
  <2>. QED  BY <1>3, <2>1 DEF Lits, VarOf, Holds
<1>4. ASSUME NEW v \in Vars, l = -v
      PROVE  /\ l \in Int /\ l # 0 /\ -l \in Lits /\ -(-l) = l
             /\ VarOf(l) \in Vars /\ VarOf(-l) = VarOf(l) /\ Vars \subseteq Lits
             /\ \A T : Holds(-l, T) <=> ~Holds(l, T)
  <2>1. v \in Int /\ v > 0 /\ l \in Int /\ l < 0 /\ l # 0 /\ -l = v /\ -(-l) = l  BY <1>2, <1>4
  <2>2. -l \in Lits /\ Vars \subseteq Lits  BY <2>1 DEF Lits
  <2>3. VarOf(l) = v /\ VarOf(-l) = v  BY <2>1 DEF VarOf
  <2>4. \A T : (Holds(-l, T) <=> v \in T) /\ (Holds(l, T) <=> v \notin T)  BY <2>1 DEF Holds
  <2>. QED  BY <2>1, <2>2, <2>3, <2>4
<1>. QED  BY <1>3, <1>4 DEF Lits

\* Of one variable there are two literals.
LEMMA SameVariable ==
  ASSUME NEW l \in Lits, NEW m \in Lits, VarOf(l) = VarOf(m)
  PROVE  m = l \/ m = -l
<1>1. l \in Int /\ m \in Int  BY Literals
<1>. QED  BY <1>1 DEF VarOf

\* What is read over the variables held is what the answer says of them.
LEMMA RereadAgrees ==
  ASSUME NEW T, NEW held, NEW l \in Lits, VarOf(l) \in held
  PROVE  Holds(l, Reread(T, held)) <=> Holds(l, T)
<1>1. CASE l > 0
  <2>1. l \in held  BY <1>1 DEF VarOf
  <2>. QED  BY <1>1, <2>1 DEF Holds, Reread
<1>2. CASE ~ (l > 0)
  <2>1. -l \in held  BY <1>2 DEF VarOf
  <2>. QED  BY <1>2, <2>1 DEF Holds, Reread
<1>. QED  BY <1>1, <1>2

EngineOf(F) == Models(F, Appearing(F))

\* The models of what was loaded are models over all the variables, so that a
\* backbone literal holds in each.
LEMMA EngineModels ==
  ASSUME NEW F \in SUBSET Clauses
  PROVE  /\ Appearing(F) \subseteq Vars
         /\ EngineOf(F) \subseteq SUBSET Vars
         /\ \A T \in EngineOf(F) : \A l \in Backbone(F) : Holds(l, T)
<1>1. \A l \in UNION F : l \in Lits  BY DEF Clauses
<1>2. Appearing(F) \subseteq Vars  BY <1>1, Literals DEF Appearing
<1>3. EngineOf(F) \subseteq Models(F, Vars)  BY <1>2 DEF EngineOf, Models
<1>. QED  BY <1>2, <1>3 DEF Backbone, Models

-----------------------------------------------------------------------------
(***************************************************************************)
(* Sequences without repetition, and the sets they hold.                   *)
(***************************************************************************)
NoTwice(q) == \A i, j \in 1 .. Len(q) : q[i] = q[j] => i = j

\* A sequence cut in two: the parts hold what it holds, and share nothing.
Cut(q, p, a, S) ==
  /\ p \in Seq(S) /\ a \in Seq(S) /\ Len(p) + Len(a) = Len(q)
  /\ \A i \in 1 .. Len(p) : p[i] = q[i]
  /\ \A i \in 1 .. Len(a) : a[i] = q[Len(p) + i]
  /\ ToSet(q) = ToSet(p) \cup ToSet(a)
  /\ NoTwice(q) => NoTwice(p) /\ NoTwice(a) /\ ToSet(p) \cap ToSet(a) = {}

LEMMA CutAt ==
  ASSUME NEW S, NEW q \in Seq(S), NEW n \in 0 .. Len(q)
  PROVE  /\ Len(SubSeq(q, 1, n)) = n
         /\ Cut(q, SubSeq(q, 1, n), Dropped(q, n), S)
<1>. DEFINE p == SubSeq(q, 1, n)
            a == Dropped(q, n)
            N == Len(q)
<1>1. N \in Nat /\ n \in Nat /\ n <= N /\ DOMAIN q = 1 .. N  OBVIOUS
<1>2. /\ p \in Seq(S) /\ Len(p) = n /\ \A i \in 1 .. n : p[i] = q[i]
  <2>1. \A i \in 1 .. n : q[i] \in S  BY <1>1
  <2>. QED  BY <1>1, <2>1, SubSeqProperties
<1>3. /\ a \in Seq(S) /\ Len(a) = N - n /\ \A i \in 1 .. N - n : a[i] = q[n + i]
  <2>1. a = SubSeq(q, n + 1, N)  BY DEF Dropped
  <2>2. a \in Seq(S) /\ Len(a) = N - n
    <3>. DEFINE first == n + 1
    <3>1. first \in Int /\ N \in Int /\ first <= N + 1 /\ \A i \in first .. N : q[i] \in S  BY <1>1
    <3>2. a = SubSeq(q, first, N)  BY <2>1
    <3>. HIDE DEF first, a, N
    <3>3. a \in Seq(S) /\ Len(a) = IF first <= N THEN N - first + 1 ELSE 0
      BY <3>1, <3>2, SubSeqProperties
    <3>4. Len(a) = N - first + 1  BY <3>1, <3>3
    <3>. QED  BY <1>1, <3>3, <3>4 DEF first
  <2>3. \A i \in 1 .. N - n : a[i] = q[n + i]
    <3>1. \A i \in 1 .. N - n : (n + 1) + i - 1 = n + i /\ n + i \in 1 .. N  BY <1>1
    <3>. QED  BY <1>1, <2>1, <3>1
  <2>. QED  BY <2>2, <2>3
<1>. HIDE DEF p, a
<1>4. DOMAIN p = 1 .. n /\ DOMAIN a = 1 .. N - n  BY <1>2, <1>3
<1>5. ToSet(q) = ToSet(p) \cup ToSet(a)
  <2>1. ASSUME NEW i \in 1 .. N PROVE q[i] \in ToSet(p) \cup ToSet(a)
    <3>1. CASE i <= n  BY <1>1, <1>2, <1>4, <3>1 DEF ToSet
    <3>2. CASE i > n
      <4>1. i - n \in 1 .. N - n /\ n + (i - n) = i  BY <1>1, <3>2
      <4>2. a[i - n] = q[i]  BY <1>3, <4>1
      <4>. QED  BY <1>4, <4>1, <4>2 DEF ToSet
    <3>. QED  BY <1>1, <3>1, <3>2
  <2>2. ASSUME NEW i \in 1 .. n PROVE p[i] \in ToSet(q)  BY <1>1, <1>2 DEF ToSet
  <2>3. ASSUME NEW i \in 1 .. N - n PROVE a[i] \in ToSet(q)
    <3>1. n + i \in 1 .. N  BY <1>1
    <3>. QED  BY <1>1, <1>3, <3>1 DEF ToSet
  <2>. QED  BY <1>1, <1>4, <2>1, <2>2, <2>3 DEF ToSet
<1>6. ASSUME NoTwice(q) PROVE NoTwice(p) /\ NoTwice(a) /\ ToSet(p) \cap ToSet(a) = {}
  <2>1. NoTwice(p)  BY <1>1, <1>2, <1>6 DEF NoTwice
  <2>2. NoTwice(a)
    <3>1. ASSUME NEW i \in 1 .. N - n, NEW j \in 1 .. N - n, a[i] = a[j] PROVE i = j
      <4>1. n + i \in 1 .. N /\ n + j \in 1 .. N /\ q[n + i] = q[n + j]  BY <1>1, <1>3, <3>1
      <4>2. n + i = n + j  BY <1>6, <4>1 DEF NoTwice
      <4>. QED  BY <1>1, <4>2
    <3>. QED  BY <1>3, <3>1 DEF NoTwice
  <2>3. ASSUME NEW i \in 1 .. n, NEW j \in 1 .. N - n PROVE p[i] # a[j]
    <3>1. i \in 1 .. N /\ n + j \in 1 .. N /\ i # n + j  BY <1>1
    <3>. QED  BY <1>2, <1>3, <1>6, <3>1 DEF NoTwice
  <2>. QED  BY <1>4, <2>1, <2>2, <2>3 DEF ToSet
<1>7. Len(p) + Len(a) = Len(q)  BY <1>1, <1>2, <1>3
<1>8. Cut(q, p, a, S)  BY <1>2, <1>3, <1>5, <1>6, <1>7 DEF Cut
<1>. QED  BY <1>2, <1>8 DEF p, a

\* Two sequences joined again, and what is past the first.
LEMMA Rejoined ==
  ASSUME NEW S, NEW p \in Seq(S), NEW b \in Seq(S)
  PROVE  /\ p \o b \in Seq(S) /\ Len(p \o b) = Len(p) + Len(b)
         /\ ToSet(p \o b) = ToSet(p) \cup ToSet(b)
         /\ ToSet(Dropped(p \o b, Len(p))) = ToSet(b)
         /\ NoTwice(p) /\ NoTwice(b) /\ ToSet(p) \cap ToSet(b) = {} => NoTwice(p \o b)
<1>. DEFINE q == p \o b
            m == Len(p)
            n == Len(b)
<1>1. /\ q \in Seq(S) /\ Len(q) = m + n /\ m \in Nat /\ n \in Nat
      /\ DOMAIN p = 1 .. m /\ DOMAIN b = 1 .. n /\ DOMAIN q = 1 .. m + n
      /\ \A i \in 1 .. m : q[i] = p[i]
      /\ \A i \in 1 .. n : q[m + i] = b[i]
  BY ConcatProperties
<1>. HIDE DEF q
<1>2. \A i \in 1 .. m + n : i \in 1 .. m \/ (i - m \in 1 .. n /\ m + (i - m) = i)  BY <1>1
<1>3. ToSet(q) = ToSet(p) \cup ToSet(b)
  <2>1. \A i \in 1 .. m : i \in 1 .. m + n  BY <1>1
  <2>2. \A i \in 1 .. n : m + i \in 1 .. m + n  BY <1>1
  <2>3. ToSet(q) \subseteq ToSet(p) \cup ToSet(b)
    <3>1. ASSUME NEW i \in 1 .. m + n PROVE q[i] \in ToSet(p) \cup ToSet(b)
      <4>1. CASE i \in 1 .. m  BY <1>1, <4>1 DEF ToSet
      <4>2. CASE i - m \in 1 .. n /\ m + (i - m) = i
        <5>1. q[i] = b[i - m]  BY <1>1, <4>2
        <5>. QED  BY <1>1, <4>2, <5>1 DEF ToSet
      <4>. QED  BY <1>2, <4>1, <4>2
    <3>. QED  BY <1>1, <3>1 DEF ToSet
  <2>4. ToSet(p) \subseteq ToSet(q)  BY <1>1, <2>1 DEF ToSet
  <2>5. ToSet(b) \subseteq ToSet(q)  BY <1>1, <2>2 DEF ToSet
  <2>. QED  BY <2>3, <2>4, <2>5
<1>4. ToSet(Dropped(q, m)) = ToSet(b)
  <2>. DEFINE a == Dropped(q, m)
  <2>1. m \in 0 .. Len(q)  BY <1>1
  <2>2. Cut(q, SubSeq(q, 1, m), a, S) /\ Len(SubSeq(q, 1, m)) = m  BY <1>1, <2>1, CutAt
  <2>. HIDE DEF a
  <2>3. a \in Seq(S) /\ m + Len(a) = m + n /\ \A i \in 1 .. Len(a) : a[i] = q[m + i]
    BY <1>1, <2>2 DEF Cut
  <2>4. Len(a) = n  BY <1>1, <2>3
  <2>5. DOMAIN a = 1 .. n /\ \A i \in 1 .. n : a[i] = b[i]  BY <1>1, <2>3, <2>4
  <2>6. ToSet(a) = ToSet(b)  BY <1>1, <2>5 DEF ToSet
  <2>. QED  BY <2>6 DEF a
<1>5. ASSUME NoTwice(p), NoTwice(b), ToSet(p) \cap ToSet(b) = {} PROVE NoTwice(q)
  <2>1. \A i \in 1 .. m, j \in 1 .. n : p[i] # b[j]  BY <1>1, <1>5 DEF ToSet
  <2>2. ASSUME NEW i \in 1 .. m + n, NEW j \in 1 .. m + n, q[i] = q[j] PROVE i = j
    <3>1. CASE i \in 1 .. m /\ j \in 1 .. m  BY <1>1, <1>5, <2>2, <3>1 DEF NoTwice
    <3>2. CASE i \in 1 .. m /\ j \notin 1 .. m
      <4>1. q[j] = b[j - m] /\ j - m \in 1 .. n  BY <1>1, <1>2, <3>2
      <4>. QED  BY <1>1, <2>1, <2>2, <3>2, <4>1
    <3>3. CASE i \notin 1 .. m /\ j \in 1 .. m
      <4>1. q[i] = b[i - m] /\ i - m \in 1 .. n  BY <1>1, <1>2, <3>3
      <4>. QED  BY <1>1, <2>1, <2>2, <3>3, <4>1
    <3>4. CASE i \notin 1 .. m /\ j \notin 1 .. m
      <4>1. /\ q[i] = b[i - m] /\ i - m \in 1 .. n /\ q[j] = b[j - m] /\ j - m \in 1 .. n
        BY <1>1, <1>2, <3>4
      <4>2. i - m = j - m  BY <1>5, <2>2, <4>1 DEF NoTwice
      <4>. QED  BY <1>1, <4>2
    <3>. QED  BY <3>1, <3>2, <3>3, <3>4
  <2>. QED  BY <1>1, <2>2 DEF NoTwice
<1>. QED  BY <1>1, <1>3, <1>4, <1>5 DEF q

\* What is kept of a sequence without repetition.
LEMMA KeepingKeeps ==
  ASSUME NEW S, NEW q \in Seq(S), NoTwice(q), NEW P
  PROVE  /\ Keeping(q, P) \in Seq(S) /\ NoTwice(Keeping(q, P))
         /\ ToSet(Keeping(q, P)) = ToSet(q) \cap P
<1>. DEFINE seqs == [k \in 1 .. Len(q) |-> IF q[k] \in P THEN <<q[k]>> ELSE <<>>]
            kept == Keeping(q, P)
<1>1. \A s \in Seq(S) : ToSet(s) = {s[i] : i \in 1 .. Len(s)}  BY DEF ToSet
<1>2. Enumerates(q, ToSet(q))
  <2>1. \A i \in 1 .. Len(q) : q[i] \in ToSet(q)  BY <1>1
  <2>2. \A x \in ToSet(q) : \E i \in 1 .. Len(q) : q[i] = x  BY <1>1
  <2>. QED  BY <2>1, <2>2 DEF Enumerates, NoTwice
<1>3. Selects(seqs, q, P)  BY DEF Selects
<1>4. kept = FlattenSeq(seqs)  BY DEF Keeping
<1>. HIDE DEF seqs, kept
<1>5. kept \in Seq(S) /\ Enumerates(kept, ToSet(q) \cap P)  BY <1>2, <1>3, <1>4, ListsSelected
<1>6. NoTwice(kept) /\ ToSet(kept) = ToSet(q) \cap P  BY <1>1, <1>5 DEF Enumerates, NoTwice
<1>. QED  BY <1>5, <1>6 DEF kept

-----------------------------------------------------------------------------
(***************************************************************************)
(* The partition: t is the class true in every model, S the other classes, *)
(* k the class being probed, B what is confirmed.                          *)
(***************************************************************************)
InClassOf(k) == ToSet(k.left) \cup k.same \cup {k.rep}
MemOf(t, S, k) == (UNION S) \cup t \cup ToSet(k.left) \cup k.same \cup ({k.rep} \ {0})
AliveOf(t, S, k) == (UNION S) \cup t \cup ToSet(Dropped(k.left, k.at - 1)) \cup ({k.rep} \ {0})

Steady(members, B) ==
  /\ B \subseteq Lits /\ members \subseteq Lits \ B
  /\ \A l \in members : -l \notin members /\ -l \notin B

Disjoint(t, S) == \A c \in S : \A d \in (S \ {c}) \cup {t} : c \cap d = {}
Outside(S, k) == \A c \in S : c \cap InClassOf(k) = {}

Shape(t, S, k, B) == Steady(MemOf(t, S, k), B) /\ Disjoint(t, S) /\ Outside(S, k)

\* What leaves the members is confirmed or gone.
LEMMA SteadyShrinks ==
  ASSUME NEW members, NEW B, Steady(members, B),
         NEW fewer \in SUBSET members, NEW more \in SUBSET (B \cup members),
         fewer \cap more = {}
  PROVE  Steady(fewer, more)
<1>1. more \subseteq Lits /\ fewer \subseteq Lits \ more  BY DEF Steady
<1>2. ASSUME NEW l \in fewer PROVE -l \notin fewer /\ -l \notin more
  BY DEF Steady
<1>. QED  BY <1>1, <1>2 DEF Steady

\* One half of c: what has one value in M.
Half(h, c, M) == h \subseteq c /\ \A l \in h, m \in c : m \in h <=> (Holds(l, M) <=> Holds(m, M))

LEMMA Halves ==
  ASSUME NEW c, NEW M
  PROVE  Half(TrueIn(c, M), c, M) /\ Half(c \ TrueIn(c, M), c, M)
BY DEF Half, TrueIn

LEMMA RefinedParts ==
  ASSUME NEW t, NEW S, NEW M, NEW h \in Refined(S, t, M)
  PROVE  (\E c \in S : Half(h, c, M)) \/ h = t \ TrueIn(t, M)
<1>1. h \in {TrueIn(c, M) : c \in S} \cup {c \ TrueIn(c, M) : c \in S} \cup {t \ TrueIn(t, M)}
  BY DEF Refined, WorthKeeping
<1>. QED  BY <1>1, Halves

\* Halves of one class that share a literal are one half.
LEMMA HalvesMeet ==
  ASSUME NEW h, NEW g, NEW c, NEW M, Half(h, c, M), Half(g, c, M), h \cap g # {}
  PROVE  h = g
<1>1. PICK x \in h : x \in g  OBVIOUS
<1>2. \A m \in c : m \in h <=> m \in g  BY <1>1 DEF Half
<1>. QED  BY <1>2 DEF Half

NoClassFacts ==
  /\ ToSet(NoClass.left) = {} /\ NoClass.same = {} /\ NoClass.rep = 0
  /\ ToSet(Dropped(NoClass.left, NoClass.at - 1)) = {}

LEMMA NoClassHolds == NoClassFacts
<1>1. NoClass.left = <<>> /\ NoClass.same = {} /\ NoClass.rep = 0 /\ NoClass.at = 1
  BY DEF NoClass
<1>2. Dropped(<<>>, 0) = <<>>
  <2>1. SubSeq(<<>>, 1, 0) = <<>>  BY SubSeqEmpty
  <2>2. Len(<<>>) = 0  OBVIOUS
  <2>. QED  BY <2>1, <2>2 DEF Dropped
<1>3. ToSet(<<>>) = {}  BY DEF ToSet
<1>4. 1 - 1 = 0  OBVIOUS
<1>. QED  BY <1>1, <1>2, <1>3, <1>4 DEF NoClassFacts

\* With no class being probed, the members are what the classes hold.
LEMMA NoClassMembers ==
  ASSUME NEW t, NEW S
  PROVE  /\ MemOf(t, S, NoClass) = (UNION S) \cup t
         /\ AliveOf(t, S, NoClass) = (UNION S) \cup t
         /\ InClassOf(NoClass) = {0}
         /\ (UNION S) \subseteq Lits => Outside(S, NoClass)
<1>1. 0 \notin Lits  BY Literals
<1>2. InClassOf(NoClass) = {0}  BY NoClassHolds DEF InClassOf, NoClassFacts
<1>3. MemOf(t, S, NoClass) = (UNION S) \cup t /\ AliveOf(t, S, NoClass) = (UNION S) \cup t
  BY NoClassHolds DEF MemOf, AliveOf, NoClassFacts
<1>4. (UNION S) \subseteq Lits => Outside(S, NoClass)  BY <1>1, <1>2 DEF Outside
<1>. QED  BY <1>2, <1>3, <1>4

\* Cut by a model, a partition is one.
LEMMA RefinedDisjoint ==
  ASSUME NEW t, NEW S, NEW M, Disjoint(t, S)
  PROVE  /\ Disjoint(TrueIn(t, M), Refined(S, t, M))
         /\ (UNION Refined(S, t, M)) \cup TrueIn(t, M) \subseteq (UNION S) \cup t
<1>. DEFINE R == Refined(S, t, M)
            u == TrueIn(t, M)
<1>1. u \subseteq t  BY DEF TrueIn
<1>2. ASSUME NEW h \in R PROVE (\E c \in S : Half(h, c, M)) \/ h = t \ u
  BY RefinedParts
<1>. HIDE DEF R, u
<1>3. (UNION R) \cup u \subseteq (UNION S) \cup t
  <2>1. ASSUME NEW h \in R, NEW l \in h PROVE l \in (UNION S) \cup t
    <3>1. CASE \E c \in S : Half(h, c, M)  BY <2>1, <3>1 DEF Half
    <3>2. CASE h = t \ u
      <4>1. l \in t \ u  BY <2>1, <3>2
      <4>. QED  BY <4>1
    <3>. QED  BY <1>2, <3>1, <3>2
  <2>. QED  BY <1>1, <2>1
<1>4. ASSUME NEW h \in R PROVE h \cap u = {}
  <2>1. ASSUME NEW c \in S, Half(h, c, M) PROVE h \cap u = {}
    <3>1. c \cap t = {}  BY DEF Disjoint
    <3>. QED  BY <1>1, <2>1, <3>1 DEF Half
  <2>. QED  BY <1>2, <2>1
<1>5. ASSUME NEW h \in R, NEW g \in R, h # g PROVE h \cap g = {}
  <2>1. ASSUME NEW c \in S, NEW d \in S, Half(h, c, M), Half(g, d, M) PROVE h \cap g = {}
    <3>1. CASE c = d  BY <1>5, <2>1, <3>1, HalvesMeet
    <3>2. CASE c # d
      <4>1. c \cap d = {}  BY <3>2 DEF Disjoint
      <4>. QED  BY <2>1, <4>1 DEF Half
    <3>. QED  BY <3>1, <3>2
  <2>2. ASSUME NEW c \in S, Half(h, c, M), g = t \ u PROVE h \cap g = {}
    <3>1. c \cap t = {}  BY DEF Disjoint
    <3>. QED  BY <2>2, <3>1 DEF Half
  <2>3. ASSUME NEW c \in S, Half(g, c, M), h = t \ u PROVE h \cap g = {}
    <3>1. c \cap t = {}  BY DEF Disjoint
    <3>. QED  BY <2>3, <3>1 DEF Half
  <2>. QED  BY <1>2, <1>5, <2>1, <2>2, <2>3
<1>6. Disjoint(u, R)  BY <1>4, <1>5 DEF Disjoint
<1>. QED  BY <1>3, <1>6 DEF R, u

LEMMA ObservedShape ==
  ASSUME NEW t, NEW S, NEW B, NEW M, Shape(t, S, NoClass, B)
  PROVE  Shape(TrueIn(t, M), Refined(S, t, M), NoClass, B)
<1>. DEFINE R == Refined(S, t, M)
            u == TrueIn(t, M)
<1>1. Disjoint(u, R) /\ (UNION R) \cup u \subseteq (UNION S) \cup t  BY RefinedDisjoint DEF Shape
<1>. HIDE DEF R, u
<1>2. Steady((UNION S) \cup t, B)  BY NoClassMembers DEF Shape
<1>3. ((UNION R) \cup u) \cap B = {}  BY <1>1, <1>2 DEF Steady
<1>4. Steady((UNION R) \cup u, B)  BY <1>1, <1>2, <1>3, SteadyShrinks
<1>5. Outside(R, NoClass)  BY <1>4, NoClassMembers DEF Steady
<1>6. Shape(u, R, NoClass, B)  BY <1>1, <1>4, <1>5, NoClassMembers DEF Shape
<1>. QED  BY <1>6 DEF R, u

-----------------------------------------------------------------------------
(***************************************************************************)
(* Literals in two classes are parted by a model.                          *)
(***************************************************************************)
Parted(E, l, m) == \E T \in E : Holds(l, T) # Holds(m, T)

Apart(E, t, S, k) == \A c \in S \cup {t} : \A l \in c, m \in AliveOf(t, S, k) \ c : Parted(E, l, m)

LEMMA PartedSwaps ==
  ASSUME NEW E, NEW l, NEW m, Parted(E, l, m)
  PROVE  Parted(E, m, l)
BY DEF Parted

\* A model parts what it cuts, and nothing is joined.
LEMMA ObservedApart ==
  ASSUME NEW E, NEW t, NEW S, NEW T \in E, NEW M,
         Apart(E, t, S, NoClass), \A l \in (UNION S) \cup t : Holds(l, M) <=> Holds(l, T)
  PROVE  Apart(E, TrueIn(t, M), Refined(S, t, M), NoClass)
<1>. DEFINE R == Refined(S, t, M)
            u == TrueIn(t, M)
<1>1. ASSUME NEW h \in R \cup {u} PROVE \E c \in S \cup {t} : Half(h, c, M)
  <2>1. Half(u, t, M) /\ Half(t \ u, t, M)  BY Halves
  <2>2. h \in R => (\E c \in S : Half(h, c, M)) \/ h = t \ u  BY RefinedParts
  <2>. HIDE DEF R, u
  <2>3. CASE h = u  BY <2>1, <2>3
  <2>4. CASE h \in R
    <3>1. CASE \E c \in S : Half(h, c, M)  BY <3>1
    <3>2. CASE h = t \ u  BY <2>1, <3>2
    <3>. QED  BY <2>2, <2>4, <3>1, <3>2
  <2>. QED  BY <2>3, <2>4
<1>. HIDE DEF R, u
<1>2. ASSUME NEW h \in R \cup {u}, NEW l \in h, NEW m \in ((UNION R) \cup u) \ h
      PROVE  Parted(E, l, m)
  <2>1. PICK c \in S \cup {t} : Half(h, c, M)  BY <1>1
  <2>2. PICK g \in R \cup {u} : m \in g
    <3>1. CASE m \in u  BY <3>1
    <3>2. CASE m \in UNION R
      <4>1. PICK g \in R : m \in g  BY <3>2
      <4>. QED  BY <4>1
    <3>. QED  BY <1>2, <3>1, <3>2
  <2>3. PICK d \in S \cup {t} : Half(g, d, M)  BY <1>1
  <2>4. l \in c /\ l \in (UNION S) \cup t /\ m \in (UNION S) \cup t
    <3>1. \A x : x \in c \/ x \in d => x \in (UNION S) \cup t  BY <2>1, <2>3
    <3>2. l \in c /\ m \in d  BY <1>2, <2>1, <2>2, <2>3 DEF Half
    <3>. QED  BY <3>1, <3>2
  <2>5. CASE m \in c
    <3>1. ~ (Holds(l, M) <=> Holds(m, M))  BY <1>2, <2>1, <2>5 DEF Half
    <3>2. ~ (Holds(l, T) <=> Holds(m, T))  BY <2>4, <3>1
    <3>. QED  BY <3>2 DEF Parted
  <2>6. CASE m \notin c
    <3>1. m \in AliveOf(t, S, NoClass) \ c  BY <2>4, <2>6, NoClassMembers
    <3>. QED  BY <2>4, <3>1 DEF Apart
  <2>. QED  BY <2>5, <2>6
<1>3. Apart(E, u, R, NoClass)
  <2>1. AliveOf(u, R, NoClass) = (UNION R) \cup u  BY NoClassMembers
  <2>. QED  BY <1>2, <2>1 DEF Apart
<1>. QED  BY <1>3 DEF R, u

\* Confirmed literals leave top, and nothing else changes.
LEMMA ConfirmedShape ==
  ASSUME NEW t, NEW S, NEW B, Shape(t, S, NoClass, B), NEW L \in SUBSET (t \cup B)
  PROVE  Shape(t \ L, S, NoClass, B \cup L)
<1>1. Steady((UNION S) \cup t, B) /\ Disjoint(t, S) /\ Outside(S, NoClass)
  BY NoClassMembers DEF Shape
<1>2. (UNION S) \cap L = {}
  <2>1. (UNION S) \cap t = {}  BY <1>1 DEF Disjoint
  <2>2. (UNION S) \cap B = {}  BY <1>1 DEF Steady
  <2>. QED  BY <2>1, <2>2
<1>3. ((UNION S) \cup (t \ L)) \cap (B \cup L) = {}  BY <1>1, <1>2 DEF Steady
<1>4. Steady((UNION S) \cup (t \ L), B \cup L)
  <2>. DEFINE fewer == (UNION S) \cup (t \ L)
              more == B \cup L
              members == (UNION S) \cup t
  <2>1. fewer \in SUBSET members /\ more \in SUBSET (B \cup members) /\ fewer \cap more = {}
    BY <1>3
  <2>2. Steady(members, B)  BY <1>1
  <2>. HIDE DEF fewer, more, members
  <2>3. Steady(fewer, more)  BY <2>1, <2>2, SteadyShrinks
  <2>. QED  BY <2>3 DEF fewer, more
<1>5. Disjoint(t \ L, S)
  <2>1. ASSUME NEW c \in S PROVE c \cap (t \ L) = {} /\ \A d \in S \ {c} : c \cap d = {}
    BY <1>1 DEF Disjoint
  <2>. QED  BY <2>1 DEF Disjoint
<1>. QED  BY <1>1, <1>4, <1>5, NoClassMembers DEF Shape

LEMMA ConfirmedApart ==
  ASSUME NEW E, NEW t, NEW S, Apart(E, t, S, NoClass), NEW L, Disjoint(t, S)
  PROVE  Apart(E, t \ L, S, NoClass)
<1>1. \A m \in AliveOf(t \ L, S, NoClass) : m \in AliveOf(t, S, NoClass)  BY NoClassMembers
<1>2. ASSUME NEW l \in t \ L, NEW m \in AliveOf(t \ L, S, NoClass) \ (t \ L) PROVE Parted(E, l, m)
  <2>1. m \in UNION S  BY <1>2, NoClassMembers
  <2>2. PICK c \in S : m \in c  BY <2>1
  <2>3. m \notin t  BY <2>2 DEF Disjoint
  <2>. QED  BY <1>1, <1>2, <2>3 DEF Apart
<1>3. ASSUME NEW c \in S, NEW l \in c, NEW m \in AliveOf(t \ L, S, NoClass) \ c PROVE Parted(E, l, m)
  BY <1>1 DEF Apart
<1>. QED  BY <1>2, <1>3 DEF Apart

\* Fewer literals to compare are apart as they were.
LEMMA FewerApart ==
  ASSUME NEW E, NEW t, NEW S, NEW k, Apart(E, t, S, k), NEW S2 \in SUBSET S, NEW k2,
         AliveOf(t, S2, k2) \subseteq AliveOf(t, S, k)
  PROVE  Apart(E, t, S2, k2)
<1>1. ASSUME NEW c \in S2 \cup {t}, NEW l \in c, NEW m \in AliveOf(t, S2, k2) \ c PROVE Parted(E, l, m)
  <2>1. c \in S \cup {t} /\ m \in AliveOf(t, S, k) \ c  BY <1>1
  <2>. QED  BY <1>1, <2>1 DEF Apart
<1>. QED  BY <1>1 DEF Apart

LEMMA SteadyFewer ==
  ASSUME NEW members, NEW B, Steady(members, B), NEW fewer \in SUBSET members
  PROVE  Steady(fewer, B)
<1>1. fewer \cap B = {} /\ B \in SUBSET (B \cup members)  BY DEF Steady
<1>. QED  BY <1>1, SteadyShrinks

-----------------------------------------------------------------------------
(***************************************************************************)
(* Between the phases: variables substituted away leave every class, and   *)
(* what is left of top is a class again.                                   *)
(***************************************************************************)
LEMMA IngestedKeeps ==
  ASSUME NEW t, NEW S, NEW B, NEW rep, Shape(t, S, NoClass, B),
         NEW S2, S2 = {Ingested(c, rep) : c \in S}
  PROVE  /\ Shape(Ingested(t, rep), S2, NoClass, B)
         /\ \A E : Apart(E, t, S, NoClass) => Apart(E, Ingested(t, rep), S2, NoClass)
<1>. DEFINE u == Ingested(t, rep)
            Stays(l) == rep[VarOf(l)] = VarOf(l)
<1>1. \A c, l : l \in Ingested(c, rep) <=> l \in c /\ Stays(l)  BY DEF Ingested
<1>2. ASSUME NEW h \in S2 PROVE \E c \in S : h = Ingested(c, rep)  OBVIOUS
<1>. HIDE DEF Stays
<1>3. Disjoint(t, S) /\ Steady((UNION S) \cup t, B)  BY NoClassMembers DEF Shape
<1>4. (UNION S2) \cup u \subseteq (UNION S) \cup t
  <2>1. ASSUME NEW h \in S2, NEW l \in h PROVE l \in UNION S  BY <1>1, <1>2, <2>1
  <2>. QED  BY <1>1, <2>1
<1>5. Steady((UNION S2) \cup u, B)  BY <1>3, <1>4, SteadyFewer
<1>6. Disjoint(u, S2)
  <2>1. ASSUME NEW h \in S2, NEW g \in S2, h # g PROVE h \cap g = {}
    <3>1. PICK c \in S : h = Ingested(c, rep)  BY <1>2
    <3>2. PICK d \in S : g = Ingested(d, rep)  BY <1>2
    <3>3. c \cap d = {}  BY <1>3, <2>1, <3>1, <3>2 DEF Disjoint
    <3>. QED  BY <1>1, <3>1, <3>2, <3>3
  <2>2. ASSUME NEW h \in S2 PROVE h \cap u = {}
    <3>1. PICK c \in S : h = Ingested(c, rep)  BY <1>2
    <3>2. c \cap t = {}  BY <1>3 DEF Disjoint
    <3>. QED  BY <1>1, <3>1, <3>2
  <2>. QED  BY <2>1, <2>2 DEF Disjoint
<1>7. Outside(S2, NoClass)  BY <1>5, NoClassMembers DEF Steady
<1>8. Shape(u, S2, NoClass, B)  BY <1>5, <1>6, <1>7, NoClassMembers DEF Shape
<1>9. ASSUME NEW E, Apart(E, t, S, NoClass) PROVE Apart(E, u, S2, NoClass)
  <2>1. ASSUME NEW h \in S2 \cup {u}, NEW l \in h, NEW m \in ((UNION S2) \cup u) \ h
        PROVE  Parted(E, l, m)
    <3>1. PICK c \in S \cup {t} : h = Ingested(c, rep)  BY <1>2
    <3>2. m \in (UNION S) \cup t  BY <1>4, <2>1
    <3>3. Stays(m)
      <4>1. CASE m \in u  BY <1>1, <4>1
      <4>2. CASE m \in UNION S2
        <5>1. PICK g \in S2 : m \in g  BY <4>2
        <5>. QED  BY <1>1, <1>2, <5>1
      <4>. QED  BY <2>1, <4>1, <4>2
    <3>4. l \in c /\ m \notin c  BY <1>1, <2>1, <3>1, <3>3
    <3>5. m \in AliveOf(t, S, NoClass) \ c  BY <3>2, <3>4, NoClassMembers
    <3>. QED  BY <1>9, <3>1, <3>4, <3>5 DEF Apart
  <2>2. AliveOf(u, S2, NoClass) = (UNION S2) \cup u  BY NoClassMembers
  <2>. QED  BY <2>1, <2>2 DEF Apart
<1>. QED  BY <1>8, <1>9

LEMMA TopJoins ==
  ASSUME NEW t, NEW S, NEW B, Shape(t, S, NoClass, B)
  PROVE  /\ Shape({}, S \cup {t}, NoClass, B)
         /\ \A E : Apart(E, t, S, NoClass) => Apart(E, {}, S \cup {t}, NoClass)
<1>. DEFINE S2 == S \cup {t}
<1>1. Disjoint(t, S) /\ Steady((UNION S) \cup t, B)  BY NoClassMembers DEF Shape
<1>2. (UNION S2) \cup {} = (UNION S) \cup t  OBVIOUS
<1>3. Disjoint({}, S2)
  <2>1. ASSUME NEW c \in S2, NEW d \in S2, c # d PROVE c \cap d = {}
    <3>1. CASE c = t  BY <1>1, <2>1, <3>1 DEF Disjoint
    <3>2. CASE d = t  BY <1>1, <2>1, <3>2 DEF Disjoint
    <3>3. CASE c # t /\ d # t
      <4>1. c \in S /\ d \in S  BY <3>3
      <4>. QED  BY <1>1, <2>1, <4>1 DEF Disjoint
    <3>. QED  BY <3>1, <3>2, <3>3
  <2>. QED  BY <2>1 DEF Disjoint
<1>4. S2 = S \cup {t}  OBVIOUS
<1>. HIDE DEF S2
<1>5. Steady(UNION S2, B)  BY <1>1, <1>2
<1>6. Outside(S2, NoClass)  BY <1>5, NoClassMembers DEF Steady
<1>7. Shape({}, S2, NoClass, B)
  <2>1. MemOf({}, S2, NoClass) = UNION S2  BY NoClassMembers
  <2>. QED  BY <1>3, <1>5, <1>6, <2>1 DEF Shape
<1>8. ASSUME NEW E, Apart(E, t, S, NoClass) PROVE Apart(E, {}, S2, NoClass)
  <2>1. AliveOf({}, S2, NoClass) = AliveOf(t, S, NoClass)  BY <1>2, NoClassMembers
  <2>2. ASSUME NEW c \in S2 \cup {{}}, NEW l \in c, NEW m \in AliveOf({}, S2, NoClass) \ c
        PROVE  Parted(E, l, m)
    <3>1. c \in S \cup {t}  BY <1>4, <2>2
    <3>. QED  BY <1>8, <2>1, <2>2, <3>1 DEF Apart
  <2>. QED  BY <2>2 DEF Apart
<1>. QED  BY <1>7, <1>8 DEF S2

-----------------------------------------------------------------------------
(***************************************************************************)
(* A class being probed.                                                   *)
(***************************************************************************)
LEMMA FiniteLits == IsFiniteSet(Lits)
<1>. DEFINE low == -NumVars
<1>1. NumVars \in Nat /\ low \in Int  BY NumVarsAssumption
<1>2. \A l \in Lits : l \in Int /\ low <= l /\ l <= NumVars
  <2>1. \A v \in Vars : v \in Int /\ 0 < v /\ v <= NumVars  BY <1>1 DEF Vars
  <2>. QED  BY <1>1, <2>1 DEF Lits
<1>. HIDE DEF low
<1>3. Lits \subseteq low .. NumVars  BY <1>1, <1>2
<1>4. IsFiniteSet(low .. NumVars)  BY <1>1, FS_Interval
<1>. QED  BY <1>3, <1>4, FS_Subset

\* Some literal has the smallest variable.
LEMMA FirstOfIsIn ==
  ASSUME NEW L \in SUBSET Lits, L # {}
  PROVE  FirstOf(L) \in L
<1>. DEFINE V == {VarOf(l) : l \in L}
<1>1. \A l \in L : VarOf(l) \in Nat
  <2>1. \A l \in L : VarOf(l) \in Vars  BY Literals
  <2>. QED  BY <2>1, NumVarsAssumption DEF Vars
<1>2. V \in SUBSET Nat /\ V # {}  BY <1>1
<1>3. PICK n \in V : \A m \in V : n <= m
  <2>. HIDE DEF V
  <2>. QED  BY <1>2, LeastElement
<1>4. \E l \in L : \A m \in L : VarOf(l) <= VarOf(m)  BY <1>3
<1>. QED  BY <1>4, Zenon DEF FirstOf

\* No literal beside its negation.
Straight(L) == \A l \in L : -l \notin L

LEMMA InVarOrderLists ==
  ASSUME NEW L \in SUBSET Lits, Straight(L)
  PROVE  InVarOrder(L) \in Seq(Lits) /\ NoTwice(InVarOrder(L)) /\ ToSet(InVarOrder(L)) = L
<1>. DEFINE R == {p \in L \X L : VarOf(p[1]) < VarOf(p[2])}
            N == Cardinality(L)
            q == InVarOrder(L)
<1>1. IsFiniteSet(L)  BY FiniteLits, FS_Subset
<1>2. \A l \in L : VarOf(l) \in Int
  <2>1. \A l \in L : VarOf(l) \in Vars  BY Literals
  <2>. QED  BY <2>1, NumVarsAssumption DEF Vars
<1>3. \A l, m \in L : l # m => VarOf(l) # VarOf(m)  BY SameVariable DEF Straight
<1>4. \A l, m \in L : <<l, m>> \in R <=> VarOf(l) < VarOf(m)  OBVIOUS
<1>. HIDE DEF R
<1>5. StrictOrder(R, L)
  <2>1. \A l \in L : ~ (VarOf(l) < VarOf(l))  BY <1>2
  <2>2. \A l, m \in L : l # m => VarOf(l) < VarOf(m) \/ VarOf(m) < VarOf(l)  BY <1>2, <1>3
  <2>3. \A l, m, n \in L : VarOf(l) < VarOf(m) /\ VarOf(m) < VarOf(n) => VarOf(l) < VarOf(n)
    BY <1>2
  <2>. QED  BY <1>4, <2>1, <2>2, <2>3 DEF StrictOrder
<1>6. N \in Nat  BY <1>1, FS_CardinalityType
<1>7. ASSUME NEW s \in [1 .. N -> L]
      PROVE  InOrder(s, N, R) <=> \A i, j \in DOMAIN s : i < j => VarOf(s[i]) < VarOf(s[j])
  <2>1. DOMAIN s = 1 .. N /\ \A i \in 1 .. N : s[i] \in L  OBVIOUS
  <2>. HIDE DEF N
  <2>. QED  BY <1>4, <2>1 DEF InOrder
<1>8. \E s \in [1 .. N -> L] : InOrder(s, N, R)  BY <1>1, <1>5, SortExists
<1>9. q \in [1 .. N -> L] /\ \A i, j \in DOMAIN q : i < j => VarOf(q[i]) < VarOf(q[j])
  <2>1. \E s \in [1 .. N -> L] : \A i, j \in DOMAIN s : i < j => VarOf(s[i]) < VarOf(s[j])
    BY <1>7, <1>8
  <2>. QED  BY <2>1, Zenon DEF InVarOrder
<1>. HIDE DEF q
<1>10. InOrder(q, N, R)  BY <1>7, <1>9
<1>11. q \in Seq(L) /\ Len(q) = N /\ Enumerates(q, L)
  BY <1>1, <1>5, <1>9, <1>10, InOrderLists
<1>12. ToSet(q) = {q[i] : i \in 1 .. Len(q)}  BY <1>11 DEF ToSet
<1>13. NoTwice(q) /\ ToSet(q) = L
  <2>. HIDE DEF N
  <2>1. NoTwice(q)  BY <1>11 DEF Enumerates, NoTwice
  <2>2. ToSet(q) = L  BY <1>11, <1>12 DEF Enumerates
  <2>. QED  BY <2>1, <2>2
<1>14. q \in Seq(Lits)
  <2>1. \A i \in 1 .. Len(q) : q[i] \in Lits  BY <1>11, ElementOfSeq
  <2>. QED  BY <1>11, <2>1
<1>. QED  BY <1>13, <1>14 DEF q

ClassTypes == [rep : Lits \cup {0}, left : Seq(Lits), at : Nat \ {0}, same : SUBSET Lits, asked : {0, 1}]

Proper(k) ==
  /\ k \in ClassTypes /\ NoTwice(k.left) /\ k.at - 1 <= Len(k.left)
  /\ k.rep \notin ToSet(k.left) \cup k.same /\ ToSet(k.left) \cap k.same = {}

After(k) == Dropped(k.left, k.at - 1)

LEMMA NoClassIsProper == Proper(NoClass)
<1>1. /\ NoClass.left = <<>> /\ NoClass.same = {} /\ NoClass.rep = 0 /\ NoClass.at = 1
      /\ Len(<<>>) = 0 /\ 1 - 1 <= 0
  BY DEF NoClass
<1>2. NoClass \in ClassTypes
  <2>1. <<>> \in Seq(Lits) /\ 1 \in Nat \ {0} /\ {} \in SUBSET Lits  OBVIOUS
  <2>. QED  BY <2>1 DEF NoClass, ClassTypes
<1>3. NoTwice(<<>>)  BY DEF NoTwice
<1>. QED  BY <1>1, <1>2, <1>3, NoClassHolds DEF Proper, NoClassFacts

\* What is to be asked next, and what was passed over.
LEMMA ClassCut ==
  ASSUME NEW k, Proper(k)
  PROVE  LET p == SubSeq(k.left, 1, k.at - 1)
         IN  Len(p) = k.at - 1 /\ Cut(k.left, p, After(k), Lits)
<1>1. k.left \in Seq(Lits) /\ k.at \in Nat \ {0} /\ k.at - 1 <= Len(k.left) /\ Len(k.left) \in Nat
  BY DEF Proper, ClassTypes
<1>2. k.at - 1 \in 0 .. Len(k.left)  BY <1>1
<1>. QED  BY <1>1, <1>2, CutAt DEF After

\* The class one candidate further on.
LEMMA OneFurther ==
  ASSUME NEW k, Proper(k), k.at <= Len(k.left)
  PROVE  LET x == k.left[k.at]
             b == Dropped(k.left, k.at)
             p == SubSeq(k.left, 1, k.at - 1)
         IN  /\ b \in Seq(Lits) /\ NoTwice(b) /\ x \in ToSet(After(k))
             /\ ToSet(b) \subseteq ToSet(After(k)) \ {x}
             /\ p \in Seq(Lits) /\ NoTwice(p) /\ x \notin ToSet(p) /\ ToSet(p) \cap ToSet(b) = {}
<1>. DEFINE q == k.left
            n == k.at
            x == q[n]
            b == Dropped(q, n)
            p == SubSeq(q, 1, n - 1)
            a == After(k)
<1>1. q \in Seq(Lits) /\ n \in Nat \ {0} /\ n <= Len(q) /\ Len(q) \in Nat /\ NoTwice(q)
  BY DEF Proper, ClassTypes
<1>2. Len(p) = n - 1 /\ Cut(q, p, a, Lits)  BY ClassCut
<1>3. Cut(q, SubSeq(q, 1, n), b, Lits) /\ Len(SubSeq(q, 1, n)) = n
  <2>1. n \in 0 .. Len(q)  BY <1>1
  <2>. QED  BY <1>1, <2>1, CutAt
<1>. HIDE DEF q, n, b, p, a
<1>4. a \in Seq(Lits) /\ Len(a) \in Nat /\ Len(a) = Len(q) - (n - 1)
      /\ b \in Seq(Lits) /\ Len(b) \in Nat /\ Len(b) = Len(q) - n
  <2>1. a \in Seq(Lits) /\ Len(p) + Len(a) = Len(q) /\ b \in Seq(Lits) /\ n + Len(b) = Len(q)
    BY <1>2, <1>3 DEF Cut
  <2>2. Len(a) \in Nat /\ Len(b) \in Nat  BY <2>1
  <2>. QED  BY <1>1, <1>2, <2>1, <2>2
<1>5. \A i \in 1 .. Len(a) : a[i] = q[(n - 1) + i]  BY <1>2 DEF Cut
<1>6. \A i \in 1 .. Len(b) : b[i] = q[n + i]  BY <1>3 DEF Cut
<1>7. x \in ToSet(a)
  <2>1. 1 \in 1 .. Len(a) /\ (n - 1) + 1 = n  BY <1>1, <1>4
  <2>2. a[1] = x  BY <1>5, <2>1
  <2>. QED  BY <1>4, <2>1, <2>2 DEF ToSet
<1>8. ASSUME NEW i \in 1 .. Len(b) PROVE b[i] \in ToSet(a) /\ b[i] # x
  <2>1. i + 1 \in 1 .. Len(a) /\ (n - 1) + (i + 1) = n + i /\ n + i \in 1 .. Len(q) /\ n \in 1 .. Len(q)
        /\ n + i # n
    BY <1>1, <1>4
  <2>2. a[i + 1] = b[i]  BY <1>5, <1>6, <2>1
  <2>3. q[n + i] # q[n]  BY <1>1, <2>1 DEF NoTwice
  <2>. QED  BY <1>4, <1>6, <2>1, <2>2, <2>3 DEF ToSet
<1>9. ToSet(b) \subseteq ToSet(a) \ {x}
  <2>1. ToSet(b) = {b[i] : i \in 1 .. Len(b)}  BY <1>4 DEF ToSet
  <2>. QED  BY <1>8, <2>1
<1>10. NoTwice(p) /\ NoTwice(b) /\ ToSet(p) \cap ToSet(a) = {} /\ p \in Seq(Lits)
  BY <1>1, <1>2, <1>3 DEF Cut
<1>. QED  BY <1>4, <1>7, <1>9, <1>10 DEF q, n, b, p, a

\* The literals of the members stand alone, so that a class can be ordered.
TakenClass(c) ==
  [rep |-> FirstOf(c), left |-> InVarOrder(c \ {FirstOf(c)}), at |-> 1, same |-> {}, asked |-> 0]

LEMMA Taken ==
  ASSUME NEW S, NEW B, Shape({}, S, NoClass, B), NEW c \in WorthKeeping(S),
         NEW S2, S2 = WorthKeeping(S) \ {c}
  PROVE  LET k == TakenClass(c)
         IN  /\ Proper(k) /\ k.rep \in Lits /\ k.at = 1 /\ Shape({}, S2, k, B)
             /\ \A E : Apart(E, {}, S, NoClass) => Apart(E, {}, S2, k)
<1>. DEFINE k == TakenClass(c)
            r == FirstOf(c)
            q == InVarOrder(c \ {r})
<1>1. c \in S /\ Cardinality(c) >= 2 /\ S2 \subseteq S \ {c}  BY DEF WorthKeeping
<1>2. Steady(UNION S, B) /\ Disjoint({}, S)
  <2>1. MemOf({}, S, NoClass) = UNION S  BY NoClassMembers
  <2>. QED  BY <2>1 DEF Shape
<1>3. c \in SUBSET Lits /\ c # {} /\ Straight(c)
  <2>1. c # {}  BY <1>1, FS_EmptySet
  <2>. QED  BY <1>1, <1>2, <2>1 DEF Steady, Straight
<1>4. r \in c /\ r \in Lits  BY <1>3, FirstOfIsIn
<1>5. q \in Seq(Lits) /\ NoTwice(q) /\ ToSet(q) = c \ {r}
  <2>1. c \ {r} \in SUBSET Lits /\ Straight(c \ {r})  BY <1>3 DEF Straight
  <2>. QED  BY <2>1, InVarOrderLists
<1>6. k.rep = r /\ k.left = q /\ k.at = 1 /\ k.same = {} /\ k.asked = 0  BY DEF TakenClass
<1>7. k \in ClassTypes
  <2>1. 1 \in Nat \ {0} /\ {} \in SUBSET Lits  OBVIOUS
  <2>. HIDE DEF q, r
  <2>2. k = [rep |-> r, left |-> q, at |-> 1, same |-> {}, asked |-> 0]  BY DEF TakenClass, q, r
  <2>. HIDE DEF k
  <2>. QED  BY <1>4, <1>5, <2>1, <2>2 DEF ClassTypes
<1>. HIDE DEF k, q, r
<1>8. Proper(k)
  <2>1. Len(q) \in Nat /\ 1 - 1 <= Len(q)  BY <1>5
  <2>. QED  BY <1>5, <1>6, <1>7, <2>1 DEF Proper
<1>9. MemOf({}, S2, k) \subseteq UNION S
  <2>1. UNION S2 \subseteq UNION S /\ c \subseteq UNION S  BY <1>1
  <2>2. MemOf({}, S2, k) \subseteq (UNION S2) \cup c  BY <1>4, <1>5, <1>6 DEF MemOf
  <2>. QED  BY <2>1, <2>2
<1>10. AliveOf({}, S2, k) \subseteq UNION S
  <2>1. ToSet(After(k)) \subseteq ToSet(k.left)  BY <1>8, ClassCut DEF Cut
  <2>2. AliveOf({}, S2, k) \subseteq MemOf({}, S2, k)  BY <2>1 DEF AliveOf, MemOf, After
  <2>. QED  BY <1>9, <2>2
<1>11. Disjoint({}, S2)  BY <1>1, <1>2 DEF Disjoint
<1>12. Outside(S2, k)
  <2>1. ASSUME NEW d \in S2 PROVE d \cap InClassOf(k) = {}
    <3>1. d \cap c = {}  BY <1>1, <1>2 DEF Disjoint
    <3>2. InClassOf(k) \subseteq c  BY <1>4, <1>5, <1>6 DEF InClassOf
    <3>. QED  BY <3>1, <3>2
  <2>. QED  BY <2>1 DEF Outside
<1>13. Shape({}, S2, k, B)  BY <1>2, <1>9, <1>11, <1>12, SteadyFewer DEF Shape
<1>14. ASSUME NEW E, Apart(E, {}, S, NoClass) PROVE Apart(E, {}, S2, k)
  <2>1. AliveOf({}, S, NoClass) = UNION S  BY NoClassMembers
  <2>2. S2 \in SUBSET S  BY <1>1
  <2>. QED  BY <1>10, <1>14, <2>1, <2>2, FewerApart
<1>. QED  BY <1>4, <1>6, <1>8, <1>13, <1>14 DEF k

\* A class in hand that changes no further than this is a class in hand.
LEMMA HandShape ==
  ASSUME NEW S, NEW B, NEW k, Shape({}, S, k, B), NEW S2 \in SUBSET S, NEW k2,
         ToSet(k2.left) \cup k2.same \subseteq ToSet(k.left) \cup k.same, k2.rep = k.rep
  PROVE  Shape({}, S2, k2, B)
<1>1. Steady(MemOf({}, S, k), B) /\ Disjoint({}, S) /\ Outside(S, k)  BY DEF Shape
<1>2. MemOf({}, S2, k2) \subseteq MemOf({}, S, k)
  <2>1. ASSUME NEW l \in MemOf({}, S2, k2) PROVE l \in MemOf({}, S, k)
    <3>1. CASE l \in UNION S2
      <4>1. l \in UNION S  BY <3>1
      <4>. QED  BY <4>1 DEF MemOf
    <3>2. CASE l \in ToSet(k2.left) \cup k2.same  BY <3>2 DEF MemOf
    <3>3. CASE l \in {k2.rep} \ {0}  BY <3>3 DEF MemOf
    <3>. QED  BY <2>1, <3>1, <3>2, <3>3 DEF MemOf
  <2>. QED  BY <2>1
<1>3. Disjoint({}, S2)  BY <1>1 DEF Disjoint
<1>4. Outside(S2, k2)
  <2>1. ASSUME NEW c \in S2 PROVE c \cap InClassOf(k2) = {}
    <3>1. c \cap InClassOf(k) = {}  BY <1>1 DEF Outside
    <3>2. InClassOf(k2) \subseteq InClassOf(k)  BY DEF InClassOf
    <3>. QED  BY <3>1, <3>2
  <2>. QED  BY <2>1 DEF Outside
<1>5. Steady(MemOf({}, S2, k2), B)  BY <1>1, <1>2, SteadyFewer
<1>. QED  BY <1>3, <1>4, <1>5 DEF Shape

\* What is left to probe when the candidate at hand has joined the representative.
JoinedRest(k) == [k EXCEPT !.same = @ \cup {k.left[k.at]}, !.left = RemoveAt(@, k.at)]

JoinedAs(S, B, k, k2) ==
  /\ Proper(k2) /\ k2.rep = k.rep /\ k2.at = k.at /\ Shape({}, S, k2, B)
  /\ \A E : Apart(E, {}, S, k) => Apart(E, {}, S, k2)

\* The pair is equal: the candidate joins the representative.
LEMMA PairJoins ==
  ASSUME NEW S, NEW B, NEW k, Proper(k), k.rep \in Lits, Shape({}, S, k, B), k.at <= Len(k.left)
  PROVE  JoinedAs(S, B, k, JoinedRest(k))
<1>. DEFINE k2 == JoinedRest(k)
            x == k.left[k.at]
            b == Dropped(k.left, k.at)
            p == SubSeq(k.left, 1, k.at - 1)
            q == p \o b
<1>1. /\ b \in Seq(Lits) /\ NoTwice(b) /\ x \in ToSet(After(k)) /\ ToSet(b) \subseteq ToSet(After(k)) \ {x}
      /\ p \in Seq(Lits) /\ NoTwice(p) /\ x \notin ToSet(p) /\ ToSet(p) \cap ToSet(b) = {}
  BY OneFurther
<1>2. Len(p) = k.at - 1 /\ ToSet(k.left) = ToSet(p) \cup ToSet(After(k)) /\ After(k) \in Seq(Lits)
  BY ClassCut DEF Cut
<1>3. RemoveAt(k.left, k.at) = q  BY DEF RemoveAt, Dropped
<1>4. k \in ClassTypes /\ k.at \in Nat \ {0}  BY DEF Proper, ClassTypes
<1>5. /\ k2.rep = k.rep /\ k2.at = k.at /\ k2.left = q /\ k2.same = k.same \cup {x} /\ k2.asked = k.asked
  BY <1>3, <1>4 DEF ClassTypes, JoinedRest
<1>6. /\ k.rep \notin ToSet(k.left) \cup k.same /\ ToSet(k.left) \cap k.same = {} /\ k.same \subseteq Lits
      /\ k.left \in Seq(Lits) /\ x \in Lits
  <2>1. k.left \in Seq(Lits) /\ Len(k.left) \in Nat  BY <1>4 DEF ClassTypes
  <2>2. k.at \in 1 .. Len(k.left)  BY <1>4, <2>1
  <2>3. x \in Lits  BY <2>1, <2>2, ElementOfSeq
  <2>. QED  BY <2>1, <2>3 DEF Proper, ClassTypes
<1>. HIDE DEF x, b, p
<1>7. /\ q \in Seq(Lits) /\ Len(q) = Len(p) + Len(b) /\ ToSet(q) = ToSet(p) \cup ToSet(b)
      /\ ToSet(Dropped(q, Len(p))) = ToSet(b) /\ NoTwice(q)
  BY <1>1, Rejoined
<1>8. k2 = [k EXCEPT !.same = @ \cup {x}, !.left = q]  BY <1>3 DEF x, JoinedRest
<1>. HIDE DEF q, k2
<1>9. k2 \in ClassTypes
  <2>1. k.same \cup {x} \in SUBSET Lits  BY <1>6
  <2>. QED  BY <1>4, <1>7, <1>8, <2>1 DEF ClassTypes
<1>10. ToSet(q) \subseteq ToSet(k.left) \ {x} /\ x \in ToSet(k.left)  BY <1>1, <1>2, <1>7
<1>11. k2.at - 1 <= Len(q)
  <2>1. Len(b) \in Nat /\ Len(p) \in Nat  BY <1>1, LenProperties
  <2>. QED  BY <1>2, <1>4, <1>5, <1>7, <2>1
<1>12. Proper(k2)  BY <1>5, <1>6, <1>7, <1>9, <1>10, <1>11 DEF Proper
<1>13. ToSet(k2.left) \cup k2.same \subseteq ToSet(k.left) \cup k.same  BY <1>5, <1>10
<1>14. Shape({}, S, k2, B)  BY <1>5, <1>13, HandShape
<1>15. AliveOf({}, S, k2) \subseteq AliveOf({}, S, k)
  <2>1. ToSet(Dropped(k2.left, k2.at - 1)) = ToSet(b)  BY <1>2, <1>5, <1>7
  <2>2. ToSet(b) \subseteq ToSet(After(k))  BY <1>1
  <2>. QED  BY <1>5, <2>1, <2>2 DEF AliveOf, After
<1>16. \A E : Apart(E, {}, S, k) => Apart(E, {}, S, k2)  BY <1>15, FewerApart
<1>17. JoinedAs(S, B, k, k2)  BY <1>5, <1>12, <1>14, <1>16 DEF JoinedAs
<1>. QED  BY <1>17 DEF k2

\* The pair is given up: the candidate is passed over.
LEMMA PairPassed ==
  ASSUME NEW S, NEW B, NEW k, Proper(k), Shape({}, S, k, B), k.at <= Len(k.left),
         NEW k2, k2 = [k EXCEPT !.at = @ + 1]
  PROVE  /\ Proper(k2) /\ k2.rep = k.rep /\ k2.at = k.at + 1 /\ Shape({}, S, k2, B)
         /\ \A E : Apart(E, {}, S, k) => Apart(E, {}, S, k2)
<1>1. k \in ClassTypes /\ k.at \in Nat \ {0} /\ Len(k.left) \in Nat  BY DEF Proper, ClassTypes
<1>2. /\ k2.rep = k.rep /\ k2.at = k.at + 1 /\ k2.left = k.left /\ k2.same = k.same /\ k2.asked = k.asked
  BY <1>1 DEF ClassTypes
<1>3. k2 \in ClassTypes
  <2>1. k.at + 1 \in Nat \ {0}  BY <1>1
  <2>. QED  BY <1>1, <2>1 DEF ClassTypes
<1>4. k2.at - 1 = k.at  BY <1>1, <1>2
<1>5. Proper(k2)  BY <1>2, <1>3, <1>4 DEF Proper
<1>6. Shape({}, S, k2, B)
  <2>1. S \in SUBSET S  OBVIOUS
  <2>. QED  BY <1>2, <2>1, HandShape
<1>7. AliveOf({}, S, k2) \subseteq AliveOf({}, S, k)
  <2>1. ToSet(Dropped(k.left, k.at)) \subseteq ToSet(After(k))  BY OneFurther
  <2>. QED  BY <1>2, <1>4, <2>1 DEF AliveOf, After
<1>. QED  BY <1>2, <1>5, <1>6, <1>7, FewerApart

ReturnedAs(S, B, k, S2) ==
  /\ Shape({}, S2, NoClass, B)
  /\ \A E : Apart(E, {}, S, k) /\ Len(k.left) <= 1 => Apart(E, {}, S2, NoClass)

\* The class is done: what is left of it is one again.
LEMMA ClassReturns ==
  ASSUME NEW S, NEW B, NEW k, Proper(k), Shape({}, S, k, B)
  PROVE  ReturnedAs(S, B, k, WorthKeeping(S \cup {ToSet(k.left)}))
<1>. DEFINE rest == ToSet(k.left)
            S2 == WorthKeeping(S \cup {rest})
<1>1. S2 \subseteq S \cup {rest}  BY DEF WorthKeeping
<1>. HIDE DEF S2
<1>2. Steady(MemOf({}, S, k), B) /\ Disjoint({}, S) /\ Outside(S, k)  BY DEF Shape
<1>3. UNION S2 \subseteq MemOf({}, S, k)
  <2>1. ASSUME NEW c \in S2, NEW l \in c PROVE l \in MemOf({}, S, k)
    <3>1. CASE c \in S
      <4>1. l \in UNION S  BY <2>1, <3>1
      <4>. QED  BY <4>1 DEF MemOf
    <3>2. CASE c = rest  BY <2>1, <3>2 DEF MemOf
    <3>. QED  BY <1>1, <3>1, <3>2
  <2>. QED  BY <2>1
<1>4. Steady(UNION S2, B)  BY <1>2, <1>3, SteadyFewer
<1>5. Disjoint({}, S2)
  <2>1. ASSUME NEW c \in S PROVE c \cap rest = {}
    <3>1. c \cap InClassOf(k) = {}  BY <1>2 DEF Outside
    <3>. QED  BY <3>1 DEF InClassOf
  <2>2. ASSUME NEW c \in S2, NEW d \in S2, c # d PROVE c \cap d = {}
    <3>1. CASE c \in S /\ d \in S  BY <1>2, <2>2, <3>1 DEF Disjoint
    <3>2. CASE c = rest /\ d \in S  BY <2>1, <3>2
    <3>3. CASE d = rest /\ c \in S  BY <2>1, <3>3
    <3>. QED  BY <1>1, <2>2, <3>1, <3>2, <3>3
  <2>. QED  BY <2>2 DEF Disjoint
<1>6. Outside(S2, NoClass)  BY <1>4, NoClassMembers DEF Steady
<1>7. Shape({}, S2, NoClass, B)
  <2>1. MemOf({}, S2, NoClass) = (UNION S2) \cup {}  BY NoClassMembers
  <2>2. (UNION S2) \cup {} = UNION S2  OBVIOUS
  <2>. QED  BY <1>4, <1>5, <1>6, <2>1, <2>2 DEF Shape
<1>8. ASSUME NEW E, Apart(E, {}, S, k), Len(k.left) <= 1 PROVE Apart(E, {}, S2, NoClass)
  <2>1. ~ (Cardinality(rest) >= 2)
    <3>1. k.left \in Seq(Lits) /\ Len(k.left) \in Nat /\ rest = {k.left[i] : i \in 1 .. Len(k.left)}
      BY DEF Proper, ClassTypes, ToSet
    <3>. HIDE DEF rest
    <3>2. CASE Len(k.left) = 0
      <4>1. rest = {}  BY <3>1, <3>2
      <4>2. Cardinality(rest) = 0  BY <4>1, FS_EmptySet
      <4>. QED  BY <4>2
    <3>3. CASE Len(k.left) = 1
      <4>1. rest = {k.left[1]}  BY <3>1, <3>3
      <4>2. Cardinality(rest) = 1  BY <4>1, FS_Singleton
      <4>. QED  BY <4>2
    <3>4. Len(k.left) = 0 \/ Len(k.left) = 1
      <4>. DEFINE n == Len(k.left)
      <4>1. n \in Nat /\ n <= 1  BY <1>8, <3>1
      <4>. HIDE DEF n
      <4>2. n = 0 \/ n = 1  BY <4>1
      <4>. QED  BY <4>2 DEF n
    <3>. QED  BY <3>2, <3>3, <3>4
  <2>2. S2 \in SUBSET S  BY <2>1 DEF WorthKeeping, S2
  <2>3. AliveOf({}, S2, NoClass) = (UNION S2) \cup {}  BY NoClassMembers
  <2>4. UNION S2 \subseteq UNION S  BY <2>2
  <2>5. UNION S \subseteq AliveOf({}, S, k)  BY DEF AliveOf
  <2>. QED  BY <1>8, <2>2, <2>3, <2>4, <2>5, FewerApart
<1>9. ReturnedAs(S, B, k, S2)  BY <1>7, <1>8 DEF ReturnedAs
<1>. QED  BY <1>9 DEF S2

-----------------------------------------------------------------------------
(***************************************************************************)
(* A counter-model: who disagrees with the representative leaves.          *)
(***************************************************************************)
Agree(k, M, b) == Agreeing(ToSet(After(k)), M, b)
Parting(k, M, b) == ToSet(After(k)) \ Agree(k, M, b)
SplitParts(S, k, M, b) == WorthKeeping(Refined(S, {}, M) \cup {Parting(k, M, b)})
SplitRest(k, M, b) ==
  [k EXCEPT !.left = SubSeq(@, 1, k.at - 1) \o Keeping(After(k), Agree(k, M, b)), !.asked = 1 - @]

\* What is left of the class: those passed over, then those that agree.
LEMMA SplitKeeps ==
  ASSUME NEW k, Proper(k), NEW M, NEW b, NEW k2, k2 = SplitRest(k, M, b)
  PROVE  /\ Proper(k2) /\ k2.rep = k.rep /\ k2.at = k.at /\ k2.same = k.same
         /\ ToSet(k2.left) = ToSet(k.left) \ Parting(k, M, b)
         /\ ToSet(After(k2)) = ToSet(After(k)) \ Parting(k, M, b)
         /\ ToSet(After(k)) \subseteq ToSet(k.left)
<1>. DEFINE p == SubSeq(k.left, 1, k.at - 1)
            a == After(k)
            s == Agree(k, M, b)
            kept == Keeping(a, s)
            q == p \o kept
<1>1. Len(p) = k.at - 1 /\ Cut(k.left, p, a, Lits)  BY ClassCut
<1>2. k \in ClassTypes /\ k.at \in Nat \ {0} /\ k.asked \in {0, 1} /\ NoTwice(k.left)
  BY DEF Proper, ClassTypes
<1>3. k2 = [k EXCEPT !.left = q, !.asked = 1 - @]  BY DEF SplitRest
<1>4. /\ k.rep \notin ToSet(k.left) \cup k.same /\ ToSet(k.left) \cap k.same = {}
  BY DEF Proper
<1>5. Parting(k, M, b) = ToSet(a) \ s  BY DEF Parting
<1>6. /\ a \in Seq(Lits) /\ NoTwice(a) /\ p \in Seq(Lits) /\ NoTwice(p)
      /\ ToSet(p) \cap ToSet(a) = {} /\ ToSet(k.left) = ToSet(p) \cup ToSet(a)
  BY <1>1, <1>2 DEF Cut
<1>. HIDE DEF p, a, s
<1>7. kept \in Seq(Lits) /\ NoTwice(kept) /\ ToSet(kept) = ToSet(a) \cap s
  BY <1>6, KeepingKeeps
<1>. HIDE DEF kept
<1>8. /\ q \in Seq(Lits) /\ Len(q) = Len(p) + Len(kept) /\ ToSet(q) = ToSet(p) \cup ToSet(kept)
      /\ ToSet(Dropped(q, Len(p))) = ToSet(kept) /\ NoTwice(q)
  <2>1. ToSet(p) \cap ToSet(kept) = {}  BY <1>6, <1>7
  <2>. QED  BY <1>6, <1>7, <2>1, Rejoined
<1>. HIDE DEF q
<1>9. k2 \in ClassTypes
  <2>1. 1 - k.asked \in {0, 1}  BY <1>2
  <2>. QED  BY <1>2, <1>3, <1>8, <2>1 DEF ClassTypes
<1>10. k2.rep = k.rep /\ k2.at = k.at /\ k2.same = k.same /\ k2.left = q
  BY <1>2, <1>3 DEF ClassTypes
<1>11. ToSet(q) = ToSet(k.left) \ (ToSet(a) \ s)  BY <1>6, <1>7, <1>8
<1>12. ToSet(After(k2)) = ToSet(a) \ (ToSet(a) \ s)
  <2>1. After(k2) = Dropped(q, Len(p))  BY <1>1, <1>10 DEF After
  <2>. QED  BY <1>7, <1>8, <2>1
<1>13. k2.at - 1 <= Len(q)
  <2>1. Len(kept) \in Nat /\ Len(p) \in Nat  BY <1>6, <1>7, LenProperties
  <2>. QED  BY <1>1, <1>2, <1>8, <1>10, <2>1
<1>14. Proper(k2)  BY <1>4, <1>8, <1>9, <1>10, <1>11, <1>13 DEF Proper
<1>. QED  BY <1>5, <1>6, <1>10, <1>11, <1>12, <1>14 DEF a

\* The parts of the classes, and those who leave the class in hand.
LEMMA SplitSorts ==
  ASSUME NEW S, NEW k, NEW M, NEW b, NEW h \in SplitParts(S, k, M, b)
  PROVE  (\E c \in S : Half(h, c, M)) \/ h = Parting(k, M, b)
<1>1. Cardinality(h) >= 2 /\ (h \in Refined(S, {}, M) \/ h = Parting(k, M, b))
  BY DEF SplitParts, WorthKeeping
<1>2. h \in Refined(S, {}, M) => (\E c \in S : Half(h, c, M)) \/ h = {} \ TrueIn({}, M)
  BY RefinedParts
<1>3. h # {}  BY <1>1, FS_EmptySet
<1>4. {} \ TrueIn({}, M) = {}  OBVIOUS
<1>. QED  BY <1>1, <1>2, <1>3, <1>4

LEMMA SplitShape ==
  ASSUME NEW S, NEW B, NEW k, Proper(k), Shape({}, S, k, B), NEW M, NEW b,
         NEW k2, k2 = SplitRest(k, M, b), NEW S2, S2 = SplitParts(S, k, M, b)
  PROVE  Shape({}, S2, k2, B)
<1>. DEFINE W == Parting(k, M, b)
<1>1. Steady(MemOf({}, S, k), B) /\ Disjoint({}, S) /\ Outside(S, k)  BY DEF Shape
<1>2. /\ k2.rep = k.rep /\ k2.same = k.same /\ ToSet(k2.left) = ToSet(k.left) \ W
      /\ W \subseteq ToSet(k.left) /\ W \cap ToSet(k2.left) = {}
  <2>1. W \subseteq ToSet(After(k))  BY DEF Parting
  <2>. HIDE DEF W
  <2>. QED  BY <2>1, SplitKeeps DEF W
<1>3. ASSUME NEW h \in S2 PROVE (\E c \in S : Half(h, c, M)) \/ h = W
  BY SplitSorts
<1>4. W \cap (k.same \cup {k.rep}) = {}  BY <1>2 DEF Proper
<1>. HIDE DEF W
<1>5. \A c \in S : c \cap ToSet(k.left) = {} /\ c \cap InClassOf(k) = {}
  BY <1>1 DEF Outside, InClassOf
<1>6. UNION S2 \subseteq (UNION S) \cup W
  <2>1. ASSUME NEW h \in S2, NEW l \in h PROVE l \in (UNION S) \cup W
    <3>1. CASE h = W  BY <2>1, <3>1
    <3>2. ASSUME NEW c \in S, Half(h, c, M) PROVE l \in (UNION S) \cup W  BY <2>1, <3>2 DEF Half
    <3>. QED  BY <1>3, <3>1, <3>2
  <2>. QED  BY <2>1
<1>7. MemOf({}, S2, k2) \subseteq MemOf({}, S, k)
  <2>1. UNION S2 \subseteq MemOf({}, S, k)  BY <1>2, <1>6 DEF MemOf
  <2>. QED  BY <1>2, <2>1 DEF MemOf
<1>8. Disjoint({}, S2)
  <2>1. ASSUME NEW h \in S2, NEW g \in S2, h # g PROVE h \cap g = {}
    <3>1. ASSUME NEW c \in S, NEW d \in S, Half(h, c, M), Half(g, d, M) PROVE h \cap g = {}
      <4>1. CASE c = d  BY <2>1, <3>1, <4>1, HalvesMeet
      <4>2. CASE c # d
        <5>1. c \cap d = {}  BY <1>1, <4>2 DEF Disjoint
        <5>. QED  BY <3>1, <5>1 DEF Half
      <4>. QED  BY <4>1, <4>2
    <3>2. ASSUME NEW c \in S, Half(h, c, M), g = W PROVE h \cap g = {}
      BY <1>2, <1>5, <3>2 DEF Half
    <3>3. ASSUME NEW c \in S, Half(g, c, M), h = W PROVE h \cap g = {}
      BY <1>2, <1>5, <3>3 DEF Half
    <3>. QED  BY <1>3, <2>1, <3>1, <3>2, <3>3
  <2>. QED  BY <2>1 DEF Disjoint
<1>9. Outside(S2, k2)
  <2>1. InClassOf(k2) \subseteq InClassOf(k) \ W
    <3>1. (k.same \cup {k.rep}) \cap W = {}  BY <1>4
    <3>. QED  BY <1>2, <3>1 DEF InClassOf
  <2>2. ASSUME NEW h \in S2 PROVE h \cap InClassOf(k2) = {}
    <3>1. CASE h = W  BY <2>1, <3>1
    <3>2. ASSUME NEW c \in S, Half(h, c, M) PROVE h \cap InClassOf(k2) = {}
      BY <1>5, <2>1, <3>2 DEF Half
    <3>. QED  BY <1>3, <3>1, <3>2
  <2>. QED  BY <2>2 DEF Outside
<1>10. Steady(MemOf({}, S2, k2), B)  BY <1>1, <1>7, SteadyFewer
<1>. QED  BY <1>8, <1>9, <1>10 DEF Shape

\* What T tells apart is apart, and the rest was.  The representative is not
\* read with the candidates: T itself, which refutes the pair, has its value.
LEMMA SplitApart ==
  ASSUME NEW E, NEW S, NEW B, NEW k, Proper(k), Shape({}, S, k, B), Apart(E, {}, S, k),
         NEW T \in E, NEW M, NEW b \in BOOLEAN,
         \A l \in (UNION S) \cup ToSet(After(k)) : Holds(l, M) <=> Holds(l, T),
         Holds(k.rep, T) <=> b,
         NEW k2, k2 = SplitRest(k, M, b), NEW S2, S2 = SplitParts(S, k, M, b)
  PROVE  Apart(E, {}, S2, k2)
<1>. DEFINE W == Parting(k, M, b)
            A == ToSet(After(k))
            alive == AliveOf({}, S, k)
<1>1. /\ k2.rep = k.rep /\ ToSet(After(k2)) = A \ W /\ A \subseteq ToSet(k.left)
  BY SplitKeeps
<1>2. ASSUME NEW h \in S2 PROVE (\E c \in S : Half(h, c, M)) \/ h = W
  BY SplitSorts
<1>3. W \subseteq A /\ \A l \in A : l \in W <=> ~(Holds(l, T) <=> b)
  <2>1. \A l \in A : l \in Agree(k, M, b) <=> (Holds(l, M) <=> b)
    BY DEF Agree, Agreeing, TrueIn
  <2>. QED  BY <2>1 DEF Parting
<1>4. alive = (UNION S) \cup A \cup ({k.rep} \ {0})  BY DEF AliveOf, After
<1>5. AliveOf({}, S2, k2) = (UNION S2) \cup (A \ W) \cup ({k.rep} \ {0})
  BY <1>1 DEF AliveOf, After
<1>6. \A c \in S : c \cap A = {}  BY <1>1 DEF Shape, Outside, InClassOf
<1>7. ASSUME NEW c \in S, NEW l \in c, NEW m \in alive \ c PROVE Parted(E, l, m)
  BY <1>7 DEF Apart
<1>. HIDE DEF W, A, alive
<1>8. UNION S2 \subseteq (UNION S) \cup W
  <2>1. ASSUME NEW h \in S2, NEW l \in h PROVE l \in (UNION S) \cup W
    <3>1. CASE h = W  BY <2>1, <3>1
    <3>2. ASSUME NEW c \in S, Half(h, c, M) PROVE l \in (UNION S) \cup W  BY <2>1, <3>2 DEF Half
    <3>. QED  BY <1>2, <3>1, <3>2
  <2>. QED  BY <2>1
<1>9. ASSUME NEW h \in S2, NEW l \in h, NEW m \in AliveOf({}, S2, k2) \ h PROVE Parted(E, l, m)
  <2>1. m \in alive  BY <1>3, <1>4, <1>5, <1>8, <1>9
  <2>2. ASSUME NEW c \in S, Half(h, c, M) PROVE Parted(E, l, m)
    <3>1. l \in c  BY <1>9, <2>2 DEF Half
    <3>2. CASE m \in c
      <4>1. ~ (Holds(l, M) <=> Holds(m, M))  BY <1>9, <2>2, <3>2 DEF Half
      <4>2. l \in UNION S /\ m \in UNION S  BY <3>1, <3>2
      <4>3. ~ (Holds(l, T) <=> Holds(m, T))  BY <4>1, <4>2
      <4>. QED  BY <4>3 DEF Parted
    <3>3. CASE m \notin c  BY <1>7, <2>1, <3>1, <3>3
    <3>. QED  BY <3>2, <3>3
  <2>3. CASE h = W
    <3>1. l \in A /\ ~ (Holds(l, T) <=> b)  BY <1>3, <1>9, <2>3
    <3>2. CASE m \in UNION S
      <4>1. PICK c \in S : m \in c  BY <3>2
      <4>2. l \in alive \ c  BY <1>4, <1>6, <3>1, <4>1
      <4>. QED  BY <1>7, <4>1, <4>2, PartedSwaps
    <3>3. CASE m \in A \ W
      <4>1. Holds(m, T) <=> b  BY <1>3, <3>3
      <4>. QED  BY <3>1, <4>1 DEF Parted
    <3>4. CASE m = k.rep  BY <3>1, <3>4 DEF Parted
    <3>5. m \notin W  BY <1>9, <2>3
    <3>. QED  BY <1>5, <1>8, <1>9, <3>2, <3>3, <3>4, <3>5
  <2>. QED  BY <1>2, <2>2, <2>3
<1>. QED  BY <1>9 DEF Apart

-----------------------------------------------------------------------------
(***************************************************************************)
(* The queue of the backbone: g says that a probe was given up for good.   *)
(***************************************************************************)
LoopTypes == [queue : Seq(Lits), chunk : Nat \ {0}, escalating : BOOLEAN, spent : SUBSET Lits,
              deferred : Seq(Lits)]

Lined(F, t, B, q, d, g) ==
  /\ NoTwice(q) /\ ToSet(q) \subseteq t /\ ToSet(q) \cap ToSet(d) = {}
  /\ \A l \in ToSet(d) : l \in t \cup B \/ \E T \in EngineOf(F) : ~Holds(l, T)
  /\ Backbone(F) \ B \subseteq t
  /\ g \/ Backbone(F) \ B \subseteq ToSet(q) \cup ToSet(d)

LEMMA QueueCut ==
  ASSUME NEW q \in Seq(Lits), NoTwice(q), NEW n \in 0 .. Len(q)
  PROVE  LET L == ToSet(SubSeq(q, 1, n))
             b == Dropped(q, n)
         IN  /\ b \in Seq(Lits) /\ NoTwice(b) /\ SubSeq(q, 1, n) \in Seq(Lits)
             /\ ToSet(q) = L \cup ToSet(b) /\ L \cap ToSet(b) = {}
BY CutAt DEF Cut

LEMMA LinedConfirmed ==
  ASSUME NEW F, NEW t, NEW B, NEW q \in Seq(Lits), NEW d, NEW g, Lined(F, t, B, q, d, g),
         NEW n \in 0 .. Len(q), NEW L, L = ToSet(SubSeq(q, 1, n))
  PROVE  Lined(F, t \ L, B \cup L, Dropped(q, n), d, g)
<1>. DEFINE b == Dropped(q, n)
<1>1. /\ NoTwice(q) /\ ToSet(q) \subseteq t /\ ToSet(q) \cap ToSet(d) = {}
      /\ \A l \in ToSet(d) : l \in t \cup B \/ \E T \in EngineOf(F) : ~Holds(l, T)
      /\ Backbone(F) \ B \subseteq t
      /\ g \/ Backbone(F) \ B \subseteq ToSet(q) \cup ToSet(d)
  BY DEF Lined
<1>2. NoTwice(b) /\ ToSet(q) = L \cup ToSet(b) /\ L \cap ToSet(b) = {}
  BY <1>1, QueueCut
<1>. HIDE DEF b
<1>3. \A l \in ToSet(d) : l \in (t \ L) \cup (B \cup L) \/ \E T \in EngineOf(F) : ~Holds(l, T)
  BY <1>1
<1>4. Lined(F, t \ L, B \cup L, b, d, g)  BY <1>1, <1>2, <1>3 DEF Lined
<1>. QED  BY <1>1, <1>2, <1>4 DEF b

LEMMA NoneKept == ASSUME NEW M PROVE Compacted(<<>>, M) = <<>>
<1>. DEFINE s == Compacted(<<>>, M)
<1>1. <<>> \in Seq(Lits) /\ NoTwice(<<>>) /\ ToSet(<<>>) = {}  BY DEF NoTwice, ToSet
<1>2. s \in Seq(Lits) /\ ToSet(s) = {}
  <2>. DEFINE none == <<>>
              P == TrueIn(ToSet(none), M)
  <2>1. none \in Seq(Lits) /\ NoTwice(none) /\ ToSet(none) = {} /\ s = Keeping(none, P)
    BY <1>1 DEF Compacted
  <2>. HIDE DEF none, P, s
  <2>2. Keeping(none, P) \in Seq(Lits) /\ ToSet(Keeping(none, P)) = ToSet(none) \cap P
    BY <2>1, KeepingKeeps
  <2>. QED  BY <2>1, <2>2
<1>. HIDE DEF s
<1>3. Len(s) \in Nat /\ \A i \in 1 .. Len(s) : s[i] \in ToSet(s)  BY <1>2 DEF ToSet
<1>4. Len(s) # 0 => 1 \in 1 .. Len(s)  BY <1>3
<1>5. s = <<>>  BY <1>2, <1>3, <1>4, EmptySeq
<1>. QED  BY <1>5 DEF s

\* A counter-model shortens the queue, and no backbone literal leaves it.
LEMMA LinedRefuted ==
  ASSUME NEW F \in SUBSET Clauses, NEW t, NEW B, NEW q \in Seq(Lits), NEW d, NEW g,
         Lined(F, t, B, q, d, g),
         NEW T \in EngineOf(F), NEW M, \A l \in t : Holds(l, M) <=> Holds(l, T)
  PROVE  Lined(F, TrueIn(t, M), B, Compacted(q, M), d, g) /\ Compacted(q, M) \in Seq(Lits)
<1>. DEFINE u == TrueIn(t, M)
            s == Compacted(q, M)
<1>1. /\ NoTwice(q) /\ ToSet(q) \subseteq t /\ ToSet(q) \cap ToSet(d) = {}
      /\ \A l \in ToSet(d) : l \in t \cup B \/ \E S \in EngineOf(F) : ~Holds(l, S)
      /\ Backbone(F) \ B \subseteq t
      /\ g \/ Backbone(F) \ B \subseteq ToSet(q) \cup ToSet(d)
  BY DEF Lined
<1>2. s \in Seq(Lits) /\ NoTwice(s) /\ ToSet(s) = ToSet(q) \cap TrueIn(ToSet(q), M)
  BY <1>1, KeepingKeeps DEF Compacted
<1>3. /\ \A l \in t : l \in u <=> Holds(l, T)
      /\ \A l \in ToSet(q) : l \in ToSet(s) <=> Holds(l, T)
      /\ u \subseteq t /\ ToSet(s) \subseteq ToSet(q)
  BY <1>1, <1>2 DEF TrueIn
<1>4. \A l \in Backbone(F) : Holds(l, T)  BY EngineModels
<1>. HIDE DEF u, s
<1>6. \A l \in ToSet(d) : l \in u \cup B \/ \E S \in EngineOf(F) : ~Holds(l, S)
  <2>1. ASSUME NEW l \in ToSet(d), l \in t, l \notin u PROVE \E S \in EngineOf(F) : ~Holds(l, S)
    BY <1>3, <2>1
  <2>. QED  BY <1>1, <2>1
<1>7. Backbone(F) \ B \subseteq u  BY <1>1, <1>3, <1>4
<1>8. g \/ Backbone(F) \ B \subseteq ToSet(s) \cup ToSet(d)  BY <1>1, <1>3, <1>4
<1>9. ToSet(s) \subseteq u /\ ToSet(s) \cap ToSet(d) = {}  BY <1>1, <1>3
<1>10. Lined(F, u, B, s, d, g)  BY <1>2, <1>6, <1>7, <1>8, <1>9 DEF Lined
<1>. QED  BY <1>2, <1>10 DEF u, s

\* A chunk too hard is set aside.
LEMMA LinedDeferred ==
  ASSUME NEW F, NEW t, NEW B, NEW q \in Seq(Lits), NEW d \in Seq(Lits), NEW g, Lined(F, t, B, q, d, g),
         NEW n \in 0 .. Len(q)
  PROVE  Lined(F, t, B, Dropped(q, n), d \o SubSeq(q, 1, n), g)
<1>. DEFINE b == Dropped(q, n)
            L == SubSeq(q, 1, n)
<1>1. /\ NoTwice(q) /\ ToSet(q) \subseteq t /\ ToSet(q) \cap ToSet(d) = {}
      /\ \A l \in ToSet(d) : l \in t \cup B \/ \E T \in EngineOf(F) : ~Holds(l, T)
      /\ Backbone(F) \ B \subseteq t
      /\ g \/ Backbone(F) \ B \subseteq ToSet(q) \cup ToSet(d)
  BY DEF Lined
<1>2. /\ NoTwice(b) /\ ToSet(q) = ToSet(L) \cup ToSet(b) /\ ToSet(L) \cap ToSet(b) = {} /\ L \in Seq(Lits)
  BY <1>1, QueueCut
<1>. HIDE DEF b, L
<1>3. ToSet(d \o L) = ToSet(d) \cup ToSet(L)  BY <1>2, Rejoined
<1>4. \A l \in ToSet(d \o L) : l \in t \cup B \/ \E T \in EngineOf(F) : ~Holds(l, T)
  BY <1>1, <1>2, <1>3
<1>5. g \/ Backbone(F) \ B \subseteq ToSet(b) \cup ToSet(d \o L)  BY <1>1, <1>2, <1>3
<1>6. ToSet(b) \subseteq t /\ ToSet(b) \cap ToSet(d \o L) = {}  BY <1>1, <1>2, <1>3
<1>7. Lined(F, t, B, b, d \o L, g)  BY <1>1, <1>2, <1>4, <1>5, <1>6 DEF Lined
<1>. QED  BY <1>7 DEF b, L

\* A literal set aside is taken up again: confirmed, refuted or given up.
LEMMA LinedTail ==
  ASSUME NEW F, NEW t, NEW B, NEW d \in Seq(Lits), d # <<>>, NEW g,
         Lined(F, t, B, <<>>, d, g)
  PROVE  /\ Tail(d) \in Seq(Lits) /\ Head(d) \in Lits
         /\ Head(d) \in t \cup B \/ \E T \in EngineOf(F) : ~Holds(Head(d), T)
         /\ Lined(F, t, B, <<>>, Tail(d), TRUE)
         /\ Head(d) \in B \/ Head(d) \notin Backbone(F) => Lined(F, t, B, <<>>, Tail(d), g)
<1>. DEFINE h == Head(d)
            r == Tail(d)
<1>1. r \in Seq(Lits) /\ h \in Lits /\ ToSet(d) = {h} \cup ToSet(r)
  <2>1. /\ r \in Seq(Lits) /\ h = d[1] /\ Len(d) \in Nat /\ Len(d) # 0 /\ Len(r) = Len(d) - 1
        /\ \A i \in 1 .. Len(r) : r[i] = d[i + 1]
    BY HeadTailProperties, EmptySeq
  <2>. HIDE DEF h, r
  <2>2. 1 \in 1 .. Len(d) /\ h \in Lits  BY <2>1, ElementOfSeq
  <2>3. ToSet(d) = {d[i] : i \in 1 .. Len(d)} /\ ToSet(r) = {r[i] : i \in 1 .. Len(r)}
    BY <2>1 DEF ToSet
  <2>4. \A i \in 1 .. Len(r) : i + 1 \in 1 .. Len(d)  BY <2>1
  <2>5. \A i \in 1 .. Len(d) : i = 1 \/ (i - 1 \in 1 .. Len(r) /\ (i - 1) + 1 = i)  BY <2>1
  <2>6. ASSUME NEW x \in ToSet(d) PROVE x = h \/ x \in ToSet(r)
    <3>1. PICK i \in 1 .. Len(d) : x = d[i]  BY <2>3
    <3>2. CASE i = 1  BY <2>1, <3>1, <3>2
    <3>3. CASE i # 1
      <4>1. i - 1 \in 1 .. Len(r) /\ r[i - 1] = d[i]  BY <2>1, <2>5, <3>3
      <4>. QED  BY <2>3, <3>1, <4>1
    <3>. QED  BY <3>2, <3>3
  <2>7. ToSet(r) \subseteq ToSet(d)  BY <2>1, <2>3, <2>4
  <2>8. h \in ToSet(d)  BY <2>1, <2>2, <2>3
  <2>. QED  BY <2>1, <2>2, <2>6, <2>7, <2>8
<1>2. ToSet(<<>>) = {} /\ NoTwice(<<>>)  BY DEF ToSet, NoTwice
<1>3. /\ \A l \in ToSet(d) : l \in t \cup B \/ \E T \in EngineOf(F) : ~Holds(l, T)
      /\ Backbone(F) \ B \subseteq t
      /\ g \/ Backbone(F) \ B \subseteq ToSet(d)
  BY <1>2 DEF Lined
<1>. HIDE DEF h, r
<1>4. Lined(F, t, B, <<>>, r, TRUE)  BY <1>1, <1>2, <1>3 DEF Lined
<1>5. ASSUME h \in B \/ h \notin Backbone(F) PROVE Lined(F, t, B, <<>>, r, g)
  <2>1. g \/ Backbone(F) \ B \subseteq ToSet(r)  BY <1>1, <1>3, <1>5
  <2>. QED  BY <1>1, <1>2, <1>3, <2>1 DEF Lined
<1>6. h \in t \cup B \/ \E T \in EngineOf(F) : ~Holds(h, T)  BY <1>1, <1>3
<1>. QED  BY <1>1, <1>4, <1>5, <1>6 DEF h, r

\* One that is confirmed is set aside no longer.
LEMMA LinedSettled ==
  ASSUME NEW F, NEW t, NEW B, NEW d \in Seq(Lits), d # <<>>, NEW g, Lined(F, t, B, <<>>, d, g),
         Head(d) \in t \cup B
  PROVE  Lined(F, t \ {Head(d)}, B \cup {Head(d)}, <<>>, Tail(d), g)
<1>. DEFINE h == Head(d)
            r == Tail(d)
            C == B \cup {h}
            u == t \ {h}
<1>1. Lined(F, t, B, <<>>, r, TRUE)  BY LinedTail
<1>2. ToSet(<<>>) = {} /\ NoTwice(<<>>)  BY DEF ToSet, NoTwice
<1>3. /\ \A l \in ToSet(r) : l \in t \cup B \/ \E T \in EngineOf(F) : ~Holds(l, T)
      /\ Backbone(F) \ B \subseteq t
  BY <1>1, <1>2 DEF Lined
<1>4. g \/ Backbone(F) \ C \subseteq ToSet(r)
  <2>1. g \/ Backbone(F) \ B \subseteq ToSet(d)  BY <1>2 DEF Lined
  <2>2. ToSet(d) \subseteq {h} \cup ToSet(r)
    <3>1. /\ r \in Seq(Lits) /\ h = d[1] /\ Len(d) \in Nat /\ Len(r) = Len(d) - 1
          /\ \A i \in 1 .. Len(r) : r[i] = d[i + 1]
      BY HeadTailProperties
    <3>. HIDE DEF h, r
    <3>2. \A i \in 1 .. Len(d) : i = 1 \/ (i - 1 \in 1 .. Len(r) /\ (i - 1) + 1 = i)  BY <3>1
    <3>3. ASSUME NEW i \in 1 .. Len(d) PROVE d[i] = h \/ d[i] \in {r[j] : j \in 1 .. Len(r)}
      <4>1. CASE i = 1  BY <3>1, <4>1
      <4>2. CASE i # 1
        <5>1. i - 1 \in 1 .. Len(r) /\ r[i - 1] = d[i]  BY <3>1, <3>2, <4>2
        <5>. QED  BY <5>1
      <4>. QED  BY <4>1, <4>2
    <3>4. ToSet(d) = {d[i] : i \in 1 .. Len(d)} /\ ToSet(r) = {r[j] : j \in 1 .. Len(r)}
      BY <3>1 DEF ToSet
    <3>. QED  BY <3>3, <3>4
  <2>. HIDE DEF h, r
  <2>. QED  BY <2>1, <2>2
<1>. HIDE DEF h, r
<1>5. \A l \in ToSet(r) : l \in u \cup C \/ \E T \in EngineOf(F) : ~Holds(l, T)  BY <1>3
<1>6. Backbone(F) \ C \subseteq u  BY <1>3
<1>7. Lined(F, u, C, <<>>, r, g)
  <2>. HIDE DEF u, C
  <2>. QED  BY <1>2, <1>4, <1>5, <1>6 DEF Lined
<1>. QED  BY <1>7 DEF h, r

-----------------------------------------------------------------------------
(***************************************************************************)
(* The first model, and the queue made of it.                              *)
(***************************************************************************)
LEMMA FrequencyLists ==
  ASSUME NEW L \in SUBSET Lits, NEW q \in ByFrequency(L)
  PROVE  q \in Seq(Lits) /\ NoTwice(q) /\ ToSet(q) = L
<1>. DEFINE N == Cardinality(L)
            R == {q[i] : i \in 1 .. N}
<1>1. IsFiniteSet(L)  BY FiniteLits, FS_Subset
<1>2. N \in Nat  BY <1>1, FS_CardinalityType
<1>3. q \in [1 .. N -> L] /\ Cardinality(R) = N
  <2>1. q \in [1 .. N -> L] /\ Cardinality(Range(q)) = N  BY DEF ByFrequency
  <2>2. Range(q) = R  BY <2>1 DEF Range
  <2>. QED  BY <2>1, <2>2
<1>. HIDE DEF N
<1>4. q \in Seq(L) /\ Len(q) = N /\ ToSet(q) = R /\ DOMAIN q = 1 .. N
  <2>1. DOMAIN q = 1 .. N /\ \A i \in 1 .. N : q[i] \in L  BY <1>3
  <2>2. q \in Seq(L) /\ Len(q) = N  BY <1>2, <1>3
  <2>. QED  BY <2>1, <2>2 DEF ToSet
<1>5. R = L
  <2>1. R \in SUBSET L  BY <1>3
  <2>2. Cardinality(L) = Cardinality(R)  BY <1>3 DEF N
  <2>. HIDE DEF R
  <2>. QED  BY <1>1, <2>1, <2>2, FS_Subset
<1>6. NoTwice(q)
  <2>. DEFINE D == 1 .. N
  <2>1. IsFiniteSet(D) /\ Cardinality(D) = N  BY <1>2, FS_Interval
  <2>2. q \in Surjection(D, L)
    <3>1. \A x \in L : \E i \in D : q[i] = x  BY <1>5
    <3>. QED  BY <1>3, <3>1 DEF Surjection
  <2>3. Cardinality(D) = Cardinality(L)  BY <2>1 DEF N
  <2>4. q \in Injection(D, L)
    <3>. HIDE DEF D
    <3>. QED  BY <2>1, <2>2, <2>3, FS_SurjSameCardinalityImpliesInj
  <2>5. \A i, j \in D : q[i] = q[j] => i = j  BY <2>4 DEF Injection, IsInjective
  <2>. QED  BY <1>4, <2>5 DEF NoTwice
<1>7. \A i \in 1 .. Len(q) : q[i] \in Lits  BY <1>4, ElementOfSeq
<1>8. q \in Seq(Lits)  BY <1>4, <1>7
<1>. QED  BY <1>4, <1>5, <1>6, <1>8

TrueLiterals(F, T) == {l \in Lits : VarOf(l) \in Appearing(F) /\ Holds(l, T)}

Seeded(F, T, known, rest) ==
  /\ T \subseteq Vars /\ rest \subseteq Lits /\ Backbone(F) \ known \subseteq rest
  /\ Shape(rest, {}, NoClass, known)
  /\ Apart(EngineOf(F), rest, {}, NoClass)

\* What can be flipped is not backbone, and what is true in a model stands alone.
LEMMA FirstModel ==
  ASSUME NEW F \in SUBSET Clauses, F = job.formula, NEW T \in EngineOf(F),
         NEW known \in SUBSET Backbone(F), NEW flips \in SUBSET Flippable(T),
         NEW rest, rest = TrueLiterals(F, T) \ (known \cup flips)
  PROVE  Seeded(F, T, known, rest)
<1>. DEFINE all == TrueLiterals(F, T)
<1>1. /\ T \subseteq Vars /\ \A l \in Backbone(F) : Holds(l, T)
      /\ \A l \in Backbone(F) : \A S \in EngineOf(F) : Holds(l, S)
  BY EngineModels
<1>2. Backbone(F) \subseteq all  BY <1>1 DEF Backbone, TrueLiterals
<1>3. flips \cap Backbone(F) = {}
  <2>1. ASSUME NEW l \in flips, l \in Backbone(F) PROVE FALSE
    <3>1. /\ l \in Lits
          /\ (IF l > 0 THEN T \ {l} ELSE T \cup {-l}) \in EngineOf(F)
      BY <2>1 DEF Flippable, Engine, EngineOf
    <3>2. CASE l > 0
      <4>1. T \ {l} \in EngineOf(F) /\ ~Holds(l, T \ {l})  BY <3>1, <3>2 DEF Holds
      <4>. QED  BY <1>1, <2>1, <4>1
    <3>3. CASE ~ (l > 0)
      <4>1. T \cup {-l} \in EngineOf(F) /\ ~Holds(l, T \cup {-l})  BY <3>1, <3>3 DEF Holds
      <4>. QED  BY <1>1, <2>1, <4>1
    <3>. QED  BY <3>2, <3>3
  <2>. QED  BY <2>1
<1>4. Steady(rest, known)
  <2>1. known \subseteq Lits /\ rest \subseteq Lits \ known  BY DEF Backbone, TrueLiterals
  <2>2. ASSUME NEW l \in rest PROVE -l \notin rest /\ -l \notin known
    <3>1. l \in Lits /\ Holds(l, T)  BY DEF TrueLiterals
    <3>2. ~Holds(-l, T)  BY <3>1, Literals
    <3>3. \A m \in rest \cup known : Holds(m, T)  BY <1>1 DEF TrueLiterals
    <3>. QED  BY <3>2, <3>3
  <2>. QED  BY <2>1, <2>2 DEF Steady
<1>5. (UNION {}) \cup rest = rest  OBVIOUS
<1>6. MemOf(rest, {}, NoClass) = rest /\ AliveOf(rest, {}, NoClass) = rest
  BY <1>5, NoClassMembers
<1>7. Shape(rest, {}, NoClass, known)
  <2>1. Disjoint(rest, {}) /\ Outside({}, NoClass)  BY DEF Disjoint, Outside
  <2>. QED  BY <1>4, <1>6, <2>1 DEF Shape
<1>8. Apart(EngineOf(F), rest, {}, NoClass)
  <2>1. \A c \in {} \cup {rest} : rest \ c = {}  OBVIOUS
  <2>. QED  BY <1>6, <2>1 DEF Apart
<1>9. Backbone(F) \ known \subseteq rest  BY <1>2, <1>3
<1>. QED  BY <1>1, <1>4, <1>7, <1>8, <1>9 DEF Steady, Seeded

\* Every variable has a representative.
LEMMA MapTypes ==
  ASSUME NEW C
  PROVE  Identity \in [Vars -> Lits] /\ ExtractedMap(C) \in [Vars -> Lits]
<1>1. Vars \subseteq Lits  BY DEF Lits
<1>2. Identity \in [Vars -> Lits]  BY <1>1 DEF Identity
<1>3. ASSUME NEW v \in Vars PROVE RepOf(SameLiterals(C), v) \in Lits
  <2>. DEFINE same == SameLiterals(C)
              L == {l \in Lits : <<v, l>> \in same}
              V == {VarOf(l) : l \in L}
  <2>1. v \in L  BY <1>1 DEF SameLiterals
  <2>2. \A l \in L : VarOf(l) \in Nat
    <3>1. \A l \in L : VarOf(l) \in Vars  BY Literals
    <3>. QED  BY <3>1, NumVarsAssumption DEF Vars
  <2>3. V \in SUBSET Nat /\ V # {}
    <3>. HIDE DEF L
    <3>. QED  BY <2>1, <2>2
  <2>4. PICK n \in V : \A m \in V : n <= m
    <3>. HIDE DEF V
    <3>. QED  BY <2>3, LeastElement
  <2>5. \E l \in Lits : <<v, l>> \in same /\ \A m \in Lits : <<v, m>> \in same => VarOf(l) <= VarOf(m)
    <3>1. PICK l \in L : n = VarOf(l)  BY <2>4
    <3>2. \A m \in L : VarOf(m) \in V  OBVIOUS
    <3>. QED  BY <2>4, <3>1, <3>2
  <2>. HIDE DEF same
  <2>6. RepOf(same, v) \in Lits  BY <2>5, Zenon DEF RepOf
  <2>. QED  BY <2>6 DEF same
<1>4. VarToRep(C) \in [Vars -> Lits]  BY <1>3 DEF VarToRep
<1>. QED  BY <1>2, <1>4 DEF ExtractedMap

-----------------------------------------------------------------------------
(***************************************************************************)
(* The invariant.                                                          *)
(***************************************************************************)
Types ==
  /\ job \in Jobs /\ mapping \in [Vars -> Lits] /\ seeded \in BOOLEAN /\ cut \in BOOLEAN
  /\ model \subseteq Vars /\ equivs \subseteq Lits \X Lits /\ unknowns \in 0 .. UnknownPairs
  /\ loop \in LoopTypes

\* What each point of the stage finds: the class in hand only while it is
\* probed, top only until its literals are one class among the others.
Phases ==
  /\ Proper(class) /\ (pc # "pair" => class = NoClass)
  /\ pc = "pair" => class.rep \in Lits /\ class.at - 1 <= unknowns
  /\ pc \in {"class", "pair", "emit"} => top = {}
  /\ pc = "seed" => classes = {} /\ forced = {} /\ ~seeded
  /\ pc = "recover" => loop.queue = <<>>

Partition == Shape(top, classes, class, forced)

Queue ==
  pc \in {"probe", "recover"} => Lined(job.formula, top, forced, loop.queue, loop.deferred, cut)

Comparable ==
  seeded /\ MayGoOn /\ pc \notin {"emit", "done"} => Apart(EngineOf(job.formula), top, classes, class)

IInv == Types /\ Phases /\ Partition /\ Queue /\ Comparable

LEMMA JobFormula ==
  ASSUME Types
  PROVE  job.formula \in SUBSET Clauses /\ Engine = EngineOf(job.formula)
BY ProbeAssumption DEF Types, Engine, EngineOf

LEMMA InitInv ==
  ASSUME Init
  PROVE  IInv
<1>1. Types
  <2>1. NoLoop \in LoopTypes
    <3>1. <<>> \in Seq(Lits) /\ 1 \in Nat \ {0} /\ {} \in SUBSET Lits /\ FALSE \in BOOLEAN  OBVIOUS
    <3>. QED  BY <3>1 DEF NoLoop, LoopTypes
  <2>2. mapping \in [Vars -> Lits]  BY MapTypes DEF Init
  <2>3. unknowns \in 0 .. UnknownPairs  BY ProbeAssumption DEF Init
  <2>. QED  BY <2>1, <2>2, <2>3 DEF Init, Types
<1>2. Phases  BY NoClassIsProper DEF Init, Phases
<1>3. Partition
  <2>1. MemOf({}, {}, NoClass) = {}
    <3>1. (UNION {}) \cup {} = {}  OBVIOUS
    <3>. QED  BY <3>1, NoClassMembers
  <2>2. Shape({}, {}, NoClass, {})  BY <2>1 DEF Shape, Steady, Disjoint, Outside
  <2>. QED  BY <2>2 DEF Init, Partition
<1>4. Queue /\ Comparable  BY DEF Init, Queue, Comparable
<1>. QED  BY <1>1, <1>2, <1>3, <1>4 DEF IInv

\* Only f changes, or the point the stage is at, to one that asks no more.
LEMMA MovesKeep ==
  ASSUME IInv, UNCHANGED <<job, seeded, model, top, classes, loop, forced, equivs, class, unknowns>>,
         mapping' = mapping, cut' = cut \/ cut' = TRUE,
         \/ pc = "seed" /\ pc' \in {"done", "tarjan"}
         \/ pc \in {"probe", "recover"} /\ pc' = "inject"
         \/ pc = "probe" /\ pc' = "recover" /\ loop.queue = <<>> /\ cut' = cut
         \/ pc = "inject" /\ pc' \in {"tarjan", "done"}
         \/ pc = "class" /\ pc' = "emit"
         \/ pc = "emit" /\ pc' = "done"
  PROVE  IInv'
<1>1. Types /\ Phases /\ Partition /\ Queue /\ Comparable  BY DEF IInv
<1>2. Types'  BY <1>1 DEF Types
<1>3. Phases'  BY <1>1 DEF Phases
<1>4. Partition'  BY <1>1 DEF Partition
<1>5. Queue'  BY <1>1 DEF Queue
<1>6. Comparable'  BY <1>1 DEF Comparable, MayGoOn
<1>. QED  BY <1>2, <1>3, <1>4, <1>5, <1>6 DEF IInv

SeedsWith(T, known, rest) ==
  /\ model' = T /\ top' = rest /\ forced' = known
  /\ \E q \in ByFrequency(rest) : loop' = [NoLoop EXCEPT !.queue = q]

LEMMA SeedSatKeeps ==
  ASSUME IInv, SeedSat
  PROVE  IInv'
<1>. DEFINE F == job.formula
<1>1. Types /\ Phases /\ Partition /\ Queue /\ Comparable  BY DEF IInv
<1>2. F \in SUBSET Clauses /\ Engine = EngineOf(F)  BY <1>1, JobFormula
<1>3. /\ pc = "seed" /\ seeded' = TRUE /\ pc' = "probe"
      /\ UNCHANGED <<job, f, mapping, classes, equivs, class, unknowns, cut>>
  BY DEF SeedSat
<1>4. PICK T \in Engine : \E known \in SUBSET Backbone(F), flips \in SUBSET Flippable(T) :
        SeedsWith(T, known, TrueLiterals(F, T) \ (known \cup flips))
  BY DEF SeedSat, SeedsWith, TrueLiterals
<1>5. PICK known \in SUBSET Backbone(F), flips \in SUBSET Flippable(T) :
        SeedsWith(T, known, TrueLiterals(F, T) \ (known \cup flips))
  BY <1>4
<1>. DEFINE rest == TrueLiterals(F, T) \ (known \cup flips)
<1>6. /\ model' = T /\ top' = rest /\ forced' = known
      /\ \E q \in ByFrequency(rest) : loop' = [NoLoop EXCEPT !.queue = q]
  BY <1>5 DEF SeedsWith
<1>7. /\ T \subseteq Vars /\ rest \subseteq Lits
      /\ Shape(rest, {}, NoClass, known)
      /\ Apart(EngineOf(F), rest, {}, NoClass)
      /\ Backbone(F) \ known \subseteq rest
  <2>1. T \in EngineOf(F)  BY <1>2, <1>4
  <2>2. rest = TrueLiterals(F, T) \ (known \cup flips) /\ F = job.formula  OBVIOUS
  <2>. HIDE DEF rest, F
  <2>3. Seeded(F, T, known, rest)  BY <1>2, <2>1, <2>2, FirstModel
  <2>. QED  BY <2>3 DEF Seeded
<1>. HIDE DEF rest
<1>17. PICK q \in ByFrequency(rest) : loop' = [NoLoop EXCEPT !.queue = q]  BY <1>6
<1>8. q \in Seq(Lits) /\ NoTwice(q) /\ ToSet(q) = rest  BY <1>7, FrequencyLists
<1>9. loop' = [queue |-> q, chunk |-> 1, escalating |-> FALSE, spent |-> {}, deferred |-> <<>>]
  BY <1>17 DEF NoLoop
<1>10. loop' \in LoopTypes /\ loop'.queue = q /\ loop'.deferred = <<>>
  <2>1. <<>> \in Seq(Lits) /\ 1 \in Nat \ {0} /\ {} \in SUBSET Lits /\ FALSE \in BOOLEAN  OBVIOUS
  <2>. QED  BY <1>8, <1>9, <2>1 DEF LoopTypes
<1>11. classes = {} /\ class = NoClass  BY <1>1, <1>3 DEF Phases
<1>12. Types'  BY <1>1, <1>3, <1>6, <1>7, <1>10 DEF Types
<1>13. Phases'  BY <1>1, <1>3, <1>11 DEF Phases
<1>14. Partition'  BY <1>3, <1>6, <1>7, <1>11 DEF Partition
<1>15. Queue'
  <2>1. ToSet(<<>>) = {}  BY DEF ToSet
  <2>2. Lined(F, rest, known, q, <<>>, cut)  BY <1>7, <1>8, <2>1 DEF Lined
  <2>. QED  BY <1>3, <1>6, <1>10, <2>2 DEF Queue
<1>16. Comparable'  BY <1>3, <1>6, <1>7, <1>11 DEF Comparable
<1>. QED  BY <1>12, <1>13, <1>14, <1>15, <1>16 DEF IInv

-----------------------------------------------------------------------------
(***************************************************************************)
(* The steps of the backbone phase.                                        *)
(***************************************************************************)

ObservedAs(T, M) ==
  /\ model' \subseteq Vars /\ top' = TrueIn(top, M)
  /\ \A l \in (UNION classes) \cup top : Holds(l, M) <=> Holds(l, T)
  /\ Shape(top', classes', NoClass, forced)
  /\ Apart(EngineOf(job.formula), top, classes, NoClass) =>
       Apart(EngineOf(job.formula), top', classes', NoClass)

\* A counter-model read while no class is in hand.
LEMMA Observed ==
  ASSUME IInv, class = NoClass, NEW T \in Engine, Observe(T, {})
  PROVE  ObservedAs(T, Reread(T, Held(classes, top, {})))
<1>. DEFINE held == Held(classes, top, {})
            M == Reread(T, held)
            E == EngineOf(job.formula)
<1>1. Types /\ Partition  BY DEF IInv
<1>2. Shape(top, classes, NoClass, forced)  BY <1>1 DEF Partition
<1>3. T \in E /\ T \subseteq Vars /\ model \subseteq Vars
  BY <1>1, JobFormula, EngineModels DEF Types
<1>4. (UNION classes) \cup top \subseteq Lits  BY <1>2, NoClassMembers DEF Shape, Steady
<1>5. ASSUME NEW l \in (UNION classes) \cup top PROVE Holds(l, M) <=> Holds(l, T)
  <2>1. VarOf(l) \in held  BY DEF Held
  <2>2. l \in Lits  BY <1>4
  <2>. HIDE DEF held
  <2>. QED  BY <2>1, <2>2, RereadAgrees
<1>6. model' = M /\ classes' = Refined(classes, top, M) /\ top' = TrueIn(top, M)
  BY DEF Observe, TopHalf
<1>7. M \subseteq Vars  BY <1>3 DEF Reread
<1>. HIDE DEF M, held
<1>8. Shape(top', classes', NoClass, forced)  BY <1>2, <1>6, ObservedShape
<1>9. Apart(E, top, classes, NoClass) => Apart(E, top', classes', NoClass)
  <2>. HIDE DEF E
  <2>. QED  BY <1>3, <1>5, <1>6, ObservedApart
<1>10. ObservedAs(T, M)  BY <1>5, <1>6, <1>7, <1>8, <1>9 DEF ObservedAs
<1>. QED  BY <1>10 DEF M, held

\* Backbone literals are confirmed while no class is in hand.
LEMMA ConfirmedParts ==
  ASSUME IInv, class = NoClass, NEW L \in SUBSET (top \cup forced), Confirm(L)
  PROVE  /\ top' = top \ L /\ forced' = forced \cup L /\ classes' = classes /\ model' = model
         /\ Shape(top', classes', NoClass, forced')
         /\ Apart(EngineOf(job.formula), top, classes, NoClass) =>
              Apart(EngineOf(job.formula), top', classes', NoClass)
<1>1. Shape(top, classes, NoClass, forced)  BY DEF IInv, Partition
<1>2. top' = top \ L /\ forced' = forced \cup L /\ classes' = classes /\ model' = model
  BY DEF Confirm
<1>3. Shape(top \ L, classes, NoClass, forced \cup L)  BY <1>1, ConfirmedShape
<1>4. Disjoint(top, classes)  BY <1>1 DEF Shape
<1>5. \A E : Apart(E, top, classes, NoClass) => Apart(E, top \ L, classes, NoClass)
  BY <1>4, ConfirmedApart
<1>. QED  BY <1>2, <1>3, <1>5

LEMMA ChunkFacts ==
  ASSUME Types
  PROVE  /\ loop.queue \in Seq(Lits) /\ loop.deferred \in Seq(Lits)
         /\ ChunkSize \in 0 .. Len(loop.queue) /\ loop.chunk \in Nat \ {0}
         /\ Chunk = SubSeq(loop.queue, 1, ChunkSize)
         /\ Dropped(loop.queue, ChunkSize) \in Seq(Lits) /\ Chunk \in Seq(Lits)
<1>1. loop.queue \in Seq(Lits) /\ loop.deferred \in Seq(Lits) /\ loop.chunk \in Nat \ {0}
  BY DEF Types, LoopTypes
<1>2. ChunkSize \in 0 .. Len(loop.queue)
  <2>1. Len(loop.queue) \in Nat  BY <1>1
  <2>. QED  BY <1>1, <2>1 DEF ChunkSize
<1>3. Chunk = SubSeq(loop.queue, 1, ChunkSize)  BY DEF Chunk
<1>4. Dropped(loop.queue, ChunkSize) \in Seq(Lits) /\ SubSeq(loop.queue, 1, ChunkSize) \in Seq(Lits)
  <2>. DEFINE n == ChunkSize
  <2>1. n \in 0 .. Len(loop.queue)  BY <1>2
  <2>. HIDE DEF n
  <2>2. Dropped(loop.queue, n) \in Seq(Lits) /\ SubSeq(loop.queue, 1, n) \in Seq(Lits)
    BY <1>1, <2>1, CutAt DEF Cut
  <2>. QED  BY <2>2 DEF n
<1>. QED  BY <1>1, <1>2, <1>3, <1>4

LEMMA ChunkConfirmedKeeps ==
  ASSUME IInv, ChunkConfirmed
  PROVE  IInv'
<1>. DEFINE n == ChunkSize
            L == ToSet(Chunk)
            q == loop.queue
<1>1. Types /\ Phases /\ Partition /\ Queue /\ Comparable  BY DEF IInv
<1>2. /\ pc = "probe" /\ Confirm(L) /\ pc' = "probe"
      /\ loop' = [loop EXCEPT !.queue = Dropped(@, n), !.chunk = @ * ChunkGrowth, !.escalating = FALSE]
      /\ UNCHANGED <<job, f, mapping, seeded, equivs, class, unknowns, cut>>
  BY DEF ChunkConfirmed, Probing, InBackbone
<1>3. /\ q \in Seq(Lits) /\ n \in 0 .. Len(q) /\ L = ToSet(SubSeq(q, 1, n)) /\ loop.chunk \in Nat \ {0}
      /\ Dropped(q, n) \in Seq(Lits)
  BY <1>1, ChunkFacts
<1>4. class = NoClass  BY <1>1, <1>2 DEF Phases
<1>. HIDE DEF L, n, q
<1>5. /\ Lined(job.formula, top \ L, forced \cup L, Dropped(q, n), loop.deferred, cut)
      /\ L \subseteq top
  <2>. DEFINE F == job.formula
              d == loop.deferred
  <2>1. Lined(F, top, forced, q, d, cut)  BY <1>1, <1>2 DEF Queue, q
  <2>. HIDE DEF F, d
  <2>2. Lined(F, top \ L, forced \cup L, Dropped(q, n), d, cut)
    BY <1>3, <2>1, LinedConfirmed
  <2>3. ToSet(q) \subseteq top  BY <2>1 DEF Lined
  <2>4. L \subseteq ToSet(q)  BY <1>3, CutAt DEF Cut
  <2>. QED  BY <2>2, <2>3, <2>4 DEF F, d
<1>6. /\ top' = top \ L /\ forced' = forced \cup L /\ classes' = classes /\ model' = model
      /\ Shape(top', classes', NoClass, forced')
      /\ Apart(EngineOf(job.formula), top, classes, NoClass) =>
           Apart(EngineOf(job.formula), top', classes', NoClass)
  <2>1. L \in SUBSET (top \cup forced)  BY <1>5
  <2>. QED  BY <1>2, <1>4, <2>1, ConfirmedParts
<1>7. loop' \in LoopTypes /\ loop'.queue = Dropped(q, n) /\ loop'.deferred = loop.deferred
  <2>1. loop \in LoopTypes  BY <1>1 DEF Types
  <2>2. loop.chunk * ChunkGrowth \in Nat \ {0}  BY <1>3, ProbeAssumption
  <2>. QED  BY <1>2, <1>3, <2>1, <2>2 DEF LoopTypes, q
<1>8. Types'  BY <1>1, <1>2, <1>6, <1>7 DEF Types
<1>9. Phases'  BY <1>1, <1>2, <1>4 DEF Phases
<1>10. Partition'  BY <1>2, <1>4, <1>6 DEF Partition
<1>11. Queue'  BY <1>2, <1>5, <1>6, <1>7 DEF Queue
<1>12. Comparable'  BY <1>1, <1>2, <1>4, <1>6 DEF Comparable, MayGoOn
<1>. QED  BY <1>8, <1>9, <1>10, <1>11, <1>12 DEF IInv

LEMMA ChunkRefutedKeeps ==
  ASSUME IInv, ChunkRefuted
  PROVE  IInv'
<1>. DEFINE q == loop.queue
            d == loop.deferred
            held == Held(classes, top, {})
            F == job.formula
<1>1. Types /\ Phases /\ Partition /\ Queue /\ Comparable  BY DEF IInv
<1>2. /\ pc = "probe" /\ pc' = "probe" /\ forced' = forced
      /\ UNCHANGED <<job, f, mapping, seeded, equivs, class, unknowns, cut>>
  BY DEF ChunkRefuted, Probing, InBackbone
<1>3. PICK T \in Engine :
        /\ Observe(T, {})
        /\ loop' = [loop EXCEPT !.queue = Compacted(@, Reread(T, held)), !.chunk = 1, !.escalating = FALSE]
  BY DEF ChunkRefuted
<1>. DEFINE M == Reread(T, held)
<1>4. class = NoClass  BY <1>1, <1>2 DEF Phases
<1>5. ObservedAs(T, M)  BY <1>3, <1>4, Observed
<1>6. loop' = [loop EXCEPT !.queue = Compacted(@, M), !.chunk = 1, !.escalating = FALSE]  BY <1>3
<1>7. F \in SUBSET Clauses /\ T \in EngineOf(F)  BY <1>1, <1>3, JobFormula
<1>8. q \in Seq(Lits)  BY <1>1, ChunkFacts
<1>9. Lined(F, top, forced, q, d, cut)  BY <1>1, <1>2 DEF Queue
<1>. HIDE DEF M, held, F, q, d
<1>10. /\ Lined(F, TrueIn(top, M), forced, Compacted(q, M), d, cut) /\ Compacted(q, M) \in Seq(Lits)
  <2>1. \A l \in top : Holds(l, M) <=> Holds(l, T)  BY <1>5 DEF ObservedAs
  <2>. QED  BY <1>7, <1>8, <1>9, <2>1, LinedRefuted
<1>11. loop' \in LoopTypes /\ loop'.queue = Compacted(q, M) /\ loop'.deferred = d
  <2>1. loop \in LoopTypes /\ 1 \in Nat \ {0} /\ FALSE \in BOOLEAN  BY <1>1 DEF Types
  <2>. QED  BY <1>6, <1>10, <2>1 DEF LoopTypes, q, d
<1>12. Types'  BY <1>1, <1>2, <1>5, <1>11 DEF Types, ObservedAs
<1>13. Phases'  BY <1>1, <1>2, <1>4 DEF Phases
<1>14. Partition'  BY <1>2, <1>4, <1>5 DEF Partition, ObservedAs
<1>15. Queue'  BY <1>2, <1>5, <1>10, <1>11 DEF Queue, ObservedAs, F
<1>16. Comparable'  BY <1>1, <1>2, <1>4, <1>5 DEF Comparable, MayGoOn, ObservedAs
<1>. QED  BY <1>12, <1>13, <1>14, <1>15, <1>16 DEF IInv

LEMMA ChunkUnknownKeeps ==
  ASSUME IInv, ChunkUnknown
  PROVE  IInv'
<1>. DEFINE n == ChunkSize
            q == loop.queue
            d == loop.deferred
            F == job.formula
<1>1. Types /\ Phases /\ Partition /\ Queue /\ Comparable  BY DEF IInv
<1>2. /\ pc = "probe" /\ q # <<>> /\ pc' = "probe" /\ loop' = Undecided(loop, CappedSingle)
      /\ UNCHANGED <<job, f, mapping, seeded, model, top, classes, forced, equivs, class, unknowns, cut>>
  BY DEF ChunkUnknown, Probing, InBackbone
<1>3. loop \in LoopTypes  BY <1>1 DEF Types
<1>4. /\ q \in Seq(Lits) /\ d \in Seq(Lits) /\ n \in 0 .. Len(q) /\ Chunk = SubSeq(q, 1, n)
      /\ Dropped(q, n) \in Seq(Lits) /\ Chunk \in Seq(Lits)
  BY <1>1, ChunkFacts
<1>5. Lined(F, top, forced, q, d, cut)  BY <1>1, <1>2 DEF Queue
<1>6. \/ loop' = [loop EXCEPT !.chunk = EscalatedChunk, !.escalating = TRUE, !.spent = {Head(q)}]
      \/ loop' = [loop EXCEPT !.queue = Dropped(@, n), !.chunk = 1, !.escalating = FALSE,
                              !.deferred = @ \o Chunk]
  BY <1>2 DEF Undecided
<1>. HIDE DEF n, q, d, F
<1>7. /\ loop' \in LoopTypes
      /\ \/ loop'.queue = q /\ loop'.deferred = d
         \/ loop'.queue = Dropped(q, n) /\ loop'.deferred = d \o SubSeq(q, 1, n)
  <2>1. CASE loop' = [loop EXCEPT !.chunk = EscalatedChunk, !.escalating = TRUE, !.spent = {Head(q)}]
    <3>1. Head(q) \in Lits  BY <1>2, <1>4, HeadTailProperties
    <3>2. EscalatedChunk \in Nat \ {0} /\ TRUE \in BOOLEAN  BY ProbeAssumption
    <3>. QED  BY <1>3, <2>1, <3>1, <3>2 DEF LoopTypes, q, d
  <2>2. CASE loop' = [loop EXCEPT !.queue = Dropped(@, n), !.chunk = 1, !.escalating = FALSE,
                                  !.deferred = @ \o Chunk]
    <3>1. d \o Chunk \in Seq(Lits)  BY <1>4, Rejoined
    <3>2. 1 \in Nat \ {0} /\ FALSE \in BOOLEAN  OBVIOUS
    <3>. QED  BY <1>3, <1>4, <2>2, <3>1, <3>2 DEF LoopTypes, q, d
  <2>. QED  BY <1>6, <2>1, <2>2
<1>8. Lined(F, top, forced, Dropped(q, n), d \o SubSeq(q, 1, n), cut)
  BY <1>4, <1>5, LinedDeferred
<1>9. Types'  BY <1>1, <1>2, <1>7 DEF Types
<1>10. Phases'  BY <1>1, <1>2 DEF Phases
<1>11. Partition'  BY <1>1, <1>2 DEF Partition
<1>12. Queue'  BY <1>2, <1>5, <1>7, <1>8 DEF Queue, F
<1>13. Comparable'  BY <1>1, <1>2 DEF Comparable, MayGoOn
<1>. QED  BY <1>9, <1>10, <1>11, <1>12, <1>13 DEF IInv

\* What the three answers of a recovery have in common.
LEMMA RecoveryFacts ==
  ASSUME IInv, Recovering, InRecovery
  PROVE  /\ class = NoClass /\ pc = "recover" /\ loop.deferred # <<>> /\ loop.deferred \in Seq(Lits)
         /\ Lined(job.formula, top, forced, <<>>, loop.deferred, cut)
         /\ loop' \in LoopTypes /\ loop'.queue = <<>> /\ loop'.deferred = Tail(loop.deferred)
         /\ UNCHANGED <<job, f, mapping, seeded, equivs, class, unknowns>>
<1>1. Types /\ Phases /\ Queue  BY DEF IInv
<1>2. /\ pc = "recover" /\ loop.deferred # <<>> /\ loop' = [loop EXCEPT !.deferred = Tail(@)]
      /\ UNCHANGED <<job, f, mapping, seeded, equivs, class, unknowns>>
  BY DEF Recovering, InRecovery
<1>3. class = NoClass /\ loop.queue = <<>>  BY <1>1, <1>2 DEF Phases
<1>4. Lined(job.formula, top, forced, <<>>, loop.deferred, cut)  BY <1>1, <1>2, <1>3 DEF Queue
<1>5. loop \in LoopTypes /\ loop.deferred \in Seq(Lits)  BY <1>1 DEF Types, LoopTypes
<1>6. Tail(loop.deferred) \in Seq(Lits)  BY <1>2, <1>5, HeadTailProperties
<1>7. loop' \in LoopTypes /\ loop'.queue = <<>> /\ loop'.deferred = Tail(loop.deferred)
  BY <1>2, <1>3, <1>5, <1>6 DEF LoopTypes
<1>. QED  BY <1>2, <1>3, <1>4, <1>5, <1>7

LEMMA RecoverConfirmedKeeps ==
  ASSUME IInv, RecoverConfirmed
  PROVE  IInv'
<1>. DEFINE d == loop.deferred
            F == job.formula
            L == {Head(d)}
<1>1. Types /\ Phases /\ Partition /\ Queue /\ Comparable  BY DEF IInv
<1>2. Recovering /\ InRecovery /\ AllTrue(L) /\ Confirm(L) /\ cut' = cut /\ pc' = pc
  BY DEF RecoverConfirmed
<1>3. /\ class = NoClass /\ pc = "recover" /\ d # <<>> /\ d \in Seq(Lits)
      /\ Lined(F, top, forced, <<>>, d, cut)
      /\ loop' \in LoopTypes /\ loop'.queue = <<>> /\ loop'.deferred = Tail(d)
      /\ UNCHANGED <<job, f, mapping, seeded, equivs, class, unknowns>>
  BY <1>2, RecoveryFacts
<1>4. Head(d) \in top \cup forced
  <2>1. \A T \in EngineOf(F) : Holds(Head(d), T)  BY <1>1, <1>2, JobFormula DEF AllTrue
  <2>. HIDE DEF F, d
  <2>. QED  BY <1>3, <2>1, LinedTail
<1>5. Lined(F, top \ L, forced \cup L, <<>>, Tail(d), cut)
  <2>. HIDE DEF F, d
  <2>. QED  BY <1>3, <1>4, LinedSettled
<1>6. /\ top' = top \ L /\ forced' = forced \cup L /\ classes' = classes /\ model' = model
      /\ Shape(top', classes', NoClass, forced')
      /\ Apart(EngineOf(job.formula), top, classes, NoClass) =>
           Apart(EngineOf(job.formula), top', classes', NoClass)
  <2>1. L \in SUBSET (top \cup forced)  BY <1>4
  <2>. HIDE DEF L
  <2>. QED  BY <1>2, <1>3, <2>1, ConfirmedParts
<1>. HIDE DEF L, d
<1>7. Types'  BY <1>1, <1>2, <1>3, <1>6 DEF Types
<1>8. Phases'  BY <1>1, <1>2, <1>3 DEF Phases
<1>9. Partition'  BY <1>3, <1>6 DEF Partition
<1>10. Queue'  BY <1>2, <1>3, <1>5, <1>6 DEF Queue
<1>11. Comparable'  BY <1>1, <1>2, <1>3, <1>6 DEF Comparable, MayGoOn
<1>. QED  BY <1>7, <1>8, <1>9, <1>10, <1>11 DEF IInv

LEMMA RecoverRefutedKeeps ==
  ASSUME IInv, RecoverRefuted
  PROVE  IInv'
<1>. DEFINE d == loop.deferred
            F == job.formula
<1>1. Types /\ Phases /\ Partition /\ Queue /\ Comparable  BY DEF IInv
<1>2. Recovering /\ InRecovery /\ forced' = forced /\ cut' = cut /\ pc' = pc
  BY DEF RecoverRefuted
<1>3. PICK T \in Engine : ~Holds(Head(d), T) /\ Observe(T, {})  BY DEF RecoverRefuted
<1>. DEFINE M == Reread(T, Held(classes, top, {}))
<1>4. /\ class = NoClass /\ pc = "recover" /\ d # <<>> /\ d \in Seq(Lits)
      /\ Lined(F, top, forced, <<>>, d, cut)
      /\ loop' \in LoopTypes /\ loop'.queue = <<>> /\ loop'.deferred = Tail(d)
      /\ UNCHANGED <<job, f, mapping, seeded, equivs, class, unknowns>>
  BY <1>2, RecoveryFacts
<1>5. ObservedAs(T, M)  BY <1>3, <1>4, Observed
<1>6. F \in SUBSET Clauses /\ T \in EngineOf(F)  BY <1>1, <1>3, JobFormula
<1>7. Head(d) \notin Backbone(F)  BY <1>3, <1>6, EngineModels
<1>. HIDE DEF M, d, F
<1>8. Lined(F, top, forced, <<>>, Tail(d), cut)  BY <1>4, <1>7, LinedTail
<1>9. Lined(F, TrueIn(top, M), forced, <<>>, Tail(d), cut)
  <2>. DEFINE none == <<>>
  <2>1. \A l \in top : Holds(l, M) <=> Holds(l, T)  BY <1>5 DEF ObservedAs
  <2>2. none \in Seq(Lits) /\ Lined(F, top, forced, none, Tail(d), cut)  BY <1>8
  <2>. HIDE DEF none
  <2>3. Lined(F, TrueIn(top, M), forced, Compacted(none, M), Tail(d), cut)
    BY <1>6, <2>1, <2>2, LinedRefuted
  <2>. QED  BY <2>3, NoneKept DEF none
<1>10. Types'  BY <1>1, <1>2, <1>4, <1>5 DEF Types, ObservedAs
<1>11. Phases'  BY <1>1, <1>2, <1>4 DEF Phases
<1>12. Partition'  BY <1>2, <1>4, <1>5 DEF Partition, ObservedAs
<1>13. Queue'  BY <1>2, <1>4, <1>5, <1>9 DEF Queue, ObservedAs, F
<1>14. Comparable'  BY <1>1, <1>2, <1>4, <1>5 DEF Comparable, MayGoOn, ObservedAs
<1>. QED  BY <1>10, <1>11, <1>12, <1>13, <1>14 DEF IInv

LEMMA RecoverUnknownKeeps ==
  ASSUME IInv, RecoverUnknown
  PROVE  IInv'
<1>. DEFINE d == loop.deferred
            F == job.formula
<1>1. Types /\ Phases /\ Partition /\ Queue /\ Comparable  BY DEF IInv
<1>2. Recovering /\ InRecovery /\ cut' = TRUE /\ UNCHANGED <<model, top, classes, forced, pc>>
  BY DEF RecoverUnknown
<1>3. /\ class = NoClass /\ pc = "recover" /\ d # <<>> /\ d \in Seq(Lits)
      /\ Lined(F, top, forced, <<>>, d, cut)
      /\ loop' \in LoopTypes /\ loop'.queue = <<>> /\ loop'.deferred = Tail(d)
      /\ UNCHANGED <<job, f, mapping, seeded, equivs, class, unknowns>>
  BY <1>2, RecoveryFacts
<1>. HIDE DEF d, F
<1>4. Lined(F, top, forced, <<>>, Tail(d), TRUE)  BY <1>3, LinedTail
<1>5. Types'  BY <1>1, <1>2, <1>3 DEF Types
<1>6. Phases'  BY <1>1, <1>2, <1>3 DEF Phases
<1>7. Partition'  BY <1>1, <1>2, <1>3 DEF Partition
<1>8. Queue'  BY <1>2, <1>3, <1>4 DEF Queue, F
<1>9. Comparable'  BY <1>1, <1>2, <1>3 DEF Comparable, MayGoOn
<1>. QED  BY <1>5, <1>6, <1>7, <1>8, <1>9 DEF IInv

-----------------------------------------------------------------------------
(***************************************************************************)
(* The steps between the phases and over the classes.                      *)
(***************************************************************************)
LEMMA TarjanKeeps ==
  ASSUME IInv, TarjanAgain
  PROVE  IInv'
<1>1. Types /\ Phases /\ Partition /\ Queue /\ Comparable  BY DEF IInv
<1>2. pc = "tarjan" /\ UNCHANGED <<job, seeded, model, loop, forced, equivs, class, unknowns, cut>>
  BY DEF TarjanAgain
<1>3. class = NoClass  BY <1>1, <1>2 DEF Phases
<1>4. CASE mapping' = mapping /\ top' = top /\ classes' = classes /\ pc' = "done"
  <2>1. Types' /\ Phases' /\ Partition' /\ Queue' /\ Comparable'
    BY <1>1, <1>2, <1>3, <1>4 DEF Types, Phases, Partition, Queue, Comparable
  <2>. QED  BY <2>1 DEF IInv
<1>5. CASE /\ mapping' = ExtractedMap(f) /\ top' = Ingested(top, mapping')
           /\ classes' = {Ingested(c, mapping') : c \in classes} /\ pc' = "equiv"
  <2>1. mapping' \in [Vars -> Lits]  BY <1>5, MapTypes
  <2>2. Shape(top, classes, NoClass, forced)  BY <1>1, <1>3 DEF Partition
  <2>. DEFINE rep == mapping'
              t == Ingested(top, rep)
              S == {Ingested(c, rep) : c \in classes}
  <2>3. top' = t /\ classes' = S  BY <1>5
  <2>4. /\ Shape(t, S, NoClass, forced)
        /\ \A E : Apart(E, top, classes, NoClass) => Apart(E, t, S, NoClass)
    BY <2>2, IngestedKeeps
  <2>. HIDE DEF t, S, rep
  <2>5. Types'  BY <1>1, <1>2, <2>1 DEF Types
  <2>6. Phases'  BY <1>1, <1>2, <1>3, <1>5 DEF Phases
  <2>7. Partition'  BY <1>2, <1>3, <2>3, <2>4 DEF Partition
  <2>8. Queue'  BY <1>5 DEF Queue
  <2>9. Comparable'  BY <1>1, <1>2, <1>3, <2>3, <2>4 DEF Comparable, MayGoOn
  <2>. QED  BY <2>5, <2>6, <2>7, <2>8, <2>9 DEF IInv
<1>. QED  BY <1>4, <1>5 DEF TarjanAgain

LEMMA StartEquivKeeps ==
  ASSUME IInv, StartEquiv
  PROVE  IInv'
<1>1. Types /\ Phases /\ Partition /\ Queue /\ Comparable  BY DEF IInv
<1>2. /\ pc = "equiv"
      /\ UNCHANGED <<job, f, mapping, seeded, model, loop, forced, equivs, class, unknowns, cut>>
  BY DEF StartEquiv
<1>3. class = NoClass  BY <1>1, <1>2 DEF Phases
<1>4. Shape(top, classes, NoClass, forced)  BY <1>1, <1>3 DEF Partition
<1>5. CASE top' = top /\ classes' = classes /\ pc' = "done"
  <2>1. Types' /\ Phases' /\ Partition' /\ Queue' /\ Comparable'
    BY <1>1, <1>2, <1>3, <1>5 DEF Types, Phases, Partition, Queue, Comparable
  <2>. QED  BY <2>1 DEF IInv
<1>6. CASE classes' = classes \cup {top} /\ top' = {} /\ pc' = "class"
  <2>1. /\ Shape({}, classes \cup {top}, NoClass, forced)
        /\ \A E : Apart(E, top, classes, NoClass) => Apart(E, {}, classes \cup {top}, NoClass)
    BY <1>4, TopJoins
  <2>2. Types'  BY <1>1, <1>2 DEF Types
  <2>3. Phases'  BY <1>1, <1>2, <1>3, <1>6 DEF Phases
  <2>4. Partition'  BY <1>2, <1>3, <1>6, <2>1 DEF Partition
  <2>5. Queue'  BY <1>6 DEF Queue
  <2>6. Comparable'  BY <1>1, <1>2, <1>3, <1>6, <2>1 DEF Comparable, MayGoOn
  <2>. QED  BY <2>2, <2>3, <2>4, <2>5, <2>6 DEF IInv
<1>. QED  BY <1>5, <1>6 DEF StartEquiv

LEMMA TakeClassKeeps ==
  ASSUME IInv, TakeClass
  PROVE  IInv'
<1>1. Types /\ Phases /\ Partition /\ Queue /\ Comparable  BY DEF IInv
<1>2. /\ pc = "class" /\ pc' = "pair"
      /\ UNCHANGED <<job, f, mapping, seeded, top, loop, forced, model, equivs, unknowns, cut>>
  BY DEF TakeClass, InEquiv
<1>3. PICK c \in WorthKeeping(classes) :
        class' = TakenClass(c) /\ classes' = WorthKeeping(classes) \ {c}
  BY DEF TakeClass, TakenClass
<1>4. top = {} /\ class = NoClass  BY <1>1, <1>2 DEF Phases
<1>5. Shape({}, classes, NoClass, forced)  BY <1>1, <1>4 DEF Partition
<1>6. /\ Proper(class') /\ class'.rep \in Lits /\ class'.at = 1 /\ Shape({}, classes', class', forced)
      /\ \A E : Apart(E, {}, classes, NoClass) => Apart(E, {}, classes', class')
  BY <1>3, <1>5, Taken
<1>7. class'.at - 1 <= unknowns  BY <1>1, <1>6 DEF Types
<1>8. Types'  BY <1>1, <1>2 DEF Types
<1>9. Phases'  BY <1>2, <1>4, <1>6, <1>7 DEF Phases
<1>10. Partition'  BY <1>2, <1>4, <1>6 DEF Partition
<1>11. Queue'  BY <1>2 DEF Queue
<1>12. Comparable'  BY <1>1, <1>2, <1>4, <1>6 DEF Comparable, MayGoOn
<1>. QED  BY <1>8, <1>9, <1>10, <1>11, <1>12 DEF IInv

\* A class changes in hand, and nothing else but what the step says.
LEMMA PairStep ==
  ASSUME IInv, pc = "pair", pc' = "pair",
         UNCHANGED <<job, mapping, seeded, top, loop, forced, equivs, cut>>,
         model' \subseteq Vars, unknowns' \in 0 .. UnknownPairs, unknowns <= unknowns',
         Proper(class'), class'.rep = class.rep, class'.at - 1 <= unknowns',
         Shape({}, classes', class', forced),
         seeded /\ MayGoOn => Apart(EngineOf(job.formula), {}, classes', class')
  PROVE  IInv'
<1>1. Types /\ Phases  BY DEF IInv
<1>2. top = {} /\ class.rep \in Lits  BY <1>1 DEF Phases
<1>3. MayGoOn' => MayGoOn  BY <1>1, ProbeAssumption DEF MayGoOn, Types
<1>4. Types'  BY <1>1 DEF Types
<1>5. Phases'  BY <1>2 DEF Phases
<1>6. Partition'  BY <1>2 DEF Partition
<1>7. Queue'  BY DEF Queue
<1>8. Comparable'  BY <1>2, <1>3 DEF Comparable
<1>. QED  BY <1>4, <1>5, <1>6, <1>7, <1>8 DEF IInv

LEMMA PairConfirmedKeeps ==
  ASSUME IInv, PairConfirmed
  PROVE  IInv'
<1>1. Types /\ Phases /\ Partition /\ Comparable  BY DEF IInv
<1>2. /\ pc = "pair" /\ pc' = "pair" /\ class.at <= Len(class.left) /\ MayGoOn
      /\ class' = JoinedRest(class)
      /\ UNCHANGED <<job, mapping, seeded, top, loop, forced, equivs, cut, model, classes, unknowns>>
  BY DEF PairConfirmed, InClass, InEquiv, Candidate, JoinedRest
<1>3. Proper(class) /\ class.rep \in Lits /\ class.at - 1 <= unknowns /\ top = {}
  BY <1>1, <1>2 DEF Phases
<1>4. Shape({}, classes, class, forced)  BY <1>1, <1>3 DEF Partition
<1>5. /\ Proper(class') /\ class'.rep = class.rep /\ class'.at = class.at
      /\ Shape({}, classes, class', forced)
      /\ \A E : Apart(E, {}, classes, class) => Apart(E, {}, classes, class')
  <2>1. JoinedAs(classes, forced, class, JoinedRest(class))  BY <1>2, <1>3, <1>4, PairJoins
  <2>. QED  BY <1>2, <2>1 DEF JoinedAs
<1>6. seeded /\ MayGoOn => Apart(EngineOf(job.formula), {}, classes, class)
  BY <1>1, <1>2, <1>3 DEF Comparable
<1>7. model' \subseteq Vars /\ unknowns' \in 0 .. UnknownPairs /\ unknowns <= unknowns'
  BY <1>1, <1>2 DEF Types
<1>8. class'.at - 1 <= unknowns'  BY <1>2, <1>3, <1>5
<1>9. Shape({}, classes', class', forced)  BY <1>2, <1>5
<1>10. seeded /\ MayGoOn => Apart(EngineOf(job.formula), {}, classes', class')
  BY <1>2, <1>5, <1>6
<1>. QED  BY <1>2, <1>5, <1>7, <1>8, <1>9, <1>10, PairStep

LEMMA PairUnknownKeeps ==
  ASSUME IInv, PairUnknown
  PROVE  IInv'
<1>1. Types /\ Phases /\ Partition /\ Comparable  BY DEF IInv
<1>2. /\ pc = "pair" /\ pc' = "pair" /\ class.at <= Len(class.left) /\ MayGoOn
      /\ class' = [class EXCEPT !.at = @ + 1] /\ unknowns' = unknowns + 1
      /\ UNCHANGED <<job, mapping, seeded, top, loop, forced, equivs, cut, model, classes>>
  BY DEF PairUnknown, InClass, InEquiv
<1>3. Proper(class) /\ class.rep \in Lits /\ class.at - 1 <= unknowns /\ top = {}
  BY <1>1, <1>2 DEF Phases
<1>4. Shape({}, classes, class, forced)  BY <1>1, <1>3 DEF Partition
<1>5. /\ Proper(class') /\ class'.rep = class.rep /\ class'.at = class.at + 1
      /\ Shape({}, classes, class', forced)
      /\ \A E : Apart(E, {}, classes, class) => Apart(E, {}, classes, class')
  BY <1>2, <1>3, <1>4, PairPassed
<1>6. seeded /\ MayGoOn => Apart(EngineOf(job.formula), {}, classes, class)
  BY <1>1, <1>2, <1>3 DEF Comparable
<1>7. model' \subseteq Vars /\ unknowns' \in 0 .. UnknownPairs /\ unknowns <= unknowns'
  BY <1>1, <1>2, ProbeAssumption DEF Types, MayGoOn
<1>8. class'.at - 1 <= unknowns'
  <2>1. class.at \in Nat /\ unknowns \in Nat  BY <1>1, <1>3 DEF Proper, ClassTypes, Types
  <2>. QED  BY <1>2, <1>3, <1>5, <2>1
<1>9. Shape({}, classes', class', forced)  BY <1>2, <1>5
<1>10. seeded /\ MayGoOn => Apart(EngineOf(job.formula), {}, classes', class')
  BY <1>2, <1>5, <1>6
<1>. QED  BY <1>2, <1>5, <1>7, <1>8, <1>9, <1>10, PairStep

\* The counter-model of a pair, read over the candidates still in hand.
LEMMA SplitKeepsApart ==
  ASSUME IInv, pc = "pair", NEW T \in Engine, NEW b \in BOOLEAN, Holds(class.rep, T) <=> b,
         SplitClass(T, b)
  PROVE  /\ model' \subseteq Vars /\ Proper(class') /\ class'.rep = class.rep /\ class'.at = class.at
         /\ Shape({}, classes', class', forced)
         /\ Apart(EngineOf(job.formula), {}, classes, class) =>
              Apart(EngineOf(job.formula), {}, classes', class')
<1>. DEFINE A == ToSet(After(class))
            held == Held(classes, {}, A)
            M == Reread(T, held)
            E == EngineOf(job.formula)
<1>1. Types /\ Phases /\ Partition  BY DEF IInv
<1>2. Proper(class) /\ class.rep \in Lits /\ top = {}  BY <1>1 DEF Phases
<1>3. Shape({}, classes, class, forced)  BY <1>1, <1>2 DEF Partition
<1>4. T \in E /\ T \subseteq Vars /\ model \subseteq Vars
  BY <1>1, JobFormula, EngineModels DEF Types
<1>5. /\ model' = M /\ classes' = SplitParts(classes, class, M, b) /\ class' = SplitRest(class, M, b)
  BY DEF SplitClass, SplitParts, SplitRest, Parting, Agree, After
<1>6. (UNION classes) \cup A \subseteq Lits
  <2>1. MemOf({}, classes, class) \subseteq Lits  BY <1>3 DEF Shape, Steady
  <2>2. A \subseteq ToSet(class.left)  BY <1>2, ClassCut DEF Cut
  <2>3. (UNION classes) \cup ToSet(class.left) \subseteq MemOf({}, classes, class)  BY DEF MemOf
  <2>. QED  BY <2>1, <2>2, <2>3
<1>7. ASSUME NEW l \in (UNION classes) \cup A PROVE Holds(l, M) <=> Holds(l, T)
  <2>1. VarOf(l) \in held  BY DEF Held
  <2>2. l \in Lits  BY <1>6
  <2>. HIDE DEF held
  <2>. QED  BY <2>1, <2>2, RereadAgrees
<1>8. M \subseteq Vars  BY <1>4 DEF Reread
<1>. HIDE DEF M, held, E
<1>9. Proper(class') /\ class'.rep = class.rep /\ class'.at = class.at  BY <1>2, <1>5, SplitKeeps
<1>10. Shape({}, classes', class', forced)  BY <1>2, <1>3, <1>5, SplitShape
<1>11. Apart(E, {}, classes, class) => Apart(E, {}, classes', class')
  BY <1>2, <1>3, <1>4, <1>5, <1>7, SplitApart
<1>. QED  BY <1>5, <1>8, <1>9, <1>10, <1>11 DEF E

LEMMA PairRefutedKeeps ==
  ASSUME IInv, PairRefuted
  PROVE  IInv'
<1>1. Types /\ Phases /\ Partition /\ Comparable  BY DEF IInv
<1>2. /\ pc = "pair" /\ pc' = "pair" /\ MayGoOn
      /\ UNCHANGED <<job, mapping, seeded, top, loop, forced, equivs, cut, unknowns>>
  BY DEF PairRefuted, InClass, InEquiv
<1>3. Proper(class) /\ class.rep \in Lits /\ class.at - 1 <= unknowns /\ top = {}
  BY <1>1, <1>2 DEF Phases
<1>4. \E T \in Engine, b \in BOOLEAN : (Holds(class.rep, T) <=> b) /\ SplitClass(T, b)
  BY DEF PairRefuted, Refuting
<1>5. PICK T \in Engine, b \in BOOLEAN : (Holds(class.rep, T) <=> b) /\ SplitClass(T, b)
  BY <1>4
<1>6. /\ model' \subseteq Vars /\ Proper(class') /\ class'.rep = class.rep /\ class'.at = class.at
      /\ Shape({}, classes', class', forced)
      /\ Apart(EngineOf(job.formula), {}, classes, class) =>
           Apart(EngineOf(job.formula), {}, classes', class')
  BY <1>2, <1>5, SplitKeepsApart
<1>7. seeded /\ MayGoOn => Apart(EngineOf(job.formula), {}, classes, class)
  BY <1>1, <1>2, <1>3 DEF Comparable
<1>8. unknowns' \in 0 .. UnknownPairs /\ unknowns <= unknowns'  BY <1>1, <1>2 DEF Types
<1>9. class'.at - 1 <= unknowns'  BY <1>2, <1>3, <1>6
<1>10. seeded /\ MayGoOn => Apart(EngineOf(job.formula), {}, classes', class')
  BY <1>6, <1>7
<1>. QED  BY <1>2, <1>6, <1>8, <1>9, <1>10, PairStep

\* The pairs a class leaves behind are pairs of literals.
LEMMA RecordedKeeps ==
  ASSUME IInv, pc = "pair", NEW next, Recorded(next)
  PROVE  /\ equivs' \subseteq Lits \X Lits /\ class' = NoClass /\ pc' = next
         /\ Shape({}, classes', NoClass, forced)
         /\ (seeded /\ MayGoOn /\ class.at > Len(class.left)) =>
              Apart(EngineOf(job.formula), {}, classes', NoClass)
<1>1. Types /\ Phases /\ Partition /\ Comparable  BY DEF IInv
<1>2. Proper(class) /\ class.rep \in Lits /\ class.at - 1 <= unknowns /\ top = {}
  BY <1>1 DEF Phases
<1>3. Shape({}, classes, class, forced)  BY <1>1, <1>2 DEF Partition
<1>4. /\ equivs' = equivs \cup {<<class.rep, m>> : m \in class.same}
      /\ classes' = WorthKeeping(classes \cup {ToSet(class.left)}) /\ class' = NoClass /\ pc' = next
  BY DEF Recorded
<1>5. class.same \subseteq Lits /\ class.at \in Nat /\ Len(class.left) \in Nat
  BY <1>2 DEF Proper, ClassTypes
<1>6. equivs' \subseteq Lits \X Lits
  <2>1. equivs \subseteq Lits \X Lits  BY <1>1 DEF Types
  <2>2. {<<class.rep, m>> : m \in class.same} \subseteq Lits \X Lits  BY <1>2, <1>5
  <2>. QED  BY <1>4, <2>1, <2>2
<1>7. /\ Shape({}, classes', NoClass, forced)
      /\ \A E : Apart(E, {}, classes, class) /\ Len(class.left) <= 1 => Apart(E, {}, classes', NoClass)
  <2>1. ReturnedAs(classes, forced, class, WorthKeeping(classes \cup {ToSet(class.left)}))
    BY <1>2, <1>3, ClassReturns
  <2>. QED  BY <1>4, <2>1 DEF ReturnedAs
<1>8. ASSUME seeded, MayGoOn, class.at > Len(class.left)
      PROVE  Apart(EngineOf(job.formula), {}, classes', NoClass)
  <2>1. Len(class.left) <= 1
    <3>. DEFINE n == Len(class.left)
                a == class.at
    <3>1. n \in Nat /\ a \in Nat /\ n < a /\ a - 1 <= unknowns  BY <1>2, <1>5, <1>8
    <3>2. unknowns \in Nat /\ unknowns < UnknownPairs /\ UnknownPairs \in 1 .. 2
      BY <1>1, <1>8, ProbeAssumption DEF Types, MayGoOn
    <3>. HIDE DEF n, a
    <3>3. n <= 1  BY <3>1, <3>2
    <3>. QED  BY <3>3 DEF n
  <2>2. Apart(EngineOf(job.formula), {}, classes, class)  BY <1>1, <1>2, <1>8 DEF Comparable
  <2>. QED  BY <1>7, <2>1, <2>2
<1>. QED  BY <1>4, <1>6, <1>7, <1>8

LEMMA ClassDoneKeeps ==
  ASSUME IInv, ClassDone
  PROVE  IInv'
<1>1. Types /\ Phases  BY DEF IInv
<1>2. /\ pc = "pair" /\ Recorded("class") /\ (class.at > Len(class.left) \/ ~MayGoOn)
      /\ UNCHANGED <<job, f, mapping, seeded, top, loop, forced, model, unknowns, cut>>
  BY DEF ClassDone, InEquiv
<1>3. /\ equivs' \subseteq Lits \X Lits /\ class' = NoClass /\ pc' = "class"
      /\ Shape({}, classes', NoClass, forced)
      /\ (seeded /\ MayGoOn /\ class.at > Len(class.left)) =>
           Apart(EngineOf(job.formula), {}, classes', NoClass)
  BY <1>2, RecordedKeeps
<1>4. top = {}  BY <1>1, <1>2 DEF Phases
<1>5. Types'  BY <1>1, <1>2, <1>3 DEF Types
<1>6. Phases'  BY <1>2, <1>3, <1>4, NoClassIsProper DEF Phases
<1>7. Partition'  BY <1>2, <1>3, <1>4 DEF Partition
<1>8. Queue'  BY <1>3 DEF Queue
<1>9. Comparable'  BY <1>2, <1>3, <1>4 DEF Comparable, MayGoOn
<1>. QED  BY <1>5, <1>6, <1>7, <1>8, <1>9 DEF IInv

LEMMA EquivOutOfTimeKeeps ==
  ASSUME IInv, EquivOutOfTime
  PROVE  IInv'
<1>1. Types /\ Phases  BY DEF IInv
<1>2. /\ pc \in {"pair", "class"} /\ cut' = TRUE
      /\ UNCHANGED <<job, f, mapping, seeded, top, loop, forced, model, unknowns>>
  BY DEF EquivOutOfTime, InEquiv, InClass
<1>3. CASE pc = "pair" /\ Recorded("emit")
  <2>1. /\ equivs' \subseteq Lits \X Lits /\ class' = NoClass /\ pc' = "emit"
        /\ Shape({}, classes', NoClass, forced)
    BY <1>3, RecordedKeeps
  <2>2. top = {}  BY <1>1, <1>3 DEF Phases
  <2>3. Types'  BY <1>1, <1>2, <2>1 DEF Types
  <2>4. Phases'  BY <1>2, <2>1, <2>2, NoClassIsProper DEF Phases
  <2>5. Partition'  BY <1>2, <2>1, <2>2 DEF Partition
  <2>6. Queue' /\ Comparable'  BY <2>1 DEF Queue, Comparable
  <2>. QED  BY <2>3, <2>4, <2>5, <2>6 DEF IInv
<1>4. CASE pc = "class" /\ pc' = "emit" /\ UNCHANGED <<equivs, classes, class>>
  BY <1>2, <1>4, MovesKeep
<1>. QED  BY <1>2, <1>3, <1>4 DEF EquivOutOfTime

-----------------------------------------------------------------------------
(***************************************************************************)
(* Every step, and what the invariant says.                                *)
(***************************************************************************)

\* The steps that change no more than the formula, or where the stage is.
LEMMA QuietSteps ==
  ASSUME IInv,
         \/ SolverUnavailable \/ SeedUnsat \/ SeedUnknown \/ QueueEmpty \/ BackboneOutOfTime
         \/ RecoverDone \/ Inject \/ EquivDone \/ Emit
  PROVE  IInv'
<1>1. CASE SolverUnavailable  BY <1>1, MovesKeep DEF SolverUnavailable, engine
<1>2. CASE SeedUnsat  BY <1>2, MovesKeep DEF SeedUnsat, engine
<1>3. CASE SeedUnknown  BY <1>3, MovesKeep DEF SeedUnknown
<1>4. CASE QueueEmpty  BY <1>4, MovesKeep DEF QueueEmpty, engine
<1>5. CASE BackboneOutOfTime  BY <1>5, MovesKeep DEF BackboneOutOfTime, Probing, Recovering
<1>6. CASE RecoverDone  BY <1>6, MovesKeep DEF RecoverDone, engine
<1>7. CASE Inject  BY <1>7, MovesKeep DEF Inject, engine
<1>8. CASE EquivDone  BY <1>8, MovesKeep DEF EquivDone, engine
<1>9. CASE Emit  BY <1>9, MovesKeep DEF Emit, engine
<1>. QED  BY <1>1, <1>2, <1>3, <1>4, <1>5, <1>6, <1>7, <1>8, <1>9

LEMMA NextInv ==
  ASSUME IInv, [Next]_vars
  PROVE  IInv'
<1>1. CASE Step
  BY <1>1, QuietSteps, SeedSatKeeps, ChunkConfirmedKeeps, ChunkRefutedKeeps, ChunkUnknownKeeps,
     RecoverConfirmedKeeps, RecoverRefutedKeeps, RecoverUnknownKeeps, TarjanKeeps, StartEquivKeeps,
     TakeClassKeeps, PairRefutedKeeps, PairConfirmedKeeps, PairUnknownKeeps, ClassDoneKeeps,
     EquivOutOfTimeKeeps DEF Step
<1>2. CASE UNCHANGED vars
  <2>1. Types /\ Phases /\ Partition /\ Queue /\ Comparable  BY DEF IInv
  <2>2. Types' /\ Phases' /\ Partition' /\ Queue' /\ Comparable'
    BY <1>2, <2>1 DEF vars, Types, Phases, Partition, Queue, Comparable, MayGoOn
  <2>. QED  BY <2>2 DEF IInv
<1>. QED  BY <1>1, <1>2 DEF Next, Done

LEMMA InvHolds == IInv => PartitionHolds
<1>. SUFFICES ASSUME IInv PROVE PartitionHolds  OBVIOUS
<1>1. Types /\ Phases /\ Partition /\ Queue /\ Comparable  BY DEF IInv
<1>2. Steady(Members, forced)
  <2>1. Members = MemOf(top, classes, class)  BY DEF Members, MemOf
  <2>. QED  BY <1>1, <2>1 DEF Partition, Shape
<1>3. Disjoint(top, classes) /\ Outside(classes, class)  BY <1>1 DEF Partition, Shape
<1>4. \A c \in classes : \A d \in (classes \ {c}) \cup {top} : c \cap d = {}
  BY <1>3 DEF Disjoint
<1>5. \A c \in classes : c \cap (ToSet(class.left) \cup class.same \cup {class.rep}) = {}
  BY <1>3 DEF Outside, InClassOf
<1>6. pc \in {"probe", "recover"} =>
        ToSet(loop.queue) \subseteq top /\ ToSet(loop.queue) \cap ToSet(loop.deferred) = {}
  BY <1>1 DEF Queue, Lined
<1>7. PartitionWellFormed
  BY <1>1, <1>2, <1>4, <1>5, <1>6 DEF PartitionWellFormed, Types, Steady
<1>8. Engine = EngineOf(job.formula)  BY <1>1, JobFormula
<1>9. pc \in {"probe", "recover"} =>
        /\ Backbone(job.formula) \ forced \subseteq top
        /\ cut \/ Backbone(job.formula) \ forced \subseteq ToSet(loop.queue) \cup ToSet(loop.deferred)
  BY <1>1 DEF Queue, Lined
<1>10. (seeded /\ MayGoOn /\ pc \notin {"emit", "done"}) =>
         \A c \in classes \cup {top} : \A l \in c, m \in Alive \ c :
           \E T \in Engine : Holds(l, T) # Holds(m, T)
  <2>1. Alive = AliveOf(top, classes, class)  BY DEF Alive, AliveOf
  <2>. QED  BY <1>1, <1>8, <2>1 DEF Comparable, Apart, Parted
<1>11. NothingLost  BY <1>9, <1>10 DEF NothingLost
<1>. QED  BY <1>7, <1>11 DEF PartitionHolds

\* Whatever models the solver answers with and wherever the clock stops it, the
\* classes stay a partition of unconfirmed literals, no backbone literal is lost
\* before it is asked for, and no pair that may be equal is parted
\* (observe_model, compact_candidates_against_model, refine_against_model).
THEOREM PartitionAlwaysHolds == Spec => []PartitionHolds
<1>1. Init => IInv  BY InitInv
<1>2. IInv /\ [Next]_vars => IInv'  BY NextInv
<1>. QED  BY <1>1, <1>2, InvHolds, PTL DEF Spec

-----------------------------------------------------------------------------
(***************************************************************************)
(* What is owed: literals alike in every model, and who has been joined.   *)
(***************************************************************************)
Alike(E, l, m) == \A T \in E : Holds(l, T) <=> Holds(m, T)

LEMMA AlikeIsUnparted ==
  ASSUME NEW E, NEW l, NEW m
  PROVE  Alike(E, l, m) <=> ~Parted(E, l, m)
<1>1. ASSUME NEW T PROVE (Holds(l, T) <=> Holds(m, T)) <=> ~(Holds(l, T) # Holds(m, T))
  <2>1. CASE l > 0 /\ m > 0  BY <2>1 DEF Holds
  <2>2. CASE l > 0 /\ ~(m > 0)  BY <2>2 DEF Holds
  <2>3. CASE ~(l > 0) /\ m > 0  BY <2>3 DEF Holds
  <2>4. CASE ~(l > 0) /\ ~(m > 0)  BY <2>4 DEF Holds
  <2>. QED  BY <2>1, <2>2, <2>3, <2>4
<1>. QED  BY <1>1 DEF Alike, Parted

LEMMA AlikeJoins ==
  ASSUME NEW E, NEW l, NEW m
  PROVE  /\ Alike(E, l, l)
         /\ Alike(E, l, m) => Alike(E, m, l)
         /\ \A n : Alike(E, l, m) /\ Alike(E, m, n) => Alike(E, l, n)
BY DEF Alike

LEMMA AlikeTurns ==
  ASSUME NEW E, NEW l \in Lits, NEW m \in Lits, Alike(E, l, m)
  PROVE  Alike(E, -l, -m)
<1>1. \A T : (Holds(-l, T) <=> ~Holds(l, T)) /\ (Holds(-m, T) <=> ~Holds(m, T))  BY Literals
<1>. QED  BY <1>1 DEF Alike

\* No literal is its own opposite while there is a model.
LEMMA NotOpposite ==
  ASSUME NEW E, NEW T \in E, NEW l \in Lits, NEW m \in Lits, Alike(E, l, m), VarOf(l) = VarOf(m)
  PROVE  l = m
<1>1. m = l \/ m = -l  BY SameVariable
<1>2. m # -l  BY Literals DEF Alike
<1>. QED  BY <1>1, <1>2

LEMMA SameJoins ==
  ASSUME NEW S, NEW S2, S \subseteq S2, NEW l \in Lits, NEW m \in Lits
  PROVE  /\ Same(S, l, l)
         /\ Same(S, l, m) => Same(S, m, l) /\ Same(S2, l, m) /\ Same(S, -l, -m)
<1>1. Same(S, l, l)  BY DEF Same
<1>2. ASSUME Same(S, l, m) PROVE Same(S, m, l) /\ Same(S2, l, m)
  <2>1. CASE l = m  BY <2>1 DEF Same
  <2>2. CASE l # m
    <3>1. PICK r \in Lits : \A x \in {l, m} : x = r \/ <<r, x>> \in S \/ <<-r, -x>> \in S
      BY <1>2, <2>2 DEF Same
    <3>2. \A x \in {m, l} : x = r \/ <<r, x>> \in S \/ <<-r, -x>> \in S  BY <3>1
    <3>3. \A x \in {l, m} : x = r \/ <<r, x>> \in S2 \/ <<-r, -x>> \in S2  BY <3>1
    <3>. QED  BY <3>2, <3>3 DEF Same
  <2>. QED  BY <2>1, <2>2
<1>3. ASSUME Same(S, l, m) PROVE Same(S, -l, -m)
  <2>1. CASE l = m  BY <2>1 DEF Same
  <2>2. CASE l # m
    <3>1. PICK r \in Lits : \A x \in {l, m} : x = r \/ <<r, x>> \in S \/ <<-r, -x>> \in S
      BY <1>3, <2>2 DEF Same
    <3>2. -r \in Lits /\ -(-r) = r /\ -(-l) = l /\ -(-m) = m  BY Literals
    <3>3. \A x \in {-l, -m} : x = -r \/ <<-r, x>> \in S \/ <<-(-r), -x>> \in S
      <4>1. -l = -r \/ <<-r, -l>> \in S \/ <<r, l>> \in S  BY <3>1
      <4>2. -m = -r \/ <<-r, -m>> \in S \/ <<r, m>> \in S  BY <3>1
      <4>. QED  BY <3>2, <4>1, <4>2
    <3>. QED  BY <3>2, <3>3 DEF Same
  <2>. QED  BY <2>1, <2>2
<1>. QED  BY <1>1, <1>2, <1>3

\* The literals of F an answer is owed for: neither confirmed nor substituted away.
LiveLits(F, rep, B) ==
  {l \in Lits : VarOf(l) \in Appearing(F) /\ rep[VarOf(l)] = VarOf(l) /\ {l, -l} \cap B = {}}

Closed(L) == L \subseteq Lits /\ \A l \in L : -l \in L

LEMMA LiveClosed ==
  ASSUME NEW F, NEW rep, NEW B
  PROVE  Closed(LiveLits(F, rep, B))
<1>1. \A l \in Lits : -l \in Lits /\ VarOf(-l) = VarOf(l) /\ -(-l) = l  BY Literals
<1>. QED  BY <1>1 DEF Closed, LiveLits

\* x has been joined with every literal alike, through the pairs of S.
Settled(E, L, S, x) == \A m \in L : Alike(E, x, m) => Same(S, x, m)

\* Every literal of L is a candidate, in one sign, or settled.
Covered(E, L, mem, S) == \A x \in L : x \in mem \/ -x \in mem \/ Settled(E, L, S, x)
Anchored(E, mem) == \E T \in E : \A l \in mem : Holds(l, T)

LEMMA SettledTurns ==
  ASSUME NEW E, NEW L, Closed(L), NEW S, NEW x \in L, Settled(E, L, S, x)
  PROVE  Settled(E, L, S, -x)
<1>1. ASSUME NEW m \in L, Alike(E, -x, m) PROVE Same(S, -x, m)
  <2>1. x \in Lits /\ m \in Lits /\ -m \in L /\ -m \in Lits /\ -x \in Lits  BY DEF Closed
  <2>2. -(-x) = x /\ -(-m) = m  BY <2>1, Literals
  <2>3. Alike(E, x, -m)  BY <1>1, <2>1, <2>2, AlikeTurns
  <2>4. Same(S, x, -m)  BY <2>1, <2>3 DEF Settled
  <2>. QED  BY <2>1, <2>2, <2>4, SameJoins
<1>. QED  BY <1>1 DEF Settled

\* Candidates leave and pairs are added: as long as who leaves is settled with
\* every candidate, all stay covered.
LEMMA CoverShrinks ==
  ASSUME NEW E, NEW L, Closed(L), NEW mem, NEW S, Covered(E, L, mem, S), Anchored(E, mem), mem \subseteq Lits,
         NEW L2, Closed(L2), L2 \subseteq L, NEW mem2, NEW S2, S \subseteq S2,
         \A x \in mem \cap L2 : x \notin mem2 => \A m \in mem : Alike(E, x, m) => Same(S2, x, m)
  PROVE  Covered(E, L2, mem2, S2)
<1>1. ASSUME NEW y \in mem \cap L2, y \notin mem2
      PROVE  Settled(E, L2, S2, y)
  <2>1. ASSUME NEW m \in L2, Alike(E, y, m) PROVE Same(S2, y, m)
    <3>1. y \in Lits /\ m \in Lits /\ m \in L /\ y \in L  BY DEF Closed
    <3>2. CASE m \in mem  BY <1>1, <2>1, <3>2
    <3>3. -m \notin mem
      <4>1. PICK T \in E : \A l \in mem : Holds(l, T)  BY DEF Anchored
      <4>2. Holds(y, T) /\ Holds(m, T)  BY <2>1, <4>1 DEF Alike
      <4>3. ~Holds(-m, T)  BY <3>1, <4>2, Literals
      <4>. QED  BY <4>1, <4>3
    <3>4. CASE Settled(E, L, S, m)
      <4>1. Alike(E, m, y)  BY <2>1, AlikeJoins
      <4>2. Same(S, m, y)  BY <3>1, <3>4, <4>1 DEF Settled
      <4>. QED  BY <3>1, <4>2, SameJoins
    <3>. QED  BY <3>1, <3>2, <3>3, <3>4 DEF Covered
  <2>. QED  BY <2>1 DEF Settled
<1>2. ASSUME NEW x \in L2, Settled(E, L, S, x) PROVE Settled(E, L2, S2, x)
  <2>1. \A m \in L2 : m \in L /\ m \in Lits /\ x \in Lits  BY DEF Closed
  <2>. QED  BY <1>2, <2>1, SameJoins DEF Settled
<1>3. ASSUME NEW x \in L2 PROVE x \in mem2 \/ -x \in mem2 \/ Settled(E, L2, S2, x)
  <2>1. x \in L /\ x \in Lits /\ -x \in L2 /\ -(-x) = x  BY Literals DEF Closed
  <2>2. CASE x \in mem  BY <1>1, <2>2
  <2>3. CASE -x \in mem
    <3>1. -x \in mem2 \/ Settled(E, L2, S2, -x)  BY <1>1, <2>1, <2>3
    <3>2. Settled(E, L2, S2, -x) => Settled(E, L2, S2, -(-x))  BY <2>1, SettledTurns
    <3>. QED  BY <2>1, <3>1, <3>2
  <2>4. CASE Settled(E, L, S, x)  BY <1>2, <2>4
  <2>. QED  BY <2>1, <2>2, <2>3, <2>4 DEF Covered
<1>. QED  BY <1>3 DEF Covered

-----------------------------------------------------------------------------
(***************************************************************************)
(* Who leaves the partition is alike to nobody in it.                      *)
(***************************************************************************)
LEMMA AlikeStays ==
  ASSUME NEW E, NEW t, NEW S, NEW k, Apart(E, t, S, k), NEW c \in S \cup {t}, NEW x \in c,
         NEW m \in AliveOf(t, S, k), Alike(E, x, m)
  PROVE  m \in c
BY AlikeIsUnparted DEF Apart

LEMMA NotWorthKeeping ==
  ASSUME NEW S, NEW h \in S, h \subseteq Lits, NEW x \in h, NEW m \in h, x \notin UNION WorthKeeping(S)
  PROVE  m = x
<1>. SUFFICES ASSUME m # x PROVE FALSE  OBVIOUS
<1>1. ~(Cardinality(h) >= 2)  BY DEF WorthKeeping
<1>2. IsFiniteSet(h)  BY FiniteLits, FS_Subset
<1>3. {x, m} \in SUBSET h  OBVIOUS
<1>4. Cardinality({x, m}) <= Cardinality(h)  BY <1>2, <1>3, FS_Subset
<1>5. Cardinality({x}) = 1 /\ IsFiniteSet({x})  BY FS_Singleton
<1>6. Cardinality({x} \cup {m}) = 2
  <2>1. m \notin {x}  OBVIOUS
  <2>2. Cardinality({x} \cup {m}) = Cardinality({x}) + 1  BY <1>5, <2>1, FS_AddElement
  <2>3. Cardinality({x} \cup {m}) = 1 + 1  BY <1>5, <2>2, Zenon
  <2>. QED  BY <2>3, 1 + 1 = 2
<1>7. {x, m} = {x} \cup {m}  OBVIOUS
<1>8. Cardinality(h) \in Nat  BY <1>2, FS_CardinalityType
<1>. QED  BY <1>1, <1>4, <1>6, <1>7, <1>8

\* A half of c holds with x whoever of c is alike.
LEMMA AlikeInHalf ==
  ASSUME NEW E, NEW T \in E, NEW M, NEW c, NEW h, Half(h, c, M), NEW x \in h, NEW m \in c, Alike(E, x, m),
         \A l \in c : Holds(l, M) <=> Holds(l, T)
  PROVE  m \in h
<1>1. x \in c  BY DEF Half
<1>2. Holds(x, T) <=> Holds(m, T)  BY DEF Alike
<1>. QED  BY <1>1, <1>2 DEF Half

LEMMA ObservedLeave ==
  ASSUME NEW E, NEW t, NEW S, NEW T \in E, NEW M, Apart(E, t, S, NoClass),
         (UNION S) \cup t \subseteq Lits,
         \A l \in (UNION S) \cup t : Holds(l, M) <=> Holds(l, T),
         NEW x \in (UNION S) \cup t, x \notin (UNION Refined(S, t, M)) \cup TrueIn(t, M),
         NEW m \in (UNION S) \cup t, Alike(E, x, m)
  PROVE  m = x
<1>. DEFINE parts == {TrueIn(c, M) : c \in S} \cup {c \ TrueIn(c, M) : c \in S} \cup {t \ TrueIn(t, M)}
<1>1. Refined(S, t, M) = WorthKeeping(parts)  BY DEF Refined
<1>2. m \in AliveOf(t, S, NoClass)  BY NoClassMembers
<1>3. PICK c \in S \cup {t} : x \in c  OBVIOUS
<1>4. m \in c  BY <1>2, <1>3, AlikeStays
<1>5. \E h \in parts : x \in h /\ Half(h, c, M)
  <2>1. Half(TrueIn(c, M), c, M) /\ Half(c \ TrueIn(c, M), c, M)  BY Halves
  <2>2. CASE c \in S
    <3>1. TrueIn(c, M) \in parts /\ c \ TrueIn(c, M) \in parts  BY <2>2
    <3>. QED  BY <1>3, <2>1, <3>1
  <2>3. CASE c = t
    <3>1. x \in t \ TrueIn(t, M) /\ t \ TrueIn(t, M) \in parts  BY <1>3, <2>3
    <3>. QED  BY <2>1, <2>3, <3>1
  <2>. QED  BY <2>2, <2>3
<1>6. PICK h \in parts : x \in h /\ Half(h, c, M)  BY <1>5
<1>. HIDE DEF parts
<1>7. c \subseteq (UNION S) \cup t  OBVIOUS
<1>8. m \in h  BY <1>4, <1>6, <1>7, AlikeInHalf
<1>9. h \subseteq Lits  BY <1>6, <1>7 DEF Half
<1>. QED  BY <1>1, <1>6, <1>8, <1>9, NotWorthKeeping

\* What is in hand before any candidate was passed over.
LEMMA HandAtOne ==
  ASSUME NEW k, Proper(k), k.at = 1
  PROVE  ToSet(After(k)) = ToSet(k.left)
<1>. DEFINE p == SubSeq(k.left, 1, k.at - 1)
<1>1. Len(p) = 0 /\ ToSet(k.left) = ToSet(p) \cup ToSet(After(k)) /\ p \in Seq(Lits)
  BY ClassCut DEF Cut
<1>. HIDE DEF p
<1>2. ToSet(p) = {}  BY <1>1 DEF ToSet
<1>. QED  BY <1>1, <1>2

\* Nobody of another class is alike to one in hand.
LEMMA HandApart ==
  ASSUME NEW E, NEW S, NEW B, NEW k, Proper(k), k.rep \in Lits, k.at = 1, Shape({}, S, k, B), Apart(E, {}, S, k),
         \A m \in k.same : Alike(E, k.rep, m),
         NEW c \in S, NEW x \in c, NEW m \in InClassOf(k)
  PROVE  ~Alike(E, x, m) /\ ~Alike(E, m, x)
<1>1. c \cap InClassOf(k) = {}  BY DEF Shape, Outside
<1>2. k.rep # 0  BY Literals
<1>3. k.rep \in AliveOf({}, S, k) /\ ToSet(k.left) \subseteq AliveOf({}, S, k)
  BY <1>2, HandAtOne DEF AliveOf, After
<1>4. c \in S \cup {{}}  OBVIOUS
<1>5. \A n \in ToSet(k.left) \cup {k.rep} : ~Alike(E, x, n)
  <2>1. ASSUME NEW n \in ToSet(k.left) \cup {k.rep}, Alike(E, x, n) PROVE FALSE
    <3>1. n \in c  BY <1>3, <1>4, <2>1, AlikeStays
    <3>. QED  BY <1>1, <2>1, <3>1 DEF InClassOf
  <2>. QED  BY <2>1
<1>6. ~Alike(E, x, m)
  <2>1. CASE m \in k.same
    <3>1. Alike(E, m, k.rep)  BY <2>1, AlikeJoins
    <3>. QED  BY <1>5, <3>1, AlikeJoins
  <2>. QED  BY <1>5, <2>1 DEF InClassOf
<1>. QED  BY <1>6, AlikeJoins

MemAll(S, k) == (UNION S) \cup InClassOf(k)

LEMMA SplitLeave ==
  ASSUME NEW E, NEW S, NEW B, NEW k, Proper(k), k.rep \in Lits, k.at = 1, Shape({}, S, k, B), Apart(E, {}, S, k),
         \A n \in k.same : Alike(E, k.rep, n),
         NEW T \in E, NEW M, NEW b \in BOOLEAN,
         \A l \in (UNION S) \cup ToSet(After(k)) : Holds(l, M) <=> Holds(l, T), Holds(k.rep, T) <=> b,
         NEW x \in MemAll(S, k), x \notin MemAll(SplitParts(S, k, M, b), SplitRest(k, M, b)),
         NEW m \in MemAll(S, k), Alike(E, x, m)
  PROVE  m = x
<1>. DEFINE k2 == SplitRest(k, M, b)
            gone == Parting(k, M, b)
            parts == Refined(S, {}, M) \cup {gone}
            first == {TrueIn(c, M) : c \in S} \cup {c \ TrueIn(c, M) : c \in S} \cup {{} \ TrueIn({}, M)}
<1>1. /\ k2.rep = k.rep /\ k2.same = k.same /\ ToSet(k2.left) = ToSet(k.left) \ gone
      /\ ToSet(After(k)) = ToSet(k.left)
  BY SplitKeeps, HandAtOne
<1>2. SplitParts(S, k, M, b) = WorthKeeping(parts) /\ Refined(S, {}, M) = WorthKeeping(first)
  BY DEF SplitParts, Refined
<1>3. MemOf({}, S, k) \subseteq Lits  BY DEF Shape, Steady
<1>4. gone \subseteq ToSet(k.left) /\ \A l \in ToSet(k.left) : l \in gone <=> ~(Holds(l, M) <=> b)
  <2>1. CASE b  BY <1>1, <2>1 DEF Parting, Agree, Agreeing, TrueIn
  <2>2. CASE ~b  BY <1>1, <2>2 DEF Parting, Agree, Agreeing, TrueIn
  <2>. QED  BY <2>1, <2>2
<1>. HIDE DEF gone, k2
<1>5. CASE x \in UNION S
  <2>1. PICK c \in S : x \in c  BY <1>5
  <2>2. m \notin InClassOf(k)
    <3>1. m \in InClassOf(k) => ~Alike(E, x, m)  BY <2>1, HandApart
    <3>. QED  BY <3>1
  <2>3. m \in AliveOf({}, S, k) /\ c \in S \cup {{}}  BY <2>2 DEF MemAll, AliveOf
  <2>4. m \in c  BY <2>1, <2>3, AlikeStays
  <2>5. \E h \in first : x \in h /\ Half(h, c, M)
    <3>1. Half(TrueIn(c, M), c, M) /\ Half(c \ TrueIn(c, M), c, M)  BY Halves
    <3>2. TrueIn(c, M) \in first /\ c \ TrueIn(c, M) \in first  OBVIOUS
    <3>. QED  BY <2>1, <3>1, <3>2
  <2>6. PICK h \in first : x \in h /\ Half(h, c, M)  BY <2>5
  <2>. HIDE DEF first
  <2>7. c \subseteq (UNION S) \cup ToSet(After(k))  OBVIOUS
  <2>8. m \in h  BY <2>4, <2>6, <2>7, AlikeInHalf
  <2>9. h \subseteq Lits  BY <1>3, <2>6 DEF Half, MemOf
  <2>10. x \notin UNION WorthKeeping(first)
    <3>1. ASSUME NEW g \in WorthKeeping(first), x \in g PROVE FALSE
      <4>1. g \in parts /\ Cardinality(g) >= 2  BY <1>2, <3>1 DEF WorthKeeping
      <4>2. g \in WorthKeeping(parts)  BY <4>1 DEF WorthKeeping
      <4>. QED  BY <1>2, <3>1, <4>2 DEF MemAll
    <3>. QED  BY <3>1
  <2>. QED  BY <2>6, <2>8, <2>9, <2>10, NotWorthKeeping
<1>6. CASE x \in gone
  <2>1. x \in ToSet(k.left) /\ x \in InClassOf(k) /\ ~(Holds(x, T) <=> Holds(k.rep, T))
    BY <1>1, <1>4, <1>6 DEF InClassOf
  <2>2. ~Alike(E, x, k.rep)  BY <2>1 DEF Alike
  <2>3. m \notin k.same /\ m # k.rep
    <3>1. ASSUME m \in k.same PROVE FALSE
      <4>1. Alike(E, m, k.rep)  BY <3>1, AlikeJoins
      <4>. QED  BY <2>2, <4>1, AlikeJoins
    <3>. QED  BY <2>2, <3>1
  <2>4. m \notin UNION S
    <3>1. ASSUME NEW c \in S, m \in c PROVE FALSE
      <4>1. ~Alike(E, x, m)  BY <2>1, <3>1, HandApart
      <4>. QED  BY <4>1
    <3>. QED  BY <3>1
  <2>5. m \in ToSet(k.left)  BY <2>3, <2>4 DEF MemAll, InClassOf
  <2>6. Holds(m, T) <=> Holds(x, T)  BY DEF Alike
  <2>7. m \in gone  BY <1>1, <1>4, <2>1, <2>5, <2>6
  <2>8. gone \in parts /\ gone \subseteq Lits  BY <1>3, <1>4 DEF MemOf
  <2>9. x \notin UNION WorthKeeping(parts)  BY <1>2 DEF MemAll
  <2>. HIDE DEF parts
  <2>. QED  BY <1>6, <2>7, <2>8, <2>9, NotWorthKeeping
<1>7. CASE x \in InClassOf(k) /\ x \notin gone
  <2>1. x \in InClassOf(k2)  BY <1>1, <1>7 DEF InClassOf
  <2>. QED  BY <2>1 DEF MemAll, k2
<1>. QED  BY <1>5, <1>6, <1>7 DEF MemAll

\* A class dropped for being small.
LEMMA SmallLeave ==
  ASSUME NEW E, NEW S, UNION S \subseteq Lits, NEW k, Apart(E, {}, S, k),
         NEW x \in UNION S, x \notin UNION WorthKeeping(S), NEW m \in AliveOf({}, S, k), Alike(E, x, m)
  PROVE  m = x
<1>1. PICK c \in S : x \in c  OBVIOUS
<1>2. c \in S \cup {{}}  OBVIOUS
<1>3. m \in c  BY <1>1, <1>2, AlikeStays
<1>4. c \subseteq Lits  OBVIOUS
<1>. QED  BY <1>1, <1>3, <1>4, NotWorthKeeping

\* The class is done, and nobody was passed over: who leaves is alike to the
\* others that have been joined and to nobody else.
LEMMA ReturnLeave ==
  ASSUME NEW E, NEW S, NEW B, NEW k, Proper(k), k.rep \in Lits, k.at = 1, Len(k.left) = 0,
         Shape({}, S, k, B), Apart(E, {}, S, k),
         \A n \in k.same : Alike(E, k.rep, n),
         NEW x \in MemAll(S, k), x \notin UNION WorthKeeping(S \cup {ToSet(k.left)}),
         NEW m \in MemAll(S, k), Alike(E, x, m)
  PROVE  m = x \/ {x, m} \subseteq k.same \cup {k.rep}
<1>1. ToSet(k.left) = {}  BY DEF ToSet
<1>2. InClassOf(k) = k.same \cup {k.rep}  BY <1>1 DEF InClassOf
<1>3. UNION S \subseteq Lits  BY DEF Shape, Steady, MemOf
<1>4. CASE x \in UNION S
  <2>1. m \notin InClassOf(k)
    <3>1. PICK c \in S : x \in c  BY <1>4
    <3>2. m \in InClassOf(k) => ~Alike(E, x, m)  BY <3>1, HandApart
    <3>. QED  BY <3>2
  <2>2. m \in AliveOf({}, S, k)  BY <2>1 DEF MemAll, AliveOf
  <2>3. x \notin UNION WorthKeeping(S)  BY DEF WorthKeeping
  <2>. QED  BY <1>3, <1>4, <2>2, <2>3, SmallLeave
<1>5. CASE x \in InClassOf(k)
  <2>1. m \notin UNION S
    <3>1. ASSUME NEW c \in S, m \in c PROVE FALSE
      <4>1. ~Alike(E, x, m)  BY <1>5, <3>1, HandApart
      <4>. QED  BY <4>1
    <3>. QED  BY <3>1
  <2>. QED  BY <1>2, <1>5, <2>1 DEF MemAll
<1>. QED  BY <1>4, <1>5 DEF MemAll

-----------------------------------------------------------------------------
(***************************************************************************)
(* Unit propagation: what the sweeps reach, and that pinning it changes no *)
(* model.                                                                  *)
(***************************************************************************)
Formulae == SUBSET (SUBSET Lits)
LastSweep == 2 * NumVars

Sweeps(L, C) ==
  /\ L \in [0 .. LastSweep -> SUBSET Lits]
  /\ L[0] = {} /\ L[LastSweep] = UnitClosure(C)
  /\ \A k \in 1 .. LastSweep : L[k] = Implied(C, L[k - 1])

LEMMA SweepTyped ==
  ASSUME NEW C \in Formulae, NEW L \in SUBSET Lits
  PROVE  Implied(C, L) \in SUBSET Lits /\ L \subseteq Implied(C, L)
BY DEF Implied, Formulae

LEMMA LastSweepIsNat == LastSweep \in Nat
BY NumVarsAssumption DEF LastSweep

\* Each sweep starts from what the one before reached.
LEMMA ClosureRuns ==
  ASSUME NEW C \in Formulae
  PROVE  \E L : Sweeps(L, C)
<1>. DEFINE n == LastSweep
            St == SUBSET Lits
            base == {}
            step == [p \in (1 .. n) \X St |-> Implied(C, p[2])]
            Turn(it, T) == IF T = {} THEN {} ELSE Implied(C, it[T \ {Max(T)}])
            iter == CHOOSE it : it = [T \in SUBSET (1 .. n) |-> Turn(it, T)]
<1>1. n \in Nat  BY LastSweepIsNat
<1>2. step \in [(1 .. n) \X St -> St]  BY SweepTyped
<1>3. base \in St  OBVIOUS
<1>4. UnitClosure(C) = iter[1 .. n]
  <2>1. DOMAIN [i \in 1 .. 2 * NumVars |-> i] = 1 .. n  BY DEF LastSweep
  <2>. QED  BY <2>1, Zenon DEF UnitClosure, FoldLeft, MapThenFoldSet
<1>. HIDE DEF n
<1>5. PICK g \in [SUBSET (1 .. n) -> St] : IsIteration(g, n, base, step)
  <2>. HIDE DEF step, base, St
  <2>. QED  BY <1>1, <1>2, <1>3, IterationExists
<1>6. \A T \in (SUBSET (1 .. n)) \ {{}} : Max(T) \in 1 .. n
  BY <1>1, MaxOfNumbers
<1>7. g = [T \in SUBSET (1 .. n) |-> Turn(g, T)]
  <2>1. \A T \in SUBSET (1 .. n) : T \ {Max(T)} \in SUBSET (1 .. n)  OBVIOUS
  <2>. QED  BY <1>5, <1>6, <2>1 DEF IsIteration
<1>8. iter = [T \in SUBSET (1 .. n) |-> Turn(iter, T)]
  <2>. HIDE DEF Turn
  <2>. QED  BY <1>7
<1>9. Iterates(iter, n, St, base, step)
  <2>. HIDE DEF iter
  <2>. QED  BY <1>6, <1>8 DEF Iterates
<1>. HIDE DEF iter
<1>10. GoesThrough(iter, n, St, step)
  <2>. HIDE DEF step, base, St
  <2>. QED  BY <1>1, <1>2, <1>3, <1>9, IterationRuns
<1>11. iter[1 .. 0] = {}
  <2>1. 1 .. 0 = {}  OBVIOUS
  <2>. QED  BY <1>9, <2>1 DEF Iterates
<1>12. \A k \in 1 .. n : iter[1 .. k] = Implied(C, iter[1 .. k - 1])
  <2>1. \A k \in 1 .. n, L \in St : step[<<k, L>>] = Implied(C, L)  OBVIOUS
  <2>2. \A k \in 1 .. n : k - 1 \in 0 .. n  BY <1>1
  <2>. HIDE DEF step, St
  <2>. QED  BY <1>10, <2>1, <2>2 DEF GoesThrough
<1>. DEFINE L == [k \in 0 .. n |-> iter[1 .. k]]
<1>13. L \in [0 .. n -> SUBSET Lits]
  <2>. HIDE DEF step
  <2>. QED  BY <1>10 DEF GoesThrough
<1>14. L[0] = {} /\ L[n] = UnitClosure(C) /\ \A k \in 1 .. n : L[k] = Implied(C, L[k - 1])
  <2>. HIDE DEF step
  <2>. QED  BY <1>1, <1>4, <1>11, <1>12
<1>. HIDE DEF L
<1>15. Sweeps(L, C)  BY <1>13, <1>14 DEF Sweeps, n
<1>. QED  BY <1>15

\* What propagation pins holds in every model.
LEMMA ClosureHolds ==
  ASSUME NEW C \in Formulae, NEW T, Satisfies(T, C)
  PROVE  UnitClosure(C) \in SUBSET Lits /\ \A l \in UnitClosure(C) : Holds(l, T)
<1>1. PICK L : Sweeps(L, C)  BY ClosureRuns
<1>. DEFINE Good == {k \in 0 .. LastSweep : \A l \in L[k] : Holds(l, T)}
<1>2. 0 \in Good  BY <1>1, LastSweepIsNat DEF Sweeps
<1>3. ASSUME NEW k \in 0 .. LastSweep - 1, k \in Good PROVE k + 1 \in Good
  <2>1. k + 1 \in 1 .. LastSweep /\ (k + 1) - 1 = k  BY LastSweepIsNat
  <2>2. L[k + 1] = Implied(C, L[k])  BY <1>1, <2>1 DEF Sweeps
  <2>3. ASSUME NEW l \in Implied(C, L[k]) PROVE Holds(l, T)
    <3>1. CASE l \in L[k]  BY <1>3, <3>1
    <3>2. CASE l \notin L[k]
      <4>1. PICK c \in C : l \in c /\ \A m \in c \ {l} : -m \in L[k]  BY <2>3, <3>2 DEF Implied
      <4>2. \A m \in c \ {l} : ~Holds(m, T)
        <5>1. \A m \in c : m \in Lits  BY DEF Formulae
        <5>. QED  BY <1>3, <4>1, <5>1, Literals
      <4>3. \E m \in c : Holds(m, T)  BY DEF Satisfies
      <4>. QED  BY <4>2, <4>3
    <3>. QED  BY <3>1, <3>2
  <2>4. k + 1 \in 0 .. LastSweep  BY <2>1, LastSweepIsNat
  <2>. QED  BY <2>2, <2>3, <2>4
<1>4. 0 .. LastSweep \subseteq Good
  <2>. HIDE DEF Good
  <2>. QED  BY <1>2, <1>3, BoundedInduction, LastSweepIsNat
<1>5. LastSweep \in Good /\ LastSweep \in 0 .. LastSweep  BY <1>4, LastSweepIsNat
<1>. QED  BY <1>1, <1>5 DEF Sweeps

LEMMA LitsCounted == IsFiniteSet(Lits) /\ Cardinality(Lits) <= LastSweep
<1>. DEFINE minus == {-v : v \in Vars}
<1>1. IsFiniteSet(Vars) /\ Cardinality(Vars) = NumVars
  BY FS_Interval, NumVarsAssumption DEF Vars
<1>2. IsFiniteSet(minus) /\ Cardinality(minus) <= Cardinality(Vars)
  <2>. DEFINE g == [v \in Vars |-> -v]
  <2>1. g \in Surjection(Vars, minus)
    <3>1. \A v \in Vars : -v \in minus  OBVIOUS
    <3>2. g \in [Vars -> minus] /\ \A w \in minus : \E v \in Vars : g[v] = w  BY <3>1
    <3>. HIDE DEF g, minus
    <3>. QED  BY <3>2 DEF Surjection
  <2>. HIDE DEF g, minus
  <2>. QED  BY <1>1, <2>1, FS_Surjection
<1>. HIDE DEF minus
<1>3. Lits = Vars \cup minus  BY DEF Lits, minus
<1>4. /\ IsFiniteSet(Vars \cup minus)
      /\ Cardinality(Vars \cup minus) = Cardinality(Vars) + Cardinality(minus) - Cardinality(Vars \cap minus)
  BY <1>1, <1>2, FS_Union
<1>5. Cardinality(minus) \in Nat /\ Cardinality(Vars \cap minus) \in Nat
  <2>1. IsFiniteSet(Vars \cap minus)  BY <1>1, FS_Intersection
  <2>. QED  BY <1>2, <2>1, FS_CardinalityType
<1>. QED  BY <1>1, <1>2, <1>3, <1>4, <1>5, NumVarsAssumption DEF LastSweep

\* After as many sweeps as there are literals, another adds none.
LEMMA ClosureStands ==
  ASSUME NEW C \in Formulae
  PROVE  UnitClosure(C) \in SUBSET Lits /\ Implied(C, UnitClosure(C)) = UnitClosure(C)
<1>1. PICK L : Sweeps(L, C)  BY ClosureRuns
<1>. DEFINE Good == {k \in 0 .. LastSweep : k <= Cardinality(L[k]) \/ Implied(C, L[k]) = L[k]}
<1>2. \A k \in 0 .. LastSweep : L[k] \in SUBSET Lits  BY <1>1 DEF Sweeps
<1>3. \A k \in 0 .. LastSweep : IsFiniteSet(L[k]) /\ Cardinality(L[k]) \in Nat
  BY <1>2, FiniteLits, FS_Subset, FS_CardinalityType
<1>4. 0 \in Good
  <2>1. 0 \in 0 .. LastSweep  BY LastSweepIsNat
  <2>2. 0 <= Cardinality(L[0])  BY <1>3, <2>1
  <2>. QED  BY <2>1, <2>2
<1>5. ASSUME NEW k \in 0 .. LastSweep - 1, k \in Good PROVE k + 1 \in Good
  <2>1. k + 1 \in 1 .. LastSweep /\ (k + 1) - 1 = k /\ k + 1 \in 0 .. LastSweep /\ k \in 0 .. LastSweep
        /\ k \in Nat
    BY LastSweepIsNat
  <2>2. L[k + 1] = Implied(C, L[k])  BY <1>1, <2>1 DEF Sweeps
  <2>3. CASE Implied(C, L[k]) = L[k]  BY <2>1, <2>2, <2>3
  <2>4. CASE Implied(C, L[k]) # L[k]
    <3>1. k <= Cardinality(L[k])  BY <1>5, <2>4
    <3>2. L[k] \subseteq L[k + 1] /\ L[k] # L[k + 1]  BY <1>2, <2>1, <2>2, <2>4, SweepTyped
    <3>3. Cardinality(L[k]) <= Cardinality(L[k + 1]) /\ Cardinality(L[k]) # Cardinality(L[k + 1])
      <4>1. IsFiniteSet(L[k + 1])  BY <1>3, <2>1
      <4>. QED  BY <3>2, <4>1, FS_Subset
    <3>4. Cardinality(L[k]) \in Nat /\ Cardinality(L[k + 1]) \in Nat  BY <1>3, <2>1
    <3>5. k + 1 <= Cardinality(L[k + 1])  BY <2>1, <3>1, <3>3, <3>4
    <3>. QED  BY <2>1, <3>5
  <2>. QED  BY <2>3, <2>4
<1>6. 0 .. LastSweep \subseteq Good
  <2>. HIDE DEF Good
  <2>. QED  BY <1>4, <1>5, BoundedInduction, LastSweepIsNat
<1>7. LastSweep \in Good /\ LastSweep \in 0 .. LastSweep  BY <1>6, LastSweepIsNat
<1>8. ASSUME LastSweep <= Cardinality(L[LastSweep]) PROVE Implied(C, L[LastSweep]) = L[LastSweep]
  <2>1. L[LastSweep] \in SUBSET Lits /\ Cardinality(L[LastSweep]) \in Nat  BY <1>2, <1>3, <1>7
  <2>2. Cardinality(L[LastSweep]) <= Cardinality(Lits) /\ Cardinality(Lits) \in Nat
    BY <2>1, FiniteLits, FS_Subset, FS_CardinalityType
  <2>3. Cardinality(L[LastSweep]) = Cardinality(Lits)
    BY <1>8, <2>1, <2>2, LitsCounted, LastSweepIsNat
  <2>4. L[LastSweep] = Lits  BY <2>1, <2>3, FiniteLits, FS_Subset
  <2>. QED  BY <2>4, SweepTyped
<1>. QED  BY <1>1, <1>2, <1>7, <1>8 DEF Sweeps

\* Propagated and pinned again, a formula has the models it had.
LEMMA RepinnedModels ==
  ASSUME NEW C \in Formulae, NEW T
  PROVE  Satisfies(T, C) <=> Satisfies(T, Repinned(C))
<1>. DEFINE L == UnitClosure(C)
            rest == {{l \in c : -l \notin L} : c \in {d \in C : d \cap L = {}}}
            bad == Refuted(C) \/ \E l \in L : -l \in L
<1>1. Propagated(C) = IF bad THEN Contradiction ELSE rest  BY DEF Propagated
<1>2. Repinned(C) = IF Propagated(C) = Contradiction THEN Contradiction ELSE Propagated(C) \cup Units(L)
  BY DEF Repinned
<1>3. ~Satisfies(T, Contradiction)  BY DEF Satisfies, Contradiction
<1>4. L \in SUBSET Lits  BY ClosureStands
<1>5. \A c \in C : c \in SUBSET Lits  BY DEF Formulae
<1>6. ASSUME Satisfies(T, C) PROVE Satisfies(T, Repinned(C))
  <2>1. \A l \in L : Holds(l, T)  BY <1>6, ClosureHolds
  <2>2. ~bad
    <3>1. ~Refuted(C)  BY <1>6 DEF Refuted, Satisfies
    <3>2. \A l \in L : -l \notin L  BY <1>4, <2>1, Literals
    <3>. QED  BY <3>1, <3>2
  <2>3. \A l \in Lits : -l \in L => ~Holds(l, T)  BY <2>1, Literals
  <2>. HIDE DEF L, bad
  <2>4. \A c \in rest : \E l \in c : Holds(l, T)
    <3>1. ASSUME NEW d \in C PROVE \E l \in {m \in d : -m \notin L} : Holds(l, T)
      <4>1. PICK l \in d : Holds(l, T)  BY <1>6 DEF Satisfies
      <4>2. -l \notin L  BY <1>5, <2>3, <4>1
      <4>. QED  BY <4>1, <4>2
    <3>. QED  BY <3>1
  <2>5. Satisfies(T, rest)  BY <2>4 DEF Satisfies
  <2>6. Satisfies(T, Units(L))  BY <2>1 DEF Satisfies, Units
  <2>. HIDE DEF rest
  <2>7. Repinned(C) = rest \cup Units(L)  BY <1>1, <1>2, <1>3, <2>2, <2>5
  <2>. QED  BY <2>5, <2>6, <2>7 DEF Satisfies
<1>7. ASSUME Satisfies(T, Repinned(C)) PROVE Satisfies(T, C)
  <2>1. Repinned(C) = rest \cup Units(L)
    <3>. HIDE DEF rest, L, bad
    <3>. QED  BY <1>1, <1>2, <1>3, <1>7
  <2>. HIDE DEF L
  <2>2. \A l \in L : Holds(l, T)
    <3>1. \A l \in L : {l} \in Repinned(C)  BY <2>1 DEF Units
    <3>. QED  BY <1>7, <3>1 DEF Satisfies
  <2>3. ASSUME NEW c \in C PROVE \E l \in c : Holds(l, T)
    <3>1. CASE c \cap L # {}  BY <2>2, <3>1
    <3>2. CASE c \cap L = {}
      <4>1. {l \in c : -l \notin L} \in Repinned(C)  BY <2>1, <3>2
      <4>2. \E l \in {l \in c : -l \notin L} : Holds(l, T)  BY <1>7, <4>1 DEF Satisfies
      <4>. QED  BY <4>2
    <3>. QED  BY <3>1, <3>2
  <2>. QED  BY <2>3 DEF Satisfies
<1>. QED  BY <1>6, <1>7

\* An empty clause is left only when everything is refuted.
LEMMA RepinnedRefuted ==
  ASSUME NEW C \in Formulae, Refuted(Repinned(C))
  PROVE  Repinned(C) = Contradiction
<1>. SUFFICES ASSUME Repinned(C) # Contradiction PROVE FALSE  OBVIOUS
<1>. DEFINE L == UnitClosure(C)
<1>1. /\ Propagated(C) # Contradiction
      /\ Repinned(C) = Propagated(C) \cup Units(L)
  BY DEF Repinned
<1>2. /\ ~Refuted(C)
      /\ Propagated(C) = {{l \in c : -l \notin L} : c \in {d \in C : d \cap L = {}}}
  BY <1>1 DEF Propagated
<1>3. {} \notin Units(L)  BY DEF Units
<1>4. {} \in Propagated(C)  BY <1>1, <1>3 DEF Refuted
<1>5. PICK c \in C : c \cap L = {} /\ {} = {l \in c : -l \notin L}  BY <1>2, <1>4
<1>6. PICK l \in c : TRUE  BY <1>2 DEF Refuted
<1>7. \A m \in c : -m \in L  BY <1>5
<1>8. l \in Implied(C, L)  BY <1>6, <1>7 DEF Implied
<1>9. l \in L  BY <1>8, ClosureStands
<1>. QED  BY <1>5, <1>6, <1>9

-----------------------------------------------------------------------------
(***************************************************************************)
(* The formula the equivalences are read from, and the pairs it is given.  *)
(***************************************************************************)

\* The formula with the confirmed backbone pinned and propagated (Inject).
Base(F, B) == IF B = {} THEN F ELSE Repinned(F \cup Units(B))

LEMMA UnitsJoin ==
  ASSUME NEW F \in SUBSET Clauses, NEW B \in SUBSET Lits
  PROVE  /\ F \cup Units(B) \in Formulae
         /\ \A T : Satisfies(T, F \cup Units(B)) <=> Satisfies(T, F) /\ \A l \in B : Holds(l, T)
<1>1. F \cup Units(B) \in Formulae  BY DEF Formulae, Units, Clauses
<1>2. ASSUME NEW T
      PROVE  Satisfies(T, F \cup Units(B)) <=> Satisfies(T, F) /\ \A l \in B : Holds(l, T)
  <2>1. Satisfies(T, F \cup Units(B)) <=> Satisfies(T, F) /\ Satisfies(T, Units(B))  BY DEF Satisfies
  <2>2. Satisfies(T, Units(B)) <=> \A l \in B : Holds(l, T)
    <3>1. \A c \in Units(B) : \E l \in B : c = {l}  BY DEF Units
    <3>2. \A l \in B : {l} \in Units(B)  BY DEF Units
    <3>3. ASSUME Satisfies(T, Units(B)), NEW l \in B PROVE Holds(l, T)
      <4>1. \E m \in {l} : Holds(m, T)  BY <3>2, <3>3 DEF Satisfies
      <4>. QED  BY <4>1
    <3>4. ASSUME \A l \in B : Holds(l, T) PROVE Satisfies(T, Units(B))  BY <3>1, <3>4 DEF Satisfies
    <3>. QED  BY <3>3, <3>4
  <2>. QED  BY <2>1, <2>2
<1>. QED  BY <1>1, <1>2

LEMMA BaseModels ==
  ASSUME NEW F \in SUBSET Clauses, NEW B \in SUBSET Backbone(F), NEW T \in SUBSET Vars
  PROVE  Satisfies(T, F) <=> Satisfies(T, Base(F, B))
<1>1. CASE B = {}  BY <1>1 DEF Base
<1>2. CASE B # {}
  <2>1. B \in SUBSET Lits  BY DEF Backbone
  <2>2. Satisfies(T, F) => \A l \in B : Holds(l, T)  BY DEF Backbone, Models
  <2>3. Satisfies(T, F) <=> Satisfies(T, F \cup Units(B))  BY <2>1, <2>2, UnitsJoin
  <2>4. Base(F, B) = Repinned(F \cup Units(B)) /\ F \cup Units(B) \in Formulae
    BY <1>2, <2>1, UnitsJoin DEF Base
  <2>5. Satisfies(T, F \cup Units(B)) <=> Satisfies(T, Repinned(F \cup Units(B)))
    BY <2>4, RepinnedModels
  <2>. QED  BY <2>3, <2>4, <2>5
<1>. QED  BY <1>1, <1>2

\* A refutation that the pinned units bring about is one of the formula.
LEMMA BaseRefuted ==
  ASSUME NEW F \in SUBSET Clauses, NEW B \in SUBSET Backbone(F), B # {}, Refuted(Base(F, B))
  PROVE  Base(F, B) = Contradiction /\ EngineOf(F) = {}
<1>1. B \in SUBSET Lits /\ Base(F, B) = Repinned(F \cup Units(B))  BY DEF Backbone, Base
<1>2. Base(F, B) = Contradiction  BY <1>1, UnitsJoin, RepinnedRefuted
<1>3. ASSUME NEW T \in EngineOf(F) PROVE FALSE
  <2>1. T \in SUBSET Vars /\ Satisfies(T, F)  BY EngineModels DEF EngineOf, Models
  <2>2. Satisfies(T, Contradiction)  BY <1>2, <2>1, BaseModels
  <2>. QED  BY <2>2 DEF Satisfies, Contradiction
<1>. QED  BY <1>2, <1>3

\* A literal only looks at its variable, and so does a formula at those it mentions.
LEMMA OnlyItsVariable ==
  ASSUME NEW l \in Lits, NEW T, NEW U, VarOf(l) \in T <=> VarOf(l) \in U
  PROVE  Holds(l, T) <=> Holds(l, U)
<1>1. CASE l > 0  BY <1>1 DEF Holds, VarOf
<1>2. CASE ~(l > 0)  BY <1>2 DEF Holds, VarOf
<1>. QED  BY <1>1, <1>2

LEMMA OnlyAppearing ==
  ASSUME NEW C \in Formulae, NEW T, NEW U, \A v \in Appearing(C) : v \in T <=> v \in U
  PROVE  Satisfies(T, C) <=> Satisfies(U, C)
<1>1. \A c \in C : \A l \in c : l \in Lits /\ VarOf(l) \in Appearing(C)  BY DEF Formulae, Appearing
<1>2. \A c \in C : \A l \in c : Holds(l, T) <=> Holds(l, U)  BY <1>1, OnlyItsVariable
<1>. QED  BY <1>2 DEF Satisfies

LEMMA BaseTyped ==
  ASSUME NEW F \in SUBSET Clauses, NEW B \in SUBSET Lits
  PROVE  Base(F, B) \in Formulae
<1>1. CASE B = {}  BY <1>1 DEF Base, Formulae, Clauses
<1>2. CASE B # {}
  <2>. DEFINE D == F \cup Units(B)
  <2>1. D \in Formulae /\ Base(F, B) = Repinned(D)  BY <1>2, UnitsJoin DEF Base
  <2>. HIDE DEF D
  <2>2. Propagated(D) \in Formulae
    <3>1. {{}} \in Formulae  BY DEF Formulae
    <3>2. {{l \in c : -l \notin UnitClosure(D)} : c \in {d \in D : d \cap UnitClosure(D) = {}}} \in Formulae
      BY <2>1 DEF Formulae
    <3>. QED  BY <3>1, <3>2 DEF Propagated, Contradiction
  <2>3. Units(UnitClosure(D)) \in Formulae
    <3>1. UnitClosure(D) \in SUBSET Lits  BY <2>1, ClosureStands
    <3>. QED  BY <3>1 DEF Units, Formulae
  <2>4. Contradiction \in Formulae  BY DEF Contradiction, Formulae
  <2>. QED  BY <2>1, <2>2, <2>3, <2>4 DEF Repinned, Formulae
<1>. QED  BY <1>1, <1>2

\* The variables of an equal pair have not gone: one that no clause mentions
\* takes both values.
LEMMA EqualStays ==
  ASSUME NEW F \in SUBSET Clauses, NEW B \in SUBSET Backbone(F), NEW T \in EngineOf(F),
         NEW l \in Lits, NEW m \in Lits, VarOf(l) # VarOf(m), VarOf(l) \in Appearing(F),
         Alike(EngineOf(F), l, m)
  PROVE  VarOf(l) \in Appearing(Base(F, B))
<1>. SUFFICES ASSUME VarOf(l) \notin Appearing(Base(F, B)) PROVE FALSE  OBVIOUS
<1>. DEFINE v == VarOf(l)
            U == IF v \in T THEN T \ {v} ELSE T \cup {v}
            C == Base(F, B)
<1>1. T \in SUBSET Appearing(F) /\ Appearing(F) \subseteq Vars /\ Satisfies(T, F)
  BY EngineModels DEF EngineOf, Models
<1>2. U \in SUBSET Appearing(F) /\ U \in SUBSET Vars /\ T \in SUBSET Vars  BY <1>1
<1>3. C \in Formulae  BY BaseTyped DEF Backbone
<1>4. \A w : w # v => (w \in T <=> w \in U)  OBVIOUS
<1>5. v \in T <=> v \notin U  OBVIOUS
<1>. HIDE DEF U, C
<1>6. \A w \in Appearing(C) : w \in T <=> w \in U  BY <1>4 DEF C
<1>7. Satisfies(T, C) <=> Satisfies(U, C)  BY <1>3, <1>6, OnlyAppearing
<1>8. Satisfies(U, F)  BY <1>1, <1>2, <1>7, BaseModels DEF C
<1>9. U \in EngineOf(F)  BY <1>2, <1>8 DEF EngineOf, Models
<1>10. Holds(m, T) <=> Holds(m, U)  BY <1>4, OnlyItsVariable
<1>11. Holds(l, T) <=> ~Holds(l, U)
  <2>1. CASE l > 0  BY <1>5, <2>1 DEF Holds, VarOf
  <2>2. CASE ~(l > 0)  BY <1>5, <2>2 DEF Holds, VarOf
  <2>. QED  BY <2>1, <2>2
<1>. QED  BY <1>9, <1>10, <1>11 DEF Alike

\* What the models that were loaded agree on, those over all variables do.
LEMMA AlikeEverywhere ==
  ASSUME NEW F \in SUBSET Clauses, NEW B \in SUBSET Backbone(F),
         NEW l \in Lits, NEW m \in Lits, VarOf(l) \in Appearing(F), VarOf(m) \in Appearing(F),
         Alike(EngineOf(F), l, m)
  PROVE  \A T \in Models(Base(F, B), Vars) : Holds(l, T) <=> Holds(m, T)
<1>. SUFFICES ASSUME NEW T \in Models(Base(F, B), Vars) PROVE Holds(l, T) <=> Holds(m, T)  OBVIOUS
<1>. DEFINE U == T \cap Appearing(F)
<1>1. T \in SUBSET Vars /\ Satisfies(T, F)  BY BaseModels DEF Models
<1>2. F \in Formulae  BY DEF Formulae, Clauses
<1>3. Satisfies(U, F)  BY <1>1, <1>2, OnlyAppearing
<1>4. U \in EngineOf(F)  BY <1>3 DEF EngineOf, Models
<1>5. Holds(l, T) <=> Holds(l, U)  BY OnlyItsVariable
<1>6. Holds(m, T) <=> Holds(m, U)  BY OnlyItsVariable
<1>. HIDE DEF U
<1>. QED  BY <1>4, <1>5, <1>6 DEF Alike

\* The pairs that stand: literals of the formula not substituted away, alike.
Standing(F, rep, S) ==
  \A p \in S : /\ \A i \in 1 .. 2 : VarOf(p[i]) \in Appearing(F) /\ rep[VarOf(p[i])] = VarOf(p[i])
               /\ Alike(EngineOf(F), p[1], p[2])

MappedBy(rep, S) ==
  {p \in {<<MapLit(rep, q[1]), MapLit(rep, q[2])>> : q \in S} : VarOf(p[1]) # VarOf(p[2])}

LEMMA MapLitStays ==
  ASSUME NEW rep \in [Vars -> Lits], NEW l \in Lits, rep[VarOf(l)] = VarOf(l)
  PROVE  MapLit(rep, l) = l
<1>1. CASE l > 0  BY <1>1 DEF MapLit, VarOf
<1>2. CASE ~(l > 0)
  <2>1. -(-l) = l  BY Literals
  <2>. QED  BY <1>2, <2>1 DEF MapLit, VarOf
<1>. QED  BY <1>1, <1>2

\* Two literals of different variables that are alike, in the order and with the
\* sign a pair of the formula is written in.
LEMMA PairIsEqual ==
  ASSUME NEW F \in SUBSET Clauses, NEW B \in SUBSET Backbone(F), NEW T0 \in EngineOf(F),
         NEW l \in Lits, NEW m \in Lits, 0 < l, VarOf(l) < VarOf(m),
         VarOf(l) \in Appearing(F), VarOf(m) \in Appearing(F), Alike(EngineOf(F), l, m),
         ExtractedMap(Base(F, B))[VarOf(l)] = VarOf(l), ExtractedMap(Base(F, B))[VarOf(m)] = VarOf(m)
  PROVE  <<l, m>> \in EqualPairs(Base(F, B))
<1>. DEFINE C == Base(F, B)
<1>1. VarOf(l) = l /\ VarOf(l) # VarOf(m)
  <2>1. VarOf(l) = l  BY DEF VarOf
  <2>2. l \in Int  BY Literals
  <2>. QED  BY <2>1, <2>2
<1>2. Alike(EngineOf(F), m, l)  BY AlikeJoins
<1>3. VarOf(l) \in Appearing(C) /\ VarOf(m) \in Appearing(C)  BY <1>1, <1>2, EqualStays
<1>4. \A T \in Models(C, Vars) : Holds(l, T) <=> Holds(m, T)  BY AlikeEverywhere
<1>. HIDE DEF C
<1>5. <<l, m>> \in Appearing(C) \X Lits  BY <1>1, <1>3
<1>. QED  BY <1>1, <1>3, <1>4, <1>5 DEF EqualPairs, C

Sorted(p) == CASE VarOf(p[1]) < VarOf(p[2]) -> p [] OTHER -> <<p[2], p[1]>>
Positive(p) == IF p[1] > 0 THEN p ELSE <<-p[1], -p[2]>>

LEMMA MappedAreEqual ==
  ASSUME NEW F \in SUBSET Clauses, NEW B \in SUBSET Backbone(F), NEW T0 \in EngineOf(F),
         NEW rep \in [Vars -> Lits], rep = ExtractedMap(Base(F, B)),
         NEW S \in SUBSET (Lits \X Lits), Standing(F, rep, S)
  PROVE  {Positive(Sorted(p)) : p \in MappedBy(rep, S)} \subseteq EqualPairs(Base(F, B))
<1>1. ASSUME NEW q \in S, VarOf(q[1]) # VarOf(q[2]), <<MapLit(rep, q[1]), MapLit(rep, q[2])>> = q
      PROVE  Positive(Sorted(q)) \in EqualPairs(Base(F, B))
  <2>1. q[1] \in Lits /\ q[2] \in Lits /\ q = <<q[1], q[2]>>  OBVIOUS
  <2>2. /\ VarOf(q[1]) \in Appearing(F) /\ rep[VarOf(q[1])] = VarOf(q[1])
        /\ VarOf(q[2]) \in Appearing(F) /\ rep[VarOf(q[2])] = VarOf(q[2])
        /\ Alike(EngineOf(F), q[1], q[2]) /\ Alike(EngineOf(F), q[2], q[1])
    <3>1. 1 \in 1 .. 2 /\ 2 \in 1 .. 2  OBVIOUS
    <3>2. Alike(EngineOf(F), q[1], q[2])  BY DEF Standing
    <3>. QED  BY <3>1, <3>2, AlikeJoins DEF Standing
  <2>3. ASSUME NEW a \in {q[1], q[2]}, NEW b \in {q[1], q[2]}, VarOf(a) < VarOf(b)
        PROVE  Positive(<<a, b>>) \in EqualPairs(Base(F, B))
    <3>1. /\ a \in Lits /\ b \in Lits /\ Alike(EngineOf(F), a, b)
          /\ VarOf(a) \in Appearing(F) /\ VarOf(b) \in Appearing(F)
          /\ rep[VarOf(a)] = VarOf(a) /\ rep[VarOf(b)] = VarOf(b)
      BY <2>1, <2>2, AlikeJoins
    <3>2. CASE a > 0
      <4>1. 0 < a  BY <3>2, <3>1, Literals
      <4>. QED  BY <2>3, <3>1, <3>2, <4>1, PairIsEqual DEF Positive
    <3>3. CASE ~(a > 0)
      <4>1. /\ -a \in Lits /\ -b \in Lits /\ VarOf(-a) = VarOf(a) /\ VarOf(-b) = VarOf(b)
        BY <3>1, Literals
      <4>2. 0 < -a
        <5>1. a \in Int /\ a # 0  BY <3>1, Literals
        <5>. QED  BY <3>3, <5>1
      <4>3. Alike(EngineOf(F), -a, -b)  BY <3>1, AlikeTurns
      <4>4. <<-a, -b>> \in EqualPairs(Base(F, B))  BY <2>3, <3>1, <4>1, <4>2, <4>3, PairIsEqual
      <4>. QED  BY <3>3, <4>4 DEF Positive
    <3>. QED  BY <3>2, <3>3
  <2>4. VarOf(q[1]) \in Int /\ VarOf(q[2]) \in Int
    BY <2>1, Literals, NumVarsAssumption DEF Vars
  <2>5. CASE VarOf(q[1]) < VarOf(q[2])  BY <2>1, <2>3, <2>5 DEF Sorted
  <2>6. CASE ~(VarOf(q[1]) < VarOf(q[2]))
    <3>1. VarOf(q[2]) < VarOf(q[1])  BY <1>1, <2>4, <2>6
    <3>2. Sorted(q) = <<q[2], q[1]>>  BY <2>6 DEF Sorted
    <3>. QED  BY <2>3, <3>1, <3>2
  <2>. QED  BY <2>5, <2>6
<1>2. \A q \in S : <<MapLit(rep, q[1]), MapLit(rep, q[2])>> = q
  <2>1. ASSUME NEW q \in S PROVE MapLit(rep, q[1]) = q[1] /\ MapLit(rep, q[2]) = q[2]
    <3>1. 1 \in 1 .. 2 /\ 2 \in 1 .. 2 /\ q[1] \in Lits /\ q[2] \in Lits  OBVIOUS
    <3>2. rep[VarOf(q[1])] = VarOf(q[1]) /\ rep[VarOf(q[2])] = VarOf(q[2])  BY <3>1 DEF Standing
    <3>. QED  BY <3>1, <3>2, MapLitStays
  <2>. QED  BY <2>1
<1>3. ASSUME NEW p \in MappedBy(rep, S) PROVE Positive(Sorted(p)) \in EqualPairs(Base(F, B))
  <2>1. PICK q \in S : p = <<MapLit(rep, q[1]), MapLit(rep, q[2])>> /\ VarOf(p[1]) # VarOf(p[2])
    BY DEF MappedBy
  <2>2. p = q  BY <1>2, <2>1
  <2>. QED  BY <1>1, <1>2, <2>1, <2>2
<1>. QED  BY <1>3

-----------------------------------------------------------------------------
(***************************************************************************)
(* The invariant behind the answers: what is known is sound, and what is   *)
(* owed is still a candidate.                                              *)
(***************************************************************************)
Present(F, rep, mem) == \A l \in mem : VarOf(l) \in Appearing(F) /\ rep[VarOf(l)] = VarOf(l)

SoundFor(F, rep, mem, k, B, S, given) ==
  /\ B \subseteq Backbone(F)
  /\ Standing(F, rep, S)
  /\ \A m \in k.same : Alike(EngineOf(F), k.rep, m)
  /\ Present(F, rep, mem)
  /\ given => Anchored(EngineOf(F), mem)

Owed(F, rep, mem, B, S) == Covered(EngineOf(F), LiveLits(F, rep, B), mem, S)

Mem == MemOf(top, classes, class)

Sound ==
  /\ SoundFor(job.formula, mapping, Mem, class, forced, equivs, seeded)
  /\ pc \in {"class", "pair", "emit"} => seeded /\ job.equiv

\* As long as no pair is given up, every live literal is a candidate or settled.
Waiting == seeded /\ unknowns = 0 /\ pc \notin {"emit", "done"} => Owed(job.formula, mapping, Mem, forced, equivs)

Answered ==
  seeded /\ unknowns = 0 /\ ~cut /\ (pc = "emit" \/ (pc = "done" /\ job.equiv /\ ~Refuted(f))) =>
    Owed(job.formula, mapping, {}, forced, equivs)

Pinned == seeded /\ ~cut /\ pc \notin {"seed", "probe", "recover"} => forced = Backbone(job.formula)

FormulaIs ==
  /\ pc \in {"seed", "probe", "recover", "inject", "tarjan"} => mapping = Identity /\ equivs = {}
  /\ pc \in {"seed", "probe", "recover", "inject"} => f = job.formula
  /\ pc = "tarjan" => f = Base(job.formula, forced)
  /\ pc = "equiv" => equivs = {}
  /\ pc \in {"equiv", "class", "pair", "emit"} =>
       /\ ~EquivContradiction(Base(job.formula, forced))
       /\ f = Extracted(Base(job.formula, forced)) /\ mapping = ExtractedMap(Base(job.formula, forced))

DInv == Sound /\ Waiting /\ Answered /\ Pinned /\ FormulaIs /\ StageAsPromised

LEMMA FewerSound ==
  ASSUME NEW F, NEW rep, NEW mem, NEW k, NEW B, NEW S, NEW given, SoundFor(F, rep, mem, k, B, S, given),
         NEW mem2 \in SUBSET mem, NEW k2, NEW B2 \in SUBSET Backbone(F),
         \A m \in k2.same : Alike(EngineOf(F), k2.rep, m)
  PROVE  SoundFor(F, rep, mem2, k2, B2, S, given)
BY DEF SoundFor, Present, Anchored

\* What leaves the candidates is no longer owed an answer, or alike to itself
\* and to those it has been joined with.
LEMMA OwedShrinks ==
  ASSUME NEW F, NEW rep, NEW mem, NEW B, NEW S, Owed(F, rep, mem, B, S),
         mem \subseteq Lits, Anchored(EngineOf(F), mem),
         NEW rep2, NEW B2, LiveLits(F, rep2, B2) \subseteq LiveLits(F, rep, B),
         NEW mem2, NEW S2, S \subseteq S2,
         \A x \in mem \cap LiveLits(F, rep2, B2) :
           x \notin mem2 => \A m \in mem : Alike(EngineOf(F), x, m) => Same(S2, x, m)
  PROVE  Owed(F, rep2, mem2, B2, S2)
<1>. DEFINE E == EngineOf(F)
            L == LiveLits(F, rep, B)
            L2 == LiveLits(F, rep2, B2)
<1>1. Closed(L) /\ Closed(L2)  BY LiveClosed
<1>2. Covered(E, L, mem, S)  BY DEF Owed
<1>. HIDE DEF E, L, L2
<1>3. Covered(E, L2, mem2, S2)  BY <1>1, <1>2, CoverShrinks DEF E, L, L2
<1>. QED  BY <1>3 DEF Owed, E, L2

LEMMA MembersAre ==
  ASSUME IInv
  PROVE  Mem \subseteq Lits \ forced /\ (class = NoClass => Mem = (UNION classes) \cup top)
<1>1. Shape(top, classes, class, forced)  BY DEF IInv, Partition
<1>2. Mem \subseteq Lits \ forced  BY <1>1 DEF Shape, Steady, Mem
<1>. QED  BY <1>2, NoClassMembers DEF Mem

LEMMA SameIsSame == ASSUME NEW S, NEW l PROVE Same(S, l, l)
BY DEF Same

-----------------------------------------------------------------------------
(***************************************************************************)
(* The steps of the backbone phase: what leaves is confirmed, or cut off   *)
(* alone.                                                                  *)
(***************************************************************************)
FlippedAt(T, l) == IF l > 0 THEN T \ {l} ELSE T \cup {-l}

LEMMA FlipsOneLiteral ==
  ASSUME NEW T, NEW l \in Lits, Holds(l, T), NEW m \in Lits
  PROVE  /\ ~Holds(l, FlippedAt(T, l))
         /\ VarOf(m) # VarOf(l) => (Holds(m, T) <=> Holds(m, FlippedAt(T, l)))
<1>1. ~Holds(l, FlippedAt(T, l))
  <2>1. CASE l > 0  BY <2>1 DEF Holds, FlippedAt
  <2>2. CASE ~(l > 0)  BY <2>2 DEF Holds, FlippedAt
  <2>. QED  BY <2>1, <2>2
<1>2. ASSUME VarOf(m) # VarOf(l) PROVE Holds(m, T) <=> Holds(m, FlippedAt(T, l))
  <2>1. VarOf(m) \in T <=> VarOf(m) \in FlippedAt(T, l)  BY <1>2 DEF FlippedAt, VarOf
  <2>. QED  BY <2>1, OnlyItsVariable
<1>. QED  BY <1>1, <1>2

\* A literal that can be flipped alone is alike to itself.
LEMMA FlippableAlone ==
  ASSUME NEW E, NEW T \in E, NEW l \in Lits, Holds(l, T), FlippedAt(T, l) \in E,
         NEW m \in Lits, Alike(E, l, m)
  PROVE  m = l
<1>1. ~Holds(l, FlippedAt(T, l)) /\ (VarOf(m) # VarOf(l) => (Holds(m, T) <=> Holds(m, FlippedAt(T, l))))
  BY FlipsOneLiteral
<1>2. VarOf(m) = VarOf(l)  BY <1>1 DEF Alike
<1>. QED  BY <1>2, NotOpposite

LEMMA SeedOwes ==
  ASSUME NEW F, NEW T \in EngineOf(F), NEW known \in SUBSET Backbone(F),
         NEW flips, \A l \in flips : l \in Lits /\ Holds(l, T) /\ FlippedAt(T, l) \in EngineOf(F),
         NEW mem, mem = TrueLiterals(F, T) \ (known \cup flips)
  PROVE  Owed(F, Identity, mem, known, {}) /\ SoundFor(F, Identity, mem, NoClass, known, {}, TRUE)
<1>. DEFINE E == EngineOf(F)
            L == LiveLits(F, Identity, known)
<1>1. Closed(L)  BY LiveClosed
<1>2. \A y \in TrueLiterals(F, T) : y \in Lits /\ Holds(y, T) /\ VarOf(y) \in Appearing(F)
  BY DEF TrueLiterals
<1>3. ASSUME NEW y \in L, Holds(y, T) PROVE y \in mem \/ Settled(E, L, {}, y)
  <2>1. y \in Lits /\ y \in TrueLiterals(F, T) /\ y \notin known  BY <1>3 DEF LiveLits, TrueLiterals
  <2>2. CASE y \in flips
    <3>1. ASSUME NEW m \in L, Alike(E, y, m) PROVE Same({}, y, m)
      <4>1. m \in Lits  BY <1>1 DEF Closed
      <4>2. m = y  BY <2>1, <2>2, <3>1, <4>1, FlippableAlone DEF E
      <4>. QED  BY <4>2, SameIsSame
    <3>. QED  BY <3>1 DEF Settled
  <2>. QED  BY <2>1, <2>2
<1>. HIDE DEF E, L
<1>4. ASSUME NEW x \in L PROVE x \in mem \/ -x \in mem \/ Settled(E, L, {}, x)
  <2>1. x \in Lits /\ -x \in L /\ -(-x) = x /\ (Holds(-x, T) <=> ~Holds(x, T))
    BY <1>1, Literals DEF Closed
  <2>2. CASE Holds(x, T)  BY <1>3, <2>2
  <2>3. CASE ~Holds(x, T)
    <3>1. -x \in mem \/ Settled(E, L, {}, -x)  BY <1>3, <2>1, <2>3
    <3>2. Settled(E, L, {}, -x) => Settled(E, L, {}, -(-x))  BY <1>1, <2>1, SettledTurns
    <3>. QED  BY <2>1, <3>1, <3>2
  <2>. QED  BY <2>2, <2>3
<1>5. Owed(F, Identity, mem, known, {})  BY <1>4 DEF Owed, Covered, E, L
<1>6. Present(F, Identity, mem)
  <2>1. \A l \in mem : VarOf(l) \in Vars  BY <1>2, Literals
  <2>. QED  BY <1>2, <2>1 DEF Present, Identity
<1>7. Anchored(EngineOf(F), mem)  BY <1>2 DEF Anchored
<1>8. Standing(F, Identity, {}) /\ \A m \in NoClass.same : FALSE  BY DEF Standing, NoClass
<1>9. SoundFor(F, Identity, mem, NoClass, known, {}, TRUE)  BY <1>6, <1>7, <1>8 DEF SoundFor
<1>. QED  BY <1>5, <1>9

LEMMA SeedSatOwes ==
  ASSUME IInv, DInv, SeedSat
  PROVE  Sound' /\ Waiting' /\ Answered'
<1>. DEFINE F == job.formula
<1>1. Types /\ Phases  BY DEF IInv
<1>2. F \in SUBSET Clauses /\ Engine = EngineOf(F)  BY <1>1, JobFormula
<1>3. /\ pc = "seed" /\ seeded' = TRUE /\ pc' = "probe"
      /\ UNCHANGED <<job, f, mapping, classes, equivs, class, unknowns, cut>>
  BY DEF SeedSat
<1>4. PICK T \in Engine : \E known \in SUBSET Backbone(F), flips \in SUBSET Flippable(T) :
        SeedsWith(T, known, TrueLiterals(F, T) \ (known \cup flips))
  BY DEF SeedSat, SeedsWith, TrueLiterals
<1>5. PICK known \in SUBSET Backbone(F), flips \in SUBSET Flippable(T) :
        SeedsWith(T, known, TrueLiterals(F, T) \ (known \cup flips))
  BY <1>4
<1>. DEFINE rest == TrueLiterals(F, T) \ (known \cup flips)
<1>6. top' = rest /\ forced' = known  BY <1>5 DEF SeedsWith
<1>7. \A l \in flips : l \in Lits /\ Holds(l, T) /\ FlippedAt(T, l) \in EngineOf(F)
  BY <1>2 DEF Flippable, FlippedAt
<1>8. T \in EngineOf(F)  BY <1>2, <1>4
<1>. HIDE DEF F
<1>9. Owed(F, Identity, rest, known, {}) /\ SoundFor(F, Identity, rest, NoClass, known, {}, TRUE)
  BY <1>7, <1>8, SeedOwes
<1>. HIDE DEF rest
<1>10. mapping = Identity /\ equivs = {} /\ classes = {} /\ class = NoClass
  BY <1>1, <1>3 DEF DInv, FormulaIs, Phases
<1>11. Mem' = rest
  <2>1. (UNION {}) \cup rest = rest  OBVIOUS
  <2>2. MemOf(rest, {}, NoClass) = rest  BY <2>1, NoClassMembers
  <2>3. Mem' = MemOf(rest, {}, NoClass)  BY <1>3, <1>6, <1>10 DEF Mem
  <2>. QED  BY <2>2, <2>3
<1>12. Sound'  BY <1>3, <1>6, <1>9, <1>10, <1>11 DEF Sound, F
<1>13. Waiting'  BY <1>3, <1>6, <1>9, <1>10, <1>11 DEF Waiting, F
<1>14. Answered'  BY <1>3 DEF Answered
<1>. QED  BY <1>12, <1>13, <1>14

\* A literal of the formula that holds in every model that was loaded.
LEMMA InBackboneOf ==
  ASSUME NEW F \in SUBSET Clauses, NEW l \in Lits, VarOf(l) \in Appearing(F),
         \A T \in EngineOf(F) : Holds(l, T)
  PROVE  l \in Backbone(F)
<1>1. ASSUME NEW T \in Models(F, Vars) PROVE Holds(l, T)
  <2>. DEFINE U == T \cap Appearing(F)
  <2>1. Satisfies(T, F) /\ F \in Formulae  BY DEF Models, Formulae, Clauses
  <2>2. Satisfies(U, F)  BY <2>1, OnlyAppearing
  <2>3. U \in EngineOf(F)  BY <2>2 DEF EngineOf, Models
  <2>4. Holds(l, T) <=> Holds(l, U)  BY OnlyItsVariable
  <2>. HIDE DEF U
  <2>. QED  BY <2>3, <2>4
<1>. QED  BY <1>1 DEF Backbone

\* A step of the backbone phase that confirms L.
LEMMA ConfirmOwes ==
  ASSUME IInv, DInv, class = NoClass, pc \notin {"emit", "done"}, NEW L \in SUBSET (top \cup forced),
         Confirm(L), AllTrue(L), pc' \in {"probe", "recover"},
         UNCHANGED <<job, f, mapping, seeded, equivs, class, unknowns>>
  PROVE  Sound' /\ Waiting' /\ Answered'
<1>. DEFINE F == job.formula
<1>1. Types  BY DEF IInv
<1>2. F \in SUBSET Clauses /\ Engine = EngineOf(F)  BY <1>1, JobFormula
<1>3. Mem = (UNION classes) \cup top /\ Mem \subseteq Lits \ forced  BY MembersAre
<1>4. top' = top \ L /\ forced' = forced \cup L /\ classes' = classes  BY DEF Confirm
<1>5. Mem' = (UNION classes) \cup (top \ L)
  <2>1. Mem' = MemOf(top \ L, classes, NoClass)  BY <1>4 DEF Mem
  <2>. QED  BY <2>1, NoClassMembers
<1>6. SoundFor(F, mapping, Mem, class, forced, equivs, seeded)  BY DEF DInv, Sound
<1>7. Mem' \subseteq Mem  BY <1>3, <1>5
<1>. HIDE DEF F
<1>8. forced \subseteq Backbone(F) /\ Present(F, mapping, Mem)  BY <1>6 DEF SoundFor
<1>9. forced' \subseteq Backbone(F)
  <2>1. ASSUME NEW l \in L, l \notin forced PROVE l \in Backbone(F)
    <3>1. l \in Mem /\ l \in Lits  BY <1>3, <2>1
    <3>2. VarOf(l) \in Appearing(F)  BY <1>8, <3>1 DEF Present
    <3>3. \A T \in EngineOf(F) : Holds(l, T)  BY <1>2 DEF AllTrue
    <3>. QED  BY <1>2, <3>1, <3>2, <3>3, InBackboneOf
  <2>. QED  BY <1>4, <1>8, <2>1
<1>10. \A m \in class.same : Alike(EngineOf(F), class.rep, m)  BY <1>6 DEF SoundFor
<1>11. SoundFor(F, mapping, Mem', class, forced', equivs, seeded)
  <2>. DEFINE mem2 == Mem'
              B2 == forced'
              mem == Mem
  <2>1. mem2 \in SUBSET mem /\ B2 \in SUBSET Backbone(F)  BY <1>7, <1>9
  <2>2. SoundFor(F, mapping, mem, class, forced, equivs, seeded)  BY <1>6
  <2>. HIDE DEF mem2, B2, mem
  <2>3. SoundFor(F, mapping, mem2, class, B2, equivs, seeded)  BY <1>10, <2>1, <2>2, FewerSound
  <2>. QED  BY <2>3 DEF mem2, B2
<1>12. Sound'  BY <1>11 DEF Sound, F
<1>13. ASSUME seeded, unknowns = 0 PROVE Owed(F, mapping, Mem', forced', equivs)
  <2>. DEFINE mem2 == Mem'
              B2 == forced'
              mem == Mem
  <2>1. Owed(F, mapping, mem, forced, equivs)  BY <1>13 DEF DInv, Waiting, F
  <2>2. mem \subseteq Lits /\ Anchored(EngineOf(F), mem)  BY <1>3, <1>6, <1>13 DEF SoundFor
  <2>3. LiveLits(F, mapping, B2) \subseteq LiveLits(F, mapping, forced)  BY <1>4 DEF LiveLits
  <2>4. \A x \in mem \cap LiveLits(F, mapping, B2) : x \in mem2  BY <1>3, <1>4, <1>5 DEF LiveLits
  <2>. HIDE DEF mem2, B2, mem
  <2>5. Owed(F, mapping, mem2, B2, equivs)  BY <2>1, <2>2, <2>3, <2>4, OwedShrinks
  <2>. QED  BY <2>5 DEF mem2, B2
<1>14. Waiting'  BY <1>13 DEF Waiting, F
<1>15. Answered'  BY DEF Answered
<1>. QED  BY <1>12, <1>14, <1>15

\* A step of the backbone phase that reads a counter-model.
LEMMA ObserveOwes ==
  ASSUME IInv, DInv, class = NoClass, pc \in {"probe", "recover"}, pc' \in {"probe", "recover"},
         NEW T \in Engine, Observe(T, {}),
         UNCHANGED <<job, f, mapping, seeded, forced, equivs, class, unknowns>>
  PROVE  Sound' /\ Waiting' /\ Answered'
<1>. DEFINE F == job.formula
            M == Reread(T, Held(classes, top, {}))
<1>1. Types /\ Comparable  BY DEF IInv
<1>2. F \in SUBSET Clauses /\ Engine = EngineOf(F)  BY <1>1, JobFormula
<1>3. Mem = (UNION classes) \cup top /\ Mem \subseteq Lits \ forced  BY MembersAre
<1>4. classes' = Refined(classes, top, M) /\ top' = TrueIn(top, M)  BY DEF Observe, TopHalf
<1>5. \A l \in (UNION classes) \cup top : Holds(l, M) <=> Holds(l, T)
  <2>1. ObservedAs(T, M)  BY Observed
  <2>. HIDE DEF M
  <2>. QED  BY <2>1 DEF ObservedAs
<1>. HIDE DEF M
<1>6. Mem' = (UNION Refined(classes, top, M)) \cup TrueIn(top, M)
  <2>1. Mem' = MemOf(TrueIn(top, M), Refined(classes, top, M), NoClass)  BY <1>4 DEF Mem
  <2>. QED  BY <2>1, NoClassMembers
<1>7. Mem' \subseteq Mem
  <2>1. Disjoint(top, classes)  BY DEF IInv, Partition, Shape
  <2>2. (UNION Refined(classes, top, M)) \cup TrueIn(top, M) \subseteq (UNION classes) \cup top
    BY <2>1, RefinedDisjoint
  <2>. QED  BY <1>3, <1>6, <2>2
<1>8. SoundFor(F, mapping, Mem, class, forced, equivs, seeded)  BY DEF DInv, Sound
<1>. HIDE DEF F
<1>9. SoundFor(F, mapping, Mem', class, forced, equivs, seeded)
  <2>. DEFINE mem2 == Mem'
              mem == Mem
  <2>1. mem2 \in SUBSET mem  BY <1>7
  <2>2. SoundFor(F, mapping, mem, class, forced, equivs, seeded)  BY <1>8
  <2>3. forced \in SUBSET Backbone(F) /\ \A m \in class.same : Alike(EngineOf(F), class.rep, m)
    BY <1>8 DEF SoundFor
  <2>. HIDE DEF mem2, mem
  <2>4. SoundFor(F, mapping, mem2, class, forced, equivs, seeded)  BY <2>1, <2>2, <2>3, FewerSound
  <2>. QED  BY <2>4 DEF mem2
<1>10. Sound'  BY <1>9 DEF Sound, F
<1>11. ASSUME seeded, unknowns = 0 PROVE Owed(F, mapping, Mem', forced, equivs)
  <2>. DEFINE mem2 == Mem'
              mem == Mem
              E == EngineOf(F)
  <2>1. Owed(F, mapping, mem, forced, equivs)  BY <1>11 DEF DInv, Waiting, F
  <2>2. mem \subseteq Lits /\ Anchored(E, mem)  BY <1>3, <1>8, <1>11 DEF SoundFor
  <2>3. Apart(E, top, classes, NoClass)
    <3>1. MayGoOn  BY <1>11, ProbeAssumption DEF MayGoOn
    <3>. QED  BY <1>1, <1>11, <3>1 DEF Comparable, F
  <2>4. T \in E /\ (UNION classes) \cup top \subseteq Lits  BY <1>2, <1>3
  <2>5. mem = (UNION classes) \cup top /\ mem2 = (UNION Refined(classes, top, M)) \cup TrueIn(top, M)
    BY <1>3, <1>6
  <2>. HIDE DEF mem2, mem, E
  <2>6. ASSUME NEW x \in mem, x \notin mem2, NEW m \in mem, Alike(E, x, m) PROVE Same(equivs, x, m)
    <3>1. m = x  BY <1>5, <2>3, <2>4, <2>5, <2>6, ObservedLeave
    <3>. QED  BY <3>1, SameIsSame
  <2>7. Owed(F, mapping, mem2, forced, equivs)  BY <2>1, <2>2, <2>6, OwedShrinks DEF E
  <2>. QED  BY <2>7 DEF mem2
<1>12. Waiting'  BY <1>11 DEF Waiting, F
<1>13. Answered'  BY DEF Answered
<1>. QED  BY <1>10, <1>12, <1>13

-----------------------------------------------------------------------------
(***************************************************************************)
(* The steps over the classes: what leaves is alike to nobody but those it *)
(* is paired with.                                                         *)
(***************************************************************************)

\* The candidates become fewer, and each that goes is done with.
LEMMA MembersLeave ==
  ASSUME IInv, DInv, pc \notin {"emit", "done"}, pc' \notin {"emit", "done"},
         UNCHANGED <<job, mapping, forced, seeded>>,
         pc' \in {"class", "pair"} => seeded /\ job.equiv,
         Mem' \subseteq Mem, equivs \subseteq equivs', Standing(job.formula, mapping, equivs'),
         \A m \in class'.same : Alike(EngineOf(job.formula), class'.rep, m),
         seeded /\ unknowns' = 0 =>
           /\ unknowns = 0
           /\ \A x \in Mem : x \notin Mem' =>
                \A m \in Mem : Alike(EngineOf(job.formula), x, m) => Same(equivs', x, m)
  PROVE  Sound' /\ Waiting' /\ Answered'
<1>. DEFINE F == job.formula
<1>1. SoundFor(F, mapping, Mem, class, forced, equivs, seeded)  BY DEF DInv, Sound
<1>2. Mem \subseteq Lits  BY MembersAre
<1>. HIDE DEF F
<1>3. SoundFor(F, mapping, Mem', class', forced, equivs', seeded)
  <2>. DEFINE mem2 == Mem'
              mem == Mem
              k2 == class'
              eq2 == equivs'
  <2>1. mem2 \in SUBSET mem /\ \A m \in k2.same : Alike(EngineOf(F), k2.rep, m)  BY DEF F
  <2>2. SoundFor(F, mapping, mem, class, forced, equivs, seeded)  BY <1>1
  <2>3. forced \in SUBSET Backbone(F) /\ Standing(F, mapping, eq2)  BY <1>1 DEF SoundFor, F
  <2>. HIDE DEF mem2, mem, k2, eq2
  <2>4. SoundFor(F, mapping, mem2, k2, forced, equivs, seeded)  BY <2>1, <2>2, <2>3, FewerSound
  <2>5. SoundFor(F, mapping, mem2, k2, forced, eq2, seeded)  BY <2>3, <2>4 DEF SoundFor
  <2>. QED  BY <2>5 DEF mem2, k2, eq2
<1>4. Sound'  BY <1>3 DEF Sound, F
<1>5. ASSUME seeded, unknowns' = 0 PROVE Owed(F, mapping, Mem', forced, equivs')
  <2>. DEFINE mem2 == Mem'
              mem == Mem
              eq2 == equivs'
  <2>1. Owed(F, mapping, mem, forced, equivs)  BY <1>5 DEF DInv, Waiting, F
  <2>2. mem \subseteq Lits /\ Anchored(EngineOf(F), mem)  BY <1>1, <1>2, <1>5 DEF SoundFor
  <2>3. equivs \subseteq eq2 /\
        \A x \in mem : x \notin mem2 => \A m \in mem : Alike(EngineOf(F), x, m) => Same(eq2, x, m)
    BY <1>5 DEF F
  <2>. HIDE DEF mem2, mem, eq2
  <2>4. Owed(F, mapping, mem2, forced, eq2)  BY <2>1, <2>2, <2>3, OwedShrinks
  <2>. QED  BY <2>4 DEF mem2, eq2
<1>6. Waiting'  BY <1>5 DEF Waiting, F
<1>7. Answered'  BY DEF Answered
<1>. QED  BY <1>4, <1>6, <1>7

LEMMA TarjanOwes ==
  ASSUME IInv, DInv, TarjanAgain
  PROVE  Sound' /\ Waiting' /\ Answered'
<1>. DEFINE F == job.formula
<1>1. Types /\ Phases /\ Partition  BY DEF IInv
<1>2. /\ pc = "tarjan" /\ f' = Extracted(f)
      /\ UNCHANGED <<job, seeded, model, loop, forced, equivs, class, unknowns, cut>>
  BY DEF TarjanAgain
<1>3. class = NoClass /\ mapping = Identity /\ equivs = {}  BY <1>1, <1>2 DEF Phases, DInv, FormulaIs
<1>4. SoundFor(F, mapping, Mem, class, forced, equivs, seeded)  BY DEF DInv, Sound
<1>5. Mem = (UNION classes) \cup top /\ Mem \subseteq Lits  BY <1>3, MembersAre
<1>6. CASE EquivContradiction(f) /\ pc' = "done" /\ UNCHANGED <<mapping, top, classes>>
  <2>1. Mem' = Mem  BY <1>2, <1>6 DEF Mem
  <2>2. Sound'  BY <1>2, <1>4, <1>6, <2>1 DEF Sound
  <2>3. Waiting'  BY <1>6 DEF Waiting
  <2>4. Refuted(f')  BY <1>2, <1>6 DEF Extracted, Refuted, Contradiction
  <2>5. Answered'  BY <1>6, <2>4 DEF Answered
  <2>. QED  BY <2>2, <2>3, <2>5
<1>7. CASE /\ mapping' = ExtractedMap(f) /\ top' = Ingested(top, mapping')
           /\ classes' = {Ingested(c, mapping') : c \in classes} /\ pc' = "equiv"
  <2>. DEFINE rep2 == mapping'
              mem2 == {l \in Mem : rep2[VarOf(l)] = VarOf(l)}
              t2 == Ingested(top, rep2)
              S2 == {Ingested(c, rep2) : c \in classes}
  <2>1. Mem' = mem2
    <3>1. (UNION S2) \cup t2 = {l \in (UNION classes) \cup top : rep2[VarOf(l)] = VarOf(l)}
      <4>. HIDE DEF rep2
      <4>. QED  BY DEF Ingested
    <3>2. Mem' = MemOf(t2, S2, NoClass)  BY <1>2, <1>3, <1>7 DEF Mem
    <3>. HIDE DEF t2, S2
    <3>. QED  BY <1>5, <3>1, <3>2, NoClassMembers
  <2>2. mem2 \subseteq Mem /\ \A l \in mem2 : rep2[VarOf(l)] = VarOf(l)  OBVIOUS
  <2>. HIDE DEF F
  <2>3. SoundFor(F, rep2, mem2, class, forced, {}, seeded)
    <3>1. Present(F, rep2, mem2)  BY <1>4 DEF SoundFor, Present
    <3>2. seeded => Anchored(EngineOf(F), mem2)  BY <1>4 DEF SoundFor, Anchored
    <3>3. Standing(F, rep2, {})  BY DEF Standing
    <3>. HIDE DEF mem2, rep2
    <3>. QED  BY <1>4, <3>1, <3>2, <3>3 DEF SoundFor
  <2>4. Sound'  BY <1>2, <1>3, <1>7, <2>1, <2>3 DEF Sound, F
  <2>5. ASSUME seeded, unknowns = 0 PROVE Owed(F, rep2, mem2, forced, {})
    <3>. DEFINE mem == Mem
    <3>1. Owed(F, mapping, mem, forced, {})  BY <1>2, <1>3, <2>5 DEF DInv, Waiting, F
    <3>2. mem \subseteq Lits /\ Anchored(EngineOf(F), mem)  BY <1>4, <1>5, <2>5 DEF SoundFor
    <3>3. LiveLits(F, rep2, forced) \subseteq LiveLits(F, mapping, forced)
      <4>1. \A l \in Lits : mapping[VarOf(l)] = VarOf(l)  BY <1>3, Literals DEF Identity
      <4>. HIDE DEF rep2
      <4>. QED  BY <4>1 DEF LiveLits
    <3>4. \A x \in mem \cap LiveLits(F, rep2, forced) : x \in mem2  BY DEF LiveLits
    <3>. HIDE DEF mem, mem2, rep2
    <3>. QED  BY <3>1, <3>2, <3>3, <3>4, OwedShrinks
  <2>6. Waiting'  BY <1>2, <1>3, <2>1, <2>5 DEF Waiting, F
  <2>7. Answered'  BY <1>7 DEF Answered
  <2>. QED  BY <2>4, <2>6, <2>7
<1>. QED  BY <1>6, <1>7 DEF TarjanAgain

LEMMA StartEquivOwes ==
  ASSUME IInv, DInv, StartEquiv
  PROVE  Sound' /\ Waiting' /\ Answered'
<1>1. Phases  BY DEF IInv
<1>2. /\ pc = "equiv"
      /\ UNCHANGED <<job, f, mapping, seeded, model, loop, forced, equivs, class, unknowns, cut>>
  BY DEF StartEquiv
<1>3. class = NoClass  BY <1>1, <1>2 DEF Phases
<1>4. CASE job.equiv /\ seeded /\ classes' = classes \cup {top} /\ top' = {} /\ pc' = "class"
  <2>. DEFINE S2 == classes \cup {top}
  <2>1. (UNION S2) \cup {} = (UNION classes) \cup top  OBVIOUS
  <2>2. Mem' = MemOf({}, S2, NoClass)  BY <1>2, <1>3, <1>4 DEF Mem
  <2>. HIDE DEF S2
  <2>3. Mem' = Mem  BY <1>3, <2>1, <2>2, NoClassMembers, MembersAre
  <2>4. Sound'  BY <1>2, <1>4, <2>3 DEF Sound, DInv
  <2>5. Waiting'  BY <1>2, <2>3 DEF Waiting, DInv
  <2>6. Answered'  BY <1>4 DEF Answered
  <2>. QED  BY <2>4, <2>5, <2>6
<1>5. CASE ~(job.equiv /\ seeded) /\ UNCHANGED <<top, classes>> /\ pc' = "done"
  <2>1. Mem' = Mem  BY <1>2, <1>5 DEF Mem
  <2>2. Sound'  BY <1>2, <1>5, <2>1 DEF Sound, DInv
  <2>3. Waiting'  BY <1>5 DEF Waiting
  <2>4. Answered'  BY <1>2, <1>5 DEF Answered
  <2>. QED  BY <2>2, <2>3, <2>4
<1>. QED  BY <1>4, <1>5 DEF StartEquiv

\* What the class taken out holds is in hand.
LEMMA TakenHolds ==
  ASSUME NEW S, NEW B, Shape({}, S, NoClass, B), NEW c \in WorthKeeping(S)
  PROVE  /\ MemOf({}, WorthKeeping(S) \ {c}, TakenClass(c)) = UNION WorthKeeping(S)
         /\ TakenClass(c).same = {} /\ UNION WorthKeeping(S) \subseteq UNION S /\ UNION S \subseteq Lits
<1>. DEFINE k == TakenClass(c)
            r == FirstOf(c)
            q == InVarOrder(c \ {r})
<1>1. c \in S /\ Cardinality(c) >= 2  BY DEF WorthKeeping
<1>2. Steady(UNION S, B)
  <2>1. MemOf({}, S, NoClass) = UNION S  BY NoClassMembers
  <2>. QED  BY <2>1 DEF Shape
<1>3. c \in SUBSET Lits /\ c # {} /\ Straight(c) /\ UNION S \subseteq Lits
  <2>1. c # {}  BY <1>1, FS_EmptySet
  <2>. QED  BY <1>1, <1>2, <2>1 DEF Steady, Straight
<1>4. r \in c /\ r # 0  BY <1>3, FirstOfIsIn, Literals
<1>5. ToSet(q) = c \ {r}
  <2>1. c \ {r} \in SUBSET Lits /\ Straight(c \ {r})  BY <1>3 DEF Straight
  <2>. QED  BY <2>1, InVarOrderLists
<1>6. k.rep = r /\ k.left = q /\ k.same = {}  BY DEF TakenClass
<1>. HIDE DEF k, q, r
<1>7. MemOf({}, WorthKeeping(S) \ {c}, k) = (UNION (WorthKeeping(S) \ {c})) \cup c
  BY <1>4, <1>5, <1>6 DEF MemOf
<1>8. (UNION (WorthKeeping(S) \ {c})) \cup c = UNION WorthKeeping(S)  OBVIOUS
<1>9. UNION WorthKeeping(S) \subseteq UNION S  BY DEF WorthKeeping
<1>. QED  BY <1>3, <1>6, <1>7, <1>8, <1>9 DEF k

LEMMA TakeClassOwes ==
  ASSUME IInv, DInv, TakeClass
  PROVE  Sound' /\ Waiting' /\ Answered'
<1>1. Phases /\ Partition /\ Comparable  BY DEF IInv
<1>2. /\ pc = "class" /\ pc' = "pair" /\ MayGoOn
      /\ UNCHANGED <<job, f, mapping, seeded, top, loop, forced, model, equivs, unknowns, cut>>
  BY DEF TakeClass, InEquiv
<1>3. PICK c \in WorthKeeping(classes) :
        class' = TakenClass(c) /\ classes' = WorthKeeping(classes) \ {c}
  BY DEF TakeClass, TakenClass
<1>4. top = {} /\ class = NoClass  BY <1>1, <1>2 DEF Phases
<1>5. Shape({}, classes, NoClass, forced)  BY <1>1, <1>4 DEF Partition
<1>6. /\ Mem' = UNION WorthKeeping(classes) /\ class'.same = {}
      /\ UNION WorthKeeping(classes) \subseteq UNION classes /\ UNION classes \subseteq Lits
  <2>1. Mem' = MemOf({}, WorthKeeping(classes) \ {c}, TakenClass(c))  BY <1>2, <1>3, <1>4 DEF Mem
  <2>. QED  BY <1>3, <1>5, <2>1, TakenHolds
<1>7. Mem = UNION classes  BY <1>4, MembersAre
<1>8. ASSUME seeded, NEW x \in Mem, x \notin Mem', NEW m \in Mem, Alike(EngineOf(job.formula), x, m)
      PROVE  Same(equivs, x, m)
  <2>. DEFINE E == EngineOf(job.formula)
  <2>1. Apart(E, {}, classes, NoClass)  BY <1>1, <1>2, <1>4, <1>8 DEF Comparable
  <2>2. m \in AliveOf({}, classes, NoClass)  BY <1>7, NoClassMembers
  <2>3. Alike(E, x, m) /\ x \in UNION classes /\ x \notin UNION WorthKeeping(classes)  BY <1>6, <1>7, <1>8
  <2>. HIDE DEF E
  <2>4. m = x  BY <1>6, <2>1, <2>2, <2>3, SmallLeave
  <2>. QED  BY <2>4, SameIsSame
<1>9. seeded /\ job.equiv /\ Standing(job.formula, mapping, equivs)
  BY <1>2 DEF DInv, Sound, SoundFor
<1>. QED  BY <1>2, <1>6, <1>7, <1>8, <1>9, MembersLeave

\* What is known while a class is in hand.
LEMMA InHand ==
  ASSUME IInv, DInv, pc = "pair"
  PROVE  /\ Proper(class) /\ class.rep \in Lits /\ top = {}
         /\ Shape({}, classes, class, forced)
         /\ seeded /\ job.equiv
         /\ Standing(job.formula, mapping, equivs)
         /\ \A m \in class.same : Alike(EngineOf(job.formula), class.rep, m)
         /\ MayGoOn => Apart(EngineOf(job.formula), {}, classes, class)
         /\ Mem = MemAll(classes, class)
         /\ unknowns = 0 => class.at = 1 /\ MayGoOn
<1>1. Types /\ Phases /\ Partition /\ Comparable /\ Sound  BY DEF IInv, DInv
<1>2. Proper(class) /\ class.rep \in Lits /\ class.at - 1 <= unknowns /\ top = {}
  BY <1>1 DEF Phases
<1>3. class.rep # 0  BY <1>2, Literals
<1>4. Mem = MemAll(classes, class)  BY <1>2, <1>3 DEF Mem, MemOf, MemAll, InClassOf
<1>5. ASSUME unknowns = 0 PROVE class.at = 1 /\ MayGoOn
  <2>1. class.at \in Nat \ {0}  BY <1>2 DEF Proper, ClassTypes
  <2>2. class.at - 1 <= 0  BY <1>2, <1>5
  <2>. QED  BY <1>5, <2>1, <2>2, ProbeAssumption DEF MayGoOn
<1>. QED  BY <1>1, <1>2, <1>4, <1>5 DEF Partition, Comparable, Sound, SoundFor

\* What a counter-model leaves of the class in hand was there before.
LEMMA SplitMembers ==
  ASSUME NEW S, NEW B, NEW k, Proper(k), Shape({}, S, k, B), NEW M, NEW b
  PROVE  MemAll(SplitParts(S, k, M, b), SplitRest(k, M, b)) \subseteq MemAll(S, k)
<1>. DEFINE k2 == SplitRest(k, M, b)
            S2 == SplitParts(S, k, M, b)
<1>1. /\ k2.rep = k.rep /\ k2.same = k.same /\ ToSet(k2.left) = ToSet(k.left) \ Parting(k, M, b)
      /\ ToSet(After(k)) \subseteq ToSet(k.left)
  BY SplitKeeps
<1>. HIDE DEF k2
<1>2. InClassOf(k2) \subseteq InClassOf(k)  BY <1>1 DEF InClassOf
<1>3. UNION S2 \subseteq (UNION S) \cup ToSet(k.left)
  <2>1. ASSUME NEW h \in S2 PROVE h \subseteq (UNION S) \cup ToSet(k.left)
    <3>1. (\E c \in S : Half(h, c, M)) \/ h = Parting(k, M, b)  BY SplitSorts
    <3>2. CASE \E c \in S : Half(h, c, M)  BY <3>2 DEF Half
    <3>3. CASE h = Parting(k, M, b)  BY <1>1, <3>3 DEF Parting
    <3>. QED  BY <3>1, <3>2, <3>3
  <2>. QED  BY <2>1
<1>. HIDE DEF S2
<1>4. MemAll(S2, k2) \subseteq MemAll(S, k)  BY <1>2, <1>3 DEF MemAll, InClassOf
<1>. QED  BY <1>4 DEF S2, k2

LEMMA PairRefutedOwes ==
  ASSUME IInv, DInv, PairRefuted
  PROVE  Sound' /\ Waiting' /\ Answered'
<1>. DEFINE A == ToSet(After(class))
            E == EngineOf(job.formula)
<1>1. /\ pc = "pair" /\ pc' = "pair" /\ MayGoOn
      /\ UNCHANGED <<job, mapping, seeded, top, loop, forced, equivs, cut, unknowns>>
  BY DEF PairRefuted, InClass, InEquiv
<1>2. /\ Proper(class) /\ class.rep \in Lits /\ top = {} /\ Shape({}, classes, class, forced)
      /\ seeded /\ job.equiv /\ Standing(job.formula, mapping, equivs)
      /\ \A m \in class.same : Alike(E, class.rep, m)
      /\ Apart(E, {}, classes, class) /\ Mem = MemAll(classes, class)
      /\ unknowns = 0 => class.at = 1
  BY <1>1, InHand
<1>3. \E T \in Engine, b \in BOOLEAN : (Holds(class.rep, T) <=> b) /\ SplitClass(T, b)
  BY DEF PairRefuted, Refuting
<1>4. PICK T \in Engine, b \in BOOLEAN : (Holds(class.rep, T) <=> b) /\ SplitClass(T, b)
  BY <1>3
<1>. DEFINE M == Reread(T, Held(classes, {}, A))
<1>5. classes' = SplitParts(classes, class, M, b) /\ class' = SplitRest(class, M, b)
  BY <1>4 DEF SplitClass, SplitParts, SplitRest, Parting, Agree, After
<1>6. (UNION classes) \cup A \subseteq Lits
  <2>1. MemOf({}, classes, class) \subseteq Lits  BY <1>2 DEF Shape, Steady
  <2>2. A \subseteq ToSet(class.left)  BY <1>2, ClassCut DEF Cut
  <2>3. (UNION classes) \cup ToSet(class.left) \subseteq MemOf({}, classes, class)  BY DEF MemOf
  <2>. QED  BY <2>1, <2>2, <2>3
<1>7. ASSUME NEW l \in (UNION classes) \cup A PROVE Holds(l, M) <=> Holds(l, T)
  <2>. DEFINE held == Held(classes, {}, A)
  <2>1. VarOf(l) \in held  BY DEF Held
  <2>2. l \in Lits  BY <1>6
  <2>. HIDE DEF held
  <2>. QED  BY <2>1, <2>2, RereadAgrees DEF held
<1>8. T \in E
  <2>1. Types  BY DEF IInv
  <2>. QED  BY <1>4, <2>1, JobFormula
<1>. HIDE DEF M, E
<1>9. class'.rep = class.rep /\ class'.same = class.same
  <2>. DEFINE k2 == class'
  <2>1. k2 = SplitRest(class, M, b)  BY <1>5
  <2>. HIDE DEF k2
  <2>2. k2.rep = class.rep /\ k2.same = class.same  BY <1>2, <2>1, SplitKeeps
  <2>. QED  BY <2>2 DEF k2
<1>10. Mem' = MemAll(SplitParts(classes, class, M, b), SplitRest(class, M, b))
  <2>1. class'.rep # 0  BY <1>2, <1>9, Literals
  <2>2. Mem' = MemAll(classes', class')  BY <1>1, <1>2, <2>1 DEF Mem, MemOf, MemAll, InClassOf
  <2>. QED  BY <1>5, <2>2
<1>11. Mem' \subseteq Mem  BY <1>2, <1>10, SplitMembers
<1>12. ASSUME unknowns = 0, NEW x \in Mem, x \notin Mem', NEW m \in Mem, Alike(E, x, m)
       PROVE  Same(equivs, x, m)
  <2>. DEFINE mem == MemAll(classes, class)
              mem2 == MemAll(SplitParts(classes, class, M, b), SplitRest(class, M, b))
  <2>1. x \in mem /\ m \in mem /\ x \notin mem2 /\ class.at = 1  BY <1>2, <1>10, <1>12
  <2>2. m = x  BY <1>2, <1>4, <1>7, <1>8, <1>12, <2>1, SplitLeave
  <2>. QED  BY <2>2, SameIsSame
<1>. QED  BY <1>1, <1>2, <1>9, <1>11, <1>12, MembersLeave DEF E

LEMMA JoinedHolds ==
  ASSUME NEW k, Proper(k), k.at <= Len(k.left)
  PROVE  /\ InClassOf(JoinedRest(k)) = InClassOf(k) /\ JoinedRest(k).rep = k.rep
         /\ JoinedRest(k).same = k.same \cup {k.left[k.at]}
<1>. DEFINE q == k.left
            n == k.at
            x == q[n]
            p == SubSeq(q, 1, n - 1)
            b == Dropped(q, n)
<1>1. q \in Seq(Lits) /\ n \in 1 .. Len(q) /\ n - 1 \in 0 .. Len(q) /\ n \in 0 .. Len(q) /\ Len(q) \in Nat
  BY DEF Proper, ClassTypes
<1>2. k \in ClassTypes  BY DEF Proper
<1>3. RemoveAt(q, n) = p \o b  BY DEF RemoveAt, Dropped
<1>4. /\ JoinedRest(k).rep = k.rep /\ JoinedRest(k).left = p \o b
      /\ JoinedRest(k).same = k.same \cup {x}
  BY <1>2, <1>3 DEF ClassTypes, JoinedRest
<1>. HIDE DEF q, n
<1>5. /\ p \in Seq(Lits) /\ Len(p) = n - 1 /\ \A i \in 1 .. Len(p) : p[i] = q[i]
      /\ ToSet(p) \subseteq ToSet(q)
  <2>. DEFINE j == n - 1
  <2>1. j \in 0 .. Len(q)  BY <1>1
  <2>. HIDE DEF j
  <2>2. Len(SubSeq(q, 1, j)) = j /\ Cut(q, SubSeq(q, 1, j), Dropped(q, j), Lits)  BY <1>1, <2>1, CutAt
  <2>. QED  BY <2>2 DEF Cut, j
<1>6. /\ b \in Seq(Lits) /\ ToSet(q) = ToSet(SubSeq(q, 1, n)) \cup ToSet(b)
      /\ SubSeq(q, 1, n) \in Seq(Lits) /\ Len(SubSeq(q, 1, n)) = n
      /\ \A i \in 1 .. n : SubSeq(q, 1, n)[i] = q[i]
  BY <1>1, CutAt DEF Cut
<1>7. x \in ToSet(q)  BY <1>1 DEF ToSet
<1>8. ToSet(SubSeq(q, 1, n)) \subseteq ToSet(p) \cup {x}
  <2>1. ASSUME NEW i \in 1 .. n PROVE q[i] \in ToSet(p) \cup {x}
    <3>1. CASE i = n  BY <3>1
    <3>2. CASE i # n
      <4>1. i \in 1 .. Len(p)  BY <1>1, <1>5, <3>2
      <4>. QED  BY <1>5, <4>1 DEF ToSet
    <3>. QED  BY <3>1, <3>2
  <2>2. DOMAIN SubSeq(q, 1, n) = 1 .. n  BY <1>6
  <2>. HIDE DEF p, x
  <2>. QED  BY <1>6, <2>1, <2>2 DEF ToSet
<1>. HIDE DEF p, b, x
<1>9. ToSet(p \o b) = ToSet(p) \cup ToSet(b)  BY <1>5, <1>6, Rejoined
<1>10. ToSet(p \o b) \cup {x} = ToSet(q)  BY <1>5, <1>6, <1>7, <1>8, <1>9
<1>11. InClassOf(JoinedRest(k)) = InClassOf(k)  BY <1>4, <1>10 DEF InClassOf, q
<1>. QED  BY <1>4, <1>11 DEF x, q, n

LEMMA PairConfirmedOwes ==
  ASSUME IInv, DInv, PairConfirmed
  PROVE  Sound' /\ Waiting' /\ Answered'
<1>1. /\ pc = "pair" /\ pc' = "pair" /\ class.at <= Len(class.left) /\ MayGoOn
      /\ class' = JoinedRest(class)
      /\ Refuting(class.rep, Candidate) = {} /\ Refuting(Candidate, class.rep) = {}
      /\ UNCHANGED <<job, mapping, seeded, top, loop, forced, equivs, cut, model, classes, unknowns>>
  BY DEF PairConfirmed, InClass, InEquiv, Candidate, JoinedRest
<1>2. /\ Proper(class) /\ class.rep \in Lits /\ top = {}
      /\ seeded /\ job.equiv /\ Standing(job.formula, mapping, equivs)
      /\ \A m \in class.same : Alike(EngineOf(job.formula), class.rep, m)
      /\ Mem = MemAll(classes, class)
  BY <1>1, InHand
<1>3. /\ InClassOf(class') = InClassOf(class) /\ class'.rep = class.rep
      /\ class'.same = class.same \cup {Candidate}
  BY <1>1, <1>2, JoinedHolds DEF Candidate
<1>4. Mem' = Mem
  <2>1. class'.rep # 0  BY <1>2, <1>3, Literals
  <2>2. Mem' = MemAll(classes', class')  BY <1>1, <1>2, <2>1 DEF Mem, MemOf, MemAll, InClassOf
  <2>. QED  BY <1>1, <1>2, <1>3, <2>2 DEF MemAll
<1>5. Alike(EngineOf(job.formula), class.rep, Candidate)
  <2>1. Engine = EngineOf(job.formula)  BY JobFormula DEF IInv
  <2>2. \A T \in Engine : ~(Holds(class.rep, T) /\ ~Holds(Candidate, T))  BY <1>1 DEF Refuting
  <2>3. \A T \in Engine : ~(Holds(Candidate, T) /\ ~Holds(class.rep, T))  BY <1>1 DEF Refuting
  <2>. QED  BY <2>1, <2>2, <2>3 DEF Alike
<1>. QED  BY <1>1, <1>2, <1>3, <1>4, <1>5, MembersLeave

LEMMA PairUnknownOwes ==
  ASSUME IInv, DInv, PairUnknown
  PROVE  Sound' /\ Waiting' /\ Answered'
<1>1. /\ pc = "pair" /\ pc' = "pair"
      /\ class' = [class EXCEPT !.at = @ + 1] /\ unknowns' = unknowns + 1
      /\ UNCHANGED <<job, mapping, seeded, top, loop, forced, equivs, cut, model, classes>>
  BY DEF PairUnknown, InClass, InEquiv
<1>2. /\ Proper(class) /\ seeded /\ job.equiv /\ Standing(job.formula, mapping, equivs)
      /\ \A m \in class.same : Alike(EngineOf(job.formula), class.rep, m)
  BY <1>1, InHand
<1>3. class'.rep = class.rep /\ class'.left = class.left /\ class'.same = class.same
  BY <1>1, <1>2 DEF Proper, ClassTypes
<1>4. Mem' = Mem  BY <1>1, <1>3 DEF Mem, MemOf
<1>5. unknowns' # 0
  <2>1. unknowns \in Nat  BY DEF IInv, Types
  <2>. QED  BY <1>1, <2>1
<1>. QED  BY <1>1, <1>2, <1>3, <1>4, <1>5, MembersLeave

\* The pairs a class leaves behind are of literals that stand, and alike.
LEMMA RecordedStands ==
  ASSUME IInv, DInv, pc = "pair", NEW next, Recorded(next)
  PROVE  /\ equivs \subseteq equivs' /\ Standing(job.formula, mapping, equivs')
         /\ class' = NoClass /\ pc' = next /\ UNION classes' \subseteq Mem
         /\ classes' = WorthKeeping(classes \cup {ToSet(class.left)})
         /\ \A x, m \in class.same \cup {class.rep} : Same(equivs', x, m)
<1>1. /\ equivs' = equivs \cup {<<class.rep, m>> : m \in class.same}
      /\ classes' = WorthKeeping(classes \cup {ToSet(class.left)}) /\ class' = NoClass /\ pc' = next
  BY DEF Recorded
<1>2. /\ Standing(job.formula, mapping, equivs) /\ Mem = MemAll(classes, class)
      /\ \A m \in class.same : Alike(EngineOf(job.formula), class.rep, m)
      /\ class.rep \in Lits
  BY InHand
<1>3. Present(job.formula, mapping, Mem)  BY DEF DInv, Sound, SoundFor
<1>4. \A m \in class.same \cup {class.rep} :
        VarOf(m) \in Appearing(job.formula) /\ mapping[VarOf(m)] = VarOf(m)
  <2>1. class.same \cup {class.rep} \subseteq Mem  BY <1>2 DEF MemAll, InClassOf
  <2>. QED  BY <1>3, <2>1 DEF Present
<1>5. Standing(job.formula, mapping, equivs')
  <2>. DEFINE F == job.formula
              new == {<<class.rep, m>> : m \in class.same}
  <2>1. ASSUME NEW p \in new
        PROVE  /\ \A i \in 1 .. 2 : VarOf(p[i]) \in Appearing(F) /\ mapping[VarOf(p[i])] = VarOf(p[i])
               /\ Alike(EngineOf(F), p[1], p[2])
    <3>1. PICK m \in class.same : p = <<class.rep, m>>  OBVIOUS
    <3>2. p[1] = class.rep /\ p[2] = m  BY <3>1
    <3>3. \A i \in 1 .. 2 : i = 1 \/ i = 2  OBVIOUS
    <3>. HIDE DEF F
    <3>. QED  BY <1>2, <1>4, <3>2, <3>3 DEF F
  <2>2. equivs' = equivs \cup new  BY <1>1
  <2>. HIDE DEF F, new
  <2>. QED  BY <1>2, <2>1, <2>2 DEF Standing, F
<1>6. UNION classes' \subseteq Mem
  <2>1. UNION WorthKeeping(classes \cup {ToSet(class.left)}) \subseteq (UNION classes) \cup ToSet(class.left)
    BY DEF WorthKeeping
  <2>. QED  BY <1>1, <1>2, <2>1 DEF MemAll, InClassOf
<1>7. ASSUME NEW x \in class.same \cup {class.rep}, NEW m \in class.same \cup {class.rep}
      PROVE  Same(equivs', x, m)
  <2>1. \A y \in {x, m} : y = class.rep \/ <<class.rep, y>> \in equivs'  BY <1>1
  <2>. QED  BY <1>2, <2>1 DEF Same
<1>. QED  BY <1>1, <1>5, <1>6, <1>7

LEMMA ClassDoneOwes ==
  ASSUME IInv, DInv, ClassDone
  PROVE  Sound' /\ Waiting' /\ Answered'
<1>. DEFINE E == EngineOf(job.formula)
<1>1. /\ pc = "pair" /\ Recorded("class") /\ (class.at > Len(class.left) \/ ~MayGoOn)
      /\ UNCHANGED <<job, f, mapping, seeded, top, loop, forced, model, unknowns, cut>>
  BY DEF ClassDone, InEquiv
<1>2. /\ Proper(class) /\ class.rep \in Lits /\ top = {} /\ Shape({}, classes, class, forced)
      /\ seeded /\ job.equiv
      /\ \A m \in class.same : Alike(E, class.rep, m)
      /\ MayGoOn => Apart(E, {}, classes, class)
      /\ Mem = MemAll(classes, class)
      /\ unknowns = 0 => class.at = 1 /\ MayGoOn
  BY <1>1, InHand
<1>3. /\ equivs \subseteq equivs' /\ Standing(job.formula, mapping, equivs')
      /\ class' = NoClass /\ pc' = "class" /\ UNION classes' \subseteq Mem
      /\ classes' = WorthKeeping(classes \cup {ToSet(class.left)})
      /\ \A x, m \in class.same \cup {class.rep} : Same(equivs', x, m)
  BY <1>1, RecordedStands
<1>4. Mem' = UNION classes'
  <2>1. Mem' = MemOf({}, classes', NoClass)  BY <1>1, <1>2, <1>3 DEF Mem
  <2>. QED  BY <2>1, NoClassMembers
<1>. HIDE DEF E
<1>5. ASSUME unknowns = 0, NEW x \in Mem, x \notin Mem', NEW m \in Mem, Alike(E, x, m)
      PROVE  Same(equivs', x, m)
  <2>1. class.at = 1 /\ Apart(E, {}, classes, class)  BY <1>2, <1>5
  <2>2. Len(class.left) = 0
    <3>1. Len(class.left) \in Nat  BY <1>2 DEF Proper, ClassTypes
    <3>2. 1 > Len(class.left)  BY <1>1, <1>2, <1>5
    <3>. QED  BY <3>1, <3>2
  <2>3. x \in MemAll(classes, class) /\ m \in MemAll(classes, class)  BY <1>2
  <2>4. x \notin UNION WorthKeeping(classes \cup {ToSet(class.left)})  BY <1>3, <1>4, <1>5
  <2>5. m = x \/ {x, m} \subseteq class.same \cup {class.rep}
    BY <1>2, <1>5, <2>1, <2>2, <2>3, <2>4, ReturnLeave
  <2>. QED  BY <1>3, <2>5, SameIsSame
<1>6. \A m \in class'.same : Alike(E, class'.rep, m)  BY <1>3 DEF NoClass
<1>. QED  BY <1>1, <1>2, <1>3, <1>4, <1>5, <1>6, MembersLeave DEF E

-----------------------------------------------------------------------------
(***************************************************************************)
(* How the stage ends: the last classes, what it writes, and that every    *)
(* step keeps the invariant behind the answers.                            *)
(***************************************************************************)

\* The class in hand is recorded, and the classes still waiting are given up.
LEMMA EquivOutOfTimeOwes ==
  ASSUME IInv, DInv, EquivOutOfTime
  PROVE  Sound' /\ Waiting' /\ Answered'
<1>1. /\ pc \in {"pair", "class"} /\ cut' = TRUE /\ pc' = "emit"
      /\ UNCHANGED <<job, f, mapping, seeded, top, loop, forced, model, unknowns>>
  BY DEF EquivOutOfTime, InEquiv, InClass, Recorded
<1>2. Waiting' /\ Answered'  BY <1>1 DEF Waiting, Answered
<1>3. SoundFor(job.formula, mapping, Mem, class, forced, equivs, seeded) /\ seeded /\ job.equiv
  BY <1>1 DEF DInv, Sound
<1>4. CASE pc = "pair" /\ Recorded("emit")
  <2>1. /\ Standing(job.formula, mapping, equivs') /\ class' = NoClass /\ UNION classes' \subseteq Mem
    BY <1>4, RecordedStands
  <2>2. top = {}  BY <1>4, InHand
  <2>3. Mem' = UNION classes'
    <3>1. Mem' = MemOf({}, classes', NoClass)  BY <1>1, <2>1, <2>2 DEF Mem
    <3>. QED  BY <3>1, NoClassMembers
  <2>. DEFINE F == job.formula
              mem2 == UNION classes'
              mem == Mem
              eq2 == equivs'
  <2>4. SoundFor(F, mapping, mem, class, forced, equivs, seeded) /\ mem2 \in SUBSET mem
        /\ Standing(F, mapping, eq2)
    BY <1>3, <2>1
  <2>5. \A m \in NoClass.same : Alike(EngineOf(F), NoClass.rep, m)  BY DEF NoClass
  <2>. HIDE DEF F, mem2, mem, eq2
  <2>6. forced \in SUBSET Backbone(F)  BY <2>4 DEF SoundFor
  <2>7. SoundFor(F, mapping, mem2, NoClass, forced, equivs, seeded)  BY <2>4, <2>5, <2>6, FewerSound
  <2>8. SoundFor(F, mapping, mem2, NoClass, forced, eq2, seeded)  BY <2>4, <2>7 DEF SoundFor
  <2>9. Sound'  BY <1>1, <1>3, <2>1, <2>3, <2>8 DEF Sound, F, mem2, eq2
  <2>. QED  BY <1>2, <2>9
<1>5. CASE UNCHANGED <<equivs, classes, class>>
  <2>1. Mem' = Mem  BY <1>1, <1>5 DEF Mem
  <2>2. Sound'  BY <1>1, <1>3, <1>5, <2>1 DEF Sound
  <2>. QED  BY <1>2, <2>2
<1>. QED  BY <1>1, <1>4, <1>5 DEF EquivOutOfTime

\* No class is left that is worth probing: every candidate is alike to itself.
LEMMA EquivDoneOwes ==
  ASSUME IInv, DInv, EquivDone
  PROVE  Sound' /\ Waiting' /\ Answered'
<1>. DEFINE F == job.formula
<1>1. Types /\ Phases /\ Comparable  BY DEF IInv
<1>2. /\ pc = "class" /\ pc' = "emit" /\ (~MayGoOn \/ WorthKeeping(classes) = {})
      /\ UNCHANGED <<job, f, mapping, seeded, model, top, classes, loop, forced, equivs, class, unknowns, cut>>
  BY DEF EquivDone, engine
<1>3. top = {} /\ class = NoClass  BY <1>1, <1>2 DEF Phases
<1>4. Mem = UNION classes /\ Mem \subseteq Lits  BY <1>3, MembersAre
<1>5. SoundFor(F, mapping, Mem, class, forced, equivs, seeded) /\ seeded /\ job.equiv
  BY <1>2 DEF DInv, Sound
<1>6. Mem' = Mem  BY <1>2 DEF Mem
<1>7. Sound'  BY <1>2, <1>5, <1>6 DEF Sound
<1>8. Waiting'  BY <1>2 DEF Waiting
<1>9. ASSUME unknowns = 0 PROVE Owed(F, mapping, {}, forced, equivs)
  <2>. DEFINE mem == UNION classes
              E == EngineOf(F)
  <2>1. MayGoOn  BY <1>9, ProbeAssumption DEF MayGoOn
  <2>2. UNION WorthKeeping(classes) = {}  BY <1>2, <2>1
  <2>3. Owed(F, mapping, mem, forced, equivs)  BY <1>2, <1>4, <1>5, <1>9 DEF DInv, Waiting
  <2>4. mem \subseteq Lits /\ Anchored(E, mem)  BY <1>4, <1>5 DEF SoundFor
  <2>5. Apart(E, {}, classes, NoClass)  BY <1>1, <1>2, <1>3, <1>5, <2>1 DEF Comparable
  <2>6. AliveOf({}, classes, NoClass) = mem  BY NoClassMembers
  <2>. HIDE DEF E, F
  <2>7. ASSUME NEW x \in mem, NEW m \in mem, Alike(E, x, m) PROVE Same(equivs, x, m)
    <3>1. m = x  BY <2>2, <2>4, <2>5, <2>6, <2>7, SmallLeave
    <3>. QED  BY <3>1, SameIsSame
  <2>. HIDE DEF mem
  <2>. QED  BY <2>3, <2>4, <2>7, OwedShrinks DEF E
<1>10. Answered'  BY <1>2, <1>9 DEF Answered
<1>. QED  BY <1>7, <1>8, <1>10

\* The steps that leave the candidates as they are, up to where the formula is
\* rewritten.
LEMMA QuietOwes ==
  ASSUME IInv, DInv,
         UNCHANGED <<job, mapping, seeded, top, classes, forced, equivs, class, unknowns>>,
         pc \in {"seed", "probe", "recover", "inject"}, pc' \notin {"class", "pair", "emit"},
         pc' = "done" => ~seeded \/ Refuted(f')
  PROVE  Sound' /\ Waiting' /\ Answered'
<1>1. Mem' = Mem  BY DEF Mem
<1>2. Sound'  BY <1>1 DEF Sound, DInv
<1>3. Waiting'  BY <1>1 DEF Waiting, DInv
<1>4. Answered'  BY DEF Answered
<1>. QED  BY <1>2, <1>3, <1>4

LEMMA EmitOwes ==
  ASSUME IInv, DInv, Emit
  PROVE  Sound' /\ Waiting' /\ Answered'
<1>1. /\ pc = "emit" /\ pc' = "done"
      /\ UNCHANGED <<job, mapping, seeded, model, top, classes, loop, forced, equivs, class, unknowns, cut>>
  BY DEF Emit, engine
<1>2. Mem' = Mem  BY <1>1 DEF Mem
<1>3. Sound'  BY <1>1, <1>2 DEF Sound, DInv
<1>4. Waiting'  BY <1>1 DEF Waiting
<1>5. Answered  BY DEF DInv
<1>6. seeded /\ unknowns = 0 /\ ~cut => Owed(job.formula, mapping, {}, forced, equivs)
  BY <1>1, <1>5 DEF Answered
<1>7. Answered'  BY <1>1, <1>6 DEF Answered
<1>. QED  BY <1>3, <1>4, <1>7

\* The chunk answered with UNSAT holds literals of top, and so does the head of
\* what was deferred, unless it has been confirmed since.
LEMMA BackboneStepsOwe ==
  ASSUME IInv, DInv, ChunkConfirmed \/ ChunkRefuted \/ RecoverConfirmed \/ RecoverRefuted
  PROVE  Sound' /\ Waiting' /\ Answered'
<1>1. Types /\ Phases /\ Queue  BY DEF IInv
<1>2. CASE ChunkConfirmed
  <2>1. /\ pc = "probe" /\ pc' = "probe" /\ Confirm(ToSet(Chunk)) /\ AllTrue(ToSet(Chunk))
        /\ UNCHANGED <<job, f, mapping, seeded, equivs, class, unknowns, cut>>
    BY <1>2 DEF ChunkConfirmed, Probing, InBackbone
  <2>2. class = NoClass  BY <1>1, <2>1 DEF Phases
  <2>3. ToSet(Chunk) \subseteq top
    <3>. DEFINE n == ChunkSize
                q == loop.queue
    <3>1. q \in Seq(Lits) /\ n \in 0 .. Len(q) /\ Chunk = SubSeq(q, 1, n)  BY <1>1, ChunkFacts
    <3>2. ToSet(q) \subseteq top  BY <1>1, <2>1 DEF Queue, Lined
    <3>. HIDE DEF n, q
    <3>3. ToSet(Chunk) \subseteq ToSet(q)  BY <3>1, CutAt DEF Cut
    <3>. QED  BY <3>2, <3>3
  <2>. DEFINE L == ToSet(Chunk)
  <2>4. L \in SUBSET (top \cup forced) /\ Confirm(L) /\ AllTrue(L)  BY <2>1, <2>3
  <2>. HIDE DEF L
  <2>. QED  BY <2>1, <2>2, <2>4, ConfirmOwes
<1>3. CASE ChunkRefuted
  <2>1. /\ pc = "probe" /\ pc' = "probe" /\ forced' = forced
        /\ UNCHANGED <<job, f, mapping, seeded, equivs, class, unknowns, cut>>
    BY <1>3 DEF ChunkRefuted, Probing, InBackbone
  <2>2. PICK T \in Engine : Observe(T, {})  BY <1>3 DEF ChunkRefuted
  <2>3. class = NoClass  BY <1>1, <2>1 DEF Phases
  <2>. QED  BY <2>1, <2>2, <2>3, ObserveOwes
<1>4. CASE RecoverConfirmed
  <2>. DEFINE L == {Head(loop.deferred)}
              d == loop.deferred
              F == job.formula
  <2>1. Recovering /\ InRecovery /\ AllTrue(L) /\ Confirm(L) /\ cut' = cut /\ pc' = pc
    BY <1>4 DEF RecoverConfirmed
  <2>2. /\ class = NoClass /\ pc = "recover" /\ d # <<>> /\ d \in Seq(Lits)
        /\ Lined(F, top, forced, <<>>, d, cut)
        /\ UNCHANGED <<job, f, mapping, seeded, equivs, class, unknowns>>
    BY <2>1, RecoveryFacts
  <2>3. Head(d) \in top \cup forced
    <3>1. \A T \in EngineOf(F) : Holds(Head(d), T)  BY <1>1, <2>1, JobFormula DEF AllTrue
    <3>. HIDE DEF F, d
    <3>. QED  BY <2>2, <3>1, LinedTail
  <2>4. L \in SUBSET (top \cup forced)  BY <2>3
  <2>. HIDE DEF L
  <2>. QED  BY <2>1, <2>2, <2>4, ConfirmOwes
<1>5. CASE RecoverRefuted
  <2>1. Recovering /\ InRecovery /\ forced' = forced /\ cut' = cut /\ pc' = pc
    BY <1>5 DEF RecoverRefuted
  <2>2. PICK T \in Engine : Observe(T, {})  BY <1>5 DEF RecoverRefuted
  <2>3. class = NoClass /\ pc = "recover" /\ UNCHANGED <<job, f, mapping, seeded, equivs, class, unknowns>>
    BY <2>1, RecoveryFacts
  <2>. QED  BY <2>1, <2>2, <2>3, ObserveOwes
<1>. QED  BY <1>2, <1>3, <1>4, <1>5

LEMMA AnswersNext ==
  ASSUME IInv, DInv, Step
  PROVE  Sound' /\ Waiting' /\ Answered'
<1>1. Phases  BY DEF IInv
<1>2. CASE SolverUnavailable \/ SeedUnsat \/ SeedUnknown
  <2>1. pc = "seed" /\ pc' \in {"done", "tarjan"} /\ ~seeded
        /\ UNCHANGED <<job, mapping, seeded, top, classes, forced, equivs, class, unknowns>>
    BY <1>1, <1>2 DEF SolverUnavailable, SeedUnsat, SeedUnknown, engine, Phases
  <2>. QED  BY <2>1, QuietOwes
<1>3. CASE QueueEmpty \/ BackboneOutOfTime \/ RecoverDone \/ RecoverUnknown \/ ChunkUnknown
  <2>1. pc \in {"probe", "recover"} /\ pc' \in {"probe", "recover", "inject"}
        /\ UNCHANGED <<job, mapping, seeded, top, classes, forced, equivs, class, unknowns>>
    BY <1>3 DEF QueueEmpty, BackboneOutOfTime, RecoverDone, RecoverUnknown, ChunkUnknown, engine,
                Probing, Recovering, InRecovery, InBackbone
  <2>. QED  BY <2>1, QuietOwes
<1>4. CASE Inject
  <2>1. pc = "inject" /\ pc' \in {"done", "tarjan"} /\ (pc' = "done" => Refuted(f'))
        /\ UNCHANGED <<job, mapping, seeded, top, classes, forced, equivs, class, unknowns>>
    BY <1>4 DEF Inject, engine
  <2>. QED  BY <2>1, QuietOwes
<1>. QED
  BY <1>2, <1>3, <1>4, SeedSatOwes, BackboneStepsOwe, TarjanOwes, StartEquivOwes, TakeClassOwes,
     PairRefutedOwes, PairConfirmedOwes, PairUnknownOwes, ClassDoneOwes, EquivOutOfTimeOwes,
     EquivDoneOwes, EmitOwes DEF Step

\* What each step does to the clock's mark, the phase and what is confirmed.
LEMMA PinnedNext ==
  ASSUME IInv, DInv, Step
  PROVE  Pinned'
<1>1. Types /\ Phases /\ Queue /\ Pinned /\ Sound  BY DEF IInv, DInv
<1>2. CASE SeedSat \/ ChunkConfirmed \/ ChunkRefuted \/ ChunkUnknown \/ QueueEmpty \/ RecoverConfirmed
           \/ RecoverRefuted
  <2>1. pc' \in {"probe", "recover"}
    BY <1>2 DEF SeedSat, ChunkConfirmed, ChunkRefuted, ChunkUnknown, QueueEmpty, InBackbone,
                RecoverConfirmed, RecoverRefuted, Recovering
  <2>. QED  BY <2>1 DEF Pinned
<1>3. CASE SeedUnknown \/ BackboneOutOfTime \/ RecoverUnknown
  <2>1. cut' = TRUE  BY <1>3 DEF SeedUnknown, BackboneOutOfTime, RecoverUnknown
  <2>. QED  BY <2>1 DEF Pinned
<1>4. CASE SolverUnavailable \/ SeedUnsat
  <2>1. ~seeded'  BY <1>1, <1>4 DEF SolverUnavailable, SeedUnsat, engine, Phases
  <2>. QED  BY <2>1 DEF Pinned
<1>5. CASE RecoverDone
  <2>1. /\ pc = "recover" /\ loop.deferred = <<>> /\ UNCHANGED <<job, forced, cut>>
    BY <1>5 DEF RecoverDone, engine
  <2>2. loop.queue = <<>>  BY <1>1, <2>1 DEF Phases
  <2>3. ToSet(<<>>) = {}  BY DEF ToSet
  <2>4. cut \/ Backbone(job.formula) \subseteq forced  BY <1>1, <2>1, <2>2, <2>3 DEF Queue, Lined
  <2>5. forced \subseteq Backbone(job.formula)  BY <1>1 DEF Sound, SoundFor
  <2>. QED  BY <2>1, <2>4, <2>5 DEF Pinned
<1>6. CASE Inject \/ TarjanAgain \/ StartEquiv \/ TakeClass \/ PairRefuted \/ PairConfirmed \/ PairUnknown
           \/ ClassDone \/ EquivDone \/ Emit
  <2>1. pc \notin {"seed", "probe", "recover"} /\ UNCHANGED <<job, seeded, forced, cut>>
    BY <1>6 DEF Inject, TarjanAgain, StartEquiv, TakeClass, PairRefuted, PairConfirmed, PairUnknown,
                ClassDone, EquivDone, Emit, InEquiv, InClass, engine
  <2>. QED  BY <1>1, <2>1 DEF Pinned
<1>7. CASE EquivOutOfTime
  <2>1. cut' = TRUE  BY <1>7 DEF EquivOutOfTime
  <2>. QED  BY <2>1 DEF Pinned
<1>. QED  BY <1>2, <1>3, <1>4, <1>5, <1>6, <1>7 DEF Step

LEMMA FormulaNext ==
  ASSUME IInv, DInv, Step
  PROVE  FormulaIs'
<1>1. FormulaIs  BY DEF DInv
<1>2. CASE SolverUnavailable \/ SeedUnsat
  <2>1. pc' = "done"  BY <1>2 DEF SolverUnavailable, SeedUnsat
  <2>. QED  BY <2>1 DEF FormulaIs
<1>3. CASE SeedUnknown
  <2>1. /\ pc = "seed" /\ pc' = "tarjan" /\ UNCHANGED <<job, f, mapping, equivs, forced>>
    BY <1>3 DEF SeedUnknown
  <2>2. forced = {}  BY <2>1 DEF IInv, Phases
  <2>. QED  BY <1>1, <2>1, <2>2 DEF FormulaIs, Base
<1>4. CASE SeedSat \/ ChunkConfirmed \/ ChunkRefuted \/ ChunkUnknown \/ QueueEmpty \/ BackboneOutOfTime
           \/ RecoverConfirmed \/ RecoverRefuted \/ RecoverUnknown \/ RecoverDone
  <2>1. /\ pc \in {"seed", "probe", "recover"} /\ pc' \in {"probe", "recover", "inject"}
        /\ UNCHANGED <<job, f, mapping, equivs>>
    BY <1>4 DEF SeedSat, ChunkConfirmed, ChunkRefuted, ChunkUnknown, QueueEmpty, BackboneOutOfTime,
                RecoverConfirmed, RecoverRefuted, RecoverUnknown, RecoverDone, Probing, Recovering,
                InBackbone, InRecovery, engine
  <2>. QED  BY <1>1, <2>1 DEF FormulaIs
<1>5. CASE Inject
  <2>1. /\ pc = "inject" /\ pc' \in {"done", "tarjan"} /\ UNCHANGED <<job, mapping, equivs, forced>>
        /\ f' = IF forced = {} THEN f ELSE Repinned(f \cup Units(forced))
    BY <1>5 DEF Inject, engine
  <2>. QED  BY <1>1, <2>1 DEF FormulaIs, Base
<1>6. CASE TarjanAgain
  <2>1. pc = "tarjan" /\ f' = Extracted(f) /\ UNCHANGED <<job, forced, equivs>>
    BY <1>6 DEF TarjanAgain
  <2>2. f = Base(job.formula, forced) /\ equivs = {}  BY <1>1, <2>1 DEF FormulaIs
  <2>3. CASE EquivContradiction(f) /\ pc' = "done"  BY <2>3 DEF FormulaIs
  <2>4. CASE ~EquivContradiction(f) /\ mapping' = ExtractedMap(f) /\ pc' = "equiv"
    BY <2>1, <2>2, <2>4 DEF FormulaIs
  <2>. QED  BY <1>6, <2>3, <2>4 DEF TarjanAgain
<1>7. CASE StartEquiv \/ TakeClass \/ PairRefuted \/ PairConfirmed \/ PairUnknown \/ ClassDone
           \/ EquivOutOfTime \/ EquivDone
  <2>1. /\ pc \in {"equiv", "class", "pair"} /\ pc' \in {"class", "pair", "emit", "done"}
        /\ UNCHANGED <<job, f, mapping, forced>>
    BY <1>7 DEF StartEquiv, TakeClass, PairRefuted, PairConfirmed, PairUnknown, ClassDone,
                EquivOutOfTime, EquivDone, InEquiv, InClass, Recorded, engine
  <2>. QED  BY <1>1, <2>1 DEF FormulaIs
<1>8. CASE Emit
  <2>1. pc' = "done"  BY <1>8 DEF Emit
  <2>. QED  BY <2>1 DEF FormulaIs
<1>. QED  BY <1>2, <1>3, <1>4, <1>5, <1>6, <1>7, <1>8 DEF Step

\* The promise, of one formula, what is confirmed, and the pairs.
Promised(F, B, rep, S, g) ==
  \/ g = F
  \/ g = Contradiction /\ EngineOf(F) = {}
  \/ /\ B \subseteq Backbone(F)
     /\ {Positive(Sorted(p)) : p \in MappedBy(rep, S)} \subseteq EqualPairs(Base(F, B))
     /\ g = Probed(Base(F, B), MappedBy(rep, S))

LEMMA PromisedIs ==
  /\ StageAsPromised <=> (pc = "done" => Promised(job.formula, forced, mapping, equivs, f))
  /\ StageAsPromised' <=> (pc = "done" => Promised(job.formula, forced, mapping, equivs, f))'
<1>1. StageAsPromised <=> (pc = "done" => Promised(job.formula, forced, mapping, equivs, f))
  BY DEF StageAsPromised, Promised, Base, Sorted, Positive, Mapped, MappedBy, Engine, EngineOf
<1>2. StageAsPromised' <=> (pc = "done" => Promised(job.formula, forced, mapping, equivs, f))'
  BY DEF StageAsPromised, Promised, Base, Sorted, Positive, Mapped, MappedBy, Engine, EngineOf
<1>. QED  BY <1>1, <1>2

\* Without a pair, what was pinned and substituted is all that is left.
LEMMA NoPairs ==
  ASSUME NEW F, NEW rep, NEW B, B \subseteq Backbone(F), NEW g, g = Extracted(Base(F, B))
  PROVE  Promised(F, B, rep, {}, g)
<1>1. MappedBy(rep, {}) = {}  BY DEF MappedBy
<1>2. Biconditionals({}) = {}  BY DEF Biconditionals
<1>3. {Positive(Sorted(p)) : p \in {}} = {}  OBVIOUS
<1>. DEFINE C == Base(F, B)
<1>4. Probed(C, {}) = Extracted(C)
  <2>1. CASE EquivContradiction(C)  BY <2>1 DEF Probed, Extracted
  <2>2. CASE ~EquivContradiction(C)  BY <1>2, <2>2 DEF Probed
  <2>. QED  BY <2>1, <2>2
<1>5. g = Probed(C, MappedBy(rep, {}))  BY <1>1, <1>4
<1>6. {Positive(Sorted(p)) : p \in MappedBy(rep, {})} \subseteq EqualPairs(C)  BY <1>1, <1>3
<1>. HIDE DEF C
<1>. QED  BY <1>5, <1>6 DEF Promised, C

\* The steps that end the stage, each with what it leaves.
LEMMA PromisedNext ==
  ASSUME IInv, DInv, Step
  PROVE  StageAsPromised'
<1>. DEFINE F == job.formula
<1>1. Types /\ Phases /\ Sound /\ FormulaIs  BY DEF IInv, DInv
<1>3. F \in SUBSET Clauses /\ Engine = EngineOf(F)  BY <1>1, JobFormula
<1>4. SoundFor(F, mapping, Mem, class, forced, equivs, seeded)  BY <1>1 DEF Sound
<1>5. forced \in SUBSET Backbone(F)  BY <1>4 DEF SoundFor
<1>. SUFFICES ASSUME pc' = "done" PROVE Promised(F, forced, mapping, equivs, f)'
  BY PromisedIs
<1>6. CASE SolverUnavailable
  <2>1. pc = "seed" /\ UNCHANGED <<job, f>>  BY <1>6 DEF SolverUnavailable
  <2>2. f = F  BY <1>1, <2>1 DEF FormulaIs
  <2>. QED  BY <2>1, <2>2 DEF Promised
<1>7. CASE SeedUnsat
  BY <1>3, <1>7 DEF SeedUnsat, Promised
<1>8. CASE Inject
  <2>1. /\ pc = "inject" /\ UNCHANGED <<job, forced>> /\ forced # {} /\ Refuted(f')
        /\ f' = IF forced = {} THEN f ELSE Repinned(f \cup Units(forced))
    BY <1>8 DEF Inject, engine
  <2>2. f' = Base(F, forced)  BY <1>1, <2>1 DEF FormulaIs, Base
  <2>3. Refuted(Base(F, forced))  BY <2>1, <2>2
  <2>. HIDE DEF F
  <2>4. Base(F, forced) = Contradiction /\ EngineOf(F) = {}  BY <1>3, <1>5, <2>1, <2>3, BaseRefuted
  <2>. QED  BY <2>1, <2>2, <2>4 DEF Promised, F
<1>9. CASE TarjanAgain
  <2>1. /\ pc = "tarjan" /\ f' = Extracted(f) /\ UNCHANGED <<job, forced, equivs, mapping>>
    BY <1>9 DEF TarjanAgain
  <2>2. f = Base(F, forced) /\ equivs = {}  BY <1>1, <2>1 DEF FormulaIs
  <2>3. Promised(F, forced, mapping, {}, f')  BY <1>5, <2>1, <2>2, NoPairs
  <2>. QED  BY <2>1, <2>2, <2>3
<1>10. CASE StartEquiv
  <2>1. pc = "equiv" /\ UNCHANGED <<job, forced, equivs, mapping, f>>  BY <1>10 DEF StartEquiv
  <2>2. f = Extracted(Base(F, forced)) /\ equivs = {}  BY <1>1, <2>1 DEF FormulaIs
  <2>3. Promised(F, forced, mapping, {}, f)  BY <1>5, <2>2, NoPairs
  <2>. QED  BY <2>1, <2>2, <2>3
<1>11. CASE Emit
  <2>. DEFINE C == Base(F, forced)
  <2>1. /\ pc = "emit" /\ f' = f \cup Biconditionals(Mapped)
        /\ UNCHANGED <<job, mapping, forced, equivs>>
    BY <1>11 DEF Emit, engine
  <2>2. ~EquivContradiction(C) /\ f = Extracted(C) /\ mapping = ExtractedMap(C)
    BY <1>1, <2>1 DEF FormulaIs
  <2>3. Mapped = MappedBy(mapping, equivs)  BY DEF Mapped, MappedBy
  <2>4. mapping \in [Vars -> Lits] /\ equivs \in SUBSET (Lits \X Lits) /\ seeded
    BY <1>1, <2>1 DEF Types, Sound
  <2>. HIDE DEF F
  <2>5. Standing(F, mapping, equivs)  BY <1>4 DEF SoundFor
  <2>6. PICK T0 \in EngineOf(F) : TRUE  BY <1>4, <2>4 DEF SoundFor, Anchored
  <2>7. {Positive(Sorted(p)) : p \in MappedBy(mapping, equivs)} \subseteq EqualPairs(Base(F, forced))
    BY <1>3, <1>5, <2>2, <2>4, <2>5, <2>6, MappedAreEqual
  <2>8. f' = Probed(C, MappedBy(mapping, equivs))  BY <2>1, <2>2, <2>3 DEF Probed
  <2>9. Promised(F, forced, mapping, equivs, f')  BY <1>5, <2>7, <2>8 DEF Promised
  <2>. QED  BY <2>1, <2>9 DEF F
<1>12. CASE ~(SolverUnavailable \/ SeedUnsat \/ Inject \/ TarjanAgain \/ StartEquiv \/ Emit)
  <2>1. ASSUME SeedSat \/ SeedUnknown \/ ChunkConfirmed \/ ChunkRefuted \/ ChunkUnknown \/ QueueEmpty
               \/ BackboneOutOfTime \/ RecoverConfirmed \/ RecoverRefuted \/ RecoverUnknown \/ RecoverDone
        PROVE  FALSE
    BY <2>1 DEF SeedSat, SeedUnknown, ChunkConfirmed, ChunkRefuted, ChunkUnknown, QueueEmpty, InBackbone,
                BackboneOutOfTime, RecoverConfirmed, RecoverRefuted, RecoverUnknown, RecoverDone, Recovering
  <2>2. ASSUME TakeClass \/ PairRefuted \/ PairConfirmed \/ PairUnknown \/ ClassDone \/ EquivOutOfTime
               \/ EquivDone
        PROVE  FALSE
    BY <2>2 DEF TakeClass, PairRefuted, PairConfirmed, PairUnknown, ClassDone, EquivOutOfTime, EquivDone,
                Recorded, InClass
  <2>. QED  BY <1>12, <2>1, <2>2 DEF Step
<1>. QED  BY <1>6, <1>7, <1>8, <1>9, <1>10, <1>11, <1>12

LEMMA DInvNext ==
  ASSUME IInv, DInv, [Next]_vars
  PROVE  DInv'
<1>1. CASE Step
  BY <1>1, AnswersNext, PinnedNext, FormulaNext, PromisedNext DEF DInv
<1>2. CASE UNCHANGED vars
  <2>1. UNCHANGED <<job, f, mapping, seeded, top, classes, forced, equivs, class, unknowns, cut, pc>>
    BY <1>2 DEF vars
  <2>2. Mem' = Mem  BY <2>1 DEF Mem
  <2>3. Sound'  BY <2>1, <2>2 DEF DInv, Sound
  <2>4. Waiting'  BY <2>1, <2>2 DEF DInv, Waiting
  <2>5. Answered'  BY <2>1 DEF DInv, Answered
  <2>6. Pinned' /\ FormulaIs'  BY <2>1 DEF DInv, Pinned, FormulaIs
  <2>7. StageAsPromised'
    <3>1. StageAsPromised  BY DEF DInv
    <3>2. (pc = "done" => Promised(job.formula, forced, mapping, equivs, f))'  BY <2>1, <3>1, PromisedIs
    <3>. QED  BY <3>2, PromisedIs
  <2>. QED  BY <2>3, <2>4, <2>5, <2>6, <2>7 DEF DInv
<1>3. CASE Done  BY <1>2, <1>3 DEF Done
<1>. QED  BY <1>1, <1>2, <1>3 DEF Next

LEMMA InitDInv ==
  ASSUME Init
  PROVE  DInv
<1>1. Mem = {}
  <2>1. Mem = MemOf({}, {}, NoClass)  BY DEF Mem, Init
  <2>2. (UNION {}) \cup {} = {}  OBVIOUS
  <2>. QED  BY <2>1, <2>2, NoClassMembers
<1>2. Sound
  <2>1. NoClass.same = {}  BY DEF NoClass
  <2>2. Standing(job.formula, mapping, {}) /\ Present(job.formula, mapping, {})  BY DEF Standing, Present
  <2>. QED  BY <1>1, <2>1, <2>2 DEF Sound, SoundFor, Init
<1>3. Waiting /\ Answered /\ Pinned /\ FormulaIs  BY DEF Init, Waiting, Answered, Pinned, FormulaIs
<1>4. StageAsPromised  BY DEF StageAsPromised, Init
<1>. QED  BY <1>2, <1>3, <1>4 DEF DInv

LEMMA DeliversHolds ==
  ASSUME IInv, DInv
  PROVE  StageDelivers
<1>. DEFINE F == job.formula
<1>1. Types  BY DEF IInv
<1>2. Engine = EngineOf(F)  BY <1>1, JobFormula
<1>3. Sound /\ Answered /\ Pinned /\ StageAsPromised  BY DEF DInv
<1>4. ASSUME pc = "done", seeded, ~cut PROVE forced = Backbone(F)  BY <1>3, <1>4 DEF Pinned
<1>5. ASSUME pc = "done", seeded, ~cut, job.equiv, unknowns = 0, ~Refuted(f),
             NEW v \in {u \in Appearing(F) : mapping[u] = u /\ {u, -u} \cap forced = {}},
             NEW w \in {u \in Appearing(F) : mapping[u] = u /\ {u, -u} \cap forced = {}},
             NEW m \in {w, -w}, \A T \in Engine : Holds(v, T) <=> Holds(m, T)
      PROVE  Same(equivs, v, m)
  <2>. DEFINE L == LiveLits(F, mapping, forced)
  <2>1. Owed(F, mapping, {}, forced, equivs)  BY <1>3, <1>5 DEF Answered
  <2>2. Alike(EngineOf(F), v, m)  BY <1>2, <1>5 DEF Alike
  <2>. HIDE DEF F
  <2>3. v \in Vars /\ w \in Vars
    <3>1. F \in SUBSET Clauses  BY <1>1, JobFormula DEF F
    <3>2. Appearing(F) \subseteq Vars  BY <3>1, EngineModels
    <3>. QED  BY <3>2
  <2>4. ASSUME NEW u \in Vars, u \in Appearing(F), mapping[u] = u, {u, -u} \cap forced = {}
        PROVE  u \in L
    <3>1. u \in Lits /\ VarOf(u) = u
      <4>1. u \in Int /\ 0 < u  BY NumVarsAssumption DEF Vars
      <4>. QED  BY <4>1 DEF VarOf, Lits
    <3>. QED  BY <2>4, <3>1 DEF LiveLits
  <2>5. v \in L /\ w \in L  BY <2>3, <2>4
  <2>6. Closed(L)  BY LiveClosed
  <2>7. m \in L  BY <2>5, <2>6 DEF Closed
  <2>8. Covered(EngineOf(F), L, {}, equivs)  BY <2>1 DEF Owed
  <2>. HIDE DEF L
  <2>9. Settled(EngineOf(F), L, equivs, v)  BY <2>5, <2>8 DEF Covered
  <2>. QED  BY <2>2, <2>7, <2>9 DEF Settled
<1>6. CompleteWhenAnswered  BY <1>4, <1>5 DEF CompleteWhenAnswered
<1>. QED  BY <1>3, <1>6 DEF StageDelivers

\* Whatever models the solver answers with and wherever the clock runs out, the
\* stage leaves what the chain takes it to leave, and when nothing was cut off
\* or given up it has found the whole backbone and every equivalence of live
\* variables.
THEOREM StageAlwaysDelivers == Spec => []StageDelivers
<1>1. Init => IInv /\ DInv  BY InitInv, InitDInv
<1>2. IInv /\ DInv /\ [Next]_vars => (IInv /\ DInv)'  BY NextInv, DInvNext
<1>3. IInv /\ DInv => StageDelivers  BY DeliversHolds
<1>. QED  BY <1>1, <1>2, <1>3, PTL DEF Spec

=============================================================================

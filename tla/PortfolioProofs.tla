--------------------------- MODULE PortfolioProofs ---------------------------
(***************************************************************************)
(* The portfolio driver for every catalog length of goatd's, every score,  *)
(* request, clock and number of builds: what it selects, how long it may   *)
(* take, and that it is a candidate build.                                 *)
(***************************************************************************)
EXTENDS Portfolio, FoldProofs, SequenceTheorems

-----------------------------------------------------------------------------
(***************************************************************************)
(* The catalog.                                                            *)
(***************************************************************************)
Entries == ToSet(CATALOG)

LEMMA CatalogEntries ==
  /\ CATALOG \in Seq(Entries) /\ Len(CATALOG) = 7
  /\ \A e \in Entries : /\ e.name \in Names
                        /\ e.offers \in 1 .. MaxGoatdCandidates
                        /\ e.gate \in {"always", "uncapped", "generated", "coloring"}
                        /\ e.build = "goatd" \/ e.offers = 1
<1>1. CATALOG \in Seq({CATALOG[i] : i \in 1 .. 7}) /\ DOMAIN CATALOG = 1 .. 7 /\ Len(CATALOG) = 7
  BY DEF CATALOG
<1>2. ASSUME NEW i \in 1 .. 7
      PROVE  /\ CATALOG[i].name \in Names
             /\ CATALOG[i].offers \in 1 .. MaxGoatdCandidates
             /\ CATALOG[i].gate \in {"always", "uncapped", "generated", "coloring"}
             /\ CATALOG[i].build = "goatd" \/ CATALOG[i].offers = 1
  <2>1. CATALOG[i].name \in Names  BY <1>1, <1>2 DEF Names
  <2>2. i = 1 \/ i = 2 \/ i = 3 \/ i = 4 \/ i = 5 \/ i = 6 \/ i = 7  OBVIOUS
  <2>3. 1 \in 1 .. MaxGoatdCandidates /\ MaxGoatdCandidates \in 1 .. MaxGoatdCandidates
    BY PortfolioAssumption
  <2>. QED  BY <2>1, <2>2, <2>3 DEF CATALOG, Entry
<1>3. Entries = {CATALOG[i] : i \in 1 .. 7}  BY <1>1 DEF Entries, ToSet
<1>. QED  BY <1>1, <1>2, <1>3

LEMMA KnobsKeepEntries ==
  ASSUME NEW skip
  PROVE  CatalogWithKnobs(skip) \in Seq(Entries)
<1>. DEFINE St == Seq(Entries)
            Keep(q, e) == IF e.name \in skip THEN q ELSE Append(q, e)
            step == [p \in (1 .. 7) \X St |-> Keep(p[2], CATALOG[p[1]])]
            Turn(it, T) == IF T = {} THEN <<>> ELSE Keep(it[T \ {Max(T)}], CATALOG[Max(T)])
            iter == CHOOSE it : it = [T \in SUBSET (1 .. 7) |-> Turn(it, T)]
<1>1. \A i \in 1 .. 7 : CATALOG[i] \in Entries  BY CatalogEntries, ElementOfSeq
<1>2. step \in [(1 .. 7) \X St -> St] /\ <<>> \in St
  BY <1>1
<1>3. CatalogWithKnobs(skip) = iter[1 .. 7]
  <2>1. DOMAIN CATALOG = 1 .. 7  BY CatalogEntries
  <2>. QED  BY <2>1, Zenon DEF CatalogWithKnobs, FoldLeft, MapThenFoldSet
<1>4. PICK g \in [SUBSET (1 .. 7) -> St] : IsIteration(g, 7, <<>>, step)
  <2>. HIDE DEF step, St
  <2>. QED  BY <1>2, 7 \in Nat, IterationExists
<1>5. \A T \in (SUBSET (1 .. 7)) \ {{}} : Max(T) \in 1 .. 7  BY MaxOfNumbers
<1>6. g = [T \in SUBSET (1 .. 7) |-> Turn(g, T)]
  <2>1. \A T \in SUBSET (1 .. 7) : T \ {Max(T)} \in SUBSET (1 .. 7)  OBVIOUS
  <2>. QED  BY <1>4, <1>5, <2>1 DEF IsIteration
<1>7. iter = [T \in SUBSET (1 .. 7) |-> Turn(iter, T)]
  <2>. HIDE DEF Turn
  <2>. QED  BY <1>6
<1>8. Iterates(iter, 7, St, <<>>, step)
  <2>. HIDE DEF iter
  <2>. QED  BY <1>5, <1>7 DEF Iterates
<1>9. GoesThrough(iter, 7, St, step)
  <2>. HIDE DEF iter, step, St
  <2>. QED  BY <1>2, <1>8, 7 \in Nat, IterationRuns
<1>. HIDE DEF iter, step, St
<1>10. iter[1 .. 7] \in St  BY <1>9, 7 \in 0 .. 7 DEF GoesThrough
<1>. QED  BY <1>3, <1>10 DEF St

LEMMA WalkEntries ==
  ASSUME NEW skip, NEW dense
  PROVE  WalkOrder(CatalogWithKnobs(skip), dense) \in Seq(Entries)
<1>. DEFINE catalog == CatalogWithKnobs(skip)
            ahead == {p \in PlaceOf("flowcutter-incidence", catalog)
                             \X PlaceOf("flowcutter-primal", catalog) : p[1] < p[2]}
            p == CHOOSE p \in ahead : TRUE
<1>1. catalog \in Seq(Entries)  BY KnobsKeepEntries
<1>. HIDE DEF catalog
<1>2. CASE dense /\ ahead # {}
  <2>1. p \in ahead  BY <1>2
  <2>2. p[1] \in 1 .. Len(catalog) /\ p[2] \in 1 .. Len(catalog)
    BY <1>1, <2>1 DEF PlaceOf
  <2>. HIDE DEF p
  <2>3. RemoveAt(catalog, p[2]) \in Seq(Entries) /\ Len(RemoveAt(catalog, p[2])) = Len(catalog) - 1
    <3>. DEFINE before == SubSeq(catalog, 1, p[2] - 1)
                after == SubSeq(catalog, p[2] + 1, Len(catalog))
    <3>1. before \in Seq(Entries) /\ Len(before) = p[2] - 1  BY <1>1, <2>2
    <3>2. after \in Seq(Entries) /\ Len(after) = Len(catalog) - p[2]  BY <1>1, <2>2
    <3>. HIDE DEF before, after
    <3>3. before \o after \in Seq(Entries) /\ Len(before \o after) = Len(catalog) - 1
      BY <2>2, <3>1, <3>2, ConcatProperties
    <3>. QED  BY <3>3 DEF RemoveAt, before, after
  <2>4. catalog[p[2]] \in Entries  BY <1>1, <2>2
  <2>5. InsertAt(RemoveAt(catalog, p[2]), p[1], catalog[p[2]]) \in Seq(Entries)
    BY <2>2, <2>3, <2>4 DEF InsertAt
  <2>6. WalkOrder(catalog, dense) = InsertAt(RemoveAt(catalog, p[2]), p[1], catalog[p[2]])
    BY <1>2 DEF WalkOrder, p
  <2>. QED  BY <2>5, <2>6 DEF catalog
<1>3. CASE ~ (dense /\ ahead # {})
  <2>1. WalkOrder(catalog, dense) = catalog  BY <1>3 DEF WalkOrder
  <2>. QED  BY <1>1, <2>1 DEF catalog
<1>. QED  BY <1>2, <1>3

-----------------------------------------------------------------------------
(***************************************************************************)
(* What the walk keeps of the candidates built: everything when the        *)
(* selection needs it, else the cheapest, and always the first one the     *)
(* caller asked for.                                                       *)
(***************************************************************************)
RunStates ==
  [share : (Nat \ {0}) \cup {None}, wall : (Nat \ {0}) \cup {None}, behind : BOOLEAN,
   firstFlowcutter : Nat \cup {None}, flowcutter : Nat, cache : BOOLEAN,
   best : Candidates \cup {None}, cands : Seq(Candidates), preferred : Candidates \cup {None}]

Retains(r) == r.peak \/ r.keep > 1 \/ (r.ranker /\ ~r.peak)

KeepsAll(r, s, made) == s.cands = IF Retains(r) THEN made ELSE <<>>

KeepsCheapest(r, s, made) ==
  /\ r.peak \/ made = <<>> => s.best = None
  /\ ~r.peak /\ made # <<>> =>
       \E i \in 1 .. Len(made) :
         /\ s.best = made[i]
         /\ \A j \in 1 .. Len(made) :
              Cost(made[i]) < Cost(made[j]) \/ (Cost(made[i]) = Cost(made[j]) /\ i <= j)

KeepsPreferred(r, s, made) ==
  \/ s.preferred = None /\ \A j \in 1 .. Len(made) : ~Prefers(r, made[j])
  \/ \E i \in 1 .. Len(made) :
       /\ s.preferred = made[i] /\ Prefers(r, made[i])
       /\ \A j \in 1 .. Len(made) : Prefers(r, made[j]) => i <= j

Kept(r, s, made) == KeepsAll(r, s, made) /\ KeepsCheapest(r, s, made) /\ KeepsPreferred(r, s, made)

LEMMA CandidateScores ==
  ASSUME NEW c \in Candidates
  PROVE  /\ c.tree \in Trees /\ Cost(c) \in Nat /\ Agg(c) \in Nat /\ Metric(c) \in Nat
         /\ Score[c.tree].peak \in Nat /\ Score[c.tree].stddev \in Nat
         /\ Score[c.tree].heavyNode \in BOOLEAN
         /\ c # None
<1>1. c.tree \in Trees  BY DEF Candidates
<1>2. None \notin Candidates  BY RequestsAssumption
<1>. QED  BY <1>1, <1>2, PortfolioAssumption DEF Cost, Agg, Metric

LEMMA FoldTyped ==
  ASSUME NEW s \in RunStates, NEW c \in Candidates
  PROVE  /\ Fold(s, c) \in RunStates
         /\ Fold(s, c).share = s.share /\ Fold(s, c).wall = s.wall /\ Fold(s, c).behind = s.behind
         /\ Fold(s, c).firstFlowcutter = s.firstFlowcutter
         /\ Fold(s, c).flowcutter = s.flowcutter /\ Fold(s, c).cache = s.cache
         /\ Fold(s, c).preferred = IF s.preferred = None /\ Prefers(req, c) THEN c ELSE s.preferred
         /\ Fold(s, c).best = IF ~req.peak /\ (s.best = None \/ Cost(c) < Cost(s.best)) THEN c ELSE s.best
         /\ Fold(s, c).cands = IF Retains(req) THEN Append(s.cands, c) ELSE s.cands
<1>1. Append(s.cands, c) \in Seq(Candidates)  BY DEF RunStates
<1>. DEFINE best == IF ~req.peak /\ (s.best = None \/ Cost(c) < Cost(s.best)) THEN c ELSE s.best
            preferred == IF s.preferred = None /\ Prefers(req, c) THEN c ELSE s.preferred
            cands == IF Retains(req) THEN Append(s.cands, c) ELSE s.cands
<1>2. /\ best \in Candidates \cup {None} /\ preferred \in Candidates \cup {None}
      /\ cands \in Seq(Candidates)
  BY <1>1 DEF RunStates
<1>3. Fold(s, c) = [s EXCEPT !.preferred = preferred, !.best = best, !.cands = cands]
  BY DEF Fold, Retains, Ranked, RunStates
<1>. HIDE DEF best, preferred, cands
<1>4. /\ Fold(s, c) \in RunStates
      /\ Fold(s, c).share = s.share /\ Fold(s, c).wall = s.wall /\ Fold(s, c).behind = s.behind
      /\ Fold(s, c).firstFlowcutter = s.firstFlowcutter
      /\ Fold(s, c).flowcutter = s.flowcutter /\ Fold(s, c).cache = s.cache
      /\ Fold(s, c).preferred = preferred /\ Fold(s, c).best = best /\ Fold(s, c).cands = cands
  BY <1>2, <1>3 DEF RunStates
<1>. QED  BY <1>4 DEF best, preferred, cands

LEMMA FoldKeeps ==
  ASSUME NEW s \in RunStates, NEW made \in Seq(Candidates), NEW c \in Candidates,
         Kept(req, s, made), req.peak \in BOOLEAN
  PROVE  Kept(req, Fold(s, c), Append(made, c))
<1>. DEFINE more == Append(made, c)
            t == Fold(s, c)
<1>1. /\ more \in Seq(Candidates) /\ Len(more) = Len(made) + 1 /\ more # <<>>
      /\ more[Len(made) + 1] = c /\ \A i \in 1 .. Len(made) : more[i] = made[i]
  OBVIOUS
<1>2. \A i \in 1 .. Len(made) : made[i] \in Candidates /\ made[i] # None /\ Cost(made[i]) \in Nat
  BY CandidateScores, ElementOfSeq
<1>3. c # None /\ Cost(c) \in Nat  BY CandidateScores
<1>4. KeepsAll(req, t, more)  BY FoldTyped DEF Kept, KeepsAll
<1>5. KeepsCheapest(req, t, more)
  <2>1. t.best = IF ~req.peak /\ (s.best = None \/ Cost(c) < Cost(s.best)) THEN c ELSE s.best
    BY FoldTyped
  <2>. HIDE DEF t, more
  <2>2. CASE req.peak
    BY <1>1, <2>1, <2>2 DEF Kept, KeepsCheapest
  <2>3. CASE ~req.peak /\ made = <<>>
    <3>1. s.best = None /\ Len(more) = 1 /\ more[1] = c /\ t.best = c
      BY <1>1, <2>1, <2>3 DEF Kept, KeepsCheapest
    <3>. QED  BY <1>1, <2>3, <3>1 DEF KeepsCheapest
  <2>4. CASE ~req.peak /\ made # <<>>
    <3>1. PICK i \in 1 .. Len(made) :
            /\ s.best = made[i]
            /\ \A j \in 1 .. Len(made) :
                 Cost(made[i]) < Cost(made[j]) \/ (Cost(made[i]) = Cost(made[j]) /\ i <= j)
      BY <2>4 DEF Kept, KeepsCheapest
    <3>2. CASE Cost(c) < Cost(s.best)
      <4>1. t.best = c  BY <2>1, <2>4, <3>2
      <4>2. \A j \in 1 .. Len(made) : Cost(c) < Cost(made[j])  BY <1>2, <1>3, <3>1, <3>2
      <4>3. /\ t.best = more[Len(made) + 1]
            /\ \A j \in 1 .. Len(more) :
                 \/ Cost(more[Len(made) + 1]) < Cost(more[j])
                 \/ Cost(more[Len(made) + 1]) = Cost(more[j]) /\ Len(made) + 1 <= j
        BY <1>1, <4>1, <4>2
      <4>. QED  BY <1>1, <2>4, <4>3 DEF KeepsCheapest
    <3>3. CASE ~ (Cost(c) < Cost(s.best))
      <4>1. t.best = s.best  BY <1>2, <2>1, <3>1, <3>3
      <4>2. Cost(made[i]) <= Cost(c)  BY <1>2, <1>3, <3>1, <3>3
      <4>3. /\ t.best = more[i] /\ i \in 1 .. Len(more)
            /\ \A j \in 1 .. Len(more) :
                 \/ Cost(more[i]) < Cost(more[j])
                 \/ Cost(more[i]) = Cost(more[j]) /\ i <= j
        BY <1>1, <1>2, <1>3, <3>1, <4>1, <4>2
      <4>. QED  BY <1>1, <2>4, <4>3 DEF KeepsCheapest
    <3>. QED  BY <3>2, <3>3
  <2>. QED  BY <2>2, <2>3, <2>4
<1>6. KeepsPreferred(req, t, more)
  <2>1. t.preferred = IF s.preferred = None /\ Prefers(req, c) THEN c ELSE s.preferred  BY FoldTyped
  <2>. HIDE DEF t, more
  <2>2. CASE s.preferred = None /\ \A j \in 1 .. Len(made) : ~Prefers(req, made[j])
    <3>1. CASE Prefers(req, c)
      <4>1. /\ t.preferred = more[Len(made) + 1] /\ Prefers(req, more[Len(made) + 1])
            /\ \A j \in 1 .. Len(more) : Prefers(req, more[j]) => Len(made) + 1 <= j
        BY <1>1, <2>1, <2>2, <3>1
      <4>. QED  BY <1>1, <4>1 DEF KeepsPreferred
    <3>2. CASE ~Prefers(req, c)
      BY <1>1, <2>1, <2>2, <3>2 DEF KeepsPreferred
    <3>. QED  BY <3>1, <3>2
  <2>3. CASE \E i \in 1 .. Len(made) :
               /\ s.preferred = made[i] /\ Prefers(req, made[i])
               /\ \A j \in 1 .. Len(made) : Prefers(req, made[j]) => i <= j
    <3>1. PICK i \in 1 .. Len(made) :
            /\ s.preferred = made[i] /\ Prefers(req, made[i])
            /\ \A j \in 1 .. Len(made) : Prefers(req, made[j]) => i <= j
      BY <2>3
    <3>2. /\ t.preferred = more[i] /\ i \in 1 .. Len(more) /\ Prefers(req, more[i])
          /\ \A j \in 1 .. Len(more) : Prefers(req, more[j]) => i <= j
      BY <1>1, <1>2, <2>1, <3>1
    <3>. QED  BY <3>2 DEF KeepsPreferred
  <2>. QED  BY <2>2, <2>3 DEF Kept, KeepsPreferred
<1>. QED  BY <1>4, <1>5, <1>6 DEF Kept

\* Folding what an entry offers goes through one state of the run per tree.
LEMMA OfferedAreFolded ==
  ASSUME NEW s \in RunStates, NEW offered \in Seq(Candidates)
  PROVE  \E states \in [0 .. Len(offered) -> RunStates] :
           /\ states[0] = s /\ states[Len(offered)] = FoldLeft(Fold, s, offered)
           /\ \A k \in 1 .. Len(offered) : states[k] = Fold(states[k - 1], offered[k])
<1>. DEFINE n == Len(offered)
            step == [p \in (1 .. n) \X RunStates |-> Fold(p[2], offered[p[1]])]
            Turn(it, T) == IF T = {} THEN s ELSE Fold(it[T \ {Max(T)}], offered[Max(T)])
            iter == CHOOSE it : it = [T \in SUBSET (1 .. n) |-> Turn(it, T)]
<1>1. n \in Nat /\ \A i \in 1 .. n : offered[i] \in Candidates  BY ElementOfSeq
<1>2. step \in [(1 .. n) \X RunStates -> RunStates]  BY <1>1, FoldTyped
<1>3. FoldLeft(Fold, s, offered) = iter[1 .. n]
  <2>1. DOMAIN offered = 1 .. n  OBVIOUS
  <2>. QED  BY <2>1, Zenon DEF FoldLeft, MapThenFoldSet
<1>4. PICK g \in [SUBSET (1 .. n) -> RunStates] : IsIteration(g, n, s, step)
  <2>. HIDE DEF step
  <2>. QED  BY <1>1, <1>2, IterationExists
<1>5. \A T \in (SUBSET (1 .. n)) \ {{}} : Max(T) \in 1 .. n
  BY <1>1, MaxOfNumbers
<1>6. g = [T \in SUBSET (1 .. n) |-> Turn(g, T)]
  <2>1. \A T \in SUBSET (1 .. n) : T \ {Max(T)} \in SUBSET (1 .. n)  OBVIOUS
  <2>. QED  BY <1>4, <1>5, <2>1 DEF IsIteration
<1>7. iter = [T \in SUBSET (1 .. n) |-> Turn(iter, T)]
  <2>. HIDE DEF Turn, n
  <2>. QED  BY <1>6
<1>8. Iterates(iter, n, RunStates, s, step)
  <2>. HIDE DEF iter
  <2>. QED  BY <1>5, <1>7 DEF Iterates
<1>9. GoesThrough(iter, n, RunStates, step)
  <2>. HIDE DEF iter, step
  <2>. QED  BY <1>1, <1>2, <1>8, IterationRuns
<1>10. [k \in 0 .. n |-> iter[1 .. k]] \in [0 .. n -> RunStates]
  <2>. HIDE DEF iter, step, n
  <2>. QED  BY <1>9 DEF GoesThrough
<1>11. iter[1 .. 0] = s
  <2>. HIDE DEF iter, step, n
  <2>1. 1 .. 0 = {}  OBVIOUS
  <2>. QED  BY <1>8, <2>1 DEF Iterates
<1>12. \A k \in 1 .. n : iter[1 .. k] = Fold(iter[1 .. k - 1], offered[k])
  <2>1. \A k \in 1 .. n, v \in RunStates : step[<<k, v>>] = Fold(v, offered[k])  OBVIOUS
  <2>2. \A k \in 1 .. n : k - 1 \in 0 .. n  BY <1>1
  <2>. HIDE DEF iter, step, n
  <2>. QED  BY <1>9, <2>1, <2>2 DEF GoesThrough
<1>. DEFINE states == [k \in 0 .. n |-> iter[1 .. k]]
<1>13. /\ states[0] = s /\ states[n] = FoldLeft(Fold, s, offered)
       /\ \A k \in 1 .. n : states[k] = Fold(states[k - 1], offered[k])
  <2>. HIDE DEF iter, step, n
  <2>. QED  BY <1>1, <1>3, <1>11, <1>12
<1>. HIDE DEF states, iter
<1>. QED  BY <1>10, <1>13 DEF states

LEMMA FoldsKeep ==
  ASSUME NEW s \in RunStates, NEW made \in Seq(Candidates), NEW offered \in Seq(Candidates),
         Kept(req, s, made), req.peak \in BOOLEAN
  PROVE  LET t == FoldLeft(Fold, s, offered)
         IN  /\ t \in RunStates /\ Kept(req, t, made \o offered)
             /\ t.share = s.share /\ t.wall = s.wall /\ t.behind = s.behind
             /\ t.firstFlowcutter = s.firstFlowcutter /\ t.flowcutter = s.flowcutter
             /\ t.cache = s.cache
<1>1. PICK states \in [0 .. Len(offered) -> RunStates] :
        /\ states[0] = s /\ states[Len(offered)] = FoldLeft(Fold, s, offered)
        /\ \A k \in 1 .. Len(offered) : states[k] = Fold(states[k - 1], offered[k])
  BY OfferedAreFolded
<1>. DEFINE Same(t) == /\ t.share = s.share /\ t.wall = s.wall /\ t.behind = s.behind
                       /\ t.firstFlowcutter = s.firstFlowcutter /\ t.flowcutter = s.flowcutter
                       /\ t.cache = s.cache
            first(k) == SubSeq(offered, 1, k)
            Good == {k \in 0 .. Len(offered) : Kept(req, states[k], made \o first(k)) /\ Same(states[k])}
<1>2. 0 \in Good
  <2>1. made \o first(0) = made  BY ConcatEmptySeq, SubSeqEmpty
  <2>2. 0 \in 0 .. Len(offered) /\ states[0] = s  BY <1>1
  <2>. HIDE DEF first
  <2>. QED  BY <2>1, <2>2
<1>3. ASSUME NEW k \in 0 .. Len(offered) - 1, k \in Good
      PROVE  k + 1 \in Good
  <2>1. k + 1 \in 1 .. Len(offered) /\ offered[k + 1] \in Candidates  BY ElementOfSeq
  <2>2. states[k + 1] = Fold(states[k], offered[k + 1]) /\ states[k] \in RunStates  BY <1>1, <2>1
  <2>3. first(k) \in Seq(Candidates) /\ first(k + 1) = Append(first(k), offered[k + 1])
    <3>1. /\ first(k) \in Seq(Candidates) /\ Len(first(k)) = k
          /\ first(k + 1) \in Seq(Candidates) /\ Len(first(k + 1)) = k + 1
          /\ \A i \in 1 .. k : first(k)[i] = offered[i]
          /\ \A i \in 1 .. k + 1 : first(k + 1)[i] = offered[i]
      BY <2>1
    <3>. HIDE DEF first
    <3>. QED  BY <2>1, <3>1
  <2>4. /\ made \o first(k) \in Seq(Candidates)
        /\ made \o first(k + 1) = Append(made \o first(k), offered[k + 1])
    <3>. DEFINE e == offered[k + 1]
                p == first(k)
    <3>. HIDE DEF first, e
    <3>1. p \in Seq(Candidates) /\ e \in Candidates  BY <2>1, <2>3 DEF e
    <3>. HIDE DEF p
    <3>2. made \o p \in Seq(Candidates) /\ made \o Append(p, e) = Append(made \o p, e)
      <4>1. Append(p, e) = p \o <<e>> /\ <<e>> \in Seq(Candidates)  BY <3>1
      <4>2. made \o p \in Seq(Candidates)  BY <3>1
      <4>3. Append(made \o p, e) = (made \o p) \o <<e>>  BY <3>1, <4>2
      <4>. QED  BY <3>1, <4>1, <4>2, <4>3, ConcatAssociative
    <3>. QED  BY <2>3, <3>2 DEF p, e
  <2>5. Kept(req, states[k], made \o first(k)) /\ Same(states[k])  BY <1>3
  <2>. HIDE DEF first
  <2>6. Kept(req, states[k + 1], made \o first(k + 1))
    BY <2>1, <2>2, <2>4, <2>5, FoldKeeps
  <2>7. Same(states[k + 1])  BY SMTT(20), <2>1, <2>2, <2>5, FoldTyped
  <2>. QED  BY <2>1, <2>6, <2>7
<1>4. 0 .. Len(offered) \subseteq Good
  <2>. HIDE DEF Good
  <2>. QED  BY <1>2, <1>3, Len(offered) \in Nat, BoundedInduction
<1>5. first(Len(offered)) = offered  BY SubSeqFull
<1>6. Kept(req, states[Len(offered)], made \o offered) /\ Same(states[Len(offered)])
  BY <1>4, <1>5, Len(offered) \in 0 .. Len(offered)
<1>. QED  BY <1>1, <1>6, Len(offered) \in 0 .. Len(offered)

-----------------------------------------------------------------------------
(***************************************************************************)
(* The picks.                                                              *)
(***************************************************************************)

\* The greedy pass ends at the first of the least values.
LEMMA GreedyIsFirstLeast ==
  ASSUME NEW n \in Nat \ {0}, NEW values \in [1 .. n -> Nat \cup {None}]
  PROVE  /\ GreedyIndex(values) \in 1 .. n
         /\ \A j \in 1 .. n : values[j] # None =>
              /\ values[GreedyIndex(values)] # None
              /\ \/ values[GreedyIndex(values)] < values[j]
                 \/ values[GreedyIndex(values)] = values[j] /\ GreedyIndex(values) <= j
<1>. DEFINE Better(at, i) == IF values[i] # None /\ (values[at] = None \/ values[i] < values[at])
                             THEN i ELSE at
            places == [i \in DOMAIN values |-> i]
            step == [p \in (1 .. n) \X (1 .. n) |-> Better(p[2], p[1])]
            Turn(it, T) == IF T = {} THEN 1 ELSE Better(it[T \ {Max(T)}], places[Max(T)])
            iter == CHOOSE it : it = [T \in SUBSET (1 .. n) |-> Turn(it, T)]
<1>1. n \in Nat /\ 1 \in 1 .. n /\ DOMAIN places = 1 .. n  OBVIOUS
<1>2. step \in [(1 .. n) \X (1 .. n) -> 1 .. n]  OBVIOUS
<1>3. GreedyIndex(values) = iter[1 .. n]
  BY <1>1, Zenon DEF GreedyIndex, FoldLeft, MapThenFoldSet
<1>4. PICK g \in [SUBSET (1 .. n) -> 1 .. n] : IsIteration(g, n, 1, step)
  <2>. HIDE DEF step
  <2>. QED  BY <1>1, <1>2, IterationExists
<1>5. \A T \in (SUBSET (1 .. n)) \ {{}} : Max(T) \in 1 .. n
  BY <1>1, MaxOfNumbers
<1>6. g = [T \in SUBSET (1 .. n) |-> Turn(g, T)]
  <2>1. \A T \in SUBSET (1 .. n) : T \ {Max(T)} \in SUBSET (1 .. n)  OBVIOUS
  <2>2. \A k, v \in 1 .. n : step[<<k, v>>] = Better(v, places[k])  OBVIOUS
  <2>. HIDE DEF step, Better, places
  <2>. QED  BY <1>4, <1>5, <2>1, <2>2 DEF IsIteration
<1>7. iter = [T \in SUBSET (1 .. n) |-> Turn(iter, T)]
  <2>. HIDE DEF Turn
  <2>. QED  BY <1>6
<1>8. Iterates(iter, n, 1 .. n, 1, step)
  <2>2. \A k, v \in 1 .. n : step[<<k, v>>] = Better(v, places[k])  OBVIOUS
  <2>. HIDE DEF iter, step, Better, places
  <2>. QED  BY <1>5, <1>7, <2>2 DEF Iterates
<1>9. GoesThrough(iter, n, 1 .. n, step)
  <2>. HIDE DEF iter, step
  <2>. QED  BY <1>1, <1>2, <1>8, IterationRuns
<1>10. /\ \A k \in 0 .. n : iter[1 .. k] \in 1 .. n
       /\ \A k \in 1 .. n : iter[1 .. k] = Better(iter[1 .. k - 1], k)
  <2>1. \A k, v \in 1 .. n : step[<<k, v>>] = Better(v, k)  OBVIOUS
  <2>2. \A k \in 1 .. n : k - 1 \in 0 .. n  BY <1>1
  <2>. HIDE DEF iter, step, Better
  <2>. QED  BY <1>9, <2>1, <2>2 DEF GoesThrough
<1>. DEFINE at(k) == iter[1 .. k]
            FirstUpto(k) == /\ at(k) <= k \/ at(k) = 1
                            /\ \A j \in 1 .. k : values[j] # None =>
                                 /\ values[at(k)] # None
                                 /\ \/ values[at(k)] < values[j]
                                    \/ values[at(k)] = values[j] /\ at(k) <= j
            Good == {k \in 0 .. n : FirstUpto(k)}
<1>11. 0 \in Good
  <2>1. iter[1 .. 0] = 1
    <3>1. 1 .. 0 = {}  OBVIOUS
    <3>. HIDE DEF iter, step
    <3>. QED  BY <1>8, <3>1 DEF Iterates
  <2>. HIDE DEF iter
  <2>. QED  BY <2>1
<1>12. ASSUME NEW k \in 0 .. n - 1, k \in Good
       PROVE  k + 1 \in Good
  <2>. DEFINE a == at(k)
              b == at(k + 1)
  <2>. HIDE DEF iter
  <2>1. a \in 1 .. n /\ b \in 1 .. n /\ k + 1 \in 1 .. n /\ (k + 1) - 1 = k  BY <1>10
  <2>2. b = Better(a, k + 1)  BY <1>10, <2>1
  <2>3. /\ a <= k \/ a = 1
        /\ \A j \in 1 .. k : values[j] # None =>
             values[a] # None /\ (values[a] < values[j] \/ (values[a] = values[j] /\ a <= j))
    BY <1>12
  <2>. HIDE DEF a, b
  <2>4. None \notin Nat /\ \A j \in 1 .. n : values[j] # None => values[j] \in Nat
    BY RequestsAssumption
  <2>5. /\ b <= k + 1 \/ b = 1
        /\ \A j \in 1 .. k + 1 : values[j] # None =>
             values[b] # None /\ (values[b] < values[j] \/ (values[b] = values[j] /\ b <= j))
    <3>1. CASE values[k + 1] # None /\ (values[a] = None \/ values[k + 1] < values[a])
      <4>1. b = k + 1  BY <2>2, <3>1
      <4>2. \A j \in 1 .. k : values[j] # None => values[b] < values[j]
        BY <2>1, <2>3, <2>4, <3>1, <4>1
      <4>. QED  BY <2>1, <3>1, <4>1, <4>2
    <3>2. CASE ~ (values[k + 1] # None /\ (values[a] = None \/ values[k + 1] < values[a]))
      <4>1. b = a  BY <2>2, <3>2
      <4>2. values[k + 1] # None => values[b] # None /\ values[b] <= values[k + 1] /\ b <= k + 1
        BY <2>1, <2>3, <2>4, <3>2, <4>1
      <4>. QED  BY <2>1, <2>3, <2>4, <4>1, <4>2
    <3>. QED  BY <3>1, <3>2
  <2>. QED  BY <2>1, <2>5 DEF b
<1>13. 0 .. n \subseteq Good
  <2>. HIDE DEF Good
  <2>. QED  BY <1>1, <1>11, <1>12, BoundedInduction
<1>14. FirstUpto(n) /\ at(n) \in 1 .. n
  <2>. HIDE DEF iter
  <2>. QED  BY <1>1, <1>10, <1>13, n \in 0 .. n
<1>. HIDE DEF iter
<1>. QED  BY <1>3, <1>14

\* WithinMargin, WithinBand and the rules of WinnerFollowsTheRules, of what was
\* made for a request.
InMargin(r, made) ==
  {i \in DOMAIN made : r.margin # None => \A j \in DOMAIN made : Cost(made[i]) <= Cost(made[j]) + r.margin}
InBand(r, made) ==
  {i \in DOMAIN made : \A j \in DOMAIN made :
     Score[made[i].tree].peak * ToleranceScale <= Score[made[j].tree].peak * (ToleranceScale + r.tolerance)}

CostsOf(made) == [i \in DOMAIN made |-> Cost(made[i])]
StddevsOf(made) == [i \in DOMAIN made |-> Score[made[i].tree].stddev]
AggsOf(made) == [i \in DOMAIN made |-> Agg(made[i])]

Rules(r, made, winner) ==
  LET preferred == {i \in DOMAIN made : Prefers(r, made[i])}
  IN  \E i \in DOMAIN made :
        /\ winner = made[i]
        /\ IF preferred # {} THEN i \in preferred /\ \A j \in preferred : i <= j
           ELSE IF r.peak THEN FirstLeast(i, InBand(r, made), StddevsOf(made))
           ELSE IF r.ranker THEN FirstLeast(i, InMargin(r, made), AggsOf(made))
           ELSE FirstLeast(i, DOMAIN made, CostsOf(made))

LEMMA RulesAreTheProperty ==
  WinnerFollowsTheRules <=> (Won => Rules(req, built, answer))
<1>1. WithinMargin = InMargin(req, built)  BY DEF WithinMargin, InMargin, CostAt
<1>2. WithinBand = InBand(req, built)  BY DEF WithinBand, InBand, PeakAt
<1>3. CostAt = CostsOf(built) /\ StddevAt = StddevsOf(built) /\ AggAt = AggsOf(built)
  BY DEF CostAt, CostsOf, StddevAt, StddevsOf, AggAt, AggsOf
<1>. QED  BY <1>1, <1>2, <1>3, Zenon DEF WinnerFollowsTheRules, Rules

\* The first of the least by some score exists among any places.
LEMMA FirstLeastExists ==
  ASSUME NEW n \in Nat, NEW P \in SUBSET (1 .. n), P # {}, NEW f \in [1 .. n -> Nat]
  PROVE  \E i \in P : FirstLeast(i, P, f)
<1>. DEFINE values == {f[i] : i \in P}
<1>1. values \in SUBSET Nat /\ values # {}  OBVIOUS
<1>2. PICK v \in values : \A u \in values : v <= u
  <2>. HIDE DEF values
  <2>. QED  BY <1>1, LeastElement
<1>. DEFINE least == {j \in P : f[j] = v}
<1>3. least \in SUBSET Nat /\ least # {}
  <2>1. PICK j \in P : f[j] = v  BY <1>2
  <2>2. j \in least /\ \A k \in least : k \in P  BY <2>1
  <2>3. \A k \in P : k \in Nat
    <3>1. \A k \in 1 .. n : k \in Nat  OBVIOUS
    <3>. QED  BY <3>1
  <2>. HIDE DEF least
  <2>. QED  BY <2>2, <2>3
<1>4. PICK i \in least : \A j \in least : i <= j
  <2>. HIDE DEF least
  <2>. QED  BY <1>3, LeastElement
<1>5. ASSUME NEW j \in P
      PROVE  f[i] < f[j] \/ (f[i] = f[j] /\ i <= j)
  <2>1. f[j] \in values /\ f[j] \in Nat /\ v \in Nat  BY <1>1, <1>2
  <2>2. v <= f[j] /\ f[i] = v  BY <1>2, <1>4, <2>1
  <2>3. f[j] = v => i <= j  BY <1>4
  <2>. QED  BY <2>1, <2>2, <2>3
<1>. QED  BY <1>4, <1>5 DEF FirstLeast

\* The ranker's pick.
LEMMA AggPick ==
  ASSUME NEW made \in Seq(Candidates), made # <<>>, req.margin \in Nat \cup {None}
  PROVE  \E i \in 1 .. Len(made) :
           SelectAgg(made) = made[i] /\ FirstLeast(i, InMargin(req, made), AggsOf(made))
<1>. DEFINE n == Len(made)
            costs == [i \in DOMAIN made |-> Cost(made[i])]
            g == GreedyIndex(costs)
            Eligible(c) == req.margin = None \/ Cost(c) <= Cost(made[g]) + req.margin
            aggs == [i \in DOMAIN made |-> IF Eligible(made[i]) THEN Agg(made[i]) ELSE None]
            w == GreedyIndex(aggs)
<1>1. n \in Nat \ {0} /\ DOMAIN made = 1 .. n  BY EmptySeq
<1>2. \A i \in 1 .. n : Cost(made[i]) \in Nat /\ Agg(made[i]) \in Nat
  BY CandidateScores, ElementOfSeq
<1>3. None \notin Nat  BY RequestsAssumption
<1>4. costs \in [1 .. n -> Nat \cup {None}] /\ \A i \in 1 .. n : costs[i] = Cost(made[i]) /\ costs[i] # None
  <2>. HIDE DEF n
  <2>. QED  BY <1>1, <1>2, <1>3
<1>5. g \in 1 .. n /\ \A j \in 1 .. n : Cost(made[g]) <= Cost(made[j])
  <2>. HIDE DEF n, costs
  <2>1. g \in 1 .. n /\ \A j \in 1 .. n : costs[g] < costs[j] \/ costs[g] = costs[j]
    BY <1>1, <1>4, GreedyIsFirstLeast
  <2>. HIDE DEF g
  <2>. QED  BY <1>2, <1>4, <2>1
<1>6. InMargin(req, made) = {i \in 1 .. n : Eligible(made[i])}
  <2>. HIDE DEF n, g
  <2>1. ASSUME NEW i \in 1 .. n
        PROVE  Eligible(made[i]) <=>
                 (req.margin # None => \A j \in 1 .. n : Cost(made[i]) <= Cost(made[j]) + req.margin)
    <3>1. CASE req.margin = None  BY <3>1
    <3>2. CASE req.margin # None
      <4>1. req.margin \in Nat  BY <3>2
      <4>2. Cost(made[i]) <= Cost(made[g]) + req.margin =>
              \A j \in 1 .. n : Cost(made[i]) <= Cost(made[j]) + req.margin
        BY <1>2, <1>5, <4>1
      <4>. QED  BY <1>5, <3>2, <4>2
    <3>. QED  BY <3>1, <3>2
  <2>. HIDE DEF Eligible
  <2>. QED  BY <1>1, <2>1 DEF InMargin
<1>7. g \in InMargin(req, made)
  <2>. HIDE DEF n, g
  <2>. QED  BY <1>2, <1>5, <1>6
<1>8. /\ aggs \in [1 .. n -> Nat \cup {None}]
      /\ \A i \in 1 .. n : aggs[i] # None => i \in InMargin(req, made)
      /\ \A i \in InMargin(req, made) : aggs[i] # None /\ aggs[i] = AggsOf(made)[i]
  <2>. HIDE DEF n, g, Eligible
  <2>. QED  BY <1>1, <1>2, <1>3, <1>6 DEF AggsOf
<1>9. /\ w \in 1 .. n
      /\ \A j \in 1 .. n : aggs[j] # None =>
           aggs[w] # None /\ (aggs[w] < aggs[j] \/ (aggs[w] = aggs[j] /\ w <= j))
  <2>. HIDE DEF n, aggs
  <2>. QED  BY <1>1, <1>8, GreedyIsFirstLeast
<1>10. FirstLeast(w, InMargin(req, made), AggsOf(made))
  <2>1. InMargin(req, made) \subseteq 1 .. n  BY <1>6
  <2>. HIDE DEF n, g, aggs, w, Eligible
  <2>2. aggs[g] # None  BY <1>7, <1>8
  <2>3. w \in InMargin(req, made)  BY <1>5, <1>8, <1>9, <2>2
  <2>. QED  BY <1>8, <1>9, <2>1, <2>3 DEF FirstLeast
<1>11. SelectAgg(made) = made[w]  BY DEF SelectAgg
<1>. HIDE DEF w
<1>. QED  BY <1>9, <1>10, <1>11

\* The projected pick.
LEMMA PeakBandPick ==
  ASSUME NEW made \in Seq(Candidates), made # <<>>, req.peak = TRUE, req.tolerance \in Nat
  PROVE  \E i \in 1 .. Len(made) :
           SelectPeakBand(made) = made[i] /\ FirstLeast(i, InBand(req, made), StddevsOf(made))
<1>. DEFINE n == Len(made)
            Peak(i) == Score[made[i].tree].peak
            peaks == [i \in DOMAIN made |-> Metric(made[i])]
            g == GreedyIndex(peaks)
            band == {i \in DOMAIN made : Metric(made[i]) * ToleranceScale
                                           <= Metric(made[g]) * (ToleranceScale + req.tolerance)}
            Best(i) == \A j \in band :
                         \/ Score[made[i].tree].stddev < Score[made[j].tree].stddev
                         \/ Score[made[i].tree].stddev = Score[made[j].tree].stddev /\ i <= j
            w == CHOOSE i \in band : Best(i)
<1>1. n \in Nat \ {0} /\ DOMAIN made = 1 .. n  BY EmptySeq
<1>2. \A i \in 1 .. n : /\ Metric(made[i]) = Peak(i) /\ Peak(i) \in Nat
                        /\ Score[made[i].tree].stddev \in Nat
  BY CandidateScores, ElementOfSeq DEF Metric
<1>3. None \notin Nat /\ ToleranceScale \in Nat  BY RequestsAssumption, PortfolioAssumption
<1>4. /\ peaks \in [1 .. n -> Nat \cup {None}]
      /\ \A i \in 1 .. n : peaks[i] = Peak(i) /\ peaks[i] # None
  <2>. HIDE DEF n, Peak
  <2>. QED  BY <1>1, <1>2, <1>3
<1>5. g \in 1 .. n /\ \A j \in 1 .. n : Peak(g) <= Peak(j)
  <2>. HIDE DEF n, peaks, Peak
  <2>1. g \in 1 .. n /\ \A j \in 1 .. n : peaks[g] < peaks[j] \/ peaks[g] = peaks[j]
    BY <1>1, <1>4, GreedyIsFirstLeast
  <2>. HIDE DEF g
  <2>. QED  BY <1>2, <1>4, <2>1
<1>6. band = InBand(req, made) /\ g \in band
  <2>. DEFINE scale == ToleranceScale
              wide == ToleranceScale + req.tolerance
  <2>0. scale \in Nat /\ wide \in Nat /\ scale <= wide  BY <1>3
  <2>. HIDE DEF n, g, Peak, scale, wide
  <2>1. \A a, b, c \in Nat : a <= b => a * c <= b * c /\ c * a <= c * b  OBVIOUS
  <2>2. \A j \in 1 .. n : Peak(g) * wide <= Peak(j) * wide
    BY <1>2, <1>5, <2>0, <2>1
  <2>3. \A i, j \in 1 .. n : Peak(i) * scale \in Nat /\ Peak(i) * wide \in Nat  BY <1>2, <2>0
  <2>4. Peak(g) * scale <= Peak(g) * wide  BY <1>2, <1>5, <2>0, <2>1
  <2>5. band = {i \in 1 .. n : Peak(i) * scale <= Peak(g) * wide}  BY <1>1, <1>2, <1>5 DEF scale, wide
  <2>6. InBand(req, made) = {i \in 1 .. n : \A j \in 1 .. n : Peak(i) * scale <= Peak(j) * wide}
    BY <1>1 DEF InBand, Peak, scale, wide
  <2>. HIDE DEF band
  <2>7. ASSUME NEW i \in 1 .. n, Peak(i) * scale <= Peak(g) * wide, NEW j \in 1 .. n
        PROVE  Peak(i) * scale <= Peak(j) * wide
    BY <1>5, <2>2, <2>3, <2>7
  <2>. QED  BY <1>5, <2>4, <2>5, <2>6, <2>7
<1>7. band \in SUBSET (1 .. n) /\ band # {}  BY <1>1, <1>6
<1>8. StddevsOf(made) \in [1 .. n -> Nat] /\ \A i \in 1 .. n : StddevsOf(made)[i] = Score[made[i].tree].stddev
  BY <1>1, <1>2 DEF StddevsOf
<1>9. \A i \in band : FirstLeast(i, band, StddevsOf(made)) <=> Best(i)
  <2>. HIDE DEF band
  <2>. QED  BY <1>7, <1>8 DEF FirstLeast
<1>10. \E i \in band : FirstLeast(i, band, StddevsOf(made))
  <2>. HIDE DEF band, n
  <2>. QED  BY <1>1, <1>7, <1>8, FirstLeastExists
<1>11. w \in band /\ Best(w)
  <2>. HIDE DEF band, Best
  <2>. QED  BY <1>9, <1>10
<1>12. SelectPeakBand(made) = made[w]  BY DEF SelectPeakBand
<1>. HIDE DEF w, band, Best, n
<1>13. w \in 1 .. n /\ FirstLeast(w, InBand(req, made), StddevsOf(made))
  BY <1>6, <1>7, <1>9, <1>11
<1>. QED  BY <1>12, <1>13 DEF n

\* What is adopted from the run is what the rules name over everything built,
\* and it is nothing only when nothing was.
LEMMA AdoptedFollowsRules ==
  ASSUME RequestOK(req), NEW s \in RunStates, NEW made \in Seq(Candidates), Kept(req, s, made)
  PROVE  /\ Adopted(s) = None => made = <<>> /\ s.preferred = None
         /\ Adopted(s) # None => Adopted(s) \in Candidates /\ Rules(req, made, Adopted(s))
         /\ Adopted(s) # None /\ (\E i \in 1 .. Len(made) : Prefers(req, made[i])) =>
              Prefers(req, Adopted(s))
         /\ s.preferred # None => \E i \in 1 .. Len(made) : Prefers(req, made[i])
         /\ s.preferred = None => \A i \in 1 .. Len(made) : ~Prefers(req, made[i])
<1>1. /\ req.peak \in BOOLEAN /\ req.ranker \in BOOLEAN /\ req.margin \in Nat \cup {None}
      /\ req.tolerance \in Nat
  BY DEF RequestOK
<1>2. DOMAIN made = 1 .. Len(made) /\ Len(made) \in Nat
      /\ \A i \in 1 .. Len(made) : made[i] \in Candidates /\ made[i] # None
  BY CandidateScores, ElementOfSeq
<1>. DEFINE preferred == {i \in DOMAIN made : Prefers(req, made[i])}
<1>3. CASE s.preferred # None
  <2>1. Adopted(s) = s.preferred  BY <1>3 DEF Adopted
  <2>2. PICK i \in 1 .. Len(made) :
          /\ s.preferred = made[i] /\ Prefers(req, made[i])
          /\ \A j \in 1 .. Len(made) : Prefers(req, made[j]) => i <= j
    BY <1>3 DEF Kept, KeepsPreferred
  <2>3. i \in preferred /\ \A j \in preferred : i <= j  BY <1>2, <2>2
  <2>4. Rules(req, made, made[i])
    <3>. HIDE DEF Prefers, FirstLeast
    <3>. QED  BY <1>2, <2>3, Zenon DEF Rules
  <2>. QED  BY <1>2, <1>3, <2>1, <2>2, <2>4
<1>4. CASE s.preferred = None
  <2>1. \A i \in 1 .. Len(made) : ~Prefers(req, made[i])  BY <1>2, <1>4 DEF Kept, KeepsPreferred
  <2>2. preferred = {}  BY <1>2, <2>1
  <2>3. /\ Adopted(s) = None => made = <<>>
        /\ Adopted(s) # None =>
             \E i \in 1 .. Len(made) :
               /\ Adopted(s) = made[i]
               /\ IF req.peak THEN FirstLeast(i, InBand(req, made), StddevsOf(made))
                  ELSE IF req.ranker THEN FirstLeast(i, InMargin(req, made), AggsOf(made))
                  ELSE FirstLeast(i, DOMAIN made, CostsOf(made))
    <3>1. CASE made = <<>>
      <4>1. s.best = None /\ s.cands = <<>>  BY <3>1 DEF Kept, KeepsCheapest, KeepsAll
      <4>2. Adopted(s) = None  BY <1>4, <4>1 DEF Adopted
      <4>. QED  BY <3>1, <4>2
    <3>2. CASE made # <<>> /\ req.peak
      <4>1. s.cands = made  BY <3>2 DEF Kept, KeepsAll, Retains
      <4>2. Adopted(s) = SelectPeakBand(made)  BY <1>4, <3>2, <4>1 DEF Adopted
      <4>3. req.peak = TRUE  BY <1>1, <3>2
      <4>4. PICK i \in 1 .. Len(made) :
              SelectPeakBand(made) = made[i] /\ FirstLeast(i, InBand(req, made), StddevsOf(made))
        BY <1>1, <3>2, <4>3, PeakBandPick
      <4>. QED  BY <1>2, <3>2, <4>2, <4>4
    <3>3. CASE made # <<>> /\ ~req.peak /\ req.ranker
      <4>1. s.cands = made  BY <3>3 DEF Kept, KeepsAll, Retains
      <4>2. Adopted(s) = SelectAgg(made)  BY <1>4, <3>3, <4>1 DEF Adopted, Ranked
      <4>3. PICK i \in 1 .. Len(made) :
              SelectAgg(made) = made[i] /\ FirstLeast(i, InMargin(req, made), AggsOf(made))
        BY <1>1, <3>3, AggPick
      <4>. QED  BY <1>2, <3>3, <4>2, <4>3
    <3>4. CASE made # <<>> /\ ~req.peak /\ ~req.ranker
      <4>1. Adopted(s) = s.best  BY <1>4, <3>4 DEF Adopted, Ranked
      <4>2. PICK i \in 1 .. Len(made) :
              /\ s.best = made[i]
              /\ \A j \in 1 .. Len(made) :
                   Cost(made[i]) < Cost(made[j]) \/ (Cost(made[i]) = Cost(made[j]) /\ i <= j)
        BY <3>4 DEF Kept, KeepsCheapest
      <4>3. FirstLeast(i, DOMAIN made, CostsOf(made))  BY <1>2, <4>2 DEF FirstLeast, CostsOf
      <4>. QED  BY <1>2, <3>4, <4>1, <4>2, <4>3
    <3>. QED  BY <3>1, <3>2, <3>3, <3>4
  <2>4. Adopted(s) # None => Rules(req, made, Adopted(s))
    BY <1>2, <2>2, <2>3 DEF Rules
  <2>5. Adopted(s) # None => Adopted(s) \in Candidates  BY <1>2, <2>3
  <2>. QED  BY <1>4, <2>1, <2>3, <2>4, <2>5
<1>. QED  BY <1>3, <1>4

-----------------------------------------------------------------------------
(***************************************************************************)
(* The published set: the trees sorted by their ranks, which no two share, *)
(* and cut at the capacity.                                                *)
(***************************************************************************)
LEMMA AlphaTyped ==
  ASSUME NEW c \in Candidates
  PROVE  AlphaOf(c) \in Nat
<1>. DEFINE Named(e) == e.name = c.name
            e == CHOOSE e \in ToSet(CATALOG) : e.name = c.name
<1>1. \E f \in Entries : f.name = c.name /\ c.index \in Nat
  BY PortfolioAssumption DEF Candidates, Entries
<1>2. e \in Entries  BY <1>1 DEF Entries
<1>3. \A f \in Entries : f.alpha \in Nat
  <2>1. Entries = {CATALOG[i] : i \in 1 .. 7}
    <3>1. DOMAIN CATALOG = 1 .. 7  BY CatalogEntries
    <3>. QED  BY <3>1 DEF Entries, ToSet
  <2>2. ASSUME NEW i \in 1 .. 7 PROVE CATALOG[i].alpha \in Nat
    <3>1. i = 1 \/ i = 2 \/ i = 3 \/ i = 4 \/ i = 5 \/ i = 6 \/ i = 7  OBVIOUS
    <3>. QED  BY <3>1 DEF CATALOG, Entry
  <2>. QED  BY <2>1, <2>2
<1>. DEFINE alpha == e.alpha
<1>4. alpha \in Nat  BY <1>2, <1>3
<1>5. AlphaOf(c) = alpha * MaxGoatdCandidates + c.index  BY Zenon DEF AlphaOf
<1>. HIDE DEF alpha
<1>6. MaxGoatdCandidates \in Nat /\ c.index \in Nat  BY <1>1, PortfolioAssumption
<1>. QED  BY <1>4, <1>5, <1>6

\* A tree some candidate has was found somewhere first.
LEMMA FoundAtTyped ==
  ASSUME NEW made \in Seq(Candidates), NEW t \in {c.tree : c \in ToSet(made)}
  PROVE  /\ FoundAt(made, t) \in 1 .. Len(made) /\ made[FoundAt(made, t)].tree = t
<1>1. Len(made) \in Nat /\ DOMAIN made = 1 .. Len(made)  OBVIOUS
<1>. DEFINE places == {i \in 1 .. Len(made) : made[i].tree = t}
<1>2. places \in SUBSET Nat /\ places # {}
  <2>1. PICK i \in DOMAIN made : made[i].tree = t  BY DEF ToSet
  <2>. QED  BY <1>1, <2>1
<1>3. PICK i \in places : \A j \in places : i <= j
  <2>. HIDE DEF places
  <2>. QED  BY <1>2, LeastElement
<1>4. \A j \in 1 .. i - 1 : made[j].tree # t
  <2>1. ASSUME NEW j \in 1 .. i - 1, made[j].tree = t PROVE FALSE
    <3>1. j \in places /\ j < i  BY <1>1, <2>1
    <3>. QED  BY <1>1, <1>3, <3>1
  <2>. QED  BY <2>1
<1>. QED  BY <1>1, <1>3, <1>4 DEF FoundAt

LEMMA BelowOrders ==
  ASSUME NEW T, NEW rank \in [T -> [1 .. 6 -> Nat]], \A x, y \in T : rank[x] = rank[y] => x = y
  PROVE  StrictOrder({p \in T \X T : Below(rank[p[1]], rank[p[2]])}, T)
<1>. DEFINE R == {p \in T \X T : Below(rank[p[1]], rank[p[2]])}
<1>1. \A x, y \in T : <<x, y>> \in R <=> Below(rank[x], rank[y])  OBVIOUS
<1>. HIDE DEF R
<1>2. ASSUME NEW x \in T PROVE ~Below(rank[x], rank[x])
  <2>1. \A i \in 1 .. 6 : rank[x][i] \in Nat  OBVIOUS
  <2>. QED  BY <2>1 DEF Below
<1>3. ASSUME NEW x \in T, NEW y \in T, x # y
      PROVE  Below(rank[x], rank[y]) \/ Below(rank[y], rank[x])
  <2>. DEFINE differ == {i \in 1 .. 6 : rank[x][i] # rank[y][i]}
  <2>1. differ # {}
    <3>1. rank[x] # rank[y] /\ rank[x] \in [1 .. 6 -> Nat] /\ rank[y] \in [1 .. 6 -> Nat]  BY <1>3
    <3>. QED  BY <3>1
  <2>2. PICK i \in differ : \A j \in differ : i <= j
    <3>1. differ \in SUBSET Nat  OBVIOUS
    <3>. HIDE DEF differ
    <3>. QED  BY <2>1, <3>1, LeastElement
  <2>3. i \in 1 .. 6 /\ rank[x][i] \in Nat /\ rank[y][i] \in Nat /\ rank[x][i] # rank[y][i]  OBVIOUS
  <2>4. \A j \in 1 .. i - 1 : rank[x][j] = rank[y][j]
    <3>1. ASSUME NEW j \in 1 .. i - 1, rank[x][j] # rank[y][j] PROVE FALSE
      <4>1. j \in differ /\ j < i  BY <2>3, <3>1
      <4>. QED  BY <2>2, <2>3, <4>1
    <3>. QED  BY <3>1
  <2>5. rank[x][i] < rank[y][i] \/ rank[y][i] < rank[x][i]  BY <2>3
  <2>. QED  BY <2>3, <2>4, <2>5 DEF Below
<1>4. ASSUME NEW x \in T, NEW y \in T, NEW z \in T,
             Below(rank[x], rank[y]), Below(rank[y], rank[z])
      PROVE  Below(rank[x], rank[z])
  <2>1. PICK i \in 1 .. 6 : rank[x][i] < rank[y][i] /\ \A j \in 1 .. i - 1 : rank[x][j] = rank[y][j]
    BY <1>4 DEF Below
  <2>2. PICK k \in 1 .. 6 : rank[y][k] < rank[z][k] /\ \A j \in 1 .. k - 1 : rank[y][j] = rank[z][j]
    BY <1>4 DEF Below
  <2>. DEFINE m == IF i <= k THEN i ELSE k
  <2>3. \A j \in 1 .. 6 : rank[x][j] \in Nat /\ rank[y][j] \in Nat /\ rank[z][j] \in Nat  OBVIOUS
  <2>4. m \in 1 .. 6 /\ m <= i /\ m <= k /\ (m = i \/ m = k)  OBVIOUS
  <2>. HIDE DEF m
  <2>5. \A j \in 1 .. m - 1 : j \in 1 .. i - 1 /\ j \in 1 .. k - 1  BY <2>4
  <2>6. rank[x][m] <= rank[y][m] /\ rank[y][m] <= rank[z][m]
        /\ (rank[x][m] < rank[y][m] \/ rank[y][m] < rank[z][m])
    <3>1. CASE i < k
      <4>1. m = i /\ i \in 1 .. k - 1  BY <2>4, <3>1
      <4>. QED  BY <2>1, <2>2, <2>3, <4>1
    <3>2. CASE k < i
      <4>1. m = k /\ k \in 1 .. i - 1  BY <2>4, <3>2
      <4>. QED  BY <2>1, <2>2, <2>3, <4>1
    <3>3. CASE i = k
      <4>1. m = i  BY <2>4, <3>3
      <4>. QED  BY <2>1, <2>2, <2>3, <3>3, <4>1
    <3>. QED  BY <3>1, <3>2, <3>3
  <2>7. rank[x][m] < rank[z][m]  BY <2>3, <2>4, <2>6
  <2>8. \A j \in 1 .. m - 1 : rank[x][j] = rank[z][j]  BY <2>1, <2>2, <2>5
  <2>. QED  BY <2>4, <2>7, <2>8 DEF Below
<1>5. StrictOrder(R, T)  BY <1>1, <1>2, <1>3, <1>4 DEF StrictOrder
<1>. QED  BY <1>5 DEF R

\* Each tree found has one place in the sorted set, and one below it in some
\* score comes first.
LEMMA SortedTrees ==
  ASSUME NEW made \in Seq(Candidates), NEW winner, req.peak \in BOOLEAN,
         NEW trees, trees = {c.tree : c \in ToSet(made)}
  PROVE  LET all == Sorted(made, winner)
         IN  /\ Len(all) \in Nat /\ Enumerates(all, trees)
             /\ \A i, j \in 1 .. Len(all) :
                  i < j => Below(RankOf(made, winner, all[i]), RankOf(made, winner, all[j]))
<1>. DEFINE rank == [t \in trees |-> RankOf(made, winner, t)]
            R == {p \in trees \X trees : Below(rank[p[1]], rank[p[2]])}
            n == Cardinality(trees)
            all == Sorted(made, winner)
<1>1. Len(made) \in Nat /\ DOMAIN made = 1 .. Len(made)
      /\ \A i \in 1 .. Len(made) : made[i] \in Candidates
  BY ElementOfSeq
<1>2. \A t \in trees : t \in Trees  BY <1>1 DEF ToSet, Candidates
<1>3. ASSUME NEW t \in trees
      PROVE  RankOf(made, winner, t) \in [1 .. 6 -> Nat] /\ RankOf(made, winner, t)[6] = FoundAt(made, t)
  <2>. DEFINE a == IF t = winner.tree THEN 0 ELSE 1
              b == Metric([tree |-> t])
              c == Score[t].stddev
              d == Score[t].cost
              e == AlphaOf(made[FoundAt(made, t)])
              f == FoundAt(made, t)
  <2>1. a \in Nat  OBVIOUS
  <2>2. b \in Nat /\ c \in Nat /\ d \in Nat  BY <1>2, PortfolioAssumption DEF Metric
  <2>3. f \in 1 .. Len(made)  BY FoundAtTyped
  <2>4. f \in Nat  BY <1>1, <2>3
  <2>5. e \in Nat  BY <1>1, <2>3, AlphaTyped
  <2>6. RankOf(made, winner, t) = <<a, b, c, d, e, f>>  BY DEF RankOf
  <2>. HIDE DEF a, b, c, d, e, f
  <2>7. <<a, b, c, d, e, f>> \in [1 .. 6 -> Nat] /\ <<a, b, c, d, e, f>>[6] = f
    BY <2>1, <2>2, <2>4, <2>5
  <2>. QED  BY <2>6, <2>7 DEF f
<1>4. rank \in [trees -> [1 .. 6 -> Nat]]  BY <1>3
<1>5. \A x, y \in trees : rank[x] = rank[y] => x = y
  <2>. SUFFICES ASSUME NEW x \in trees, NEW y \in trees, rank[x] = rank[y] PROVE x = y
    OBVIOUS
  <2>1. rank[x][6] = FoundAt(made, x) /\ rank[y][6] = FoundAt(made, y)  BY <1>3
  <2>2. made[FoundAt(made, x)].tree = x /\ made[FoundAt(made, y)].tree = y  BY FoundAtTyped
  <2>. QED  BY <2>1, <2>2
<1>6. IsFiniteSet(trees)
  <2>. DEFINE f == [i \in 1 .. Len(made) |-> made[i].tree]
  <2>1. f \in Surjection(1 .. Len(made), trees)
    <3>1. f \in [1 .. Len(made) -> trees]  BY <1>1 DEF ToSet
    <3>2. \A t \in trees : \E i \in 1 .. Len(made) : f[i] = t  BY <1>1 DEF ToSet
    <3>. QED  BY <3>1, <3>2 DEF Surjection
  <2>2. IsFiniteSet(1 .. Len(made))  BY <1>1, FS_Interval
  <2>. HIDE DEF f
  <2>. QED  BY <2>1, <2>2, FS_Surjection
<1>7. all = CHOOSE q \in [1 .. n -> trees] :
              \A i, j \in DOMAIN q : i < j => Below(rank[q[i]], rank[q[j]])
  BY Zenon DEF Sorted
<1>. HIDE DEF rank
<1>8. StrictOrder(R, trees)  BY <1>4, <1>5, BelowOrders
<1>. HIDE DEF all, n
<1>9. \A q \in [1 .. n -> trees] :
        InOrder(q, n, R) <=> \A i, j \in DOMAIN q : i < j => Below(rank[q[i]], rank[q[j]])
  BY DEF InOrder
<1>. HIDE DEF R
<1>10. \E q \in [1 .. n -> trees] : InOrder(q, n, R)  BY <1>6, <1>8, SortExists DEF n
<1>11. all \in [1 .. n -> trees] /\ InOrder(all, n, R)  BY <1>7, <1>9, <1>10
<1>12. n \in Nat /\ all \in Seq(trees) /\ Len(all) = n /\ Enumerates(all, trees)
  BY <1>6, <1>8, <1>11, InOrderLists DEF n
<1>13. ASSUME NEW i \in 1 .. n, NEW j \in 1 .. n, i < j
       PROVE  Below(RankOf(made, winner, all[i]), RankOf(made, winner, all[j]))
  <2>1. all[i] \in trees /\ all[j] \in trees /\ DOMAIN all = 1 .. n  BY <1>11
  <2>2. Below(rank[all[i]], rank[all[j]])  BY <1>9, <1>11, <1>13, <2>1
  <2>. QED  BY <2>1, <2>2 DEF rank
<1>14. Len(all) \in Nat /\ Enumerates(all, trees)
       /\ \A i, j \in 1 .. Len(all) :
            i < j => Below(RankOf(made, winner, all[i]), RankOf(made, winner, all[j]))
  BY <1>12, <1>13
<1>. QED  BY <1>14 DEF all

MetricOf(r, t) == IF r.peak THEN Score[t].peak ELSE Score[t].cost

\* The set heads with the winner's tree, holds distinct trees, and leaves out
\* none better than one it holds.
Faithful(r, made, winner, out) ==
  /\ Len(out) \in 1 .. r.keep
  /\ out[1].tree = winner.tree /\ out[1].selected
  /\ \A i \in DOMAIN out : out[i].by = BuiltBy(made, out[i].tree)
  /\ \A i, j \in DOMAIN out : i # j => out[i].tree # out[j].tree
  /\ \A i \in 2 .. Len(out) :
       /\ ~out[i].selected
       /\ \A c \in ToSet(made) :
            (\A j \in 1 .. i - 1 : c.tree # out[j].tree) =>
              MetricOf(r, out[i].tree) <= MetricOf(r, c.tree)

LEMMA CandidateSetIsFaithful ==
  ASSUME RequestOK(req), req.keep > 1, NEW made \in Seq(Candidates),
         NEW w \in 1 .. Len(made), NEW winner, winner = made[w]
  PROVE  Faithful(req, made, winner, CandidateSet(made, winner))
<1>. DEFINE trees == {c.tree : c \in ToSet(made)}
            all == Sorted(made, winner)
            n == Len(all)
            m == Smaller(req.keep, n)
            out == [i \in 1 .. m |->
                      [tree |-> all[i], by |-> BuiltBy(made, all[i]), selected |-> all[i] = winner.tree]]
<1>1. /\ Len(made) \in Nat /\ DOMAIN made = 1 .. Len(made) /\ req.keep \in Nat
      /\ req.peak \in BOOLEAN /\ made # <<>>
      /\ \A i \in 1 .. Len(made) : made[i] \in Candidates
  BY ElementOfSeq DEF RequestOK
<1>2. CandidateSet(made, winner) = out  BY <1>1 DEF CandidateSet
<1>3. /\ n \in Nat /\ Enumerates(all, trees)
      /\ \A i, j \in 1 .. n :
           i < j => Below(RankOf(made, winner, all[i]), RankOf(made, winner, all[j]))
  BY <1>1, SortedTrees, SMTT(40)
<1>4. winner.tree \in trees  BY <1>1 DEF ToSet
<1>. HIDE DEF all, trees
<1>5. /\ \A i \in 1 .. n : all[i] \in trees
      /\ \A t \in trees : \E i \in 1 .. n : all[i] = t
      /\ \A i, j \in 1 .. n : all[i] = all[j] => i = j
  BY <1>3 DEF Enumerates
<1>6. m \in 1 .. req.keep /\ m <= n /\ m \in Nat
  <2>1. n # 0  BY <1>3, <1>4, <1>5
  <2>. QED  BY <1>1, <1>3, <2>1 DEF Smaller
\* The first two places of a rank, and how ranks compare in them.
<1>. DEFINE head(t) == IF t = winner.tree THEN 0 ELSE 1
            metric(t) == Metric([tree |-> t])
<1>7. ASSUME NEW t \in trees
      PROVE  RankOf(made, winner, t)[1] = head(t) /\ RankOf(made, winner, t)[2] = metric(t)
             /\ metric(t) \in Nat
  <2>1. t \in Trees  BY <1>1 DEF trees, ToSet, Candidates
  <2>2. metric(t) \in Nat  BY <2>1, PortfolioAssumption DEF Metric
  <2>. QED  BY <2>2 DEF RankOf
<1>. HIDE DEF metric
<1>8. ASSUME NEW s \in trees, NEW t \in trees, Below(RankOf(made, winner, s), RankOf(made, winner, t))
      PROVE  head(s) <= head(t) /\ (head(s) = head(t) => metric(s) <= metric(t))
  <2>. DEFINE a == RankOf(made, winner, s)
              b == RankOf(made, winner, t)
  <2>1. /\ a[1] = head(s) /\ a[2] = metric(s) /\ metric(s) \in Nat
        /\ b[1] = head(t) /\ b[2] = metric(t) /\ metric(t) \in Nat
    BY <1>7
  <2>. HIDE DEF a, b
  <2>2. PICK i \in 1 .. 6 : a[i] < b[i] /\ \A j \in 1 .. i - 1 : a[j] = b[j]  BY <1>8 DEF Below, a, b
  <2>3. CASE i = 1  BY <2>1, <2>2, <2>3
  <2>4. CASE i = 2
    <3>1. 1 \in 1 .. i - 1  BY <2>4
    <3>. QED  BY <2>1, <2>2, <2>4, <3>1
  <2>5. CASE i > 2
    <3>1. 1 \in 1 .. i - 1 /\ 2 \in 1 .. i - 1  BY <2>5
    <3>. QED  BY <2>1, <2>2, <3>1
  <2>. QED  BY <2>3, <2>4, <2>5
<1>9. all[1] = winner.tree
  <2>1. PICK k \in 1 .. n : all[k] = winner.tree  BY <1>4, <1>5
  <2>2. CASE k = 1  BY <2>1, <2>2
  <2>3. CASE k # 1
    <3>1. 1 \in 1 .. n /\ 1 < k  BY <1>3, <2>3
    <3>2. head(all[1]) <= head(all[k])  BY <1>3, <1>5, <1>8, <3>1
    <3>. QED  BY <2>1, <3>2
  <2>. QED  BY <2>2, <2>3
<1>10. ASSUME NEW i \in 1 .. n, i # 1 PROVE all[i] # winner.tree
  <2>1. 1 \in 1 .. n  BY <1>3
  <2>. QED  BY <1>5, <1>9, <1>10, <2>1
<1>11. /\ Len(out) = m /\ DOMAIN out = 1 .. m
       /\ \A i \in 1 .. m : /\ out[i].tree = all[i] /\ out[i].by = BuiltBy(made, all[i])
                            /\ out[i].selected = (all[i] = winner.tree)
  BY <1>6
<1>. HIDE DEF out, m
<1>12. out[1].tree = winner.tree /\ out[1].selected
  <2>1. 1 \in 1 .. m  BY <1>6
  <2>. QED  BY <1>9, <1>11, <2>1
<1>13. \A i \in DOMAIN out : out[i].by = BuiltBy(made, out[i].tree)  BY <1>11
<1>14. \A i \in 1 .. m : i \in 1 .. n  BY <1>3, <1>6
<1>15. \A i, j \in DOMAIN out : i # j => out[i].tree # out[j].tree  BY <1>5, <1>11, <1>14
<1>16. ASSUME NEW i \in 2 .. Len(out)
       PROVE  /\ ~out[i].selected
              /\ \A c \in ToSet(made) :
                   (\A j \in 1 .. i - 1 : c.tree # out[j].tree) =>
                     MetricOf(req, out[i].tree) <= MetricOf(req, c.tree)
  <2>1. i \in 1 .. m /\ i \in 1 .. n /\ i # 1  BY <1>6, <1>11, <1>14
  <2>2. ~out[i].selected  BY <1>10, <1>11, <2>1
  <2>3. ASSUME NEW c \in ToSet(made), \A j \in 1 .. i - 1 : c.tree # out[j].tree
        PROVE  MetricOf(req, out[i].tree) <= MetricOf(req, c.tree)
    <3>1. c.tree \in trees  BY DEF trees
    <3>2. PICK k \in 1 .. n : all[k] = c.tree  BY <1>5, <3>1
    <3>3. ~ (k < i)
      <4>. SUFFICES ASSUME k < i PROVE FALSE  OBVIOUS
      <4>1. k \in 1 .. i - 1 /\ k \in 1 .. m  BY <1>3, <1>6, <2>1
      <4>. QED  BY <1>11, <2>3, <3>2, <4>1
    <3>4. MetricOf(req, out[i].tree) = metric(all[i]) /\ MetricOf(req, c.tree) = metric(c.tree)
      BY <1>11, <2>1 DEF MetricOf, Metric, metric
    <3>5. CASE k = i
      <4>1. metric(all[i]) \in Nat  BY <1>5, <1>7, <2>1
      <4>. QED  BY <3>2, <3>4, <3>5, <4>1
    <3>6. CASE k # i
      <4>1. i < k /\ k # 1  BY <2>1, <3>3, <3>6
      <4>2. all[k] # winner.tree /\ all[i] # winner.tree  BY <1>10, <2>1, <4>1
      <4>3. Below(RankOf(made, winner, all[i]), RankOf(made, winner, all[k]))
        BY <1>3, <2>1, <4>1
      <4>4. metric(all[i]) <= metric(all[k])  BY <1>5, <1>8, <2>1, <4>2, <4>3
      <4>. QED  BY <3>2, <3>4, <4>4
    <3>. QED  BY <3>5, <3>6
  <2>. QED  BY <2>2, <2>3
<1>17. Len(out) \in 1 .. req.keep  BY <1>6, <1>11
<1>18. Faithful(req, made, winner, out)
  BY <1>12, <1>13, <1>15, <1>16, <1>17, Zenon DEF Faithful
<1>. QED  BY <1>2, <1>18 DEF out, m

-----------------------------------------------------------------------------
(***************************************************************************)
(* The inductive invariant: types, what the run and the answer say of the  *)
(* candidates built, and what the clock allows.                            *)
(***************************************************************************)
Attempts == [name : Names, from : Nat, to : Nat, share : (Nat \ {0}) \cup {None}, built : Nat]

Types ==
  /\ phase \in {"idle", "walking", "done"}
  /\ phase # "idle" => req \in Requests /\ RequestOK(req) /\ pos \in 1 .. Len(Walk) + 1
  /\ now \in Nat
  /\ run \in RunStates
  /\ derived \in {None} \cup [coloring : BOOLEAN, generates : BOOLEAN]
  /\ skipped \in Seq(Names) /\ started \in Seq(Attempts) /\ built \in Seq(Candidates)
  /\ answer \in Candidates \cup {None, Refused, Unbuilt, Nothing}
  /\ history \in (Nat \ {0}) \cup {None}
  /\ builds \in 0 .. MaxBuilds

Selection ==
  /\ phase # "idle" => Kept(req, run, built)
  /\ phase = "walking" => answer = None
  /\ phase = "done" => answer \in {Refused, Unbuilt, Nothing} \/ Rules(req, built, answer)

Offer == Won /\ req.keep > 1 => Faithful(req, built, answer, published)

Late(t) == req.deadline # None /\ t >= req.deadline

\* An entry started past the deadline is the last and found nothing built.
LateIsLast ==
  \A i \in 1 .. Len(started) :
    Late(started[i].from) => i = Len(started) /\ started[i].built = 0 /\ pos > Len(Walk)

ClockBound ==
  started # <<>> /\ req.deadline # None =>
    now <= MaxPiece + (IF started[Len(started)].from >= req.deadline
                       THEN started[Len(started)].from + LastAttempt ELSE req.deadline)

Tried ==
  /\ pos = 1 \/ started # <<>>
  /\ built # <<>> => started # <<>>
  /\ skipped # <<>> => Late(now)
  /\ phase = "done" /\ answer = Nothing /\ Walk # <<>> => started # <<>>

Clock == phase # "idle" => LateIsLast /\ ClockBound /\ Tried

Inv == Types /\ Selection /\ Offer /\ Clock

LEMMA WalkTyped ==
  /\ Walk \in Seq(Entries) /\ Len(Walk) \in Nat
  /\ \A i \in 1 .. Len(Walk) : /\ Walk[i] \in Entries /\ Walk[i].name \in Names
                               /\ Walk[i].offers \in 1 .. MaxGoatdCandidates
<1>1. Walk \in Seq(Entries)  BY WalkEntries DEF Walk
<1>2. \A i \in 1 .. Len(Walk) : Walk[i] \in Entries  BY <1>1, ElementOfSeq
<1>. QED  BY <1>1, <1>2, CatalogEntries

LEMMA OutOfTimeIsLate ==
  ASSUME RequestOK(req), now \in Nat
  PROVE  OutOfTime <=> Late(now)
<1>1. req.deadline \in Nat \cup {None} /\ None \notin Nat  BY RequestsAssumption DEF RequestOK
<1>. QED  BY <1>1 DEF OutOfTime, RemainingAt, Larger, Late

\* Nothing kept is nothing built.
LEMMA NothingBuiltIsEmpty ==
  ASSUME RequestOK(req), built \in Seq(Candidates), Kept(req, run, built)
  PROVE  NothingBuilt => built = <<>>
<1>1. \A i \in 1 .. Len(built) : built[i] # None  BY CandidateScores, ElementOfSeq
<1>2. req.peak \in BOOLEAN  BY DEF RequestOK
<1>. QED  BY <1>1, <1>2 DEF NothingBuilt, Kept, KeepsAll, KeepsCheapest, Retains

\* A slice is no more than what is left, and the last attempt's on a late start.
LEMMA Slices ==
  ASSUME Types, phase = "walking", pos <= Len(Walk)
  PROVE  /\ Sliced \in RunStates
         /\ Sliced.best = run.best /\ Sliced.cands = run.cands /\ Sliced.preferred = run.preferred
         /\ req.deadline # None =>
              /\ Sliced.share \in Nat /\ Sliced.wall \in Nat /\ Sliced.share <= Sliced.wall
              /\ Late(now) => Sliced.wall = LastAttempt
              /\ ~Late(now) => Sliced.wall = req.deadline - now
<1>1. RequestOK(req) /\ now \in Nat /\ run \in RunStates /\ pos \in 1 .. Len(Walk) + 1
  BY DEF Types
<1>2. req.deadline \in Nat \cup {None} /\ None \notin Nat /\ LastAttempt \in Nat \ {0}
  BY <1>1, RequestsAssumption, PortfolioAssumption DEF RequestOK
<1>3. OutOfTime <=> Late(now)  BY <1>1, OutOfTimeIsLate
<1>4. CASE OutOfTime
  <2>1. Sliced = [run EXCEPT !.share = LastAttempt, !.wall = LastAttempt, !.behind = TRUE]
    BY <1>4 DEF Sliced
  <2>2. /\ Sliced \in RunStates /\ Sliced.share = LastAttempt /\ Sliced.wall = LastAttempt
        /\ Sliced.best = run.best /\ Sliced.cands = run.cands /\ Sliced.preferred = run.preferred
    BY <1>1, <1>2, <2>1 DEF RunStates
  <2>. QED  BY <1>2, <1>3, <1>4, <2>2
<1>5. CASE ~OutOfTime
  <2>. DEFINE n == Len(Walk) - pos + 1
              share == FairShare(n)
              wall == RemainingAt(req, now)
  <2>1. n \in Nat \ {0}  BY <1>1, WalkTyped
  <2>2. /\ share \in (Nat \ {0}) \cup {None} /\ wall \in (Nat \ {0}) \cup {None}
        /\ req.deadline # None => /\ share \in Nat /\ wall \in Nat /\ share <= wall
                                  /\ wall = req.deadline - now
    <3>1. CASE req.deadline = None
      BY <3>1 DEF FairShare, RemainingAt
    <3>2. CASE req.deadline # None
      <4>1. req.deadline \in Nat /\ now < req.deadline
        BY <1>1, <1>2, <1>3, <1>5, <3>2 DEF Late
      <4>2. wall = req.deadline - now /\ wall \in Nat \ {0}
        BY <1>1, <3>2, <4>1 DEF RemainingAt, Larger
      <4>. HIDE DEF n, wall
      <4>3. wall \div n \in Nat /\ wall \div n <= wall
        BY <2>1, <4>2
      <4>4. share = Larger(wall \div n, 1)  BY <3>2 DEF FairShare, wall
      <4>. HIDE DEF share
      <4>. QED  BY <3>2, <4>2, <4>3, <4>4 DEF Larger
    <3>. QED  BY <3>1, <3>2
  <2>3. Sliced = [run EXCEPT !.share = share, !.wall = wall]  BY <1>5 DEF Sliced
  <2>. HIDE DEF share, wall
  <2>. QED  BY <1>1, <1>3, <1>5, <2>2, <2>3 DEF RunStates
<1>. QED  BY <1>4, <1>5

-----------------------------------------------------------------------------
(***************************************************************************)
(* One step of the walk, whichever construction it runs.                   *)
(***************************************************************************)

\* A FlowCutter search is cut at the wall it was given, or before.
LEMMA CapWithinWall ==
  ASSUME RequestOK(req), NEW s \in RunStates
  PROVE  /\ FlowcutterCap(s) \in Nat \cup {None}
         /\ s.wall # None => FlowcutterCap(s) \in Nat /\ FlowcutterCap(s) <= s.wall
<1>. DEFINE behind == IF s.behind THEN s.share ELSE None
            later == IF s.wall # None /\ s.firstFlowcutter # None
                     THEN Larger(s.firstFlowcutter, LaterFlowcutterMin) ELSE None
            bounds == {s.wall, req.cap, behind, later} \cup {None}
            numbers == bounds \ {None}
<1>1. /\ s.wall \in Nat \cup {None} /\ req.cap \in Nat \cup {None} /\ None \notin Nat
      /\ behind \in Nat \cup {None} /\ later \in Nat \cup {None}
  BY RequestsAssumption, PortfolioAssumption DEF RequestOK, RunStates, Larger
<1>2. numbers \in SUBSET Nat /\ (s.wall # None => s.wall \in numbers)
  <2>. HIDE DEF behind, later
  <2>. QED  BY <1>1
<1>3. FlowcutterCap(s) = Tightest(bounds)  BY DEF FlowcutterCap
<1>4. CASE numbers = {}
  <2>1. bounds = {None}
    <3>. HIDE DEF behind, later
    <3>. QED  BY <1>4
  <2>. QED  BY <1>2, <1>3, <1>4, <2>1 DEF Tightest
<1>5. CASE numbers # {}
  <2>. DEFINE b == CHOOSE b \in numbers : \A c \in numbers : b <= c
  <2>1. bounds # {None}  BY <1>5
  <2>2. Tightest(bounds) = b
    <3>. HIDE DEF behind, later
    <3>. QED  BY <2>1 DEF Tightest
  <2>. HIDE DEF numbers
  <2>3. b \in numbers /\ \A c \in numbers : b <= c
    <3>1. \E c \in numbers : \A d \in numbers : c <= d  BY <1>2, <1>5, LeastElement
    <3>. QED  BY <3>1
  <2>. HIDE DEF b
  <2>. QED  BY <1>2, <1>3, <2>2, <2>3
<1>. QED  BY <1>4, <1>5

\* What every construction's step comes to.
Entered ==
  /\ phase = "walking" /\ pos <= Len(Walk)
  /\ Late(now) => built = <<>>
  /\ now' \in Nat /\ now <= now'
  /\ req.deadline # None =>
       now' <= MaxPiece + (IF now >= req.deadline THEN now + LastAttempt ELSE req.deadline)
  /\ \E offered \in Seq(Candidates) : built' = built \o offered
  /\ \E a \in Attempts : a.from = now /\ a.built = Len(built) /\ started' = Append(started, a)
  /\ \/ Late(now) /\ skipped' \in Seq(Names) /\ pos' = Len(Walk) + 1
     \/ ~Late(now) /\ skipped' = skipped /\ pos' = pos + 1
  /\ run' \in RunStates /\ Kept(req, run', built')
  /\ derived' \in {None} \cup [coloring : BOOLEAN, generates : BOOLEAN]
  /\ UNCHANGED <<phase, req, answer, published, history, builds>>

LEMMA NamesFromTyped ==
  ASSUME NEW i \in Nat \ {0}, i <= Len(Walk) + 1
  PROVE  NamesFrom(i) \in Seq(Names)
<1>. DEFINE n == Len(Walk) - i + 1
<1>1. n \in Nat  BY WalkTyped
<1>2. \A j \in 1 .. n : Walk[i + j - 1].name \in Names  BY WalkTyped
<1>3. NamesFrom(i) \in [1 .. n -> Names]  BY <1>2 DEF NamesFrom
<1>. HIDE DEF n
<1>. QED  BY <1>1, <1>3

LEMMA DerivedTyped ==
  ASSUME Types, RequestOK(req)
  PROVE  DerivedHere \in {None} \cup [coloring : BOOLEAN, generates : BOOLEAN]
<1>1. run.best \in Candidates \cup {None} /\ derived \in {None} \cup [coloring : BOOLEAN, generates : BOOLEAN]
  BY DEF Types, RunStates
<1>. DEFINE coloring == req.coloring /\ ~req.heavy
            generates == run.best = None \/ Score[run.best.tree].heavyNode
<1>2. coloring \in BOOLEAN  OBVIOUS
<1>3. generates \in BOOLEAN  OBVIOUS
<1>. HIDE DEF coloring, generates
<1>4. [coloring |-> coloring, generates |-> generates] \in [coloring : BOOLEAN, generates : BOOLEAN]
  BY <1>2, <1>3
<1>5. derived = None => DerivedHere = [coloring |-> coloring, generates |-> generates]
  BY DEF DerivedHere, coloring, generates
<1>. QED  BY <1>1, <1>4, <1>5 DEF DerivedHere

LEMMA KeptIsOfThePicks ==
  ASSUME NEW r, NEW s, NEW t, NEW made,
         s.best = t.best, s.cands = t.cands, s.preferred = t.preferred, Kept(r, s, made)
  PROVE  Kept(r, t, made)
<1>1. KeepsAll(r, t, made)  BY DEF Kept, KeepsAll
<1>2. KeepsCheapest(r, t, made)  BY DEF Kept, KeepsCheapest
<1>3. KeepsPreferred(r, t, made)  BY DEF Kept, KeepsPreferred
<1>. QED  BY <1>1, <1>2, <1>3 DEF Kept

LEMMA EndsEnters ==
  ASSUME Types, Selection, Startable,
         NEW s \in RunStates, s.share = Sliced.share,
         s.best = run.best, s.cands = run.cands, s.preferred = run.preferred,
         NEW ran \in Nat, req.deadline # None => ran <= Sliced.wall + MaxPiece,
         NEW trees \in Seq(Trees), Len(trees) <= MaxGoatdCandidates,
         Ends(s, ran, trees)
  PROVE  Entered
<1>1. /\ phase = "walking" /\ pos <= Len(Walk) /\ pos \in 1 .. Len(Walk) + 1
      /\ RequestOK(req) /\ now \in Nat /\ built \in Seq(Candidates)
      /\ run \in RunStates /\ Kept(req, run, built)
  BY DEF Types, Selection, Startable
<1>2. pos \in 1 .. Len(Walk) /\ pos \in Nat \ {0} /\ EntryHere \in Entries /\ EntryHere.name \in Names
  BY <1>1, WalkTyped DEF EntryHere
<1>3. OutOfTime <=> Late(now)  BY <1>1, OutOfTimeIsLate
<1>4. Late(now) => built = <<>>
  BY <1>1, <1>3, NothingBuiltIsEmpty DEF Startable
<1>5. now' = now + ran /\ now' \in Nat /\ now <= now'  BY <1>1 DEF Ends
<1>6. req.deadline # None =>
        now' <= MaxPiece + (IF now >= req.deadline THEN now + LastAttempt ELSE req.deadline)
  <2>. SUFFICES ASSUME req.deadline # None
                PROVE  now' <= MaxPiece + (IF now >= req.deadline THEN now + LastAttempt ELSE req.deadline)
    OBVIOUS
  <2>1. req.deadline \in Nat /\ MaxPiece \in Nat /\ LastAttempt \in Nat
    BY <1>1, PortfolioAssumption DEF RequestOK
  <2>2. IF now >= req.deadline THEN Sliced.wall = LastAttempt ELSE Sliced.wall = req.deadline - now
    BY <1>1, <2>1, Slices DEF Late
  <2>. QED  BY SMTT(20), <1>1, <1>5, <2>1, <2>2
<1>. DEFINE offered == [i \in DOMAIN trees |-> [name |-> EntryHere.name, index |-> i - 1,
                                               tree |-> trees[i]]]
<1>7. offered \in Seq(Candidates)
  <2>1. MaxGoatdCandidates \in Nat \ {0}  BY PortfolioAssumption
  <2>2. ASSUME NEW i \in 1 .. Len(trees)
        PROVE  [name |-> EntryHere.name, index |-> i - 1, tree |-> trees[i]] \in Candidates
    <3>1. trees[i] \in Trees /\ i - 1 \in 0 .. MaxGoatdCandidates - 1  BY <2>1
    <3>. QED  BY <1>2, <3>1 DEF Candidates, Entries
  <2>3. DOMAIN trees = 1 .. Len(trees) /\ Len(trees) \in Nat  OBVIOUS
  <2>. QED  BY <2>2, <2>3
<1>8. built' = built \o offered  BY Zenon DEF Ends
<1>. DEFINE t == FoldLeft(Fold, s, offered)
<1>9. t \in RunStates /\ Kept(req, t, built \o offered) /\ t.share = s.share
  <2>1. req.peak \in BOOLEAN  BY <1>1 DEF RequestOK
  <2>2. Kept(req, s, built)  BY <1>1, KeptIsOfThePicks
  <2>. HIDE DEF offered
  <2>. QED  BY <1>1, <1>7, <2>1, <2>2, FoldsKeep
<1>10. Advance(t, ran)  BY Zenon DEF Ends
<1>11. run' \in RunStates /\ Kept(req, run', built')
  <2>1. run' = t \/ run' = [t EXCEPT !.behind = TRUE]  BY <1>10, Zenon DEF Advance
  <2>. HIDE DEF t, offered
  <2>2. [t EXCEPT !.behind = TRUE] \in RunStates  BY <1>9 DEF RunStates
  <2>3. Kept(req, [t EXCEPT !.behind = TRUE], built \o offered)
    <3>. DEFINE u == [t EXCEPT !.behind = TRUE]
    <3>1. u.best = t.best /\ u.cands = t.cands /\ u.preferred = t.preferred  BY <1>9 DEF RunStates
    <3>. HIDE DEF u
    <3>2. Kept(req, u, built \o offered)  BY <1>9, <3>1, KeptIsOfThePicks
    <3>. QED  BY <3>2 DEF u
  <2>. QED  BY <1>8, <1>9, <2>1, <2>2, <2>3
<1>12. \/ Late(now) /\ skipped' \in Seq(Names) /\ pos' = Len(Walk) + 1
       \/ ~Late(now) /\ skipped' = skipped /\ pos' = pos + 1
  <2>1. NamesFrom(pos + 1) \in Seq(Names)  BY <1>1, <1>2, WalkTyped, NamesFromTyped
  <2>2. IF OutOfTime THEN skipped' = NamesFrom(pos + 1) /\ pos' = Len(Walk) + 1
        ELSE skipped' = skipped /\ pos' = pos + 1
    BY <1>10, Zenon DEF Advance
  <2>. QED  BY <1>3, <2>1, <2>2
<1>13. \E a \in Attempts : a.from = now /\ a.built = Len(built) /\ started' = Append(started, a)
  <2>. DEFINE a == [name |-> EntryHere.name, from |-> now, to |-> now + ran,
                    share |-> s.share, built |-> Len(built)]
  <2>1. started' = Append(started, a)  BY Zenon DEF Ends
  <2>2. Len(built) \in Nat /\ s.share \in (Nat \ {0}) \cup {None}  BY <1>1 DEF RunStates
  <2>3. a \in Attempts  BY <1>1, <1>2, <2>2 DEF Attempts
  <2>4. a.from = now /\ a.built = Len(built)  OBVIOUS
  <2>. HIDE DEF a
  <2>. QED  BY <2>1, <2>3, <2>4
<1>14. derived' \in {None} \cup [coloring : BOOLEAN, generates : BOOLEAN]
  <2>1. derived' = DerivedHere \/ derived' = derived  BY Zenon DEF Ends
  <2>. QED  BY <1>1, <2>1, DerivedTyped DEF Types
<1>15. UNCHANGED <<phase, req, answer, published, history, builds>>  BY Zenon DEF Ends
<1>16. \E o \in Seq(Candidates) : built' = built \o o
  <2>. HIDE DEF offered
  <2>. QED  BY <1>7, <1>8
<1>. QED
  BY <1>1, <1>4, <1>5, <1>6, <1>11, <1>12, <1>13, <1>14, <1>15, <1>16 DEF Entered

LEMMA AtMostOneTree ==
  ASSUME NEW trees \in AtMostOne
  PROVE  trees \in Seq(Trees) /\ Len(trees) <= MaxGoatdCandidates
<1>1. MaxGoatdCandidates \in Nat \ {0}  BY PortfolioAssumption
<1>2. CASE trees = <<>>  BY <1>1, <1>2
<1>3. ASSUME NEW t \in Trees, trees = <<t>>
      PROVE  trees \in Seq(Trees) /\ Len(trees) <= MaxGoatdCandidates
  BY <1>1, <1>3
<1>. QED  BY <1>2, <1>3 DEF AtMostOne

LEMMA WithinBound ==
  ASSUME NEW bound \in Nat \cup {None}, NEW ran \in Durations(bound)
  PROVE  ran \in Nat /\ (bound # None => ran <= bound + MaxPiece)
BY PortfolioAssumption, RequestsAssumption DEF Durations

LEMMA EntriesEnter ==
  ASSUME Types, Selection, ClosedGate \/ BuildFlowcutter \/ BuildGoatd \/ BuildForce
                             \/ BuildBisect \/ BuildGuided
  PROVE  Entered
<1>1. Startable /\ phase = "walking" /\ pos <= Len(Walk)
  BY DEF ClosedGate, BuildFlowcutter, BuildGoatd, BuildForce, BuildBisect, BuildGuided, Starts, Startable
<1>2. RequestOK(req) /\ pos \in 1 .. Len(Walk)  BY <1>1, WalkTyped DEF Types
<1>. DEFINE s == Sliced
<1>3. /\ s \in RunStates /\ s.best = run.best /\ s.cands = run.cands /\ s.preferred = run.preferred
      /\ req.deadline # None => s.share \in Nat /\ s.wall \in Nat /\ s.share <= s.wall
  BY <1>1, Slices
<1>4. MaxPiece \in Nat /\ None \notin Nat /\ MaxGoatdCandidates \in Nat
      /\ s.wall \in Nat \cup {None} /\ s.share \in Nat \cup {None}
  BY <1>3, PortfolioAssumption, RequestsAssumption DEF RunStates
<1>. HIDE DEF s
<1>5. \A ran \in Nat, trees \in Seq(Trees) :
        /\ req.deadline # None => ran <= s.wall + MaxPiece
        /\ Len(trees) <= MaxGoatdCandidates
        /\ Ends(s, ran, trees)
        => Entered
  BY <1>1, <1>3, EndsEnters DEF s
<1>6. CASE ClosedGate
  <2>1. Ends(s, 0, <<>>)  BY <1>6, Zenon DEF ClosedGate, s
  <2>2. <<>> \in Seq(Trees) /\ Len(<<>>) = 0  OBVIOUS
  <2>3. req.deadline # None => 0 <= s.wall + MaxPiece  BY <1>3, <1>4
  <2>4. 0 <= MaxGoatdCandidates /\ 0 \in Nat  BY <1>4
  <2>. QED  BY <1>5, <2>1, <2>2, <2>3, <2>4
<1>7. CASE BuildFlowcutter
  <2>1. PICK ran \in Durations(FlowcutterCap(s)), trees \in AtMostOne :
          Ends([s EXCEPT !.firstFlowcutter = IF @ = None /\ trees # <<>> THEN ran ELSE @,
                         !.flowcutter = @ + ran,
                         !.cache = IF EntryHere.name = "flowcutter-incidence"
                                   THEN trees # <<>> /\ ~req.heavy ELSE @], ran, trees)
    BY <1>7, Zenon DEF BuildFlowcutter, s
  <2>. DEFINE first == IF s.firstFlowcutter = None /\ trees # <<>> THEN ran ELSE s.firstFlowcutter
              cache == IF EntryHere.name = "flowcutter-incidence"
                       THEN trees # <<>> /\ ~req.heavy ELSE s.cache
              u == [s EXCEPT !.firstFlowcutter = first, !.flowcutter = s.flowcutter + ran, !.cache = cache]
  <2>2. FlowcutterCap(s) \in Nat \cup {None} /\ (s.wall # None => FlowcutterCap(s) \in Nat /\ FlowcutterCap(s) <= s.wall)
    BY <1>2, <1>3, CapWithinWall
  <2>3. ran \in Nat /\ (FlowcutterCap(s) # None => ran <= FlowcutterCap(s) + MaxPiece)
    BY <2>2, WithinBound
  <2>4. req.deadline # None => ran <= s.wall + MaxPiece
    BY <1>3, <1>4, <2>2, <2>3
  <2>5. trees \in Seq(Trees) /\ Len(trees) <= MaxGoatdCandidates  BY AtMostOneTree
  <2>6. first \in Nat \cup {None} /\ cache \in BOOLEAN /\ s.flowcutter + ran \in Nat
    <3>1. s.firstFlowcutter \in Nat \cup {None} /\ s.cache \in BOOLEAN /\ s.flowcutter \in Nat
      BY <1>3 DEF RunStates
    <3>2. first \in Nat \cup {None} /\ s.flowcutter + ran \in Nat  BY <2>3, <3>1
    <3>3. cache \in BOOLEAN
      <4>1. (trees # <<>> /\ ~req.heavy) \in BOOLEAN  OBVIOUS
      <4>. QED  BY <3>1, <4>1, Zenon
    <3>. QED  BY <3>2, <3>3
  <2>7. Ends(u, ran, trees)
    <3>1. s = [s EXCEPT !.share = s.share]  BY <1>3 DEF RunStates
    <3>. QED  BY <2>1, <3>1, Zenon
  <2>. HIDE DEF first, cache
  <2>8. /\ u \in RunStates /\ u.share = s.share
        /\ u.best = s.best /\ u.cands = s.cands /\ u.preferred = s.preferred
    BY <1>3, <2>6 DEF RunStates
  <2>. HIDE DEF u
  <2>9. u.share = Sliced.share /\ (req.deadline # None => ran <= Sliced.wall + MaxPiece)
    BY <2>4, <2>8 DEF s
  <2>. QED  BY <1>1, <1>3, <2>3, <2>5, <2>7, <2>8, <2>9, EndsEnters
<1>8. CASE BuildGoatd
  <2>1. PICK ran \in Durations(GoatdBudget(s)), n \in 0 .. EntryHere.offers :
          \E trees \in [1 .. n -> Trees] : Ends(s, ran, trees)
    BY <1>8, Zenon DEF BuildGoatd, s
  <2>2. PICK trees \in [1 .. n -> Trees] : Ends(s, ran, trees)  BY <2>1
  <2>3. EntryHere.offers \in 1 .. MaxGoatdCandidates  BY <1>2, WalkTyped DEF EntryHere
  <2>4. n \in Nat /\ n <= MaxGoatdCandidates  BY <1>4, <2>3
  <2>5. trees \in Seq(Trees) /\ Len(trees) <= MaxGoatdCandidates  BY <2>4
  <2>6. GoatdBudget(s) \in Nat \cup {None} /\ (s.share # None => GoatdBudget(s) \in Nat /\ GoatdBudget(s) <= s.share)
    <3>1. s.flowcutter \in Nat /\ GoatdBudgetFloor \in Nat  BY <1>3, PortfolioAssumption DEF RunStates
    <3>. QED  BY <1>4, <3>1 DEF GoatdBudget, Smaller, Larger
  <2>7. ran \in Nat /\ (GoatdBudget(s) # None => ran <= GoatdBudget(s) + MaxPiece)
    BY <2>6, WithinBound
  <2>8. req.deadline # None => ran <= s.wall + MaxPiece
    BY <1>3, <1>4, <2>6, <2>7
  <2>. QED  BY <1>5, <2>2, <2>5, <2>7, <2>8
<1>9. CASE BuildForce
  <2>1. PICK ran \in 0 .. MaxPiece, trees \in AtMostOne : Ends(s, ran, trees)
    BY <1>9, Zenon DEF BuildForce, s
  <2>2. trees \in Seq(Trees) /\ Len(trees) <= MaxGoatdCandidates  BY AtMostOneTree
  <2>3. ran \in Nat /\ (req.deadline # None => ran <= s.wall + MaxPiece)  BY <1>3, <1>4
  <2>. QED  BY <1>5, <2>1, <2>2, <2>3
<1>10. CASE BuildBisect \/ BuildGuided
  <2>1. PICK ran \in Durations(s.wall), trees \in AtMostOne : Ends(s, ran, trees)
    BY <1>10, Zenon DEF BuildBisect, BuildGuided, s
  <2>2. trees \in Seq(Trees) /\ Len(trees) <= MaxGoatdCandidates  BY AtMostOneTree
  <2>3. ran \in Nat /\ (s.wall # None => ran <= s.wall + MaxPiece)  BY <1>4, WithinBound
  <2>4. req.deadline # None => ran <= s.wall + MaxPiece  BY <1>3, <1>4, <2>3
  <2>. QED  BY <1>5, <2>1, <2>2, <2>3, <2>4
<1>. QED  BY <1>6, <1>7, <1>8, <1>9, <1>10

-----------------------------------------------------------------------------
(***************************************************************************)
(* The invariant holds.                                                    *)
(***************************************************************************)
LEMMA InitInv == Init => Inv
<1>. SUFFICES ASSUME Init PROVE Inv  OBVIOUS
<1>1. run \in RunStates  BY DEF Init, RunStates
<1>2. Types  BY <1>1, PortfolioAssumption DEF Init, Types
<1>. QED  BY <1>2 DEF Init, Inv, Selection, Offer, Won, Clock

LEMMA FreshInv ==
  ASSUME Inv, NEW r \in Requests, Begin(r) \/ RefuseName(r)
  PROVE  Inv'
<1>1. Fresh(r) /\ RequestOK(r)  BY RequestsAssumption DEF Begin, RefuseName
<1>2. /\ req' = r /\ pos' = 1 /\ now' = 0 /\ run' = NewRun(r) /\ derived' = None
      /\ skipped' = <<>> /\ started' = <<>> /\ built' = <<>> /\ builds' = builds + 1
      /\ builds < MaxBuilds
  BY <1>1 DEF Fresh
<1>3. /\ phase' \in {"walking", "done"} /\ history' \in (Nat \ {0}) \cup {None}
      /\ \/ phase' = "walking" /\ answer' = None
         \/ phase' = "done" /\ answer' = Refused
  BY DEF Begin, RefuseName, Recorded, Inv, Types
<1>4. run' \in RunStates
  <2>. DEFINE behind == ArmedByHistory(r)
  <2>1. behind \in BOOLEAN  BY DEF ArmedByHistory, Outspent
  <2>2. run' = [share |-> None, wall |-> None, behind |-> behind, firstFlowcutter |-> None,
                flowcutter |-> 0, cache |-> FALSE, best |-> None, cands |-> <<>>, preferred |-> None]
    BY <1>2 DEF NewRun
  <2>. HIDE DEF behind
  <2>. QED  BY <2>1, <2>2 DEF RunStates
<1>5. Types'
  <2>1. RequestOK(req)'  BY <1>1, <1>2 DEF RequestOK
  <2>2. pos' \in 1 .. Len(Walk') + 1
    <3>1. Walk' \in Seq(Entries)  BY WalkEntries DEF Walk
    <3>. HIDE DEF Walk
    <3>2. Len(Walk') \in Nat  BY <3>1
    <3>. QED  BY <1>2, <3>2
  <2>3. builds' \in 0 .. MaxBuilds  BY <1>2, PortfolioAssumption DEF Inv, Types
  <2>. QED  BY <1>2, <1>3, <1>4, <2>1, <2>2, <2>3 DEF Types
<1>6. Selection'
  <2>1. run'.best = None /\ run'.cands = <<>> /\ run'.preferred = None  BY <1>2 DEF NewRun
  <2>2. Kept(req', run', built')
    BY <1>2, <2>1 DEF Kept, KeepsAll, KeepsCheapest, KeepsPreferred
  <2>. QED  BY <1>3, <2>2 DEF Selection
<1>7. Clock'
  <2>1. answer' # Nothing  BY <1>3, RequestsAssumption
  <2>. QED  BY <1>2, <2>1 DEF Clock, LateIsLast, ClockBound, Tried
<1>8. Offer'  BY <1>3 DEF Offer, Won
<1>. QED  BY <1>5, <1>6, <1>7, <1>8 DEF Inv

LEMMA EnteredInv ==
  ASSUME Inv, Entered
  PROVE  Inv'
<1>1. /\ phase = "walking" /\ phase' = phase /\ req' = req /\ answer' = answer
      /\ history' = history /\ builds' = builds /\ Walk' = Walk
      /\ pos <= Len(Walk) /\ pos \in 1 .. Len(Walk) + 1 /\ now \in Nat
      /\ Len(Walk) \in Nat /\ RequestOK(req)
  BY WalkTyped DEF Entered, Inv, Types, Walk
<1>2. PICK offered \in Seq(Candidates) : built' = built \o offered  BY DEF Entered
<1>3. PICK a \in Attempts : a.from = now /\ a.built = Len(built) /\ started' = Append(started, a)
  BY DEF Entered
<1>4. \/ Late(now) /\ skipped' \in Seq(Names) /\ pos' = Len(Walk) + 1
      \/ ~Late(now) /\ skipped' = skipped /\ pos' = pos + 1
  BY DEF Entered
<1>5. /\ built \in Seq(Candidates) /\ started \in Seq(Attempts) /\ skipped \in Seq(Names)
      /\ answer = None
  BY <1>1 DEF Inv, Types, Selection
<1>6. /\ started' \in Seq(Attempts) /\ Len(started') = Len(started) + 1 /\ started' # <<>>
      /\ started'[Len(started) + 1] = a /\ \A i \in 1 .. Len(started) : started'[i] = started[i]
  BY <1>3, <1>5
<1>7. /\ now' \in Nat /\ now <= now' /\ (Late(now) => built = <<>>)
      /\ req.deadline # None =>
           now' <= MaxPiece + (IF now >= req.deadline THEN now + LastAttempt ELSE req.deadline)
      /\ run' \in RunStates /\ Kept(req, run', built')
      /\ derived' \in {None} \cup [coloring : BOOLEAN, generates : BOOLEAN]
  BY DEF Entered
<1>8. Types'
  <2>1. built' \in Seq(Candidates)  BY <1>2, <1>5, ConcatProperties
  <2>2. pos' \in 1 .. Len(Walk') + 1 /\ skipped' \in Seq(Names)  BY <1>1, <1>4, <1>5
  <2>3. RequestOK(req)' /\ req' \in Requests  BY <1>1 DEF RequestOK, Inv, Types
  <2>. QED  BY <1>1, <1>6, <1>7, <2>1, <2>2, <2>3 DEF Inv, Types
<1>9. Selection'  BY <1>1, <1>5, <1>7 DEF Selection
<1>10. Clock'
  <2>1. /\ LateIsLast /\ ClockBound /\ Tried  BY <1>1 DEF Inv, Clock
  <2>2. LateIsLast'
    <3>1. ASSUME NEW i \in 1 .. Len(started'), Late(started'[i].from)
          PROVE  i = Len(started') /\ started'[i].built = 0 /\ pos' > Len(Walk)
      <4>1. i # Len(started) + 1 => i \in 1 .. Len(started)  BY <1>5, <1>6
      <4>2. i = Len(started) + 1
        BY <1>1, <1>6, <2>1, <3>1, <4>1 DEF LateIsLast
      <4>3. started'[i] = a  BY <1>6, <4>2
      <4>4. Late(now)  BY <1>3, <3>1, <4>3
      <4>5. Len(built) = 0  BY <1>7, <4>4
      <4>6. pos' > Len(Walk)  BY <1>1, <1>4, <4>4
      <4>. QED  BY <1>3, <1>6, <4>2, <4>3, <4>5, <4>6
    <3>. QED  BY <1>1, <3>1 DEF LateIsLast, Late
  <2>3. ClockBound'  BY <1>1, <1>3, <1>6, <1>7 DEF ClockBound
  <2>4. Tried'
    <3>1. skipped' # <<>> => Late(now)'
      <4>1. Late(now) => Late(now)'
        <5>1. req.deadline \in Nat \cup {None}  BY <1>1 DEF RequestOK
        <5>. QED  BY <1>1, <1>7, <5>1 DEF Late
      <4>. QED  BY <1>4, <2>1, <4>1 DEF Tried
    <3>. QED  BY <1>6, <3>1 DEF Tried
  <2>. QED  BY <2>2, <2>3, <2>4 DEF Clock
<1>11. Offer'  BY <1>1 DEF Offer, Won
<1>. QED  BY <1>8, <1>9, <1>10, <1>11 DEF Inv

LEMMA SkipRestInv ==
  ASSUME Inv, SkipRest
  PROVE  Inv'
<1>1. /\ phase = "walking" /\ pos <= Len(Walk) /\ ~Startable /\ skipped' = NamesFrom(pos)
      /\ pos' = Len(Walk) + 1
      /\ UNCHANGED <<phase, req, now, run, derived, started, built, answer, published, history, builds>>
      /\ Walk' = Walk /\ Len(Walk) \in Nat /\ RequestOK(req) /\ pos \in 1 .. Len(Walk) + 1
      /\ now \in Nat /\ LateIsLast /\ ClockBound /\ Tried /\ answer = None
      /\ built \in Seq(Candidates) /\ started \in Seq(Attempts) /\ Kept(req, run, built)
  BY WalkTyped DEF SkipRest, Inv, Types, Clock, Selection, Walk
<1>2. Late(now) /\ ~NothingBuilt
  <2>1. OutOfTime <=> Late(now)  BY <1>1, OutOfTimeIsLate
  <2>. QED  BY <1>1, <2>1 DEF Startable
<1>3. started # <<>>
  <2>1. built # <<>>
    <3>. SUFFICES ASSUME built = <<>> PROVE FALSE  OBVIOUS
    <3>1. run.best = None /\ run.cands = <<>>  BY <1>1 DEF Kept, KeepsAll, KeepsCheapest
    <3>. QED  BY <1>2, <3>1 DEF NothingBuilt
  <2>. QED  BY <1>1, <2>1 DEF Tried
<1>4. skipped' \in Seq(Names)  BY <1>1, NamesFromTyped
<1>5. Types'
  <2>1. RequestOK(req)' /\ req' \in Requests  BY <1>1 DEF RequestOK, Inv, Types
  <2>. QED  BY <1>1, <1>4, <2>1 DEF Inv, Types
<1>6. Selection'  BY <1>1 DEF Selection
<1>7. Clock'
  <2>1. LateIsLast'  BY <1>1 DEF LateIsLast, Late
  <2>2. ClockBound'  BY <1>1 DEF ClockBound
  <2>3. Tried'  BY <1>1, <1>2, <1>3 DEF Tried, Late
  <2>. QED  BY <2>1, <2>2, <2>3 DEF Clock
<1>8. Offer'  BY <1>1 DEF Offer, Won
<1>. QED  BY <1>5, <1>6, <1>7, <1>8 DEF Inv

\* What a finished build answers.
LEMMA FinishAnswers ==
  ASSUME Inv, Finish
  PROVE  /\ \/ answer' = Unbuilt /\ req.required /\ req.prefer # None
               /\ \A i \in 1 .. Len(built) : ~Prefers(req, built[i])
            \/ answer' = Nothing /\ built = <<>> /\ ~ (req.required /\ req.prefer # None)
            \/ /\ answer' \in Candidates /\ Rules(req, built, answer')
               /\ (\E i \in 1 .. Len(built) : Prefers(req, built[i])) => Prefers(req, answer')
               /\ req.required /\ req.prefer # None =>
                    \E i \in 1 .. Len(built) : Prefers(req, built[i])
<1>1. /\ phase = "walking" /\ answer' = Outcome(Adopted(run))
      /\ RequestOK(req) /\ run \in RunStates /\ built \in Seq(Candidates) /\ Kept(req, run, built)
  BY DEF Finish, Inv, Types, Selection
<1>. DEFINE w == Adopted(run)
            must == req.required /\ req.prefer # None
<1>2. /\ w = None => built = <<>> /\ run.preferred = None
      /\ w # None => w \in Candidates /\ Rules(req, built, w)
      /\ w # None /\ (\E i \in 1 .. Len(built) : Prefers(req, built[i])) => Prefers(req, w)
      /\ run.preferred # None => \E i \in 1 .. Len(built) : Prefers(req, built[i])
      /\ run.preferred = None => \A i \in 1 .. Len(built) : ~Prefers(req, built[i])
  BY <1>1, AdoptedFollowsRules
<1>3. answer' = IF must /\ run.preferred = None THEN Unbuilt ELSE IF w = None THEN Nothing ELSE w
  BY <1>1 DEF Outcome
<1>. HIDE DEF w
<1>4. CASE must /\ run.preferred = None
  BY <1>2, <1>3, <1>4
<1>5. CASE ~ (must /\ run.preferred = None) /\ w = None
  BY <1>2, <1>3, <1>5
<1>6. CASE ~ (must /\ run.preferred = None) /\ w # None
  BY <1>2, <1>3, <1>6
<1>. QED  BY <1>4, <1>5, <1>6

LEMMA FinishInv ==
  ASSUME Inv, Finish
  PROVE  Inv'
<1>1. /\ phase = "walking" /\ pos > Len(Walk) /\ phase' = "done"
      /\ UNCHANGED <<req, pos, now, run, derived, skipped, started, built, builds>>
      /\ Walk' = Walk /\ Len(Walk) \in Nat /\ pos \in 1 .. Len(Walk) + 1
      /\ LateIsLast /\ ClockBound /\ Tried
      /\ built \in Seq(Candidates) /\ started \in Seq(Attempts) /\ Kept(req, run, built)
  BY WalkTyped DEF Finish, Inv, Types, Clock, Selection, Walk
<1>2. \/ answer' \in {Unbuilt, Nothing}
      \/ answer' \in Candidates /\ Rules(req, built, answer')
  BY FinishAnswers
<1>3. history' \in (Nat \ {0}) \cup {None}
  <2>1. PICK spent \in WallSpent : history' = Recorded(spent)  BY DEF Finish
  <2>2. spent \in Nat  BY <2>1 DEF WallSpent, Inv, Types
  <2>. QED  BY <2>1, <2>2 DEF Recorded
<1>4. Types'
  <2>1. RequestOK(req)' /\ req' \in Requests  BY <1>1 DEF RequestOK, Inv, Types
  <2>. QED  BY <1>1, <1>2, <1>3, <2>1 DEF Inv, Types
<1>5. Selection'  BY <1>1, <1>2 DEF Selection
<1>6. Clock'
  <2>1. LateIsLast'  BY <1>1 DEF LateIsLast, Late
  <2>2. ClockBound'  BY <1>1 DEF ClockBound
  <2>3. Walk # <<>> => started # <<>>
    <3>1. Walk \in Seq(Entries)  BY WalkTyped
    <3>2. Walk # <<>> => Len(Walk) > 0  BY <3>1, EmptySeq
    <3>. QED  BY <1>1, <3>2 DEF Tried
  <2>4. Tried'  BY <1>1, <2>3 DEF Tried, Late
  <2>. QED  BY <2>1, <2>2, <2>4 DEF Clock
<1>7. Offer'
  <2>. SUFFICES ASSUME Won', req.keep > 1 PROVE Faithful(req, built, answer', published')
    BY <1>1 DEF Offer
  <2>. DEFINE o == Outcome(Adopted(run))
  <2>1. answer' = o /\ (o \notin {Unbuilt, Nothing} => published' = CandidateSet(run.cands, o))
    BY DEF Finish
  <2>2. o \notin {Unbuilt, Nothing}  BY <2>1 DEF Won
  <2>3. run.cands = built  BY <1>1 DEF Kept, KeepsAll, Retains
  <2>4. PICK i \in 1 .. Len(built) : o = built[i]
    <3>1. Rules(req, built, o)  BY <1>2, <2>1, <2>2
    <3>. QED  BY <3>1 DEF Rules
  <2>5. RequestOK(req)  BY <1>1 DEF Inv, Types
  <2>. HIDE DEF o
  <2>6. Faithful(req, built, o, CandidateSet(built, o))
    BY <1>1, <2>4, <2>5, CandidateSetIsFaithful
  <2>. QED  BY <2>1, <2>2, <2>3, <2>6
<1>. QED  BY <1>4, <1>5, <1>6, <1>7 DEF Inv

LEMMA StutterInv ==
  ASSUME Inv, UNCHANGED vars
  PROVE  Inv'
<1>1. Walk' = Walk  BY DEF vars, Walk
<1>2. Types'
  <2>1. phase # "idle" => RequestOK(req)'  BY DEF vars, Inv, Types, RequestOK
  <2>. QED  BY <1>1, <2>1 DEF vars, Inv, Types
<1>3. Selection'  BY DEF vars, Inv, Selection
<1>4. Clock'  BY <1>1 DEF vars, Inv, Clock, LateIsLast, ClockBound, Tried, Late
<1>5. Offer'  BY DEF vars, Inv, Offer, Won
<1>. QED  BY <1>2, <1>3, <1>4, <1>5 DEF Inv

\* Every step of the driver takes up or refuses a request, runs one construction
\* or skips the rest, or ends the build.
LEMMA NextSteps ==
  ASSUME Inv, [Next]_vars
  PROVE  \/ \E r \in Requests : Begin(r) \/ RefuseName(r)
         \/ Entered \/ SkipRest \/ Finish \/ UNCHANGED vars
<1>1. Types /\ Selection  BY DEF Inv
<1>2. CASE ClosedGate \/ BuildFlowcutter \/ BuildGoatd \/ BuildForce \/ BuildBisect \/ BuildGuided
  BY <1>1, <1>2, EntriesEnter
<1>3. CASE Idle  BY <1>3 DEF Idle
<1>. QED  BY <1>2, <1>3 DEF Next

\* The driver's invariant holds in every state: of its fold, its clock, its history.
THEOREM InvHolds == Spec => []Inv
<1>1. Init => Inv  BY InitInv
<1>2. Inv /\ [Next]_vars => Inv'
  BY NextSteps, FreshInv, EnteredInv, SkipRestInv, FinishInv, StutterInv
<1>. QED  BY <1>1, <1>2, PTL DEF Spec

-----------------------------------------------------------------------------
(***************************************************************************)
(* The properties.                                                         *)
(***************************************************************************)

\* The winner is the one the documented rules name over everything built,
\* whatever the streaming fold kept of it, for every request and score.
THEOREM WinnerAlwaysFollowsTheRules == Spec => []WinnerFollowsTheRules
<1>1. Inv => WinnerFollowsTheRules
  <2>1. Inv => (Won => Rules(req, built, answer))  BY DEF Inv, Selection, Won
  <2>. QED  BY <2>1, RulesAreTheProperty
<1>. QED  BY <1>1, InvHolds, PTL

\* Whatever trees tie and whatever the capacity, a published set heads with the
\* winner, holds distinct trees under all their names, is in the order of the
\* metric behind the head, and leaves out no tree better than one it holds
\* (from_scored).
THEOREM PublishedSetIsAlwaysFaithful == Spec => []PublishedSetIsFaithful
<1>. SUFFICES Inv => PublishedSetIsFaithful  BY InvHolds, PTL
<1>. SUFFICES ASSUME Inv, Won, req.keep > 1 PROVE PublishedSetIsFaithful  BY DEF PublishedSetIsFaithful
<1>1. Faithful(req, built, answer, published)  BY DEF Inv, Offer
<1>2. \A c : Metric(c) = MetricOf(req, c.tree)  BY DEF Metric, MetricOf
<1>. QED  BY <1>1, <1>2 DEF Faithful, PublishedSetIsFaithful

\* Past its deadline a build starts at most one entry, when nothing is built,
\* and it ends one piece of one construction after the deadline or the last
\* attempt, for every catalog, clock and deadline.
THEOREM TimeIsAlwaysBounded == Spec => []TimeIsBounded
<1>. SUFFICES Inv => TimeIsBounded  BY InvHolds, PTL
<1>. SUFFICES ASSUME Inv PROVE TimeIsBounded  OBVIOUS
<1>1. TypeOK
  <2>1. ToSet(run.cands) \subseteq Candidates /\ ToSet(built) \subseteq Candidates
        /\ ToSet(skipped) \subseteq Names
    BY DEF Inv, Types, RunStates, ToSet
  <2>. QED  BY <2>1 DEF Inv, Types, RunStates, TypeOK
<1>2. phase # "idle" => RequestOK(req) /\ LateIsLast /\ ClockBound /\ Tried
  BY DEF Inv, Types, Clock
<1>3. started \in Seq(Attempts) /\ DOMAIN started = 1 .. Len(started)  BY DEF Inv, Types
<1>4. OneLateAttempt
  <2>1. phase # "idle" /\ req.deadline # None =>
          \A i \in DOMAIN started :
            started[i].from >= req.deadline => i = Len(started) /\ started[i].built = 0
    BY <1>2, <1>3 DEF LateIsLast, Late
  <2>2. phase = "done" /\ answer = Nothing /\ Walk # <<>> =>
          started # <<>> /\ (skipped # <<>> => OutOfTime)
    BY <1>2, OutOfTimeIsLate DEF Tried, Inv, Types
  <2>. QED  BY <2>1, <2>2 DEF OneLateAttempt
<1>5. OverrunIsBounded
  BY <1>2, <1>3 DEF OverrunIsBounded, ClockBound, Last
<1>. QED  BY <1>1, <1>4, <1>5 DEF TimeIsBounded

\* The candidates the preference names, as the contract sees them.
Wanted == IF phase = "idle" \/ answer = Refused THEN {} ELSE {c \in Candidates : Prefers(req, c)}
Must == phase # "idle" /\ req.required /\ req.prefer # None

\* Every step of the driver is a step of a candidate build, or leaves it alone.
THEOREM DriverIsACandidateBuild == Spec => ImplementsCandidateBuild
<1>1. Init => Contract!Init  BY DEF Init, Contract!Init
<1>2. ASSUME Inv, [Next]_vars
      PROVE  Contract!Next \/ UNCHANGED Contract!cbVars
  <2>1. /\ None # Refused /\ Unbuilt # Refused /\ Nothing # Refused /\ Refused \notin Candidates
    BY RequestsAssumption
  <2>2. ASSUME NEW r \in Requests, Begin(r)
        PROVE  Contract!Begin
    <3>1. /\ phase \in {"idle", "done"} /\ phase' = "walking" /\ req' = r /\ built' = <<>>
          /\ answer' = None
      BY <2>2 DEF Begin, Fresh
    <3>2. Wanted' \in SUBSET Candidates  BY <2>1, <3>1 DEF Wanted
    <3>3. Must' \in BOOLEAN  BY DEF Must
    <3>. QED  BY <3>1, <3>2, <3>3 DEF Contract!Begin, Wanted, Must
  <2>3. ASSUME NEW r \in Requests, RefuseName(r)
        PROVE  Contract!Refuse
    <3>1. phase \in {"idle", "done"} /\ phase' = "done" /\ built' = <<>> /\ answer' = Refused
      BY <2>3 DEF RefuseName, Fresh
    <3>2. Must' \in BOOLEAN  BY DEF Must
    <3>. QED  BY <3>1, <3>2 DEF Contract!Refuse, Must
  <2>4. ASSUME Entered
        PROVE  Contract!Offer \/ UNCHANGED Contract!cbVars
    <3>1. phase = "walking" /\ UNCHANGED <<phase, req, answer>>  BY <2>4 DEF Entered
    <3>2. PICK offered \in Seq(Candidates) : built' = built \o offered  BY <2>4 DEF Entered
    <3>3. built \in Seq(Candidates)  BY <1>2 DEF Inv, Types
    <3>4. Wanted' = Wanted /\ Must' = Must  BY <3>1 DEF Wanted, Must, Prefers
    <3>5. CASE offered = <<>>
      <4>1. built' = built  BY <3>2, <3>3, <3>5
      <4>. QED  BY <3>1, <3>4, <4>1 DEF Contract!cbVars, Wanted, Must
    <3>6. CASE offered # <<>>
      <4>1. /\ Len(offered) \in Nat \ {0} /\ Len(built) \in Nat
            /\ Len(built') = Len(built) + Len(offered)
        BY <3>2, <3>3, <3>6
      <4>2. SubSeq(built', 1, Len(built)) = built  BY <3>2, <3>3
      <4>3. \E n \in 1 .. Len(built') :
              SubSeq(built', 1, Len(built)) = built /\ Len(built') = Len(built) + n
        BY <4>1, <4>2
      <4>. QED  BY <3>1, <3>4, <4>3 DEF Contract!Offer, Wanted, Must
    <3>. QED  BY <3>5, <3>6
  <2>5. ASSUME SkipRest
        PROVE  UNCHANGED Contract!cbVars
    BY <2>5 DEF SkipRest, Contract!cbVars, Prefers
  <2>6. ASSUME Finish
        PROVE  Contract!Deliver \/ Contract!Fail
    <3>1. /\ phase = "walking" /\ phase' = "done" /\ req' = req /\ built' = built /\ answer = None
          /\ built \in Seq(Candidates)
      BY <1>2, <2>6 DEF Finish, Inv, Types, Selection
    <3>2. Must' = Must /\ Must = (req.required /\ req.prefer # None)  BY <3>1 DEF Must
    <3>3. \A i \in 1 .. Len(built) : built[i] \in Candidates  BY <3>1, ElementOfSeq
    <3>4. DOMAIN built = 1 .. Len(built)  BY <3>1
    <3>5. answer' # Refused => Wanted' = Wanted /\ Wanted = {c \in Candidates : Prefers(req, c)}
      BY <2>1, <3>1 DEF Wanted, Prefers
    <3>6. CASE /\ answer' = Unbuilt /\ req.required /\ req.prefer # None
               /\ \A i \in 1 .. Len(built) : ~Prefers(req, built[i])
      <4>1. ~ (\E i \in DOMAIN built : built[i] \in Wanted)  BY <2>1, <3>4, <3>5, <3>6
      <4>2. Wanted' = Wanted  BY <2>1, <3>5, <3>6
      <4>. QED  BY <3>1, <3>2, <3>6, <4>1, <4>2 DEF Contract!Fail, Contract!WantedBuilt, Wanted, Must
    <3>7. CASE answer' = Nothing /\ built = <<>> /\ ~ (req.required /\ req.prefer # None)
      <4>1. Wanted' = Wanted  BY <2>1, <3>5, <3>7
      <4>. QED  BY <3>1, <3>2, <3>7, <4>1 DEF Contract!Fail, Wanted, Must
    <3>8. CASE /\ answer' \in Candidates /\ Rules(req, built, answer')
               /\ (\E i \in 1 .. Len(built) : Prefers(req, built[i])) => Prefers(req, answer')
               /\ req.required /\ req.prefer # None =>
                    \E i \in 1 .. Len(built) : Prefers(req, built[i])
      <4>1. Wanted' = Wanted /\ Wanted = {c \in Candidates : Prefers(req, c)}  BY <2>1, <3>5, <3>8
      <4>2. \E i \in DOMAIN built : answer' = built[i]  BY <3>8, Zenon DEF Rules
      <4>3. (\E i \in DOMAIN built : built[i] \in Wanted) <=>
              (\E i \in 1 .. Len(built) : Prefers(req, built[i]))
        BY <3>3, <3>4, <4>1
      <4>4. (\E i \in DOMAIN built : built[i] \in Wanted) => answer' \in Wanted'
        BY <3>8, <4>1, <4>3
      <4>5. Must => \E i \in DOMAIN built : built[i] \in Wanted  BY <3>2, <3>8, <4>3
      <4>. QED  BY <3>1, <3>2, <4>1, <4>2, <4>4, <4>5 DEF Contract!Deliver, Contract!WantedBuilt, Wanted, Must
    <3>. QED  BY <2>6, <1>2, <3>6, <3>7, <3>8, FinishAnswers
  <2>7. ASSUME UNCHANGED vars
        PROVE  UNCHANGED Contract!cbVars
    BY <2>7 DEF vars, Contract!cbVars, Prefers
  <2>. QED
    BY <1>2, <2>2, <2>3, <2>4, <2>5, <2>6, <2>7, NextSteps DEF Contract!Next
<1>. QED  BY <1>1, <1>2, InvHolds, PTL DEF Spec, ImplementsCandidateBuild, Contract!Spec
=============================================================================

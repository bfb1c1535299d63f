---------------------------- MODULE ProjectedBve ----------------------------
(***************************************************************************)
(* Bounded elimination of hidden variables by resolution                   *)
(* (src/src/preprocess/bve_project.rs).  A clause keeps the index it was   *)
(* stored at; eliminating a variable marks its clauses dead and stores the *)
(* resolvents behind them, and the lists of occurrences are cleaned of     *)
(* dead indices only when their variable is next considered.               *)
(***************************************************************************)
EXTENDS Weights

CONSTANT PollPairs     \* how many pairs are resolved between two reads of the clock

ASSUME PollAssumption == PollPairs \in Nat \ {0}

VARIABLES
  shown,     \* the mask: variables the count is taken over
  store,     \* the clauses, dead and alive
  live,      \* the indices of the live ones
  occ,       \* per literal, indices of clauses it was stored in
  queue,     \* hidden variables to consider
  queued     \* the flags that keep a variable from waiting twice

bve == <<shown, store, live, occ, queue, queued>>

LiveClauses == {store[i] : i \in live}
InOrder(S) == SelectSeq([v \in Vars |-> v], LAMBDA v : v \in S)

\* occurrence_lists_of: the indices a literal occurs at, ascending.
OccurrencesIn(cs) == [l \in Lits |-> SelectSeq([i \in 1 .. Len(cs) |-> i], LAMBDA i : l \in cs[i])]

\* BveState::new for the clause list cs and the mask S.
Opened(cs, S) ==
  LET waiting == Appearing(ToSet(cs)) \ S
  IN  /\ shown' = S
      /\ store' = cs
      /\ live' = 1 .. Len(cs)
      /\ occ' = OccurrencesIn(cs)
      /\ queue' = InOrder(waiting)
      /\ queued' = waiting

\* Mutant: dead indices stay in the lists that are read.
BugNoPurge(v) == [l \in {v, -v} |-> occ[l]]

\* purge_dead, for both literals of v.
Purged(v) == [l \in {v, -v} |-> SelectSeq(occ[l], LAMBDA i : i \in live)]
Clashes(v) ==
  FlattenSeq([i \in DOMAIN Purged(v)[v] |->
    [j \in DOMAIN Purged(v)[-v] |-> <<store[Purged(v)[v][i]], store[Purged(v)[-v][j]]>>]])

\* enumerate_resolvents, without the bound: unique and in the order they are found.
Resolved(pairs, v) ==
  FoldLeft(LAMBDA rs, p : LET r == (p[1] \ {v}) \cup (p[2] \ {-v})
                          IN  IF Tautology(r) \/ r \in ToSet(rs) THEN rs ELSE Append(rs, r),
           <<>>, pairs)
ResolventsOf(v) == Resolved(Clashes(v), v)
Occurrences(v) == Len(Purged(v)[v]) + Len(Purged(v)[-v])

\* Mutants: the bound lets one clause more through; a hidden variable is not
\* put back when it has been considered once.
BugLooseBound(v) == Len(ResolventsOf(v)) > Occurrences(v) + 1
BugNoRequeue(q, S, vs) == q

Grows(v) == Len(ResolventsOf(v)) > Occurrences(v)

\* requeue, for the variables of the sequence vs.
Requeued(q, S, vs) ==
  FoldLeft(LAMBDA p, w : IF w \in S \/ w \in p.flags THEN p
                         ELSE [order |-> Append(p.order, w), flags |-> p.flags \cup {w}],
           q, vs)

Touched(c, v) == InOrder(Appearing({c}) \ {v})

\* retire_var_clauses: the live clauses of v die, in the order of its lists.
Retired(v, q) ==
  FoldLeft(LAMBDA p, i : IF i \in p.dead THEN p
                         ELSE [dead |-> p.dead \cup {i},
                               queue |-> Requeued(p.queue, shown, Touched(store[i], v))],
           [dead |-> {}, queue |-> q], Purged(v)[v] \o Purged(v)[-v])

\* Mutant: the lists of the stored resolvents are not kept up.
BugListsBehind(lists, rs, n) == lists

\* append_resolvents: n clauses were stored before.
Extended(lists, rs, n) ==
  [l \in Lits |-> lists[l] \o SelectSeq([k \in 1 .. Len(rs) |-> n + k], LAMBDA i : l \in rs[i - n])]

\* The step of v once it is off the queue: its clauses go, rs comes.
Eliminated(v, rs) ==
  LET gone == Retired(v, [order |-> Tail(queue), flags |-> queued \ {v}])
      back == FoldLeft(LAMBDA q, r : Requeued(q, shown, Touched(r, 0)), gone.queue, rs)
  IN  /\ store' = store \o rs
      /\ live' = (live \ gone.dead) \cup (Len(store) + 1 .. Len(store) + Len(rs))
      /\ occ' = Extended([l \in Lits |-> IF VarOf(l) = v THEN <<>> ELSE occ[l]], rs, Len(store))
      /\ queue' = back.order
      /\ queued' = back.flags
      /\ UNCHANGED shown

\* Mutant: a variable that cannot go yet is put back.
BugPutBack(v) ==
  /\ queue' = Append(Tail(queue), v)
  /\ UNCHANGED <<shown, store, live, occ, queued>>

\* The step leaves v where it is.
Passed(v) ==
  /\ occ' = [l \in Lits |-> IF VarOf(l) = v THEN Purged(v)[l] ELSE occ[l]]
  /\ queue' = Tail(queue)
  /\ queued' = queued \ {v}
  /\ UNCHANGED <<shown, store, live>>

Next1 == Head(queue)
OnOneSide(v) == (Purged(v)[v] = <<>>) # (Purged(v)[-v] = <<>>)
OnBothSides(v) == Purged(v)[v] # <<>> /\ Purged(v)[-v] # <<>>

\* A variable in no live clause any more.
StepGone == queue # <<>> /\ Occurrences(Next1) = 0 /\ Passed(Next1)
\* Pure: deleting its clauses only shrinks the formula.
StepPure == queue # <<>> /\ OnOneSide(Next1) /\ Eliminated(Next1, <<>>)
StepResolve ==
  /\ queue # <<>> /\ OnBothSides(Next1) /\ ~Grows(Next1)
  /\ Eliminated(Next1, ResolventsOf(Next1))
StepGrows == queue # <<>> /\ OnBothSides(Next1) /\ Grows(Next1) /\ Passed(Next1)

\* The clock is read inside a long enumeration: the pass ends there.
StepCut ==
  /\ queue # <<>> /\ OnBothSides(Next1)
  /\ Len(Clashes(Next1)) >= PollPairs
  /\ Len(Resolved(SubSeq(Clashes(Next1), 1, PollPairs - 1), Next1)) <= Occurrences(Next1)
  /\ Passed(Next1)

-----------------------------------------------------------------------------
(***************************************************************************)
(* Properties of the pass, at every step of it.                            *)
(***************************************************************************)

BveTypeOK ==
  /\ store \in Seq(Clauses)
  /\ live \subseteq DOMAIN store
  /\ occ \in [Lits -> Seq(DOMAIN store)]
  /\ {shown, queued} \subseteq SUBSET Vars /\ queue \in Seq(Vars)

\* A live clause is in the list of each of its literals, once; a listed index is
\* of a clause that has the literal; the flags say who waits, once; no shown
\* variable ever waits.
StoreConsistent ==
  /\ BveTypeOK
  /\ \A i \in live : \A l \in store[i] : \E k \in DOMAIN occ[l] : occ[l][k] = i
  /\ \A l \in Lits : /\ \A k \in DOMAIN occ[l] : l \in store[occ[l][k]]
                     /\ \A k, m \in DOMAIN occ[l] : k < m => occ[l][k] < occ[l][m]
  /\ queued = ToSet(queue) /\ Cardinality(queued) = Len(queue)
  /\ queued \cap shown = {}

\* Every hidden variable still there would cost more clauses than it saves,
\* whatever happened to its clauses since it was last looked at.
AtFixpoint == \A v \in Appearing(LiveClauses) \ shown : OnBothSides(v) /\ Grows(v)

\* What the clauses say of the variables V.
Projection(F, V) == {T \cap V : T \in Models(F, Vars)}

=============================================================================

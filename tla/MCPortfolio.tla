---------------------------- MODULE MCPortfolio ----------------------------
(***************************************************************************)
(* The portfolio driver on three trees of which each is the best by some   *)
(* score, and two of which tie by each, under every mode of selection.     *)
(***************************************************************************)
EXTENDS Portfolio

CONSTANTS t1, t2, t3

MCTrees == {t1, t2, t3}

Scored(cost, peak, stddev, agg, heavyNode) ==
  [cost |-> cost, peak |-> peak, stddev |-> stddev, agg |-> agg, heavyNode |-> heavyNode]

MCScore == t1 :> Scored(1, 3, 1, 2, TRUE) @@ t2 :> Scored(2, 2, 1, 1, FALSE)
             @@ t3 :> Scored(1, 2, 2, 1, FALSE)

Request ==
  [peak |-> FALSE, ranker |-> FALSE, margin |-> None, tolerance |-> 0, keep |-> 1,
   prefer |-> None, required |-> FALSE, skip |-> {}, dense |-> FALSE, heavy |-> FALSE,
   coloring |-> FALSE, deadline |-> None, cap |-> None, metered |-> FALSE]

\* DEFAULT_SKIP, and the lists that leave other corners of the catalog.
DefaultSkip == {"goatd-primal", "hypergraph-bisect", "guided-bisect"}
OnlyFlowcutter == Names \ {"flowcutter-incidence", "flowcutter-primal"}
OnlyGoatd == Names \ {"goatd-incidence", "force"}
Bisections == Names \ {"flowcutter-incidence", "hypergraph-bisect", "guided-bisect"}

Named(name, index) == [name |-> name, index |-> index]

\* A deadline that is spent, one that is short, and one with room.
Rooms == {0, 2, 3}

\* How the winner is picked among the trees of one family.
Selections ==
  {[Request EXCEPT !.keep = 2], [Request EXCEPT !.ranker = TRUE],
   [Request EXCEPT !.keep = 3, !.ranker = TRUE, !.margin = 0],
   [Request EXCEPT !.keep = 2, !.peak = TRUE, !.tolerance = 5]}

MCRequests ==
  {[Request EXCEPT !.skip = OnlyFlowcutter, !.dense = d, !.deadline = room, !.metered = ~d] :
     d \in BOOLEAN, room \in Rooms}
  \cup {[s EXCEPT !.skip = OnlyGoatd, !.deadline = room] : s \in Selections, room \in {None, 0, 2}}
  \cup {[Request EXCEPT !.skip = Names \ {"flowcutter-primal", "goatd-incidence", "force"},
                        !.peak = TRUE, !.deadline = 2, !.cap = 1]}
  \cup {[Request EXCEPT !.skip = DefaultSkip, !.ranker = TRUE, !.margin = 0, !.deadline = 2]}
  \cup {[Request EXCEPT !.skip = Bisections, !.coloring = TRUE, !.peak = p, !.deadline = room] :
          p \in BOOLEAN, room \in {None, 2}}
  \cup {[Request EXCEPT !.skip = OnlyGoatd, !.deadline = 2, !.heavy = TRUE, !.prefer = n, !.required = q] :
          n \in {Named("goatd-incidence", 1), Named("goatd-primal", 0), Named("separator", 0)},
          q \in BOOLEAN}
=============================================================================

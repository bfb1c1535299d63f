------------------------------- MODULE MCVtree -------------------------------
(***************************************************************************)
(* Five variables: a linear and a grafted vtree and one bisected top down, *)
(* their numbers with a gap, and conversions of three decompositions - a   *)
(* hub of three bags, a star beside a lone bag, a path that misses a       *)
(* variable - each with a clause vertex or a forest.                       *)
(***************************************************************************)
EXTENDS Conversions

Sparse(v) == IF v = 5 THEN 9 ELSE v
SparseClauses == <<{4, 1, -3}, {-1, 9}, {2, -4}, {-3, 2}, {9}>>

\* A partitioner with answers of every kind: all on one side, or every other item.
Halving(n, edges) == [i \in 1 .. n |-> IF Len(edges) % 3 = 0 THEN 1 ELSE i % 2]

Chain == LinearArena(<<4, 1, 3, 9, 2>>)
Mixed == LET pair == LinearArena(<<2, 1>>)
             rest == Balanced([v \in 1 .. 3 |-> <<Leaf(v)>>])
         IN  Joined(pair, Grafted(<<>>, rest, [v \in 1 .. 3 |-> Sparse(v + 2)]))
Cuts == TopDown(<<1, 2, 3, 4, 9>>, SparseClauses, 2, 1)
AllArenas == {Chain, Mixed, Cuts}
Built(a) == FromNodes(a, Len(a))
AllTrees == {[f \in Fields |-> Built(a)[f]] : a \in AllArenas}
AnyShown == {1, 3}

Named(r, p, b) == [root |-> r, place |-> p, binarize |-> b]
Hub == [bags |-> <<{1, 2, 3}, {1, 3, 4}, {2, 3, 5}, {2, 7}>>, adj |-> <<<<2, 3, 4>>, <<1>>, <<1>>, <<1>>>>]
Star == [bags |-> <<{1}, {1, 2}, {1, 3}, {1, 4}, {5}>>, adj |-> <<<<2, 3, 4>>, <<1>>, <<1>>, <<1>>, <<>>>>]
Path == [bags |-> <<{1, 2}, {2, 3}, {3, 4}>>, adj |-> <<<<2>>, <<1, 3>>, <<2>>>>]
HubClauses == <<{1, -2}, {1, 3, 4}, {-3, 5}, {2, 3}, {2, -5}>>
StarClauses == <<{1, 2}, {-1, 3}, {1, 4}, {2, -4}, {5}>>
PathClauses == <<{1, 2}, {2, -3}, {3, 4}>>

Ask(td, F, scored, named) == [td |-> td, n |-> 5, formula |-> F, scored |-> scored, named |-> named]
AllCases ==
  {Ask(Hub, HubClauses, TRUE, Named("any", "any", "any")),
   Ask(Star, StarClauses, TRUE, Named("any", "any", "any")),
   Ask(Path, PathClauses, TRUE, Named("any", "any", "balanced")),
   Ask(Star, StarClauses, TRUE, Named("leaf", "deep", "any")),
   Ask(Hub, HubClauses, TRUE, Named("centroid", "shallow", "hypergraph")),
   Ask(Path, <<>>, FALSE, Named("any", "any", "any"))}

=============================================================================

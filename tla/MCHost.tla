------------------------------- MODULE MCHost -------------------------------
(***************************************************************************)
(* Five variables: formulas that split, that do not, with a free variable  *)
(* and a show set; and the ways a pairing by hand can go wrong.            *)
(***************************************************************************)
EXTENDS HostCalls

Run(clauses, show, tree, comps, cands, dot) ==
  [clauses |-> clauses, show |-> show, tree |-> tree, comps |-> comps, cands |-> cands, dot |-> dot]
Part(clauses, tree, map) == [clauses |-> clauses, tree |-> tree, map |-> map]

TwoParts == <<{1, -3}, {2, 5}, {3, 1}, {-2, 5}>>
Split == Run(TwoParts, {1, 2, 4}, <<3, 1, 5, 2, 4>>,
             <<Part(<<1, 3>>, <<2, 1>>, <<1, 3>>), Part(<<2, 4>>, <<1, 2>>, <<2, 5>>)>>, <<2, 1>>, FALSE)
Whole == Run(<<{1, 2, 3}, {-1, 4}, {-4, 5}>>, None, <<1, 2, 3, 4, 5>>, None, <<2>>, TRUE)
Free == Run(<<{1, 2}, {-2, 4}>>, None, <<1, 2, 3, 4, 5>>, None, <<0>>, FALSE)
Refuted == Run(<<{1}, {-1}>>, None, None, None, <<>>, FALSE)

\* The split's build beside other formulas, and other builds beside its own.
Shifted == [Split EXCEPT !.clauses = <<{1, -2}, {3, 5}, {2, 1}, {-3, 5}>>]
Overlap == [Split EXCEPT !.clauses = <<{1, -3}, {1, 5}, {3, 1}, {-3, 5}>>,
                         !.comps = <<Part(<<1, 3>>, <<2, 1>>, <<1, 3>>), Part(<<2, 4>>, <<1, 2, 3>>, <<1, 3, 5>>)>>]
Shorter == [Split EXCEPT !.clauses = <<{1, -3}, {2, 5}, {3, 1}>>]
Repeats == [Split EXCEPT !.comps[1].tree = <<1, 1>>]
Longer == [Split EXCEPT !.clauses = Append(TwoParts, {4, -1})]

Symmetric == Permutations(Threads)

MCRunNamed ==
  [split |-> Split, whole |-> Whole, free |-> Free, refuted |-> Refuted, shifted |-> Shifted,
   overlap |-> Overlap, shorter |-> Shorter, repeats |-> Repeats, longer |-> Longer]
MCRuns == {"split", "whole", "free", "refuted"}
MCPairings == {"shifted", "overlap", "shorter", "repeats", "longer"}
=============================================================================

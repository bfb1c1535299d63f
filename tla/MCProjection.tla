---------------------------- MODULE MCProjection ----------------------------
(***************************************************************************)
(* Formulas for the projected chain, and those a compiler eliminates from. *)
(***************************************************************************)
EXTENDS ProjectionChain

Plain == [v \in Vars |-> Neutral]
Weighted(S) == [v \in Vars |-> IF v \notin S THEN Neutral ELSE IF v = 1 THEN <<2, 2>> ELSE <<v, 1>>]

\* Equal show variables, a hidden one between them, forced ones, hidden ones
\* forced by no unit clause, and a clause that ties or refutes them.
Equal(a, b) == <<{a, -b}, {-a, b}>>
Knots == {{1, 3}, {-1, 2, 3}, {-2}, {-1, -3}}
Chains ==
  {Equal(1, -2) \o <<c, d>> : c, d \in Knots}
    \cup {Equal(1, 4) \o Equal(4, 2) \o <<c>> : c \in Knots}
    \cup {<<{4}, {-4, 2}, c>> : c \in Knots}
    \cup {Equal(3, 4) \o <<c, {1, -2, 4}>> : c \in Knots}
    \cup {<<{-3, 4}, {3, 4}, {-4, 1, 2}, c>> : c \in Knots}
    \cup {<<{-3, 1}, {3, 2}, {3, -4, -1}, c>> : c \in Knots}

ChainJobs ==
  [clauses : Chains, show : {{1, 2}, {1, 2, 3}}, weights : {Plain}, weighted : {FALSE},
   policy : {"full", "keepSound"}, timed : {TRUE}]
    \cup {[clauses |-> cs, show |-> {1, 2}, weights |-> Weighted({1, 2}), weighted |-> TRUE,
           policy |-> "full", timed |-> TRUE] : cs \in Chains}

\* The variable 3 would cost more clauses than it saves until 4 has gone.
Core == <<{3, 4}, {-1, 3}, {-3, -1}, {-3, -1, 2}, {-3, -2, -1}>>
Extra == {{-3, -4}, {2, -3, -4}, {-1, 4}, {-3}, {1, 2, 4}}
Kept == {Core} \cup {Core \o <<c>> : c \in Extra} \cup {<<c, d>> \o Core : c, d \in Extra}
EliminateJobs ==
  {[clauses |-> cs, show |-> S, weights |-> Plain, weighted |-> FALSE,
    policy |-> "eliminateOnly", timed |-> FALSE] : cs \in Kept, S \in {{}, {1}, {1, 2}}}

AllJobs == ChainJobs \cup EliminateJobs

=============================================================================

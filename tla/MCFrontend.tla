----------------------------- MODULE MCFrontend -----------------------------
(***************************************************************************)
(* FrontendSession with small clocks: one tick stands for about a second,  *)
(* the two graces and the oracle's runway keep their order, and the        *)
(* configurations cover every mode, gate policy and construction budget.   *)
(***************************************************************************)
EXTENDS FrontendSession

Default == [mode |-> "mc", arjunOn |-> TRUE, skipMonotone |-> FALSE,
            keepOverrun |-> FALSE, keepSound |-> FALSE, deadline |-> {},
            arjunBudget |-> 4, construction |-> "share", spec |-> "portfolio",
            candidates |-> 1]

Sessions ==
       {[Default EXCEPT !.deadline = {5}, !.construction = c] : c \in Constructions}
  \cup {[Default EXCEPT !.deadline = {5}, !.skipMonotone = s,
           !.keepOverrun = ~s, !.keepSound = s] : s \in BOOLEAN}
  \cup {[Default EXCEPT !.mode = m, !.deadline = {4}, !.keepSound = k] :
          m \in {"wmc", "pmc"}, k \in BOOLEAN}
  \cup {[Default EXCEPT !.mode = m, !.arjunOn = FALSE] : m \in {"mc", "pmc"}}
  \cup {Default, [Default EXCEPT !.mode = "compile", !.deadline = {4}]}

Asked == {[skipMonotone |-> {}, spec |-> {}], [skipMonotone |-> {FALSE}, spec |-> {"linear"}],
          [skipMonotone |-> {}, spec |-> {"invalid"}]}

=============================================================================

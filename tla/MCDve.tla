------------------------------- MODULE MCDve -------------------------------
(***************************************************************************)
(* Families of small calls for the model checker.                          *)
(***************************************************************************)
EXTENDS WeightedDve

Plain(F, fs) == [formula : F, vars : {Vars}, projected : {FALSE}, frozen : fs]
Show(F) == [formula : F, vars : {Vars}, projected : {TRUE}, frozen : {{3, 4}}]
Three == 1 .. 3
OverThree(F) == [formula : F, vars : {Three}, projected : {FALSE}, frozen : {{}}]

\* Clauses of two to n literals that mention every variable of vs, and the same
\* about three variables only.
About(vs, n) == {c \in Clauses : Cardinality(c) \in 2 .. n /\ vs \subseteq Appearing({c})}
Thrice(vs, n) == {c \in About(vs, n) : Appearing({c}) \subseteq Three}

\* Three variables, any four clauses, up to the sign of a variable and with 3
\* among the most frequent, formulas without a model and with implied literals
\* among them; with 2 a backbone literal that resolving on 1 uncovers and any two
\* clauses more, contradictory equivalences among them; all eight clauses; and
\* what the eq_iter prefix may leave: a unit clause and a variable, 4, in no clause.
UpTo(W) == LET pairs == {{a, b} : a, b \in W} IN {p \cup q : p, q \in pairs}
Occurrences(F, v) == Freq(F, v) + Freq(F, -v)
Small ==
  {F \in UpTo(Thrice({}, 3)) :
     \A v \in Three : Freq(F, v) >= Freq(F, -v) /\ Occurrences(F, v) <= Occurrences(F, 3)}
Unstripped == {AndOr(1, {2, 3}) \cup {{l}, c} : l \in {3, -3}, c \in Thrice({}, 2)}
Awkward ==
  {{{1, 2}, {-1, 2}, c, d} : c \in Thrice({}, 2), d \in Thrice({3}, 2)} \cup {Thrice(Three, 3)}

\* Four variables: a gate or two, a clause that uses output 1 together with 4,
\* and a clause about 4 that does not mention 1; or an output that feeds the
\* gate of another, which puts off its elimination; or an output that stops
\* being one when the merge takes its input; or 2 the opposite of 1.
Nested(o, c) == Parity(1, 2, 3, 1) \cup AndOr(o, {3, 4}) \cup {c}
Circuits ==
  {G \cup {c, d} : G \in {AndOr(1, {2, 3}), AndOr(-1, {2, 4}), Ite(1, 2, 3, 4),
                          AndOr(4, {2, 3}) \cup AndOr(-1, {3, 4})},
                   c \in {k \in About({1, 4}, 3) : 4 \in k},
                   d \in About({4}, 3) \ About({1, 4}, 3)}
    \cup {Nested(o, c) : o \in {2, -2}, c \in About({3, 4}, 3)}
    \cup {AndOr(1, {3}) \cup {c, d} : c, d \in About({2, 3, 4}, 3)}
    \cup {{{1, 2}, {-1, -2}, c, d} : c \in About({1, 3}, 3), d \in About({4}, 2)}

\* Hidden variables 1 and 2, show variables 3 and 4: a gate or an equivalence,
\* two clauses about the hidden ones, which may force 2 or contradict each
\* other, and one about 3 and 4; or a gate whose elimination forces 4; or 2
\* forced by resolving on 1 and then resolved on.
Pinning(c) == AndOr(1, {2, 3}) \cup {{1, 4}, {-1, 4}, c}
CrossedShow == {{-1, 2}, {-1, 3}, {1, 2}, {-4, -2, -1}, {-3, -2, 1}, {2, 3, 4}}
Hidden ==
  {G \cup {c, d, e} : G \in {AndOr(1, {3, 4}), AndOr(1, {2, 3}), Parity(1, 2, 3, 1),
                              {{3, -4}, {-3, 4}}, {{1, -3}, {-1, 3}, {4}}},
                      c \in About({1, 2}, 2), d \in About({1, 2}, 3),
                      e \in {{2, 3, 4}, {1, -3, 4}}}
    \cup {Pinning(c) : c \in About({4}, 3)} \cup {CrossedShow}

AllCalls ==
  OverThree(Small \cup Awkward) \cup Plain(Unstripped, {{}}) \cup Plain(Circuits, {{2}})
    \cup Show(Hidden)

\* Inputs that imply literals no unit clause shows: a plain caller's whose
\* prefix has not found them, and a projected caller's.
Uncovered == Plain({Pinning(c) : c \in About({4}, 3)}, {{}}) \cup Show({CrossedShow})

\* Two merges, 2 onto 1 and 4 onto 3, of which the first then loses its
\* survivor: 1 is the conjunction of 3 and 5.
TwoMerges ==
  Plain({{{1, -2}, {-1, 2}, {3, -4}, {-3, 4}, c} \cup {{-1, 3}, {-1, 5}, {1, -3, -5}} :
           c \in {{3, 5}, {-3, 5}, {3, -5}, {-3, -5}}}, {{}})

\* Only 2 has weights that differ, or none has: then 4 counts double.
Weigh(v, S) ==
  CASE v = 2 /\ v \in S -> <<1, 2>>
    [] v = 1 /\ S # {} -> <<3, 3>>
    [] v = 4 -> <<2, 2>>
    [] OTHER -> <<1, 1>>
TwoTables == [S \in {{}, {2}} |-> [v \in Vars |-> Weigh(v, S)]]

=============================================================================

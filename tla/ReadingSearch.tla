---------------------------- MODULE ReadingSearch ----------------------------
(***************************************************************************)
(* A conversion is a search over the readings the caller left open         *)
(* (src/src/decompose/td_to_vtree/search.rs): every candidate root is      *)
(* screened under the first (place, binarization) pair, the best few get   *)
(* all the others, and the cheapest tree is kept with the metadata of its  *)
(* own reading.  The deadline is tested between readings, once one has     *)
(* been adopted.  Whoever gets the tree rotates it.                        *)
(***************************************************************************)
EXTENDS VtreeText, Rooting

CONSTANTS
  Arenas,          \* the arenas of the direct constructions
  Cases,           \* conversions: [td, n, formula, scored, named]
  ScreenedRoots,   \* SCREENED_ROOTS
  Build(_, _),     \* the tree and the metadata a case's reading gives
  Cost(_, _)       \* what a tree costs under a formula

VARIABLES
  asked,        \* the conversion, or <<>> for a direct construction
  stage,        \* "screen", "pairs", "cut off", "kept" or "rotated"
  pending,      \* the readings still to offer
  screened,     \* the roots screened, each with its score
  kept,         \* BestBy: [cost, reading, meta] beside the tree
  offered       \* every reading offered, with its cost

searchVars == <<asked, stage, pending, screened, kept, offered>>
allVars == <<vars, varAt, searchVars>>

placed == [left |-> left, right |-> right, parent |-> parent, pos |-> topoPos, var |-> varAt]

PLACES == <<"shallow", "deep">>
BINARIZATIONS == <<"edge", "hypergraph", "balanced">>

\* The ways to read a case, and what a tree placed in memory is.
Readings(c) ==
  [root : {AtFirst, AtCentroid} \cup {AtLeaf(b) : b \in BagsOf(c.td)},
   place : Range(PLACES), binarize : Range(BINARIZATIONS)]

Links == [Nodes -> Nodes \cup {None}]
PlacedTrees == [left : Links, right : Links, parent : Links, pos : [Nodes -> Nodes], var : [Nodes -> Nat]]

\* A decomposition names both ends of each of its edges; a reading gives a tree
\* (Converter::build), whose cost is a number.
ASSUME SearchAssumption ==
  /\ RootCap \in Nat /\ ScreenedRoots \in Nat
  /\ \A c \in Cases :
       /\ c.td.bags \in Seq(SUBSET Nat) /\ c.td.bags # <<>> /\ c.scored \in BOOLEAN
       /\ c.td.adj \in [BagsOf(c.td) -> Seq(BagsOf(c.td))]
       /\ \A a, b \in BagsOf(c.td) : a \in ToSet(c.td.adj[b]) => b \in ToSet(c.td.adj[a])
       /\ c.named \in [root : {"any", "first", "centroid", "leaf"},
                       place : {"any"} \cup Range(PLACES), binarize : {"any"} \cup Range(BINARIZATIONS)]
       /\ \A reading \in Readings(c) :
            LET built == Build(c, reading)
            IN  built.tree \in PlacedTrees /\ Cost(built.tree, c.formula) \in Int

-----------------------------------------------------------------------------
(***************************************************************************)
(* The plan.                                                               *)
(***************************************************************************)
\* axis.
Axis(named, table, scored, unscored) ==
  IF named # "any" THEN <<named>> ELSE IF scored THEN table ELSE <<unscored>>

Places(c) == Axis(c.named.place, PLACES, c.scored, PLACES[1])
Binarizations(c) == Axis(c.named.binarize, BINARIZATIONS, c.scored, "balanced")

InFirstPair(c, roots) ==
  [i \in DOMAIN roots |-> [root |-> roots[i], place |-> Places(c)[1], binarize |-> Binarizations(c)[1]]]

Screen(c) == InFirstPair(c, CandidateRoots(c.td, c.named.root, c.scored))

\* Mutant: the pair the screen has read is offered again.
BugOffersAgain(c) == FlattenSeq([i \in DOMAIN Places(c) |->
  [j \in DOMAIN Binarizations(c) |-> <<Places(c)[i], Binarizations(c)[j]>>]])

\* The pairs the screen has not read, places first.
OtherPairs(c) ==
  LET all == FlattenSeq([i \in DOMAIN Places(c) |->
               [j \in DOMAIN Binarizations(c) |-> <<Places(c)[i], Binarizations(c)[j]>>]])
  IN  Tail(all)

\* A stable sort by score, cut to the best few.
Better(roots, i) ==
  {j \in DOMAIN roots : roots[j].cost < roots[i].cost \/ (roots[j].cost = roots[i].cost /\ j < i)}

Best(roots) ==
  LET at == [k \in DOMAIN roots |-> CHOOSE i \in DOMAIN roots : Cardinality(Better(roots, i)) = k - 1]
  IN  [k \in 1 .. Min({Len(roots), ScreenedRoots}) |-> roots[at[k]].root]

Crossed(best, pairs) ==
  FlattenSeq([p \in DOMAIN pairs |->
    [i \in DOMAIN best |-> [root |-> best[i], place |-> pairs[p][1], binarize |-> pairs[p][2]]]])

Plan(c, roots) == Crossed(Best(roots), OtherPairs(c))

-----------------------------------------------------------------------------
(***************************************************************************)
(* The search.                                                             *)
(***************************************************************************)
WithCost(c, reading, built) ==
  [tree |-> built.tree, meta |-> built.meta, reading |-> reading,
   cost |-> IF c.scored THEN Cost(built.tree, c.formula) ELSE 0]

Costed(c, reading) == WithCost(c, reading, Build(c, reading))

\* Mutants: a later reading wins a tie; any reading is adopted.
BugLastWins(cost) == cost <= kept.cost
BugAdoptsAny(cost) == TRUE

\* BestBy::offer.
Cheaper(cost) == cost < kept.cost

\* Mutant: the metadata is the last reading's, not the winner's.
BugMetaOfLast(new, wins) ==
  [cost |-> IF wins THEN new.cost ELSE kept.cost,
   reading |-> IF wins THEN new.reading ELSE kept.reading, meta |-> new.meta]

Kept(new, wins) ==
  IF wins THEN [cost |-> new.cost, reading |-> new.reading, meta |-> new.meta] ELSE kept

Take(t) == Become(t) /\ varAt' = t.var

\* A construction that searches nothing hands its tree over.
Constructed ==
  /\ Init
  /\ \E a \in Arenas : LET t == FromNodes(a, Len(a))
                       IN  tree = [f \in Fields |-> t[f]] /\ varAt = t.var
  /\ asked = <<>> /\ stage = "rotated" /\ pending = <<>> /\ screened = <<>>
  /\ kept = <<>> /\ offered = <<>>

\* convert: the first reading is built whatever the deadline says.
Started ==
  \E c \in Cases :
    \E screen \in {Screen(c)} :
    \E new \in {Costed(c, screen[1])} :
        /\ left = new.tree.left /\ right = new.tree.right /\ parent = new.tree.parent
        /\ topoPos = new.tree.pos /\ varAt = new.tree.var
        /\ asked = c /\ stage = "screen" /\ pending = Tail(screen)
        /\ screened = <<[root |-> screen[1].root, cost |-> new.cost]>>
        /\ kept = [cost |-> new.cost, reading |-> new.reading, meta |-> new.meta]
        /\ offered = <<[reading |-> new.reading, cost |-> new.cost]>>

SearchInit == Constructed \/ Started

\* Search::offer.
Offer ==
  /\ stage \in {"screen", "pairs"} /\ pending # <<>>
  /\ \E new \in {Costed(asked, Head(pending))} :
     LET wins == Cheaper(new.cost)
     IN  /\ IF wins THEN Take(new.tree) ELSE UNCHANGED <<vars, varAt>>
         /\ kept' = Kept(new, wins)
         /\ offered' = Append(offered, [reading |-> new.reading, cost |-> new.cost])
         /\ screened' = IF stage = "screen"
                        THEN Append(screened, [root |-> new.reading.root, cost |-> new.cost])
                        ELSE screened
  /\ pending' = Tail(pending)
  /\ UNCHANGED <<asked, stage>>

\* The screen is through: its best roots are read every other way.
Screened ==
  /\ stage = "screen" /\ pending = <<>>
  /\ stage' = "pairs" /\ pending' = Plan(asked, screened)
  /\ UNCHANGED <<vars, varAt, asked, screened, kept, offered>>

\* The deadline stops the search before its next reading: out of the screen, then
\* at the first of the pairs.
CutOff ==
  /\ stage \in {"screen", "pairs"} /\ pending # <<>>
  /\ stage' = "cut off" /\ pending' = <<>>
  /\ UNCHANGED <<vars, varAt, asked, screened, kept, offered>>

\* Every reading planned has been offered.
Finished ==
  /\ stage = "pairs" /\ pending = <<>>
  /\ stage' = "kept"
  /\ UNCHANGED <<vars, varAt, asked, pending, screened, kept, offered>>

\* The tree is the caller's, who rotates it; the search and its notes are gone.
Rotate ==
  /\ stage \in {"cut off", "kept", "rotated"}
  /\ Next
  /\ stage' = "rotated" /\ screened' = <<>> /\ kept' = <<>> /\ offered' = <<>>
  /\ UNCHANGED <<varAt, asked, pending>>

SearchNext == Offer \/ Screened \/ CutOff \/ Finished \/ Rotate

SearchSpec == SearchInit /\ [][SearchNext]_allVars

-----------------------------------------------------------------------------
(***************************************************************************)
(* Properties.                                                             *)
(***************************************************************************)
Converting == stage \in {"screen", "pairs", "cut off", "kept"}

\* Whatever stopped the search, the tree in hand is the cheapest of those offered
\* and the first of them; its cost is its own; and no two readings the screen
\* offered root the decomposition alike (BestBy, candidate_roots).
CheapestIsKept ==
  Converting =>
    LET win == FirstLeast([i \in DOMAIN offered |-> offered[i].cost])
        rooted(i) == Forest(asked.td, RootBags(asked.td, screened[i].root)).roots
    IN  /\ kept.cost = offered[win].cost /\ kept.reading = offered[win].reading
        /\ asked.scored => kept.cost = Cost(placed, asked.formula)
        /\ \A i, j \in DOMAIN offered : offered[i].reading = offered[j].reading => i = j
        /\ \A i, j \in DOMAIN screened : rooted(i) = rooted(j) => i = j

=============================================================================

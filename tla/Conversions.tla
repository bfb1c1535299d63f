----------------------------- MODULE Conversions -----------------------------
(***************************************************************************)
(* The search with what it searches: a reading gives the tree and the      *)
(* metadata the converter builds, a tree costs what the tables of its      *)
(* nodes come to, and a direct construction's tree is scored against       *)
(* Clauses.                                                                *)
(***************************************************************************)
EXTENDS ReadingSearch, TdToVtree, ScoreTables

CONSTANTS
  Clauses,      \* the formula the direct constructions are scored against
  Shown         \* its show variables

\* Converter::build for one reading, the search's Build.
BuiltFrom(c, reading) == Converted(c.td, c.n, c.formula, c.scored, reading)

-----------------------------------------------------------------------------
(***************************************************************************)
(* Properties.                                                             *)
(***************************************************************************)
RECURSIVE LowerBags(_, _)
LowerBags(td, b) ==
  {b} \cup UNION {LowerBags(td, c) : c \in {d \in ToSet(td.adj[b]) : kept.meta.rank[d] < kept.meta.rank[b]}}

\* The tree in hand has one leaf for each variable, and the metadata beside it
\* describes that tree and no other reading's: the ranks number the bags with
\* children below the one parent they have, each variable is in a bag that holds
\* it, and what the bags of a subtree were given is what one node holds
\* (BagMetadata, "each bag becomes a subtree", TdConversionMeta).
MetadataDescribesTree ==
  Converting =>
    LET td == asked.td
        meta == kept.meta
        given(b) == {v \in 1 .. asked.n : meta.varBag[v] \in LowerBags(td, b)}
        held == {VarsBelow(placed, n) : n \in Nodes}
    IN  /\ {varAt[n] : n \in {m \in Nodes : left[m] = None}} = 1 .. asked.n
        /\ {meta.rank[b] : b \in BagsOf(td)} = 0 .. Cardinality(BagsOf(td)) - 1
        /\ \A b \in BagsOf(td) :
             /\ Cardinality({c \in ToSet(td.adj[b]) : meta.rank[c] > meta.rank[b]}) <= 1
             /\ given(b) \in held \cup {{}}
        /\ \A v \in 1 .. asked.n :
             IF meta.varBag[v] = NoBag THEN \A b \in BagsOf(td) : v \notin td.bags[b]
             ELSE v \in td.bags[meta.varBag[v]]

\* The separators, clauses, depths, cuts and matchings the score tables have for
\* the tree in hand, however rotated, are those counted from its sets; not
\* compared are the tight bounds, the split signs, the height and the entropy
\* (score/per_node.rs, score/tables.rs).
TablesAreRight ==
  IF asked = <<>> THEN TablesCount(placed, Clauses, Shown)
  ELSE asked.scored => TablesCount(placed, asked.formula, Shown)

=============================================================================

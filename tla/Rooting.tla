------------------------------- MODULE Rooting -------------------------------
(***************************************************************************)
(* Where a tree decomposition is rooted                                    *)
(* (src/src/decompose/td_to_vtree/): the walk from a root, the forest that *)
(* named roots make of a decomposition, its centroids, and the roots a     *)
(* search tries.  A decomposition is a sequence of bags (sets of vertices) *)
(* and each bag's neighbours in order.                                     *)
(***************************************************************************)
EXTENDS Integers, SequencesExt, FiniteSetsExt

CONSTANT RootCap           \* ROOT_CAP

NoBag == 0
BagsOf(td) == DOMAIN td.bags

\* The index of the least entry of a sequence of keys, the first of them.
FirstLeast(keys) ==
  CHOOSE i \in DOMAIN keys : \A j \in DOMAIN keys : keys[j] > keys[i] \/ (keys[j] = keys[i] /\ i <= j)

-----------------------------------------------------------------------------
(***************************************************************************)
(* Walking and rooting.                                                    *)
(***************************************************************************)

\* What is met from one entry of a walk: its bag's neighbours, but for the one it
\* was reached from.
Onward(td, s) ==
  FlattenSeq([i \in DOMAIN td.adj[s.bag] |->
    IF td.adj[s.bag][i] = s.from THEN <<>>
    ELSE <<[bag |-> td.adj[s.bag][i], from |-> s.bag, depth |-> s.depth + 1]>>])

\* Breadth first from root, level by level.
Walk(td, root) ==
  LET level[d \in 0 .. Len(td.bags)] ==
        IF d = 0 THEN <<[bag |-> root, from |-> NoBag, depth |-> 0]>>
        ELSE LET above == level[d - 1] IN FlattenSeq([i \in DOMAIN above |-> Onward(td, above[i])])
  IN  FlattenSeq([k \in 1 .. Len(td.bags) |-> level[k - 1]])

\* A forest with one more component, as it was walked from root.
Joining(td, f, root, walk) ==
  LET of(b) == {i \in DOMAIN walk : walk[i].bag = b}
      met(b) == walk[CHOOSE i \in of(b) : TRUE]
  IN  [order |-> f.order \o [i \in DOMAIN walk |-> walk[i].bag],
       roots |-> Append(f.roots, root),
       parent |-> [b \in BagsOf(td) |-> IF of(b) = {} THEN f.parent[b] ELSE met(b).from],
       depth |-> [b \in BagsOf(td) |-> IF of(b) = {} THEN f.depth[b] ELSE met(b).depth]]

Walked(td, f, root) == Joining(td, f, root, Walk(td, root))

\* rooted_forest: the named roots claim their components, the lowest bag of each
\* component left roots it.
Claimed(td, f, b) == IF b \in ToSet(f.order) THEN f ELSE Walked(td, f, b)

Forest(td, roots) ==
  FoldLeft(LAMBDA f, b : Claimed(td, f, b),
           [order |-> <<>>, roots |-> <<>>,
            parent |-> [b \in BagsOf(td) |-> NoBag], depth |-> [b \in BagsOf(td) |-> 0]],
           roots \o [b \in BagsOf(td) |-> b])

\* find_centroid: the bag of start's component that leaves the smallest largest
\* part, the first of them in the walk; each bag counts what hangs below it.
SubtreeSizes(td, walk) ==
  FoldLeft(LAMBDA size, s : IF s.from = NoBag THEN size ELSE [size EXCEPT ![s.from] = @ + size[s.bag]],
           [b \in BagsOf(td) |-> 1], Reverse(walk))

LargestPart(td, walk, size, s) ==
  Max({Len(walk) - size[s.bag]} \cup {size[c] : c \in ToSet(td.adj[s.bag]) \ {s.from}})

Lighter(best, s, part) == IF part < best.part THEN [bag |-> s.bag, part |-> part] ELSE best

MostCentral(td, start, walk, size) ==
  FoldLeft(LAMBDA best, s : Lighter(best, s, LargestPart(td, walk, size, s)),
           [bag |-> start, part |-> Len(walk)], walk).bag

Centroid(td, start) ==
  LET walk == Walk(td, start)
  IN  IF Len(walk) <= 2 THEN start ELSE MostCentral(td, start, walk, SubtreeSizes(td, walk))

\* RootPick, and root_bags.
AtFirst == <<"first", NoBag>>
AtCentroid == <<"centroid", NoBag>>
AtLeaf(b) == <<"leaf", b>>

Picked(td, pick, first) ==
  CASE pick[1] = "leaf" -> <<pick[2]>>
    [] pick[1] = "first" -> first
    [] OTHER -> [i \in DOMAIN first |-> Centroid(td, first[i])]

RootBags(td, pick) == Picked(td, pick, Forest(td, <<>>).roots)

-----------------------------------------------------------------------------
(***************************************************************************)
(* The roots worth a reading.                                              *)
(***************************************************************************)

\* Mutant: the centroid stays though it roots what the first bags root.
BugKeepsCentroid(td, first) == TRUE

CentroidDiffers(td, first) == RootBags(td, AtCentroid) # first

\* The roots that are no leaf's.
Heads(td, named) ==
  CASE named = "first" -> <<AtFirst>>
    [] named = "any" -> IF CentroidDiffers(td, RootBags(td, AtFirst)) THEN <<AtFirst, AtCentroid>> ELSE <<AtFirst>>
    [] named = "centroid" -> <<AtCentroid>>
    [] OTHER -> <<>>

\* The leaf bags that root nothing in heads, lowest first, as many as fit beside it.
LeafRoots(td, heads) ==
  LET ends == {b \in BagsOf(td) : Len(td.adj[b]) = 1
                                  /\ \A i \in DOMAIN heads : b \notin ToSet(RootBags(td, heads[i]))}
      lowest == [k \in 1 .. Cardinality(ends) |-> CHOOSE b \in ends : Cardinality({a \in ends : a < b}) = k - 1]
  IN  [i \in 1 .. Min({Cardinality(ends), RootCap - Len(heads)}) |-> AtLeaf(lowest[i])]

\* candidate_roots; without a formula the first of them is all there is.
CandidateRoots(td, named, scored) ==
  LET heads == Heads(td, named)
      all == IF named \in {"any", "leaf"} THEN heads \o LeafRoots(td, heads) ELSE heads
      some == IF all = <<>> THEN <<AtFirst>> ELSE all
  IN  IF scored THEN some ELSE <<Head(some)>>

=============================================================================

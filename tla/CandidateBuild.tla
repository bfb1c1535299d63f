------------------------- MODULE CandidateBuild -------------------------
(***************************************************************************)
(* What a portfolio build promises its caller, whatever its catalog, its   *)
(* clock and its selection rule are: it collects vtree candidates, it      *)
(* hands back one it built, and it refuses only for a reason the caller    *)
(* can act on -- a name the catalog does not have, a required candidate    *)
(* that was not built, or nothing built at all.                            *)
(***************************************************************************)
EXTENDS Integers, Sequences

CONSTANTS
  Candidates,           \* every candidate a catalog entry could offer
  None,                 \* no answer yet
  Refused, Unbuilt, Nothing     \* the answers of a build without a winner

VARIABLES phase,        \* "idle", "walking" or "done"
          wanted,       \* the candidates the caller's preference names
          required,     \* must the winner be one of them?
          built,        \* the candidates built so far, oldest first
          answer        \* the winner, or why there is none

cbVars == <<phase, wanted, required, built, answer>>

WantedBuilt == \E i \in DOMAIN built : built[i] \in wanted

Init ==
  /\ phase = "idle"
  /\ wanted = {}
  /\ required = FALSE
  /\ built = <<>>
  /\ answer = None

\* A request is taken up; the candidates of the one before are forgotten.
Begin ==
  /\ phase \in {"idle", "done"}
  /\ phase' = "walking"
  /\ wanted' \in SUBSET Candidates
  /\ required' \in BOOLEAN
  /\ built' = <<>>
  /\ answer' = None

\* A request that cannot be met by this catalog is refused unbuilt.
Refuse ==
  /\ phase \in {"idle", "done"}
  /\ phase' = "done"
  /\ wanted' = {}
  /\ required' \in BOOLEAN
  /\ built' = <<>>
  /\ answer' = Refused

\* Some more candidates, of one catalog entry.
Offer ==
  /\ phase = "walking"
  /\ phase' = "walking"
  /\ \E n \in 1 .. Len(built') :
       /\ SubSeq(built', 1, Len(built)) = built
       /\ Len(built') = Len(built) + n
  /\ UNCHANGED <<wanted, required, answer>>

\* The winner is one of the candidates built, a wanted one if there is one.
Deliver ==
  /\ phase = "walking"
  /\ phase' = "done"
  /\ \E i \in DOMAIN built : answer' = built[i]
  /\ WantedBuilt => answer' \in wanted
  /\ required => WantedBuilt
  /\ UNCHANGED <<wanted, required, built>>

Fail ==
  /\ phase = "walking"
  /\ phase' = "done"
  /\ \/ answer' = Nothing /\ built = <<>> /\ ~required
     \/ answer' = Unbuilt /\ required /\ ~WantedBuilt
  /\ UNCHANGED <<wanted, required, built>>

Next == Begin \/ Refuse \/ Offer \/ Deliver \/ Fail

Spec == Init /\ [][Next]_cbVars
=============================================================================

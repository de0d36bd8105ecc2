------------------------------ MODULE Placement ------------------------------
(***************************************************************************)
(* Rendezvous placement, src/expert_network/hrw.py: every participant       *)
(* computes from a roster of names which expert belongs to whom.  A roster  *)
(* is the set of its names: the greatest score does not depend on order.    *)
(***************************************************************************)
EXTENDS Naturals, FiniteSets

CONSTANTS
  Ids,       \* names a roster may hold
  Experts,   \* expert ids, 0 .. num_experts - 1
  Score,     \* per name and expert, the sha256 digest as a number
  TopScore   \* the greatest digest

ASSUME PlacedExpertsAssumption == Experts \subseteq Nat

\* Digests are bounded, and of two names never equal.
ASSUME ScoreAssumption ==
  /\ TopScore \in Nat
  /\ Score \in [Ids -> [Experts -> 0 .. TopScore]]
  /\ \A m, n \in Ids : m # n => \A e \in Experts : Score[m][e] # Score[n][e]

\* Mutant: experts are dealt out in turn, by the place of a name in the roster.
ownerInTurn(roster, e) ==
  LET first == CHOOSE x \in Experts : \A y \in Experts : x <= y
      place(n) == Cardinality({m \in roster : Score[m][first] < Score[n][first]})
  IN  CHOOSE n \in roster : place(n) = e % Cardinality(roster)

\* The name that owns an expert under a roster.
owner(roster, e) == CHOOSE n \in roster : \A m \in roster : Score[m][e] <= Score[n][e]

\* The experts me owns under a roster it is in.
partition(roster, me) == {e \in Experts : owner(roster, e) = me}

\* The first k of a sorted list of ids.
FirstIds(S, k) == {e \in S : Cardinality({x \in S : x < e}) < k}
=============================================================================

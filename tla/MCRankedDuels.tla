--------------------------- MODULE MCRankedDuels ---------------------------
(***************************************************************************)
(* RankedDuels with four players, two on each of two wallets.              *)
(***************************************************************************)
EXTENDS RankedDuels, TLC

CONSTANTS p1, p2, p3, p4, a1, a2, d1, d2

MCPlayer == {p1, p2, p3, p4}
TwoAndTwo == p1 :> a1 @@ p2 :> a1 @@ p3 :> a2 @@ p4 :> a2

\* Bound: whoever has not signed in takes part in nothing, so everybody does before the first
\* challenge, and stays until it.
SignedInFirst == duels[d1] # Unused \/ here = Player
AllIn == duels[d1] = Unused \/ signedIn = Player

\* Bounds: two frags only in a duel of two that is the only one, and at most two players leave.
FirstThenSecond == duels[d2] = Unused \/ duels[d1] # Unused
ShortOfTwo == /\ duels[d2].limit <= 1
              /\ duels[d1].limit > 1 => /\ duels[d2] = Unused
                                       /\ Cardinality(Everyone(duels[d1])) = 2
TwoStay == Cardinality(here) >= 2
Bounds == SignedInFirst /\ AllIn /\ FirstThenSecond /\ ShortOfTwo /\ TwoStay
=============================================================================

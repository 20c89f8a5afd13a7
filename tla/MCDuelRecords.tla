--------------------------- MODULE MCDuelRecords ----------------------------
(***************************************************************************)
(* Duel records with three people and two duels: one against one and the    *)
(* same duel told the other way round, two against one, and a draft that    *)
(* has somebody on both sides.  The first of them was fought in the town,    *)
(* where all three are visitors.                                           *)
(***************************************************************************)
EXTENDS DuelAgreement

CONSTANTS ann, bob, cat, first, second

MCPlayer == {ann, bob, cat}

Duel(d, a, b, ka, kb, w) ==
    [id |-> d, teams |-> <<a, b>>, kills |-> <<ka, kb>>, limit |-> 2, winner |-> w]

\* The visitors by number; of CatTwice's, two have signed in with one wallet.
MCAddressOf == <<ann, bob, cat>>
CatTwice == <<ann, bob, cat, cat>>
MCFought == Duel(first, <<ann>>, <<bob>>, <<2>>, <<1>>, 1)

Told == Duel(first, <<ann>>, <<bob>>, <<1>>, <<2>>, 2)
Impossible == Duel(first, <<ann>>, <<ann>>, <<2>>, <<0>>, 1)

MCResult == {MCFought, Told, Impossible,
             Duel(second, <<ann, cat>>, <<bob>>, <<1, 1>>, <<0>>, 1)}

(***************************************************************************)
(* Bounds: only those named in them sign the two untrue drafts, and from     *)
(* the end of the duel on nobody signs anything but what was fought.         *)
(***************************************************************************)
Bounds ==
    /\ \A s \in signed : s[2] \in {Told, Impossible} => s[1] \in In(s[2], 1) \cup In(s[2], 2)
    /\ result.known => \A s \in signed : s[2] = Fought
=============================================================================

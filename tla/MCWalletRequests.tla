-------------------------- MODULE MCWalletRequests --------------------------
(***************************************************************************)
(* WalletRequests of a player alone: one wallet, both channels.            *)
(***************************************************************************)
EXTENDS WalletRequests

\* Bound: two requests in all, or three of the player's own scripts of which the first is a
\* read, which nobody awaits, and all are of actions the wallet knows.
FewAsks == \/ Len(asks["place"]) + Len(asks["own"]) <= 2
           \/ asks["place"] = <<>> /\ asks["own"][1] = "read" /\ "unknown" \notin Range(asks["own"])
=============================================================================

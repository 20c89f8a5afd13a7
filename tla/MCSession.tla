----------------------------- MODULE MCSession -----------------------------
(***************************************************************************)
(* Sessions with one or two clients.                                       *)
(***************************************************************************)
EXTENDS Session

CONSTANTS c1, c2, ann, bob

Strangers == (c1 :> ann @@ c2 :> bob)
Twins == (c1 :> ann @@ c2 :> ann)

\* Bounds: with one client, MaxActs acts; with two, one act while they come and go and two as
\* long as both are there.
Bounds ==
    \/ \E c \in Client : peer[c] = "away"
    \/ acts <= 1
    \/ acts = 2 /\ \A c \in Client : peer[c] = "joined"
=============================================================================

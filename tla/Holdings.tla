------------------------------ MODULE Holdings ------------------------------
(***************************************************************************)
(* What Inventory.sol promises, without its lists: who holds how many of    *)
(* what.  One more of a thing is claimed by standing on a rung high enough  *)
(* (a record needs none), things are handed over, things are thrown away,   *)
(* and nothing else changes a holding.                                     *)
(***************************************************************************)
EXTENDS Naturals

CONSTANTS Account, Item, MaxCount, Rung(_)

VARIABLES held, balance

CanClaim(a, i) == balance[a] >= Rung(i)

Claim(a, i) ==
    /\ CanClaim(a, i)
    /\ held[a][i] < MaxCount
    /\ held' = [held EXCEPT ![a][i] = @ + 1]

HandOver(a, b, i, n) ==
    /\ a # b
    /\ held[a][i] >= n
    /\ held[b][i] + n <= MaxCount
    /\ held' = [[held EXCEPT ![a][i] = @ - n] EXCEPT ![b][i] = @ + n]

Discard(a, i, n) ==
    /\ held[a][i] >= n
    /\ held' = [held EXCEPT ![a][i] = @ - n]

Step ==
    /\ UNCHANGED balance
    /\ \E a \in Account, i \in Item :
          \/ Claim(a, i)
          \/ \E n \in 1..MaxCount : Discard(a, i, n)
          \/ \E b \in Account, n \in 1..MaxCount : HandOver(a, b, i, n)

HoldingsInit == held \in [Account -> [Item -> 0..MaxCount]]

HoldingsSpec == HoldingsInit /\ [][Step]_held
=============================================================================

---------------------------- MODULE MCContracts -----------------------------
(***************************************************************************)
(* The contracts of the chain that keep state of their own for long, the     *)
(* AssetStore with the tool that publishes places into it.  They share none  *)
(* of their state, so in a behaviour one of them is in use and the others    *)
(* are at rest.                                                            *)
(***************************************************************************)
EXTENDS Inventory, Marketplace, Fishing, Publishing, TLC

CONSTANTS ann, bob, fee, d1, pls, usd, u1, u2, small, large, c1, c2, c3, lua, rbxm

VARIABLE inUse

MCThresholds == [t \in {0, 1} |-> t]
MCSeed == {<<d1, 0>>}

MCParty == {ann, bob, fee}
MCToken == {pls, usd}
MCUri == {u1, u2}
MCPurse == [t \in Token |-> [a \in Party |-> IF a = bob /\ t = pls THEN 3 ELSE 0]]

MCDataOf == small :> <<c1>> @@ large :> <<c1, c2, c3>>
MCMimeOf == small :> lua @@ large :> rbxm
MCForeign == {Blob(<<c1>>, rbxm), Blob(<<c2>>, lua)}

ContractsInit ==
    /\ InventoryInit /\ MarketInit /\ FishingInit /\ PublishInit
    /\ inUse \in {"inventory", "market", "fishing", "assets"}
    /\ inUse # "inventory" => \A a \in Account : balance[a] = 0

placeVars == <<storeVars, publishVars>>

ContractsNext ==
    \/ inUse = "inventory" /\ InventoryNext /\ UNCHANGED <<marketVars, fishingVars, placeVars, inUse>>
    \/ inUse = "market" /\ MarketNext /\ UNCHANGED <<inventoryVars, fishingVars, placeVars, inUse>>
    \/ inUse = "fishing" /\ FishingNext /\ UNCHANGED <<inventoryVars, marketVars, placeVars, inUse>>
    \/ inUse = "assets" /\ PublishNext /\ UNCHANGED <<inventoryVars, marketVars, fishingVars, inUse>>

ContractsSpec ==
    ContractsInit
    /\ [][ContractsNext]_<<inventoryVars, marketVars, fishingVars, placeVars, inUse>>

\* Bound: copies of an asset without a limit.
FewCopies == \A i \in Asset : supply[i] <= 2

\* Bound: one price other than none in usd, and no sale in it.
SoldForPls ==
    /\ \A i \in Asset : price[i][usd] <= 1
    /\ \A a \in Party : allowance[usd][a] = 0

\* Bound: an asset is either sold or re-pointed and frozen, from where it
\* was registered; neither reads what the other writes.
SoldOrFrozen ==
    \A i \in Asset :
       (uri[i] = u2 \/ frozen[i]) => supply[i] = 0 /\ allowance[pls] = [a \in Party |-> 0]

\* Bound: a transaction the publisher gave up on, and the next.
FewInFlight == Len(sent) <= 2

Bounds == FewCopies /\ SoldForPls /\ SoldOrFrozen /\ FewInFlight
=============================================================================

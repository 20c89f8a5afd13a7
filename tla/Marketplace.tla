---------------------------- MODULE Marketplace -----------------------------
(***************************************************************************)
(* contracts/Marketplace.sol and the contracts/UGC1155.sol it deploys:      *)
(* assets registered by anybody, priced by their creator in as many ERC-20s *)
(* as they accept, and minted to whoever pays.  A transaction is atomic and *)
(* a revert leaves no trace, so an action is a call that does not revert.   *)
(*                                                                         *)
(* An address is an account however the call reached the contract: directly *)
(* or through the trusted forwarder.  The ERC-20s, ERC-2612 permits and the *)
(* ERC-1155 balances are OpenZeppelin's; royalties (ERC-2981) are for other *)
(* markets and change nothing here.                                        *)
(***************************************************************************)
EXTENDS Naturals, FiniteSets, FiniteSetsExt, Lists

CONSTANTS
    Party,
    MaxAssets,      \* bound: assets registered
    Token,          \* ERC-20s
    Uri,
    NoUri,
    Nobody,         \* address(0)
    FeeBps,
    BasisPoints,    \* 10_000
    FeeRecipient,
    MaxUint,        \* 2^256 - 1: arithmetic past it reverts
    Purse,          \* [Token -> [Party -> Nat]]: money to begin with
    Amounts,        \* bound: prices, quantities and allowances asked for
    MaxSupplies     \* bound: supplies a creator sets; 0 is unlimited

ASSUME MarketplaceAssumption ==
    /\ Nobody \notin Party /\ NoUri \notin Uri
    /\ MaxUint \in Nat
    /\ FeeBps \in 0..BasisPoints /\ BasisPoints \in Nat \ {0}
    /\ FeeRecipient \in Party
    /\ Purse \in [Token -> [Party -> Nat]]
    /\ Amounts \subseteq Nat /\ MaxSupplies \subseteq Nat
    /\ MaxAssets \in Nat

Asset == 1..MaxAssets

VARIABLES
    nextId,
    creator, maxSupply, frozen, uri,    \* _assets
    price, tokensFor,
    supply, copies,                     \* ERC1155Supply, ERC1155
    money, allowance                    \* ERC20: balances, and what the Marketplace may spend

assetVars == <<nextId, creator, maxSupply, frozen, uri>>
priceVars == <<price, tokensFor>>
copyVars == <<supply, copies>>
moneyVars == <<money, allowance>>
marketVars == <<assetVars, priceVars, copyVars, moneyVars>>

MarketInit ==
    /\ nextId = 1
    /\ creator = [i \in Asset |-> Nobody]
    /\ maxSupply = [i \in Asset |-> 0]
    /\ frozen = [i \in Asset |-> FALSE]
    /\ uri = [i \in Asset |-> NoUri]
    /\ price = [i \in Asset |-> [t \in Token |-> 0]]
    /\ tokensFor = [i \in Asset |-> <<>>]
    /\ supply = [i \in Asset |-> 0]
    /\ copies = [a \in Party |-> [i \in Asset |-> 0]]
    /\ money = Purse
    /\ allowance = [t \in Token |-> [a \in Party |-> 0]]

-----------------------------------------------------------------------------
(***************************************************************************)
(* UGC1155: publishing.                                                    *)
(***************************************************************************)
Register(a, u, n) ==
    /\ nextId \in Asset
    /\ nextId' = nextId + 1
    /\ creator' = [creator EXCEPT ![nextId] = a]
    /\ maxSupply' = [maxSupply EXCEPT ![nextId] = n]
    /\ frozen' = [frozen EXCEPT ![nextId] = FALSE]
    /\ uri' = [uri EXCEPT ![nextId] = u]
    /\ UNCHANGED <<priceVars, copyVars, moneyVars>>

SetUri(a, i, u) ==
    /\ creator[i] = a
    /\ ~frozen[i]
    /\ uri' = [uri EXCEPT ![i] = u]
    /\ UNCHANGED <<nextId, creator, maxSupply, frozen, priceVars, copyVars, moneyVars>>

Freeze(a, i) ==
    /\ creator[i] = a
    /\ frozen' = [frozen EXCEPT ![i] = TRUE]
    /\ UNCHANGED <<nextId, creator, maxSupply, uri, priceVars, copyVars, moneyVars>>

(***************************************************************************)
(* setPrice, and the list of tokens a UI reads.                            *)
(***************************************************************************)
\* Mutant of Listed: pushed whenever a price is set.
ListedAlways(i, t, p) ==
    \/ /\ p # 0
       /\ tokensFor' = [tokensFor EXCEPT ![i] = Append(@, t)]
    \/ /\ price[i][t] # 0 /\ p = 0
       /\ tokensFor' = [tokensFor EXCEPT ![i] = SelectSeq(@, LAMBDA x : x # t)]

Listed(i, t, p) ==
    \/ /\ price[i][t] = 0 /\ p # 0
       /\ tokensFor' = [tokensFor EXCEPT ![i] = Append(@, t)]
    \/ /\ price[i][t] # 0 /\ p = 0
       /\ \E n \in DOMAIN tokensFor[i] :
             /\ tokensFor[i][n] = t
             /\ \A m \in 1..(n - 1) : tokensFor[i][m] # t
             /\ tokensFor' = [tokensFor EXCEPT ![i] = SwapRemove(@, n)]
    \/ /\ price[i][t] = 0 <=> p = 0
       /\ UNCHANGED tokensFor

SetPrice(a, i, t, p) ==
    /\ creator[i] = a
    /\ price' = [price EXCEPT ![i][t] = p]
    /\ Listed(i, t, p)
    /\ UNCHANGED <<assetVars, copyVars, moneyVars>>

-----------------------------------------------------------------------------
(***************************************************************************)
(* _buy: the fee first, then the rest to the creator, then the copies.      *)
(***************************************************************************)
Fee(total) == (total * FeeBps) \div BasisPoints

\* safeTransferFrom
CanMove(purse, from, n) == purse[from] >= n
Moved(purse, from, to, n) == [[purse EXCEPT ![from] = @ - n] EXCEPT ![to] = @ + n]

CanMint(i, n) ==
    /\ supply[i] + n <= MaxUint
    /\ maxSupply[i] # 0 => supply[i] + n <= maxSupply[i]

AfterFee(purse, b, total) ==
    IF Fee(total) > 0 THEN Moved(purse, b, FeeRecipient, Fee(total)) ELSE purse

CanPay(purse, b, total) ==
    /\ Fee(total) > 0 => CanMove(purse, b, Fee(total))
    /\ CanMove(AfterFee(purse, b, total), b, total - Fee(total))

\* Mutant of Paid: the creator is paid the whole price as well as the fee.
PaidTwice(purse, b, i, total) == Moved(AfterFee(purse, b, total), b, creator[i], total)

Paid(purse, b, i, total) ==
    Moved(AfterFee(purse, b, total), b, creator[i], total - Fee(total))

Purchase(b, i, t, n, allowed) ==
    LET total == price[i][t] * n
    IN  /\ n > 0 /\ price[i][t] > 0
        /\ total <= MaxUint /\ total * FeeBps <= MaxUint
        /\ total <= allowed
        /\ CanPay(money[t], b, total)
        /\ CanMint(i, n)
        /\ money' = [money EXCEPT ![t] = Paid(@, b, i, total)]
        /\ allowance' = [allowance EXCEPT ![t][b] = allowed - total]
        /\ supply' = [supply EXCEPT ![i] = @ + n]
        /\ copies' = [copies EXCEPT ![b][i] = @ + n]
        /\ UNCHANGED <<assetVars, priceVars>>

Buy(b, i, t, n) == Purchase(b, i, t, n, allowance[t][b])

(***************************************************************************)
(* A permit for exactly the price; one that fails, because somebody already *)
(* used it or the token has none, is passed over.                          *)
(***************************************************************************)
BuyWithPermit(b, i, t, n) ==
    /\ price[i][t] * n <= MaxUint
    /\ \/ Purchase(b, i, t, n, price[i][t] * n)
       \/ Purchase(b, i, t, n, allowance[t][b])

(***************************************************************************)
(* The tokens themselves: an approval, and copies changing hands.          *)
(***************************************************************************)
Approve(a, t, n) ==
    /\ allowance' = [allowance EXCEPT ![t][a] = n]
    /\ UNCHANGED <<assetVars, priceVars, copyVars, money>>

Transfer(a, b, i, n) ==
    /\ copies[a][i] >= n
    /\ copies' = [[copies EXCEPT ![a][i] = @ - n] EXCEPT ![b][i] = @ + n]
    /\ UNCHANGED <<assetVars, priceVars, supply, moneyVars>>

MarketNext ==
    \E a \in Party :
       \/ \E u \in Uri, n \in MaxSupplies : Register(a, u, n)
       \/ \E t \in Token, n \in Amounts : Approve(a, t, n)
       \/ \E i \in Asset :
             \/ \E u \in Uri : SetUri(a, i, u)
             \/ Freeze(a, i)
             \/ \E n \in Amounts :
                   \/ \E b \in Party : Transfer(a, b, i, n)
                   \/ \E t \in Token :
                         SetPrice(a, i, t, n) \/ Buy(a, i, t, n) \/ BuyWithPermit(a, i, t, n)

MarketSpec == MarketInit /\ [][MarketNext]_marketVars

-----------------------------------------------------------------------------
(***************************************************************************)
(* tokensFor ("tokens with a non-zero price, for UIs") lists the tokens an  *)
(* asset can be bought with, each once, however prices were set and taken   *)
(* back; and an id nobody has registered is neither owned nor for sale.     *)
(***************************************************************************)
OffersListed ==
    \A i \in Asset :
        /\ Enumerates(tokensFor[i], {t \in Token : price[i][t] > 0})
        /\ creator[i] = Nobody <=> i >= nextId
        /\ i >= nextId => supply[i] = 0 /\ tokensFor[i] = <<>>

(***************************************************************************)
(* "Creator makes the metadata immutable. Holders can trust it never        *)
(* changes" (UGC1155.freeze): not the metadata, not the creator, not the    *)
(* limit, not the freeze itself.                                           *)
(***************************************************************************)
FrozenForGood ==
    [][\A i \in Asset : frozen[i] =>
          /\ uri'[i] = uri[i] /\ frozen'[i]
          /\ creator'[i] = creator[i] /\ maxSupply'[i] = maxSupply[i]]_marketVars

(***************************************************************************)
(* The two contracts implement Sales.                                      *)
(***************************************************************************)
S == INSTANCE Sales WITH Account <- Party, Amount <- Amounts \cup MaxSupplies

ImplementsSales == S!SalesSpec
=============================================================================

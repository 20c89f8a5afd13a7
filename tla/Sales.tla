------------------------------- MODULE Sales --------------------------------
(***************************************************************************)
(* What the Marketplace promises, seen from the purses: whoever registered  *)
(* an asset puts a price on it; a buyer pays exactly price times quantity,  *)
(* the fee of it to the fee address and the rest to the creator, whichever  *)
(* of the three are the same account, and has the copies at once.  Nobody   *)
(* else's money moves, nothing stays with the contract, and no copy comes   *)
(* from anywhere else.                                                     *)
(***************************************************************************)
EXTENDS Naturals

CONSTANTS Account, Asset, Token, Nobody, FeeBps, BasisPoints, FeeRecipient, Amount

VARIABLES creator, maxSupply, price, supply, copies, money

salesVars == <<creator, maxSupply, price, supply, copies, money>>

Fee(total) == (total * FeeBps) \div BasisPoints

Publish(a, i, n) ==
    /\ creator[i] = Nobody
    /\ creator' = [creator EXCEPT ![i] = a]
    /\ maxSupply' = [maxSupply EXCEPT ![i] = n]
    /\ UNCHANGED <<price, supply, copies, money>>

Offer(i, t, p) ==
    /\ creator[i] # Nobody
    /\ price' = [price EXCEPT ![i][t] = p]
    /\ UNCHANGED <<creator, maxSupply, supply, copies, money>>

\* What is left in an account when `b' has paid `total' for one of c's.
Settled(had, a, b, c, total) ==
    (had + (IF a = c THEN total - Fee(total) ELSE 0)
         + (IF a = FeeRecipient THEN Fee(total) ELSE 0))
         - (IF a = b THEN total ELSE 0)

Sell(b, i, t, n) ==
    LET total == price[i][t] * n
    IN  /\ n > 0 /\ price[i][t] > 0
        /\ maxSupply[i] # 0 => supply[i] + n <= maxSupply[i]
        /\ Settled(money[t][b], b, b, creator[i], total) >= 0
        /\ money' = [money EXCEPT ![t] =
                        [a \in Account |-> Settled(money[t][a], a, b, creator[i], total)]]
        /\ supply' = [supply EXCEPT ![i] = @ + n]
        /\ copies' = [copies EXCEPT ![b][i] = @ + n]
        /\ UNCHANGED <<creator, maxSupply, price>>

Trade(a, b, i, n) ==
    /\ copies[a][i] >= n
    /\ copies' = [[copies EXCEPT ![a][i] = @ - n] EXCEPT ![b][i] = @ + n]
    /\ UNCHANGED <<creator, maxSupply, price, supply, money>>

Step ==
    \E a \in Account, i \in Asset, n \in Amount :
       \/ Publish(a, i, n)
       \/ \E b \in Account : Trade(a, b, i, n)
       \/ \E t \in Token : Offer(i, t, n) \/ Sell(a, i, t, n)

SalesInit ==
    /\ creator = [i \in Asset |-> Nobody]
    /\ maxSupply = [i \in Asset |-> 0]
    /\ price = [i \in Asset |-> [t \in Token |-> 0]]
    /\ supply = [i \in Asset |-> 0]
    /\ copies = [a \in Account |-> [i \in Asset |-> 0]]
    /\ money \in [Token -> [Account -> Nat]]

SalesSpec == SalesInit /\ [][Step]_salesVars
=============================================================================

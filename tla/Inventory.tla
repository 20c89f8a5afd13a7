----------------------------- MODULE Inventory ------------------------------
(***************************************************************************)
(* contracts/Inventory.sol: who has what, on chain.  A transaction is       *)
(* atomic and a revert leaves no trace, so an action is a call that does    *)
(* not revert.                                                             *)
(*                                                                         *)
(* An item is the pair of the hash of its data and the tier it was claimed  *)
(* at (keccak256 taken as injective).  MAX_SLOTS, MAX_GIFT_SLOTS and the    *)
(* largest uint32 are constants, so that a small instance meets them.       *)
(***************************************************************************)
EXTENDS Naturals, FiniteSets, Lists

CONSTANTS
    Account,
    DataHash,
    NoData,             \* bytes32(0)
    Tier,               \* the rungs: indices into `thresholds'
    RecordTier,         \* RECORD_TIER, past every rung
    Thresholds,         \* holdings asked for on each rung
    Founder,
    Seed,               \* what the constructor credits the founder with
    MaxSlots,
    MaxGiftSlots,
    MaxCount,           \* 2^32 - 1
    MaxBalance          \* bound: native PLS of an account

Item == DataHash \X (Tier \cup {RecordTier})

ASSUME InventoryAssumption ==
    /\ IsFiniteSet(Account) /\ IsFiniteSet(DataHash) /\ IsFiniteSet(Tier)
    /\ NoData \notin DataHash
    /\ RecordTier \notin Tier
    /\ Thresholds \in [Tier -> Nat]
    /\ Founder \in Account
    /\ Seed \subseteq DataHash \X Tier
    /\ MaxSlots \in Nat /\ MaxGiftSlots \in Nat /\ MaxCount \in Nat \ {0}
    /\ Cardinality(Seed) <= MaxSlots
    /\ MaxBalance \in Nat

VARIABLES
    held,
    seen,           \* _seen
    known,          \* _known: the items mapped to true
    dataOf,
    giftSlots,
    balance,        \* native PLS, which anything may change
    opened          \* history: listed entries somebody else's gift opened

inventoryVars == <<held, seen, known, dataOf, giftSlots, balance, opened>>

InventoryInit ==
    /\ held = [a \in Account |->
                 [i \in Item |-> IF a = Founder /\ i \in Seed THEN 1 ELSE 0]]
    /\ \E order \in SetToSeqs(Seed) :
          seen = [a \in Account |-> IF a = Founder THEN order ELSE <<>>]
    /\ known = [a \in Account |-> IF a = Founder THEN Seed ELSE {}]
    /\ dataOf = [i \in Item |-> IF i \in Seed THEN i[1] ELSE NoData]
    /\ giftSlots = [a \in Account |-> 0]
    /\ balance \in [Account -> 0..MaxBalance]
    /\ opened = [a \in Account |-> {}]

-----------------------------------------------------------------------------
(***************************************************************************)
(* _credit without the amount: the entry is listed, or already was.        *)
(***************************************************************************)
List(a, i) ==
    IF i \in known[a]
    THEN UNCHANGED <<seen, known>>
    ELSE /\ Len(seen[a]) < MaxSlots
         /\ seen' = [seen EXCEPT ![a] = Append(@, i)]
         /\ known' = [known EXCEPT ![a] = @ \cup {i}]

Claim(a, i) ==
    /\ held[a][i] < MaxCount
    /\ held' = [held EXCEPT ![a][i] = @ + 1]
    /\ List(a, i)
    /\ dataOf' = [dataOf EXCEPT ![i] = IF @ = NoData THEN i[1] ELSE @]
    /\ UNCHANGED <<giftSlots, balance, opened>>

Add(a, d, t) ==
    /\ balance[a] >= Thresholds[t]
    /\ Claim(a, <<d, t>>)

Keep(a, d) == Claim(a, <<d, RecordTier>>)

(***************************************************************************)
(* give: the giver is debited first, so what is handed to oneself comes     *)
(* back; a stranger's gift of something new takes one of the gift slots.    *)
(***************************************************************************)
GiftSlot(to, i) ==
    IF i \in known[to]
    THEN UNCHANGED <<giftSlots, opened>>
    ELSE /\ giftSlots[to] < MaxGiftSlots
         /\ giftSlots' = [giftSlots EXCEPT ![to] = @ + 1]
         /\ opened' = [opened EXCEPT ![to] = @ \cup {i}]

\* Mutant of Give: the giver keeps what is given.
GiveCopies(a, to, i, n) ==
    /\ held[a][i] >= n
    /\ held[to][i] + n <= MaxCount
    /\ held' = [held EXCEPT ![to][i] = @ + n]
    /\ IF to = a THEN UNCHANGED <<giftSlots, opened>> ELSE GiftSlot(to, i)
    /\ List(to, i)
    /\ UNCHANGED <<dataOf, balance>>

Give(a, to, i, n) ==
    /\ held[a][i] >= n
    /\ IF to = a
       THEN UNCHANGED <<held, giftSlots, opened>>
       ELSE /\ held[to][i] + n <= MaxCount
            /\ held' = [[held EXCEPT ![a][i] = @ - n] EXCEPT ![to][i] = @ + n]
            /\ GiftSlot(to, i)
    /\ List(to, i)
    /\ UNCHANGED <<dataOf, balance>>

(***************************************************************************)
(* forget.                                                                 *)
(***************************************************************************)
CanForget(a, i) == held[a][i] = 0 /\ i \in known[a]

\* Mutant of Forget: the present's slot is not given back.
ForgetKeepsSlot(a, i) ==
    /\ CanForget(a, i)
    /\ \E n \in DOMAIN seen[a] :
          /\ seen[a][n] = i
          /\ seen' = [seen EXCEPT ![a] = SwapRemove(@, n)]
    /\ known' = [known EXCEPT ![a] = @ \ {i}]
    /\ opened' = [opened EXCEPT ![a] = @ \ {i}]
    /\ UNCHANGED <<held, dataOf, balance, giftSlots>>

Forget(a, i) ==
    /\ CanForget(a, i)
    /\ \E n \in DOMAIN seen[a] :
          /\ seen[a][n] = i
          /\ seen' = [seen EXCEPT ![a] = SwapRemove(@, n)]
    /\ known' = [known EXCEPT ![a] = @ \ {i}]
    /\ giftSlots' = [giftSlots EXCEPT ![a] = IF @ > 0 THEN @ - 1 ELSE 0]
    /\ opened' = [opened EXCEPT ![a] = @ \ {i}]
    /\ UNCHANGED <<held, dataOf, balance>>

Drop(a, i, n) ==
    /\ held[a][i] >= n
    /\ held' = [held EXCEPT ![a][i] = @ - n]
    /\ UNCHANGED <<seen, known, dataOf, giftSlots, balance, opened>>

(***************************************************************************)
(* The chain outside this contract: an account earns and spends PLS.       *)
(***************************************************************************)
Transact(a) ==
    /\ \E v \in 0..MaxBalance : balance' = [balance EXCEPT ![a] = v]
    /\ UNCHANGED <<held, seen, known, dataOf, giftSlots, opened>>

InventoryNext ==
    \E a \in Account :
       \/ Transact(a)
       \/ \E d \in DataHash : Keep(a, d) \/ \E t \in Tier : Add(a, d, t)
       \/ \E i \in Item :
             \/ Forget(a, i)
             \/ \E n \in 1..MaxCount :
                   \/ Drop(a, i, n)
                   \/ \E to \in Account : Give(a, to, i, n)

InventorySpec == InventoryInit /\ [][InventoryNext]_inventoryVars

-----------------------------------------------------------------------------
(***************************************************************************)
(* Every variable holds a value of its type.                               *)
(***************************************************************************)
InventoryTypeOK ==
    /\ held \in [Account -> [Item -> 0..MaxCount]]
    /\ seen \in [Account -> Seq(Item)]
    /\ known \in [Account -> SUBSET Item]
    /\ dataOf \in [Item -> DataHash \cup {NoData}]
    /\ giftSlots \in [Account -> 0..MaxGiftSlots]
    /\ balance \in [Account -> 0..MaxBalance]
    /\ opened \in [Account -> SUBSET Item]

(***************************************************************************)
(* The list a client pages through (inventoryOf) is the set the contract    *)
(* believes listed: each known item once, in no more than MAX_SLOTS         *)
(* entries, whatever was added, given, forgotten and added again.          *)
(***************************************************************************)
ListIsKnown ==
    \A a \in Account :
        /\ ToSet(seen[a]) = known[a]
        /\ IsInjective(seen[a])
        /\ Len(seen[a]) <= MaxSlots

(***************************************************************************)
(* Nothing held is missing from its holder's list, and every listed id can  *)
(* be turned back into the data it stands for.                             *)
(***************************************************************************)
HeldIsListed ==
    \A a \in Account, i \in Item :
        /\ held[a][i] > 0 => i \in known[a]
        /\ i \in known[a] => dataOf[i] = i[1]

(***************************************************************************)
(* A present always finds the room the comment on MAX_GIFT_SLOTS sets aside: *)
(* the count of gift slots in use never exceeds the entries that gifts      *)
(* opened and that are still listed, so forgetting them all frees them all. *)
(***************************************************************************)
GiftSlotsAreBacked ==
    \A a \in Account :
        /\ opened[a] \subseteq known[a]
        /\ giftSlots[a] <= Cardinality(opened[a])

(***************************************************************************)
(* "Of which this many may be opened by other people's gifts": no more      *)
(* entries of a list than MAX_GIFT_SLOTS were opened by gifts.  The code     *)
(* does not keep to it (see the README): forget() frees a gift slot for an  *)
(* entry its owner opened.                                                 *)
(***************************************************************************)
GiftsWithinReserve ==
    \A a \in Account : Cardinality(opened[a]) <= MaxGiftSlots

(***************************************************************************)
(* Inventory implements Holdings: add and keep are claims at their rung,    *)
(* give hands over, drop discards, and a list, a slot or a balance changing *)
(* is a stutter.  In particular nothing is created but by a claim whose     *)
(* rung the claimer stands on at that moment.                              *)
(***************************************************************************)
Rung(i) == IF i[2] = RecordTier THEN 0 ELSE Thresholds[i[2]]

H == INSTANCE Holdings

ImplementsHoldings == H!HoldingsSpec
=============================================================================

--------------------------- MODULE ContractsProofs ---------------------------
(***************************************************************************)
(* Proofs about the contracts that keep state of their own for long, each    *)
(* by itself: Inventory, for any accounts, items, ladder and limits;         *)
(* Marketplace, for any accounts, tokens, assets, fee and money; Fishing,    *)
(* for any anglers, species, windows and blocks; and about publishing into   *)
(* the AssetStore, for any place of finitely many files.                    *)
(***************************************************************************)
EXTENDS Inventory, Marketplace, Fishing, Publishing, DataProofs

(***************************************************************************)
(* The limits are numbers, and a count stays within its limit.              *)
(***************************************************************************)
LEMMA Limits == MaxSlots \in Nat /\ MaxGiftSlots \in Nat /\ MaxCount \in Nat
BY InventoryAssumption DEF InventoryAssumption

LEMMA StaysWithin ==
    ASSUME NEW m \in Nat, NEW g \in 0..m, NEW n \in Nat
    PROVE  /\ n <= g => g - n \in 0..m
           /\ g + n <= m => g + n \in 0..m
           /\ g < m => g + 1 \in 0..m
           /\ (IF g > 0 THEN g - 1 ELSE 0) \in 0..m
OBVIOUS

(***************************************************************************)
(* The inductive invariant: types, the list and what it covers together.    *)
(* HeldIsListed needs ListIsKnown's companion variable `known', and forget  *)
(* keeps it only because nothing held may be forgotten; and an item listed  *)
(* anew may have its data from an earlier holder, so that has to be right   *)
(* for items nobody lists.                                                 *)
(***************************************************************************)
DataIsOwn == \A i \in Item : dataOf[i] \in {NoData, i[1]}

InventoryInv == InventoryTypeOK /\ ListIsKnown /\ HeldIsListed /\ DataIsOwn

LEMMA SeedList ==
    ASSUME NEW order \in SetToSeqs(Seed)
    PROVE  /\ order \in Seq(Item)
           /\ ToSet(order) = Seed
           /\ IsInjective(order)
           /\ Len(order) <= MaxSlots
<1>1. IsFiniteSet(Seed)
  <2>1. IsFiniteSet(DataHash \X Tier)
    BY FS_Product, InventoryAssumption DEF InventoryAssumption
  <2> QED BY <2>1, FS_Subset, InventoryAssumption DEF InventoryAssumption
<1>2. order \in Seq(Seed) /\ ToSet(order) = Seed /\ IsInjective(order) /\ Len(order) = Cardinality(Seed)
  BY <1>1, SetToSeqsEntries
<1>3. Seed \subseteq Item
  BY InventoryAssumption DEF InventoryAssumption, Item
<1>4. order \in Seq(Item)
  BY <1>2, <1>3
<1> QED BY <1>2, <1>4, InventoryAssumption DEF InventoryAssumption

LEMMA InitInv == InventoryInit => InventoryInv
<1> SUFFICES ASSUME InventoryInit PROVE InventoryInv
  OBVIOUS
<1>1. PICK order \in SetToSeqs(Seed) :
          seen = [a \in Account |-> IF a = Founder THEN order ELSE <<>>]
  BY DEF InventoryInit
<1>2. Seed \subseteq Item
  BY InventoryAssumption DEF InventoryAssumption, Item
<1>3. InventoryTypeOK
  <2>1. held \in [Account -> [Item -> 0..MaxCount]]
    BY InventoryAssumption DEF InventoryInit, InventoryAssumption
  <2>2. seen \in [Account -> Seq(Item)]
    BY <1>1, SeedList
  <2>3. known \in [Account -> SUBSET Item]
    BY <1>2 DEF InventoryInit
  <2>4. dataOf \in [Item -> DataHash \cup {NoData}]
    BY DEF InventoryInit, Item
  <2>5. giftSlots \in [Account -> 0..MaxGiftSlots]
    BY InventoryAssumption DEF InventoryInit, InventoryAssumption
  <2>6. balance \in [Account -> 0..MaxBalance] /\ opened \in [Account -> SUBSET Item]
    BY DEF InventoryInit
  <2> QED BY <2>1, <2>2, <2>3, <2>4, <2>5, <2>6 DEF InventoryTypeOK
<1>4. ListIsKnown
  <2> SUFFICES ASSUME NEW a \in Account
               PROVE  /\ ToSet(seen[a]) = known[a]
                      /\ IsInjective(seen[a])
                      /\ Len(seen[a]) <= MaxSlots
    BY DEF ListIsKnown
  <2>1. CASE a = Founder
    BY <1>1, <2>1, SeedList DEF InventoryInit
  <2>2. CASE a # Founder
    <3>1. seen[a] = <<>> /\ known[a] = {}
      BY <1>1, <2>2 DEF InventoryInit
    <3>2. ToSet(<<>>) = {} /\ IsInjective(<<>>) /\ Len(<<>>) = 0
      BY DEF ToSet, IsInjective
    <3> QED BY <3>1, <3>2, InventoryAssumption DEF InventoryAssumption
  <2> QED BY <2>1, <2>2
<1>5. HeldIsListed
  BY <1>2 DEF InventoryInit, HeldIsListed
<1>6. DataIsOwn
  BY DEF InventoryInit, DataIsOwn
<1> QED BY <1>3, <1>4, <1>5, <1>6 DEF InventoryInv

(***************************************************************************)
(* What List, the second half of _credit, does.                            *)
(***************************************************************************)
LEMMA ListStep ==
    ASSUME InventoryInv, NEW a \in Account, NEW i \in Item, List(a, i)
    PROVE  /\ seen' \in [Account -> Seq(Item)]
           /\ known' = [known EXCEPT ![a] = @ \cup {i}]
           /\ known' \in [Account -> SUBSET Item]
           /\ ListIsKnown'
<1> USE DEF InventoryInv, InventoryTypeOK
<1>1. CASE i \in known[a]
  <2>1. UNCHANGED <<seen, known>>
    BY <1>1 DEF List
  <2>2. known = [known EXCEPT ![a] = @ \cup {i}]
    BY <1>1
  <2> QED BY <2>1, <2>2 DEF ListIsKnown
<1>2. CASE i \notin known[a]
  <2>1. /\ Len(seen[a]) < MaxSlots
        /\ seen' = [seen EXCEPT ![a] = Append(@, i)]
        /\ known' = [known EXCEPT ![a] = @ \cup {i}]
    BY <1>2 DEF List
  <2>2. /\ seen[a] \in Seq(Item)
        /\ IsInjective(seen[a])
        /\ i \notin ToSet(seen[a])
    BY <1>2 DEF ListIsKnown
  <2>3. /\ Append(seen[a], i) \in Seq(Item)
        /\ Len(Append(seen[a], i)) = Len(seen[a]) + 1
        /\ ToSet(Append(seen[a], i)) = ToSet(seen[a]) \cup {i}
        /\ IsInjective(Append(seen[a], i))
    BY <2>2, AppendEntry
  <2>4. /\ seen' \in [Account -> Seq(Item)]
        /\ known' \in [Account -> SUBSET Item]
    BY <2>1, <2>3
  <2>5. Len(seen[a]) + 1 <= MaxSlots
    BY <2>1, <2>2, InventoryAssumption DEF InventoryAssumption
  <2>6. ASSUME NEW b \in Account
        PROVE  /\ ToSet(seen'[b]) = known'[b]
               /\ IsInjective(seen'[b])
               /\ Len(seen'[b]) <= MaxSlots
    <3>1. CASE b = a
      <4>1. seen'[b] = Append(seen[a], i) /\ known'[b] = known[a] \cup {i}
        BY <2>1, <3>1
      <4> QED BY <2>3, <2>5, <4>1 DEF ListIsKnown
    <3>2. CASE b # a
      <4>1. seen'[b] = seen[b] /\ known'[b] = known[b]
        BY <2>1, <3>2
      <4> QED BY <4>1 DEF ListIsKnown
    <3> QED BY <3>1, <3>2
  <2>7. ListIsKnown'
    BY <2>6 DEF ListIsKnown
  <2> QED BY <2>1, <2>4, <2>7
<1> QED BY <1>1, <1>2

(***************************************************************************)
(* add and keep.                                                           *)
(***************************************************************************)
LEMMA ClaimKeepsInv ==
    ASSUME InventoryInv, NEW a \in Account, NEW i \in Item, Claim(a, i)
    PROVE  InventoryInv'
<1> USE DEF InventoryInv, InventoryTypeOK
<1>1. /\ seen' \in [Account -> Seq(Item)]
      /\ known' = [known EXCEPT ![a] = @ \cup {i}]
      /\ known' \in [Account -> SUBSET Item]
      /\ ListIsKnown'
  BY ListStep DEF Claim
<1>2. held' \in [Account -> [Item -> 0..MaxCount]]
  <2>1. held[a][i] + 1 \in 0..MaxCount
    BY InventoryAssumption DEF Claim, InventoryAssumption
  <2> QED BY <2>1 DEF Claim
<1>3. i[1] \in DataHash
  BY DEF Item
<1>4. dataOf' \in [Item -> DataHash \cup {NoData}]
  BY <1>3 DEF Claim
<1>5. HeldIsListed'
  <2> SUFFICES ASSUME NEW b \in Account, NEW j \in Item
               PROVE  /\ held'[b][j] > 0 => j \in known'[b]
                      /\ j \in known'[b] => dataOf'[j] = j[1]
    BY DEF HeldIsListed
  <2>1. held'[b][j] > 0 => j \in known'[b]
    <3>1. CASE b = a /\ j = i
      BY <1>1, <3>1
    <3>2. CASE ~(b = a /\ j = i)
      <4>1. held'[b][j] = held[b][j]
        BY <3>2 DEF Claim
      <4>2. known[b] \subseteq known'[b]
        BY <1>1
      <4> QED BY <4>1, <4>2 DEF HeldIsListed
    <3> QED BY <3>1, <3>2
  <2>2. j \in known'[b] => dataOf'[j] = j[1]
    <3>1. CASE j = i
      <4>1. dataOf'[i] = IF dataOf[i] = NoData THEN i[1] ELSE dataOf[i]
        BY DEF Claim
      <4>2. CASE i \in known[b]
        BY <3>1, <4>1, <4>2 DEF HeldIsListed
      <4>3. CASE i \notin known[b]
        <5>1. dataOf[i] = NoData \/ dataOf[i] = i[1]
          BY DEF DataIsOwn
        <5> QED BY <3>1, <4>1, <5>1
      <4> QED BY <4>2, <4>3
    <3>2. CASE j # i
      <4>1. dataOf'[j] = dataOf[j]
        BY <3>2 DEF Claim
      <4>2. j \in known'[b] => j \in known[b]
        BY <1>1, <3>2
      <4> QED BY <4>1, <4>2 DEF HeldIsListed
    <3> QED BY <3>1, <3>2
  <2> QED BY <2>1, <2>2
<1>6. DataIsOwn'
  BY DEF Claim, DataIsOwn
<1> QED BY <1>1, <1>2, <1>4, <1>5, <1>6 DEF Claim

(***************************************************************************)
(* give.                                                                   *)
(***************************************************************************)
LEMMA GiveKeepsInv ==
    ASSUME InventoryInv, NEW a \in Account, NEW to \in Account, NEW i \in Item,
           NEW n \in 1..MaxCount, Give(a, to, i, n)
    PROVE  InventoryInv'
<1> USE DEF InventoryInv, InventoryTypeOK
<1>1. /\ seen' \in [Account -> Seq(Item)]
      /\ known' = [known EXCEPT ![to] = @ \cup {i}]
      /\ known' \in [Account -> SUBSET Item]
      /\ ListIsKnown'
  BY ListStep DEF Give
<1>2. held[a][i] >= n /\ held[a][i] \in 0..MaxCount /\ n \in Nat /\ n > 0
  BY InventoryAssumption DEF Give, InventoryAssumption
<1>3. i \in known[a]
  BY <1>2 DEF HeldIsListed
<1>4. dataOf[i] = i[1]
  BY <1>3 DEF HeldIsListed
<1>5. held' \in [Account -> [Item -> 0..MaxCount]]
  <2>1. CASE to = a
    BY <2>1 DEF Give
  <2>2. CASE to # a
    <3>1. /\ held[to][i] + n <= MaxCount
          /\ held' = [[held EXCEPT ![a][i] = @ - n] EXCEPT ![to][i] = @ + n]
      BY <2>2 DEF Give
    <3>2. held[a][i] - n \in 0..MaxCount
      BY <1>2, Limits, StaysWithin
    <3>3. held[to][i] + n \in 0..MaxCount
      <4>1. held[to][i] \in 0..MaxCount
        OBVIOUS
      <4> QED BY <4>1, <1>2, <3>1, Limits, StaysWithin
    <3> QED BY <2>2, <3>1, <3>2, <3>3
  <2> QED BY <2>1, <2>2
<1>6. giftSlots' \in [Account -> 0..MaxGiftSlots] /\ opened' \in [Account -> SUBSET Item]
  <2>1. CASE UNCHANGED <<giftSlots, opened>>
    BY <2>1
  <2>2. CASE ~UNCHANGED <<giftSlots, opened>>
    <3>1. /\ giftSlots[to] < MaxGiftSlots
          /\ giftSlots' = [giftSlots EXCEPT ![to] = @ + 1]
          /\ opened' = [opened EXCEPT ![to] = @ \cup {i}]
      BY <2>2 DEF Give, GiftSlot
    <3>2. giftSlots[to] + 1 \in 0..MaxGiftSlots
      <4>1. giftSlots[to] \in 0..MaxGiftSlots
        OBVIOUS
      <4> QED BY <4>1, <3>1, Limits, StaysWithin
    <3> QED BY <3>1, <3>2
  <2> QED BY <2>1, <2>2
<1>7. HeldIsListed'
  <2> SUFFICES ASSUME NEW b \in Account, NEW j \in Item
               PROVE  /\ held'[b][j] > 0 => j \in known'[b]
                      /\ j \in known'[b] => dataOf'[j] = j[1]
    BY DEF HeldIsListed
  <2>1. known[b] \subseteq known'[b] /\ i \in known'[to]
    BY <1>1
  <2>2. held'[b][j] > 0 => j \in known'[b]
    <3>1. CASE to = a
      BY <2>1, <3>1 DEF Give, HeldIsListed
    <3>2. CASE to # a /\ j = i /\ b \in {a, to}
      BY <1>3, <2>1, <3>2
    <3>3. CASE to # a /\ ~(j = i /\ b \in {a, to})
      <4>1. held' = [[held EXCEPT ![a][i] = @ - n] EXCEPT ![to][i] = @ + n]
        BY <3>3 DEF Give
      <4>2. held'[b][j] = held[b][j]
        BY <3>3, <4>1
      <4> QED BY <2>1, <4>2 DEF HeldIsListed
    <3> QED BY <3>1, <3>2, <3>3
  <2>3. j \in known'[b] => dataOf'[j] = j[1]
    BY <1>1, <1>4 DEF HeldIsListed, Give
  <2> QED BY <2>2, <2>3
<1>8. DataIsOwn'
  BY DEF Give, DataIsOwn
<1> QED BY <1>1, <1>5, <1>6, <1>7, <1>8 DEF Give

(***************************************************************************)
(* forget.                                                                 *)
(***************************************************************************)
LEMMA ForgetKeepsInv ==
    ASSUME InventoryInv, NEW a \in Account, NEW i \in Item, Forget(a, i)
    PROVE  InventoryInv'
<1> USE DEF InventoryInv, InventoryTypeOK
<1>1. PICK n \in DOMAIN seen[a] :
          /\ seen[a][n] = i
          /\ seen' = [seen EXCEPT ![a] = SwapRemove(@, n)]
  BY DEF Forget
<1>2. /\ known' = [known EXCEPT ![a] = @ \ {i}]
      /\ giftSlots' = [giftSlots EXCEPT ![a] = IF @ > 0 THEN @ - 1 ELSE 0]
      /\ opened' = [opened EXCEPT ![a] = @ \ {i}]
      /\ UNCHANGED <<held, dataOf, balance>>
      /\ held[a][i] = 0
  BY DEF Forget, CanForget
<1>3. seen[a] \in Seq(Item) /\ IsInjective(seen[a])
  BY DEF ListIsKnown
<1>4. /\ SwapRemove(seen[a], n) \in Seq(Item)
      /\ Len(SwapRemove(seen[a], n)) = Len(seen[a]) - 1
      /\ ToSet(SwapRemove(seen[a], n)) = ToSet(seen[a]) \ {i}
      /\ IsInjective(SwapRemove(seen[a], n))
  BY <1>1, <1>3, SwapRemoveEntry
<1>5. Len(seen[a]) - 1 <= MaxSlots
  <2>1. Len(seen[a]) \in Nat /\ Len(seen[a]) <= MaxSlots
    BY <1>3 DEF ListIsKnown
  <2> QED BY <2>1, InventoryAssumption DEF InventoryAssumption
<1>6. seen' \in [Account -> Seq(Item)]
  BY <1>1, <1>4
<1>7. ListIsKnown'
  <2> SUFFICES ASSUME NEW b \in Account
               PROVE  /\ ToSet(seen'[b]) = known'[b]
                      /\ IsInjective(seen'[b])
                      /\ Len(seen'[b]) <= MaxSlots
    BY DEF ListIsKnown
  <2>1. CASE b = a
    <3>1. seen'[b] = SwapRemove(seen[a], n) /\ known'[b] = known[a] \ {i}
      BY <1>1, <1>2, <2>1
    <3> QED BY <1>4, <1>5, <3>1 DEF ListIsKnown
  <2>2. CASE b # a
    <3>1. seen'[b] = seen[b] /\ known'[b] = known[b]
      BY <1>1, <1>2, <2>2
    <3> QED BY <3>1 DEF ListIsKnown
  <2> QED BY <2>1, <2>2
<1>8. giftSlots' \in [Account -> 0..MaxGiftSlots]
  <2>1. giftSlots[a] \in 0..MaxGiftSlots
    OBVIOUS
  <2>2. (IF giftSlots[a] > 0 THEN giftSlots[a] - 1 ELSE 0) \in 0..MaxGiftSlots
    BY <2>1, Limits, StaysWithin
  <2> QED BY <1>2, <2>2
<1>9. HeldIsListed'
  <2> SUFFICES ASSUME NEW b \in Account, NEW j \in Item
               PROVE  /\ held'[b][j] > 0 => j \in known'[b]
                      /\ j \in known'[b] => dataOf'[j] = j[1]
    BY DEF HeldIsListed
  <2>1. /\ held[b][j] > 0 => j \in known[b]
        /\ j \in known[b] => dataOf[j] = j[1]
    BY DEF HeldIsListed
  <2>2. known'[b] \subseteq known[b] /\ (j \in known[b] => j \in known'[b] \/ (b = a /\ j = i))
    BY <1>2
  <2>3. held'[b][j] = held[b][j] /\ dataOf'[j] = dataOf[j]
    BY <1>2
  <2>4. held[b][j] > 0 => ~(b = a /\ j = i)
    BY <1>2
  <2> QED BY <2>1, <2>2, <2>3, <2>4
<1>10. known' \in [Account -> SUBSET Item] /\ opened' \in [Account -> SUBSET Item]
  BY <1>2
<1>11. DataIsOwn'
  BY <1>2 DEF DataIsOwn
<1> QED BY <1>2, <1>6, <1>7, <1>8, <1>9, <1>10, <1>11

(***************************************************************************)
(* drop, and the world outside.                                            *)
(***************************************************************************)
LEMMA DropKeepsInv ==
    ASSUME InventoryInv, NEW a \in Account, NEW i \in Item, NEW n \in 1..MaxCount, Drop(a, i, n)
    PROVE  InventoryInv'
<1> USE DEF InventoryInv, InventoryTypeOK
<1>1. held[a][i] - n \in 0..MaxCount
  <2>1. held[a][i] \in 0..MaxCount /\ n <= held[a][i] /\ n \in Nat
    BY DEF Drop
  <2> QED BY <2>1, Limits, StaysWithin
<1>2. held' \in [Account -> [Item -> 0..MaxCount]]
  BY <1>1 DEF Drop
<1>3. HeldIsListed'
  <2> SUFFICES ASSUME NEW b \in Account, NEW j \in Item
               PROVE  held'[b][j] > 0 => held[b][j] > 0
    BY DEF HeldIsListed, Drop
  <2>1. CASE b = a /\ j = i
    BY <1>1, <2>1 DEF Drop
  <2>2. CASE ~(b = a /\ j = i)
    BY <2>2 DEF Drop
  <2> QED BY <2>1, <2>2
<1>4. ListIsKnown' /\ DataIsOwn'
  BY DEF Drop, ListIsKnown, DataIsOwn
<1> QED BY <1>2, <1>3, <1>4 DEF Drop

LEMMA StepInv == InventoryInv /\ [InventoryNext]_inventoryVars => InventoryInv'
<1> SUFFICES ASSUME InventoryInv, [InventoryNext]_inventoryVars PROVE InventoryInv'
  OBVIOUS
<1>1. CASE UNCHANGED inventoryVars
  BY <1>1 DEF inventoryVars, InventoryInv, InventoryTypeOK, ListIsKnown, HeldIsListed, DataIsOwn
<1>2. ASSUME NEW a \in Account, Transact(a) PROVE InventoryInv'
  <2>1. balance' \in [Account -> 0..MaxBalance]
    BY <1>2 DEF Transact, InventoryInv, InventoryTypeOK
  <2> QED BY <1>2, <2>1 DEF Transact, InventoryInv, InventoryTypeOK, ListIsKnown, HeldIsListed, DataIsOwn
<1>3. ASSUME NEW a \in Account, NEW d \in DataHash, Keep(a, d) PROVE InventoryInv'
  <2>1. <<d, RecordTier>> \in Item
    BY DEF Item
  <2> QED BY <1>3, <2>1, ClaimKeepsInv DEF Keep
<1>4. ASSUME NEW a \in Account, NEW d \in DataHash, NEW t \in Tier, Add(a, d, t) PROVE InventoryInv'
  <2>1. <<d, t>> \in Item
    BY DEF Item
  <2> QED BY <1>4, <2>1, ClaimKeepsInv DEF Add
<1> QED
  BY <1>1, <1>2, <1>3, <1>4, GiveKeepsInv, ForgetKeepsInv, DropKeepsInv DEF InventoryNext

(***************************************************************************)
(* The type invariant, for every instance.                                 *)
(***************************************************************************)
THEOREM InventoryTyped == InventorySpec => []InventoryTypeOK
<1>1. InventoryInv => InventoryTypeOK
  BY DEF InventoryInv
<1> QED BY InitInv, StepInv, <1>1, PTL DEF InventorySpec

(***************************************************************************)
(* The list a client reads is the set of known items, without repetition    *)
(* and within MAX_SLOTS, for every instance.                               *)
(***************************************************************************)
THEOREM ListCorrect == InventorySpec => []ListIsKnown
<1>1. InventoryInv => ListIsKnown
  BY DEF InventoryInv
<1> QED BY InitInv, StepInv, <1>1, PTL DEF InventorySpec

(***************************************************************************)
(* Whatever is held is listed, and whatever is listed has its data.        *)
(***************************************************************************)
THEOREM HeldCorrect == InventorySpec => []HeldIsListed
<1>1. InventoryInv => HeldIsListed
  BY DEF InventoryInv
<1> QED BY InitInv, StepInv, <1>1, PTL DEF InventorySpec

(***************************************************************************)
(* Gift slots: a gift takes one with the entry it opens, forget gives one   *)
(* back with any entry, so the count stays below the entries gifts opened.  *)
(* opened is part of known, hence of a finite set, through ListIsKnown.     *)
(***************************************************************************)
GiftInv == InventoryInv /\ GiftSlotsAreBacked

LEMMA OpenedIsFinite ==
    ASSUME InventoryTypeOK, NEW a \in Account
    PROVE  IsFiniteSet(opened[a]) /\ Cardinality(opened[a]) \in Nat
<1>1. IsFiniteSet(Item)
  <2>1. IsFiniteSet(Tier \cup {RecordTier})
    BY FS_AddElement, InventoryAssumption DEF InventoryAssumption
  <2> QED BY <2>1, FS_Product, InventoryAssumption DEF InventoryAssumption, Item
<1>2. opened[a] \in SUBSET Item
  BY DEF InventoryTypeOK
<1>3. IsFiniteSet(opened[a])
  BY <1>1, <1>2, FS_Subset
<1> QED BY <1>3, FS_CardinalityType

LEMMA GiftStep == GiftInv /\ [InventoryNext]_inventoryVars => GiftInv'
<1> SUFFICES ASSUME GiftInv, [InventoryNext]_inventoryVars PROVE GiftInv'
  OBVIOUS
<1>1. InventoryInv /\ InventoryInv' /\ InventoryTypeOK /\ GiftSlotsAreBacked
  BY StepInv DEF GiftInv, InventoryInv
<1> SUFFICES ASSUME NEW b \in Account
             PROVE  opened'[b] \subseteq known'[b] /\ giftSlots'[b] <= Cardinality(opened'[b])
  BY <1>1 DEF GiftInv, GiftSlotsAreBacked
<1>2. /\ opened[b] \subseteq known[b]
      /\ giftSlots[b] <= Cardinality(opened[b])
      /\ giftSlots[b] \in Nat
      /\ IsFiniteSet(opened[b])
      /\ Cardinality(opened[b]) \in Nat
  BY <1>1, OpenedIsFinite, InventoryAssumption
  DEF GiftSlotsAreBacked, InventoryTypeOK, InventoryAssumption
<1>3. CASE UNCHANGED <<giftSlots, opened>> /\ known[b] \subseteq known'[b]
  BY <1>2, <1>3
<1>4. ASSUME NEW a \in Account, NEW i \in Item, List(a, i)
      PROVE  known[b] \subseteq known'[b] /\ (a = b => i \in known'[b])
  BY <1>1, <1>4, ListStep DEF InventoryTypeOK
<1>5. CASE UNCHANGED inventoryVars
  BY <1>3, <1>5 DEF inventoryVars
<1>6. ASSUME NEW a \in Account, Transact(a)
      PROVE  UNCHANGED <<giftSlots, opened>> /\ known[b] \subseteq known'[b]
  BY <1>6 DEF Transact
<1>7. ASSUME NEW a \in Account, NEW i \in Item, Claim(a, i)
      PROVE  UNCHANGED <<giftSlots, opened>> /\ known[b] \subseteq known'[b]
  BY <1>4, <1>7 DEF Claim
<1>8. ASSUME NEW a \in Account, NEW d \in DataHash, Keep(a, d)
      PROVE  UNCHANGED <<giftSlots, opened>> /\ known[b] \subseteq known'[b]
  <2>1. <<d, RecordTier>> \in Item
    BY DEF Item
  <2> QED BY <1>7, <1>8, <2>1 DEF Keep
<1>9. ASSUME NEW a \in Account, NEW d \in DataHash, NEW t \in Tier, Add(a, d, t)
      PROVE  UNCHANGED <<giftSlots, opened>> /\ known[b] \subseteq known'[b]
  <2>1. <<d, t>> \in Item
    BY DEF Item
  <2> QED BY <1>7, <1>9, <2>1 DEF Add
<1>10. ASSUME NEW a \in Account, NEW i \in Item, NEW n \in 1..MaxCount, Drop(a, i, n)
       PROVE  UNCHANGED <<giftSlots, opened>> /\ known[b] \subseteq known'[b]
  BY <1>10 DEF Drop
<1>11. ASSUME NEW a \in Account, NEW to \in Account, NEW i \in Item,
              NEW n \in 1..MaxCount, Give(a, to, i, n)
       PROVE  opened'[b] \subseteq known'[b] /\ giftSlots'[b] <= Cardinality(opened'[b])
  <2>1. known[b] \subseteq known'[b] /\ (to = b => i \in known'[b])
    BY <1>4, <1>11 DEF Give
  <2>2. CASE UNCHANGED <<giftSlots, opened>>
    BY <1>3, <2>1, <2>2
  <2>3. CASE ~UNCHANGED <<giftSlots, opened>>
    <3>1. /\ i \notin known[to]
          /\ giftSlots' = [giftSlots EXCEPT ![to] = @ + 1]
          /\ opened' = [opened EXCEPT ![to] = @ \cup {i}]
      BY <1>11, <2>3 DEF Give, GiftSlot
    <3>2. CASE b = to
      <4>1. /\ i \notin opened[b]
            /\ opened'[b] = opened[b] \cup {i}
            /\ giftSlots'[b] = giftSlots[b] + 1
        BY <1>1, <1>2, <3>1, <3>2 DEF InventoryTypeOK
      <4>2. Cardinality(opened[b] \cup {i}) = Cardinality(opened[b]) + 1
        BY <1>2, <4>1, FS_AddElement
      <4> QED BY <1>2, <2>1, <3>2, <4>1, <4>2
    <3>3. CASE b # to
      <4>1. opened'[b] = opened[b] /\ giftSlots'[b] = giftSlots[b]
        BY <1>1, <3>1, <3>3 DEF InventoryTypeOK
      <4> QED BY <1>2, <2>1, <4>1
    <3> QED BY <3>2, <3>3
  <2> QED BY <2>2, <2>3
<1>12. ASSUME NEW a \in Account, NEW i \in Item, Forget(a, i)
       PROVE  opened'[b] \subseteq known'[b] /\ giftSlots'[b] <= Cardinality(opened'[b])
  <2>1. /\ known' = [known EXCEPT ![a] = @ \ {i}]
        /\ giftSlots' = [giftSlots EXCEPT ![a] = IF @ > 0 THEN @ - 1 ELSE 0]
        /\ opened' = [opened EXCEPT ![a] = @ \ {i}]
    BY <1>12 DEF Forget
  <2>2. CASE b = a
    <3>1. /\ known'[b] = known[b] \ {i}
          /\ opened'[b] = opened[b] \ {i}
          /\ giftSlots'[b] = IF giftSlots[b] > 0 THEN giftSlots[b] - 1 ELSE 0
      BY <1>1, <2>1, <2>2 DEF InventoryTypeOK
    <3>2. /\ IsFiniteSet(opened[b] \ {i})
          /\ Cardinality(opened[b] \ {i}) \in Nat
          /\ Cardinality(opened[b] \ {i}) >= Cardinality(opened[b]) - 1
      <4>1. /\ IsFiniteSet(opened[b] \ {i})
            /\ Cardinality(opened[b] \ {i}) =
                  IF i \in opened[b] THEN Cardinality(opened[b]) - 1 ELSE Cardinality(opened[b])
        BY <1>2, FS_RemoveElement
      <4>2. Cardinality(opened[b] \ {i}) \in Nat
        BY <4>1, FS_CardinalityType
      <4> QED BY <1>2, <4>1, <4>2
    <3> QED BY <1>2, <3>1, <3>2
  <2>3. CASE b # a
    <3>1. opened'[b] = opened[b] /\ giftSlots'[b] = giftSlots[b] /\ known'[b] = known[b]
      BY <1>1, <2>1, <2>3 DEF InventoryTypeOK
    <3> QED BY <1>2, <3>1
  <2> QED BY <2>2, <2>3
<1> QED
  BY <1>3, <1>5, <1>6, <1>8, <1>9, <1>10, <1>11, <1>12 DEF InventoryNext

(***************************************************************************)
(* Forgetting the entries gifts opened always frees their slots.           *)
(***************************************************************************)
THEOREM GiftSlotsCorrect == InventorySpec => []GiftSlotsAreBacked
<1>1. InventoryInit => GiftInv
  <2> SUFFICES ASSUME InventoryInit, NEW a \in Account
               PROVE  opened[a] \subseteq known[a] /\ giftSlots[a] <= Cardinality(opened[a])
    BY InitInv DEF GiftInv, GiftSlotsAreBacked
  <2>1. opened[a] = {} /\ giftSlots[a] = 0
    BY DEF InventoryInit
  <2>2. Cardinality(opened[a]) = 0
    BY <2>1, FS_EmptySet
  <2> QED BY <2>1, <2>2
<1>2. GiftInv => GiftSlotsAreBacked
  BY DEF GiftInv
<1> QED BY <1>1, <1>2, GiftStep, PTL DEF InventorySpec

(***************************************************************************)
(* Every behaviour of the contract is one of Holdings: a call that changes  *)
(* a holding is a claim on a rung stood on, a hand-over or a discard.      *)
(***************************************************************************)
THEOREM Refinement == InventorySpec => ImplementsHoldings
<1>1. InventoryInit => H!HoldingsInit
  <2> SUFFICES ASSUME InventoryInit PROVE held \in [Account -> [Item -> 0..MaxCount]]
    BY DEF H!HoldingsInit
  <2> QED BY InitInv DEF InventoryInv, InventoryTypeOK
<1>2. InventoryInv /\ [InventoryNext]_inventoryVars => [H!Step]_held
  <2> SUFFICES ASSUME InventoryInv, [InventoryNext]_inventoryVars PROVE [H!Step]_held
    OBVIOUS
  <2> USE DEF InventoryInv, InventoryTypeOK
  <2>1. ASSUME NEW a \in Account, NEW i \in Item, Claim(a, i), balance[a] >= Rung(i)
        PROVE  H!Step
    <3>1. UNCHANGED balance /\ H!Claim(a, i)
      BY <2>1 DEF Claim, H!Claim, H!CanClaim
    <3> QED BY <3>1 DEF H!Step
  <2>2. ASSUME NEW a \in Account, NEW d \in DataHash, Keep(a, d) PROVE H!Step
    <3>1. <<d, RecordTier>> \in Item /\ Rung(<<d, RecordTier>>) = 0
      BY DEF Item, Rung
    <3>2. balance[a] >= 0
      BY InventoryAssumption DEF InventoryAssumption
    <3> QED BY <2>1, <2>2, <3>1, <3>2 DEF Keep
  <2>3. ASSUME NEW a \in Account, NEW d \in DataHash, NEW t \in Tier, Add(a, d, t) PROVE H!Step
    <3>1. <<d, t>> \in Item /\ Rung(<<d, t>>) = Thresholds[t]
      BY InventoryAssumption DEF Item, Rung, InventoryAssumption
    <3> QED BY <2>1, <2>3, <3>1 DEF Add
  <2>4. ASSUME NEW a \in Account, NEW i \in Item, NEW n \in 1..MaxCount, Drop(a, i, n)
        PROVE  H!Step
    <3>1. UNCHANGED balance /\ H!Discard(a, i, n)
      BY <2>4 DEF Drop, H!Discard
    <3> QED BY <3>1 DEF H!Step
  <2>5. ASSUME NEW a \in Account, NEW to \in Account, NEW i \in Item,
               NEW n \in 1..MaxCount, Give(a, to, i, n)
        PROVE  [H!Step]_held
    <3>1. CASE to = a
      BY <2>5, <3>1 DEF Give
    <3>2. CASE to # a
      <4>1. UNCHANGED balance /\ H!HandOver(a, to, i, n)
        BY <2>5, <3>2 DEF Give, H!HandOver
      <4> QED BY <4>1 DEF H!Step
    <3> QED BY <3>1, <3>2
  <2>6. ASSUME NEW a \in Account, NEW i \in Item, Forget(a, i) PROVE UNCHANGED held
    BY <2>6 DEF Forget
  <2>7. ASSUME NEW a \in Account, Transact(a) PROVE UNCHANGED held
    BY <2>7 DEF Transact
  <2>8. CASE UNCHANGED inventoryVars
    BY <2>8 DEF inventoryVars
  <2> QED BY <2>2, <2>3, <2>4, <2>5, <2>6, <2>7, <2>8 DEF InventoryNext
<1> QED BY <1>1, <1>2, InitInv, StepInv, PTL DEF InventorySpec, ImplementsHoldings, H!HoldingsSpec

-----------------------------------------------------------------------------
(***************************************************************************)
(* The inductive invariant: types, the list of offers, and that only what   *)
(* is registered was ever frozen (Register clears the freeze of a new id).  *)
(***************************************************************************)
MarketTypes ==
    /\ nextId \in Nat \ {0}
    /\ creator \in [Asset -> Party \cup {Nobody}]
    /\ maxSupply \in [Asset -> Nat]
    /\ frozen \in [Asset -> BOOLEAN]
    /\ uri \in [Asset -> Uri \cup {NoUri}]
    /\ price \in [Asset -> [Token -> Nat]]
    /\ tokensFor \in [Asset -> Seq(Token)]
    /\ supply \in [Asset -> Nat]

MoneyType == money \in [Token -> [Party -> Nat]]

FrozenIsRegistered == \A i \in Asset : frozen[i] => i < nextId

MarketInv == MarketTypes /\ OffersListed /\ FrozenIsRegistered

-----------------------------------------------------------------------------
\* An empty list enumerates no keys.
LEMMA NoKeysListed == Enumerates(<<>>, {})
BY DEF Enumerates, ToSet, IsInjective

\* Before the first call nothing is registered, priced or listed.
LEMMA MarketInvInit == MarketInit => MarketInv /\ MoneyType
<1> SUFFICES ASSUME MarketInit PROVE MarketInv /\ MoneyType
  OBVIOUS
<1>1. MoneyType
  BY MarketplaceAssumption DEF MarketInit, MoneyType, MarketplaceAssumption
<1>2. MarketTypes
  BY DEF MarketInit, MarketTypes
<1>3. ASSUME NEW i \in Asset PROVE {t \in Token : price[i][t] > 0} = {}
  BY DEF MarketInit
<1>4. ASSUME NEW i \in Asset PROVE i >= nextId
  BY DEF MarketInit, Asset
<1>5. OffersListed
  BY <1>3, <1>4, NoKeysListed DEF MarketInit, OffersListed
<1>6. FrozenIsRegistered
  BY DEF MarketInit, FrozenIsRegistered
<1> QED BY <1>1, <1>2, <1>5, <1>6 DEF MarketInv

-----------------------------------------------------------------------------
(***************************************************************************)
(* setPrice's bookkeeping: whichever way the price goes, the asset's list   *)
(* names afterwards the tokens with a price, each once.                    *)
(***************************************************************************)
LEMMA ListFollowsPrice ==
    ASSUME MarketTypes, NEW i \in Asset, NEW t \in Token, NEW p \in Nat,
           Enumerates(tokensFor[i], {x \in Token : price[i][x] > 0}),
           Listed(i, t, p)
    PROVE  /\ tokensFor' \in [Asset -> Seq(Token)]
           /\ \A j \in Asset : j # i => tokensFor'[j] = tokensFor[j]
           /\ Enumerates(tokensFor'[i],
                         {x \in Token : IF x = t THEN p > 0 ELSE price[i][x] > 0})
<1> DEFINE list == tokensFor[i]
           priced == {x \in Token : price[i][x] > 0}
           after == {x \in Token : IF x = t THEN p > 0 ELSE price[i][x] > 0}
<1>1. /\ list \in Seq(Token) /\ price[i][t] \in Nat
      /\ ToSet(list) = priced /\ IsInjective(list)
  BY DEF MarketTypes, Enumerates
<1>2. CASE /\ price[i][t] = 0 /\ p # 0
           /\ tokensFor' = [tokensFor EXCEPT ![i] = Append(@, t)]
  <2>1. t \notin ToSet(list) /\ after = priced \cup {t}
    BY <1>1, <1>2
  <2>2. Append(list, t) \in Seq(Token) /\ Enumerates(Append(list, t), after)
    <3> HIDE DEF list, priced, after
    <3> QED BY <1>1, <2>1, AppendEntry DEF Enumerates
  <2>3. /\ tokensFor'[i] = Append(list, t)
        /\ tokensFor' \in [Asset -> Seq(Token)]
        /\ \A j \in Asset : j # i => tokensFor'[j] = tokensFor[j]
    BY <1>2, <2>2 DEF MarketTypes
  <2> QED BY <2>2, <2>3
<1>3. CASE /\ price[i][t] # 0 /\ p = 0
           /\ \E n \in DOMAIN list :
                 /\ list[n] = t
                 /\ tokensFor' = [tokensFor EXCEPT ![i] = SwapRemove(@, n)]
  <2>1. PICK n \in DOMAIN list :
           list[n] = t /\ tokensFor' = [tokensFor EXCEPT ![i] = SwapRemove(@, n)]
    BY <1>3
  <2>2. after = priced \ {t}
    BY <1>1, <1>3
  <2>3. SwapRemove(list, n) \in Seq(Token) /\ Enumerates(SwapRemove(list, n), after)
    <3> HIDE DEF list, priced, after
    <3> QED BY <1>1, <2>1, <2>2, SwapRemoveEntry DEF Enumerates
  <2>4. /\ tokensFor'[i] = SwapRemove(list, n)
        /\ tokensFor' \in [Asset -> Seq(Token)]
        /\ \A j \in Asset : j # i => tokensFor'[j] = tokensFor[j]
    BY <2>1, <2>3 DEF MarketTypes
  <2> QED BY <2>3, <2>4
<1>4. CASE (price[i][t] = 0 <=> p = 0) /\ UNCHANGED tokensFor
  <2>1. after = priced
    BY <1>1, <1>4
  <2> QED BY <1>1, <1>4, <2>1 DEF MarketTypes, Enumerates
<1> QED BY <1>2, <1>3, <1>4 DEF Listed

\* A step that leaves assets, prices and supplies alone keeps the invariant.
LEMMA MarketRests ==
    ASSUME MarketInv, UNCHANGED <<assetVars, priceVars, supply>>
    PROVE  MarketInv'
BY DEF MarketInv, MarketTypes, OffersListed, FrozenIsRegistered, assetVars, priceVars

\* registerAsset: the next id, until now nobody's, gets its creator.
LEMMA RegisterKeeps ==
    ASSUME MarketInv, NEW a \in Party, NEW u \in Uri, NEW n \in MaxSupplies, Register(a, u, n)
    PROVE  MarketInv'
<1> USE DEF MarketInv
<1>1. /\ nextId \in Asset /\ nextId' = nextId + 1
      /\ creator' = [creator EXCEPT ![nextId] = a]
      /\ maxSupply' = [maxSupply EXCEPT ![nextId] = n]
      /\ frozen' = [frozen EXCEPT ![nextId] = FALSE]
      /\ uri' = [uri EXCEPT ![nextId] = u]
      /\ UNCHANGED <<price, tokensFor, supply>>
  BY DEF Register, priceVars, copyVars
<1>2. n \in Nat /\ a # Nobody
  BY MarketplaceAssumption DEF MarketplaceAssumption
<1>3. MarketTypes'
  BY <1>1, <1>2 DEF MarketTypes
<1>4. \A i \in Asset : i \in Nat /\ (i # nextId => (i >= nextId + 1 <=> i >= nextId))
  BY DEF Asset, MarketTypes
<1>5. ASSUME NEW i \in Asset
      PROVE  /\ creator'[i] = Nobody <=> i >= nextId'
             /\ i >= nextId' => i >= nextId
             /\ frozen'[i] => i < nextId'
  <2>1. CASE i = nextId
    BY <1>1, <1>2, <2>1 DEF MarketTypes
  <2>2. CASE i # nextId
    <3>1. creator'[i] = creator[i] /\ frozen'[i] = frozen[i]
      BY <1>1, <2>2 DEF MarketTypes
    <3>2. creator[i] = Nobody <=> i >= nextId
      BY DEF OffersListed
    <3>3. frozen[i] => i < nextId
      BY DEF FrozenIsRegistered
    <3> QED BY <1>1, <1>4, <2>2, <3>1, <3>2, <3>3 DEF MarketTypes
  <2> QED BY <2>1, <2>2
<1>6. OffersListed'
  BY <1>1, <1>5 DEF OffersListed
<1> QED BY <1>3, <1>5, <1>6 DEF FrozenIsRegistered

\* setPrice: one price and one list change, of an asset somebody registered.
LEMMA SetPriceKeeps ==
    ASSUME MarketInv, NEW a \in Party, NEW i \in Asset, NEW t \in Token, NEW p \in Nat,
           SetPrice(a, i, t, p)
    PROVE  MarketInv'
<1>1. /\ creator[i] = a /\ Listed(i, t, p)
      /\ price' = [price EXCEPT ![i][t] = p]
      /\ UNCHANGED <<nextId, creator, maxSupply, frozen, uri, supply>>
  BY DEF SetPrice, assetVars, copyVars
<1>2. /\ MarketTypes /\ FrozenIsRegistered
      /\ \A j \in Asset :
            /\ Enumerates(tokensFor[j], {x \in Token : price[j][x] > 0})
            /\ creator[j] = Nobody <=> j >= nextId
            /\ j >= nextId => supply[j] = 0 /\ tokensFor[j] = <<>>
  BY DEF MarketInv, OffersListed
<1>3. /\ tokensFor' \in [Asset -> Seq(Token)]
      /\ \A j \in Asset : j # i => tokensFor'[j] = tokensFor[j]
      /\ Enumerates(tokensFor'[i], {x \in Token : IF x = t THEN p > 0 ELSE price[i][x] > 0})
  BY <1>1, <1>2, ListFollowsPrice
<1>4. MarketTypes'
  BY <1>1, <1>2, <1>3 DEF MarketTypes
<1>5. \A x \in Token : price'[i][x] = IF x = t THEN p ELSE price[i][x]
  BY <1>1, <1>2 DEF MarketTypes
<1>6. \A j \in Asset : j # i => price'[j] = price[j]
  BY <1>1, <1>2 DEF MarketTypes
<1>7. {x \in Token : IF x = t THEN p > 0 ELSE price[i][x] > 0} = {x \in Token : price'[i][x] > 0}
  BY <1>5
<1>8. ~(i >= nextId)
  BY <1>1, <1>2, MarketplaceAssumption DEF MarketplaceAssumption
<1>9. ASSUME NEW j \in Asset
      PROVE  /\ Enumerates(tokensFor'[j], {x \in Token : price'[j][x] > 0})
             /\ j >= nextId => tokensFor'[j] = <<>>
  <2>1. CASE j = i
    BY <1>3, <1>7, <1>8, <2>1
  <2>2. CASE j # i
    BY <1>2, <1>3, <1>6, <2>2
  <2> QED BY <2>1, <2>2
<1>10. OffersListed'
  BY <1>1, <1>2, <1>9 DEF OffersListed
<1> QED BY <1>1, <1>2, <1>4, <1>10 DEF MarketInv, FrozenIsRegistered

\* What has a price is registered: it has a creator to be paid.
LEMMA PricedIsRegistered ==
    ASSUME MarketInv, NEW i \in Asset, NEW t \in Token, price[i][t] > 0
    PROVE  creator[i] \in Party /\ ~(i >= nextId)
<1>1. t \in ToSet(tokensFor[i])
  BY DEF MarketInv, OffersListed, Enumerates
<1>2. tokensFor[i] # <<>>
  BY <1>1, NoKeysListed DEF Enumerates
<1> QED BY <1>2 DEF MarketInv, MarketTypes, OffersListed

\* A purchase only adds to the supply of an asset that is registered.
LEMMA PurchaseKeeps ==
    ASSUME MarketInv, NEW b \in Party, NEW i \in Asset, NEW t \in Token, NEW n \in Nat,
           NEW allowed, Purchase(b, i, t, n, allowed)
    PROVE  MarketInv'
<1>1. /\ price[i][t] > 0
      /\ supply' = [supply EXCEPT ![i] = @ + n]
      /\ UNCHANGED <<nextId, creator, maxSupply, frozen, uri, price, tokensFor>>
  BY DEF Purchase, assetVars, priceVars
<1>2. ~(i >= nextId)
  BY <1>1, PricedIsRegistered
<1>3. MarketTypes'
  BY <1>1 DEF MarketInv, MarketTypes
<1>4. \A j \in Asset : j >= nextId => supply'[j] = supply[j]
  BY <1>1, <1>2 DEF MarketInv, MarketTypes
<1> QED BY <1>1, <1>3, <1>4 DEF MarketInv, OffersListed, FrozenIsRegistered

LEMMA MarketStep == MarketInv /\ [MarketNext]_marketVars => MarketInv'
<1> SUFFICES ASSUME MarketInv, [MarketNext]_marketVars PROVE MarketInv'
  OBVIOUS
<1>1. Amounts \subseteq Nat
  BY MarketplaceAssumption DEF MarketplaceAssumption
<1>2. ASSUME NEW a \in Party, NEW u \in Uri, NEW n \in MaxSupplies, Register(a, u, n)
      PROVE  MarketInv'
  BY <1>2, RegisterKeeps
<1>3. ASSUME NEW a \in Party, NEW t \in Token, NEW n \in Amounts, Approve(a, t, n)
      PROVE  MarketInv'
  BY <1>3, MarketRests DEF Approve, copyVars
<1>4. ASSUME NEW a \in Party, NEW i \in Asset, NEW u \in Uri, SetUri(a, i, u)
      PROVE  MarketInv'
  BY <1>4 DEF SetUri, priceVars, copyVars, MarketInv, MarketTypes, OffersListed, FrozenIsRegistered
<1>5. ASSUME NEW a \in Party, NEW i \in Asset, Freeze(a, i) PROVE MarketInv'
  <2>1. /\ frozen' = [frozen EXCEPT ![i] = TRUE]
        /\ UNCHANGED <<nextId, creator, maxSupply, uri, price, tokensFor, supply>>
    BY <1>5 DEF Freeze, priceVars, copyVars
  <2>2. MarketTypes'
    BY <2>1 DEF MarketInv, MarketTypes
  <2>3. i < nextId
    <3>1. creator[i] # Nobody
      BY <1>5, MarketplaceAssumption DEF Freeze, MarketplaceAssumption
    <3>2. ~(i >= nextId)
      BY <3>1 DEF MarketInv, OffersListed
    <3> QED BY <3>2 DEF MarketInv, MarketTypes, Asset
  <2>4. FrozenIsRegistered'
    BY <2>1, <2>3 DEF MarketInv, MarketTypes, FrozenIsRegistered
  <2> QED BY <2>1, <2>2, <2>4 DEF MarketInv, OffersListed
<1>6. ASSUME NEW a \in Party, NEW b \in Party, NEW i \in Asset, NEW n \in Amounts,
             Transfer(a, b, i, n)
      PROVE  MarketInv'
  BY <1>6, MarketRests DEF Transfer
<1>7. ASSUME NEW a \in Party, NEW i \in Asset, NEW t \in Token, NEW n \in Amounts,
             SetPrice(a, i, t, n)
      PROVE  MarketInv'
  BY <1>1, <1>7, SetPriceKeeps
<1>8. ASSUME NEW a \in Party, NEW i \in Asset, NEW t \in Token, NEW n \in Amounts,
             Buy(a, i, t, n) \/ BuyWithPermit(a, i, t, n)
      PROVE  MarketInv'
  BY <1>1, <1>8, PurchaseKeeps DEF Buy, BuyWithPermit
<1>9. CASE UNCHANGED marketVars
  BY <1>9, MarketRests DEF marketVars, copyVars
<1> QED BY <1>2, <1>3, <1>4, <1>5, <1>6, <1>7, <1>8, <1>9 DEF MarketNext

LEMMA MarketHolds == MarketSpec => []MarketInv
BY MarketInvInit, MarketStep, PTL DEF MarketSpec

(***************************************************************************)
(* tokensFor lists the tokens an asset can be bought with, each once; an id *)
(* nobody registered has no owner, no offers and no copies.                *)
(***************************************************************************)
THEOREM OffersCorrect == MarketSpec => []OffersListed
BY MarketHolds, PTL DEF MarketInv

(***************************************************************************)
(* "Holders can trust it never changes" (UGC1155.freeze).                   *)
(***************************************************************************)
THEOREM FrozenStays == MarketSpec => FrozenForGood
<1> DEFINE Unchanged == \A i \in Asset : frozen[i] =>
              /\ uri'[i] = uri[i] /\ frozen'[i]
              /\ creator'[i] = creator[i] /\ maxSupply'[i] = maxSupply[i]
<1>1. MarketInv /\ [MarketNext]_marketVars => [Unchanged]_marketVars
  <2> SUFFICES ASSUME MarketInv, MarketNext, NEW i \in Asset, frozen[i]
               PROVE  /\ uri'[i] = uri[i] /\ frozen'[i]
                      /\ creator'[i] = creator[i] /\ maxSupply'[i] = maxSupply[i]
    OBVIOUS
  <2>1. i # nextId
    BY DEF MarketInv, FrozenIsRegistered, MarketTypes, Asset
  <2>2. ASSUME NEW a \in Party, NEW u \in Uri, NEW n \in MaxSupplies, Register(a, u, n)
        PROVE  /\ uri'[i] = uri[i] /\ frozen'[i]
               /\ creator'[i] = creator[i] /\ maxSupply'[i] = maxSupply[i]
    BY <2>1, <2>2 DEF Register, MarketInv, MarketTypes
  <2>3. ASSUME NEW a \in Party, NEW j \in Asset, NEW u \in Uri, SetUri(a, j, u)
        PROVE  /\ uri'[i] = uri[i] /\ frozen'[i]
               /\ creator'[i] = creator[i] /\ maxSupply'[i] = maxSupply[i]
    BY <2>3 DEF SetUri, MarketInv, MarketTypes
  <2>4. ASSUME NEW a \in Party, NEW j \in Asset, Freeze(a, j)
        PROVE  /\ uri'[i] = uri[i] /\ frozen'[i]
               /\ creator'[i] = creator[i] /\ maxSupply'[i] = maxSupply[i]
    BY <2>4 DEF Freeze, MarketInv, MarketTypes
  <2>5. ASSUME UNCHANGED assetVars
        PROVE  /\ uri'[i] = uri[i] /\ frozen'[i]
               /\ creator'[i] = creator[i] /\ maxSupply'[i] = maxSupply[i]
    BY <2>5 DEF assetVars
  <2>6. ASSUME NEW a \in Party, NEW t \in Token, NEW n \in Amounts, Approve(a, t, n)
        PROVE  UNCHANGED assetVars
    BY <2>6 DEF Approve
  <2>7. ASSUME NEW a \in Party, NEW b \in Party, NEW j \in Asset, NEW n \in Amounts,
               Transfer(a, b, j, n)
        PROVE  UNCHANGED assetVars
    BY <2>7 DEF Transfer
  <2>8. ASSUME NEW a \in Party, NEW j \in Asset, NEW t \in Token, NEW n \in Amounts,
               SetPrice(a, j, t, n) \/ Buy(a, j, t, n) \/ BuyWithPermit(a, j, t, n)
        PROVE  UNCHANGED assetVars
    BY <2>8 DEF SetPrice, Buy, BuyWithPermit, Purchase
  <2> QED BY <2>2, <2>3, <2>4, <2>5, <2>6, <2>7, <2>8 DEF MarketNext
<1> QED BY <1>1, MarketHolds, PTL DEF MarketSpec, FrozenForGood

-----------------------------------------------------------------------------
(***************************************************************************)
(* The fee is a part of the price.  Multiplication and division are used    *)
(* nowhere else.                                                           *)
(***************************************************************************)
LEMMA ProductGrows ==
    ASSUME NEW x \in Nat, NEW y \in Nat, NEW z \in Nat, y <= z
    PROVE  x * y \in Nat /\ x * y <= x * z
OBVIOUS

LEMMA QuotientIsBounded ==
    ASSUME NEW x \in Nat, NEW y \in Nat \ {0}, NEW z \in Nat, z <= x * y
    PROVE  z \div y \in Nat /\ z \div y <= x
<1> DEFINE q == z \div y
<1>1. q \in Nat /\ y * q <= z
  OBVIOUS
<1> HIDE DEF q
<1>2. ASSUME x + 1 <= q PROVE FALSE
  <2>1. y * (x + 1) <= y * q
    BY <1>1, <1>2, ProductGrows
  <2>2. y * (x + 1) = x * y + y
    OBVIOUS
  <2>3. x * y \in Nat
    OBVIOUS
  <2> QED BY <1>1, <2>1, <2>2, <2>3
<1> QED BY <1>1, <1>2 DEF q

LEMMA FeeIsPart == ASSUME NEW total \in Nat PROVE Fee(total) \in Nat /\ Fee(total) <= total
<1>1. FeeBps \in Nat /\ BasisPoints \in Nat \ {0} /\ FeeBps <= BasisPoints
  BY MarketplaceAssumption DEF MarketplaceAssumption
<1>2. total * FeeBps \in Nat /\ total * FeeBps <= total * BasisPoints
  BY <1>1, ProductGrows
<1> QED BY <1>1, <1>2, QuotientIsBounded DEF Fee

\* safeTransferFrom, account by account, the two being the same one or not.
LEMMA MovedAt ==
    ASSUME NEW purse \in [Party -> Nat], NEW from \in Party, NEW to \in Party,
           NEW n \in Nat, CanMove(purse, from, n)
    PROVE  /\ Moved(purse, from, to, n) \in [Party -> Nat]
           /\ \A a \in Party :
                 Moved(purse, from, to, n)[a] =
                     (purse[a] - (IF a = from THEN n ELSE 0)) + (IF a = to THEN n ELSE 0)
<1> DEFINE out == [purse EXCEPT ![from] = @ - n]
           in == [out EXCEPT ![to] = @ + n]
<1>1. Moved(purse, from, to, n) = in
  BY DEF Moved
<1>2. \A a \in Party : out[a] = purse[a] - (IF a = from THEN n ELSE 0) /\ out[a] \in Nat
  BY DEF CanMove
<1>3. out \in [Party -> Nat]
  BY <1>2
<1> HIDE DEF out
<1>4. in \in [Party -> Nat]
      /\ \A a \in Party : in[a] = out[a] + (IF a = to THEN n ELSE 0)
  BY <1>3
<1> QED BY <1>1, <1>2, <1>4

(***************************************************************************)
(* The two transfers of _buy, one after the other, come to what Sales says   *)
(* of each account at once, whichever of buyer, creator and fee address are *)
(* the same; and the buyer can pay the whole price.                        *)
(***************************************************************************)
LEMMA PaidIsSettled ==
    ASSUME NEW purse \in [Party -> Nat], NEW b \in Party, NEW i \in Asset,
           creator[i] \in Party, NEW total \in Nat, CanPay(purse, b, total)
    PROVE  /\ Paid(purse, b, i, total) \in [Party -> Nat]
           /\ \A a \in Party :
                 Paid(purse, b, i, total)[a] = S!Settled(purse[a], a, b, creator[i], total)
<1> DEFINE fee == Fee(total)
           mid == AfterFee(purse, b, total)
<1>1. fee \in Nat /\ fee <= total /\ FeeRecipient \in Party
  BY FeeIsPart, MarketplaceAssumption DEF MarketplaceAssumption
<1>2. CanMove(mid, b, total - fee)
  BY DEF CanPay
<1>3. /\ mid \in [Party -> Nat]
      /\ \A a \in Party :
            mid[a] = (purse[a] - (IF a = b THEN fee ELSE 0)) + (IF a = FeeRecipient THEN fee ELSE 0)
  <2>1. CASE fee > 0
    <3>1. CanMove(purse, b, fee) /\ mid = Moved(purse, b, FeeRecipient, fee)
      BY <2>1 DEF CanPay, AfterFee
    <3> HIDE DEF fee, mid
    <3> QED BY <1>1, <3>1, MovedAt
  <2>2. CASE ~(fee > 0)
    <3>1. mid = purse /\ fee = 0
      BY <1>1, <2>2 DEF AfterFee
    <3> HIDE DEF fee, mid
    <3> QED BY <3>1
  <2> QED BY <2>1, <2>2
<1>4. total - fee \in Nat
  <2> HIDE DEF fee
  <2> QED BY <1>1
<1>5. Paid(purse, b, i, total) = Moved(mid, b, creator[i], total - fee)
  BY DEF Paid
<1>6. \A a \in Party : S!Settled(purse[a], a, b, creator[i], total) =
          (purse[a] + (IF a = creator[i] THEN total - fee ELSE 0)
                    + (IF a = FeeRecipient THEN fee ELSE 0))
                    - (IF a = b THEN total ELSE 0)
  BY DEF S!Settled, S!Fee, Fee
<1> HIDE DEF fee, mid
<1>7. /\ Paid(purse, b, i, total) \in [Party -> Nat]
      /\ \A a \in Party :
            Paid(purse, b, i, total)[a] =
                (mid[a] - (IF a = b THEN total - fee ELSE 0))
                        + (IF a = creator[i] THEN total - fee ELSE 0)
  BY <1>2, <1>3, <1>4, <1>5, MovedAt
<1> QED BY <1>1, <1>3, <1>4, <1>6, <1>7

-----------------------------------------------------------------------------
(***************************************************************************)
(* What a purchase does to the money of its token, and to nothing else.     *)
(***************************************************************************)
LEMMA PurchaseSettles ==
    ASSUME MarketInv, MoneyType, NEW b \in Party, NEW i \in Asset, NEW t \in Token,
           NEW n \in Nat, NEW allowed, Purchase(b, i, t, n, allowed)
    PROVE  LET total == price[i][t] * n
           IN  /\ MoneyType'
               /\ S!Settled(money[t][b], b, b, creator[i], total) >= 0
               /\ money' = [money EXCEPT ![t] =
                     [a \in Party |-> S!Settled(money[t][a], a, b, creator[i], total)]]
<1> DEFINE total == price[i][t] * n
           paid == Paid(money[t], b, i, total)
           settled == [a \in Party |-> S!Settled(money[t][a], a, b, creator[i], total)]
<1>1. /\ price[i][t] > 0 /\ CanPay(money[t], b, total)
      /\ money' = [money EXCEPT ![t] = paid]
  BY DEF Purchase
<1>2. total \in Nat
  <2>1. price[i][t] \in Nat
    BY DEF MarketInv, MarketTypes
  <2> QED BY <2>1, ProductGrows
<1>3. creator[i] \in Party /\ money[t] \in [Party -> Nat]
  BY <1>1, PricedIsRegistered DEF MoneyType
<1> HIDE DEF total
<1>4. paid \in [Party -> Nat] /\ \A a \in Party : paid[a] = settled[a]
  BY <1>1, <1>2, <1>3, PaidIsSettled
<1>5. paid = settled
  BY <1>4
<1>6. settled[b] >= 0
  <2>1. paid[b] \in Nat
    BY <1>4
  <2> QED BY <1>5, <2>1
<1>7. MoneyType'
  BY <1>1, <1>4 DEF MoneyType
<1> QED BY <1>1, <1>5, <1>6, <1>7 DEF total

\* A purchase is a sale.
LEMMA PurchaseIsSale ==
    ASSUME MarketInv, MoneyType, NEW b \in Party, NEW i \in Asset, NEW t \in Token,
           NEW n \in Nat, NEW allowed, Purchase(b, i, t, n, allowed)
    PROVE  S!Sell(b, i, t, n) /\ MoneyType'
<1> DEFINE total == price[i][t] * n
           settled == [a \in Party |-> S!Settled(money[t][a], a, b, creator[i], total)]
<1>1. /\ n > 0 /\ price[i][t] > 0
      /\ maxSupply[i] # 0 => supply[i] + n <= maxSupply[i]
      /\ supply' = [supply EXCEPT ![i] = @ + n]
      /\ copies' = [copies EXCEPT ![b][i] = @ + n]
      /\ UNCHANGED <<creator, maxSupply, price>>
  BY DEF Purchase, CanMint, assetVars, priceVars
<1>2. /\ MoneyType'
      /\ S!Settled(money[t][b], b, b, creator[i], total) >= 0
      /\ money' = [money EXCEPT ![t] = settled]
  BY PurchaseSettles
<1> QED BY <1>1, <1>2 DEF S!Sell

LEMMA SalesInitially == MarketInit => S!SalesInit
BY MarketplaceAssumption DEF MarketplaceAssumption, MarketInit, S!SalesInit

(***************************************************************************)
(* Each call is a step of Sales, or leaves what Sales speaks of alone:      *)
(* metadata, freezes, lists and allowances are not its business.           *)
(***************************************************************************)
LEMMA SalesStep ==
    MarketInv /\ MoneyType /\ [MarketNext]_marketVars => [S!Step]_(S!salesVars) /\ MoneyType'
<1> SUFFICES ASSUME MarketInv, MoneyType, [MarketNext]_marketVars
             PROVE  (S!Step \/ UNCHANGED S!salesVars) /\ MoneyType'
  OBVIOUS
<1>1. Amounts \subseteq Nat
  BY MarketplaceAssumption DEF MarketplaceAssumption
<1>2. ASSUME UNCHANGED <<creator, maxSupply, price, supply, copies, money>>
      PROVE  UNCHANGED S!salesVars /\ MoneyType'
  BY <1>2 DEF S!salesVars, MoneyType
<1>3. ASSUME NEW a \in Party, NEW u \in Uri, NEW n \in MaxSupplies, Register(a, u, n)
      PROVE  S!Step /\ MoneyType'
  <2>1. nextId \in Asset /\ creator[nextId] = Nobody
    <3>1. nextId \in Asset /\ nextId >= nextId
      BY <1>3 DEF Register, MarketInv, MarketTypes
    <3> QED BY <3>1 DEF MarketInv, OffersListed
  <2>2. S!Publish(a, nextId, n)
    BY <1>3, <2>1 DEF S!Publish, Register, priceVars, copyVars, moneyVars
  <2>3. S!Step
    BY <2>1, <2>2 DEF S!Step
  <2> QED BY <1>3, <2>3 DEF Register, moneyVars, MoneyType
<1>4. ASSUME NEW a \in Party, NEW t \in Token, NEW n \in Amounts, Approve(a, t, n)
      PROVE  UNCHANGED S!salesVars /\ MoneyType'
  BY <1>2, <1>4 DEF Approve, assetVars, priceVars, copyVars
<1>5. ASSUME NEW a \in Party, NEW i \in Asset, NEW u \in Uri, SetUri(a, i, u)
      PROVE  UNCHANGED S!salesVars /\ MoneyType'
  BY <1>2, <1>5 DEF SetUri, priceVars, copyVars, moneyVars
<1>6. ASSUME NEW a \in Party, NEW i \in Asset, Freeze(a, i)
      PROVE  UNCHANGED S!salesVars /\ MoneyType'
  BY <1>2, <1>6 DEF Freeze, priceVars, copyVars, moneyVars
<1>7. ASSUME NEW a \in Party, NEW b \in Party, NEW i \in Asset, NEW n \in Amounts,
             Transfer(a, b, i, n)
      PROVE  S!Step /\ MoneyType'
  <2>1. S!Trade(a, b, i, n)
    BY <1>7 DEF S!Trade, Transfer, assetVars, priceVars, moneyVars
  <2>2. S!Step
    BY <2>1 DEF S!Step
  <2> QED BY <1>7, <2>2 DEF Transfer, moneyVars, MoneyType
<1>8. ASSUME NEW a \in Party, NEW i \in Asset, NEW t \in Token, NEW n \in Amounts,
             SetPrice(a, i, t, n)
      PROVE  S!Step /\ MoneyType'
  <2>1. creator[i] # Nobody
    BY <1>8, MarketplaceAssumption DEF SetPrice, MarketplaceAssumption
  <2>2. S!Offer(i, t, n)
    BY <1>8, <2>1 DEF S!Offer, SetPrice, assetVars, copyVars, moneyVars
  <2>3. S!Step
    BY <2>2 DEF S!Step
  <2> QED BY <1>8, <2>3 DEF SetPrice, moneyVars, MoneyType
<1>9. ASSUME NEW b \in Party, NEW i \in Asset, NEW t \in Token, NEW n \in Amounts,
             Buy(b, i, t, n) \/ BuyWithPermit(b, i, t, n)
      PROVE  S!Step /\ MoneyType'
  <2>1. \E allowed \in {allowance[t][b], price[i][t] * n} : Purchase(b, i, t, n, allowed)
    BY <1>9 DEF Buy, BuyWithPermit
  <2>2. S!Sell(b, i, t, n) /\ MoneyType'
    BY <1>1, <2>1, PurchaseIsSale
  <2> QED BY <2>2 DEF S!Step
<1>10. CASE UNCHANGED marketVars
  BY <1>2, <1>10 DEF marketVars, assetVars, priceVars, copyVars, moneyVars
<1> QED BY <1>3, <1>4, <1>5, <1>6, <1>7, <1>8, <1>9, <1>10 DEF MarketNext

(***************************************************************************)
(* The contracts implement Sales (Marketplace.buy, UGC1155.mint): a buyer   *)
(* pays exactly the price, the fee and the rest arrive, nobody else's money *)
(* moves, whoever the parties are.                                         *)
(***************************************************************************)
THEOREM SalesRefinement == MarketSpec => ImplementsSales
<1>1. MarketSpec => [](MarketInv /\ MoneyType)
  BY MarketInvInit, MarketStep, SalesStep, PTL DEF MarketSpec
<1> QED BY <1>1, SalesInitially, SalesStep, PTL DEF MarketSpec, ImplementsSales, S!SalesSpec

-----------------------------------------------------------------------------
(***************************************************************************)
(* The inductive invariant: what the claims, the catches and the token are, *)
(* and that the claims are earned.  The types matter: a claim is worked out *)
(* from the one before it and from who the discoverer is.                  *)
(***************************************************************************)
ClaimTypes ==
    /\ caught \in [Angler -> [Species -> Nat]]
    /\ canClaimDiscovery \in [Angler -> BOOLEAN]
    /\ discoverer \in Angler \cup {NoAngler}
    /\ owner \in Angler \cup {NoAngler}

ClaimInv == ClaimTypes /\ ClaimsAreEarned

LEMMA Discoverable == EVERLIVING \in Species
BY FishingAssumption DEF FishingAssumption, EVERLIVING, Species

LEMMA ClaimInit == FishingInit => ClaimInv
BY FishingAssumption, Discoverable
   DEF FishingAssumption, FishingInit, ClaimInv, ClaimTypes, ClaimsAreEarned, discovered

(***************************************************************************)
(* A catch: the count of one species of one angler grows, and the claim     *)
(* with it if it is that species and nobody has the discovery yet.         *)
(***************************************************************************)
LEMMA CatchEarns ==
    ASSUME ClaimInv, NEW a \in Angler, NEW s \in Species, Catch(a, s)
    PROVE  ClaimInv'
<1> USE DEF ClaimInv, ClaimTypes
<1>1. /\ caught' = [caught EXCEPT ![a][s] = @ + 1]
      /\ canClaimDiscovery' = [canClaimDiscovery EXCEPT ![a] = @ \/ (s = EVERLIVING /\ ~discovered)]
      /\ UNCHANGED discoveryVars
  BY DEF Catch, Counted
<1>2. UNCHANGED <<discoverer, owner>> /\ discovered' = discovered
  BY <1>1 DEF discoveryVars, discovered
<1>3. ClaimTypes'
  BY <1>1, <1>2
<1>4. \A b \in Angler :
        /\ caught'[b][EVERLIVING] =
              IF b = a /\ s = EVERLIVING THEN caught[b][EVERLIVING] + 1 ELSE caught[b][EVERLIVING]
        /\ canClaimDiscovery'[b] =
              (canClaimDiscovery[b] \/ (b = a /\ s = EVERLIVING /\ ~discovered))
  BY <1>1, Discoverable
<1>5. \A b \in Angler : caught[b][EVERLIVING] \in Nat
  BY Discoverable
<1>6. ASSUME ~discovered', NEW b \in Angler
      PROVE  canClaimDiscovery'[b] <=> caught'[b][EVERLIVING] > 0
  <2>1. canClaimDiscovery[b] <=> caught[b][EVERLIVING] > 0
    BY <1>2, <1>6 DEF ClaimsAreEarned
  <2>2. CASE b = a /\ s = EVERLIVING
    <3>1. caught'[b][EVERLIVING] = caught[b][EVERLIVING] + 1
      BY <1>4, <2>2
    <3>2. canClaimDiscovery'[b]
      BY <1>2, <1>4, <1>6, <2>2
    <3>3. caught'[b][EVERLIVING] > 0
      BY <1>5, <3>1
    <3> QED BY <3>2, <3>3
  <2>3. CASE ~(b = a /\ s = EVERLIVING)
    BY <1>4, <2>1, <2>3
  <2> QED BY <2>2, <2>3
<1>7. discovered' => caught'[discoverer'][EVERLIVING] > 0
  <2> SUFFICES ASSUME discovered PROVE caught'[discoverer][EVERLIVING] > 0
    BY <1>2
  <2>1. discoverer \in Angler /\ caught[discoverer][EVERLIVING] > 0
    BY DEF ClaimsAreEarned, discovered
  <2> QED BY <1>4, <1>5, <2>1
<1>8. ASSUME NEW b \in Angler, canClaimDiscovery'[b]
      PROVE  b # discoverer' /\ caught'[b][EVERLIVING] > 0
  <2>1. CASE canClaimDiscovery[b]
    <3>1. b # discoverer /\ caught[b][EVERLIVING] > 0
      BY <2>1 DEF ClaimsAreEarned
    <3> QED BY <1>2, <1>4, <1>5, <3>1
  <2>2. CASE ~canClaimDiscovery[b]
    <3>1. b = a /\ s = EVERLIVING /\ ~discovered
      BY <1>4, <1>8, <2>2
    <3>2. b # discoverer
      BY <3>1, FishingAssumption DEF discovered, FishingAssumption
    <3> QED BY <1>2, <1>4, <1>5, <3>1, <3>2
  <2> QED BY <2>1, <2>2
<1>9. discovered' <=> owner' # NoAngler
  BY <1>2 DEF ClaimsAreEarned
<1> QED BY <1>3, <1>6, <1>7, <1>8, <1>9 DEF ClaimsAreEarned

(***************************************************************************)
(* The claim itself: it is worth something only before the discovery, when  *)
(* those who may claim are those who have the fish.                        *)
(***************************************************************************)
LEMMA ClaimIsLast ==
    ASSUME ClaimInv, NEW a \in Angler, ClaimDiscovery(a)
    PROVE  ClaimInv'
<1>1. /\ ~discovered /\ canClaimDiscovery[a]
      /\ canClaimDiscovery' = [canClaimDiscovery EXCEPT ![a] = FALSE]
      /\ discoverer' = a /\ owner' = a /\ caught' = caught
  BY DEF ClaimDiscovery, CanClaim, catchVars
<1>2. a # NoAngler
  BY FishingAssumption DEF FishingAssumption
<1>3. \A b \in Angler : canClaimDiscovery'[b] => b # a /\ canClaimDiscovery[b]
  BY <1>1 DEF ClaimInv, ClaimTypes
<1>4. \A b \in Angler : canClaimDiscovery[b] => caught[b][EVERLIVING] > 0
  BY DEF ClaimInv, ClaimsAreEarned
<1> QED BY <1>1, <1>2, <1>3, <1>4 DEF ClaimInv, ClaimTypes, ClaimsAreEarned, discovered

LEMMA ClaimStep == ClaimInv /\ [FishingNext]_fishingVars => ClaimInv'
<1> SUFFICES ASSUME ClaimInv, [FishingNext]_fishingVars PROVE ClaimInv'
  OBVIOUS
<1>1. CASE UNCHANGED <<catchVars, canClaimDiscovery, discoveryVars>>
  BY <1>1 DEF ClaimInv, ClaimTypes, ClaimsAreEarned, discovered, catchVars, discoveryVars
<1>2. CASE Mine
  BY <1>1, <1>2 DEF Mine
<1>3. ASSUME NEW a \in Angler, NEW extra \in 0..BITE_EXTRA, Cast(a, extra) PROVE ClaimInv'
  BY <1>1, <1>3 DEF Cast
<1>4. ASSUME NEW a \in Angler, GetsAway(a) PROVE ClaimInv'
  BY <1>1, <1>4 DEF GetsAway
<1>5. ASSUME NEW a \in Angler, NEW s \in Species, Catch(a, s) PROVE ClaimInv'
  BY <1>5, CatchEarns
<1>6. ASSUME NEW a \in Angler, ClaimDiscovery(a) PROVE ClaimInv'
  BY <1>6, ClaimIsLast
<1>7. ASSUME NEW a \in Angler, NEW b \in Angler, HandOn(a, b) PROVE ClaimInv'
  BY <1>7, FishingAssumption
     DEF FishingAssumption, HandOn, ClaimInv, ClaimTypes, ClaimsAreEarned, discovered, catchVars
<1>8. CASE UNCHANGED fishingVars
  BY <1>1, <1>8 DEF fishingVars
<1> QED BY <1>2, <1>3, <1>4, <1>5, <1>6, <1>7, <1>8 DEF FishingNext

LEMMA ClaimsHold == FishingSpec => []ClaimInv
BY ClaimInit, ClaimStep, PTL DEF FishingSpec

(***************************************************************************)
(* Before the discovery the claims are exactly those of the people who have *)
(* caught the fish (Fishing.reel); after it the discoverer has caught it,   *)
(* and there is one token (claimDiscovery).                                *)
(***************************************************************************)
THEOREM ClaimsEarned == FishingSpec => []ClaimsAreEarned
BY ClaimsHold, PTL DEF ClaimInv

(***************************************************************************)
(* A discovery stays: no call changes who made it or when, and no later     *)
(* catch gives anybody a claim (Fishing.reel, claimDiscovery).             *)
(***************************************************************************)
THEOREM DiscoveryStays == FishingSpec => DiscoveredOnce
<1>1. ClaimInv /\ [FishingNext]_fishingVars =>
        [discovered => UNCHANGED <<discoverer, discoveryBlock, canClaimDiscovery>>]_fishingVars
  <2> SUFFICES ASSUME ClaimInv, FishingNext, discovered
               PROVE  UNCHANGED <<discoverer, discoveryBlock, canClaimDiscovery>>
    OBVIOUS
  <2>1. ASSUME NEW a \in Angler, NEW s \in Species, Catch(a, s)
        PROVE  UNCHANGED <<discoverer, discoveryBlock, canClaimDiscovery>>
    BY <2>1 DEF Catch, discoveryVars, ClaimInv, ClaimTypes
  <2>2. ASSUME NEW a \in Angler PROVE ~ClaimDiscovery(a)
    BY DEF ClaimDiscovery, CanClaim
  <2> QED BY <2>1, <2>2 DEF FishingNext, Mine, Cast, GetsAway, HandOn, discoveryVars
<1> QED BY <1>1, ClaimsHold, PTL DEF FishingSpec, DiscoveredOnce

-----------------------------------------------------------------------------
(***************************************************************************)
(* The fish an angler has caught, summed over the species.                  *)
(***************************************************************************)
LEMMA SpeciesAreFinite == IsFiniteSet(Species)
BY FishingAssumption, FS_Interval DEF FishingAssumption, Species

LEMMA CatchesCount ==
    ASSUME caught \in [Angler -> [Species -> Nat]], NEW a \in Angler
    PROVE  /\ Catches(a) = SumFunctionOnSet(caught[a], Species)
           /\ Catches(a) \in Nat
<1>1. DOMAIN caught[a] = Species /\ \A s \in Species : caught[a][s] \in Nat
  OBVIOUS
<1>2. SumFunctionOnSet(caught[a], Species) \in Nat
  BY <1>1, SpeciesAreFinite, SumType
<1>3. Catches(a) = SumFunctionOnSet(caught[a], Species)
  BY <1>1 DEF Catches, SumFunction
<1> QED BY <1>2, <1>3

\* A fish more is one more.
LEMMA CatchIsOneMore ==
    ASSUME caught \in [Angler -> [Species -> Nat]], NEW a \in Angler, NEW s \in Species,
           caught' = [caught EXCEPT ![a][s] = @ + 1]
    PROVE  /\ caught' \in [Angler -> [Species -> Nat]]
           /\ \A b \in Angler : Catches(b)' = IF b = a THEN Catches(b) + 1 ELSE Catches(b)
<1>1. caught' \in [Angler -> [Species -> Nat]]
  OBVIOUS
<1>2. ASSUME NEW b \in Angler, b # a PROVE Catches(b)' = Catches(b)
  <2>1. caught'[b] = caught[b]
    BY <1>2
  <2> QED BY <2>1 DEF Catches
<1>3. Catches(a)' = Catches(a) + 1
  <2> DEFINE f == caught[a]
             g == caught'[a]
  <2>1. /\ f[s] \in Nat /\ g[s] = f[s] + 1 /\ g[s] \in Nat
        /\ \A r \in Species \ {s} : f[r] \in Nat /\ g[r] = f[r]
        /\ DOMAIN g = Species
    OBVIOUS
  <2>2. Catches(a) = SumFunctionOnSet(f, Species) /\ Catches(a) \in Nat
    BY CatchesCount
  <2>3. Catches(a)' = SumFunctionOnSet(g, Species)
    BY <2>1 DEF Catches, SumFunction
  <2>4. IsFiniteSet(Species) /\ \A r \in Species : g[r] \in Nat
    BY <1>1, SpeciesAreFinite
  <2>5. SumFunctionOnSet(g, Species) \in Nat
    <3> HIDE DEF g
    <3> QED BY <2>4, SumType
  <2> HIDE DEF f, g
  <2>6. SumFunctionOnSet(g, Species) + f[s] = SumFunctionOnSet(f, Species) + g[s]
    BY <2>1, <2>4, SumChanged
  <2> QED BY <2>1, <2>2, <2>3, <2>5, <2>6
<1> QED BY <1>1, <1>2, <1>3

(***************************************************************************)
(* The inductive invariant: types, and what casts and blocks allow.  A line  *)
(* that is out is of the last cast and stands for one fish that cast may     *)
(* still bring, no sooner than its bite.                                    *)
(***************************************************************************)
CastTypes ==
    /\ lines \in [Angler -> Line]
    /\ castCount \in [Angler -> Nat]
    /\ caught \in [Angler -> [Species -> Nat]]
    /\ now \in Nat /\ now >= FirstBlock

CastInv == CastTypes /\ OneCatchPerCast /\ OneCatchPerBlock

LEMMA CastInit == FishingInit => CastInv
<1> SUFFICES ASSUME FishingInit PROVE CastInv
  OBVIOUS
<1>1. CastTypes
  BY FishingAssumption DEF FishingAssumption, FishingInit, CastTypes, Line, NoLine
<1>2. ASSUME NEW a \in Angler PROVE Catches(a) = 0 /\ ~lines[a].out
  <2>1. Catches(a) = SumFunctionOnSet(caught[a], Species)
    BY <1>1, CatchesCount DEF CastTypes
  <2>2. \A s \in Species : caught[a][s] = 0
    BY DEF FishingInit
  <2>3. SumFunctionOnSet(caught[a], Species) = 0
    BY <2>2, SpeciesAreFinite, SumZero
  <2>4. ~lines[a].out
    BY DEF FishingInit, NoLine
  <2> QED BY <2>1, <2>3, <2>4
<1>3. now - FirstBlock = 0 /\ \A a \in Angler : castCount[a] = 0
  BY FishingAssumption DEF FishingAssumption, FishingInit
<1> QED BY <1>1, <1>2, <1>3 DEF CastInv, OneCatchPerCast, OneCatchPerBlock

\* What an angler's line and casts allow, for the one angler.
LEMMA CastStep == CastInv /\ [FishingNext]_fishingVars => CastInv'
<1> SUFFICES ASSUME CastInv, [FishingNext]_fishingVars PROVE CastInv'
  OBVIOUS
<1> USE DEF CastInv, CastTypes
<1>0. \A a \in Angler :
         /\ Catches(a) \in Nat /\ castCount[a] \in Nat /\ lines[a] \in Line
         /\ Catches(a) + (IF lines[a].out THEN 1 ELSE 0) <= castCount[a]
         /\ lines[a].out => lines[a].nonce = castCount[a]
         /\ Catches(a) <= now - FirstBlock
         /\ lines[a].out => lines[a].biteBlock \in Nat /\ Catches(a) < lines[a].biteBlock - FirstBlock
  <2>1. \A a \in Angler : Catches(a) \in Nat
    BY CatchesCount
  <2>2. ASSUME NEW line \in Line, line.out PROVE line.biteBlock \in Nat
    <3>1. line # NoLine
      BY <2>2 DEF NoLine
    <3>2. line \in [nonce : Nat \ {0}, biteBlock : Nat, out : {TRUE}]
      BY <3>1 DEF Line
    <3> QED BY <3>2
  <2>3. \A a \in Angler :
           /\ Catches(a) + (IF lines[a].out THEN 1 ELSE 0) <= castCount[a]
           /\ lines[a].out => lines[a].nonce = castCount[a]
    BY DEF OneCatchPerCast
  <2>4. \A a \in Angler :
           /\ Catches(a) <= now - FirstBlock
           /\ lines[a].out => Catches(a) < lines[a].biteBlock - FirstBlock
    BY DEF OneCatchPerBlock
  <2> QED BY <2>1, <2>2, <2>3, <2>4
<1>00. FirstBlock \in Nat /\ BITE_EXTRA \in Nat
  BY FishingAssumption DEF FishingAssumption
<1>1. CASE UNCHANGED <<lines, castCount, caught, now>>
  <2>1. \A a \in Angler : Catches(a)' = Catches(a)
    BY <1>1 DEF Catches
  <2> QED BY <1>1, <2>1 DEF OneCatchPerCast, OneCatchPerBlock
<1>2. CASE Mine
  <2>1. UNCHANGED <<lines, castCount, caught>> /\ now' = now + 1
    BY <1>2 DEF Mine, lineVars, catchVars
  <2>2. \A a \in Angler : Catches(a)' = Catches(a)
    BY <2>1 DEF Catches
  <2> QED BY <1>0, <1>00, <2>1, <2>2 DEF OneCatchPerCast, OneCatchPerBlock
<1>3. ASSUME NEW a \in Angler, NEW extra \in 0..BITE_EXTRA, Cast(a, extra) PROVE CastInv'
  <2> DEFINE line == [nonce |-> castCount[a] + 1, biteBlock |-> Bite(extra), out |-> TRUE]
  <2>1. /\ lines' = [lines EXCEPT ![a] = line]
        /\ castCount' = [castCount EXCEPT ![a] = @ + 1]
        /\ UNCHANGED <<caught, now>>
    BY <1>3 DEF Cast, catchVars
  <2>2. \A b \in Angler : Catches(b)' = Catches(b)
    BY <2>1 DEF Catches
  <2>3. line \in Line /\ line.biteBlock \in Nat /\ line.biteBlock > now
    <3>1. Bite(extra) \in Nat /\ Bite(extra) > now
      BY <1>00 DEF Bite
    <3>2. castCount[a] + 1 \in Nat \ {0}
      BY <1>0
    <3> QED BY <3>1, <3>2 DEF Line
  <2>4. CastTypes'
    BY <2>1, <2>3
  <2>5. OneCatchPerCast'
    <3>1. ASSUME NEW b \in Angler, b # a
          PROVE  lines'[b] = lines[b] /\ castCount'[b] = castCount[b]
      BY <2>1, <3>1
    <3>2. lines'[a] = line /\ castCount'[a] = castCount[a] + 1
      BY <2>1
    <3> QED BY <1>0, <2>2, <3>1, <3>2 DEF OneCatchPerCast
  <2>6. OneCatchPerBlock'
    <3>1. ASSUME NEW b \in Angler PROVE Catches(b) <= now' - FirstBlock
      BY <1>0, <2>1
    <3>2. ASSUME NEW b \in Angler, b # a, lines'[b].out
          PROVE  Catches(b) < lines'[b].biteBlock - FirstBlock
      BY <1>0, <2>1, <3>2
    <3>3. Catches(a) < lines'[a].biteBlock - FirstBlock
      <4>1. lines'[a] = line
        BY <2>1
      <4>2. Catches(a) \in Nat /\ Catches(a) <= now - FirstBlock
        BY <1>0
      <4> HIDE DEF line
      <4> QED BY <1>00, <2>3, <4>1, <4>2
    <3> QED BY <2>2, <3>1, <3>2, <3>3 DEF OneCatchPerBlock
  <2> QED BY <2>4, <2>5, <2>6
<1>4. ASSUME NEW a \in Angler, GetsAway(a) PROVE CastInv'
  <2>1. lines' = [lines EXCEPT ![a] = NoLine] /\ UNCHANGED <<castCount, caught, now>>
    BY <1>4 DEF GetsAway, catchVars
  <2>2. \A b \in Angler : Catches(b)' = Catches(b)
    BY <2>1 DEF Catches
  <2>3. NoLine \in Line /\ ~NoLine.out
    BY DEF Line, NoLine
  <2>4. \A b \in Angler : lines'[b] = lines[b] \/ ~lines'[b].out
    BY <2>1, <2>3
  <2>5. CastTypes'
    BY <2>1, <2>3
  <2> QED BY <1>0, <2>1, <2>2, <2>4, <2>5 DEF OneCatchPerCast, OneCatchPerBlock
<1>5. ASSUME NEW a \in Angler, NEW s \in Species, Catch(a, s) PROVE CastInv'
  <2>1. /\ lines[a].out /\ now >= lines[a].biteBlock
        /\ lines' = [lines EXCEPT ![a] = NoLine]
        /\ caught' = [caught EXCEPT ![a][s] = @ + 1]
        /\ UNCHANGED <<castCount, now>>
    BY <1>5 DEF Catch, Reelable, Landed, Counted
  <2>2. /\ caught' \in [Angler -> [Species -> Nat]]
        /\ \A b \in Angler : Catches(b)' = IF b = a THEN Catches(b) + 1 ELSE Catches(b)
    BY <2>1, CatchIsOneMore
  <2>3. NoLine \in Line /\ ~NoLine.out
    BY DEF Line, NoLine
  <2>4. /\ ~lines'[a].out
        /\ \A b \in Angler : b # a => lines'[b] = lines[b]
    BY <2>1, <2>3
  <2>5. CastTypes'
    BY <2>1, <2>2, <2>3
  <2>6. Catches(a) + 1 <= castCount[a] /\ Catches(a) + 1 <= now - FirstBlock
    <3>1. /\ Catches(a) < lines[a].biteBlock - FirstBlock
          /\ lines[a].biteBlock \in Nat /\ Catches(a) \in Nat
          /\ Catches(a) + 1 <= castCount[a]
      BY <1>0, <2>1
    <3> QED BY <1>00, <2>1, <3>1
  <2>7. OneCatchPerCast'
    BY <1>0, <2>1, <2>2, <2>4, <2>6 DEF OneCatchPerCast
  <2>8. OneCatchPerBlock'
    BY <1>0, <2>1, <2>2, <2>4, <2>6 DEF OneCatchPerBlock
  <2> QED BY <2>5, <2>7, <2>8
<1>6. ASSUME NEW a \in Angler, ClaimDiscovery(a) PROVE CastInv'
  BY <1>1, <1>6 DEF ClaimDiscovery, lineVars, catchVars
<1>7. ASSUME NEW a \in Angler, NEW b \in Angler, HandOn(a, b) PROVE CastInv'
  BY <1>1, <1>7 DEF HandOn, lineVars, catchVars
<1>8. CASE UNCHANGED fishingVars
  BY <1>1, <1>8 DEF fishingVars, lineVars, catchVars
<1> QED BY <1>2, <1>3, <1>4, <1>5, <1>6, <1>7, <1>8 DEF FishingNext

LEMMA CastsHold == FishingSpec => []CastInv
BY CastInit, CastStep, PTL DEF FishingSpec

(***************************************************************************)
(* However anglers cast over, reel late or lose what bit, the fish somebody  *)
(* has are at most the casts they made, one less while a line is out         *)
(* (Fishing.cast, reel).                                                   *)
(***************************************************************************)
THEOREM CastsRolledOnce == FishingSpec => []OneCatchPerCast
BY CastsHold, PTL DEF CastInv

(***************************************************************************)
(* And at most the blocks since the contract was deployed, however many      *)
(* transactions share a block (Fishing.cast's biteBlock, reel).             *)
(***************************************************************************)
THEOREM BlocksLimitCatches == FishingSpec => []OneCatchPerBlock
BY CastsHold, PTL DEF CastInv

-----------------------------------------------------------------------------
(***************************************************************************)
(* Publishing.  What is written, by whom ever; and a blob that has a file.   *)
(***************************************************************************)
Manifests == {<<[manifest |-> u]>> : u \in [Path -> Nat]}
Written == {DataOf[p] : p \in Path} \cup {b.data : b \in Foreign} \cup Manifests
Mimes == {MimeOf[p] : p \in Path} \cup {b.mime : b \in Foreign} \cup {ManifestMime}
Blobs == [data : Written, mime : Mimes]

Stored(id, p) == id \in DOMAIN blobs /\ blobs[id] = Blob(DataOf[p], MimeOf[p])
NamesStored(data) == IsManifest(data) => \A p \in Path : Stored(data[1].manifest[p], p)

(***************************************************************************)
(* The publication under way: files to go and then the manifest, and a path  *)
(* that is not to go has its blob.  What is on its way to the chain speaks of *)
(* blobs that are there, and what the publisher waits for, or has the receipt *)
(* of, is the next in its list.                                            *)
(***************************************************************************)
ToGo ==
    /\ todo \in Seq(Path \cup {Manifest})
    /\ \A n \in DOMAIN todo : todo[n] = Manifest <=> n = Len(todo)
    /\ todo # <<>> => \A p \in Path : p \in ToSet(todo) \/ Stored(uris[p], p)

OnItsWay ==
    /\ \E T : sent \in Seq(T)
    /\ \A tx \in ToSet(sent) : tx.data \in Written /\ tx.mime \in Mimes /\ NamesStored(tx.data)

IsNext(data, mime) == todo # <<>> /\ data = Data(Head(todo)) /\ mime = MimeFor(Head(todo))

WaitsForNext ==
    /\ waits => todo # <<>>
    /\ waits /\ sent # <<>> => IsNext(Last(sent).data, Last(sent).mime)
    /\ receipt.id # 0 => /\ waits /\ receipt.id \in DOMAIN blobs
                         /\ IsNext(blobs[receipt.id].data, blobs[receipt.id].mime)

PublishInv ==
    /\ blobs \in Seq(Blobs) /\ uris \in [Path -> Nat]
    /\ ToGo /\ OnItsWay /\ WaitsForNext /\ ManifestIsWhole

LEMMA WhatIsWritten ==
    /\ \A p \in Path : DataOf[p] \in Written /\ MimeOf[p] \in Mimes /\ ~IsManifest(DataOf[p])
    /\ \A b \in Foreign : b.data \in Written /\ b.mime \in Mimes /\ ~IsManifest(b.data)
    /\ \A u \in [Path -> Nat] : /\ <<[manifest |-> u]>> \in Written
                                /\ <<[manifest |-> u]>>[1].manifest = u
    /\ ManifestMime \in Mimes /\ Manifest \notin Path
BY PublishingAssumption DEF PublishingAssumption, Written, Mimes, Manifests

LEMMA InitPublish == PublishInit => PublishInv
<1> SUFFICES ASSUME PublishInit PROVE PublishInv
  OBVIOUS
<1> USE DEF PublishInit, StoreInit
<1>1. <<>> \in Seq(Blobs) /\ <<>> \in Seq(Path \cup {Manifest}) /\ (\A T : <<>> \in Seq(T)) /\ DOMAIN <<>> = {}
  OBVIOUS
<1>2. ToSet(<<>>) = {}
  BY EmptyList
<1>3. uris \in [Path -> Nat]
  BY DEF NoUris
<1>4. receipt.id = 0
  BY DEF NoReceipt
<1> QED BY <1>1, <1>2, <1>3, <1>4 DEF PublishInv, ToGo, OnItsWay, WaitsForNext, ManifestIsWhole

\* A blob is added to those there are.
Adds(data, mime) == data \in Written /\ mime \in Mimes /\ NamesStored(data) /\ blobs' = Append(blobs, Blob(data, mime))

LEMMA BlobAdded ==
    ASSUME PublishInv, NEW data, NEW mime, Adds(data, mime)
    PROVE  /\ blobs' \in Seq(Blobs) /\ ManifestIsWhole'
           /\ \A id \in DOMAIN blobs : id \in DOMAIN blobs' /\ blobs'[id] = blobs[id]
           /\ Len(blobs') \in DOMAIN blobs' /\ Len(blobs') # 0 /\ blobs'[Len(blobs')] = Blob(data, mime)
<1> DEFINE b == Blob(data, mime)
<1>1. b \in Blobs /\ b.data = data
  BY DEF Blob, Blobs, Adds
<1> HIDE DEF b
<1>2. blobs \in Seq(Blobs)
  BY DEF PublishInv
<1>3. /\ blobs' \in Seq(Blobs) /\ Len(blobs) \in Nat /\ Len(blobs') = Len(blobs) + 1
      /\ DOMAIN blobs = 1..Len(blobs) /\ DOMAIN blobs' = 1..(Len(blobs) + 1)
      /\ \A id \in 1..Len(blobs) : blobs'[id] = blobs[id]
      /\ blobs'[Len(blobs) + 1] = b
  <2>1. blobs' = Append(blobs, b)
    BY DEF Adds, b
  <2> QED BY <1>1, <1>2, <2>1
<1>4. ASSUME NEW n \in DOMAIN blobs', IsManifest(blobs'[n].data), NEW p \in Path
      PROVE  /\ blobs'[n].data[1].manifest[p] \in 1..(n - 1)
             /\ blobs'[blobs'[n].data[1].manifest[p]] = Blob(DataOf[p], MimeOf[p])
  <2>1. CASE n \in DOMAIN blobs
    <3>1. blobs'[n] = blobs[n]
      BY <1>3, <2>1
    <3>2. /\ blobs[n].data[1].manifest[p] \in 1..(n - 1)
          /\ blobs[blobs[n].data[1].manifest[p]] = Blob(DataOf[p], MimeOf[p])
      BY <1>4, <2>1, <3>1 DEF PublishInv, ManifestIsWhole
    <3> QED BY <1>3, <2>1, <3>1, <3>2
  <2>2. CASE n = Len(blobs) + 1
    <3>1. blobs'[n].data = data
      BY <1>1, <1>3, <2>2
    <3>2. Stored(data[1].manifest[p], p)
      BY <1>4, <3>1 DEF Adds, NamesStored
    <3>3. /\ data[1].manifest[p] \in DOMAIN blobs
          /\ blobs[data[1].manifest[p]] = Blob(DataOf[p], MimeOf[p])
      BY <3>2 DEF Stored
    <3> QED BY <1>3, <2>2, <3>1, <3>3
  <2> QED BY <1>3, <2>1, <2>2
<1>5. ManifestIsWhole'
  BY <1>4 DEF ManifestIsWhole
<1> QED BY <1>3, <1>5 DEF b

\* What is stored stays stored.
Keeps == \A id \in DOMAIN blobs : id \in DOMAIN blobs' /\ blobs'[id] = blobs[id]

LEMMA StaysStored ==
    ASSUME Keeps
    PROVE  /\ \A id, p : Stored(id, p) => Stored(id, p)'
           /\ \A data : NamesStored(data) => NamesStored(data)'
<1>1. \A id, p : Stored(id, p) => Stored(id, p)'
  BY DEF Keeps, Stored
<1>2. ASSUME NEW data, NamesStored(data) PROVE NamesStored(data)'
  BY <1>1, <1>2 DEF NamesStored
<1> QED BY <1>1, <1>2

LEMMA ToGoKept ==
    ASSUME ToGo, Keeps, UNCHANGED <<todo, uris>>
    PROVE  ToGo'
<1>1. ASSUME NEW p \in Path, Stored(uris[p], p) PROVE Stored(uris[p], p)'
  BY <1>1 DEF Keeps, Stored
<1> QED BY <1>1 DEF ToGo

LEMMA SentKept ==
    ASSUME OnItsWay, Keeps, \E T : sent' \in Seq(T), ToSet(sent') \subseteq ToSet(sent)
    PROVE  OnItsWay'
BY StaysStored DEF OnItsWay

\* The list after the first.
LEMMA TodoParts ==
    ASSUME ToGo, todo # <<>>
    PROVE  /\ Head(todo) \in Path \cup {Manifest} /\ Tail(todo) \in Seq(Path \cup {Manifest})
           /\ ToSet(todo) = {Head(todo)} \cup ToSet(Tail(todo))
           /\ Head(todo) = Manifest => Tail(todo) = <<>>
           /\ \A n \in DOMAIN Tail(todo) : Tail(todo)[n] = Manifest <=> n = Len(Tail(todo))
<1> DEFINE t == Tail(todo)
<1>1. /\ Head(todo) \in Path \cup {Manifest} /\ t \in Seq(Path \cup {Manifest})
      /\ ToSet(todo) = {Head(todo)} \cup ToSet(t)
  BY HeadAndTail DEF ToGo
<1>2. /\ Len(todo) \in Nat /\ Len(todo) > 0 /\ Len(t) = Len(todo) - 1 /\ DOMAIN todo = 1..Len(todo)
      /\ DOMAIN t = 1..Len(t) /\ \A n \in 1..Len(t) : t[n] = todo[n + 1]
      /\ Head(todo) = todo[1]
  BY DEF ToGo
<1>3. t \in Seq(Path \cup {Manifest}) /\ (Len(t) = 0 => t = <<>>)
  <2> HIDE DEF t
  <2> QED BY <1>1
<1> HIDE DEF t
<1>4. Head(todo) = Manifest => t = <<>>
  <2>1. 1 \in DOMAIN todo
    BY <1>2
  <2> QED BY <1>2, <1>3, <2>1 DEF ToGo
<1>5. \A n \in DOMAIN t : t[n] = Manifest <=> n = Len(t)
  <2> TAKE n \in DOMAIN t
  <2>1. n \in 1..Len(t) /\ n + 1 \in DOMAIN todo
    BY <1>2
  <2>2. t[n] = todo[n + 1] /\ (todo[n + 1] = Manifest <=> n + 1 = Len(todo))
    BY <1>2, <2>1 DEF ToGo
  <2> QED BY <1>2, <2>1, <2>2
<1> QED BY <1>1, <1>4, <1>5 DEF t

\* What need not be stored again is stored, with its type.
LEMMA KeptIsStored ==
    ASSUME blobs \in Seq(Blobs), NEW p \in Path, Kept(p) # 0
    PROVE  Stored(Kept(p), p)
<1> DEFINE I == {i \in 1..Len(blobs) : blobs[i].data = DataOf[p]}
<1>1. SelectInSeq(blobs, LAMBDA b : b.data = DataOf[p]) = IF I # {} THEN Min(I) ELSE 0
  BY DEF SelectInSeq
<1>2. /\ Kept(p) = BlobOf(DataOf[p]) /\ BlobOf(DataOf[p]) # 0
      /\ blobs[BlobOf(DataOf[p])].mime = MimeOf[p]
  BY DEF Kept
<1>3. I # {} /\ Kept(p) = Min(I) /\ blobs[Kept(p)].mime = MimeOf[p]
  BY <1>1, <1>2 DEF BlobOf
<1>4. I \subseteq Nat
  OBVIOUS
<1>5. Kept(p) \in I
  <2> HIDE DEF I
  <2> QED BY <1>3, <1>4, MinIs
<1>6. Kept(p) \in DOMAIN blobs /\ blobs[Kept(p)].data = DataOf[p]
  BY <1>5
<1>7. blobs[Kept(p)] \in Blobs
  BY <1>6
<1> QED BY <1>3, <1>6, <1>7 DEF Stored, Blob, Blobs

LEMMA PlanStep == PublishInv /\ Plan => PublishInv'
<1> SUFFICES ASSUME PublishInv, Plan PROVE PublishInv'
  OBVIOUS
<1> DEFINE U == {p \in Path : Kept(p) = 0}
           s == SetToSeq(U)
<1>1. /\ uris' = [p \in Path |-> Kept(p)] /\ todo' = Append(s, Manifest) /\ todo = <<>>
      /\ UNCHANGED <<waits, sent, receipt, blobs>>
  BY DEF Plan, storeVars
<1>2. blobs \in Seq(Blobs)
  BY DEF PublishInv
<1>3. \A p \in Path : Kept(p) # 0 => Stored(Kept(p), p)
  BY <1>2, KeptIsStored
<1>4. uris' \in [Path -> Nat]
  <2>1. \A p \in Path : Kept(p) \in Nat
    <3>1. \A id, p : Stored(id, p) => id \in Nat
      BY <1>2 DEF Stored
    <3> QED BY <1>3, <3>1
  <2> QED BY <1>1, <2>1
<1>5. s \in Seq(U) /\ ToSet(s) = U
  <2>1. IsFiniteSet(U)
    BY FS_Subset, PublishingAssumption DEF PublishingAssumption
  <2> HIDE DEF U
  <2> QED BY <2>1, SetToSeqEntries
<1>6. s \in Seq(Path \cup {Manifest}) /\ \A i \in 1..Len(s) : s[i] # Manifest
  <2>1. U \subseteq Path
    OBVIOUS
  <2> HIDE DEF U, s
  <2>2. s \in Seq(Path \cup {Manifest}) /\ \A i \in 1..Len(s) : s[i] \in Path
    BY <1>5, <2>1
  <2> QED BY <2>2, WhatIsWritten
<1> HIDE DEF s
<1>7. ToGo'
  <2>1. todo' \in Seq(Path \cup {Manifest}) /\ ToSet(todo') = U \cup {Manifest}
    BY <1>1, <1>5, <1>6, AppendSet
  <2>2. /\ Len(s) \in Nat /\ Len(todo') = Len(s) + 1 /\ DOMAIN todo' = 1..(Len(s) + 1)
        /\ todo'[Len(s) + 1] = Manifest /\ \A i \in 1..Len(s) : todo'[i] = s[i]
    BY <1>1, <1>6
  <2>3. ASSUME NEW n \in DOMAIN todo' PROVE todo'[n] = Manifest <=> n = Len(todo')
    BY <1>6, <2>2
  <2>4. ASSUME NEW p \in Path PROVE p \in ToSet(todo') \/ Stored(uris[p], p)'
    <3>1. CASE Kept(p) = 0
      BY <2>1, <3>1
    <3>2. CASE Kept(p) # 0
      <4>1. PICK id : id = Kept(p)
        OBVIOUS
      <4>2. uris'[p] = id /\ Stored(id, p)
        BY <1>1, <1>3, <3>2, <4>1
      <4> QED BY <1>1, <4>2 DEF Stored
    <3> QED BY <3>1, <3>2
  <2> QED BY <2>1, <2>3, <2>4 DEF ToGo
<1>8. OnItsWay'
  <2>1. Keeps
    BY <1>1 DEF Keeps
  <2> QED BY <1>1, <2>1, SentKept DEF PublishInv, OnItsWay
<1>9. WaitsForNext'
  BY <1>1 DEF PublishInv, WaitsForNext
<1>10. ManifestIsWhole'
  BY <1>1 DEF PublishInv, ManifestIsWhole
<1> QED BY <1>1, <1>2, <1>4, <1>7, <1>8, <1>9, <1>10 DEF PublishInv

LEMMA SendStep == PublishInv /\ Send => PublishInv'
<1> SUFFICES ASSUME PublishInv, Send PROVE PublishInv'
  OBVIOUS
<1>1. PICK tx : tx = NextCall(Head(todo))
  OBVIOUS
<1>2. /\ todo # <<>> /\ ~waits /\ sent' = Append(sent, tx) /\ waits' = TRUE
      /\ UNCHANGED <<todo, uris, receipt, blobs>>
  BY <1>1 DEF Send, storeVars
<1>3. PICK key \in Path \cup {Manifest} : key = Head(todo)
  BY <1>2, TodoParts DEF PublishInv
<1>4. tx.data = Data(key) /\ tx.mime = MimeFor(key)
  BY <1>1, <1>3 DEF NextCall, Call
<1>5. tx.data \in Written /\ tx.mime \in Mimes /\ NamesStored(tx.data)
  <2>1. CASE key = Manifest
    <3>1. tx.data = <<[manifest |-> uris]>> /\ tx.mime = ManifestMime
      BY <1>4, <2>1 DEF Data, MimeFor
    <3>2. tx.data \in Written /\ tx.data[1].manifest = uris
      BY <3>1, WhatIsWritten DEF PublishInv
    <3>3. ToSet(todo) = {Manifest}
      <4>1. ToSet(todo) = {Manifest} \cup ToSet(<<>>)
        BY <1>2, <1>3, <2>1, TodoParts DEF PublishInv
      <4> QED BY <4>1, EmptyList
    <3>4. \A p \in Path : Stored(uris[p], p)
      BY <1>2, <3>3, WhatIsWritten DEF PublishInv, ToGo
    <3> QED BY <3>1, <3>2, <3>4, WhatIsWritten DEF NamesStored
  <2>2. CASE key # Manifest
    BY <1>3, <1>4, <2>2, WhatIsWritten DEF Data, MimeFor, NamesStored
  <2> QED BY <2>1, <2>2
<1>6. Keeps /\ \A data : NamesStored(data) => NamesStored(data)'
  <2>1. Keeps
    BY <1>2 DEF Keeps
  <2> QED BY <2>1, StaysStored
<1>7. PICK T : sent \in Seq(T)
  BY DEF PublishInv, OnItsWay
<1>8. sent \in Seq(T \cup {tx})
  BY <1>7
<1>9. /\ sent' \in Seq(T \cup {tx}) /\ ToSet(sent') = ToSet(sent) \cup {tx}
      /\ Last(sent') = tx
  BY <1>2, <1>8, AppendSet, FrontOfPushed
<1>10. OnItsWay'
  BY <1>5, <1>6, <1>9 DEF PublishInv, OnItsWay
<1>11. ToGo'
  BY <1>2, <1>6, ToGoKept DEF PublishInv
<1>12. WaitsForNext'
  <2>1. receipt.id = 0
    BY <1>2 DEF PublishInv, WaitsForNext
  <2>2. IsNext(Last(sent).data, Last(sent).mime)'
    <3>1. Last(sent)' = tx
      BY <1>9
    <3>2. Head(todo)' = key /\ (todo # <<>>)'
      BY <1>2, <1>3
    <3>3. Data(key)' = Data(key) /\ MimeFor(key)' = MimeFor(key)
      BY <1>2 DEF Data, MimeFor
    <3> QED BY <1>4, <3>1, <3>2, <3>3 DEF IsNext
  <2> QED BY <1>2, <2>1, <2>2 DEF WaitsForNext
<1> QED BY <1>2, <1>10, <1>11, <1>12 DEF PublishInv, ManifestIsWhole
\* The last of a list without its first.
LEMMA LastOfTail ==
    ASSUME NEW U, NEW s \in Seq(U), s # <<>>
    PROVE  /\ Tail(s) # <<>> => Last(Tail(s)) = Last(s)
           /\ Len(s) = 1 => Tail(s) = <<>> /\ Last(s) = Head(s)
<1> DEFINE t == Tail(s)
<1>1. /\ Len(s) \in Nat /\ t \in Seq(U) /\ Len(t) = Len(s) - 1 /\ Len(s) > 0
      /\ \A n \in 1..Len(t) : t[n] = s[n + 1]
      /\ Head(s) = s[1]
  OBVIOUS
<1>2. t # <<>> => Len(t) \in 1..Len(t)
  <2> HIDE DEF t
  <2> QED BY <1>1
<1>3. Len(t) = 0 => t = <<>>
  <2> HIDE DEF t
  <2> QED BY <1>1
<1> HIDE DEF t
<1>4. t # <<>> => t[Len(t)] = s[Len(s)]
  BY <1>1, <1>2
<1> QED BY <1>1, <1>3, <1>4 DEF Last, t

LEMMA SentTail ==
    ASSUME PublishInv, sent # <<>>, sent' = Tail(sent), Keeps
    PROVE  /\ OnItsWay' /\ Head(sent) \in ToSet(sent)
           /\ (sent # <<>>)' => Last(sent)' = Last(sent)
           /\ Len(sent) = 1 => sent' = <<>> /\ Last(sent) = Head(sent)
<1>1. PICK T : sent \in Seq(T)
  BY DEF PublishInv, OnItsWay
<1>2. sent' \in Seq(T) /\ ToSet(sent) = {Head(sent)} \cup ToSet(sent')
  BY <1>1, HeadAndTail
<1>3. OnItsWay'
  BY <1>2, SentKept DEF PublishInv
<1>4. /\ sent' # <<>> => Last(sent') = Last(sent)
      /\ Len(sent) = 1 => sent' = <<>> /\ Last(sent) = Head(sent)
  BY <1>1, LastOfTail
<1> QED BY <1>2, <1>3, <1>4

\* The next is still the next, and the blob of a receipt is still there.
LEMMA WaitKept ==
    ASSUME PublishInv, Keeps, UNCHANGED <<todo, uris, waits, receipt>>,
           (sent # <<>>)' => sent # <<>> /\ Last(sent)' = Last(sent)
    PROVE  WaitsForNext'
<1>1. \A data, mime : IsNext(data, mime)' <=> IsNext(data, mime)
  BY DEF IsNext, Data, MimeFor
<1> QED BY <1>1 DEF PublishInv, WaitsForNext, Keeps

LEMMA RevertStep == PublishInv /\ Revert => PublishInv'
<1> SUFFICES ASSUME PublishInv, Revert PROVE PublishInv'
  OBVIOUS
<1>1. sent # <<>> /\ sent' = Tail(sent) /\ UNCHANGED <<todo, uris, waits, receipt, blobs>>
  BY DEF Revert, storeVars
<1>2. Keeps
  BY <1>1 DEF Keeps
<1>3. OnItsWay' /\ WaitsForNext'
  BY <1>1, <1>2, SentTail, WaitKept
<1>4. ToGo'
  BY <1>1, <1>2, ToGoKept DEF PublishInv
<1> QED BY <1>1, <1>3, <1>4 DEF PublishInv, ManifestIsWhole

LEMMA OthersStep == PublishInv /\ Others => PublishInv'
<1> SUFFICES ASSUME PublishInv, Others PROVE PublishInv'
  OBVIOUS
<1>1. PICK b \in Foreign : StoreAndPublish(b.data, b.mime, b.data)
  BY DEF Others
<1>2. Adds(b.data, b.mime)
  BY <1>1, WhatIsWritten DEF Adds, NamesStored, StoreAndPublish, RegisterBlob
<1>3. blobs' \in Seq(Blobs) /\ ManifestIsWhole' /\ Keeps
  BY <1>2, BlobAdded DEF Keeps
<1>4. UNCHANGED <<todo, uris, waits, sent, receipt>>
  BY DEF Others, publishVars
<1>5. ToGo'
  BY <1>3, <1>4, ToGoKept DEF PublishInv
<1>6. OnItsWay'
  BY <1>3, <1>4, SentKept DEF PublishInv, OnItsWay
<1>7. WaitsForNext'
  BY <1>3, <1>4, WaitKept
<1> QED BY <1>3, <1>4, <1>5, <1>6, <1>7 DEF PublishInv

LEMMA FailsStep == PublishInv /\ Fails => PublishInv'
<1> SUFFICES ASSUME PublishInv, Fails PROVE PublishInv'
  OBVIOUS
<1>1. /\ todo' = <<>> /\ waits' = FALSE /\ receipt'.id = 0
      /\ UNCHANGED <<uris, sent, blobs>>
  BY DEF Fails, storeVars, NoReceipt
<1>2. Keeps
  BY <1>1 DEF Keeps
<1>3. OnItsWay'
  BY <1>1, <1>2, SentKept DEF PublishInv, OnItsWay
<1>4. ToGo'
  BY <1>1 DEF ToGo
<1>5. WaitsForNext'
  BY <1>1 DEF WaitsForNext
<1> QED BY <1>1, <1>3, <1>4, <1>5 DEF PublishInv, ManifestIsWhole

LEMMA MinedStep == PublishInv /\ Mined => PublishInv'
<1> SUFFICES ASSUME PublishInv, Mined PROVE PublishInv'
  OBVIOUS
<1>1. PICK tx : tx = Head(sent)
  OBVIOUS
<1>2. /\ sent # <<>> /\ sent' = Tail(sent) /\ UNCHANGED <<todo, uris, waits>>
      /\ ~Awaited => receipt' = receipt
      /\ Awaited => receipt'.id = IF tx.do = "storeMany" THEN 0 ELSE Len(blobs')
  BY <1>1 DEF Mined
<1>3. \/ tx.do = "storeMany" /\ UNCHANGED blobs
      \/ tx.do # "storeMany" /\ blobs' = Append(blobs, Blob(tx.data, tx.mime))
  BY <1>1 DEF Mined, StoreMany, PublishBlob, StoreAndPublish, RegisterBlob
<1>4. PICK T : sent \in Seq(T)
  BY DEF PublishInv, OnItsWay
<1>5. tx \in ToSet(sent)
  BY <1>1, <1>2, <1>4, HeadAndTail
<1>6. tx.do # "storeMany" => Adds(tx.data, tx.mime)
  BY <1>3, <1>5 DEF Adds, PublishInv, OnItsWay
<1>7. blobs' \in Seq(Blobs) /\ ManifestIsWhole' /\ Keeps
  <2>1. CASE tx.do = "storeMany"
    BY <1>3, <2>1 DEF Keeps, PublishInv, ManifestIsWhole
  <2>2. CASE tx.do # "storeMany"
    BY <1>6, <2>2, BlobAdded DEF Keeps
  <2> QED BY <2>1, <2>2
<1>8. ToGo'
  BY <1>2, <1>7, ToGoKept DEF PublishInv
<1>9. OnItsWay' /\ ((sent # <<>>)' => Last(sent)' = Last(sent))
  BY <1>2, <1>7, SentTail
<1>10. WaitsForNext'
  <2>1. CASE ~Awaited
    BY <1>2, <1>7, <1>9, <2>1, WaitKept
  <2>2. CASE Awaited
    <3>1. sent' = <<>> /\ Last(sent) = tx /\ waits /\ waits' = waits
      BY <1>1, <1>2, <1>7, <2>2, SentTail DEF Awaited
    <3>2. IsNext(tx.data, tx.mime)
      BY <1>2, <3>1 DEF PublishInv, WaitsForNext
    <3>3. \A data, mime : IsNext(data, mime) => IsNext(data, mime)' /\ (todo # <<>>)'
      BY <1>2 DEF IsNext, Data, MimeFor
    <3>4. CASE tx.do = "storeMany"
      BY <1>2, <2>2, <3>1, <3>2, <3>3, <3>4 DEF WaitsForNext
    <3>5. CASE tx.do # "storeMany"
      <4>1. PICK id : id = Len(blobs')
        OBVIOUS
      <4>2. id \in DOMAIN blobs' /\ blobs'[id] = Blob(tx.data, tx.mime)
        BY <1>6, <3>5, <4>1, BlobAdded
      <4>3. blobs'[id].data = tx.data /\ blobs'[id].mime = tx.mime
        BY <4>2 DEF Blob
      <4>4. receipt'.id = id
        BY <1>2, <2>2, <3>5, <4>1
      <4>5. IsNext(blobs[receipt.id].data, blobs[receipt.id].mime)'
        <5>1. IsNext(tx.data, tx.mime)'
          BY <3>2, <3>3
        <5> QED BY <4>3, <4>4, <5>1 DEF IsNext
      <4> QED BY <1>2, <3>1, <3>2, <3>3, <4>2, <4>4, <4>5 DEF WaitsForNext
    <3> QED BY <3>4, <3>5
  <2> QED BY <2>1, <2>2
<1> QED BY <1>2, <1>7, <1>8, <1>9, <1>10 DEF PublishInv

LEMMA ConfirmedStep == PublishInv /\ Confirmed => PublishInv'
<1> SUFFICES ASSUME PublishInv, Confirmed PROVE PublishInv'
  OBVIOUS
<1>1. waits' = FALSE /\ receipt'.id = 0 /\ UNCHANGED <<sent, blobs>>
  BY DEF Confirmed, storeVars, NoReceipt
<1>2. Keeps
  BY <1>1 DEF Keeps
<1>3. OnItsWay'
  BY <1>1, <1>2, SentKept DEF PublishInv, OnItsWay
<1>4. WaitsForNext'
  BY <1>1 DEF WaitsForNext
<1>5. uris' \in [Path -> Nat] /\ ToGo'
  <2>1. CASE receipt.id = 0
    <3>1. UNCHANGED <<todo, uris>>
      BY <2>1 DEF Confirmed
    <3> QED BY <1>2, <3>1, ToGoKept DEF PublishInv
  <2>2. CASE receipt.id # 0
    <3>1. PICK key, id : key = Head(todo) /\ id = receipt.id
      OBVIOUS
    <3>2. /\ todo' = Tail(todo)
          /\ uris' = IF key = Manifest THEN uris ELSE [uris EXCEPT ![key] = id]
      BY <2>2, <3>1 DEF Confirmed
    <3>3. /\ todo # <<>> /\ id \in DOMAIN blobs
          /\ blobs[id].data = Data(key) /\ blobs[id].mime = MimeFor(key)
      BY <2>2, <3>1 DEF PublishInv, WaitsForNext, IsNext
    <3>4. blobs[id] \in Blobs /\ id \in Nat
      BY <3>3 DEF PublishInv
    <3>5. /\ key \in Path \cup {Manifest} /\ todo' \in Seq(Path \cup {Manifest})
          /\ ToSet(todo) = {key} \cup ToSet(todo')
          /\ key = Manifest => todo' = <<>>
          /\ \A n \in DOMAIN todo' : todo'[n] = Manifest <=> n = Len(todo')
      BY <3>1, <3>2, <3>3, TodoParts DEF PublishInv
    <3>6. uris' \in [Path -> Nat]
      BY <3>2, <3>4, <3>5 DEF PublishInv
    <3>7. ASSUME NEW p \in Path, key # Manifest
          PROVE  p \in ToSet(todo') \/ Stored(uris[p], p)'
      <4>1. CASE p = key
        <5>1. uris'[p] = id
          BY <3>2, <3>7, <4>1 DEF PublishInv
        <5>2. blobs[id] = Blob(DataOf[p], MimeOf[p])
          BY <3>3, <3>4, <3>7, <4>1 DEF Blobs, Blob, Data, MimeFor
        <5> QED BY <1>1, <3>3, <5>1, <5>2 DEF Stored
      <4>2. CASE p # key
        <5>1. p \in ToSet(todo') \/ Stored(uris[p], p)
          BY <3>3, <3>5, <4>2 DEF PublishInv, ToGo
        <5>2. uris'[p] = uris[p]
          BY <3>2, <4>2 DEF PublishInv
        <5> QED BY <1>1, <5>1, <5>2 DEF Stored
      <4> QED BY <4>1, <4>2
    <3>8. ToGo'
      BY <3>5, <3>7 DEF ToGo
    <3> QED BY <3>6, <3>8
  <2> QED BY <2>1, <2>2
<1> QED BY <1>1, <1>3, <1>4, <1>5 DEF PublishInv, ManifestIsWhole

LEMMA RestPublishes == PublishInv /\ UNCHANGED <<storeVars, publishVars>> => PublishInv'
BY DEF PublishInv, ToGo, OnItsWay, WaitsForNext, ManifestIsWhole, IsNext, Data, MimeFor,
       NamesStored, Stored, storeVars, publishVars

LEMMA StepPublish == PublishInv /\ [PublishNext]_<<storeVars, publishVars>> => PublishInv'
BY PlanStep, SendStep, MinedStep, RevertStep, ConfirmedStep, FailsStep, OthersStep, RestPublishes
DEF PublishNext

(***************************************************************************)
(* Whatever fails on the way, whenever a late transaction lands, and whoever *)
(* else publishes, for any place and any store: a manifest on chain names     *)
(* for every path an earlier blob of the file's bytes and type.              *)
(***************************************************************************)
THEOREM ManifestsAreWhole == PublishSpec => []ManifestIsWhole
<1>1. PublishInv => ManifestIsWhole
  BY DEF PublishInv
<1> QED BY InitPublish, StepPublish, <1>1, PTL DEF PublishSpec
=============================================================================

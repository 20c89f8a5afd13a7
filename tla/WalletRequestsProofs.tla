------------------------ MODULE WalletRequestsProofs ------------------------
(***************************************************************************)
(* Proofs about WalletRequests, for any number of requests, any span and     *)
(* any memory at least as long: that no request is handled twice, and that   *)
(* the writes of a channel go one after the other under the right nonce.     *)
(***************************************************************************)
EXTENDS WalletRequests, DataProofs

(***************************************************************************)
(* A channel, of which a requests have been asked: o is order, m the        *)
(* mirror, q what is left of the list the loop read, t the numbers it has    *)
(* ever taken and k those it remembers.                                     *)
(*                                                                         *)
(* The lists are in the order of asking.  Each is a later version of the     *)
(* next one in mirror, queue, taken: what it has besides is newer than all   *)
(* of that.  And nothing in a list was asked SPAN or more requests before    *)
(* something that was read from the same list or an earlier one.             *)
(***************************************************************************)
Less == {p \in Nat \X Nat : p[1] < p[2]}
Newer(S, B) == \A n \in S, b \in B : n \in B \/ b < n
Near(S, B) == \A n \in S, b \in B : b < n + SPAN

Numbered(a, o, m, q, t) ==
    /\ a \in Nat /\ o \in Seq(Nat) /\ m \in Seq(Nat) /\ q \in Seq(Nat)
    /\ ToSet(o) \cup ToSet(m) \cup ToSet(q) \cup t \subseteq 1..a
    /\ Ordered(o, Less) /\ Ordered(m, Less) /\ Ordered(q, Less)
    /\ Newer(ToSet(o), ToSet(m) \cup ToSet(q) \cup t)
    /\ Newer(ToSet(m), ToSet(q) \cup t)
    /\ Newer(ToSet(q), t)
    /\ Near(ToSet(o), 1..a)
    /\ Near(ToSet(m), ToSet(m) \cup ToSet(q) \cup t)
    /\ Near(ToSet(q), ToSet(q) \cup t)

\* What is remembered are the last of what was taken, KEPT of them once anything is forgotten.
Remembers(k, t) ==
    /\ k \in Seq(Nat) /\ ToSet(k) \subseteq t
    /\ Ordered(k, Less) /\ Len(k) <= KEPT
    /\ \A n \in t \ ToSet(k) : Len(k) = KEPT /\ \A h \in ToSet(k) : n < h

Kept(k, n) == LET all == Append(k, n) IN IF Len(all) > KEPT THEN Tail(all) ELSE all

LEMMA Bounds == SPAN \in Nat /\ SPAN > 0 /\ KEPT \in Nat /\ SPAN <= KEPT
BY BoundAssumption, KeptAssumption DEF BoundAssumption, KeptAssumption

LEMMA LessIs == \A x, y \in Nat : <<x, y>> \in Less <=> x < y
BY DEF Less

-----------------------------------------------------------------------------
(***************************************************************************)
(* Why KEPT numbers are enough: in a list that increases the entry at i is   *)
(* at least i more than anything less than all of it.                       *)
(***************************************************************************)
LEMMA ListsGrow ==
    ASSUME NEW k \in Seq(Nat), Ordered(k, Less), NEW n \in Nat, \A h \in ToSet(k) : n < h
    PROVE  \A i \in 1..Len(k) : n + i <= k[i]
<1> DEFINE C == {i \in Nat : i + 1 <= Len(k) => n + (i + 1) <= k[i + 1]}
<1>1. /\ Len(k) \in Nat /\ DOMAIN k = 1..Len(k) /\ \A i \in 1..Len(k) : k[i] \in Nat /\ n < k[i]
  BY DEF ToSet
<1>2. 0 \in C
  BY <1>1
<1>3. ASSUME NEW i \in Nat, i \in C PROVE i + 1 \in C
  <2> SUFFICES ASSUME i + 2 <= Len(k) PROVE n + (i + 2) <= k[i + 2]
    OBVIOUS
  <2>1. i + 1 \in DOMAIN k /\ i + 2 \in DOMAIN k /\ i + 1 < i + 2
    BY <1>1
  <2>2. <<k[i + 1], k[i + 2]>> \in Less
    BY <2>1 DEF Ordered
  <2>3. k[i + 1] < k[i + 2]
    BY <1>1, <2>1, <2>2, LessIs
  <2>4. n + (i + 1) <= k[i + 1]
    BY <1>1, <1>3
  <2> QED BY <1>1, <2>1, <2>3, <2>4
<1>4. Nat \subseteq C
  <2> HIDE DEF C
  <2> QED BY <1>2, <1>3, SetInduction
<1>5. ASSUME NEW i \in 1..Len(k) PROVE n + i <= k[i]
  <2>1. i - 1 \in Nat /\ (i - 1) + 1 = i
    BY <1>1
  <2>2. i - 1 \in C
    BY <1>4, <2>1
  <2> QED BY <1>1, <2>1, <2>2
<1> QED BY <1>5

\* So what was taken and is still to be read is remembered.
LEMMA TakenIsRemembered ==
    ASSUME NEW a, NEW o, NEW m, NEW q, NEW t, NEW k, Numbered(a, o, m, q, t), Remembers(k, t),
           NEW n \in ToSet(q), n \in t
    PROVE  n \in ToSet(k)
<1> SUFFICES ASSUME n \notin ToSet(k) PROVE FALSE
  OBVIOUS
<1>1. n \in Nat /\ t \subseteq Nat
  BY DEF Numbered
<1>2. k \in Seq(Nat) /\ Ordered(k, Less) /\ Len(k) = KEPT /\ \A h \in ToSet(k) : n < h /\ h \in t
  BY DEF Remembers
<1>3. KEPT \in 1..Len(k) /\ KEPT \in DOMAIN k
  BY <1>2, Bounds
<1>4. n + KEPT <= k[KEPT]
  BY <1>1, <1>2, <1>3, ListsGrow
<1>5. k[KEPT] \in t
  BY <1>2, <1>3 DEF ToSet
<1>6. k[KEPT] < n + SPAN
  BY <1>5 DEF Numbered, Near
<1> DEFINE last == k[KEPT]
<1>7. last \in Nat /\ n + KEPT <= last /\ last < n + SPAN
  BY <1>1, <1>4, <1>5, <1>6
<1> HIDE DEF last
<1> QED BY <1>1, <1>7, Bounds

-----------------------------------------------------------------------------
(***************************************************************************)
(* What each action does to its channel.                                    *)
(***************************************************************************)
LEMMA Asking ==
    ASSUME NEW a, NEW o, NEW m, NEW q, NEW t, Numbered(a, o, m, q, t),
           o # <<>> => a + 1 < Head(o) + SPAN
    PROVE  Numbered(a + 1, Append(o, a + 1), m, q, t)
<1> DEFINE new == Append(o, a + 1)
<1>1. a \in Nat /\ a + 1 \in Nat /\ o \in Seq(Nat) /\ ToSet(o) \subseteq 1..a /\ Ordered(o, Less)
  BY DEF Numbered
<1>2. new \in Seq(Nat) /\ ToSet(new) = ToSet(o) \cup {a + 1}
  BY <1>1, AppendSet
<1>3. Ordered(new, Less)
  <2>1. \A x \in ToSet(o) : <<x, a + 1>> \in Less
    BY <1>1, LessIs
  <2> QED BY <1>1, <2>1, AppendOrdered
<1>4. Near(ToSet(new), 1..(a + 1))
  <2>1. ASSUME NEW n \in ToSet(o) PROVE a + 1 < n + SPAN
    <3>1. o # <<>>
      BY EmptyList
    <3>2. Head(o) \in Nat /\ ToSet(o) = {Head(o)} \cup ToSet(Tail(o))
          /\ \A x \in ToSet(Tail(o)) : <<Head(o), x>> \in Less
      BY <1>1, <3>1, HeadAndTail, TailOrdered
    <3>3. n \in Nat /\ a + 1 < Head(o) + SPAN
      BY <1>1, <3>1
    <3>4. n = Head(o) \/ <<Head(o), n>> \in Less
      BY <3>2
    <3>5. n = Head(o) \/ Head(o) < n
      BY <3>2, <3>3, <3>4, LessIs
    <3> QED BY <1>1, <3>2, <3>3, <3>5, Bounds
  <2>2. a + 1 < (a + 1) + SPAN
    BY <1>1, Bounds
  <2>3. \A n \in ToSet(new) : n \in Nat /\ a + 1 < n + SPAN
    BY <1>1, <1>2, <2>1, <2>2
  <2> QED BY <1>1, <2>3, Bounds DEF Near
<1>5. Newer(ToSet(new), ToSet(m) \cup ToSet(q) \cup t)
  <2>1. \A b \in ToSet(m) \cup ToSet(q) \cup t : b < a + 1
    BY <1>1 DEF Numbered
  <2> QED BY <1>2, <2>1 DEF Numbered, Newer
<1>6. ToSet(new) \cup ToSet(m) \cup ToSet(q) \cup t \subseteq 1..(a + 1)
  <2>1. 1..a \subseteq 1..(a + 1) /\ a + 1 \in 1..(a + 1)
    BY <1>1
  <2> QED BY <1>2, <2>1 DEF Numbered
<1> HIDE DEF new
<1> QED BY <1>1, <1>2, <1>3, <1>4, <1>5, <1>6 DEF Numbered, new

LEMMA Settling ==
    ASSUME NEW a, NEW o, NEW m, NEW q, NEW t, Numbered(a, o, m, q, t), NEW n
    PROVE  Numbered(a, Without(o, {n}), m, q, t)
<1> DEFINE new == Without(o, {n})
<1>1. o \in Seq(Nat) /\ Ordered(o, Less)
  BY DEF Numbered
<1>2. new \in Seq(Nat) /\ ToSet(new) = ToSet(o) \ {n}
  BY <1>1, WithoutSet
<1>3. Ordered(new, Less)
  BY <1>1, WithoutOrdered
<1>4. ToSet(new) \subseteq ToSet(o)
  BY <1>2
<1> HIDE DEF new
<1>5. Newer(ToSet(new), ToSet(m) \cup ToSet(q) \cup t) /\ Near(ToSet(new), 1..a)
  BY <1>4 DEF Numbered, Newer, Near
<1>6. ToSet(new) \cup ToSet(m) \cup ToSet(q) \cup t \subseteq 1..a
  BY <1>4 DEF Numbered
<1> QED BY <1>2, <1>3, <1>5, <1>6 DEF Numbered, new

LEMMA Mirroring ==
    ASSUME NEW a, NEW o, NEW m, NEW q, NEW t, Numbered(a, o, m, q, t)
    PROVE  Numbered(a, o, o, q, t)
<1>1. ToSet(o) \cup ToSet(o) \cup ToSet(q) \cup t \subseteq 1..a
  BY DEF Numbered
<1>2. Newer(ToSet(o), ToSet(q) \cup t)
  <2> SUFFICES ASSUME NEW n \in ToSet(o), NEW b \in ToSet(q) \cup t
               PROVE  n \in ToSet(q) \cup t \/ b < n
    BY DEF Newer
  <2>1. n \in ToSet(m) \cup ToSet(q) \cup t \/ b < n
    BY DEF Numbered, Newer
  <2>2. n \in ToSet(m) => n \in ToSet(q) \cup t \/ b < n
    BY DEF Numbered, Newer
  <2> QED BY <2>1, <2>2
<1>3. Newer(ToSet(o), ToSet(o) \cup ToSet(q) \cup t)
  BY DEF Newer
<1>4. Near(ToSet(o), ToSet(o) \cup ToSet(q) \cup t)
  BY DEF Numbered, Near
<1> QED BY <1>1, <1>2, <1>3, <1>4 DEF Numbered

LEMMA Reading ==
    ASSUME NEW a, NEW o, NEW m, NEW q, NEW t, Numbered(a, o, m, q, t), q = <<>>
    PROVE  Numbered(a, o, m, m, t)
<1>1. ToSet(q) = {}
  BY EmptyList
<1>2. ToSet(o) \cup ToSet(m) \cup ToSet(m) \cup t \subseteq 1..a
  BY DEF Numbered
<1>3. ToSet(m) \cup ToSet(m) \cup t = ToSet(m) \cup ToSet(q) \cup t /\ ToSet(q) \cup t = t
  BY <1>1
<1>4. Newer(ToSet(m), t)
  BY <1>3 DEF Numbered
<1>5. Newer(ToSet(m), ToSet(m) \cup t)
  BY DEF Newer
<1>6. Newer(ToSet(o), ToSet(m) \cup ToSet(m) \cup t) /\ Near(ToSet(m), ToSet(m) \cup ToSet(m) \cup t)
  BY <1>3 DEF Numbered
<1>7. Near(ToSet(m), ToSet(m) \cup t)
  BY DEF Numbered, Near
<1> QED BY <1>2, <1>4, <1>5, <1>6, <1>7 DEF Numbered

\* The head of the list read becomes one that was taken, if it was not already.
LEMMA Taking ==
    ASSUME NEW a, NEW o, NEW m, NEW q, NEW t, Numbered(a, o, m, q, t), q # <<>>
    PROVE  Numbered(a, o, m, Tail(q), t \cup {Head(q)})
<1> DEFINE n == Head(q)
           rest == ToSet(Tail(q))
<1>1. q \in Seq(Nat) /\ Ordered(q, Less)
  BY DEF Numbered
<1>2. n \in Nat /\ Tail(q) \in Seq(Nat) /\ ToSet(q) = {n} \cup rest
  BY <1>1, HeadAndTail
<1>3. Ordered(Tail(q), Less) /\ \A x \in rest : <<n, x>> \in Less
  BY <1>1, TailOrdered
<1>4. \A x \in rest : n < x
  <2>1. rest \subseteq Nat
    BY <1>2 DEF Numbered
  <2> QED BY <1>2, <1>3, <2>1, LessIs
<1>5. /\ rest \cup (t \cup {n}) = ToSet(q) \cup t
      /\ ToSet(m) \cup rest \cup (t \cup {n}) = ToSet(m) \cup ToSet(q) \cup t
      /\ ToSet(o) \cup ToSet(m) \cup rest \cup (t \cup {n}) = ToSet(o) \cup ToSet(m) \cup ToSet(q) \cup t
  BY <1>2
<1> HIDE DEF n, rest
<1>6. Newer(rest, t \cup {n})
  <2> SUFFICES ASSUME NEW x \in rest, NEW b \in t \cup {n} PROVE x \in t \cup {n} \/ b < x
    BY DEF Newer
  <2>1. CASE b = n
    BY <1>4, <2>1
  <2>2. CASE b \in t
    BY <1>2, <2>2 DEF Numbered, Newer
  <2> QED BY <2>1, <2>2
<1>7. Near(rest, rest \cup (t \cup {n}))
  BY <1>2, <1>5 DEF Numbered, Near
<1>8. /\ Newer(ToSet(o), ToSet(m) \cup rest \cup (t \cup {n})) /\ Newer(ToSet(m), rest \cup (t \cup {n}))
      /\ Near(ToSet(m), ToSet(m) \cup rest \cup (t \cup {n}))
      /\ ToSet(o) \cup ToSet(m) \cup rest \cup (t \cup {n}) \subseteq 1..a
  BY <1>5 DEF Numbered
<1> QED BY <1>2, <1>3, <1>6, <1>7, <1>8 DEF Numbered, n, rest

(***************************************************************************)
(* Noting a number greater than all taken: the oldest makes room for it.     *)
(***************************************************************************)
LEMMA Noting ==
    ASSUME NEW k, NEW t, Remembers(k, t), t \subseteq Nat, NEW n \in Nat, \A b \in t : b < n
    PROVE  Remembers(Kept(k, n), t \cup {n})
<1> DEFINE all == Append(k, n)
<1>1. k \in Seq(Nat) /\ ToSet(k) \subseteq t /\ Ordered(k, Less) /\ Len(k) <= KEPT /\ Len(k) \in Nat
  BY DEF Remembers
<1>2. /\ all \in Seq(Nat) /\ ToSet(all) = ToSet(k) \cup {n} /\ Len(all) = Len(k) + 1
      /\ all # <<>>
  BY <1>1, AppendSet
<1>3. Ordered(all, Less)
  <2>1. \A x \in ToSet(k) : <<x, n>> \in Less
    BY <1>1, LessIs
  <2> QED BY <1>1, <2>1, AppendOrdered
<1>4. \A e \in t \ ToSet(k) : Len(k) = KEPT /\ \A h \in ToSet(k) : e < h
  BY DEF Remembers
<1> HIDE DEF all
<1>5. CASE Len(all) > KEPT
  <2>1. Len(k) = KEPT
    BY <1>1, <1>2, <1>5, Bounds
  <2>2. /\ Tail(all) \in Seq(Nat) /\ Len(Tail(all)) = KEPT /\ Head(all) \in Nat
        /\ ToSet(all) = {Head(all)} \cup ToSet(Tail(all))
    BY <1>1, <1>2, <2>1, HeadAndTail, Bounds
  <2>3. Ordered(Tail(all), Less) /\ \A x \in ToSet(Tail(all)) : <<Head(all), x>> \in Less
    BY <1>2, <1>3, TailOrdered
  <2>4. \A x \in ToSet(Tail(all)) : Head(all) < x /\ x \in t \cup {n}
    BY <1>1, <1>2, <2>2, <2>3, LessIs
  <2>5. ASSUME NEW e \in (t \cup {n}) \ ToSet(Tail(all)), NEW h \in ToSet(Tail(all)) PROVE e < h
    <3>1. CASE e = Head(all)
      BY <2>4, <3>1
    <3>2. CASE e # Head(all)
      <4>1. e \notin ToSet(all)
        BY <2>2, <2>5, <3>2
      <4>2. e \in t \ ToSet(k) /\ h \in ToSet(k) \cup {n}
        BY <1>2, <2>2, <2>5, <4>1
      <4> QED BY <1>4, <4>2
    <3> QED BY <3>1, <3>2
  <2>6. Kept(k, n) = Tail(all)
    BY <1>5 DEF Kept, all
  <2>7. ToSet(Tail(all)) \subseteq t \cup {n} /\ Len(Tail(all)) <= KEPT
    BY <2>2, <2>4, Bounds
  <2> QED BY <2>2, <2>3, <2>5, <2>6, <2>7 DEF Remembers
<1>6. CASE ~(Len(all) > KEPT)
  <2>1. Kept(k, n) = all /\ Len(all) <= KEPT /\ Len(k) # KEPT
    BY <1>1, <1>2, <1>6, Bounds DEF Kept, all
  <2>2. t \ ToSet(k) = {}
    BY <1>4, <2>1
  <2>3. (t \cup {n}) \ ToSet(all) = {} /\ ToSet(all) \subseteq t \cup {n}
    BY <1>1, <1>2, <2>2
  <2> QED BY <1>2, <1>3, <2>1, <2>3 DEF Remembers
<1> QED BY <1>5, <1>6

-----------------------------------------------------------------------------
(***************************************************************************)
(* The invariant.  What is handled was taken; what signs is awaited by the   *)
(* loop of its channel, so there is one such on it; and a transaction about  *)
(* to go out has the node's nonce unless the other channel is used as well.  *)
(***************************************************************************)
WalletTypes ==
    /\ asks \in [Channel -> Seq(Kind)]
    /\ order \in [Channel -> Seq(Nat)] /\ mirror \in [Channel -> Seq(Nat)]
    /\ queue \in [Channel -> Seq(Nat)] /\ handled \in [Channel -> Seq(Nat)]
    /\ awaits \in [Channel -> Nat] /\ begun \in [Channel -> SUBSET Nat]
    /\ nonce \in Nat

Orderly(c) == /\ Numbered(Len(asks[c]), order[c], mirror[c], queue[c], begun[c])
              /\ Remembers(handled[c], begun[c])

Stage == {"call", "prompt", "count", "send", "receipt"}

InHand ==
    /\ work \subseteq [on : Channel, n : Nat, nonce : Nat, at : Stage]
    /\ \A w \in work : /\ w.n \in begun[w.on]
                       /\ w.at = "call" <=> asks[w.on][w.n] # "write"
                       /\ w.at # "call" => awaits[w.on] = w.n
    /\ \A v, w \in work : v.on = w.on /\ v.n = w.n => v = w

NextNonce == \A w \in work :
    w.at = "send" /\ (\A c \in Channel \ {w.on} : asks[c] = <<>>) => w.nonce = nonce

WalletInv == WalletTypes /\ (\A c \in Channel : Orderly(c)) /\ InHand /\ NextNonce

\* What is in hand was asked.
LEMMA InHandIsAsked ==
    ASSUME WalletInv, NEW w \in work
    PROVE  /\ w.on \in Channel /\ w.n \in Nat /\ w.nonce \in Nat /\ w.at \in Stage
           /\ w.n \in 1..Len(asks[w.on]) /\ asks[w.on] \in Seq(Kind) /\ asks[w.on] # <<>>
<1>1. w.on \in Channel /\ w.n \in Nat /\ w.nonce \in Nat /\ w.at \in Stage /\ w.n \in begun[w.on]
  BY DEF WalletInv, InHand
<1>2. begun[w.on] \subseteq 1..Len(asks[w.on])
  BY <1>1 DEF WalletInv, Orderly, Numbered
<1>3. asks[w.on] \in Seq(Kind)
  BY <1>1 DEF WalletInv, WalletTypes
<1> QED BY <1>1, <1>2, <1>3

\* A channel has at most one request in hand that signs.
LEMMA OneSigns ==
    ASSUME WalletInv, NEW v \in work, NEW w \in work, v.on = w.on, v.at # "call", w.at # "call"
    PROVE  v = w
BY DEF WalletInv, InHand

LEMMA WalletInit == Init => WalletInv
<1> SUFFICES ASSUME Init PROVE WalletInv
  OBVIOUS
<1>1. WalletTypes
  BY DEF Init, WalletTypes, Nobody
<1>2. InHand /\ NextNonce
  BY DEF Init, InHand, NextNonce
<1>3. ASSUME NEW c \in Channel PROVE Orderly(c)
  <2>1. /\ asks[c] = <<>> /\ order[c] = <<>> /\ mirror[c] = <<>> /\ queue[c] = <<>>
        /\ handled[c] = <<>> /\ begun[c] = {}
    BY DEF Init
  <2>2. Len(<<>>) = 0 /\ <<>> \in Seq(Nat) /\ 0 \in Nat
    OBVIOUS
  <2>3. Numbered(0, <<>>, <<>>, <<>>, {})
    BY <2>2, EmptyList DEF Numbered, Newer, Near
  <2>4. Remembers(<<>>, {})
    BY <2>2, EmptyList, Bounds DEF Remembers
  <2> QED BY <2>1, <2>2, <2>3, <2>4 DEF Orderly
<1> QED BY <1>1, <1>2, <1>3 DEF WalletInv

(***************************************************************************)
(* An action writes on the lists of one channel.                            *)
(***************************************************************************)
LEMMA OneChannel ==
    ASSUME WalletInv, NEW c \in Channel,
           \A e \in Channel \ {c} :
              /\ asks'[e] = asks[e] /\ order'[e] = order[e] /\ mirror'[e] = mirror[e]
              /\ queue'[e] = queue[e] /\ begun'[e] = begun[e] /\ handled'[e] = handled[e],
           Numbered(Len(asks'[c]), order'[c], mirror'[c], queue'[c], begun'[c]),
           Remembers(handled'[c], begun'[c])
    PROVE  \A e \in Channel : Orderly(e)'
BY DEF WalletInv, Orderly

\* The steps of Luau and of the frames, and of a loop that polls or skips: nothing is taken.
LEMMA ListsKeep ==
    ASSUME WalletInv, NEW c \in Channel,
           \/ \E n \in Number : Forget(c, n)
           \/ Frame(c) \/ Deliver(c) \/ Poll(c) \/ Skip(c)
    PROVE  WalletInv' /\ work' = work
<1>1. UNCHANGED <<asks, awaits, begun, handled, work, nonce>>
  BY DEF Forget, Frame, Deliver, Poll, Skip, Entry, luau, loops
<1>2. /\ order[c] \in Seq(Nat) /\ mirror[c] \in Seq(Nat) /\ queue[c] \in Seq(Nat)
      /\ WalletTypes /\ Numbered(Len(asks[c]), order[c], mirror[c], queue[c], begun[c])
      /\ Remembers(handled[c], begun[c])
  BY DEF WalletInv, WalletTypes, Orderly
<1>3. InHand' /\ NextNonce'
  BY <1>1 DEF WalletInv, InHand, NextNonce
<1>4. ASSUME NEW o, NEW m, NEW q, o \in Seq(Nat), m \in Seq(Nat), q \in Seq(Nat),
             order' = [order EXCEPT ![c] = o], mirror' = [mirror EXCEPT ![c] = m],
             queue' = [queue EXCEPT ![c] = q], Numbered(Len(asks[c]), o, m, q, begun[c])
      PROVE  WalletInv'
  <2>1. WalletTypes'
    BY <1>1, <1>2, <1>4 DEF WalletTypes
  <2>2. order'[c] = o /\ mirror'[c] = m /\ queue'[c] = q
    BY <1>2, <1>4 DEF WalletTypes
  <2>3. \A e \in Channel \ {c} :
           order'[e] = order[e] /\ mirror'[e] = mirror[e] /\ queue'[e] = queue[e]
    BY <1>2, <1>4 DEF WalletTypes
  <2>4. \A e \in Channel : Orderly(e)'
    BY <1>1, <1>2, <1>4, <2>2, <2>3, OneChannel
  <2> QED BY <1>3, <2>1, <2>4 DEF WalletInv
<1>5. /\ order = [order EXCEPT ![c] = order[c]] /\ mirror = [mirror EXCEPT ![c] = mirror[c]]
      /\ queue = [queue EXCEPT ![c] = queue[c]]
  BY <1>2 DEF WalletTypes
<1>6. ASSUME NEW n, order' = Settled(c, n), UNCHANGED <<mirror, queue>> PROVE WalletInv'
  <2>1. Without(order[c], {n}) \in Seq(Nat)
    BY <1>2, WithoutSet
  <2>2. Numbered(Len(asks[c]), Without(order[c], {n}), mirror[c], queue[c], begun[c])
    BY <1>2, Settling
  <2>3. order' = [order EXCEPT ![c] = Without(order[c], {n})]
    BY <1>6 DEF Settled
  <2> QED BY <1>2, <1>4, <1>5, <1>6, <2>1, <2>2, <2>3
<1>7. CASE \E n \in Number : Forget(c, n)
  <2>1. PICK n \in Number : order' = Settled(c, n) /\ UNCHANGED <<mirror, queue>>
    BY <1>7 DEF Forget, loops
  <2> QED BY <1>1, <1>6, <2>1
<1>8. CASE Deliver(c)
  BY <1>1, <1>6, <1>8 DEF Deliver, loops
<1>9. CASE Frame(c)
  <2>1. mirror' = [mirror EXCEPT ![c] = order[c]] /\ UNCHANGED <<order, queue>>
    BY <1>9 DEF Frame, loops
  <2>2. Numbered(Len(asks[c]), order[c], order[c], queue[c], begun[c])
    BY <1>2, Mirroring
  <2> QED BY <1>1, <1>2, <1>4, <1>5, <2>1, <2>2
<1>10. CASE Poll(c)
  <2>1. queue' = [queue EXCEPT ![c] = mirror[c]] /\ queue[c] = <<>> /\ UNCHANGED <<order, mirror>>
    BY <1>10 DEF Poll, luau
  <2>2. Numbered(Len(asks[c]), order[c], mirror[c], mirror[c], begun[c])
    BY <1>2, <2>1, Reading
  <2> QED BY <1>1, <1>2, <1>4, <1>5, <2>1, <2>2
<1>11. CASE Skip(c)
  <2>1. /\ queue' = [queue EXCEPT ![c] = Tail(queue[c])] /\ queue[c] # <<>>
        /\ Head(queue[c]) \in ToSet(handled[c]) /\ UNCHANGED <<order, mirror>>
    BY <1>11 DEF Skip, Entry, luau, Range, ToSet
  <2>2. Tail(queue[c]) \in Seq(Nat)
    BY <1>2, <2>1
  <2>3. Numbered(Len(asks[c]), order[c], mirror[c], Tail(queue[c]), begun[c] \cup {Head(queue[c])})
    BY <1>2, <2>1, Taking
  <2>4. begun[c] \cup {Head(queue[c])} = begun[c]
    BY <1>2, <2>1 DEF Remembers
  <2>5. Numbered(Len(asks[c]), order[c], mirror[c], Tail(queue[c]), begun[c])
    BY <2>3, <2>4
  <2> QED BY <1>1, <1>2, <1>4, <1>5, <2>1, <2>2, <2>5
<1> QED BY <1>1, <1>7, <1>8, <1>9, <1>10, <1>11

\* ask: one more, with the next number.
LEMMA AskKeeps ==
    ASSUME WalletInv, NEW c \in Channel, NEW kind \in Kind, Ask(c, kind)
    PROVE  WalletInv' /\ work' = work
<1> DEFINE asked == Len(asks[c])
<1>1. /\ asks' = [asks EXCEPT ![c] = Append(asks[c], kind)]
      /\ order' = [order EXCEPT ![c] = Append(order[c], asked + 1)]
      /\ order[c] # <<>> => asked + 1 < Head(order[c]) + SPAN
      /\ UNCHANGED <<mirror, queue, awaits, handled, begun, work, nonce>>
  BY DEF Ask, loops
<1>2. /\ asks \in [Channel -> Seq(Kind)] /\ order \in [Channel -> Seq(Nat)]
      /\ asked \in Nat /\ WalletTypes
      /\ Numbered(asked, order[c], mirror[c], queue[c], begun[c]) /\ Remembers(handled[c], begun[c])
  BY DEF WalletInv, WalletTypes, Orderly
<1>3. WalletTypes'
  BY <1>1, <1>2 DEF WalletTypes
<1>4. Len(asks'[c]) = asked + 1 /\ order'[c] = Append(order[c], asked + 1)
  BY <1>1, <1>2
<1>5. \A e \in Channel \ {c} : asks'[e] = asks[e] /\ order'[e] = order[e]
  BY <1>1, <1>2
<1>6. \A e \in Channel : /\ \A n \in 1..Len(asks[e]) : asks'[e][n] = asks[e][n]
                         /\ asks'[e] = <<>> => asks[e] = <<>>
  BY <1>1, <1>2
<1> HIDE DEF asked
<1>7. \A e \in Channel : Orderly(e)'
  <2>1. Numbered(asked + 1, Append(order[c], asked + 1), mirror[c], queue[c], begun[c])
    BY <1>1, <1>2, Asking
  <2> QED BY <1>1, <1>2, <1>4, <1>5, <2>1, OneChannel
<1>8. InHand'
  <2>1. \A w \in work : w.on \in Channel /\ asks'[w.on][w.n] = asks[w.on][w.n]
    BY <1>6, InHandIsAsked
  <2> QED BY <1>1, <2>1 DEF WalletInv, InHand
<1>9. NextNonce'
  BY <1>1, <1>6 DEF WalletInv, NextNonce
<1> QED BY <1>1, <1>3, <1>7, <1>8, <1>9 DEF WalletInv

(***************************************************************************)
(* An entry not remembered was never taken; the channel's lists, its memory  *)
(* and its history keep in step.                                            *)
(***************************************************************************)
LEMMA FreshIsNew ==
    ASSUME WalletInv, NEW c \in Channel, NEW n \in Number, Fresh(c, n)
    PROVE  /\ n \notin begun[c] /\ n \in Nat /\ n # Nobody /\ awaits[c] = Nobody
           /\ n \in 1..Len(asks[c])
           /\ begun' = [begun EXCEPT ![c] = begun[c] \cup {n}]
           /\ handled' \in [Channel -> Seq(Nat)] /\ queue' \in [Channel -> Seq(Nat)]
           /\ UNCHANGED <<asks, order, mirror, nonce>>
           /\ \A e \in Channel : Orderly(e)'
<1> DEFINE q == queue[c]
           k == handled[c]
           t == begun[c]
<1>1. /\ q # <<>> /\ awaits[c] = Nobody /\ n = Head(q) /\ n \notin ToSet(k)
      /\ queue' = [queue EXCEPT ![c] = Tail(q)]
      /\ handled' = [handled EXCEPT ![c] = Kept(k, n)]
      /\ begun' = [begun EXCEPT ![c] = t \cup {n}]
      /\ UNCHANGED <<asks, order, mirror, nonce>>
  BY DEF Fresh, Entry, luau, Noted, Kept, Range, ToSet
<1>2. /\ WalletTypes /\ q \in Seq(Nat) /\ k \in Seq(Nat) /\ t \subseteq Nat
      /\ Numbered(Len(asks[c]), order[c], mirror[c], q, t) /\ Remembers(k, t)
  BY DEF WalletInv, WalletTypes, Orderly
<1> HIDE DEF q, k, t
<1>3. n \in ToSet(q) /\ n \in Nat /\ Tail(q) \in Seq(Nat)
  BY <1>1, <1>2, HeadAndTail
<1>4. n \notin t
  BY <1>1, <1>2, <1>3, TakenIsRemembered
<1>5. n \in 1..Len(asks[c])
  BY <1>2, <1>3 DEF Numbered
<1>6. \A b \in t : b < n
  BY <1>2, <1>3, <1>4 DEF Numbered, Newer
<1>7. Remembers(Kept(k, n), t \cup {n})
  BY <1>2, <1>3, <1>6, Noting
<1>8. Numbered(Len(asks[c]), order[c], mirror[c], Tail(q), t \cup {n})
  BY <1>1, <1>2, Taking
<1>9. Kept(k, n) \in Seq(Nat)
  BY <1>7 DEF Remembers
<1>10. /\ queue'[c] = Tail(q) /\ handled'[c] = Kept(k, n) /\ begun'[c] = t \cup {n}
       /\ \A e \in Channel \ {c} :
             queue'[e] = queue[e] /\ handled'[e] = handled[e] /\ begun'[e] = begun[e]
       /\ handled' \in [Channel -> Seq(Nat)] /\ queue' \in [Channel -> Seq(Nat)]
  BY <1>1, <1>2, <1>3, <1>9 DEF WalletTypes
<1>11. \A e \in Channel : Orderly(e)'
  BY <1>1, <1>7, <1>8, <1>10, OneChannel
<1>12. n # Nobody
  BY <1>5 DEF Nobody
<1> QED BY <1>1, <1>3, <1>4, <1>5, <1>10, <1>11, <1>12 DEF t

\* What is refused or dropped is taken, and that is all.
LEMMA RefusalKeeps ==
    ASSUME WalletInv, NEW c \in Channel, NEW n \in Number, Refuse(c, n) \/ Drop(c, n)
    PROVE  WalletInv' /\ work' = work
<1>1. Fresh(c, n) /\ UNCHANGED <<awaits, work>>
  BY DEF Refuse, Drop
<1>2. /\ n \in Nat /\ begun' = [begun EXCEPT ![c] = begun[c] \cup {n}]
      /\ handled' \in [Channel -> Seq(Nat)] /\ queue' \in [Channel -> Seq(Nat)]
      /\ UNCHANGED <<asks, order, mirror, nonce>> /\ \A e \in Channel : Orderly(e)'
  BY <1>1, FreshIsNew
<1>3. WalletTypes /\ InHand /\ NextNonce
  BY DEF WalletInv
<1>4. WalletTypes'
  BY <1>1, <1>2, <1>3 DEF WalletTypes
<1>5. \A e \in Channel : begun[e] \subseteq begun'[e]
  BY <1>2, <1>3 DEF WalletTypes
<1>6. InHand'
  BY <1>1, <1>2, <1>3, <1>5 DEF InHand
<1>7. NextNonce'
  BY <1>1, <1>2, <1>3 DEF NextNonce
<1> QED BY <1>1, <1>2, <1>4, <1>6, <1>7 DEF WalletInv

\* _handle_request: the loop awaited nobody, so nothing that signs was in hand on its channel.
LEMMA TakeKeeps ==
    ASSUME WalletInv, NEW c \in Channel, NEW n \in Number, Take(c, n)
    PROVE  WalletInv' /\ \A w \in work' \ work : w.n \notin begun[w.on]
<1> DEFINE new == [on |-> c, n |-> n, nonce |-> 0,
                   at |-> IF asks[c][n] = "write" THEN "prompt" ELSE "call"]
<1>1. /\ Fresh(c, n) /\ work' = work \cup {new}
      /\ awaits' = [awaits EXCEPT ![c] = Awaited(c, n)]
  BY DEF Take
<1>2. /\ n \notin begun[c] /\ n \in Nat /\ n # Nobody /\ awaits[c] = Nobody
      /\ begun' = [begun EXCEPT ![c] = begun[c] \cup {n}]
      /\ handled' \in [Channel -> Seq(Nat)] /\ queue' \in [Channel -> Seq(Nat)]
      /\ UNCHANGED <<asks, order, mirror, nonce>> /\ \A e \in Channel : Orderly(e)'
  BY <1>1, FreshIsNew
<1>3. WalletTypes /\ InHand /\ NextNonce
  BY DEF WalletInv
<1>4. Awaited(c, n) \in Nat
  BY <1>2 DEF Awaited, Nobody
<1>5. WalletTypes'
  BY <1>1, <1>2, <1>3, <1>4 DEF WalletTypes
<1>6. /\ new \in [on : Channel, n : Nat, nonce : Nat, at : Stage]
      /\ new.on = c /\ new.n = n /\ new.at \in {"prompt", "call"}
      /\ new.at = "call" <=> asks[c][n] # "write"
  BY <1>2 DEF Stage
<1> HIDE DEF new
<1>7. /\ begun'[c] = begun[c] \cup {n} /\ awaits'[c] = Awaited(c, n)
      /\ \A e \in Channel : begun[e] \subseteq begun'[e]
      /\ \A e \in Channel \ {c} : awaits'[e] = awaits[e]
  BY <1>1, <1>2, <1>3 DEF WalletTypes
<1>8. ASSUME NEW w \in work
      PROVE  w.on \in Channel /\ w.n \in begun[w.on] /\ w.n # Nobody /\ (w.on = c => w.n # n /\ w.at = "call")
  <2>1. w.on \in Channel /\ w.n \in begun[w.on] /\ w.n # Nobody
    BY <1>3, InHandIsAsked DEF InHand, Nobody
  <2> QED BY <1>2, <1>3, <2>1 DEF InHand
<1>9. ASSUME NEW w \in work'
      PROVE  /\ w.n \in begun'[w.on]
             /\ w.at = "call" <=> asks'[w.on][w.n] # "write"
             /\ w.at # "call" => awaits'[w.on] = w.n
  <2>1. CASE w \in work
    BY <1>2, <1>3, <1>7, <1>8, <2>1 DEF InHand
  <2>2. CASE w = new
    BY <1>2, <1>6, <1>7, <2>2 DEF Awaited
  <2> QED BY <1>1, <2>1, <2>2
<1>10. ASSUME NEW v \in work', NEW w \in work', v.on = w.on, v.n = w.n PROVE v = w
  BY <1>1, <1>3, <1>6, <1>8, <1>10 DEF InHand
<1>11. InHand'
  <2>1. work' \subseteq [on : Channel, n : Nat, nonce : Nat, at : Stage]
    BY <1>1, <1>3, <1>6 DEF InHand
  <2> QED BY <1>9, <1>10, <2>1 DEF InHand
<1>12. NextNonce'
  BY <1>1, <1>2, <1>3, <1>6 DEF NextNonce
<1>13. \A w \in work' \ work : w.n \notin begun[w.on]
  BY <1>1, <1>2, <1>6
<1> QED BY <1>2, <1>5, <1>11, <1>12, <1>13 DEF WalletInv

(***************************************************************************)
(* A request that ends wakes the loop that awaits it, and nobody else's.     *)
(***************************************************************************)
LEMMA EndKeeps ==
    ASSUME WalletInv, NEW w \in work, NEW wrote, End(w, wrote), UNCHANGED <<luau, nonce>>
    PROVE  WalletInv' /\ work' \subseteq work
<1>1. /\ work' = work \ {w}
      /\ awaits' = [awaits EXCEPT ![w.on] = IF awaits[w.on] = w.n THEN Nobody ELSE awaits[w.on]]
      /\ UNCHANGED <<queue, handled, begun>>
  BY DEF End
<1>2. WalletTypes /\ InHand /\ NextNonce /\ UNCHANGED <<asks, order, mirror, nonce>>
  BY DEF WalletInv, luau
<1>3. w.on \in Channel
  BY InHandIsAsked
<1>4. WalletTypes'
  BY <1>1, <1>2, <1>3 DEF WalletTypes, Nobody
<1>5. \A c \in Channel : Orderly(c)'
  BY <1>1, <1>2 DEF WalletInv, Orderly
<1>6. ASSUME NEW v \in work', v.at # "call" PROVE awaits'[v.on] = v.n
  <2>1. v \in work /\ v.on \in Channel /\ awaits[v.on] = v.n
    BY <1>1, <1>2, <1>6, InHandIsAsked DEF InHand
  <2>2. v.on = w.on => v.n # w.n
    BY <1>1, <1>2, <2>1 DEF InHand
  <2> QED BY <1>1, <1>2, <2>1, <2>2 DEF WalletTypes
<1>7. InHand'
  BY <1>1, <1>2, <1>6 DEF InHand
<1>8. NextNonce'
  BY <1>1, <1>2 DEF NextNonce
<1> QED BY <1>1, <1>4, <1>5, <1>7, <1>8 DEF WalletInv

(***************************************************************************)
(* A request that signs goes on to its next stage.  Nobody else on its       *)
(* channel signs, so if it uses the nonce up nobody else there needs it.     *)
(***************************************************************************)
LEMMA BecomesKeeps ==
    ASSUME WalletInv, NEW w \in work, w.at # "call", NEW at \in Stage \ {"call"}, NEW count \in Nat,
           Becomes(w, at, count), UNCHANGED luau, nonce' \in Nat,
           at = "send" => count = nonce', nonce' = nonce \/ (w.at = "send" /\ at # "send")
    PROVE  WalletInv' /\ \A v \in work' \ work : v.at = at
<1> DEFINE new == [w EXCEPT !.at = at, !.nonce = count]
<1>1. work' = (work \ {w}) \cup {new} /\ UNCHANGED <<queue, awaits, handled, begun>>
  BY DEF Becomes, loops
<1>2. WalletTypes /\ InHand /\ NextNonce /\ UNCHANGED <<asks, order, mirror>>
  BY DEF WalletInv, luau
<1>3. w \in [on : Channel, n : Nat, nonce : Nat, at : Stage]
  BY <1>2 DEF InHand
<1>4. /\ new \in [on : Channel, n : Nat, nonce : Nat, at : Stage]
      /\ new.on = w.on /\ new.n = w.n /\ new.at = at /\ new.nonce = count
  BY <1>3
<1> HIDE DEF new
<1>5. WalletTypes' /\ \A c \in Channel : Orderly(c)'
  BY <1>1, <1>2 DEF WalletTypes, WalletInv, Orderly
<1>6. InHand'
  <2>1. work' \subseteq [on : Channel, n : Nat, nonce : Nat, at : Stage]
    BY <1>1, <1>2, <1>4 DEF InHand
  <2>2. ASSUME NEW v \in work'
        PROVE  /\ v.n \in begun'[v.on] /\ (v.at = "call" <=> asks'[v.on][v.n] # "write")
               /\ v.at # "call" => awaits'[v.on] = v.n
    BY <1>1, <1>2, <1>4 DEF InHand
  <2>3. ASSUME NEW u \in work', NEW v \in work', u.on = v.on, u.n = v.n PROVE u = v
    BY <1>1, <1>2, <1>4, <2>3 DEF InHand
  <2> QED BY <2>1, <2>2, <2>3 DEF InHand
<1>7. NextNonce'
  <2> SUFFICES ASSUME NEW v \in work', v.at = "send", \A c \in Channel \ {v.on} : asks[c] = <<>>
               PROVE  v.nonce = nonce'
    BY <1>2 DEF NextNonce
  <2>1. CASE v = new
    BY <1>4, <2>1
  <2>2. CASE v \in work \ {w}
    <3>1. v.on = w.on => FALSE
      BY <2>2, OneSigns
    <3>2. w.on \in Channel /\ asks[w.on] # <<>>
      BY InHandIsAsked
    <3> QED BY <3>1, <3>2
  <2> QED BY <1>1, <2>1, <2>2
<1> QED BY <1>1, <1>4, <1>5, <1>6, <1>7 DEF WalletInv

LEMMA HandleKeeps ==
    ASSUME WalletInv, NEW w \in work, Handle(w)
    PROVE  WalletInv' /\ \A v \in work' \ work : v.at \notin {"call", "prompt"}
<1>1. nonce \in Nat
  BY DEF WalletInv, WalletTypes
<1>2. ASSUME NEW wrote, End(w, wrote), UNCHANGED <<luau, nonce>>
      PROVE  WalletInv' /\ \A v \in work' \ work : v.at \notin {"call", "prompt"}
  BY <1>2, EndKeeps
<1>3. CASE Answered(w) \/ Reject(w) \/ \E mined \in BOOLEAN : Receipt(w, mined)
  BY <1>2, <1>3 DEF Answered, Reject, Receipt
<1>4. CASE Confirm(w)
  BY <1>1, <1>4, BecomesKeeps DEF Confirm, Stage
<1>5. CASE Count(w)
  <2> PICK count \in Nat : count = nonce
    BY <1>1
  <2>1. w.at = "count" /\ nonce' = count /\ nonce' = nonce /\ Becomes(w, "send", count) /\ UNCHANGED luau
    BY <1>5 DEF Count, Becomes
  <2> QED BY <2>1, BecomesKeeps DEF Stage
<1>6. CASE Send(w)
  <2>1. CASE w.nonce = nonce
    <3>1. /\ w.at = "send" /\ nonce' = nonce + 1 /\ Becomes(w, "receipt", w.nonce) /\ UNCHANGED luau
      BY <1>6, <2>1 DEF Send
    <3>2. w.nonce \in Nat /\ nonce' \in Nat
      BY <1>1, <3>1, InHandIsAsked
    <3> QED BY <3>1, <3>2, BecomesKeeps DEF Stage
  <2>2. CASE w.nonce # nonce
    BY <1>2, <1>6, <2>2 DEF Send
  <2> QED BY <2>1, <2>2
<1> QED BY <1>3, <1>4, <1>5, <1>6 DEF Handle

TakesNew == \A w \in work' \ work : w.at \in {"call", "prompt"} => w.n \notin begun[w.on]

LEMMA WalletStep == WalletInv /\ [Next]_vars => WalletInv' /\ TakesNew
<1> SUFFICES ASSUME WalletInv, [Next]_vars PROVE WalletInv' /\ TakesNew
  OBVIOUS
<1>1. ASSUME NEW c \in Channel, NEW k \in Kind, Ask(c, k) PROVE WalletInv' /\ TakesNew
  BY <1>1, AskKeeps DEF TakesNew
<1>2. ASSUME NEW c \in Channel,
             (\E n \in Number : Forget(c, n)) \/ Frame(c) \/ Deliver(c) \/ Poll(c) \/ Skip(c)
      PROVE  WalletInv' /\ TakesNew
  BY <1>2, ListsKeep DEF TakesNew
<1>3. ASSUME NEW c \in Channel, NEW n \in Number, Refuse(c, n) \/ Drop(c, n)
      PROVE  WalletInv' /\ TakesNew
  BY <1>3, RefusalKeeps DEF TakesNew
<1>4. ASSUME NEW c \in Channel, NEW n \in Number, Take(c, n) PROVE WalletInv' /\ TakesNew
  BY <1>4, TakeKeeps DEF TakesNew
<1>5. ASSUME NEW w \in work, Handle(w) PROVE WalletInv' /\ TakesNew
  BY <1>5, HandleKeeps DEF TakesNew
<1>6. CASE UNCHANGED <<luau, loops, work, nonce>>
  BY <1>6 DEF luau, loops, TakesNew, WalletInv, WalletTypes, Orderly, InHand, NextNonce
<1>7. CASE Refresh
  BY <1>6, <1>7 DEF Refresh
<1>8. CASE UNCHANGED vars
  BY <1>6, <1>8 DEF vars
<1> QED BY <1>1, <1>2, <1>3, <1>4, <1>5, <1>7, <1>8 DEF Next, OnEntry

LEMMA WalletHolds == Spec => []WalletInv
BY WalletInit, WalletStep, PTL DEF Spec

(***************************************************************************)
(* No request is handled a second time, though the wallet reads lists that   *)
(* still hold what it has answered and forgets numbers (Wallet._handled):    *)
(* whatever is asked, refused or given up, and however late answers come.    *)
(***************************************************************************)
THEOREM RequestsHandledOnce == Spec => HandledOnce
<1>1. WalletInv /\ [Next]_vars =>
        [\A w \in work' \ work : w.at \in {"call", "prompt"} => w.n \notin begun[w.on]]_vars
  BY WalletStep DEF TakesNew
<1> QED BY <1>1, WalletHolds, PTL DEF Spec, HandledOnce

(***************************************************************************)
(* The writes of a channel go one after the other, and unless the other      *)
(* channel is used too every transaction goes out under the nonce the node   *)
(* expects (both loops await what signs).                                   *)
(***************************************************************************)
THEOREM WritesInOrder == Spec => []InOrder
<1>1. WalletInv => InOrder
  <2> SUFFICES ASSUME WalletInv PROVE InOrder
    OBVIOUS
  <2>1. ASSUME NEW c \in Channel PROVE Cardinality({w \in Writes : w.on = c}) <= 1
    <3> DEFINE W == {w \in Writes : w.on = c}
    <3>1. \A v, w \in W : v = w
      BY OneSigns DEF Writes, WalletInv, InHand
    <3> HIDE DEF W
    <3>2. CASE W = {}
      <4>1. Cardinality(W) = 0
        BY <3>2, FS_EmptySet
      <4> QED BY <4>1 DEF W
    <3>3. CASE W # {}
      <4>1. PICK w : W = {w}
        BY <3>1, <3>3
      <4>2. Cardinality(W) = 1
        BY <4>1, FS_Singleton
      <4> QED BY <4>2 DEF W
    <3> QED BY <3>2, <3>3
  <2> QED BY <2>1 DEF InOrder, WalletInv, NextNonce
<1> QED BY <1>1, WalletHolds, PTL
=============================================================================

--------------------------- MODULE WalletRequests ---------------------------
(***************************************************************************)
(* How a place asks a wallet: two channels of numbered requests, written by *)
(* Luau into an attribute as the list of everything still outstanding, and *)
(* the wallet on the host that polls the attribute and answers.            *)
(*                                                                         *)
(*   "place"  Ledger.luau on the server, heard by Wallet._watch_requests   *)
(*   "own"    OwnWallet.luau on a client, heard by Wallet._watch_own_asks  *)
(*                                                                         *)
(* Playing alone, one wallet hears both; a joined client hears its own.    *)
(* The wallet is GDScript: coroutines of one thread, which interleave only *)
(* where they await.  Luau runs on a thread of its own and sees answers,   *)
(* and is seen, when frames are exchanged.                                 *)
(***************************************************************************)
EXTENDS Naturals, FiniteSets, Lists

CONSTANTS Channel,      \* the channels this machine's wallet answers
          MAX_ASKS,     \* bound: requests ever asked on a channel
          Kind,         \* what is asked
          SPAN,         \* bound: requests asked while one of them is outstanding, itself included
          KEPT          \* how many handled numbers the wallet remembers (256)

ASSUME ChannelAssumption == Channel \subseteq {"place", "own"}
\* By whether _handle_request raises _buying, does not, or does not know the action.
ASSUME KindAssumption == Kind \subseteq {"read", "write", "unknown"}
ASSUME BoundAssumption == MAX_ASKS \in Nat /\ SPAN \in Nat \ {0} /\ KEPT \in Nat
\* What HandledOnce rests on: a request is answered, or given up after FORGET seconds, before
\* the wallet has taken more numbers than it remembers.
ASSUME KeptAssumption == SPAN <= KEPT

Number == 1..MAX_ASKS
Nobody == 0

VARIABLES asks,       \* the requests asked so far, by number: Luau's Seq
          order,      \* numbers outstanding, oldest first: Luau's order
          mirror,     \* the request attribute as the host has it
          replies,    \* answers on their way to Luau, one chunk each
          queue,      \* what a loop has left of the list it read
          awaits,     \* the request a loop awaits
          handled,    \* numbers a loop has taken, the last KEPT
          begun,      \* history: numbers a loop has ever taken
          work,       \* requests being handled
          buying,     \* _buying
          nonce,      \* the account's next nonce, as the node has it
          stale       \* _refresh_wanted
luau == <<asks, order, mirror>>
loops == <<queue, awaits, handled, begun>>
vars == <<luau, replies, loops, work, buying, nonce, stale>>

Init == /\ asks = [c \in Channel |-> <<>>]
        /\ order = [c \in Channel |-> <<>>]
        /\ mirror = [c \in Channel |-> <<>>]
        /\ replies = [c \in Channel |-> <<>>]
        /\ queue = [c \in Channel |-> <<>>]
        /\ awaits = [c \in Channel |-> Nobody]
        /\ handled = [c \in Channel |-> <<>>]
        /\ begun = [c \in Channel |-> {}]
        /\ work = {}
        /\ buying = FALSE
        /\ nonce = 0
        /\ stale = FALSE

Settled(c, n) == [order EXCEPT ![c] = Without(@, {n})]

(***************************************************************************)
(* The Luau side.                                                          *)
(***************************************************************************)
Ask(c, k) == /\ Len(asks[c]) < MAX_ASKS
             /\ order[c] # <<>> => Len(asks[c]) + 1 < Head(order[c]) + SPAN
             /\ asks' = [asks EXCEPT ![c] = Append(@, k)]
             /\ order' = [order EXCEPT ![c] = Append(@, Len(asks[c]) + 1)]
             /\ UNCHANGED <<mirror, replies, loops, work, buying, nonce, stale>>

\* task.delay(FORGET): whoever asked has long stopped waiting.
Forget(c, n) == /\ n \in Range(order[c])
                /\ order' = Settled(c, n)
                /\ UNCHANGED <<asks, mirror, replies, loops, work, buying, nonce, stale>>

\* A frame's report takes the attribute to the host.
Frame(c) == /\ mirror[c] # order[c]
            /\ mirror' = [mirror EXCEPT ![c] = order[c]]
            /\ UNCHANGED <<asks, order, replies, loops, work, buying, nonce, stale>>

\* A frame runs the chunk that writes the result; the watcher settles its number.
Deliver(c) == /\ replies[c] # <<>>
              /\ replies' = [replies EXCEPT ![c] = Tail(@)]
              /\ order' = Settled(c, Head(replies[c]))
              /\ UNCHANGED <<asks, mirror, loops, work, buying, nonce, stale>>

(***************************************************************************)
(* The wallet's loops.                                                     *)
(***************************************************************************)
\* Every coroutine is at an await: no loop is between two entries of its list.
AllAwait == \A c \in Channel : queue[c] = <<>> \/ awaits[c] # Nobody

Poll(c) == /\ AllAwait
           /\ queue[c] = <<>> /\ awaits[c] = Nobody
           /\ ~buying
           /\ mirror[c] # <<>>
           /\ queue' = [queue EXCEPT ![c] = mirror[c]]
           /\ UNCHANGED <<luau, replies, awaits, handled, begun, work, buying, nonce, stale>>

\* Mutant of Noted: one number fewer is remembered.
NotedShort(c, n) == LET all == Append(handled[c], n)
                    IN  IF Len(all) >= KEPT THEN Tail(all) ELSE all

Noted(c, n) == LET all == Append(handled[c], n)
               IN  IF Len(all) > KEPT THEN Tail(all) ELSE all

\* Mutant of Awaited: neither loop waits for what signs.
AwaitedReads(c, n) == IF c = "place" /\ asks[c][n] = "read" THEN n ELSE Nobody

\* The place's loop awaits whatever it handles, a client's only what signs.
Awaited(c, n) == IF c = "place" \/ asks[c][n] = "write" THEN n ELSE Nobody

\* The next entry of the list a loop is at.
Entry(c) == /\ queue[c] # <<>> /\ awaits[c] = Nobody
            /\ queue' = [queue EXCEPT ![c] = Tail(@)]
            /\ UNCHANGED <<luau, nonce, stale>>

Skip(c) == /\ Entry(c)
           /\ Head(queue[c]) \in Range(handled[c])
           /\ UNCHANGED <<replies, awaits, handled, begun, work, buying>>

\* An entry not met before is noted, then handled.
Fresh(c, n) == /\ Entry(c)
               /\ n = Head(queue[c]) /\ n \notin Range(handled[c])
               /\ handled' = [handled EXCEPT ![c] = Noted(c, n)]
               /\ begun' = [begun EXCEPT ![c] = @ \union {n}]

\* _handle_request up to its first await.
Take(c, n) == /\ Fresh(c, n)
              /\ asks[c][n] # "unknown"
              /\ awaits' = [awaits EXCEPT ![c] = Awaited(c, n)]
              /\ buying' = (asks[c][n] = "write")
              /\ work' = work \union {[on |-> c, n |-> n, nonce |-> 0,
                     at |-> IF asks[c][n] = "write" THEN "prompt" ELSE "call"]}
              /\ UNCHANGED replies

\* What the place did not declare, or the town may not sign, is refused on the spot.
Refuse(c, n) == /\ Fresh(c, n)
                /\ replies' = [replies EXCEPT ![c] = Append(@, n)]
                /\ UNCHANGED <<awaits, work, buying>>

\* An action outside the vocabulary is dropped without a reply.
Drop(c, n) == /\ Fresh(c, n)
              /\ asks[c][n] = "unknown"
              /\ UNCHANGED <<replies, awaits, work, buying>>

OnEntry(c) == Skip(c) \/ \E n \in Number : Take(c, n) \/ Refuse(c, n) \/ Drop(c, n)

(***************************************************************************)
(* Handling a request.                                                     *)
(***************************************************************************)
\* Mutant of End: the loop that waits is not woken.
EndAsleep(w, wrote) == /\ work' = work \ {w}
                       /\ buying' = FALSE
                       /\ replies' = [replies EXCEPT ![w.on] = Append(@, w.n)]
                       /\ stale' = (stale \/ wrote)
                       /\ UNCHANGED loops

End(w, wrote) == /\ work' = work \ {w}
                 /\ buying' = FALSE
                 /\ replies' = [replies EXCEPT ![w.on] = Append(@, w.n)]
                 /\ awaits' = [awaits EXCEPT ![w.on] = IF @ = w.n THEN Nobody ELSE @]
                 /\ stale' = (stale \/ wrote)
                 /\ UNCHANGED <<queue, handled, begun>>

Becomes(w, at, count) ==
    /\ work' = (work \ {w}) \union {[w EXCEPT !.at = at, !.nonce = count]}
    /\ UNCHANGED <<replies, loops, buying, stale>>

\* What only reads: the node answers, or does not.
Answered(w) == /\ AllAwait /\ w.at = "call"
               /\ End(w, FALSE)
               /\ UNCHANGED <<luau, nonce>>

Confirm(w) == /\ AllAwait /\ w.at = "prompt"
              /\ Becomes(w, "count", 0)
              /\ UNCHANGED <<luau, nonce>>

Reject(w) == /\ AllAwait /\ w.at = "prompt"
             /\ End(w, FALSE)
             /\ UNCHANGED <<luau, nonce>>

\* _send: eth_getTransactionCount, then eth_sendRawTransaction under that count.
Count(w) == /\ AllAwait /\ w.at = "count"
            /\ Becomes(w, "send", nonce)
            /\ UNCHANGED <<luau, nonce>>

Send(w) == /\ AllAwait /\ w.at = "send"
           /\ IF w.nonce = nonce
              THEN nonce' = nonce + 1 /\ Becomes(w, "receipt", w.nonce)
              ELSE nonce' = nonce /\ End(w, FALSE)
           /\ UNCHANGED luau

\* The receipt, or RECEIPT_SECONDS without one.
Receipt(w, mined) == /\ AllAwait /\ w.at = "receipt"
                     /\ End(w, mined)
                     /\ UNCHANGED <<luau, nonce>>

\* _coalesce_refresh.
Refresh == /\ AllAwait
           /\ stale /\ ~buying
           /\ stale' = FALSE
           /\ UNCHANGED <<luau, replies, loops, work, buying, nonce>>

Handle(w) == \/ Answered(w) \/ Confirm(w) \/ Reject(w) \/ Count(w) \/ Send(w)
             \/ \E mined \in BOOLEAN : Receipt(w, mined)

Next == \/ \E c \in Channel, k \in Kind : Ask(c, k)
        \/ \E c \in Channel, n \in Number : Forget(c, n)
        \/ \E c \in Channel : Frame(c) \/ Deliver(c) \/ Poll(c) \/ OnEntry(c)
        \/ \E w \in work : Handle(w)
        \/ Refresh

Spec == Init /\ [][Next]_vars

\* Frames go on, the loops' timers fire, the node answers or the call fails, and
\* the player answers a prompt one way or the other.  Strong, since a coroutine
\* that is due waits only for the others to reach an await, which they always do.
FairSpec == /\ Spec
            /\ \A c \in Channel : /\ WF_vars(Frame(c)) /\ WF_vars(Deliver(c))
                                  /\ SF_vars(Poll(c)) /\ WF_vars(OnEntry(c))
            /\ SF_vars(\E w \in work : w.on = "place" /\ Handle(w))
            /\ \A n \in Number : SF_vars(\E w \in work : w.on = "own" /\ w.n = n /\ Handle(w))

-----------------------------------------------------------------------------
Writes == {w \in work : asks[w.on][w.n] = "write"}

\* No request is put before the player, or the node, a second time, although the wallet reads a
\* list that still holds what it has answered and remembers only so many numbers (_handled).
HandledOnce == [][\A w \in work' \ work :
                     w.at \in {"call", "prompt"} => w.n \notin begun[w.on]]_vars

\* The writes of a channel go one after the other: never two prompts or sends at a time, and unless
\* the other channel is used too every transaction goes out under the nonce the node expects
\* (both loops await what signs).
InOrder == /\ \A c \in Channel : Cardinality({w \in Writes : w.on = c}) <= 1
           /\ \A w \in work :
                 w.at = "send" /\ (\A c \in Channel \ {w.on} : asks[c] = <<>>) => w.nonce = nonce

\* Nothing asked is left lying: it is answered, although a loop may be busy with a long list, an
\* answer may come while the list is read, and the other channel may hold _buying (_watch_requests).
AsksAreAnswered == \A c \in Channel, n \in Number :
                      (n \in Range(order[c]) /\ asks[c][n] # "unknown") ~> n \notin Range(order[c])

\* What the comments of the wallet say besides, and what does not hold: see the README.
\* Wallet.gd:402: "Nothing new is read while a purchase is on screen: one at a time."
PollsAlone == [][\A c \in Channel :
                    (queue[c] = <<>> /\ queue'[c] # <<>>) => Writes = {}]_vars

\* Wallet.gd:440: the wallet's picture is read again after a write, "Never while a request is in
\* flight".
RefreshWaits == [][stale /\ ~stale' => Writes = {}]_vars
=============================================================================

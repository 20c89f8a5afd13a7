# PulseBlockz: a verification project

PulseBlockz is a Roblox-shaped game engine on Godot 4: a place is a tree of instances and a set of
Luau scripts; a server runs one copy, every client another, and what players own, sell and win is
kept by contracts on PulseChain.  This directory models the parts of it whose correctness depends on
the order in which things happen, checks them with TLC, and proves most of what it
checks with TLAPS.

Contents

1. [The system](#1-the-system): components, state, operations, interactions
2. [What is hard](#2-what-is-hard)
3. [The modules](#3-the-modules), each beside the code
4. [The runs](#4-the-runs): what each shows, its bounds, and why they are enough
5. [Fairness](#5-fairness)
6. [Proofs](#6-proofs)
7. [Where the code and its comments part](#7-where-the-code-and-its-comments-part)
8. [Not modelled](#8-not-modelled)
9. [What a next step would be](#9-what-a-next-step-would-be)

`PROJECT.json` holds the machine-readable side: the components and their status, the runs, a mutant
of the code for every property, the source lines behind every definition, the hazards and the
theorems.  To check a run: `tlc -workers 2 -config X.cfg MCX.tla`; a proof: `tlapm XProofs.tla`.

## 1. The system

Five places, from the chain inwards.  Paths below are relative to the repository.

| place | code | what it is |
|---|---|---|
| chain | `contracts/*.sol` | ten small contracts; what players own, sell, publish and win |
| host | `luau/gdextension/host/*.gd` | the wallet, RPC, signing prompts, publishing: GDScript in the player's application |
| engine | `luau/src`, `luau/gdextension/src` | the instance tree, the Luau runtime, replication, the Godot node that drives both |
| place | `luau/gdextension/demo2/scripts/src` | the town: server, client and shared scripts of the game that ships |
| services | `bridge/`, `curation/`, `scripts/` | a relay of signed requests, list curation, deployment |

### Components

**Instance tree and replication** (`rbx_instance.cpp`, `rbx_net.cpp`, `rbx_runtime.cpp`).
State: the server's DataModel (parent, properties), the frame's change log, the replicator's
`known_` ("ids every client has"), `pendingRep`, a queue to each client and each client's own
DataModel.  Operations: create, setParent, destroy, property set; `filter` at the end of a frame;
`join`; `takeReplication`; `applyReplication`; leaving.  It is correct when a client that has applied
everything holds exactly the part of the tree that replicates, and was never shown the rest.

**Frame loop** (`rbx_host.cpp`, `pulseblockz_world.cpp`).  A `RuntimeThread` runs a runtime's frames
on a thread of its own; the Godot main thread submits input, polls or waits for the end of the frame
and takes the output.  State: `in_`, `out_`, `hasJob_`, `busy_`, `quit_`, one condition variable, and
on the host the jobs and messages carried from one frame to the next.  Correct when the two threads
never touch a frame's data together and nothing carried between runtimes is lost, doubled or
overtaken, and nobody sleeps for good.

**Script scheduler** (`rbx_runtime.cpp`, `rbx_api.cpp`, `luau_sandbox.cpp`).  State: Tasks (a Luau
thread and why it waits), the queues ready, sleepers, deferred, childWaiters and each signal's waiters
and connections, the scripts enabled and started, `pausedTask`, the frame budget.  Operations: the
engine's passes of a step, and the calls of a script: wait, spawn, defer, delay, cancel, Connect,
Once, Disconnect, Wait, Fire, WaitForChild, enabling and disabling scripts, breakpoints.  One native
thread; what interleaves is the C++ stack, because every loop resumes scripts that reach back into
the queues it walks.  Correct when each live thread is in the one place it will be resumed from, and
no queue, loop or debugger holds a deleted one.

**Wallet request channels** (`Wallet.gd`, `Ledger.luau`, `OwnWallet.luau`).  Luau writes numbered
requests into an attribute, the wallet on the host polls it and answers.  State: the numbers
outstanding and their copy on the host, the loops' lists, what was handled, `_buying`, the requests
in flight as coroutines, the account's nonce.  Correct when a request is put before the player at
most once, is answered, and transactions go out one at a time.

**Joining a world** (`pulseblockz_world.cpp`).  State: the peers connected, named and joined
(`clients_`), the queue of joins and the one at work, the jobs of the next server frame, the Players
made and the snapshot that goes with each.  Operations: connect, hello, dispatch of a join to the
server's thread, welcome, disconnect at any of these points.  Correct when whoever stays gets a
Player, keeps it, and is told every change from its snapshot on; and when no Player outlives its
client.

**Remotes** (`rbx_runtime.cpp`, `rbx_host.cpp`, `pulseblockz_world.cpp`).  State on each end: the
messages handed in and out, up to 256 firings kept for a handler, pending invokes and the threads
answering.  Correct when a firing reaches each runtime it was for once, in order, never ahead of the
instances it speaks of, and a call gets one answer.

**Ranked duels** (`Duels.luau`, `Health.luau`, `Funmaster.server.luau`, `Ledger.luau`).  Challenges of
one against one or two against two, who is busy, which side Health has a player on, standings; then
the result, the signatures and witnesses the town collects for it with `askPlayer`, and the errands
that put it on chain.  Correct when those tables, kept by two scripts, never disagree, a result is
final and counted once, the town never says on chain of what is not, and nobody is asked to pay for a
transaction that can only revert.

**Contracts.**  *Inventory*: what an account holds, in which order, which entries gifts opened.
*Marketplace* and *UGC1155*: assets, prices in any ERC-20, sales with a fee.  *DuelRecords*: results
both sides signed, or witnesses did.  *Fishing*: cast, reel, claim the discovery, over blocks.  A
transaction is atomic, so what interleaves is whole calls of different accounts.
*AssetStore*: chunks of bytes and blobs made of them, kept for ever.  *Duelling*, *Announcements*,
*Forwarder*: not modelled (section 8).

**Assets on chain** (`AssetStore.sol`, `Publish.gd`).  Publishing a place: which of its files the
chain already has, the transactions of those it has not, a manifest that names them all.  A
publication stops at the first failure and is started again from what the chain has.  Correct when
every manifest that is on chain names files that are there whole.

**ScriptWorker, the relay bridge, engine API, sandbox, geometry, rendering, data stores, cryptography
and wire formats, host tools, curation, town desks, client scripts, the applications, build scripts**:
not modelled (section 8).

### How they interact

```
 Luau scripts --calls--> scheduler --logs changes--> replication --batches--> clients' trees
      |  attribute                     ^ runFrame                    |
      v                                |                             |
 wallet (host) <--frame reports-- frame loop (main thread) <--take---+
      |  transactions
      v
 contracts (chain)
```

A frame: the main thread submits input to the server's runtime; its worker runs the scheduler's
passes, the scripts change the tree, the end of the frame filters the log; the host takes the report
and passes replication to the client's runtime with the next submit, and the client's messages back.
On a host of network clients the same report goes out as packets, a join is dispatched between two
frames, and what clients send waits for the next one.  The wallet sees requests only through those
reports, and answers by jobs of a later frame; the duels' signing goes down that way and their
transactions end in the contracts.

## 2. What is hard

* **Re-entrancy** (scheduler): a loop holds a copy of a list while what it resumes edits the list,
  deletes threads, stops scripts, spends the frame's budget or breaks into the debugger.
* **Old log, new tree** (replication): the filter reads where an instance *is*, while the change it
  filters says where it *went*; two operations of one frame see each other's effects.
* **Threads without locks** (frame loop): `runFrame` moves its input without the mutex, relying on
  the host's discipline; one condition variable serves two kinds of waiter.
* **Stale copies and un-awaited coroutines** (wallet): the list a loop reads is older than what was
  answered; a read nobody awaits shares a flag with the write that is on screen.
* **Two scripts, one truth** (ranked duels): three tables in two scripts, cleaned up by handlers
  whose order nobody wrote down; timers that race answers and departures.
* **Leaving in the middle** (joining, remotes, duels): between a poll, a frame on another thread and
  its report, or between a question and its answer, whoever it was about may be gone.
* **Answers that are late or untrue** (duels, publishing): a prompt outlives the wait for it, a
  machine says a transaction went that did not, one given up on lands after all.
* **Long legal histories** (contracts): arrays that mirror mappings under swap-remove, counters that
  stand for sets, limits met by several calls, rights several people hold until one uses theirs.

`PROJECT.json` lists 40 hazards at their lines with the properties aimed at them.

## 3. The modules

| module | models | composes |
|---|---|---|
| `Replicator` | the server's tree, the frame log, the filter, join | |
| `Replication` | clients: channel, `DataModel::apply`, welcome, leave | EXTENDS `Replicator` |
| `RuntimeThread` | one worker thread | |
| `FrameLoop` | the main thread and two runtimes of a Play Solo world | EXTENDS `RuntimeThread` |
| `Scheduler` | tasks, queues, loops, scripts, the debugger, the frame budget | |
| `WalletRequests` | two channels, two polling loops, requests as coroutines | |
| `Joining` | network clients of a world: connect, hello, join, welcome, leave | |
| `Remotes` | RemoteEvent and RemoteFunction at both ends | EXTENDS `Joining` |
| `Session` | who hands which runtime what, and when: both put together | EXTENDS `Remotes` |
| `RankedDuels` | Duels, Health's sides, the desk's calls | |
| `DuelAgreement` | a result signed, witnessed and put on chain by the town | EXTENDS `DuelRecords` |
| `Inventory` | Inventory.sol | implements `Holdings` |
| `Holdings` | abstract: things are claimed at a rung, handed over, discarded | |
| `Marketplace` | Marketplace.sol with UGC1155.sol | implements `Sales` |
| `Sales` | abstract: purses, prices and copies, a sale as one exact exchange | |
| `DuelRecords`, `Fishing` | the contracts of those names | |
| `AssetStore` | AssetStore.sol | |
| `Publishing` | Publish.gd: a place into the store, with failures and late transactions | EXTENDS `AssetStore` |
| `Lists` | arrays with swap-remove, filters and sums, shared by the others | |
| `DataProofs` | lemmas on lists, sums and counts | EXTENDS `Lists` |
| `ContractsProofs`, `DuelRecordsProofs`, `RankedDuelsProofs`, `EngineProofs`, `SessionProofs`, `WalletRequestsProofs`, `SchedulerProofs` | theorems | EXTEND the above |
| `MC*` | TLC's instances; `MCContracts` has Inventory, Marketplace, Fishing and Publishing side by side | EXTEND the above |

### How state and actions correspond to the code

*Replicator.*  `parent`, `status`, `value` are the tree; `log` is `changes_` from `repCursor`; `known`
is `known_`.  `Create`, `SetParent`, `Destroy`, `SetProperty` run while `~filtering` and append what
`DataModel::record` appends.  `EndFrame` starts the filter and `FilterChange` is one turn of its loop,
one disjunct to a branch of `Replicator::filter` (`FilterParent` alone has four).  `Join` empties and
rebuilds `known`.  Abstracted: a class, name and properties are one value; siblings have no order, so
a walk of a subtree is any depth-first order; properties that never replicate are left out.

*Replication.*  `Deliver` takes what a frame replicated to every member, `Welcome(c)` is
`dispatch_join`: the joiner gets the snapshot, the others what the frame had for them so far.
`Apply(c)` is one change of `DataModel::apply`, refused where the code refuses it; a Create whose parent
is refused leaves an orphan (`PlaceOf`).  `mixed` is a
history variable: some frame took away an instance clients had, and did more than that (section 7).

*RuntimeThread* and *FrameLoop.*  One action per stretch of code between two points where another
thread may be seen: every lock, every notify, every wait, and the unlocked middle of `runFrame`.
`worker[s]` is the worker's program counter and `host`, `side`, `task` the main thread's.  A job the
host queues becomes one change, one message to the client, and one answer back, so `NothingLost` can
follow all hands.  Spurious wake-ups are there.

*Scheduler.*  `stack` is the C++ stack: frames of the passes (`start`, `deferred`, `ready`, `wake`,
`child`, `fire`, `waiters`) and of running tasks.  `Resume` is `Impl::resume` with its three outcomes:
held still by the debugger (`Hold`), refused by the frame budget (`Requeue`), or run (`Run`).  A
running task's calls are the disjuncts of `ScriptRuns`; `Leave` is what `resume` does once the thread
yields.  `place` is chosen in `Init` from the constant `Places`: which scripts there are, which calls
they make, how many, and whether the host sets a frame budget.  One signal stands for all.

*WalletRequests.*  `order` and `asks` are Luau's, `mirror` the attribute as the host has it, `queue`
a loop's list, `work` the coroutines of `_handle_request`, each at the await it is suspended at.
Coroutines of one thread interleave only there, so `Poll` and `Handle` need every loop to be at an
await (`AllAwait`).

*RankedDuels.*  `duels` holds what is pending, live, called off or recorded; `busy` is Duels' table;
`sides` Health's; `standings` the data store's.  One action per handler; `Leave` runs Health's
PlayerRemoving handler before that of Duels, as the connection order has it.

*Joining.*  `peer` is the phase of a connection, `joinQueue`, `join` and `jobs` the world's; `frame`
says where the server's frame is, since the net is polled only while one is out (`Polling`).
`Submit` is the end of `_process` with `dispatch_join` in it, `AddPlayer`, `RemoveById`,
`RemoveByName` are jobs of the frame, `ApplyServer` is `apply_server`: the welcome, what the others
missed around the snapshot, then the frame's own packet (`Sent`).  Replication is counted, not
described: change n is n, a packet holds those after one and up to another.  Those are the changes that
go reliably; `net_flush_clients` sends the poses of parts that are moving already in unreliable packets behind
the frame's (`pulseblockz_world.cpp:13963`), which the model leaves out.

*Remotes* and *Session.*  One event and one function; `inbox`, `outbox`, `kept`, `pending`,
`answering` are the runtime's.  `Deliver` is `deliverRemote` with its three kinds, `HandOver` the
start of a step that finds a handler, `Answer` is `remoteReply`.  `heard`, `lost`, `failed` and
`firings` are history variables.  `Session` gives each action its place in a frame: a server frame
delivers, runs its jobs, steps; clients' frames are not told apart.

*DuelAgreement.*  `result` is what the data store keeps of the duel; `agreeing` and `witnessing` are
the visitors asked by `askEveryone` and `askWitnesses` who have not answered; `desk` is the errand of
a visitor at the Funmaster, with the copy of the result it read as it began.  Each action runs from
one yield to the next.  What a machine signs or sends is a step of `DuelRecords` at any time, the
answer the town gets to hear a step of its own (`Answers`, `Sent`) that may never come
(`DoesNotAnswer`, `DidNotGo`) or be a forgery.  `asked` is `witnessesAsked`, a list with an entry for each
bystander, in any order.

*AssetStore* and *Publishing.*  A file is a sequence of chunks.  `todo`, `uris`, `landed` are the
publisher's locals, `sent` the transactions not mined yet, `receipt` that of the one waited for.
`Fails` is every way `publish` returns early; the transaction it gave up on stays in `sent`.

*Contracts.*  One action per external function, enabled when the call does not revert.  Arrays are
sequences, mappings functions; an overflow check is a guard against the type's maximum, which is a
constant.  `opened` in Inventory is a history variable: the entries gifts opened.

## 4. The runs

Twelve runs; the three marked *violation* check one property each that a comment of the code states
and the code does not keep.

| run | properties | instance |
|---|---|---|
| `replication` | `CopyMatches KnownIsVisible` | 2 instances, a replicating and a hidden service, 2 clients, 2 operations a frame |
| `replication_two_moves` *violation* | `KnownIsWhatClientsHave` | the same with 1 client |
| `frame_loop` | `FrameOwnsItsInput NothingLost EveryJobComesBack HostComesBack` | 3 threads, 2 jobs |
| `scheduler` | `OnePlace ArgsKept NoDangling StoppedIsGone` | 3 tasks, 2 scripts, 1 connection, three kinds of place |
| `scheduler_live` | `WorkEnds` | the first of those places |
| `session` | `GhostsAreDoomed KeepsItsPlayer JoinerMissesNothing EachFiringArrives CallHasOneAnswer MessagesAreNotAhead OvertakesOnlyTheKept JoinsComeThrough` | 2 clients of different names, 3 acts of scripts, 2 firings kept |
| `session_twins` *violation* | `KeepsItsPlayer` | 2 clients of one name, no scripts |
| `wallet` | `InOrder HandledOnce AsksAreAnswered` | both channels, 2 or 3 requests, 2 numbers remembered |
| `ranked_duels` | `BusyIsOpen SealedIsLive ScoreIsFought StandingsAddUp PendingEnds` | 4 players on 2 accounts, 2 duels |
| `ranked_duels_quitter` *violation* | `QuitterLoses` | the same, to one frag |
| `duel_records` | `BothSidesAgreed CountsAddUp AgreementIsLast TownIsBehindTheChain WhatIsOfferedGoes` | 3 players, 2 duels, 4 drafts; each has a visitor in the town, where one of the duels was fought |
| `contracts` | `ListIsKnown GiftSlotsAreBacked ImplementsHoldings OffersListed ImplementsSales OneCatchPerCast ClaimsAreEarned ManifestIsWhole` | one of four at a time: 2 accounts, 3 items, lists of 2; 3 accounts, 1 asset, 2 tokens; 2 anglers, 2 species, 4 blocks; a place of 2 files, 4 blobs, 8 chunks |

### What they show, and why the bounds are enough

**replication.**  `KnownIsVisible`: between frames `known_` is the visible set (proved for any tree, section
6).  `CopyMatches`: a
client that has applied everything holds exactly the replicated tree, services apart that are its
own.  Two operations a frame are what it takes for a filtered change to meet the effect of a later one, and
two movable instances under two services give every shape that matters to the filter: an instance
entering, leaving, moving within, and being moved below one that does.  `OneByOne` bounds the rest:
properties other than default belong to one instance and to frames of one operation, and with both
clients present a frame has one operation; clients share nothing but the server, so the second only
shows what a join does to the first.  `CopyMatches` does not speak of `mixed` histories, and it is true of
frames as short as these: four moves among three instances can break it.  Section 7 says what happens in
both.  `QueueBound = 0` says a frame ends once clients are level with it: changes a
client has not applied yet do not influence the server.

**frame_loop.**  `FrameOwnsItsInput` is the claim of the comment in `runFrame`: while a frame runs,
nobody else touches `in_` and the ask queues, and submitting never overwrites what is not yet used.
`NothingLost` follows each job through every hand.  `EveryJobComesBack` and `HostComesBack` are its
liveness: no job stays somewhere unless the world is paused or closed, and `flush` and the destructor
return.  Two jobs are enough for one to overtake another; the safety properties are proved for
any number.  Deadlock is not an error here: a closed world has stopped.

**scheduler.**  Three places.  *Budgeted*: under a frame budget, one script with every way to wait,
start something and wake somebody, so that each loop meets a refusal and each queue is appended to
while it is walked.  *Stopping*: two scripts that stop and start each other and themselves, cancel,
connect, disconnect.  *Debugged*: breakpoints, with stops and cancellations while paused.  Three tasks
are one that runs, one that it does something to, and one that waits its turn between them; a slice
makes two or three calls (`fuel`), which bounds recursion.  `OnePlace`: each live thread is in the one
place its state says it is resumed from.  `ArgsKept`: it is resumed with the arguments it was given,
refused or not.  `NoDangling`: nothing points at a deleted Task.  `StoppedIsGone`: a stopped script
leaves no thread or connection behind.  Some calls are left out of these places because the code is
wrong about them; section 7 lists each.

**scheduler_live.**  Each pass of a step comes to its end under a frame budget, whatever the queues
it walks are given meanwhile.  Without WaitForChild, for the reason in section 7.

**wallet.**  A player alone: one wallet hears the town and the player's own scripts.  Two requests in
all, or three on the player's own channel of which the first is a read (which nobody awaits and that
makes the interleaving); with two numbers remembered of three the window of `_handled` slides.
`KeptAssumption` is what `HandledOnce` rests on: fewer requests are asked in the life of one than are
remembered (256 in the code, over 600 seconds at most).  `InOrder`: the writes of a channel never
overlap, and a transaction goes out under the nonce the node expects unless the other channel writes
too.

**ranked_duels.**  Four players and two challenges, so that duels run side by side, somebody is asked
twice, pairs fight, and one account has two players in one duel.  Two frags only in a single duel of
two, and at most two players leave.  `BusyIsOpen`, `SealedIsLive`: the three tables agree.
`ScoreIsFought`, `StandingsAddUp`: the score is the kills, and the standings the record summed up.
`PendingEnds`: no challenge hangs.

**session.**  Two clients, of which each may come, join, leave and be gone at any point of any frame.
What scripts do that others can tell is bounded by three acts with one client and two with both
(`Bounds`): an event fired, a handler connected or disconnected, a callback set, a function invoked, a
script stopped.  Three are enough for a firing that is kept, one that overtakes it or not, and the
handler both wait for; two firings are kept instead of 256, so that the third is dropped.
`EachFiringArrives` counts the places a firing is in on its way to each Player it was for: always one.
`CallHasOneAnswer` does the same for the Invoke and Result a parked thread is owed: neither a peer that
leaves and another of the same call number, nor a missing callback, leaves it without one or with two.
`MessagesAreNotAhead`: what a message was fired about has been replicated before it.  This and
`JoinerMissesNothing` speak of what goes reliably: the pose of a part that is moving goes in a later,
unreliable packet and may trail a message, or be lost until the part comes to rest.
`OvertakesOnlyTheKept`: order, with the one exception of the code, firings kept for a handler, which is
connected in the middle of a frame.  `GhostsAreDoomed`, `KeepsItsPlayer` and `JoinerMissesNothing` are
Joining's.  All six invariants and the order are proved for any number of clients.  `JoinsComeThrough`
is its liveness.

**duel_records.**  Drafts that contradict each other about one duel, one with somebody on both sides,
one of two against one; every way of signing, sending and witnessing them, and the town on top of it.
Three visitors are one of each side and a bystander, which is every part there is to play: the one who
agrees, the one who does not, the one who puts it on chain and the witness.  Bounds: only those named
in the two untrue drafts sign them, and from the end of the duel on nobody signs anything but what was
fought.  `TownIsBehindTheChain` holds whatever machines answer and however late; `WhatIsOfferedGoes`
says that what a wallet is asked to send would not revert, unless the duel is on chain already.  It
needs each visitor on an account of its own and no more bystanders than the contract takes; section 7
says what happens otherwise.

**contracts.**  Four contracts that share no state, so one behaviour uses one of them (`inUse`).
*Inventory*: two accounts, a free rung and one that is not; three items for lists of two of which one
is for gifts, so that every limit is met.  `ImplementsHoldings` is refinement: nothing is created but
by a claim whose rung the claimer stands on at that moment.  *Marketplace*: a creator, a buyer and the
fee address, any of whom may be the others in a sale; a fee of half, so that it rounds; prices and
quantities to three against a maximum of four, so that they overflow.  A second token is only listed
and taken off; swap-remove needs two entries.  An asset is either sold or re-pointed and frozen, since
neither reads what the other writes.  `ImplementsSales`: purses, copies and supply change as one exact
exchange, whoever coincides with whom.  *Fishing*: any number of calls in each of four blocks with a
bite of one or two and a window of one, so that a line is reeled early, in time, late, left out and
cast over; one ordinary species and the one that can be discovered.  *Publishing*: a file that goes in
one transaction and one that takes two and a registration, one transaction given up on still in flight
when the next is sent (`FewInFlight`), and others who publish the small file's bytes under the large
one's type and part of the large one's.  Four blobs are two files, a manifest and one of somebody
else's; eight chunks the same sent twice.

Every property has a mutant in `PROJECT.json`: a plausible bug in a mapped definition with which TLC
finds it violated.  Mutants stand before the definition they change and are used by nothing else.

## 5. Fairness

* `FrameLoop`: weak fairness of `_process` (the engine calls it every render frame), of the main
  thread's next step, and of each worker: the operating system runs every thread.  Nothing is
  assumed of jobs being queued, of pausing or closing, nor that spurious wake-ups happen.
* `Scheduler`: weak fairness of the native thread that runs the loops and the scripts.  A script that
  never yields is stopped by its time slice, which `fuel` stands for.  Neither the host's next step
  nor the debugger is assumed.
* `WalletRequests`: weak fairness of frames, deliveries and the loops' synchronous work; strong
  fairness of the polling timers and of each coroutine's continuation, since a coroutine that is due
  is held up only while another runs to its next await, which happens again and again but never for
  good.  The player answers a prompt one way or the other and the node replies or fails (the
  wallet's calls have time limits).
* `Session`: weak fairness of the host and the server's frame together (submit, each step of the
  frame, apply): the engine calls `_process` on every render frame and the runtime's thread goes
  through the frame it is given.  No client has to connect, name itself, read or stay.
* `RankedDuels`: weak fairness of `Expire`: a `task.delay` runs.  Nobody has to accept, fight or leave.

The contracts have no liveness: nobody has to call, sign, or publish again.

## 6. Proofs

Machine-checked by TLAPS, for every value of the constants the `ASSUME`s allow.  In each case the
inductive invariant was first checked by TLC on the states of the run that states the property.

**Data** (`DataProofs`).  The models are made of lists, sums over finite sets, counts of messages and
concatenated batches; what these operators compute is a matter of induction, and the induction theorems
of the library take the claim as an operator, which the provers cannot instantiate. `SetInduction` says
it of a set instead: a set with 0 in it that is closed under successor has all of `Nat`, because
less-than is well-founded (`WFMin`, which takes no operator).  `FiniteSetInduction` and `SeqInduction`
follow, and with them the equations of sums (`SumUnfolds`, `SumChanged`, `SumUnion`), of filters of a
list (`WithinAppend`, `WithinOrdered`), of counts (`CountAppend`, `CountTail`) and of concatenation
(`FlattenAppend`), and what becomes of a line of four lists when one of them hands on to the next, loses
an element or is said something (`LineThinned`, `LineReceived`, `LinePosts`, `LineGoes`).  Where an
operator of a community module takes an operator (`MapThenSumSet`, `SelectSeq`), `Lists` has the same
thing of a function or a set (`SumFunction`, `Within`, `Without`), which can be proved about.

**Inventory** (`ContractsProofs`), from `InventoryAssumption` (finite data and tiers, natural limits,
`Seed` small enough for a list).  `InventoryTyped`, `ListCorrect` and `HeldCorrect` follow from one
inductive invariant, `InventoryInv == InventoryTypeOK /\ ListIsKnown /\ HeldIsListed /\ DataIsOwn`.
`ListIsKnown` (the array is the mapping's true keys, each once, no longer than the limit) rests on two
lemmas of `DataProofs`: appending a new entry and swap-removing one keep an array in step with a set.
`DataIsOwn` strengthens `HeldIsListed`: an entry listed anew may find data an earlier holder left, so
the data has to be right for items nobody lists.  `GiftSlotsCorrect` adds `GiftSlotsAreBacked`, by
cardinalities of the entries gifts opened.  `Refinement` is `InventorySpec => ImplementsHoldings`: each
function maps to a step of `Holdings` or to a stutter.

**Marketplace** (`ContractsProofs`), from `MarketplaceAssumption` (the fee is at most the whole price,
nobody is no account, naturals).  `OffersCorrect` and `FrozenStays` come from
`MarketInv == MarketTypes /\ OffersListed /\ FrozenIsRegistered`: the list follows the price by the
same two lemmas, and a registration cannot thaw anything because only registered ids were ever frozen.
`SalesRefinement` is `MarketSpec => ImplementsSales`.  Its heart is `PaidIsSettled`: two transfers one
after the other come, account by account, to what `Sales` says at once, in all the ways buyer, creator
and fee address can coincide, and the buyer had the whole price.

**Fishing** (`ContractsProofs`), from `FishingAssumption` (windows are naturals, nobody is no angler).
`ClaimsEarned` needs only the types of what claims are worked out from (`ClaimTypes`): a catch grows
one count and, with no discovery yet, the claim with it; a claim is made by the last of its kind.
`DiscoveryStays` is the action property from the same invariant, `ClaimInv`.  `CastsRolledOnce` and
`BlocksLimitCatches` sum an angler's catches over the species: a catch is one more in the sum, the line
out one less to come, and a line is reeled in a later block than the one it was cast in (`CastInv`).

**Publishing** (`ContractsProofs`), from `PublishingAssumption`: finitely many files, and neither a
file nor what others publish looks like a manifest of the place.  `ManifestsAreWhole` rests on
`PublishInv`: blobs stay; the manifest is last in `todo` and a path that is not to go has its blob
(`ToGo`); whatever is on its way to the chain names, if it is a manifest, blobs that are there already
(`OnItsWay`), which is why one that lands long after the publisher gave up on it does no harm; and what
the publisher waits for, or has the receipt of, is the next in its list (`WaitsForNext`).  The last is
what makes it right to note the receipt's id under the path at the front.

**DuelRecords** (`DuelRecordsProofs`), from `DuelAssumption` (results are drafts, none is the absence
of one).  `RecordInv` adds to `BothSidesAgreed` and `WitnessesWereThere` only that the two maps are
maps, since signatures and events are never forgotten; `Distinct` is what makes the caller and the
signer two people.  `RecordsStay` is `Spec => AgreementIsLast`.  `CountsCorrect` is `Booked`, twice: the
results filed are finitely many and each count is their sum, so that filing one adds its part to
everybody in it.  `TownUsesContract` says that the town over the contract is still the contract, so all
of this holds with the town on top.

**DuelAgreement** (in the same module), from `VisitorAssumption` too (visitors have accounts, the duel
fought is a result, no signature is a player by mistake; visitors are finitely many); any number of
them, also several on one account.  `TownInv` says that every signature the town keeps, or has copied
for an errand, is the one of the account it is kept for and was made over the duel fought; that
witnesses asked were in neither team; and what an errand may hold at each of its places.
`TownFollowsTheChain` rests on `ChainGrows` (what is recorded is never taken back, so an old reading
still holds) and `OffersSigned` says of every transaction a wallet is asked to send that its signer is
of the other team, or outside both.  That it would then not revert (`WhatIsOfferedGoes`) needs the
limits of the contract as well and is left to the run.

**RankedDuels** (`RankedDuelsProofs`), from `PlayerAssumption` (finitely many players),
`WalletAssumption`, `LimitAssumption`; any number of challenges.  `BusyCorrect`, `SealsCorrect` and
`ResultsStay` are about the three tables.  `ScoreCorrect` adds `Fair` of every duel: the teams are
disjoint, a team's frags are the sum of its players' kills, and while a duel is live neither side has
reached the limit, so that the kill that reaches it ends it and only for the killer's side.
`StandingsCorrect` adds `TallyInv`: an account's standings are its results added up.  A duel that ends
is one more result for everybody who fought in it, also where one account has two players in it, and
`ResultsStay` is why those added before need not be added again.

**FrameLoop** (`EngineProofs`), from `MaxJobs \in Nat` only.  The inductive invariant is
`Inv == TypeOK /\ (\A s : HandsOver(s)) /\ HostKnows /\ Closing /\ NothingLost`.  `HandsOver(s)` says
what a worker's program counter implies about the mutex-protected flags and the unlocked frame;
`HostKnows` what the main thread, at each of its places, knows about both runtimes (that between the
poll and the submit both are idle and empty is why the unlocked moves are safe); `Closing` the same
for the destructor.  `InputOwned` follows at once.  `RoundTrip` needs `NothingLost` itself in the
invariant: on every step one segment of the path moves to its neighbour while those between are known
to be empty, shown by associativity of concatenation segment by segment (`Merge`, `Slide`, `Paths`).

**Replicator** (`EngineProofs`), from `InstanceAssumption` (finitely many instances, the root and "no
parent" none of them); any tree, any depth, any number of operations in a frame.  `KnownCorrect` says of
the end of a pass what no step of it restores by itself, since the filter reads where an instance is now
and the log where it went.  What carries over is in `FilterInv`: nothing is below itself (`Acyclic`), what
is not alive is outside (`Grown`), and, once somebody has joined, of each instance one of two things.  It
is known and clients were told of its parent, or not known and they were not, or else a change of its own
is still in the log (`KnownOrDue`, `UnknownOrDue`).  While the filter runs the second is claimed of
visible instances only: an instance whose parent was forgotten goes with it.  When the log is empty nothing
is due, and a known instance that is not visible would have a known parent that is not visible, and so
on up, against `Acyclic`.  That the log of a destruction has a change for each instance under it
(`DestroyLogged`) is a fact about lists of lists, for which see `FlattenHas`.  A walk is stated as the sets
closed under it, so no lemma needs induction over its length.  `KnownWithClients` says that the server with its
clients is still the server.

**WalletRequests** (`WalletRequestsProofs`), from `BoundAssumption` and `KeptAssumption` (no more
requests are asked in the life of one than the wallet remembers).  `Numbered` relates, for each channel,
the list Luau has, the copy the host has, what is left of the list a loop read and the numbers taken:
each is increasing, an older version of the one before, and no two of its numbers are `SPAN` apart.
`Remembers` says `handled` holds the last numbers taken, all `KEPT` of them once any is forgotten.
`RequestsHandledOnce` is then counting (`ListsGrow`): a number that was forgotten is at least `KEPT` below
the last taken, and what a list still has is less than that below it.  `WritesInOrder` is about coroutines:
at most one of a channel is at a place where it signs, and its loop awaits it.

**Scheduler** (`SchedulerProofs`), from `SchedulerAssumption` and `PlacesAssumption`; any threads,
scripts, connections and depth of the C++ stack, in places that are `Sound`: their scripts make none of
the calls section 7 shows the code to get wrong (and set no breakpoint where one thread resumes another).
All three places of the run are `Sound`.  `SchedulerInv` is `Base /\ Hooking /\ Flat` with the types.
`Base` has `Settled`, which says for every thread at once, by its state, in which queue or which frame of
the stack it is and nowhere else, with its arguments where it was turned away; `Distinct`, that no queue has
anything twice; `Lasting`, that a live thread is of an enabled script or finishes its slice; and `Calling`,
that no loop is about to call a connection of a stopped one.  Its last argument is the threads excepted
while they change hands in the middle of an action, since one action is several calls of the C++ code, each
with a lemma of its own.  `EachThreadInOnePlace`, `NoTaskDangles`, `ArgumentsKept` and
`StoppedScriptsAreGone` follow from it.

**Session** (`SessionProofs`), from `JoiningAssumption` and `RemotesAssumption`; any clients, names,
acts.  `NextIsJoining` reduces every step to one of Joining or to none.  `GhostsGo` and `PlayersAreKept`
share `JoinInv`, which says where a client is at each phase: queued, then the one whose join is under
way, then joined; that the "add" of a frame is its last job, so a join is made once; and that whoever
has a Player has got that far.  `PlayersAreKept` adds `KeepInv` (a removal that is waiting is of
somebody who has left) and assumes that names differ (`NamesDiffer`): the run `session_twins` shows
that they must.  `NobodyMisses` adds `ToldInv`: what each joined client has and has on the wire is a
chain of packets that ends at `Base`, where the frame in hand, or the join it made, takes over.  That
the chain holds is shown by what appending and receiving do to one (`ChainGrows`, `ChainShrinks`), with
no induction over its length.

Three more are about messages, from `MessageInv` (types, who a message can be of, which lists are empty
when).  `NothingIsAhead` adds `AheadInv`: no message in a list speaks of a later change than those behind
it, and each packet's have been replicated with it.  `FiringsArrive` counts: `Down` is how often a firing
is on its way down to a client, in the server's outbox, the report, the packets and the inbox, `Up` the way
to the server, `Held` what is kept or was dropped; `FlowInv` says they and what was heard are one for
everybody it was for, and `Present` who that is in the middle of a join.  Each step moves one message from one
summand to the next.  `CallsAreAnswered` is `RoutesInv`: of each call number there is at most one
carrier (Invoke, answering thread, Result, or none since the other end left), none of a number not yet
given out, and one wherever a thread is parked; `Directed` says messages of calls go where their player is.

The last is about order.  `FiringsInOrder` is `Spec => OvertakesOnlyTheKept`, from `InOrderInv`, five
conjuncts over all of the above.  `OrderInv` lays what is on its way to an end out as one line: what the
end keeps for a handler, what it was handed, what is on the way (`DownLine`: packets, then the report;
`UpLine`: what was posted), what its sender has said; along it the numbers of the firings
only grow, on the way up those of one client.  A frame, a packet or a report then moves a boundary of
the line and no message; a step that drops or hands over takes messages out of it
(`Thinner`), and one that fires puts the newest at its end.  What is heard next was the head of the inbox
or was kept, so an earlier firing of the same sender is nowhere behind it in the line, and by `FlowInv`
it is then kept, heard or dropped, which is what the property says.  Three conjuncts are needed to say whose
a message is: a client's carries no Player until the host stamps it (`Unstamped`), the stamp is the
client that fired it (`KeptFrom`), and one that is gone hears no more (`Hushed`).  The fifth is for the
firings `FlowInv` does not count: those that went with their client before they reached the server.
`LostBehind` says such a firing took with it all that its client had fired after it, so it is
not overtaken either.  `FlowsOrFires`, each step either moves the firings there are or fires one, serves
both this and `FiringsArrive`.

**Only model-checked**: all liveness, since it needs fairness and `ENABLED`; `CopyMatches`, which is
no theorem, since frames of four moves break it (section 7); `WhatIsOfferedGoes`, stated with `ENABLED`; and
the violations.  Every other invariant and action property a run checks is a theorem.

## 7. Where the code and its comments part

Three runs show a violation:

* **`replication_two_moves`.**  `luau/src/rbx_net.h:77` says of `known_` "ids every client has, == the
  visible set between frames".  A script moves A out of the replicated tree and, in the same frame,
  moves a replicated X under A.  The filter handles A's change first: `forgetSubtree(A)`
  (`rbx_net.cpp:142`) walks A's children as they are *now* and erases X; X's own change then finds it
  neither visible nor known and sends nothing.  The clients keep X for good.  The other order loses an
  instance.  `CopyMatches` therefore speaks of histories without such a frame.
* **`ranked_duels_quitter`.**  `Duels.luau:338` says "Walking out, or asking to stop: the other side
  wins it as it stands."  `forfeit` asks Health which side the leaver was on, but Health's own
  PlayerRemoving handler was connected first and has forgotten it; the answer is read as team B, so
  whoever leaves a live duel, team A wins it, the leaver's own side included.
* **`session_twins`.**  `pulseblockz_world.cpp:13795` says of removing a Player "By id, not name: two
  clients may share a name, and the one leaving must not take the other's Player with it."  A client
  that leaves before its welcome has no id yet and is removed by name: the first child of that name,
  which is the Player of the other, who stays without one.

Others were met while modelling.  They are not runs, but each can be seen with one change to a
configuration.  For the scheduler replace `EveryPlace` in `scheduler.cfg` by the named definition of
`MCScheduler`, drop the symmetry, and check the one property; the flags those places add lift a
bound of the model that keeps the passing run clear of the fault.

| see it with | property | code | comment |
|---|---|---|---|
| `Cancelling` | `NoDangling` | `task.cancel` of a thread in `Signal:Wait` leaves it among the signal's waiters (`rbx_runtime.cpp:2545`); the next fire reads a deleted Task | 638: "a stale entry would resume this deleted Task" |
| `StoppingDue` | `NoDangling` | a thread already taken out of the sleepers by `wakeSleepers` (1309) is stopped by one resumed before it | 638 |
| `SpawningAsleep` | `NoDangling` | `task.spawn` of a sleeping thread that then returns leaves it in `sleepers` (2515) | 638 |
| `Disconnecting`, with `Conn = {c1, c2}` | `HandlersHeld` | a handler disconnects another of the signal being fired; the snapshot still calls it (1391) | `rbx_api.cpp:8929`: "erasing during a fire is safe" |
| `OutlivingStop` | `StoppedIsGone` | what a thread starts after it stopped its own script is not marked (888) | 879: "ends every thread it started" |
| `BreakingTwice` | `OnePlace` | a thread spawned from another stops at a breakpoint, then its caller does: the first is nobody's (763) | `rbx_internal.h:260`: "Parked ... until debugContinue or debugStep resumes it" |
| `AwaitingChild`, with `FairSpec` | `WorkEnds` | a refused WaitForChild thread goes to the end of the list being walked, and is met again, for ever (1325, 729); needs a frame budget, off by default | `luau_sandbox.h:93`: "for a retry next frame" |
| `BreakingOnce`, with `FairSpec` | `WorkEnds` | with two threads ready while one is at a breakpoint `runReady` turns them round for ever (1286) | 687: "this runs, args and all, when it lets go" |
| `LevelSpec` of `MCReplication` under `OneFrameOfMoves`, three instances, `Service <- MCService1`, `OpsPerFrame = 4` | `CopyMatches` | D holds A holds B; in one frame A goes to the Workspace, B too, D into A, A into B. Each change goes out with where its instance is at the end (`rbx_net.cpp:134`): A into B and D into A are refused as circular in the client's older tree (`rbx_instance.cpp:3111`), A is sent once more and D is not, so D stays outside A for good | `luau/README.md:75`: "The server's tree flows down to every client" |
| `contracts.cfg` | `GiftsWithinReserve` | `forget` frees a gift slot for an entry its owner opened (`Inventory.sol:178`), so gifts take more of a list than is set aside | 60-63: "the worst it does is use up the space reserved for presents" |
| `contracts.cfg`, with `MaxBlobs = 5` | `LandedIsKept` | the blob of a file's bytes is the first ever published (`BlobOf`, AssetStore.sol); when that one has another type, `plan` does not find the second, which is ours (`Publish.gd:227`) and sends it again, each time | `Publisher.gd:140`: "Whatever landed is kept: Check again and it will not be sent twice" |
| `duel_records.cfg`, with `MaxWitnesses = 0`; or with `Visitor = {1, 2, 3, 4}`, `AddressOf <- CatTwice` | `WhatIsOfferedGoes` | `witnessSignatures` gives the contract a signature for every bystander asked, which reverts over `MAX_WITNESSES` (16 in the code; none here, there being one bystander), and when two of them have signed in with one wallet, whose one signature is counted and sent twice | `Duels.luau:631`: "a witnessed result can go on chain too" |
| `wallet.cfg` | `PollsAlone` | a read of the player's own scripts clears `_buying` under a transaction of the town (`Wallet.gd:598`) | 402: "one at a time" |
| `wallet.cfg` | `RefreshWaits` | the same flag lets the refresh begin | 440: "Never while a request is in flight" |

## 8. Not modelled

* **Pure functions over bytes or numbers**: signing, ABI, EIP-712, wire formats, decimals, meshes,
  geometry, path finding.  No order of events to get wrong, and the repository has vectors.
* **Rendering, physics, input, interface scripts, the applications' front ends**: redrawn from a
  report or from replicated state; what they keep does not outlive a frame.
* **Engine API**: some hundred classes, sequential, covered call by call by the harness.
* **Data stores**: a call reads or writes whole; `RankedDuels` uses one as an atomic variable.
* **Small contracts** (`Duelling`, `Announcements`, `Forwarder`) and the test contracts.
* **The relay bridge and curation**: the bridge checks a signed request and sends one transaction; a
  replay is the forwarder's business, which is OpenZeppelin's.  Curation is pure list logic.
* **ScriptWorker**: used only by the harness and a node the extension does not register.
* Within modelled components, `PROJECT.json` says what each leaves out: the wire encoding and
  NoReplicate properties, the unreliable packets with the poses of moving parts, what client scripts do
  to their own copy, `require`, tweens and other host answers that resume a thread, what the wallet's
  actions encode or show, the sign-in between hello and the join, what becomes of a remote's arguments,
  and the client's side of assets (fetching by hash, mounting).

## 9. What a next step would be

1. **`CopyMatches` for frames in which every instance moves once**: which frames the filter gets right, a
   question to settle before there is anything to prove of a copy.
2. **Composition of `Session` with `Replication`**, the counted changes of the one being the batches of
   the other; today each abstracts what the other describes.
3. **The editor's undo history** (`History.gd`) and **Rpc's lanes** (`Rpc.gd`): small state machines
   with retries, beside the program's main path.

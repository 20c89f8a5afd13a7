------------------------------ MODULE Joining ------------------------------
(***************************************************************************)
(* How network clients become players of a PulseBlockzWorld and stop being  *)
(* ones (luau/gdextension/src/pulseblockz_world.cpp).                       *)
(*                                                                         *)
(* The host's thread polls the net on every render frame, while the server  *)
(* runtime runs a frame on a thread of its own; when that frame is back it  *)
(* is applied, a join may be dispatched, and the next one is submitted, with *)
(* no poll in between.  A frame delivers what the host was sent, runs its    *)
(* jobs, which make and remove Players, and then steps the scripts.         *)
(*                                                                         *)
(* What is replicated is counted, not described: the n-th change ever made  *)
(* is n, a snapshot holds the changes up to one, a packet those after one   *)
(* and up to another.  A connection is one Client, so a person who comes    *)
(* back is another one, of the same name.  The server runtime never refuses *)
(* a Player.  Left out: Play Solo's own join, and sign-in.                  *)
(*                                                                         *)
(* The changes counted are those that go reliably.  The poses of parts that *)
(* are moving already go in packets of their own, unreliable and behind the *)
(* frame's, which may be lost; where a motion begins or ends is reliable.   *)
(***************************************************************************)
EXTENDS Integers, Lists

CONSTANTS Client,
          Nobody,       \* a null Join, or the peer of one whose client left
          Name,
          NameOf,       \* what a client calls itself in its Hello
          MaxActs       \* bound: what scripts do that others can tell

ASSUME JoiningAssumption ==
    /\ Nobody \notin Client
    /\ NameOf \in [Client -> Name]
    /\ MaxActs \in Nat

VARIABLES
    peer,       \* clients_: who is connected, has said its name, has joined
    joinQueue,
    join,       \* join_
    jobs,       \* jobs_, for the next frame
    frame,      \* "apply": the host is between two frames; "run", "step"; "report"
    given,      \* jobs the running frame has left
    players,    \* children of Players, oldest first, each by its client
    made,       \* changes the runtime has made
    taken,      \* changes taken for replication
    acts,       \* acts of scripts, for the bound
    report,     \* the frame's FrameOut: changes after `from' up to `to', remotes
    wire,       \* packets on their way to a client
    have        \* changes a client has been told of, or -1 before its Welcome

hostVars == <<peer, joinQueue, join, jobs>>
frameVars == <<frame, given, players, made, taken, acts, report>>
wireVars == <<wire, have>>
joiningVars == <<hostVars, frameVars, wireVars>>

NoJoin == [who |-> Nobody, peer |-> Nobody, done |-> FALSE, before |-> 0, asOf |-> 0]
NoReport == [from |-> 0, to |-> 0, remotes |-> <<>>]

Adding(c) == [do |-> "add", who |-> c]
Removing(c) == [do |-> "remove", who |-> c]
RemovingNamed(n) == [do |-> "remove named", name |-> n]

JoiningInit ==
    /\ peer = [c \in Client |-> "away"]
    /\ joinQueue = <<>>
    /\ join = NoJoin
    /\ jobs = <<>>
    /\ frame = "apply"
    /\ given = <<>>
    /\ players = <<>>
    /\ made = 0
    /\ taken = 0
    /\ acts = 0
    /\ report = NoReport
    /\ wire = [c \in Client |-> <<>>]
    /\ have = [c \in Client |-> -1]

-----------------------------------------------------------------------------
(***************************************************************************)
(* net_poll.                                                               *)
(***************************************************************************)
Polling == frame # "apply"

Connect(c) ==
    /\ Polling /\ peer[c] = "away"
    /\ peer' = [peer EXCEPT ![c] = "connected"]
    /\ UNCHANGED <<joinQueue, join, jobs, frameVars, wireVars>>

Hello(c) ==
    /\ Polling /\ peer[c] = "connected"
    /\ peer' = [peer EXCEPT ![c] = "named"]
    /\ joinQueue' = Append(joinQueue, c)
    /\ UNCHANGED <<join, jobs, frameVars, wireVars>>

\* A Player is removed by its id once the host knows it, before that by its name.
Removal(c) == CASE peer[c] = "joined" -> <<Removing(c)>>
                [] peer[c] = "named"  -> <<RemovingNamed(NameOf[c])>>
                [] OTHER              -> <<>>

Leave(c) ==
    /\ Polling /\ peer[c] \in {"connected", "named", "joined"}
    /\ peer' = [peer EXCEPT ![c] = "gone"]
    /\ joinQueue' = RemoveFirst(joinQueue, c)
    /\ join' = IF join.peer = c THEN [join EXCEPT !.peer = Nobody] ELSE join
    /\ jobs' = jobs \o Removal(c)
    /\ wire' = [wire EXCEPT ![c] = <<>>]
    /\ UNCHANGED <<frameVars, have>>

(***************************************************************************)
(* The client's end.                                                       *)
(***************************************************************************)
Receive(c) ==
    /\ wire[c] # <<>>
    /\ wire' = [wire EXCEPT ![c] = Tail(@)]
    /\ have' = [have EXCEPT ![c] = Head(wire[c]).to]
    /\ UNCHANGED <<hostVars, frameVars>>

-----------------------------------------------------------------------------
(***************************************************************************)
(* The host between two frames: dispatch_join, one at a time, then submit.  *)
(***************************************************************************)
Dispatches == join = NoJoin /\ joinQueue # <<>>

Submit ==
    /\ frame = "apply"
    /\ frame' = "run"
    /\ jobs' = <<>>
    /\ IF Dispatches
       THEN LET c == Head(joinQueue)
            IN  /\ join' = [NoJoin EXCEPT !.who = c, !.peer = c]
                /\ joinQueue' = Tail(joinQueue)
                /\ given' = Append(jobs, Adding(c))
       ELSE given' = jobs /\ UNCHANGED <<join, joinQueue>>
    /\ UNCHANGED <<peer, players, made, taken, acts, report, wireVars>>

(***************************************************************************)
(* The frame.                                                              *)
(***************************************************************************)
NextJob(job) ==
    /\ frame = "run" /\ given # <<>> /\ job = Head(given)
    /\ given' = Tail(given)
    /\ UNCHANGED <<peer, joinQueue, jobs, frame, acts, report, wireVars>>

\* Mutant of AddPlayer: the changes before the snapshot are left for the frame's report.
AddPlayerUntaken(c) ==
    /\ NextJob(Adding(c))
    /\ players' = Append(players, c)
    /\ made' = made + 1
    /\ join' = [join EXCEPT !.done = TRUE, !.before = taken, !.asOf = made']
    /\ UNCHANGED taken

AddPlayer(c) ==
    /\ NextJob(Adding(c))
    /\ players' = Append(players, c)
    /\ made' = made + 1
    /\ join' = [join EXCEPT !.done = TRUE, !.before = taken, !.asOf = made']
    /\ taken' = made'

RemovePlayer(c) ==
    /\ players' = RemoveFirst(players, c)
    /\ made' = IF c \in Range(players) THEN made + 1 ELSE made
    /\ UNCHANGED <<join, taken>>

RemoveById(c) == NextJob(Removing(c)) /\ RemovePlayer(c)

\* findFirstChild: the place of the oldest Player of that name, or 0.
Called(n) == SelectInSeq(players, LAMBDA c : NameOf[c] = n)

RemoveByName(n) ==
    /\ NextJob(RemovingNamed(n))
    /\ IF Called(n) = 0 THEN UNCHANGED <<players, made, join, taken>>
                        ELSE RemovePlayer(players[Called(n)])

Stepping ==
    /\ frame = "run" /\ given = <<>>
    /\ frame' = "step"
    /\ UNCHANGED <<hostVars, given, players, made, taken, acts, report, wireVars>>

\* Scripts act at any time of a frame: in its deliveries, its jobs and its step.
Acting == acts < MaxActs /\ acts' = acts + 1

ServerActs == frame \in {"run", "step"} /\ Acting

Change ==
    /\ ServerActs
    /\ made' = made + 1
    /\ UNCHANGED <<hostVars, frame, given, players, taken, report, wireVars>>

\* The take of what the frame says.
EndFrame(remotes) ==
    /\ frame = "step"
    /\ frame' = "report"
    /\ taken' = made
    /\ report' = [from |-> taken, to |-> made, remotes |-> remotes]
    /\ UNCHANGED <<hostVars, given, players, made, acts, wireVars>>

-----------------------------------------------------------------------------
(***************************************************************************)
(* apply_server.  A finished join gives its client a Welcome with the       *)
(* snapshot, the others what was replicated before it; then all of them get *)
(* the frame's report.                                                     *)
(***************************************************************************)
Joining == join.done
Welcomes(c) == Joining /\ join.peer = c

Packet(from, to, remotes) == [from |-> from, to |-> to, remotes |-> remotes]

\* net_flush_clients sends nothing when there is nothing to send.
\* The reliable packet of net_flush_clients.
Flush(from, to, remotes) ==
    IF from = to /\ remotes = <<>> THEN <<>> ELSE <<Packet(from, to, remotes)>>

For(c, ms) == Within(ms, {m \in Range(ms) : m.player \in {Nobody, c}})
RemotesFor(c) == For(c, report.remotes)

\* Mutant of Sent: a joiner is given the messages with its Welcome, before the frame's changes.
SentWelcoming(c) ==
    CASE Welcomes(c) ->
            <<Packet(-1, join.asOf, RemotesFor(c))>> \o Flush(report.from, report.to, <<>>)
      [] peer[c] = "joined" /\ ~Welcomes(c) ->
            Flush(IF Joining THEN join.before ELSE report.from, report.to, RemotesFor(c))
      [] OTHER -> <<>>

Sent(c) ==
    CASE Welcomes(c) ->
            <<Packet(-1, join.asOf, <<>>)>> \o Flush(report.from, report.to, RemotesFor(c))
      [] peer[c] = "joined" /\ ~Welcomes(c) ->
            Flush(IF Joining THEN join.before ELSE report.from, report.to, RemotesFor(c))
      [] OTHER -> <<>>

\* Mutant of LeftBefore: the Player made for a client that has left is kept.
LeftBeforeKept == <<>>

\* Mutant of LeftBefore: whoever has left, it is done for every join.
LeftBeforeAny == IF Joining THEN <<Removing(join.who)>> ELSE <<>>

\* Gone before the welcome: the Player its join made is removed.
LeftBefore == IF Joining /\ join.peer = Nobody THEN <<Removing(join.who)>> ELSE <<>>

\* Mutant of AfterJoin: a join whose client has left is kept.
AfterJoinWelcomed == IF Joining /\ join.peer # Nobody THEN NoJoin ELSE join

AfterJoin == IF Joining THEN NoJoin ELSE join

ApplyServer ==
    /\ frame = "report"
    /\ frame' = "apply"
    /\ peer' = [c \in Client |-> IF Welcomes(c) THEN "joined" ELSE peer[c]]
    /\ wire' = [c \in Client |-> wire[c] \o Sent(c)]
    /\ jobs' = jobs \o LeftBefore
    /\ join' = AfterJoin
    /\ report' = NoReport
    /\ UNCHANGED <<joinQueue, given, players, made, taken, acts, have>>

-----------------------------------------------------------------------------
RunJob == \/ \E c \in Client : AddPlayer(c) \/ RemoveById(c)
          \/ \E n \in Name : RemoveByName(n)

-----------------------------------------------------------------------------
(***************************************************************************)
(* Properties.                                                             *)
(***************************************************************************)
\* A Player whose client has left is on its way out: its join is still to be settled, or a job to
\* remove it is waiting, whichever of the poll, the frame and the apply the client left in.
GhostsAreDoomed ==
    \A c \in Range(players) :
        peer[c] = "gone" => join.who = c \/ Removing(c) \in Range(jobs) \cup Range(given)

\* A client that has joined keeps its Player as long as it stays, whoever else comes and goes.
KeepsItsPlayer == \A c \in Client : peer[c] = "joined" => c \in Range(players)

\* What a joined client is sent starts where what it has ends, packet after packet, and between
\* two frames it reaches up to the last change: of those that go reliably none is missed around its
\* join, none sent twice.
Told(c) == IF wire[c] = <<>> THEN have[c] ELSE Last(wire[c]).to

JoinerMissesNothing ==
    \A c \in Client : peer[c] = "joined" =>
        /\ \A i \in DOMAIN wire[c] :
              wire[c][i].from = IF i = 1 THEN have[c] ELSE wire[c][i - 1].to
        /\ frame = "apply" => Told(c) = made

\* Whoever says its name gets a Player and a Welcome, unless it leaves.
JoinsComeThrough ==
    \A c \in Client : peer[c] = "named" ~> peer[c] \in {"joined", "gone"}
=============================================================================

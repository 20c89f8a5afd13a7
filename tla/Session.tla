------------------------------ MODULE Session ------------------------------
(***************************************************************************)
(* A server, the clients that join and leave it, and the remote messages    *)
(* between their scripts: Joining and Remotes put together the way           *)
(* pulseblockz_world.cpp and rbx_host.cpp do.                               *)
(*                                                                         *)
(* The host hands a frame of the server what clients have sent since the     *)
(* last one, all of it before the jobs; what the frame says goes out with    *)
(* what it replicates, when the host has it back.  Clients' frames are not   *)
(* told apart: a client's scripts run whenever it has been welcomed.        *)
(***************************************************************************)
EXTENDS Remotes

VARIABLES
    posted,     \* toServerRemotes_: for the server's next frame
    firings     \* history: every firing, and who it was for at that time

vars == <<joiningVars, remoteVars, posted, firings>>

Init == JoiningInit /\ RemotesInit /\ posted = <<>> /\ firings = {}

Quiet == UNCHANGED <<posted, firings>>
NoRemotes == UNCHANGED <<remoteVars, posted, firings>>

-----------------------------------------------------------------------------
(***************************************************************************)
(* The host.                                                               *)
(***************************************************************************)
Connected(c) == Connect(c) /\ NoRemotes
Named(c) == Hello(c) /\ NoRemotes
Left(c) == Leave(c) /\ Closes(c) /\ Quiet

\* A message of a client, in a ClientFrame of one that has joined; it is stamped with its Player.
Posts(c) ==
    /\ Polling /\ peer[c] = "joined" /\ outbox[c] # <<>>
    /\ posted' = Append(posted, [Head(outbox[c]) EXCEPT !.player = c])
    /\ outbox' = [outbox EXCEPT ![c] = Tail(@)]
    /\ UNCHANGED <<joiningVars, inVars, callVars, firings>>

Submits ==
    /\ Submit
    /\ inbox' = [inbox EXCEPT ![Server] = posted]
    /\ posted' = <<>>
    /\ UNCHANGED <<outbox, kept, hears, heard, lost, callVars, firings>>

Applies == ApplyServer /\ NoRemotes

(***************************************************************************)
(* The server's frame.                                                     *)
(***************************************************************************)
Delivering == frame = "run" /\ inbox[Server] # <<>>

ServerDelivers == Delivering /\ Deliver(Server, made) /\ Quiet /\ UNCHANGED joiningVars

RunsJob == ~Delivering /\ RunJob /\ NoRemotes

StepBegins ==
    /\ ~Delivering /\ Stepping /\ Quiet
    /\ \/ HandOver(Server)
       \/ NothingToHandOver(Server) /\ UNCHANGED <<inbox, outbox, callVars>>

\* Mutant of FrameEnds: what the frame said is reported and stays.
FrameEndsKeeping == EndFrame(outbox[Server]) /\ NoRemotes

FrameEnds ==
    /\ EndFrame(outbox[Server])
    /\ outbox' = [outbox EXCEPT ![Server] = <<>>]
    /\ Quiet /\ UNCHANGED <<inVars, callVars>>

(***************************************************************************)
(* A client.                                                               *)
(***************************************************************************)
\* Mutant of Receives: a later packet's messages are put before an earlier one's.
ReceivesBefore(c) ==
    /\ Receive(c)
    /\ inbox' = [inbox EXCEPT ![c] = Head(wire[c]).remotes \o @]
    /\ UNCHANGED <<kept, hears, heard, lost, outbox, callVars>> /\ Quiet

\* net_receive: the changes of a packet go before its messages.
Receives(c) ==
    /\ Receive(c)
    /\ inbox' = [inbox EXCEPT ![c] = @ \o Head(wire[c]).remotes]
    /\ UNCHANGED <<kept, hears, heard, lost, outbox, callVars>> /\ Quiet

ClientDelivers(c) == Deliver(c, 0) /\ Quiet /\ UNCHANGED joiningVars
ClientHandsOver(c) == HandOver(c) /\ Quiet /\ UNCHANGED joiningVars

(***************************************************************************)
(* Scripts.  Of a firing is noted who is to hear it for sure: its Player, or *)
(* all Players there are.                                                  *)
(***************************************************************************)
Runs(s) == IF s = Server THEN frame \in {"run", "step"} ELSE have[s] >= 0 /\ peer[s] # "gone"

Acts(s) ==
    /\ Runs(s) /\ Acting
    /\ UNCHANGED <<hostVars, frame, given, players, made, taken, report, wireVars, posted>>

FiresTo(s, player, for) ==
    /\ Acts(s)
    /\ Fire(s, acts', player, IF s = Server THEN made ELSE 0)
    /\ firings' = firings \cup {[n |-> acts', by |-> s, player |-> player, for |-> for]}

FireClient(c) == c \in Range(players) /\ FiresTo(Server, c, {c})
FireAllClients == players # <<>> /\ FiresTo(Server, Nobody, Range(players))
FireServer(c) == FiresTo(c, Nobody, {Server})

InvokeClient(c) == c \in Range(players) /\ Acts(Server) /\ Call(Server, c, made) /\ UNCHANGED firings
InvokeServer(c) == Acts(c) /\ Call(c, Nobody, 0) /\ UNCHANGED firings

Scripts(s) ==
    /\ Acts(s) /\ UNCHANGED firings
    /\ Connects(s) \/ Disconnects(s) \/ SetsCallback(s) \/ StopCaller(s) \/ StopAnswerer(s)

Answers(s) ==
    /\ Runs(s) /\ Quiet /\ UNCHANGED joiningVars
    /\ \E x \in answering : Answer(s, x, IF s = Server THEN made ELSE 0)

ServerChanges == Change /\ NoRemotes

-----------------------------------------------------------------------------
ClientStep(c) ==
    \/ Connected(c) \/ Named(c) \/ Left(c) \/ Posts(c)
    \/ Receives(c) \/ ClientDelivers(c) \/ ClientHandsOver(c)
    \/ FireServer(c) \/ InvokeServer(c)

ServerFrame == ServerDelivers \/ RunsJob \/ StepBegins \/ FrameEnds

Next ==
    \/ \E c \in Client : ClientStep(c) \/ FireClient(c) \/ InvokeClient(c)
    \/ Submits \/ ServerFrame \/ Applies
    \/ FireAllClients \/ ServerChanges
    \/ \E s \in Side : Scripts(s) \/ Answers(s)

(***************************************************************************)
(* The engine calls _process on every render frame, and the runtime's       *)
(* thread goes through the frame it is given.                               *)
(***************************************************************************)
Spec == Init /\ [][Next]_vars /\ WF_vars(Submits \/ ServerFrame \/ Applies)

-----------------------------------------------------------------------------
(***************************************************************************)
(* Properties.                                                             *)
(***************************************************************************)
From(c, ms) == Within(ms, {m \in Range(ms) : m.player = c})
OnWire(c) == FlattenSeq([i \in DOMAIN wire[c] |-> wire[c][i].remotes])

Down(c) == For(c, outbox[Server] \o report.remotes) \o OnWire(c) \o inbox[c]
Up(c) == outbox[c] \o From(c, posted \o inbox[Server])

Among(ms, kind, n) == Len(Within(ms, {m \in Range(ms) : m.kind = kind /\ m.n = n}))
Times(s, n) == Len(Within(s, {n}))

Copies(f, s) ==
    Among(kept[s], "event", f.n) + Times(heard[s], f.n) + Times(lost[s], f.n)
        + (IF s # Server THEN Among(Down(s), "event", f.n)
                         ELSE IF f.by # Server THEN Among(Up(f.by), "event", f.n) ELSE 0)

MeantFor(f, s) == IF f.by = Server THEN s # Server /\ f.player \in {Nobody, s} ELSE s = Server

\* A firing is, at any time, in exactly one place on the way to each Player it was for whose
\* client is still there: not yet told, told, kept, heard or dropped by a runtime that had no
\* handler.  A Player made in the frame of the firing is no exception; nobody hears one twice,
\* and nobody hears one that is for another.
EachFiringArrives ==
    \A f \in firings, s \in Side :
        /\ Copies(f, s) <= IF MeantFor(f, s) THEN 1 ELSE 0
        /\ s \in f.for /\ (s = Server \/ peer[s] # "gone") /\ (f.by = Server \/ peer[f.by] # "gone")
               => Copies(f, s) = 1

\* A thread that waits for the other end is owed exactly one answer, wherever it is on the way,
\* unless the client of the two has left or the thread that was to answer has been stopped.
ClientOf(p) == IF p.by = Server THEN p.of ELSE p.by

Carriers(p) ==
    LET c == ClientOf(p)
    IN  Among(IF p.by = Server THEN Down(c) ELSE Up(c), "invoke", p.n)
            + Among(IF p.by = Server THEN Up(c) ELSE Down(c), "result", p.n)
            + Cardinality({x \in answering \cup failed : x.at = p.of /\ x.n = p.n /\ x.player = c})

CallHasOneAnswer == \A p \in pending : peer[ClientOf(p)] # "gone" => Carriers(p) = 1

\* What a message of the server can speak of has been replicated to the client before it, the
\* poses of moving parts excepted, which go unreliably and after it.
MessagesAreNotAhead == \A c \in Client : \A m \in Range(inbox[c]) : m.asOf <= have[c]

\* A firing is heard after all earlier ones of its sender, those still kept aside.
Settled(s) == Range(heard[s]) \cup Range(lost[s])

OvertakesOnlyTheKept ==
    [][\A s \in Side : \A n \in Range(heard'[s]) \ Range(heard[s]) :
         \A f, g \in firings :
            f.n < n /\ g.n = n /\ f.by = g.by /\ s \in f.for \cap g.for
              => f.n \in Settled(s)' \cup Range(Numbers(kept[s]))]_vars
=============================================================================

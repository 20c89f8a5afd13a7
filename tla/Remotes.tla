------------------------------ MODULE Remotes ------------------------------
(***************************************************************************)
(* One RemoteEvent and one RemoteFunction, in the runtimes of the server and *)
(* of its clients (luau/src/rbx_runtime.cpp, rbx_api.cpp).                  *)
(*                                                                         *)
(* A runtime is handed messages, delivers them one by one, and has an       *)
(* outgoing list of its own.  An event that finds no handler is kept, and    *)
(* handed over at the start of a step that finds one.  A thread that invokes *)
(* the other end is parked until a result with the number of its call comes  *)
(* back; the number is the runtime's own, so both ends and every client use  *)
(* the same ones.                                                          *)
(*                                                                         *)
(* Clients and the packets that carry messages to them are those of Joining; *)
(* when which runtime is handed what, and which runs, is up to Session.     *)
(***************************************************************************)
EXTENDS Joining

CONSTANTS Server,
          Kept          \* what is kept of an event's firings without a handler: 256

ASSUME RemotesAssumption ==
    /\ Server \notin Client /\ Server # Nobody
    /\ Kept \in Nat

Side == {Server} \cup Client

VARIABLES
    inbox,      \* messages a runtime was handed
    outbox,     \* outRemotes
    kept,       \* remoteQueue
    hears,      \* runtimes with a handler connected to the event
    callbacks,  \* runtimes with the function's OnServerInvoke or OnClientInvoke set
    calls,      \* nextCall
    pending,    \* pendingInvokes, each with the end it asked
    answering,  \* threads that answer an Invoke
    heard,      \* history: the firings a runtime's handlers were given, in that order
    lost,       \* history: those it was handed and dropped
    failed      \* history: calls whose answering thread was killed

inVars == <<inbox, kept, hears, heard, lost>>
callVars == <<callbacks, calls, pending, answering, failed>>
remoteVars == <<inVars, outbox, callVars>>

RemotesInit ==
    /\ inbox = [s \in Side |-> <<>>]
    /\ outbox = [s \in Side |-> <<>>]
    /\ kept = [s \in Side |-> <<>>]
    /\ hears = {}
    /\ callbacks = {}
    /\ calls = [s \in Side |-> 0]
    /\ pending = {}
    /\ answering = {}
    /\ heard = [s \in Side |-> <<>>]
    /\ lost = [s \in Side |-> <<>>]
    /\ failed = {}

\* An event carries how far its sender's tree was when it was fired.
Event(n, player, asOf) == [kind |-> "event", n |-> n, player |-> player, asOf |-> asOf]
Invoke(n, player, asOf) == [kind |-> "invoke", n |-> n, player |-> player, asOf |-> asOf]
Result(n, player, asOf) == [kind |-> "result", n |-> n, player |-> player, asOf |-> asOf]

Says(s, m) == outbox' = [outbox EXCEPT ![s] = Append(@, m)]

-----------------------------------------------------------------------------
(***************************************************************************)
(* What scripts do.                                                        *)
(***************************************************************************)
\* FireServer, FireClient, FireAllClients.
Fire(s, n, player, asOf) ==
    /\ Says(s, Event(n, player, asOf))
    /\ UNCHANGED <<inVars, callVars>>

\* InvokeServer, InvokeClient.
Call(s, player, asOf) ==
    LET n == calls[s] + 1
    IN  /\ calls' = [calls EXCEPT ![s] = n]
        /\ Says(s, Invoke(n, player, asOf))
        /\ pending' = pending \cup {[by |-> s, n |-> n, of |-> IF s = Server THEN player ELSE Server]}
        /\ UNCHANGED <<inVars, callbacks, answering, failed>>

Connects(s) ==
    /\ hears' = hears \cup {s}
    /\ UNCHANGED <<inbox, kept, heard, lost, outbox, callVars>>

Disconnects(s) ==
    /\ s \in hears /\ hears' = hears \ {s}
    /\ UNCHANGED <<inbox, kept, heard, lost, outbox, callVars>>

SetsCallback(s) ==
    /\ s \notin callbacks /\ callbacks' = callbacks \cup {s}
    /\ UNCHANGED <<inVars, outbox, calls, pending, answering, failed>>

\* remoteReply.
Answer(s, x, asOf) ==
    /\ x \in answering /\ x.at = s
    /\ answering' = answering \ {x}
    /\ Says(s, Result(x.n, x.player, asOf))
    /\ UNCHANGED <<inVars, callbacks, calls, pending, failed>>

\* A script is stopped while a thread of it waits for a result, or is about to give one.
StopCaller(s) ==
    /\ \E p \in pending : p.by = s /\ pending' = pending \ {p}
    /\ UNCHANGED <<inVars, outbox, callbacks, calls, answering, failed>>

StopAnswerer(s) ==
    /\ \E x \in answering : x.at = s /\ answering' = answering \ {x} /\ failed' = failed \cup {x}
    /\ UNCHANGED <<inVars, outbox, callbacks, calls, pending>>

-----------------------------------------------------------------------------
(***************************************************************************)
(* deliverRemote.                                                          *)
(***************************************************************************)
Delivers(s, kind) ==
    /\ inbox[s] # <<>> /\ Head(inbox[s]).kind = kind
    /\ inbox' = [inbox EXCEPT ![s] = Tail(@)]

DeliverEvent(s) ==
    LET m == Head(inbox[s])
    IN  /\ Delivers(s, "event")
        /\ IF s \in hears
           THEN heard' = [heard EXCEPT ![s] = Append(@, m.n)] /\ UNCHANGED <<kept, lost>>
           ELSE IF Len(kept[s]) < Kept
           THEN kept' = [kept EXCEPT ![s] = Append(@, m)] /\ UNCHANGED <<heard, lost>>
           ELSE lost' = [lost EXCEPT ![s] = Append(@, m.n)] /\ UNCHANGED <<heard, kept>>
        /\ UNCHANGED <<hears, outbox, callVars>>

\* Mutant of DeliverInvoke: without a callback nothing is said.
DeliverInvokeSilent(s, asOf) ==
    LET m == Head(inbox[s])
    IN  /\ Delivers(s, "invoke")
        /\ answering' = IF s \in callbacks
                        THEN answering \cup {[at |-> s, n |-> m.n, player |-> m.player]} ELSE answering
        /\ UNCHANGED <<outbox, kept, hears, heard, lost, callbacks, calls, pending, failed>>

\* A thread of the callback's script is to answer, or there is no callback and that is the answer.
DeliverInvoke(s, asOf) ==
    LET m == Head(inbox[s])
    IN  /\ Delivers(s, "invoke")
        /\ IF s \in callbacks
           THEN answering' = answering \cup {[at |-> s, n |-> m.n, player |-> m.player]} /\ UNCHANGED outbox
           ELSE Says(s, Result(m.n, m.player, asOf)) /\ UNCHANGED answering
        /\ UNCHANGED <<kept, hears, heard, lost, callbacks, calls, pending, failed>>

DeliverResult(s) ==
    /\ Delivers(s, "result")
    /\ pending' = {p \in pending : ~(p.by = s /\ p.n = Head(inbox[s]).n)}
    /\ UNCHANGED <<kept, hears, heard, lost, outbox, callbacks, calls, answering, failed>>

Deliver(s, asOf) == DeliverEvent(s) \/ DeliverInvoke(s, asOf) \/ DeliverResult(s)

Numbers(ms) == [i \in DOMAIN ms |-> ms[i].n]

\* The start of a step.  A handler may disconnect itself in one of the calls; the rest has been
\* kept once and is not kept again.
HandOver(s) ==
    /\ kept[s] # <<>> /\ s \in hears
    /\ kept' = [kept EXCEPT ![s] = <<>>]
    /\ \E k \in DOMAIN kept[s] :
          /\ heard' = [heard EXCEPT ![s] = @ \o Numbers(SubSeq(kept[s], 1, k))]
          /\ lost' = [lost EXCEPT ![s] = @ \o Numbers(SubSeq(kept[s], k + 1, Len(kept[s])))]
          /\ hears' \in IF k < Len(kept[s]) THEN {hears \ {s}} ELSE {hears}
    /\ UNCHANGED <<inbox, outbox, callVars>>

NothingToHandOver(s) == (kept[s] = <<>> \/ s \notin hears) /\ UNCHANGED <<kept, heard, lost, hears>>

\* A client's world is closed.
Closes(c) ==
    /\ inbox' = [inbox EXCEPT ![c] = <<>>]
    /\ outbox' = [outbox EXCEPT ![c] = <<>>]
    /\ kept' = [kept EXCEPT ![c] = <<>>]
    /\ hears' = hears \ {c} /\ callbacks' = callbacks \ {c}
    /\ pending' = {p \in pending : p.by # c}
    /\ answering' = {x \in answering : x.at # c}
    /\ UNCHANGED <<calls, heard, lost, failed>>
=============================================================================

------------------------------ MODULE Scheduler ------------------------------
(***************************************************************************)
(* The scheduler of luau/src/rbx_runtime.cpp: the threads of a place's      *)
(* scripts, the queues they wait in, the loops that resume them, and what   *)
(* scripts do to one another meanwhile.                                    *)
(*                                                                         *)
(* Everything is one native thread, so what interleaves is the C++ stack: a *)
(* loop of the engine holds a local copy of a queue, resumes a script from  *)
(* it, and the script stops, cancels, spawns or fires from within.  `stack' *)
(* is that stack: frames of the engine's loops and of running tasks.        *)
(*                                                                         *)
(* A Task is an object of its own, deleted by `kill'.  A deleted one may be *)
(* made again for another thread, and a coroutine that a script made or     *)
(* that yielded outside the scheduler is adopted as a new one.  One signal  *)
(* stands for all: Stepped, Heartbeat, what the host fires between frames,  *)
(* what scripts fire.                                                      *)
(***************************************************************************)
EXTENDS Naturals, FiniteSets, Lists

CONSTANTS
    Thread,         \* bound: tasks at a time
    Script,
    Conn,           \* bound: connections at a time
    None,           \* a null pointer
    Places,         \* bound: the places that are run
    MaxSleep,       \* bound: steps a thread sleeps
    DeferredGuard   \* 10000 in the code

ASSUME SchedulerAssumption ==
    /\ None \notin Thread \cup Conn
    /\ MaxSleep \in Nat /\ DeferredGuard \in Nat

\* A place has scripts, finitely many, the calls they make, how many of them within a budget,
\* and a host that sets a frame budget (maxFrameMillis > 0) or none.
ASSUME PlacesAssumption == \A p \in Places :
    /\ p.scripts \subseteq Script /\ IsFiniteSet(p.scripts)
    /\ p.fuel \in Nat /\ p.frameBudget \in BOOLEAN

VARIABLES
    place,
    task,           \* the Tasks: state, ctx, args (pendingArgs >= 0), doomed, wakeIn
    queue,          \* ready, sleepers, deferred, childWaiters, and the signal's waiters
    conns,          \* the signal's connections, in order
    conn,           \* each one's script, once, connected, and whether fnRef is held
    enabled, started, pendingStart,
    paused,         \* pausedTask
    fuel,           \* what is left of the budget
    stack

taskVars == <<task, queue, stack>>
signalVars == <<conns, conn>>
scriptVars == <<enabled, started, pendingStart>>
vars == <<place, taskVars, signalVars, scriptVars, paused, fuel>>

Calls == place.calls
Fuel == place.fuel
FrameBudget == place.frameBudget

NoTask == [state |-> "None", ctx |-> None, args |-> FALSE, doomed |-> FALSE, wakeIn |-> 0]
NoConn == [script |-> None, once |-> FALSE, connected |-> FALSE, held |-> FALSE]

Init ==
    /\ task = [t \in Thread |-> NoTask]
    /\ queue = [ready |-> <<>>, sleepers |-> <<>>, deferred |-> <<>>,
                childWaiters |-> <<>>, waiters |-> <<>>]
    /\ conns = <<>>
    /\ conn = [c \in Conn |-> NoConn]
    /\ place \in Places
    /\ enabled = place.scripts
    /\ started = {}
    /\ pendingStart = SetToSeq(place.scripts)
    /\ paused = None
    /\ fuel = Fuel
    /\ stack = <<>>

-----------------------------------------------------------------------------
Live(t) == task[t].state # "None"
Fresh == {t \in Thread : ~Live(t)}
Made(t, s) == [task EXCEPT ![t] = [NoTask EXCEPT !.state = "Ready", !.ctx = s]]

Top == Last(stack)
Below == Front(stack)
In(fn) == stack # <<>> /\ Top.fn = fn
Pop == stack' = Below /\ UNCHANGED <<task, queue>>

Nested(frames) == \E n \in DOMAIN frames : frames[n].fn = "task"

Unqueued(qs, who) == [n \in DOMAIN qs |-> Without(qs[n], who)]

(***************************************************************************)
(* resume: t, with tasks ts and queues qs as its caller left them, above    *)
(* `frames'.                                                               *)
(***************************************************************************)
HeldStill(t) == paused \notin {None, t}

Refusable(frames) == FrameBudget /\ ~Nested(frames) /\ fuel = 0

\* Mutant of Requeue: every refused task goes to the back of the ready queue.
RequeueBehind(t, ts, qs) ==
    /\ task' = [ts EXCEPT ![t].args = TRUE]
    /\ queue' = [qs EXCEPT !.ready = Append(@, t)]

Requeue(t, ts, qs) ==
    \/ /\ ts[t].state \in {"Sleeping", "Deferred", "WaitChild"}
       /\ task' = [ts EXCEPT ![t].args = TRUE]
       /\ queue' = CASE ts[t].state = "Sleeping" -> [qs EXCEPT !.sleepers = Append(@, t)]
                     [] ts[t].state = "Deferred" -> [qs EXCEPT !.deferred = <<t>> \o @]
                     [] ts[t].state = "WaitChild" -> [qs EXCEPT !.childWaiters = Append(@, t)]
    \/ /\ ts[t].state \notin {"Sleeping", "Deferred", "WaitChild"}
       /\ task' = [ts EXCEPT ![t].args = TRUE, ![t].state = "Ready"]
       /\ queue' = [qs EXCEPT !.ready = <<t>> \o @]

Hold(t, ts, qs, frames) ==
    /\ HeldStill(t)
    /\ task' = [ts EXCEPT ![t].args = TRUE, ![t].state = "Ready"]
    /\ queue' = [qs EXCEPT !.ready = Append(@, t)]
    /\ stack' = frames

Run(t, ts, qs, frames) ==
    /\ ~HeldStill(t)
    /\ task' = [ts EXCEPT ![t].state = "Running"]
    /\ queue' = qs
    /\ stack' = Append(frames, [fn |-> "task", t |-> t])

Resume(t, ts, qs, frames) ==
    \/ Hold(t, ts, qs, frames)
    \/ ~HeldStill(t) /\ Refusable(frames) /\ Requeue(t, ts, qs) /\ stack' = frames
    \/ ~Refusable(frames) /\ Run(t, ts, qs, frames)

\* Mutant of Retried: the note that it was refused stays.
RetriedNoted(t) == task

\* retryArgs
Retried(t) == [task EXCEPT ![t].args = FALSE]

\* A call's own budget: none when the frame's is already being spent.
Slice == fuel' = IF FrameBudget \/ Nested(stack) THEN fuel ELSE Fuel

(***************************************************************************)
(* kill, and what resume does with a task that yielded or ended.           *)
(***************************************************************************)
Kill(ts, who) == [t \in Thread |-> IF t \in who THEN NoTask ELSE ts[t]]
Unpaused(who) == paused' = IF paused \in who THEN None ELSE paused

\* Mutant of Leave: a thread stopped while it ran goes back to wait.
LeaveUndoomed(t, ts, qs) ==
    /\ stack' = Below
    /\ task' = ts
    /\ queue' = qs
    /\ UNCHANGED paused

Leave(t, ts, qs) ==
    /\ stack' = Below
    /\ IF ts[t].doomed
       THEN task' = Kill(ts, {t}) /\ queue' = Unqueued(qs, {t}) /\ Unpaused({t})
       ELSE task' = ts /\ queue' = qs /\ UNCHANGED paused

-----------------------------------------------------------------------------
Hooked == {c \in Conn : conn[c].connected}

(***************************************************************************)
(* The loops.  step: its passes in order.                                  *)
(***************************************************************************)
Passes == <<"start", "fire", "deferred", "wake", "ready", "deferred", "children",
            "fire", "deferred">>

Pass(fn) ==
    CASE fn = "start" -> [fn |-> fn, list |-> pendingStart \o
                             SetToSeq((enabled \ started) \ ToSet(pendingStart))]
      [] fn = "fire" -> [fn |-> fn, list |-> Within(conns, Hooked), last |-> None]
      [] fn = "deferred" -> [fn |-> fn, n |-> 0]
      [] fn = "wake" -> [fn |-> "collect"]
      [] fn = "ready" -> [fn |-> fn, t |-> None, before |-> 0]
      [] fn = "children" -> [fn |-> fn, i |-> 1, odd |-> FALSE]

Step ==
    /\ stack = <<>>
    /\ paused = None
    /\ stack' = <<[fn |-> "step", n |-> 1]>>
    /\ task' = [t \in Thread |-> [task[t] EXCEPT !.wakeIn = IF @ = 0 THEN 0 ELSE @ - 1]]
    /\ fuel' = Fuel
    /\ UNCHANGED <<queue, signalVars, scriptVars, paused>>

NextPass ==
    /\ In("step")
    /\ IF Top.n > Len(Passes)
       THEN stack' = Below /\ UNCHANGED pendingStart
       ELSE /\ stack' = Below \o <<[fn |-> "step", n |-> Top.n + 1]>> \o
                  (IF Passes[Top.n] = "start" /\ pendingStart = <<>> THEN <<>>
                   ELSE <<Pass(Passes[Top.n])>>)
            /\ pendingStart' = IF Passes[Top.n] = "start" THEN <<>> ELSE pendingStart
    /\ UNCHANGED <<task, queue, signalVars, enabled, started, paused, fuel>>

(***************************************************************************)
(* startScripts and startScript.                                           *)
(***************************************************************************)
StartNext ==
    /\ In("start")
    /\ IF Top.list = <<>>
       THEN /\ stack' = Append(Below, Pass("deferred"))
            /\ UNCHANGED <<task, queue, started, fuel>>
       ELSE LET s == Head(Top.list)
                rest == Append(Below, [Top EXCEPT !.list = Tail(@)])
            IN  IF s \in started \/ s \notin enabled
                THEN stack' = rest /\ UNCHANGED <<task, queue, started, fuel>>
                ELSE /\ started' = started \cup {s}
                     /\ fuel' = Fuel
                     /\ \/ \E t \in Fresh :
                              \/ Hold(t, Made(t, s), queue, rest)
                              \/ Run(t, Made(t, s), queue, rest)
                        \/ stack' = rest /\ UNCHANGED <<task, queue>>     \* does not compile
    /\ UNCHANGED <<signalVars, enabled, pendingStart, paused>>

(***************************************************************************)
(* runDeferred and runReady.                                               *)
(***************************************************************************)
RunDeferred ==
    /\ In("deferred")
    /\ IF queue.deferred = <<>> \/ Top.n = DeferredGuard
       THEN Pop /\ UNCHANGED fuel
       ELSE LET t == Head(queue.deferred)
                qs == [queue EXCEPT !.deferred = Tail(@)]
                frames == Append(Below, [Top EXCEPT !.n = @ + 1])
            IN  IF task[t].state # "Deferred"
                THEN stack' = frames /\ queue' = qs /\ UNCHANGED <<task, fuel>>
                ELSE Resume(t, Retried(t), qs, frames) /\ Slice
    /\ UNCHANGED <<signalVars, scriptVars, paused>>

\* Mutant of Skipped: the loop goes on when the frame budget is gone.
SkippedNever == FALSE

Skipped ==
    /\ Top.t # None
    /\ Len(queue.ready) > Top.before
    /\ Head(queue.ready) = Top.t

RunReady ==
    /\ In("ready")
    /\ IF Skipped \/ queue.ready = <<>>
       THEN Pop /\ UNCHANGED fuel
       ELSE LET t == Head(queue.ready)
                before == Len(queue.ready) - 1
            IN  /\ Resume(t, Retried(t), [queue EXCEPT !.ready = Tail(@)],
                          Append(Below, [fn |-> "ready", t |-> t, before |-> before]))
                /\ Slice
    /\ UNCHANGED <<signalVars, scriptVars, paused>>

(***************************************************************************)
(* wakeSleepers: the due ones are taken out first, then resumed in order of *)
(* their deadlines, which within a step are in any order.                  *)
(***************************************************************************)
Due == {t \in Thread : task[t].wakeIn = 0}
Orders(list) == {order \in [DOMAIN list -> ToSet(list)] : Enumerates(order, ToSet(list))}

Collect ==
    /\ In("collect")
    /\ \E order \in Orders(Within(queue.sleepers, Due)) :
          stack' = Append(Below, [fn |-> "wake", list |-> order])
    /\ queue' = [queue EXCEPT !.sleepers = Without(@, Due)]
    /\ UNCHANGED <<task, signalVars, scriptVars, paused, fuel>>

Wake ==
    /\ In("wake")
    /\ IF Top.list = <<>>
       THEN Pop /\ UNCHANGED fuel
       ELSE LET t == Head(Top.list)
                frames == Append(Below, [Top EXCEPT !.list = Tail(@)])
            IN  IF task[t].state # "Sleeping"
                THEN stack' = frames /\ UNCHANGED <<task, queue, fuel>>
                ELSE Resume(t, Retried(t), queue, frames) /\ Slice
    /\ UNCHANGED <<signalVars, scriptVars, paused>>

(***************************************************************************)
(* checkChildWaiters: by index, over the live list.  Whether the child is   *)
(* there, or the time is up, may change between any two looks; `odd' tells  *)
(* one turn of the loop from the next.                                     *)
(***************************************************************************)
CheckChild ==
    /\ In("children")
    /\ IF Top.i > Len(queue.childWaiters)
       THEN Pop /\ UNCHANGED fuel
       ELSE LET t == queue.childWaiters[Top.i]
                frames(i) == Append(Below, [Top EXCEPT !.i = i, !.odd = ~@])
            IN  \/ /\ Resume(t, Retried(t),
                             [queue EXCEPT !.childWaiters = SwapRemove(@, Top.i)], frames(Top.i))
                   /\ Slice
                \/ /\ ~task[t].args
                   /\ stack' = frames(Top.i + 1)
                   /\ UNCHANGED <<task, queue, fuel>>
    /\ UNCHANGED <<signalVars, scriptVars, paused>>

-----------------------------------------------------------------------------
(***************************************************************************)
(* fire: a copy of the connections first, each called on a task of its own; *)
(* then whoever waits, taken over from the signal.  Bound: a handler for    *)
(* which no Thread is left is not called.                                  *)
(***************************************************************************)
Unhooked(c) == IF conn[c].once THEN [conn EXCEPT ![c].connected = FALSE] ELSE conn

FireConn ==
    /\ In("fire")
    /\ Top.last = None
    /\ Top.list # <<>>
    /\ LET c == Head(Top.list)
           frames(last) == Append(Below, [Top EXCEPT !.list = Tail(@), !.last = last])
       IN  \/ \E t \in Fresh :
                 /\ Resume(t, Made(t, conn[c].script), queue, frames(c))
                 /\ Slice
                 /\ conn' = Unhooked(c)
           \/ /\ Fresh = {}
              /\ stack' = frames(None)
              /\ UNCHANGED <<task, queue, conn, fuel>>
    /\ UNCHANGED <<conns, scriptVars, paused>>

\* if (c.once) lua_unref(L, c.fnRef)
FireCalled ==
    /\ In("fire")
    /\ Top.last # None
    /\ conn' = [conn EXCEPT ![Top.last].held = @ /\ ~conn[Top.last].once]
    /\ stack' = Append(Below, [Top EXCEPT !.last = None])
    /\ UNCHANGED <<task, queue, conns, scriptVars, paused, fuel>>

FireWaiters ==
    /\ In("fire")
    /\ Top.last = None
    /\ Top.list = <<>>
    /\ stack' = Append(Below, [fn |-> "waiters", list |-> queue.waiters])
    /\ queue' = [queue EXCEPT !.waiters = <<>>]
    /\ UNCHANGED <<task, signalVars, scriptVars, paused, fuel>>

WakeWaiter ==
    /\ In("waiters")
    /\ IF Top.list = <<>>
       THEN /\ Pop
            /\ conns' = Within(conns, Hooked)
            /\ UNCHANGED fuel
       ELSE LET t == Head(Top.list)
                frames == Append(Below, [Top EXCEPT !.list = Tail(@)])
            IN  /\ UNCHANGED conns
                /\ IF task[t].state # "WaitSignal"
                   THEN stack' = frames /\ UNCHANGED <<task, queue, fuel>>
                   ELSE Resume(t, task, queue, frames) /\ Slice
    /\ UNCHANGED <<conn, scriptVars, paused>>

(***************************************************************************)
(* Between frames: the host fires what the player did, and the debugger     *)
(* lets go.                                                                *)
(***************************************************************************)
HostEvent ==
    /\ stack = <<>>
    /\ stack' = <<Pass("deferred"), Pass("fire")>>
    /\ UNCHANGED <<task, queue, signalVars, scriptVars, paused, fuel>>

DebugContinue ==
    /\ stack = <<>>
    /\ paused # None
    /\ paused' = None
    /\ Resume(paused, task, queue, <<>>)
    /\ Slice
    /\ UNCHANGED <<signalVars, scriptVars>>

-----------------------------------------------------------------------------
(***************************************************************************)
(* What a running script does: Runs(t) is the task on top of the stack.     *)
(***************************************************************************)
Runs(t) == In("task") /\ Top.t = t
Fires == {n \in DOMAIN stack : stack[n].fn = "fire"}
Pending(c) == \E n \in Fires : c \in ToSet(stack[n].list)
InUse(c) == Pending(c) \/ \E n \in Fires : stack[n].last = c

Makes(call) == call \in Calls /\ fuel > 0 /\ fuel' = fuel - 1

(***************************************************************************)
(* Bounds, unless Calls lifts them: nobody stops or cancels a thread that a *)
(* loop further down the stack has in its hand ("midpass"), or drops a      *)
(* connection, or fires, while connections are still to be called           *)
(* ("midfire").                                                            *)
(***************************************************************************)
InHand(t) == \E n \in DOMAIN stack : stack[n].fn \in {"wake", "waiters"} /\ t \in ToSet(stack[n].list)
Gentle(who) == "midpass" \notin Calls => \A t \in who : ~InHand(t)
Quiet(cs) == "midfire" \notin Calls => \A c \in cs : ~Pending(c)

WaitFor(t, n) ==
    /\ "wait" \in Calls
    /\ Leave(t, [task EXCEPT ![t].state = "Sleeping", ![t].wakeIn = n],
             [queue EXCEPT !.sleepers = Append(@, t)])
    /\ UNCHANGED <<signalVars, scriptVars, fuel>>

WaitSignal(t) ==
    /\ "waitSignal" \in Calls
    /\ Leave(t, [task EXCEPT ![t].state = "WaitSignal"], [queue EXCEPT !.waiters = Append(@, t)])
    /\ UNCHANGED <<signalVars, scriptVars, fuel>>

WaitForChild(t) ==
    /\ "waitChild" \in Calls
    /\ Leave(t, [task EXCEPT ![t].state = "WaitChild"], [queue EXCEPT !.childWaiters = Append(@, t)])
    /\ UNCHANGED <<signalVars, scriptVars, fuel>>

(***************************************************************************)
(* The thread returns, raises, is killed for its budget, or yields where    *)
(* only a script can resume it: its Task goes.                             *)
(***************************************************************************)
Ends(t) ==
    /\ stack' = Below
    /\ task' = Kill(task, {t})
    /\ queue' = IF task[t].doomed THEN Unqueued(queue, {t}) ELSE queue
    /\ Unpaused({t})
    /\ UNCHANGED <<signalVars, scriptVars, fuel>>

\* task.defer(coroutine.running()), then coroutine.yield()
HandOff(t) ==
    /\ "defer" \in Calls
    /\ Leave(t, [task EXCEPT ![t].state = "Deferred"], [queue EXCEPT !.deferred = Append(@, t)])
    /\ UNCHANGED <<signalVars, scriptVars, fuel>>

\* A long computation: nothing is left of the budget.
Busy(t) ==
    /\ fuel > 0
    /\ fuel' = 0
    /\ UNCHANGED <<taskVars, signalVars, scriptVars, paused>>

(***************************************************************************)
(* task.spawn, defer and delay: of a function, or of a thread.  Bound,      *)
(* unless Calls lifts it ("handles"): not of a thread that already waits    *)
(* somewhere.                                                              *)
(***************************************************************************)
Idle == {u \in Thread : Live(u) /\ task[u].state # "Running"}
Callees == Fresh \cup (IF "handles" \in Calls THEN Idle ELSE {})
For(t, u) == IF Live(u) THEN task ELSE Made(u, task[t].ctx)

\* Bound, unless the place's scripts do "afterlife": one that was stopped
\* while it ran starts nothing more.
MayStart(t) == task[t].doomed => "afterlife" \in Calls

Spawn(t, u) ==
    /\ Makes("spawn")
    /\ MayStart(t)
    /\ Resume(u, For(t, u), queue, stack)
    /\ UNCHANGED <<signalVars, scriptVars, paused>>

Defer(t, u) ==
    /\ Makes("defer")
    /\ MayStart(t)
    /\ task' = [For(t, u) EXCEPT ![u].state = "Deferred"]
    /\ queue' = [queue EXCEPT !.deferred = Append(@, u)]
    /\ UNCHANGED <<stack, signalVars, scriptVars, paused>>

Delay(t, u, n) ==
    /\ Makes("delay")
    /\ MayStart(t)
    /\ task' = [For(t, u) EXCEPT ![u].state = "Sleeping", ![u].wakeIn = n]
    /\ queue' = [queue EXCEPT !.sleepers = Append(@, u)]
    /\ UNCHANGED <<stack, signalVars, scriptVars, paused>>

(***************************************************************************)
(* task.cancel.                                                            *)
(***************************************************************************)
Cancel(t, u) ==
    /\ Makes("cancel")
    /\ task[u].state = "WaitSignal" => "cancelWaiting" \in Calls
    /\ Gentle({u})
    /\ task' = Kill(task, {u})
    /\ queue' = [Unqueued(queue, {u}) EXCEPT !.waiters = queue.waiters]
    /\ Unpaused({u})
    /\ UNCHANGED <<stack, signalVars, scriptVars>>

(***************************************************************************)
(* Enabled, or Disabled, or Destroy, on a script: stopScript, queueStart.   *)
(***************************************************************************)
Victims(s) == {u \in Thread : Live(u) /\ task[u].ctx = s}

\* Mutant of Stopped: the dead threads stay in the queues.
StoppedQueued(s) ==
    LET dead == {u \in Victims(s) : task[u].state # "Running"}
    IN  /\ task' = [u \in Thread |-> IF u \in dead THEN NoTask
                                     ELSE [task[u] EXCEPT !.doomed = @ \/ u \in Victims(s)]]
        /\ UNCHANGED queue
        /\ Unpaused(dead)

Stopped(s) ==
    LET dead == {u \in Victims(s) : task[u].state # "Running"}
    IN  /\ task' = [u \in Thread |-> IF u \in dead THEN NoTask
                                     ELSE [task[u] EXCEPT !.doomed = @ \/ u \in Victims(s)]]
        /\ queue' = Unqueued(queue, dead)
        /\ Unpaused(dead)

Forgotten(s) ==
    /\ started' = started \ {s}
    /\ pendingStart' = Without(pendingStart, {s})

Disable(t, s) ==
    /\ Makes("stop")
    /\ s \in enabled
    /\ Gentle(Victims(s))
    /\ enabled' = enabled \ {s}
    /\ Forgotten(s)
    /\ Stopped(s)
    /\ Quiet({c \in Conn : conn[c].script = s})
    /\ conn' = [c \in Conn |-> IF conn[c].script = s
                               THEN [conn[c] EXCEPT !.connected = FALSE,
                                                    !.held = @ /\ ~conn[c].connected]
                               ELSE conn[c]]
    /\ UNCHANGED <<conns, stack>>

Enable(t, s) ==
    /\ Makes("stop")
    /\ s \notin enabled
    /\ enabled' = enabled \cup {s}
    /\ pendingStart' = IF s \in started \/ s \in ToSet(pendingStart)
                       THEN pendingStart ELSE Append(pendingStart, s)
    /\ UNCHANGED <<taskVars, signalVars, started, paused>>

(***************************************************************************)
(* Connections.                                                            *)
(***************************************************************************)
Connect(t, c, once) ==
    /\ Makes("connect")
    /\ once => "once" \in Calls
    /\ MayStart(t)
    /\ c \notin ToSet(conns) /\ ~InUse(c)
    /\ conns' = Append(conns, c)
    /\ conn' = [conn EXCEPT ![c] = [script |-> task[t].ctx, once |-> once,
                                    connected |-> TRUE, held |-> TRUE]]
    /\ UNCHANGED <<taskVars, scriptVars, paused>>

Disconnect(t, c) ==
    /\ Makes("disconnect")
    /\ c \in ToSet(conns)
    /\ Quiet({c})
    /\ conn' = [conn EXCEPT ![c].connected = FALSE, ![c].held = @ /\ ~conn[c].connected]
    /\ conns' = Without(conns, {c})
    /\ UNCHANGED <<taskVars, scriptVars, paused>>

Fire(t) ==
    /\ Makes("fire")
    /\ Quiet(Conn)
    /\ stack' = Append(stack, Pass("fire"))
    /\ UNCHANGED <<task, queue, signalVars, scriptVars, paused>>

\* Something is parented into the tree: the ancestry change looks for waiters.
Reparent(t) ==
    /\ Makes("reparent")
    /\ queue.childWaiters # <<>>
    /\ stack' = Append(stack, Pass("children"))
    /\ UNCHANGED <<task, queue, signalVars, scriptVars, paused>>

\* pauseAt: the thread is at a breakpoint, or at the line a step ends on.
Break(t) ==
    /\ "breakpoint" \in Calls
    /\ stack' = Below
    /\ IF task[t].doomed
       THEN task' = Kill(task, {t}) /\ queue' = Unqueued(queue, {t}) /\ paused' = None
       ELSE task' = [task EXCEPT ![t].state = "Parked"] /\ UNCHANGED queue /\ paused' = t
    /\ UNCHANGED <<signalVars, scriptVars, fuel>>

ScriptRuns ==
    \E t \in Thread :
       /\ Runs(t)
       /\ \/ \E n \in 0..MaxSleep : WaitFor(t, n)
          \/ WaitSignal(t)
          \/ WaitForChild(t)
          \/ Ends(t)
          \/ HandOff(t)
          \/ Busy(t)
          \/ \E u \in Callees :
                \/ Spawn(t, u)
                \/ Defer(t, u)
                \/ \E n \in 0..MaxSleep : Delay(t, u, n)
          \/ \E u \in Idle : Cancel(t, u)
          \/ \E s \in place.scripts : Disable(t, s) \/ Enable(t, s)
          \/ \E c \in Conn :
                \/ \E once \in BOOLEAN : Connect(t, c, once)
                \/ Disconnect(t, c)
          \/ Fire(t)
          \/ Reparent(t)
          \/ Break(t)

EngineRuns ==
    \/ NextPass \/ StartNext \/ RunDeferred \/ RunReady \/ Collect \/ Wake \/ CheckChild
    \/ FireConn \/ FireCalled \/ FireWaiters \/ WakeWaiter

Next == /\ Step \/ EngineRuns \/ HostEvent \/ DebugContinue \/ ScriptRuns
        /\ UNCHANGED place

Spec == Init /\ [][Next]_vars

-----------------------------------------------------------------------------
(***************************************************************************)
(* "A stale entry would resume this deleted Task" (kill): no queue, no loop *)
(* on the stack and no debugger is left with a Task that has been deleted.  *)
(***************************************************************************)
HeldBy(frame) ==
    CASE frame.fn = "task" -> {frame.t}
      [] frame.fn \in {"wake", "waiters"} -> ToSet(frame.list)
      [] OTHER -> {}

InQueue(t) == {n \in DOMAIN queue : t \in ToSet(queue[n])}
OnStack(t) == {n \in DOMAIN stack : t \in HeldBy(stack[n])}

NoDangling ==
    \A t \in Thread : ~Live(t) => InQueue(t) = {} /\ OnStack(t) = {} /\ paused # t

(***************************************************************************)
(* No thread is lost or queued twice: each live one is in the one place     *)
(* from which its state says it will be resumed, whatever was refused,      *)
(* woken, stopped or cancelled.                                            *)
(***************************************************************************)
Only(t, places, fns) ==
    \/ /\ InQueue(t) \in {{n} : n \in places} /\ OnStack(t) = {}
    \/ /\ InQueue(t) = {} /\ \E n \in OnStack(t) : OnStack(t) = {n} /\ stack[n].fn \in fns

OnePlace ==
    /\ \A n \in DOMAIN queue : IsInjective(queue[n])
    /\ \A n \in DOMAIN stack : stack[n].fn \in {"wake", "waiters"} => IsInjective(stack[n].list)
    /\ \A t \in Thread :
          CASE task[t].state = "None" -> TRUE
            [] task[t].state = "Running" -> Only(t, {}, {"task"})
            [] task[t].state = "Ready" -> Only(t, {"ready"}, {})
            [] task[t].state = "Sleeping" -> Only(t, {"sleepers"}, {"wake"})
            [] task[t].state = "Deferred" -> Only(t, {"deferred"}, {})
            [] task[t].state = "WaitSignal" -> Only(t, {"waiters"}, {"waiters"})
            [] task[t].state = "WaitChild" -> Only(t, {"childWaiters"}, {})
            [] task[t].state = "Parked" -> paused = t

(***************************************************************************)
(* "Its args are still on the stack, so requeue for a retry": a thread the  *)
(* budget or the debugger turned away is retried with what it was given,    *)
(* and one that ran is not taken for one that was turned away.             *)
(***************************************************************************)
ArgsKept ==
    \A t \in Thread :
        /\ task[t].state = "Ready" => task[t].args
        /\ task[t].args => task[t].state \in {"Ready", "Sleeping", "Deferred", "WaitChild"}
        /\ task[t].args /\ task[t].state = "Sleeping" => task[t].wakeIn = 0

(***************************************************************************)
(* "Disabling or destroying a script ends every thread it started and drops *)
(* every connection it made.  A thread doing the stopping finishes its      *)
(* slice first."                                                           *)
(***************************************************************************)
StoppedIsGone ==
    /\ \A t \in Thread : task[t].doomed => \E n \in OnStack(t) : stack[n].fn = "task"
    /\ \A s \in Script \ enabled :
          /\ \A t \in Victims(s) : task[t].doomed
          /\ \A c \in Conn : conn[c].script = s => ~conn[c].connected

(***************************************************************************)
(* "fire() snapshots its connections, so erasing during a fire is safe":    *)
(* no connection that is about to be called has given its function back.    *)
(* Not so when a handler disconnects another of the signal; no run checks it. *)
(***************************************************************************)
HandlersHeld == \A n \in Fires : \A c \in ToSet(stack[n].list) : conn[c].held

(***************************************************************************)
(* A frame's work ends: the runtime comes back to its host.                *)
(***************************************************************************)
FairSpec == Spec /\ WF_vars((EngineRuns \/ ScriptRuns) /\ UNCHANGED place)

WorkEnds == (stack # <<>>) ~> (stack = <<>>)
=============================================================================

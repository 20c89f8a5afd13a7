-------------------------- MODULE SchedulerProofs --------------------------
(***************************************************************************)
(* What is proved of the scheduler: where a thread is, that nothing points  *)
(* at a deleted one, with which arguments it is resumed, and what a stopped *)
(* script leaves, in places whose scripts keep clear of the calls the       *)
(* README lists as wrong in the code.                                       *)
(***************************************************************************)
EXTENDS Scheduler, DataProofs

(***************************************************************************)
(* The places the theorems are about.  Breakpoints are for threads that no  *)
(* other thread is running below.                                          *)
(***************************************************************************)
Sound(p) ==
    /\ p.calls \cap {"handles", "cancelWaiting", "midpass", "midfire", "afterlife"} = {}
    /\ "breakpoint" \in p.calls => p.calls \cap {"spawn", "fire", "reparent"} = {}

(***************************************************************************)
(* Types.                                                                  *)
(***************************************************************************)
State == {"None", "Ready", "Running", "Sleeping", "Deferred", "WaitSignal", "WaitChild", "Parked"}

Tasks == [Thread -> [state : State, ctx : Script \cup {None}, args : BOOLEAN, doomed : BOOLEAN,
                     wakeIn : Nat]]

QueueName == {"ready", "sleepers", "deferred", "childWaiters", "waiters"}
Queues == [QueueName -> Seq(Thread)]

Hand == {list \in Seq(Thread) : IsInjective(list)}

Frame ==
    [fn : {"task"}, t : Thread] \cup
    [fn : {"wake", "waiters"}, list : Hand] \cup
    [fn : {"fire"}, list : Seq(Conn), last : Conn \cup {None}] \cup
    [fn : {"start"}, list : Seq(Script)] \cup
    [fn : {"step"}, n : Nat \ {0}] \cup
    [fn : {"deferred"}, n : Nat] \cup
    [fn : {"ready"}, t : Thread \cup {None}, before : Nat] \cup
    [fn : {"collect"}] \cup
    [fn : {"children"}, i : Nat \ {0}, odd : BOOLEAN]

Conns == [Conn -> [script : Script \cup {None}, once : BOOLEAN, connected : BOOLEAN, held : BOOLEAN]]

SchedulerTypes ==
    /\ place \in Places
    /\ conns \in Seq(Conn)
    /\ conn \in Conns
    /\ enabled \subseteq place.scripts /\ pendingStart \in Seq(Script)
    /\ paused \in Thread \cup {None}

(***************************************************************************)
(* Where a thread is: in which queues, and in the hand of which frames.     *)
(***************************************************************************)
Queued(qs, t) == {n \in DOMAIN qs : t \in ToSet(qs[n])}
Stacked(frames, t) == {n \in DOMAIN frames : t \in HeldBy(frames[n])}

Unheld(t, frames) == Stacked(frames, t) = {}
HeldIn(t, fn, frames) == \E n \in DOMAIN frames : Stacked(frames, t) = {n} /\ frames[n].fn = fn

Nowhere(t, qs, frames) == Queued(qs, t) = {} /\ Unheld(t, frames)
OnlyIn(t, n, qs, frames) == Queued(qs, t) = {n} /\ Unheld(t, frames)
OnlyHeld(t, fn, qs, frames) == Queued(qs, t) = {} /\ HeldIn(t, fn, frames)

\* A thread of tasks ts is where its state says, and what it carries fits.
Sits(t, ts, qs, frames, stopped) ==
    LET state == ts[t].state
    IN  /\ state = "None" => Nowhere(t, qs, frames)
        /\ state = "Running" => OnlyHeld(t, "task", qs, frames)
        /\ state = "Ready" => OnlyIn(t, "ready", qs, frames) /\ ts[t].args
        /\ state = "Sleeping" =>
              \/ OnlyIn(t, "sleepers", qs, frames)
              \/ OnlyHeld(t, "wake", qs, frames) /\ ts[t].wakeIn = 0
        /\ state = "Deferred" => OnlyIn(t, "deferred", qs, frames)
        /\ state = "WaitSignal" => \/ OnlyIn(t, "waiters", qs, frames)
                                   \/ OnlyHeld(t, "waiters", qs, frames)
        /\ state = "WaitChild" => OnlyIn(t, "childWaiters", qs, frames)
        /\ state = "Parked" <=> stopped = t
        /\ state = "Parked" => Nowhere(t, qs, frames)
        /\ ts[t].args => state \in {"Ready", "Sleeping", "Deferred", "WaitChild"}
        /\ ts[t].args /\ state = "Sleeping" => ts[t].wakeIn = 0
        /\ ts[t].doomed => state = "Running"

Settled(ts, qs, frames, stopped, but) ==
    \A t \in Thread \ but : Sits(t, ts, qs, frames, stopped)

(***************************************************************************)
(* Scripts that are stopped: their threads finish their slice, nothing more *)
(* is started for them, and no connection of theirs is about to be called.  *)
(***************************************************************************)
Lasting(ts, on) == \A t \in Thread : ts[t].state # "None" => ts[t].doomed \/ ts[t].ctx \in on

Hooking(cn, on) == \A c \in Conn : cn[c].connected => cn[c].script \in on

Calling(cn, on) == {f \in Frame : f.fn = "fire" => \A c \in ToSet(f.list) : cn[c].script \in on}

\* While a thread is at a breakpoint none runs, and before it got there it ran alone.
Loop == {f \in Frame : f.fn # "task"}
Low(frames, calls) == "breakpoint" \in calls => frames \in Seq(Loop)

Flat(frames, stopped, calls) ==
    /\ stopped # None => "breakpoint" \in calls /\ frames \in Seq(Loop)
    /\ frames # <<>> => Low(Front(frames), calls)

Distinct(qs) == \A n \in DOMAIN qs : IsInjective(qs[n])

\* All but those in `but' are in their places, and stopped scripts have nothing to come.
Base(ts, qs, frames, stopped, on, cn, but) ==
    /\ ts \in Tasks /\ qs \in Queues /\ Distinct(qs)
    /\ Settled(ts, qs, frames, stopped, but)
    /\ Lasting(ts, on)
    /\ frames \in Seq(Calling(cn, on))

SchedulerInv ==
    /\ SchedulerTypes
    /\ Base(task, queue, stack, paused, enabled, conn, {})
    /\ Hooking(conn, enabled)
    /\ Flat(stack, paused, Calls)

-----------------------------------------------------------------------------
(***************************************************************************)
(* What a change of one queue does to where threads are.                    *)
(***************************************************************************)
LEMMA QueueChanges ==
    ASSUME NEW qs \in Queues, NEW n \in QueueName, NEW list \in Seq(Thread)
    PROVE  /\ [qs EXCEPT ![n] = list] \in Queues
           /\ \A t : Queued([qs EXCEPT ![n] = list], t) =
                       IF t \in ToSet(list) THEN Queued(qs, t) \cup {n} ELSE Queued(qs, t) \ {n}
<1> DEFINE q2 == [qs EXCEPT ![n] = list]
<1>1. q2 \in Queues /\ DOMAIN q2 = QueueName /\ DOMAIN qs = QueueName
  BY DEF Queues
<1>2. q2[n] = list /\ \A m \in QueueName \ {n} : q2[m] = qs[m]
  BY DEF Queues
<1> HIDE DEF q2
<1>3. \A t : Queued(q2, t) = IF t \in ToSet(list) THEN Queued(qs, t) \cup {n} ELSE Queued(qs, t) \ {n}
  BY <1>1, <1>2 DEF Queued
<1> QED BY <1>1, <1>3 DEF q2

LEMMA DistinctChanges ==
    ASSUME NEW qs \in Queues, Distinct(qs), NEW n \in QueueName, NEW list, IsInjective(list)
    PROVE  Distinct([qs EXCEPT ![n] = list])
BY DEF Queues, Distinct

\* One more, at either end.
Joins(qs, q2, n, t) == q2 \in {[qs EXCEPT ![n] = Append(qs[n], t)], [qs EXCEPT ![n] = <<t>> \o qs[n]]}

LEMMA Enqueued ==
    ASSUME NEW qs \in Queues, Distinct(qs), NEW n \in QueueName, NEW t \in Thread, Queued(qs, t) = {},
           NEW q2, Joins(qs, q2, n, t)
    PROVE  /\ q2 \in Queues /\ Distinct(q2)
           /\ Queued(q2, t) = {n}
           /\ \A u \in Thread \ {t} : Queued(q2, u) = Queued(qs, u)
<1>1. qs[n] \in Seq(Thread) /\ IsInjective(qs[n]) /\ t \notin ToSet(qs[n])
  BY DEF Queues, Distinct, Queued
<1>2. PICK list : q2 = [qs EXCEPT ![n] = list] /\ list \in {Append(qs[n], t), <<t>> \o qs[n]}
  BY DEF Joins
<1>3. list \in Seq(Thread) /\ ToSet(list) = ToSet(qs[n]) \cup {t} /\ IsInjective(list)
  <2>1. CASE list = Append(qs[n], t)
    BY <1>1, <2>1, AppendEntry
  <2>2. CASE list = <<t>> \o qs[n]
    BY <1>1, <2>2, PutBackEntry
  <2> QED BY <1>2, <2>1, <2>2
<1>7. \A u : Queued(q2, u) = IF u \in ToSet(list) THEN Queued(qs, u) \cup {n} ELSE Queued(qs, u) \ {n}
  BY <1>2, <1>3, QueueChanges
<1>4. q2 \in Queues /\ Distinct(q2)
  BY <1>2, <1>3, QueueChanges, DistinctChanges
<1>5. Queued(q2, t) = {n}
  BY <1>3, <1>7
<1>6. ASSUME NEW u \in Thread \ {t} PROVE Queued(q2, u) = Queued(qs, u)
  <2>1. u \in ToSet(list) <=> n \in Queued(qs, u)
    BY <1>3 DEF Queued, Queues
  <2>2. CASE n \in Queued(qs, u)
    <3>1. Queued(q2, u) = Queued(qs, u) \cup {n}
      BY <1>7, <2>1, <2>2
    <3> QED BY <2>2, <3>1
  <2>3. CASE n \notin Queued(qs, u)
    <3>1. Queued(q2, u) = Queued(qs, u) \ {n}
      BY <1>7, <2>1, <2>3
    <3> QED BY <2>3, <3>1
  <2> QED BY <2>2, <2>3
<1> QED BY <1>4, <1>5, <1>6

\* Some fewer, of one queue.
Fewer(qs, q2, n, who) ==
    /\ q2 \in Queues
    /\ \A m \in QueueName \ {n} : q2[m] = qs[m]
    /\ IsInjective(q2[n])
    /\ ToSet(q2[n]) = ToSet(qs[n]) \ who

LEMMA Dequeued ==
    ASSUME NEW qs \in Queues, Distinct(qs), NEW n \in QueueName, NEW q2, NEW who, Fewer(qs, q2, n, who)
    PROVE  /\ q2 \in Queues /\ Distinct(q2)
           /\ \A t \in who : Queued(q2, t) = Queued(qs, t) \ {n}
           /\ \A t \in Thread \ who : Queued(q2, t) = Queued(qs, t)
<1>1. DOMAIN q2 = QueueName /\ DOMAIN qs = QueueName
  BY DEF Queues, Fewer
<1>2. \A t \in who : Queued(q2, t) = Queued(qs, t) \ {n}
  BY <1>1 DEF Queued, Fewer
<1>3. \A t \in Thread \ who : Queued(q2, t) = Queued(qs, t)
  BY <1>1 DEF Queued, Fewer
<1> QED BY <1>1, <1>2, <1>3 DEF Fewer, Distinct

\* unqueue.
Cleared(qs, q2, who) ==
    /\ q2 \in Queues
    /\ \A n \in QueueName :
          \/ q2[n] = Without(qs[n], who)
          \/ q2[n] = qs[n] /\ ToSet(qs[n]) \cap who = {}

LEMMA UnqueuedAll ==
    ASSUME NEW qs \in Queues, Distinct(qs), NEW who, NEW q2, Cleared(qs, q2, who)
    PROVE  /\ Distinct(q2)
           /\ \A t \in who : Queued(q2, t) = {}
           /\ \A t \in Thread \ who : Queued(q2, t) = Queued(qs, t)
<1>1. ASSUME NEW n \in QueueName
      PROVE  q2[n] \in Seq(Thread) /\ IsInjective(q2[n]) /\ ToSet(q2[n]) = ToSet(qs[n]) \ who
  <2>1. qs[n] \in Seq(Thread) /\ IsInjective(qs[n])
    BY DEF Queues, Distinct
  <2>2. CASE q2[n] = Without(qs[n], who)
    BY <2>1, <2>2, WithoutEntries
  <2>3. CASE q2[n] = qs[n] /\ ToSet(qs[n]) \cap who = {}
    BY <2>1, <2>3
  <2> QED BY <2>2, <2>3 DEF Cleared
<1>2. DOMAIN qs = QueueName /\ DOMAIN q2 = QueueName
  BY DEF Queues, Cleared
<1>6. Distinct(q2)
  BY <1>1, <1>2 DEF Distinct
<1>4. \A t \in who : Queued(q2, t) = {}
  BY <1>1, <1>2 DEF Queued
<1>5. \A t \in Thread \ who : Queued(q2, t) = Queued(qs, t)
  BY <1>1, <1>2 DEF Queued
<1> QED BY <1>4, <1>5, <1>6

LEMMA UnqueuedQueues ==
    ASSUME NEW qs \in Queues, Distinct(qs), NEW who
    PROVE  Unqueued(qs, who) \in Queues /\ Cleared(qs, Unqueued(qs, who), who)
<1>1. DOMAIN qs = QueueName
  BY DEF Queues
<1>2. \A n \in QueueName : Without(qs[n], who) \in Seq(Thread)
  BY WithoutEntries DEF Queues, Distinct
<1>3. [n \in QueueName |-> Without(qs[n], who)] \in Queues
  BY <1>2 DEF Queues
<1> DEFINE q2 == Unqueued(qs, who)
<1>4. q2 \in Queues /\ \A n \in QueueName : q2[n] = Without(qs[n], who)
  BY <1>1, <1>3 DEF Unqueued
<1> HIDE DEF q2
<1>5. Cleared(qs, q2, who)
  BY <1>4 DEF Cleared
<1> QED BY <1>4, <1>5 DEF q2

(***************************************************************************)
(* What a frame more does to them.                                         *)
(***************************************************************************)
LEMMA FramePushed ==
    ASSUME NEW frames \in Seq(Frame), NEW f \in Frame
    PROVE  /\ Append(frames, f) \in Seq(Frame)
           /\ DOMAIN Append(frames, f) = 1..(Len(frames) + 1)
           /\ \A n \in DOMAIN frames : Append(frames, f)[n] = frames[n]
           /\ Append(frames, f)[Len(frames) + 1] = f
           /\ DOMAIN frames = 1..Len(frames) /\ Len(frames) \in Nat
OBVIOUS

\* Whoever is not in its hand is where it was; whoever is, is there and was in no other's.
LEMMA FrameHolds ==
    ASSUME NEW frames \in Seq(Frame), NEW f \in Frame, NEW t
    PROVE  /\ t \notin HeldBy(f) =>
                 /\ Unheld(t, Append(frames, f)) <=> Unheld(t, frames)
                 /\ \A fn : HeldIn(t, fn, Append(frames, f)) <=> HeldIn(t, fn, frames)
           /\ t \in HeldBy(f) =>
                 /\ ~Unheld(t, Append(frames, f))
                 /\ \A fn : HeldIn(t, fn, Append(frames, f)) <=> Unheld(t, frames) /\ fn = f.fn
<1> DEFINE g == Append(frames, f)
           L == Len(frames)
<1>1. /\ DOMAIN g = 1..(L + 1) /\ DOMAIN frames = 1..L /\ L \in Nat
      /\ \A n \in 1..L : g[n] = frames[n]
      /\ g[L + 1] = f
  BY FramePushed
<1> HIDE DEF g, L
<1>2. L + 1 \notin 1..L /\ 1..(L + 1) = (1..L) \cup {L + 1}
  BY <1>1
<1>3. Stacked(g, t) = Stacked(frames, t) \cup IF t \in HeldBy(f) THEN {L + 1} ELSE {}
  BY <1>1, <1>2 DEF Stacked
<1>4. Stacked(frames, t) \subseteq 1..L
  BY <1>1 DEF Stacked
<1>5. ASSUME t \notin HeldBy(f)
      PROVE  /\ Unheld(t, g) <=> Unheld(t, frames)
             /\ \A fn : HeldIn(t, fn, g) <=> HeldIn(t, fn, frames)
  BY <1>1, <1>2, <1>3, <1>4, <1>5 DEF Unheld, HeldIn
<1>6. ASSUME t \in HeldBy(f)
      PROVE  /\ ~Unheld(t, g)
             /\ \A fn : HeldIn(t, fn, g) <=> Unheld(t, frames) /\ fn = f.fn
  <2>1. Stacked(g, t) = Stacked(frames, t) \cup {L + 1} /\ L + 1 \notin Stacked(frames, t)
    BY <1>2, <1>3, <1>4, <1>6
  <2>2. ASSUME NEW fn, HeldIn(t, fn, g) PROVE Unheld(t, frames) /\ fn = f.fn
    <3>1. PICK n \in DOMAIN g : Stacked(g, t) = {n} /\ g[n].fn = fn
      BY <2>2 DEF HeldIn
    <3>2. n = L + 1 /\ Stacked(frames, t) = {}
      BY <2>1, <3>1
    <3> QED BY <1>1, <3>1, <3>2 DEF Unheld
  <2>3. ASSUME NEW fn, Unheld(t, frames), fn = f.fn PROVE HeldIn(t, fn, g)
    <3>1. Stacked(g, t) = {L + 1} /\ L + 1 \in DOMAIN g /\ g[L + 1].fn = fn
      BY <1>1, <1>2, <2>1, <2>3 DEF Unheld
    <3> QED BY <3>1 DEF HeldIn
  <2> QED BY <2>1, <2>2, <2>3 DEF Unheld
<1> QED BY <1>5, <1>6 DEF g

-----------------------------------------------------------------------------
(***************************************************************************)
(* A thread about which nothing changes stays where it sits.                *)
(***************************************************************************)
Alike(t, ts, ts2) ==
    /\ ts2[t].state = ts[t].state
    /\ ts2[t].args = ts[t].args
    /\ ts2[t].wakeIn = ts[t].wakeIn

LEMMA SitsStill ==
    ASSUME NEW t, NEW ts, NEW qs, NEW frames, NEW stopped, Sits(t, ts, qs, frames, stopped),
           NEW ts2, NEW q2, NEW f2, NEW stopped2,
           Alike(t, ts, ts2), ts2[t].doomed => ts[t].state = "Running",
           Queued(q2, t) = Queued(qs, t),
           Unheld(t, f2) <=> Unheld(t, frames),
           \A fn : HeldIn(t, fn, f2) <=> HeldIn(t, fn, frames),
           stopped2 = t <=> stopped = t
    PROVE  Sits(t, ts2, q2, f2, stopped2)
BY DEF Sits, Alike, Nowhere, OnlyIn, OnlyHeld

\* Frames that hold nobody may come and go.
LEMMA FrameOff ==
    ASSUME NEW below \in Seq(Frame), NEW f \in Frame, HeldBy(f) = {},
           NEW ts, NEW qs, NEW stopped, NEW but
    PROVE  /\ Settled(ts, qs, Append(below, f), stopped, but) <=> Settled(ts, qs, below, stopped, but)
           /\ \A t : Nowhere(t, qs, Append(below, f)) <=> Nowhere(t, qs, below)
<1>1. \A t : /\ Unheld(t, Append(below, f)) <=> Unheld(t, below)
             /\ \A fn : HeldIn(t, fn, Append(below, f)) <=> HeldIn(t, fn, below)
  BY FrameHolds
<1>2. \A t : Sits(t, ts, qs, Append(below, f), stopped) <=> Sits(t, ts, qs, below, stopped)
  BY <1>1 DEF Sits, Nowhere, OnlyIn, OnlyHeld
<1> QED BY <1>1, <1>2 DEF Settled, Nowhere

(***************************************************************************)
(* resume, in terms of what it leaves.                                     *)
(***************************************************************************)
Home == {<<"Sleeping", "sleepers">>, <<"Deferred", "deferred">>, <<"WaitChild", "childWaiters">>}

Outcome(t, ts, qs, frames, ts2, q2, f2) ==
    \/ /\ ts2 = [ts EXCEPT ![t].state = "Running"]
       /\ q2 = qs
       /\ f2 = Append(frames, [fn |-> "task", t |-> t])
    \/ /\ f2 = frames
       /\ \E n \in QueueName :
             /\ Joins(qs, q2, n, t)
             /\ \/ n = "ready" /\ ts2 = [ts EXCEPT ![t].args = TRUE, ![t].state = "Ready"]
                \/ <<ts[t].state, n>> \in Home /\ ts2 = [ts EXCEPT ![t].args = TRUE]

LEMMA ResumeOutcome ==
    ASSUME NEW t \in Thread, NEW ts \in Tasks, NEW qs \in Queues, NEW frames,
           Resume(t, ts, qs, frames)
    PROVE  /\ Outcome(t, ts, qs, frames, task', queue', stack')
           /\ stack' = frames \/ ~HeldStill(t)
<1>1. CASE Hold(t, ts, qs, frames)
  BY <1>1 DEF Hold, Outcome, Joins, QueueName, Queues
<1>2. CASE Run(t, ts, qs, frames)
  BY <1>2 DEF Run, Outcome
<1>3. CASE Requeue(t, ts, qs) /\ stack' = frames
  <2>1. CASE ts[t].state = "Sleeping"
    BY <1>3, <2>1 DEF Requeue, Outcome, Joins, QueueName, Queues, Home
  <2>2. CASE ts[t].state = "Deferred"
    BY <1>3, <2>2 DEF Requeue, Outcome, Joins, QueueName, Queues, Home
  <2>3. CASE ts[t].state = "WaitChild"
    BY <1>3, <2>3 DEF Requeue, Outcome, Joins, QueueName, Queues, Home
  <2>4. CASE ts[t].state \notin {"Sleeping", "Deferred", "WaitChild"}
    BY <1>3, <2>4 DEF Requeue, Outcome, Joins, QueueName, Queues, Home
  <2> QED BY <2>1, <2>2, <2>3, <2>4
<1> QED BY <1>1, <1>2, <1>3 DEF Resume

\* A thread that was taken out of where it waited, or is new, is somewhere again.
Ready(t, ts) ==
    /\ ts[t].state \in {"Ready", "Sleeping", "Deferred", "WaitSignal", "WaitChild", "Parked"}
    /\ ~ts[t].args /\ ~ts[t].doomed
    /\ ts[t].state = "Sleeping" => ts[t].wakeIn = 0

Carried(t, ts, ts2) ==
    \A u \in Thread :
       /\ ts2[u].ctx = ts[u].ctx /\ ts2[u].doomed = ts[u].doomed
       /\ ts2[u].state # "None" => u = t \/ ts[u].state # "None"

LEMMA OutcomeSettles ==
    ASSUME NEW t \in Thread, NEW ts \in Tasks, NEW qs \in Queues, NEW frames \in Seq(Frame), NEW stopped,
           Distinct(qs), Settled(ts, qs, frames, stopped, {t}), Nowhere(t, qs, frames), Ready(t, ts),
           stopped # t,
           NEW ts2, NEW q2, NEW f2, Outcome(t, ts, qs, frames, ts2, q2, f2)
    PROVE  /\ ts2 \in Tasks /\ q2 \in Queues /\ Distinct(q2)
           /\ Settled(ts2, q2, f2, stopped, {})
           /\ Carried(t, ts, ts2)
<1>1. ts[t] \in [state : State, ctx : Script \cup {None}, args : BOOLEAN, doomed : BOOLEAN, wakeIn : Nat]
  BY DEF Tasks
<1>2. Queued(qs, t) = {} /\ Unheld(t, frames)
  BY DEF Nowhere
<1>3. CASE ts2 = [ts EXCEPT ![t].state = "Running"] /\ q2 = qs /\ f2 = Append(frames, [fn |-> "task", t |-> t])
  <2> DEFINE f == [fn |-> "task", t |-> t]
  <2>1. f \in Frame /\ HeldBy(f) = {t} /\ f.fn = "task"
    BY DEF Frame, HeldBy
  <2> HIDE DEF f
  <2>2. ts2 \in Tasks
    BY <1>3 DEF Tasks, State
  <2>3. ts2[t].state = "Running" /\ ts2[t].args = ts[t].args /\ ts2[t].doomed = ts[t].doomed /\ ts2[t].ctx = ts[t].ctx
    BY <1>3 DEF Tasks
  <2>4. \A u \in Thread \ {t} : ts2[u] = ts[u]
    BY <1>3 DEF Tasks
  <2>5. f2 = Append(frames, f)
    BY <1>3 DEF f
  <2>6. HeldIn(t, "task", f2)
    BY <1>2, <2>1, <2>5, FrameHolds
  <2>7. Sits(t, ts2, q2, f2, stopped)
    BY <1>2, <1>3, <2>3, <2>6 DEF Sits, OnlyHeld, Ready
  <2>8. ASSUME NEW u \in Thread \ {t} PROVE Sits(u, ts2, q2, f2, stopped)
    <3>1. Sits(u, ts, qs, frames, stopped)
      BY DEF Settled
    <3>2. /\ Unheld(u, f2) <=> Unheld(u, frames)
          /\ \A fn : HeldIn(u, fn, f2) <=> HeldIn(u, fn, frames)
      BY <2>1, <2>5, FrameHolds
    <3>3. Alike(u, ts, ts2) /\ (ts2[u].doomed => ts[u].state = "Running")
      BY <2>4, <3>1 DEF Alike, Sits
    <3>4. Queued(q2, u) = Queued(qs, u)
      BY <1>3
    <3> QED BY <3>1, <3>2, <3>3, <3>4, SitsStill
  <2> QED BY <1>3, <2>2, <2>3, <2>4, <2>7, <2>8 DEF Settled, Carried
<1>4. CASE \E n \in QueueName :
             /\ f2 = frames
             /\ Joins(qs, q2, n, t)
             /\ \/ n = "ready" /\ ts2 = [ts EXCEPT ![t].args = TRUE, ![t].state = "Ready"]
                \/ <<ts[t].state, n>> \in Home /\ ts2 = [ts EXCEPT ![t].args = TRUE]
  <2>7. PICK n \in QueueName :
             /\ f2 = frames
             /\ Joins(qs, q2, n, t)
             /\ \/ n = "ready" /\ ts2 = [ts EXCEPT ![t].args = TRUE, ![t].state = "Ready"]
                \/ <<ts[t].state, n>> \in Home /\ ts2 = [ts EXCEPT ![t].args = TRUE]
    BY <1>4
  <2>1. /\ q2 \in Queues /\ Distinct(q2) /\ Queued(q2, t) = {n}
        /\ \A u \in Thread \ {t} : Queued(q2, u) = Queued(qs, u)
    BY <1>2, <2>7, Enqueued
  <2>2. /\ ts2[t].args /\ ts2[t].doomed = ts[t].doomed /\ ts2[t].ctx = ts[t].ctx
        /\ ts2[t].wakeIn = ts[t].wakeIn
        /\ \/ n = "ready" /\ ts2[t].state = "Ready"
           \/ <<ts[t].state, n>> \in Home /\ ts2[t].state = ts[t].state
    BY <1>1, <2>7 DEF Tasks
  <2>3. ts2 \in Tasks
    <3>1. CASE ts2 = [ts EXCEPT ![t].args = TRUE, ![t].state = "Ready"]
      BY <1>1, <3>1 DEF Tasks, State
    <3>2. CASE ts2 = [ts EXCEPT ![t].args = TRUE]
      BY <1>1, <3>2 DEF Tasks, State
    <3> QED BY <2>7, <3>1, <3>2
  <2>4. \A u \in Thread \ {t} : ts2[u] = ts[u]
    BY <2>7 DEF Tasks
  <2>5. Sits(t, ts2, q2, f2, stopped)
    <3>1. OnlyIn(t, n, q2, f2)
      BY <1>2, <2>1, <2>7 DEF OnlyIn
    <3>2. CASE n = "ready" /\ ts2[t].state = "Ready"
      BY <2>2, <3>1, <3>2 DEF Sits, Ready
    <3>3. CASE <<ts[t].state, n>> \in Home /\ ts2[t].state = ts[t].state
      <4>1. CASE ts2[t].state = "Sleeping" /\ n = "sleepers"
        BY <2>2, <3>1, <3>3, <4>1 DEF Sits, Ready
      <4>2. CASE ts2[t].state = "Deferred" /\ n = "deferred"
        BY <2>2, <3>1, <3>3, <4>2 DEF Sits, Ready
      <4>3. CASE ts2[t].state = "WaitChild" /\ n = "childWaiters"
        BY <2>2, <3>1, <3>3, <4>3 DEF Sits, Ready
      <4> QED BY <3>3, <4>1, <4>2, <4>3 DEF Home
    <3> QED BY <2>2, <3>2, <3>3
  <2>6. ASSUME NEW u \in Thread \ {t} PROVE Sits(u, ts2, q2, f2, stopped)
    <3>1. Sits(u, ts, qs, frames, stopped)
      BY DEF Settled
    <3>2. Alike(u, ts, ts2) /\ (ts2[u].doomed => ts[u].state = "Running")
      BY <2>4, <3>1 DEF Alike, Sits
    <3>3. f2 = frames /\ Queued(q2, u) = Queued(qs, u)
      BY <2>1, <2>7
    <3> QED BY <3>1, <3>2, <3>3, SitsStill
  <2> QED BY <2>1, <2>2, <2>3, <2>4, <2>5, <2>6 DEF Settled, Carried
<1> QED BY <1>3, <1>4 DEF Outcome

(***************************************************************************)
(* kill, of all in `who': those on no list and in no frame any more.        *)
(***************************************************************************)
LEMMA GoneSettles ==
    ASSUME NEW who, NEW ts, NEW qs, NEW frames, NEW stopped \in Thread \cup {None},
           Settled(ts, qs, frames, stopped, who),
           NEW ts2, NEW q2, NEW stopped2, stopped2 = IF stopped \in who THEN None ELSE stopped,
           \A t \in Thread \cap who : ts2[t] = NoTask /\ Nowhere(t, q2, frames),
           \A t \in Thread \ who :
              /\ Alike(t, ts, ts2) /\ (ts2[t].doomed => ts[t].state = "Running")
              /\ Queued(q2, t) = Queued(qs, t)
    PROVE  Settled(ts2, q2, frames, stopped2, {})
<1>1. None \notin Thread
  BY SchedulerAssumption
<1>2. ASSUME NEW t \in Thread \cap who PROVE Sits(t, ts2, q2, frames, stopped2)
  <2>1. ts2[t].state = "None" /\ ~ts2[t].args /\ ~ts2[t].doomed /\ stopped2 # t
    BY <1>1, <1>2 DEF NoTask
  <2> QED BY <1>2, <2>1 DEF Sits
<1>3. ASSUME NEW t \in Thread \ who PROVE Sits(t, ts2, q2, frames, stopped2)
  <2>1. Sits(t, ts, qs, frames, stopped)
    BY DEF Settled
  <2>2. stopped2 = t <=> stopped = t
    BY <1>1, <1>3
  <2> QED BY <1>3, <2>1, <2>2, SitsStill
<1> QED BY <1>2, <1>3 DEF Settled

\* Threads nothing was done to.
LEMMA OthersSettled ==
    ASSUME NEW ts, NEW qs, NEW frames, NEW stopped, NEW but, NEW but2, but \subseteq but2,
           Settled(ts, qs, frames, stopped, but), NEW ts2, NEW q2,
           \A u \in Thread \ but2 : ts2[u] = ts[u] /\ Queued(q2, u) = Queued(qs, u)
    PROVE  Settled(ts2, q2, frames, stopped, but2)
BY DEF Settled, Sits, Nowhere, OnlyIn, OnlyHeld

(***************************************************************************)
(* A thread that yields, or that was stopped while it ran and is killed.    *)
(***************************************************************************)
Queuing(t, n, qs, q1) == q1 = [qs EXCEPT ![n] = Append(qs[n], t)]

Parting(t, ts, q1, stopped, ts2, q2, stopped2) ==
    IF ts[t].doomed
    THEN /\ ts2 = Kill(ts, {t}) /\ q2 = Unqueued(q1, {t})
         /\ stopped2 = IF stopped \in {t} THEN None ELSE stopped
    ELSE ts2 = ts /\ q2 = q1 /\ stopped2 = stopped

LEMMA LeaveSettles ==
    ASSUME NEW t \in Thread, NEW ts \in Tasks, NEW qs \in Queues, NEW frames \in Seq(Frame),
           NEW stopped \in Thread \cup {None}, stopped # t,
           Distinct(qs), Settled(ts, qs, frames, stopped, {t}), Nowhere(t, qs, frames),
           NEW n \in QueueName, <<ts[t].state, n>> \in Home \cup {<<"WaitSignal", "waiters">>}, ~ts[t].args,
           NEW q1, Queuing(t, n, qs, q1),
           NEW ts2, NEW q2, NEW stopped2, Parting(t, ts, q1, stopped, ts2, q2, stopped2)
    PROVE  /\ ts2 \in Tasks /\ q2 \in Queues /\ Distinct(q2) /\ stopped2 = stopped
           /\ Settled(ts2, q2, frames, stopped, {})
           /\ \A u \in Thread : ts2[u] = ts[u] \/ ts2[u] = NoTask
<1>1. /\ q1 \in Queues /\ Distinct(q1) /\ Queued(q1, t) = {n}
      /\ \A u \in Thread \ {t} : Queued(q1, u) = Queued(qs, u)
  <2>1. Joins(qs, q1, n, t)
    BY DEF Queuing, Joins
  <2>2. Queued(qs, t) = {}
    BY DEF Nowhere
  <2> QED BY <2>1, <2>2, Enqueued
<1>2. Settled(ts, q1, frames, stopped, {t})
  BY <1>1, OthersSettled
<1>3. stopped2 = stopped
  BY DEF Parting
<1>4. CASE ts[t].doomed
  <2>1. ts2 = Kill(ts, {t}) /\ q2 = Unqueued(q1, {t})
    BY <1>4 DEF Parting
  <2>2. /\ q2 \in Queues /\ Distinct(q2) /\ Queued(q2, t) = {}
        /\ \A u \in Thread \ {t} : Queued(q2, u) = Queued(q1, u)
    <3>1. PICK who : who = {t}
      OBVIOUS
    <3>2. q1 \in Queues /\ Distinct(q1)
      BY <1>1
    <3>4. q2 \in Queues /\ Cleared(q1, q2, who)
      BY <2>1, <3>1, <3>2, UnqueuedQueues
    <3>3. /\ q2 \in Queues /\ Distinct(q2)
          /\ \A u \in who : Queued(q2, u) = {}
          /\ \A u \in Thread \ who : Queued(q2, u) = Queued(q1, u)
      BY <3>2, <3>4, UnqueuedAll
    <3> QED BY <3>1, <3>3
  <2>3. ts2[t] = NoTask /\ \A u \in Thread \ {t} : ts2[u] = ts[u]
    BY <2>1 DEF Kill
  <2>4. ts2 \in Tasks
    BY <2>1 DEF Kill, Tasks, NoTask, State
  <2>5. Nowhere(t, q2, frames)
    BY <2>2 DEF Nowhere
  <2>6. \A u \in Thread \ {t} : /\ Alike(u, ts, ts2) /\ (ts2[u].doomed => ts[u].state = "Running")
                               /\ Queued(q2, u) = Queued(q1, u)
    BY <1>2, <2>2, <2>3 DEF Alike, Settled, Sits
  <2>7. stopped = IF stopped \in {t} THEN None ELSE stopped
    OBVIOUS
  <2>8. \A u \in Thread \cap {t} : ts2[u] = NoTask /\ Nowhere(u, q2, frames)
    BY <2>3, <2>5
  <2>9. Settled(ts2, q2, frames, stopped, {})
    <3>1. PICK who : who = {t}
      OBVIOUS
    <3>2. Settled(ts, q1, frames, stopped, who) /\ stopped = IF stopped \in who THEN None ELSE stopped
      BY <1>2, <2>7, <3>1
    <3>3. \A u \in Thread \cap who : ts2[u] = NoTask /\ Nowhere(u, q2, frames)
      BY <2>8, <3>1
    <3>4. \A u \in Thread \ who : /\ Alike(u, ts, ts2) /\ (ts2[u].doomed => ts[u].state = "Running")
                                  /\ Queued(q2, u) = Queued(q1, u)
      BY <2>6, <3>1
    <3> QED BY <3>2, <3>3, <3>4, GoneSettles
  <2> QED BY <1>3, <2>2, <2>3, <2>4, <2>9
<1>5. CASE ~ts[t].doomed
  <2>1. ts2 = ts /\ q2 = q1
    BY <1>5 DEF Parting
  <2>2. OnlyIn(t, n, q1, frames)
    BY <1>1 DEF OnlyIn, Nowhere
  <2>3. Sits(t, ts, q1, frames, stopped)
    <3>1. CASE ts[t].state = "Sleeping" /\ n = "sleepers"
      BY <1>5, <2>2, <3>1 DEF Sits
    <3>2. CASE ts[t].state = "Deferred" /\ n = "deferred"
      BY <1>5, <2>2, <3>2 DEF Sits
    <3>3. CASE ts[t].state = "WaitChild" /\ n = "childWaiters"
      BY <1>5, <2>2, <3>3 DEF Sits
    <3>4. CASE ts[t].state = "WaitSignal" /\ n = "waiters"
      BY <1>5, <2>2, <3>4 DEF Sits
    <3> QED BY <3>1, <3>2, <3>3, <3>4 DEF Home
  <2>4. Settled(ts, q1, frames, stopped, {})
    BY <1>2, <2>3 DEF Settled
  <2> QED BY <1>1, <1>3, <2>1, <2>4
<1> QED BY <1>4, <1>5

(***************************************************************************)
(* A thread that is taken from a queue, or from the list a frame has in its *)
(* hand, and so is nowhere until it is resumed; and a queue that is taken   *)
(* into a hand.                                                            *)
(***************************************************************************)
Waits == Home \cup {<<"WaitSignal", "waiters">>, <<"Ready", "ready">>}

LEMMA QueuedState ==
    ASSUME NEW t \in Thread, NEW ts \in Tasks, NEW qs \in Queues, NEW frames, NEW stopped,
           Sits(t, ts, qs, frames, stopped), NEW n \in QueueName, t \in ToSet(qs[n])
    PROVE  <<ts[t].state, n>> \in Waits /\ OnlyIn(t, n, qs, frames)
<1>1. n \in Queued(qs, t) /\ ts[t].state \in State
  BY DEF Queued, Queues, Tasks
<1>2. ts[t].state \notin {"None", "Running", "Parked"}
  BY <1>1 DEF Sits, Nowhere, OnlyHeld
<1>3. CASE ts[t].state = "Ready"
  BY <1>1, <1>3 DEF Sits, OnlyIn, Waits
<1>4. CASE ts[t].state = "Sleeping"
  BY <1>1, <1>4 DEF Sits, OnlyIn, OnlyHeld, Waits, Home
<1>5. CASE ts[t].state = "Deferred"
  BY <1>1, <1>5 DEF Sits, OnlyIn, Waits, Home
<1>6. CASE ts[t].state = "WaitSignal"
  BY <1>1, <1>6 DEF Sits, OnlyIn, OnlyHeld, Waits, Home
<1>7. CASE ts[t].state = "WaitChild"
  BY <1>1, <1>7 DEF Sits, OnlyIn, Waits, Home
<1> QED BY <1>1, <1>2, <1>3, <1>4, <1>5, <1>6, <1>7 DEF State

LEMMA TakenFromQueue ==
    ASSUME NEW t \in Thread, NEW ts \in Tasks, NEW qs \in Queues, NEW frames, NEW stopped,
           Distinct(qs), Settled(ts, qs, frames, stopped, {}), NEW n \in QueueName, t \in ToSet(qs[n]),
           NEW q2, Fewer(qs, q2, n, {t})
    PROVE  /\ q2 \in Queues /\ Distinct(q2)
           /\ Settled(ts, q2, frames, stopped, {t})
           /\ Nowhere(t, q2, frames)
           /\ <<ts[t].state, n>> \in Waits
           /\ Sits(t, ts, qs, frames, stopped)
<1>1. /\ q2 \in Queues /\ Distinct(q2)
      /\ Queued(q2, t) = Queued(qs, t) \ {n}
      /\ \A u \in Thread \ {t} : Queued(q2, u) = Queued(qs, u)
  <2>1. PICK who : who = {t}
    OBVIOUS
  <2>2. Fewer(qs, q2, n, who)
    BY <2>1
  <2>3. /\ q2 \in Queues /\ Distinct(q2)
        /\ \A u \in who : Queued(q2, u) = Queued(qs, u) \ {n}
        /\ \A u \in Thread \ who : Queued(q2, u) = Queued(qs, u)
    BY <2>2, Dequeued
  <2> QED BY <2>1, <2>3
<1>2. Sits(t, ts, qs, frames, stopped)
  BY DEF Settled
<1>3. <<ts[t].state, n>> \in Waits /\ OnlyIn(t, n, qs, frames)
  BY <1>2, QueuedState
<1>4. Nowhere(t, q2, frames)
  BY <1>1, <1>3 DEF Nowhere, OnlyIn
<1>5. Settled(ts, q2, frames, stopped, {t})
  BY <1>1, OthersSettled
<1> QED BY <1>1, <1>2, <1>3, <1>4, <1>5

\* A thread at the head of a queue, or anywhere in the children's.
LEMMA HeadTaken ==
    ASSUME NEW qs \in Queues, Distinct(qs), NEW n \in QueueName, qs[n] # <<>>
    PROVE  /\ Head(qs[n]) \in Thread /\ Head(qs[n]) \in ToSet(qs[n])
           /\ Fewer(qs, [qs EXCEPT ![n] = Tail(qs[n])], n, {Head(qs[n])})
<1> DEFINE list == Tail(qs[n])
           q2 == [qs EXCEPT ![n] = list]
<1>1. qs[n] \in Seq(Thread) /\ IsInjective(qs[n])
  BY DEF Queues, Distinct
<1>2. /\ list \in Seq(Thread) /\ IsInjective(list)
      /\ ToSet(list) = ToSet(qs[n]) \ {Head(qs[n])}
      /\ Head(qs[n]) \in Thread /\ Head(qs[n]) \in ToSet(qs[n])
  BY <1>1, TailEntry
<1> HIDE DEF list
<1>3. q2 \in Queues /\ q2[n] = list /\ \A m \in QueueName \ {n} : q2[m] = qs[m]
  BY <1>2 DEF Queues
<1> HIDE DEF q2
<1>4. Fewer(qs, q2, n, {Head(qs[n])})
  BY <1>2, <1>3 DEF Fewer
<1> QED BY <1>2, <1>4 DEF q2, list

-----------------------------------------------------------------------------
(***************************************************************************)
(* The same for all that holds of the threads.  A thread that was taken is  *)
(* nowhere for now.                                                        *)
(***************************************************************************)
Taken(t, ts, qs, frames, stopped, on, cn) ==
    /\ Base(ts, qs, frames, stopped, on, cn, {t})
    /\ Nowhere(t, qs, frames)
    /\ stopped # t

LEMMA CallingIsFrame ==
    ASSUME NEW cn, NEW on, NEW frames \in Seq(Calling(cn, on))
    PROVE  frames \in Seq(Frame)
BY DEF Calling

LEMMA FrameComesAndGoes ==
    ASSUME NEW cn, NEW on, NEW below \in Seq(Calling(cn, on)), NEW f \in Calling(cn, on), HeldBy(f) = {},
           NEW ts, NEW qs, NEW stopped, NEW but
    PROVE  /\ Base(ts, qs, Append(below, f), stopped, on, cn, but) <=>
                Base(ts, qs, below, stopped, on, cn, but)
           /\ \A t : Taken(t, ts, qs, Append(below, f), stopped, on, cn) <=>
                       Taken(t, ts, qs, below, stopped, on, cn)
<1>1. below \in Seq(Frame) /\ f \in Frame /\ Append(below, f) \in Seq(Calling(cn, on))
  BY CallingIsFrame DEF Calling
<1>2. \A b : Settled(ts, qs, Append(below, f), stopped, b) <=> Settled(ts, qs, below, stopped, b)
  BY <1>1, FrameOff
<1>3. \A t : Nowhere(t, qs, Append(below, f)) <=> Nowhere(t, qs, below)
  BY <1>1, FrameOff
<1> QED BY <1>1, <1>2, <1>3 DEF Base, Taken

LEMMA Resumed ==
    ASSUME NEW t \in Thread, NEW ts, NEW qs, NEW frames, NEW stopped, NEW on, NEW cn,
           Taken(t, ts, qs, frames, stopped, on, cn), Ready(t, ts),
           NEW ts2, NEW q2, NEW f2, Outcome(t, ts, qs, frames, ts2, q2, f2)
    PROVE  Base(ts2, q2, f2, stopped, on, cn, {})
<1>1. /\ ts \in Tasks /\ qs \in Queues /\ Distinct(qs) /\ frames \in Seq(Calling(cn, on))
      /\ Settled(ts, qs, frames, stopped, {t}) /\ Nowhere(t, qs, frames) /\ stopped # t
      /\ Lasting(ts, on)
  BY DEF Taken, Base
<1>2. frames \in Seq(Frame)
  BY <1>1, CallingIsFrame
<1>3. /\ ts2 \in Tasks /\ q2 \in Queues /\ Distinct(q2)
      /\ Settled(ts2, q2, f2, stopped, {})
      /\ Carried(t, ts, ts2)
  BY <1>1, <1>2, OutcomeSettles
<1>4. Lasting(ts2, on)
  BY <1>1, <1>3 DEF Lasting, Ready, Carried
<1>5. f2 \in Seq(Calling(cn, on))
  <2>1. [fn |-> "task", t |-> t] \in Calling(cn, on)
    BY DEF Calling, Frame
  <2>2. f2 = frames \/ f2 = Append(frames, [fn |-> "task", t |-> t])
    BY DEF Outcome
  <2> QED BY <1>1, <2>1, <2>2
<1> QED BY <1>3, <1>4, <1>5 DEF Base

\* Only what its own code sees of a thread changes.
LEMMA ChangedTaken ==
    ASSUME NEW t \in Thread, NEW ts, NEW qs, NEW frames, NEW stopped, NEW on, NEW cn,
           Taken(t, ts, qs, frames, stopped, on, cn),
           NEW ts2 \in Tasks, \A u \in Thread \ {t} : ts2[u] = ts[u],
           ts2[t].state # "None" => ts2[t].doomed \/ ts2[t].ctx \in on
    PROVE  Taken(t, ts2, qs, frames, stopped, on, cn)
<1>1. Settled(ts2, qs, frames, stopped, {t})
  BY OthersSettled DEF Taken, Base
<1>2. Lasting(ts2, on)
  BY DEF Taken, Base, Lasting
<1> QED BY <1>1, <1>2 DEF Taken, Base

LEMMA FreshTaken ==
    ASSUME NEW t \in Thread, NEW ts, NEW qs, NEW frames, NEW stopped, NEW on, NEW cn,
           Base(ts, qs, frames, stopped, on, cn, {}), ts[t].state = "None",
           NEW ts2 \in Tasks, \A u \in Thread \ {t} : ts2[u] = ts[u], ts2[t].ctx \in on
    PROVE  Taken(t, ts2, qs, frames, stopped, on, cn)
<1>1. Sits(t, ts, qs, frames, stopped)
  BY DEF Base, Settled
<1>2. Nowhere(t, qs, frames) /\ stopped # t
  BY <1>1 DEF Sits
<1>3. Settled(ts, qs, frames, stopped, {t})
  BY DEF Base, Settled
<1>4. Taken(t, ts, qs, frames, stopped, on, cn)
  BY <1>2, <1>3 DEF Taken, Base
<1> QED BY <1>4, ChangedTaken

\* The thread on top of the stack, when its frame goes.
LEMMA LeftTaken ==
    ASSUME NEW t \in Thread, NEW ts, NEW qs, NEW below, NEW stopped, NEW on, NEW cn,
           below \in Seq(Calling(cn, on)),
           Base(ts, qs, Append(below, [fn |-> "task", t |-> t]), stopped, on, cn, {})
    PROVE  /\ Taken(t, ts, qs, below, stopped, on, cn)
           /\ ts[t].state = "Running" /\ ~ts[t].args
<1> DEFINE f == [fn |-> "task", t |-> t]
<1>1. f \in Frame /\ HeldBy(f) = {t} /\ f.fn = "task"
  BY DEF Frame, HeldBy
<1>2. below \in Seq(Frame)
  BY CallingIsFrame
<1>3. /\ ts \in Tasks /\ qs \in Queues /\ Distinct(qs) /\ Lasting(ts, on)
      /\ Settled(ts, qs, Append(below, f), stopped, {})
  BY DEF Base
<1> HIDE DEF f
<1>4. Sits(t, ts, qs, Append(below, f), stopped)
  BY <1>3 DEF Settled
<1>5. /\ ~Unheld(t, Append(below, f))
      /\ \A fn : HeldIn(t, fn, Append(below, f)) <=> Unheld(t, below) /\ fn = "task"
  BY <1>1, <1>2, FrameHolds
<1>6. ts[t].state \in State /\ ts[t].args \in BOOLEAN
  BY <1>3 DEF Tasks
<1>7. ts[t].state = "Running"
  BY <1>4, <1>5, <1>6 DEF Sits, Nowhere, OnlyIn, OnlyHeld, State
<1>8. Nowhere(t, qs, below) /\ stopped # t /\ ~ts[t].args
  BY <1>4, <1>5, <1>6, <1>7 DEF Sits, Nowhere, OnlyHeld
<1>9. ASSUME NEW u \in Thread \ {t} PROVE Sits(u, ts, qs, below, stopped)
  <2>1. Sits(u, ts, qs, Append(below, f), stopped)
    BY <1>3 DEF Settled
  <2>2. /\ Unheld(u, Append(below, f)) <=> Unheld(u, below)
        /\ \A fn : HeldIn(u, fn, Append(below, f)) <=> HeldIn(u, fn, below)
    BY <1>1, <1>2, FrameHolds
  <2> QED BY <2>1, <2>2 DEF Sits, Nowhere, OnlyIn, OnlyHeld
<1> QED BY <1>3, <1>7, <1>8, <1>9 DEF Taken, Base, Settled

(***************************************************************************)
(* The lists that wakeSleepers and fire have in their hand.                 *)
(***************************************************************************)
LEMMA HandShrinks ==
    ASSUME NEW ts, NEW qs, NEW below, NEW stopped, NEW on, NEW cn, below \in Seq(Calling(cn, on)),
           NEW fn \in {"wake", "waiters"}, NEW list \in Hand, list # <<>>,
           Base(ts, qs, Append(below, [fn |-> fn, list |-> list]), stopped, on, cn, {})
    PROVE  /\ Head(list) \in Thread
           /\ Taken(Head(list), ts, qs, Append(below, [fn |-> fn, list |-> Tail(list)]), stopped, on, cn)
           /\ ts[Head(list)].state = IF fn = "wake" THEN "Sleeping" ELSE "WaitSignal"
           /\ fn = "wake" => ts[Head(list)].wakeIn = 0
           /\ ts[Head(list)].args => fn = "wake"
           /\ ~ts[Head(list)].doomed
<1> DEFINE f == [fn |-> fn, list |-> list]
           g == [fn |-> fn, list |-> Tail(list)]
           t == Head(list)
<1>1. /\ list \in Seq(Thread) /\ IsInjective(list)
  BY DEF Hand
<1>2. /\ t \in Thread /\ t \in ToSet(list) /\ Tail(list) \in Seq(Thread)
      /\ ToSet(Tail(list)) = ToSet(list) \ {t} /\ IsInjective(Tail(list))
  BY <1>1, TailEntry
<1>3. /\ f \in Frame /\ HeldBy(f) = ToSet(list) /\ f.fn = fn
  BY DEF Frame, HeldBy
<1>4. /\ g \in Frame /\ g \in Calling(cn, on) /\ HeldBy(g) = ToSet(list) \ {t} /\ g.fn = fn
  <2>1. Tail(list) \in Hand
    BY <1>2 DEF Hand
  <2> HIDE DEF t
  <2>2. g \in Frame /\ g.fn = fn /\ g.fn # "fire"
    BY <2>1 DEF Frame
  <2>3. HeldBy(g) = ToSet(Tail(list))
    BY DEF HeldBy
  <2> QED BY <1>2, <2>2, <2>3 DEF Calling
<1>5. below \in Seq(Frame)
  BY CallingIsFrame
<1> HIDE DEF f, g, t
<1>6. /\ ts \in Tasks /\ qs \in Queues /\ Distinct(qs) /\ Lasting(ts, on)
      /\ Settled(ts, qs, Append(below, f), stopped, {})
  BY DEF Base, f
<1>7. /\ ~Unheld(t, Append(below, f))
      /\ \A x : HeldIn(t, x, Append(below, f)) <=> Unheld(t, below) /\ x = fn
  BY <1>2, <1>3, <1>5, FrameHolds
<1>8. Sits(t, ts, qs, Append(below, f), stopped) /\ ts[t].state \in State
  BY <1>2, <1>6 DEF Settled, Tasks
<1>9. /\ Queued(qs, t) = {} /\ Unheld(t, below)
      /\ ts[t].state = IF fn = "wake" THEN "Sleeping" ELSE "WaitSignal"
      /\ fn = "wake" => ts[t].wakeIn = 0
      /\ ts[t].args => fn = "wake"
      /\ ~ts[t].doomed /\ stopped # t
  BY <1>7, <1>8 DEF Sits, Nowhere, OnlyIn, OnlyHeld, State
<1>10. Nowhere(t, qs, Append(below, g))
  BY <1>4, <1>5, <1>9, FrameHolds DEF Nowhere
<1>11. ASSUME NEW u \in Thread \ {t} PROVE Sits(u, ts, qs, Append(below, g), stopped)
  <2>1. Sits(u, ts, qs, Append(below, f), stopped)
    BY <1>6 DEF Settled
  <2>2. CASE u \in ToSet(list)
    <3>1. /\ ~Unheld(u, Append(below, f)) /\ ~Unheld(u, Append(below, g))
          /\ \A x : HeldIn(u, x, Append(below, f)) <=> Unheld(u, below) /\ x = fn
          /\ \A x : HeldIn(u, x, Append(below, g)) <=> Unheld(u, below) /\ x = fn
      BY <1>3, <1>4, <1>5, <2>2, FrameHolds
    <3> QED BY <2>1, <3>1 DEF Sits, Nowhere, OnlyIn, OnlyHeld
  <2>3. CASE u \notin ToSet(list)
    <3>1. /\ Unheld(u, Append(below, f)) <=> Unheld(u, below)
          /\ Unheld(u, Append(below, g)) <=> Unheld(u, below)
          /\ \A x : HeldIn(u, x, Append(below, f)) <=> HeldIn(u, x, below)
          /\ \A x : HeldIn(u, x, Append(below, g)) <=> HeldIn(u, x, below)
      BY <1>3, <1>4, <1>5, <2>3, FrameHolds
    <3> QED BY <2>1, <3>1 DEF Sits, Nowhere, OnlyIn, OnlyHeld
  <2> QED BY <2>2, <2>3
<1>12. Append(below, g) \in Seq(Calling(cn, on))
  BY <1>4
<1>13. Taken(t, ts, qs, Append(below, g), stopped, on, cn)
  BY <1>6, <1>9, <1>10, <1>11, <1>12 DEF Taken, Base, Settled
<1> QED BY <1>2, <1>9, <1>13 DEF g, t

Grasped(ts, qs, n, fn, who, list) ==
    /\ <<n, fn>> \in {<<"sleepers", "wake">>, <<"waiters", "waiters">>}
    /\ list \in Hand /\ ToSet(list) = ToSet(qs[n]) \cap who
    /\ \A u \in ToSet(list) : n = "sleepers" => ts[u].wakeIn = 0

LEMMA HandTakes ==
    ASSUME NEW ts, NEW qs, NEW below, NEW stopped, NEW on, NEW cn,
           Base(ts, qs, below, stopped, on, cn, {}),
           NEW n, NEW fn, NEW q2, NEW who, Fewer(qs, q2, n, who),
           NEW list, Grasped(ts, qs, n, fn, who, list)
    PROVE  Base(ts, q2, Append(below, [fn |-> fn, list |-> list]), stopped, on, cn, {})
<1> DEFINE f == [fn |-> fn, list |-> list]
<1>1. /\ ts \in Tasks /\ qs \in Queues /\ Distinct(qs) /\ Lasting(ts, on)
      /\ Settled(ts, qs, below, stopped, {}) /\ below \in Seq(Calling(cn, on))
  BY DEF Base
<1>2. below \in Seq(Frame)
  BY <1>1, CallingIsFrame
<1>3. n \in QueueName /\ ToSet(list) = ToSet(qs[n]) \cap who
  BY DEF QueueName, Grasped
<1>4. f \in Frame /\ f \in Calling(cn, on) /\ HeldBy(f) = ToSet(list) /\ f.fn = fn
  <2>1. fn \in {"wake", "waiters"} /\ list \in Hand /\ f.fn = fn
    BY DEF Grasped
  <2>2. f \in Frame /\ HeldBy(f) = ToSet(list)
    BY <2>1 DEF Frame, HeldBy
  <2> QED BY <2>1, <2>2 DEF Calling
<1>5. /\ q2 \in Queues /\ Distinct(q2)
      /\ \A u \in who : Queued(q2, u) = Queued(qs, u) \ {n}
      /\ \A u \in Thread \ who : Queued(q2, u) = Queued(qs, u)
  BY <1>1, <1>3, Dequeued
<1> HIDE DEF f
<1>6. ASSUME NEW u \in Thread, u \in ToSet(list) PROVE Sits(u, ts, q2, Append(below, f), stopped)
  <2>1. u \in ToSet(qs[n]) /\ u \in who
    BY <1>3, <1>6
  <2>2. Sits(u, ts, qs, below, stopped)
    BY <1>1 DEF Settled
  <2>3. <<ts[u].state, n>> \in Waits /\ OnlyIn(u, n, qs, below)
    BY <1>1, <1>3, <2>1, <2>2, QueuedState
  <2>4. Queued(q2, u) = {} /\ Unheld(u, below)
    BY <1>5, <2>1, <2>3 DEF OnlyIn
  <2>5. OnlyHeld(u, fn, q2, Append(below, f))
    BY <1>2, <1>4, <1>6, <2>4, FrameHolds DEF OnlyHeld
  <2>6. CASE n = "sleepers"
    <3>1. ts[u].state = "Sleeping" /\ fn = "wake" /\ ts[u].wakeIn = 0
      BY <1>6, <2>3, <2>6 DEF Waits, Home, Grasped
    <3> QED BY <2>2, <2>5, <3>1 DEF Sits
  <2>7. CASE n = "waiters"
    <3>1. ts[u].state = "WaitSignal" /\ fn = "waiters"
      BY <2>3, <2>7 DEF Waits, Home, Grasped
    <3> QED BY <2>2, <2>5, <3>1 DEF Sits
  <2> QED BY <2>6, <2>7 DEF Grasped
<1>7. ASSUME NEW u \in Thread, u \notin ToSet(list) PROVE Sits(u, ts, q2, Append(below, f), stopped)
  <2>1. Sits(u, ts, qs, below, stopped)
    BY <1>1 DEF Settled
  <2>2. Queued(q2, u) = Queued(qs, u)
    <3>1. CASE u \in who
      <4>1. n \notin Queued(qs, u)
        BY <1>3, <1>7, <3>1 DEF Queued
      <4> QED BY <1>5, <3>1, <4>1
    <3>2. CASE u \notin who
      BY <1>5, <3>2
    <3> QED BY <3>1, <3>2
  <2>3. /\ Unheld(u, Append(below, f)) <=> Unheld(u, below)
        /\ \A x : HeldIn(u, x, Append(below, f)) <=> HeldIn(u, x, below)
    BY <1>2, <1>4, <1>7, FrameHolds
  <2> QED BY <2>1, <2>2, <2>3 DEF Sits, Nowhere, OnlyIn, OnlyHeld
<1>8. Append(below, f) \in Seq(Calling(cn, on))
  BY <1>1, <1>4
<1>9. Settled(ts, q2, Append(below, f), stopped, {})
  BY <1>6, <1>7 DEF Settled
<1> QED BY <1>1, <1>5, <1>8, <1>9 DEF Base, f

-----------------------------------------------------------------------------
(***************************************************************************)
(* Which frames may be on the stack.                                       *)
(***************************************************************************)
LEMMA LoopOnTop ==
    ASSUME NEW frames \in Seq(Frame), NEW stopped, NEW calls, Flat(frames, stopped, calls),
           frames # <<>> => Last(frames).fn # "task"
    PROVE  Low(frames, calls) /\ (frames # <<>> => Low(Front(frames), calls))
<1>1. CASE frames = <<>>
  BY <1>1 DEF Low
<1>2. CASE frames # <<>>
  <2>1. /\ Front(frames) \in Seq(Frame) /\ Last(frames) \in Frame
        /\ frames = Append(Front(frames), Last(frames))
    BY <1>2, FrontAndLast
  <2>2. Low(Front(frames), calls) /\ Last(frames) \in Loop
    BY <1>2, <2>1 DEF Flat, Loop
  <2>3. "breakpoint" \in calls => Append(Front(frames), Last(frames)) \in Seq(Loop)
    BY <2>2 DEF Low
  <2> QED BY <2>1, <2>2, <2>3 DEF Low
<1> QED BY <1>1, <1>2

LEMMA LowGrows ==
    ASSUME NEW frames, NEW calls, Low(frames, calls), NEW f \in Loop
    PROVE  Low(Append(frames, f), calls)
BY DEF Low

LEMMA LowIsFlat ==
    ASSUME NEW frames \in Seq(Frame), NEW calls, Low(frames, calls), NEW stopped, stopped # None => "breakpoint" \in calls
    PROVE  Flat(frames, stopped, calls)
<1>1. ASSUME frames # <<>>, "breakpoint" \in calls PROVE Front(frames) \in Seq(Loop)
  BY <1>1, FrontAndLast DEF Low
<1> QED BY <1>1 DEF Flat, Low

LEMMA PushedIsFlat ==
    ASSUME NEW frames \in Seq(Frame), NEW calls, Low(frames, calls), NEW f \in Frame
    PROVE  Flat(Append(frames, f), None, calls)
<1>1. Front(Append(frames, f)) = frames
  BY FrontOfPushed
<1> QED BY <1>1 DEF Flat

(***************************************************************************)
(* resume: a thread that was taken is kept again.                          *)
(***************************************************************************)
LEMMA ResumeKeeps ==
    ASSUME NEW t \in Thread, NEW ts, NEW qs, NEW frames, NEW stopped, NEW on, NEW cn,
           Taken(t, ts, qs, frames, stopped, on, cn), Ready(t, ts), NEW calls, Low(frames, calls),
           stopped \in {None, paused}, stopped # None => "breakpoint" \in calls,
           Resume(t, ts, qs, frames) \/ Hold(t, ts, qs, frames) \/ Run(t, ts, qs, frames)
    PROVE  Base(task', queue', stack', stopped, on, cn, {}) /\ Flat(stack', stopped, calls)
<1>1. /\ ts \in Tasks /\ qs \in Queues /\ frames \in Seq(Calling(cn, on)) /\ stopped # t
  BY DEF Taken, Base
<1>2. frames \in Seq(Frame)
  BY <1>1, CallingIsFrame
<1>3. Outcome(t, ts, qs, frames, task', queue', stack') /\ (stack' = frames \/ ~HeldStill(t))
  <2>1. CASE Resume(t, ts, qs, frames)
    BY <1>1, <2>1, ResumeOutcome
  <2>2. CASE Hold(t, ts, qs, frames)
    BY <2>2 DEF Hold, Outcome, Joins, QueueName, Queues
  <2>3. CASE Run(t, ts, qs, frames)
    BY <2>3 DEF Run, Outcome
  <2> QED BY <2>1, <2>2, <2>3
<1>4. Base(task', queue', stack', stopped, on, cn, {})
  BY <1>3, Resumed
<1>5. CASE stack' = frames
  <2>1. Flat(frames, stopped, calls)
    BY <1>2, LowIsFlat
  <2> QED BY <1>4, <1>5, <2>1
<1>6. CASE stack' # frames
  <2>1. stopped = None
    BY <1>1, <1>3, <1>6 DEF HeldStill
  <2>2. stack' = Append(frames, [fn |-> "task", t |-> t])
    BY <1>3, <1>6 DEF Outcome
  <2>3. [fn |-> "task", t |-> t] \in Frame
    BY DEF Frame
  <2> DEFINE f == [fn |-> "task", t |-> t]
  <2> HIDE DEF f
  <2>4. Flat(Append(frames, f), None, calls)
    BY <1>2, <2>3, PushedIsFlat DEF f
  <2> QED BY <1>4, <2>1, <2>2, <2>4 DEF f
<1> QED BY <1>4, <1>5, <1>6

-----------------------------------------------------------------------------
(***************************************************************************)
(* Each action keeps the invariant.  First the loops of the engine, which   *)
(* run when no thread does.                                                *)
(***************************************************************************)
\* A frame that has no thread in its hand.
Passive(cn, on) == {f \in Calling(cn, on) : f.fn \notin {"task", "wake", "waiters"}}

LEMMA TopTaken ==
    ASSUME SchedulerInv, stack # <<>>
    PROVE  /\ stack = Append(Below, Top)
           /\ Below \in Seq(Calling(conn, enabled)) /\ Top \in Calling(conn, enabled)
           /\ Below \in Seq(Frame) /\ Top \in Frame
           /\ Low(Below, Calls)
<1>1. stack \in Seq(Calling(conn, enabled))
  BY DEF SchedulerInv, Base
<1>2. /\ stack = Append(Below, Top)
      /\ Below \in Seq(Calling(conn, enabled)) /\ Top \in Calling(conn, enabled)
  BY <1>1, FrontAndLast DEF Below, Top
<1>3. Below \in Seq(Frame) /\ Top \in Frame
  BY <1>2, CallingIsFrame DEF Calling
<1> QED BY <1>2, <1>3 DEF SchedulerInv, Flat, Below

LEMMA LoopTaken ==
    ASSUME SchedulerInv, stack # <<>>, Top.fn \notin {"task", "wake", "waiters"}
    PROVE  /\ Base(task, queue, Below, paused, enabled, conn, {})
           /\ paused # None => "breakpoint" \in Calls
           /\ Low(Below, Calls)
<1>1. /\ stack = Append(Below, Top)
      /\ Below \in Seq(Calling(conn, enabled)) /\ Top \in Calling(conn, enabled)
      /\ Low(Below, Calls)
  BY TopTaken
<1>2. HeldBy(Top) = {}
  BY DEF HeldBy
<1>3. Base(task, queue, Append(Below, Top), paused, enabled, conn, {})
  BY <1>1 DEF SchedulerInv
<1>4. Base(task, queue, Below, paused, enabled, conn, {})
  BY <1>1, <1>2, <1>3, FrameComesAndGoes
<1> QED BY <1>1, <1>4 DEF SchedulerInv, Flat

LEMMA PassivePushed ==
    ASSUME NEW ts, NEW qs, NEW below, NEW stopped, NEW on, NEW cn,
           Base(ts, qs, below, stopped, on, cn, {}), NEW calls, Low(below, calls),
           NEW f \in Passive(cn, on)
    PROVE  /\ Base(ts, qs, Append(below, f), stopped, on, cn, {})
           /\ Low(Append(below, f), calls)
           /\ Append(below, f) \in Seq(Frame)
<1>1. below \in Seq(Calling(cn, on)) /\ f \in Calling(cn, on) /\ HeldBy(f) = {} /\ f \in Loop
  BY DEF Base, Passive, HeldBy, Loop, Calling
<1>2. Base(ts, qs, Append(below, f), stopped, on, cn, {})
  BY <1>1, FrameComesAndGoes
<1>3. Low(Append(below, f), calls)
  BY <1>1, LowGrows
<1>4. below \in Seq(Frame) /\ f \in Frame
  BY <1>1, CallingIsFrame DEF Calling
<1> QED BY <1>2, <1>3, <1>4

\* The next state, when connections, scripts and the stack's calls are as they were.
LEMMA ThreadsKeep ==
    ASSUME SchedulerInv, UNCHANGED <<place, conn, enabled>>,
           conns' \in Seq(Conn), pendingStart' \in Seq(Script), paused' \in {paused, None},
           Base(task', queue', stack', paused', enabled, conn, {}), Flat(stack', paused', Calls)
    PROVE  SchedulerInv'
BY DEF SchedulerInv, SchedulerTypes, Calls

\* A loop takes its next turn, or is done.
LEMMA LoopKeeps ==
    ASSUME SchedulerInv, UNCHANGED <<place, task, queue, conn, enabled, paused>>,
           conns' \in Seq(Conn), pendingStart' \in Seq(Script),
           NEW below, Base(task, queue, below, paused, enabled, conn, {}), Low(below, Calls),
           stack' = below \/ \E f \in Passive(conn, enabled) : stack' = Append(below, f)
    PROVE  SchedulerInv'
<1>1. \A f \in Passive(conn, enabled) :
         /\ Base(task, queue, Append(below, f), paused, enabled, conn, {})
         /\ Low(Append(below, f), Calls)
         /\ Append(below, f) \in Seq(Frame)
  BY PassivePushed
<1>2. below \in Seq(Frame)
  BY CallingIsFrame DEF Base
<1>3. Base(task, queue, stack', paused, enabled, conn, {}) /\ Low(stack', Calls) /\ stack' \in Seq(Frame)
  BY <1>1, <1>2
<1>4. paused # None => "breakpoint" \in Calls
  BY DEF SchedulerInv, Flat
<1>5. Flat(stack', paused, Calls)
  BY <1>3, <1>4, LowIsFlat
<1> QED BY <1>3, <1>5, ThreadsKeep

LEMMA PassIsPassive ==
    ASSUME SchedulerInv, NEW fn \in {"start", "fire", "deferred", "wake", "ready", "children"}
    PROVE  Pass(fn) \in Passive(conn, enabled)
<1>1. CASE fn = "start"
  <2> DEFINE late == (enabled \ started) \ ToSet(pendingStart)
             list == pendingStart \o SetToSeq(late)
  <2>1. IsFiniteSet(late) /\ late \subseteq Script
    BY PlacesAssumption, FS_Subset DEF SchedulerInv, SchedulerTypes
  <2> HIDE DEF late
  <2>2. SetToSeq(late) \in Seq(late)
    BY <2>1, SetToSeqEntries
  <2>3. list \in Seq(Script)
    BY <2>1, <2>2 DEF SchedulerInv, SchedulerTypes
  <2>4. Pass(fn) = [fn |-> "start", list |-> list]
    BY <1>1 DEF Pass, late
  <2> HIDE DEF list
  <2> QED BY <2>3, <2>4 DEF Passive, Calling, Frame
<1>2. CASE fn = "fire"
  <2> DEFINE list == Within(conns, Hooked)
  <2>1. list \in Seq(Conn) /\ ToSet(list) = ToSet(conns) \cap Hooked
    BY WithinSet DEF SchedulerInv, SchedulerTypes
  <2>2. \A c \in ToSet(list) : conn[c].script \in enabled
    BY <2>1 DEF SchedulerInv, Hooking, Hooked
  <2>3. Pass(fn) = [fn |-> "fire", list |-> list, last |-> None]
    BY <1>2 DEF Pass
  <2> HIDE DEF list
  <2>4. Pass(fn) \in Frame /\ Pass(fn).fn = "fire" /\ Pass(fn).list = list
    BY <2>1, <2>3 DEF Frame
  <2> QED BY <2>2, <2>4 DEF Passive, Calling
<1>3. CASE fn = "deferred"
  BY <1>3 DEF Pass, Passive, Calling, Frame
<1>4. CASE fn = "wake"
  BY <1>4 DEF Pass, Passive, Calling, Frame
<1>5. CASE fn = "ready"
  BY <1>5 DEF Pass, Passive, Calling, Frame
<1>6. CASE fn = "children"
  BY <1>6 DEF Pass, Passive, Calling, Frame
<1> QED BY <1>1, <1>2, <1>3, <1>4, <1>5, <1>6

LEMMA MadeTaken ==
    ASSUME NEW t \in Thread, NEW frames, NEW stopped, NEW on, NEW cn,
           Base(task, queue, frames, stopped, on, cn, {}), task[t].state = "None",
           NEW s \in Script, s \in on
    PROVE  /\ Made(t, s) \in Tasks
           /\ Taken(t, Made(t, s), queue, frames, stopped, on, cn)
           /\ Ready(t, Made(t, s))
<1> DEFINE ts2 == Made(t, s)
<1>1. /\ ts2 \in Tasks /\ \A u \in Thread \ {t} : ts2[u] = task[u]
      /\ ts2[t] = [NoTask EXCEPT !.state = "Ready", !.ctx = s]
  BY DEF Base, Tasks, Made, NoTask, State
<1>2. /\ ts2[t].ctx = s /\ ts2[t].state = "Ready" /\ ~ts2[t].args /\ ~ts2[t].doomed
  BY <1>1 DEF NoTask
<1> HIDE DEF ts2
<1>3. Taken(t, ts2, queue, frames, stopped, on, cn)
  <2>1. ts2[t].ctx \in on
    BY <1>2
  <2> QED BY <1>1, <2>1, FreshTaken
<1> QED BY <1>1, <1>2, <1>3 DEF ts2, Ready

LEMMA RetriedTaken ==
    ASSUME NEW t \in Thread, NEW qs, NEW frames, NEW stopped, NEW on, NEW cn,
           Taken(t, task, qs, frames, stopped, on, cn),
           task[t].state \in {"Ready", "Sleeping", "Deferred", "WaitChild"},
           ~task[t].doomed, task[t].state = "Sleeping" => task[t].wakeIn = 0
    PROVE  /\ Taken(t, Retried(t), qs, frames, stopped, on, cn)
           /\ Ready(t, Retried(t))
<1> DEFINE ts2 == Retried(t)
<1>1. task \in Tasks /\ Lasting(task, on)
  BY DEF Taken, Base
<1>2. /\ ts2 \in Tasks /\ \A u \in Thread \ {t} : ts2[u] = task[u]
      /\ ts2[t] = [task[t] EXCEPT !.args = FALSE]
  BY <1>1 DEF Tasks, Retried
<1>3. /\ ts2[t].state = task[t].state /\ ts2[t].doomed = task[t].doomed /\ ts2[t].ctx = task[t].ctx
      /\ ts2[t].wakeIn = task[t].wakeIn /\ ~ts2[t].args
  BY <1>1, <1>2 DEF Tasks
<1> HIDE DEF ts2
<1>4. Taken(t, ts2, qs, frames, stopped, on, cn)
  <2>1. ts2[t].state # "None" => ts2[t].doomed \/ ts2[t].ctx \in on
    BY <1>1, <1>3 DEF Lasting
  <2> QED BY <1>2, <2>1, ChangedTaken
<1> QED BY <1>3, <1>4 DEF ts2, Ready

\* A loop resumes one of a queue.
LEMMA QueueTurns ==
    ASSUME SchedulerInv, stack # <<>>, Top.fn \notin {"task", "wake", "waiters"},
           NEW n \in {"ready", "deferred", "childWaiters"}, NEW t \in Thread, t \in ToSet(queue[n]),
           NEW qs, Fewer(queue, qs, n, {t}), NEW f \in Passive(conn, enabled),
           Resume(t, Retried(t), qs, Append(Below, f)),
           UNCHANGED <<place, signalVars, scriptVars, paused>>
    PROVE  SchedulerInv'
<1> DEFINE frames == Append(Below, f)
<1>1. Base(task, queue, Below, paused, enabled, conn, {}) /\ Low(Below, Calls)
  BY LoopTaken
<1>2. Base(task, queue, frames, paused, enabled, conn, {}) /\ Low(frames, Calls)
  BY <1>1, PassivePushed
<1> HIDE DEF frames
<1>3. /\ task \in Tasks /\ queue \in Queues /\ Distinct(queue) /\ Lasting(task, enabled)
      /\ Settled(task, queue, frames, paused, {}) /\ frames \in Seq(Calling(conn, enabled))
  BY <1>2 DEF Base
<1>4. n \in QueueName
  BY DEF QueueName
<1>5. /\ qs \in Queues /\ Distinct(qs)
      /\ Settled(task, qs, frames, paused, {t})
      /\ Nowhere(t, qs, frames)
      /\ <<task[t].state, n>> \in Waits
      /\ Sits(t, task, queue, frames, paused)
  BY <1>3, <1>4, TakenFromQueue
<1>6. task[t].state \in {"Ready", "Deferred", "WaitChild"}
  BY <1>5 DEF Waits, Home
<1>7. paused # t /\ ~task[t].doomed
  BY <1>5, <1>6 DEF Sits
<1>8. Taken(t, task, qs, frames, paused, enabled, conn)
  BY <1>3, <1>5, <1>7 DEF Taken, Base
<1>9. Taken(t, Retried(t), qs, frames, paused, enabled, conn) /\ Ready(t, Retried(t))
  BY <1>6, <1>7, <1>8, RetriedTaken
<1>10. Resume(t, Retried(t), qs, frames)
  BY DEF frames
<1>11. paused \in {None, paused} /\ (paused # None => "breakpoint" \in Calls)
  BY DEF SchedulerInv, Flat
<1>12. Base(task', queue', stack', paused, enabled, conn, {}) /\ Flat(stack', paused, Calls)
  BY <1>2, <1>9, <1>10, <1>11, ResumeKeeps
<1>13. conns' \in Seq(Conn) /\ pendingStart' \in Seq(Script) /\ paused' = paused /\ UNCHANGED <<conn, enabled>>
  BY DEF SchedulerInv, SchedulerTypes, signalVars, scriptVars
<1> QED BY <1>12, <1>13, ThreadsKeep

LEMMA StepKeeps ==
    ASSUME SchedulerInv, Step, UNCHANGED place
    PROVE  SchedulerInv'
<1> DEFINE f == [fn |-> "step", n |-> 1]
<1>1. /\ stack = <<>> /\ paused = None /\ UNCHANGED <<queue, conns, conn, enabled, pendingStart, paused>>
      /\ task' = [t \in Thread |-> [task[t] EXCEPT !.wakeIn = IF @ = 0 THEN 0 ELSE @ - 1]]
      /\ stack' = <<f>>
  BY DEF Step, signalVars, scriptVars
<1>2. /\ task \in Tasks /\ queue \in Queues /\ Distinct(queue) /\ Lasting(task, enabled)
      /\ Settled(task, queue, <<>>, paused, {})
  BY <1>1 DEF SchedulerInv, Base
<1>3. task' \in Tasks
  <2>1. ASSUME NEW t \in Thread
        PROVE  [task[t] EXCEPT !.wakeIn = IF @ = 0 THEN 0 ELSE @ - 1] \in
                 [state : State, ctx : Script \cup {None}, args : BOOLEAN, doomed : BOOLEAN, wakeIn : Nat]
    <3>1. task[t] \in [state : State, ctx : Script \cup {None}, args : BOOLEAN, doomed : BOOLEAN, wakeIn : Nat]
      BY <1>2 DEF Tasks
    <3>2. (IF task[t].wakeIn = 0 THEN 0 ELSE task[t].wakeIn - 1) \in Nat
      BY <3>1
    <3> QED BY <3>1, <3>2
  <2> QED BY <1>1, <2>1 DEF Tasks
<1>4. \A t \in Thread : /\ task'[t].state = task[t].state /\ task'[t].ctx = task[t].ctx
                        /\ task'[t].args = task[t].args /\ task'[t].doomed = task[t].doomed
                        /\ task[t].wakeIn = 0 => task'[t].wakeIn = 0
  BY <1>1, <1>2 DEF Tasks
<1>5. Settled(task', queue, <<>>, paused, {})
  <2>1. ASSUME NEW t \in Thread PROVE Sits(t, task', queue, <<>>, paused)
    <3>1. Sits(t, task, queue, <<>>, paused)
      BY <1>2 DEF Settled
    <3> QED BY <1>4, <3>1 DEF Sits
  <2> QED BY <2>1 DEF Settled
<1>6. Lasting(task', enabled)
  BY <1>2, <1>4 DEF Lasting
<1>7. Base(task', queue, <<>>, paused, enabled, conn, {}) /\ Low(<<>>, Calls)
  BY <1>2, <1>3, <1>5, <1>6 DEF Base, Low
<1>8. f \in Passive(conn, enabled)
  BY DEF Passive, Calling, Frame
<1> HIDE DEF f
<1>9. /\ Base(task', queue, Append(<<>>, f), paused, enabled, conn, {}) /\ Low(Append(<<>>, f), Calls)
      /\ Append(<<>>, f) \in Seq(Frame)
  BY <1>7, <1>8, PassivePushed
<1>10. stack' = Append(<<>>, f)
  BY <1>1
<1>11. Flat(Append(<<>>, f), paused, Calls)
  BY <1>1, <1>9, LowIsFlat
<1>12. conns' \in Seq(Conn) /\ pendingStart' \in Seq(Script)
  BY <1>1 DEF SchedulerInv, SchedulerTypes
<1> QED BY <1>1, <1>9, <1>10, <1>11, <1>12, ThreadsKeep

LEMMA NextPassKeeps ==
    ASSUME SchedulerInv, NextPass, UNCHANGED place
    PROVE  SchedulerInv'
<1> DEFINE g == [fn |-> "step", n |-> Top.n + 1]
<1>1. stack # <<>> /\ Top.fn = "step" /\ UNCHANGED <<place, task, queue, conns, conn, enabled, paused>>
  BY DEF NextPass, In, signalVars
<1>2. Base(task, queue, Below, paused, enabled, conn, {}) /\ Low(Below, Calls) /\ Below \in Seq(Frame)
  BY <1>1, LoopTaken, TopTaken
<1>3. Top \in Frame /\ conns' \in Seq(Conn)
  BY <1>1, TopTaken DEF SchedulerInv, SchedulerTypes
<1>4. Top.n \in Nat \ {0}
  BY <1>1, <1>3 DEF Frame
<1>5. g \in Passive(conn, enabled)
  BY <1>4 DEF Passive, Calling, Frame
<1>6. pendingStart' \in Seq(Script)
  <2>1. pendingStart' = pendingStart \/ pendingStart' = <<>>
    BY DEF NextPass
  <2>2. pendingStart \in Seq(Script) /\ <<>> \in Seq(Script)
    BY DEF SchedulerInv, SchedulerTypes
  <2> QED BY <2>1, <2>2
<1>7. CASE Top.n > Len(Passes)
  BY <1>1, <1>2, <1>3, <1>6, <1>7, LoopKeeps DEF NextPass
<1>8. CASE ~(Top.n > Len(Passes))
  <2>1. Top.n \in 1..9 /\ Passes[Top.n] \in {"start", "fire", "deferred", "wake", "ready", "children"}
    <3>1. Len(Passes) = 9
      BY DEF Passes
    <3>2. Top.n \in 1..9
      BY <1>4, <1>8, <3>1
    <3> QED BY <3>2 DEF Passes
  <2> DEFINE p == Pass(Passes[Top.n])
  <2>2. p \in Passive(conn, enabled)
    BY <2>1, PassIsPassive
  <2>3. g \in Frame /\ p \in Frame
    BY <1>5, <2>2 DEF Passive, Calling
  <2>4. stack' \in {Below \o <<g>> \o <<>>, Below \o <<g>> \o <<p>>}
    BY <1>8 DEF NextPass
  <2> HIDE DEF g, p
  <2>5. Below \o <<g>> \o <<>> = Append(Below, g) /\ Below \o <<g>> \o <<p>> = Append(Append(Below, g), p)
    BY <1>2, <2>3
  <2>6. Base(task, queue, Append(Below, g), paused, enabled, conn, {}) /\ Low(Append(Below, g), Calls)
    BY <1>2, <1>5, PassivePushed
  <2>7. stack' = Append(Below, g) \/ stack' = Append(Append(Below, g), p)
    BY <2>4, <2>5
  <2> QED BY <1>1, <1>3, <1>6, <2>2, <2>6, <2>7, LoopKeeps
<1> QED BY <1>7, <1>8

LEMMA StartNextKeeps ==
    ASSUME SchedulerInv, StartNext, UNCHANGED place
    PROVE  SchedulerInv'
<1>1. /\ stack # <<>> /\ Top.fn = "start"
      /\ UNCHANGED <<place, conns, conn, enabled, pendingStart, paused>>
  BY DEF StartNext, In, signalVars
<1>2. Base(task, queue, Below, paused, enabled, conn, {}) /\ Low(Below, Calls)
  BY <1>1, LoopTaken
<1>3. Top \in Frame /\ conns' \in Seq(Conn) /\ pendingStart' \in Seq(Script)
  BY <1>1, TopTaken DEF SchedulerInv, SchedulerTypes
<1>4. Top \in [fn : {"start"}, list : Seq(Script)]
  BY <1>1, <1>3 DEF Frame
<1>5. CASE Top.list = <<>>
  <2>1. stack' = Append(Below, Pass("deferred")) /\ UNCHANGED <<task, queue>>
    BY <1>5 DEF StartNext
  <2>2. Pass("deferred") \in Passive(conn, enabled)
    BY PassIsPassive
  <2> QED BY <1>1, <1>2, <1>3, <2>1, <2>2, LoopKeeps
<1>6. CASE Top.list # <<>>
  <2> DEFINE s == Head(Top.list)
             g == [Top EXCEPT !.list = Tail(@)]
             rest == Append(Below, g)
  <2>1. s \in Script /\ g \in Passive(conn, enabled)
    <3>1. Top.list \in Seq(Script) /\ s \in Script /\ Tail(Top.list) \in Seq(Script)
      BY <1>4, <1>6
    <3>2. g \in [fn : {"start"}, list : Seq(Script)]
      BY <1>4, <3>1
    <3> HIDE DEF g
    <3> QED BY <3>1, <3>2 DEF Passive, Calling, Frame
  <2>2. \/ stack' = rest /\ UNCHANGED <<task, queue>>
        \/ /\ s \in enabled
           /\ \E t \in Fresh : \/ Hold(t, Made(t, s), queue, rest)
                              \/ Run(t, Made(t, s), queue, rest)
    BY <1>6 DEF StartNext
  <2> HIDE DEF s, g
  <2>3. CASE stack' = rest /\ UNCHANGED <<task, queue>>
    BY <1>1, <1>2, <1>3, <2>1, <2>3, LoopKeeps
  <2>4. ASSUME s \in enabled, NEW t \in Fresh,
               Hold(t, Made(t, s), queue, rest) \/ Run(t, Made(t, s), queue, rest)
        PROVE  SchedulerInv'
    <3> HIDE DEF rest
    <3>1. Base(task, queue, rest, paused, enabled, conn, {}) /\ Low(rest, Calls)
      BY <1>2, <2>1, PassivePushed DEF rest
    <3>2. t \in Thread /\ task[t].state = "None"
      BY DEF Fresh, Live
    <3>3. Taken(t, Made(t, s), queue, rest, paused, enabled, conn) /\ Ready(t, Made(t, s))
      BY <2>1, <2>4, <3>1, <3>2, MadeTaken
    <3>4. paused \in {None, paused} /\ (paused # None => "breakpoint" \in Calls)
      BY DEF SchedulerInv, Flat
    <3>5. Base(task', queue', stack', paused, enabled, conn, {}) /\ Flat(stack', paused, Calls)
      BY <2>4, <3>1, <3>2, <3>3, <3>4, ResumeKeeps
    <3> QED BY <1>1, <1>3, <3>5, ThreadsKeep
  <2> QED BY <2>2, <2>3, <2>4
<1> QED BY <1>5, <1>6

LEMMA WaitingState ==
    ASSUME SchedulerInv, NEW n \in QueueName, NEW t \in Thread, t \in ToSet(queue[n])
    PROVE  <<task[t].state, n>> \in Waits /\ OnlyIn(t, n, queue, stack)
<1>1. /\ task \in Tasks /\ queue \in Queues /\ Sits(t, task, queue, stack, paused)
  BY DEF SchedulerInv, Base, Settled
<1> QED BY <1>1, QueuedState

LEMMA RunDeferredKeeps ==
    ASSUME SchedulerInv, RunDeferred, UNCHANGED place
    PROVE  SchedulerInv'
<1>1. /\ stack # <<>> /\ Top.fn = "deferred" /\ UNCHANGED <<signalVars, scriptVars, paused>>
      /\ UNCHANGED <<place, conn, enabled, paused>>
  BY DEF RunDeferred, In, signalVars, scriptVars
<1>2. Base(task, queue, Below, paused, enabled, conn, {}) /\ Low(Below, Calls)
  BY <1>1, LoopTaken
<1>3. Top \in Frame /\ conns' \in Seq(Conn) /\ pendingStart' \in Seq(Script)
  BY <1>1, TopTaken DEF SchedulerInv, SchedulerTypes, signalVars, scriptVars
<1>4. Top \in [fn : {"deferred"}, n : Nat]
  BY <1>1, <1>3 DEF Frame
<1>5. CASE Pop
  BY <1>1, <1>2, <1>3, <1>5, LoopKeeps DEF Pop
<1>6. CASE ~Pop
  <2> DEFINE t == Head(queue.deferred)
             qs == [queue EXCEPT !.deferred = Tail(@)]
             g == [Top EXCEPT !.n = @ + 1]
  <2>1. queue \in Queues /\ Distinct(queue) /\ "deferred" \in QueueName
    BY <1>2 DEF Base, QueueName
  <2>2. /\ queue.deferred # <<>>
        /\ \/ task[t].state # "Deferred"
           \/ Resume(t, Retried(t), qs, Append(Below, g))
    BY <1>6 DEF RunDeferred
  <2>3. t \in Thread /\ t \in ToSet(queue.deferred) /\ Fewer(queue, qs, "deferred", {t})
    BY <2>1, <2>2, HeadTaken
  <2>4. g \in Passive(conn, enabled)
    <3>1. g \in [fn : {"deferred"}, n : Nat]
      BY <1>4
    <3> HIDE DEF g
    <3> QED BY <3>1 DEF Passive, Calling, Frame
  <2> HIDE DEF t, qs, g
  <2>5. task[t].state = "Deferred"
    BY <2>1, <2>3, WaitingState DEF Waits, Home
  <2> QED BY <1>1, <2>2, <2>3, <2>4, <2>5, QueueTurns
<1> QED BY <1>5, <1>6

LEMMA RunReadyKeeps ==
    ASSUME SchedulerInv, RunReady, UNCHANGED place
    PROVE  SchedulerInv'
<1>1. /\ stack # <<>> /\ Top.fn = "ready" /\ UNCHANGED <<signalVars, scriptVars, paused>>
      /\ UNCHANGED <<place, conn, enabled, paused>>
  BY DEF RunReady, In, signalVars, scriptVars
<1>2. Base(task, queue, Below, paused, enabled, conn, {}) /\ Low(Below, Calls)
  BY <1>1, LoopTaken
<1>3. conns' \in Seq(Conn) /\ pendingStart' \in Seq(Script)
  BY <1>1 DEF SchedulerInv, SchedulerTypes, signalVars, scriptVars
<1>5. CASE Pop
  BY <1>1, <1>2, <1>3, <1>5, LoopKeeps DEF Pop
<1>6. CASE ~Pop
  <2> DEFINE t == Head(queue.ready)
             qs == [queue EXCEPT !.ready = Tail(@)]
             g == [fn |-> "ready", t |-> t, before |-> Len(queue.ready) - 1]
  <2>1. queue \in Queues /\ Distinct(queue) /\ "ready" \in QueueName
    BY <1>2 DEF Base, QueueName
  <2>2. queue.ready # <<>> /\ Resume(t, Retried(t), qs, Append(Below, g))
    BY <1>6 DEF RunReady
  <2>3. t \in Thread /\ t \in ToSet(queue.ready) /\ Fewer(queue, qs, "ready", {t})
    BY <2>1, <2>2, HeadTaken
  <2>4. g \in Passive(conn, enabled)
    <3>1. queue.ready \in Seq(Thread)
      BY <2>1 DEF Queues
    <3>2. Len(queue.ready) - 1 \in Nat
      BY <2>2, <3>1
    <3> HIDE DEF t
    <3> QED BY <2>3, <3>2 DEF Passive, Calling, Frame
  <2> HIDE DEF t, qs, g
  <2> QED BY <1>1, <2>2, <2>3, <2>4, QueueTurns
<1> QED BY <1>5, <1>6

LEMMA CheckChildKeeps ==
    ASSUME SchedulerInv, CheckChild, UNCHANGED place
    PROVE  SchedulerInv'
<1>1. /\ stack # <<>> /\ Top.fn = "children" /\ UNCHANGED <<signalVars, scriptVars, paused>>
      /\ UNCHANGED <<place, conn, enabled, paused>>
  BY DEF CheckChild, In, signalVars, scriptVars
<1>2. Base(task, queue, Below, paused, enabled, conn, {}) /\ Low(Below, Calls)
  BY <1>1, LoopTaken
<1>3. Top \in Frame /\ conns' \in Seq(Conn) /\ pendingStart' \in Seq(Script)
  BY <1>1, TopTaken DEF SchedulerInv, SchedulerTypes, signalVars, scriptVars
<1>4. Top \in [fn : {"children"}, i : Nat \ {0}, odd : BOOLEAN]
  BY <1>1, <1>3 DEF Frame
<1>5. ASSUME NEW i \in Nat \ {0} PROVE [Top EXCEPT !.i = i, !.odd = ~@] \in Passive(conn, enabled)
  <2> DEFINE g == [Top EXCEPT !.i = i, !.odd = ~@]
  <2>1. g \in [fn : {"children"}, i : Nat \ {0}, odd : BOOLEAN]
    BY <1>4
  <2> HIDE DEF g
  <2>2. g \in Passive(conn, enabled)
    BY <2>1 DEF Passive, Calling, Frame
  <2> QED BY <2>2 DEF g
<1>6. CASE Pop
  BY <1>1, <1>2, <1>3, <1>6, LoopKeeps DEF Pop
<1>7. CASE ~Pop /\ stack' = Append(Below, [Top EXCEPT !.i = Top.i + 1, !.odd = ~@]) /\ UNCHANGED <<task, queue>>
  <2>1. Top.i + 1 \in Nat \ {0}
    BY <1>4
  <2>2. [Top EXCEPT !.i = Top.i + 1, !.odd = ~@] \in Passive(conn, enabled)
    BY <1>5, <2>1
  <2> QED BY <1>1, <1>2, <1>3, <1>7, <2>2, LoopKeeps
<1>8. ASSUME ~(Top.i > Len(queue.childWaiters)),
             Resume(queue.childWaiters[Top.i], Retried(queue.childWaiters[Top.i]),
                    [queue EXCEPT !.childWaiters = SwapRemove(@, Top.i)],
                    Append(Below, [Top EXCEPT !.i = Top.i, !.odd = ~@]))
      PROVE  SchedulerInv'
  <2> DEFINE n == Top.i
             list == queue.childWaiters
             t == list[n]
             qs == [queue EXCEPT !.childWaiters = SwapRemove(@, n)]
             g == [Top EXCEPT !.i = n, !.odd = ~@]
  <2>1. queue \in Queues /\ Distinct(queue) /\ "childWaiters" \in QueueName
    BY <1>2 DEF Base, QueueName
  <2>2. list \in Seq(Thread) /\ IsInjective(list) /\ n \in DOMAIN list
    BY <1>4, <1>8, <2>1 DEF Queues, Distinct
  <2>3. t \in Thread /\ t \in ToSet(list)
    BY <2>2 DEF ToSet
  <2>4. /\ SwapRemove(list, n) \in Seq(Thread) /\ IsInjective(SwapRemove(list, n))
        /\ ToSet(SwapRemove(list, n)) = ToSet(list) \ {t}
    BY <2>2, SwapRemoveEntry
  <2>5. Fewer(queue, qs, "childWaiters", {t})
    <3>1. /\ qs \in Queues /\ qs.childWaiters = SwapRemove(list, n)
          /\ \A m \in QueueName \ {"childWaiters"} : qs[m] = queue[m]
      BY <2>1, <2>4 DEF Queues
    <3> HIDE DEF qs, t
    <3> QED BY <2>4, <3>1 DEF Fewer
  <2>6. g \in Passive(conn, enabled)
    BY <1>4, <1>5
  <2>7. Resume(t, Retried(t), qs, Append(Below, g))
    BY <1>8
  <2> HIDE DEF t, qs, g, n
  <2> QED BY <1>1, <2>3, <2>5, <2>6, <2>7, QueueTurns
<1> QED BY <1>6, <1>7, <1>8 DEF CheckChild

\* A loop takes a queue into its hand.
LEMMA HandKeeps ==
    ASSUME SchedulerInv, stack # <<>>, Top.fn \notin {"task", "wake", "waiters"},
           NEW n, NEW fn, <<n, fn>> \in {<<"sleepers", "wake">>, <<"waiters", "waiters">>},
           NEW who, NEW list \in Hand, ToSet(list) = ToSet(queue[n]) \cap who,
           n = "sleepers" => who = Due, Fewer(queue, queue', n, who),
           stack' = Append(Below, [fn |-> fn, list |-> list]),
           UNCHANGED <<place, task, signalVars, scriptVars, paused>>
    PROVE  SchedulerInv'
<1> DEFINE f == [fn |-> fn, list |-> list]
<1>1. /\ Base(task, queue, Below, paused, enabled, conn, {}) /\ Low(Below, Calls)
      /\ paused # None => "breakpoint" \in Calls
      /\ Below \in Seq(Frame)
  BY LoopTaken, TopTaken
<1>2. \A u \in ToSet(list) : n = "sleepers" => task[u].wakeIn = 0
  BY DEF Due
<1>9. Grasped(task, queue, n, fn, who, list)
  BY <1>2 DEF Grasped
<1>3. Base(task, queue', Append(Below, f), paused, enabled, conn, {})
  BY <1>1, <1>9, HandTakes
<1>4. f \in Loop /\ f \in Frame
  <2>1. fn \in {"wake", "waiters"}
    OBVIOUS
  <2> QED BY <2>1 DEF Loop, Frame
<1> HIDE DEF f
<1>5. Low(Append(Below, f), Calls) /\ Append(Below, f) \in Seq(Frame)
  BY <1>1, <1>4, LowGrows
<1>6. Flat(Append(Below, f), paused, Calls)
  BY <1>1, <1>5, LowIsFlat
<1>7. stack' = Append(Below, f) /\ task' = task /\ paused' = paused /\ UNCHANGED <<place, conn, enabled>>
  BY DEF f, signalVars, scriptVars
<1>8. conns' \in Seq(Conn) /\ pendingStart' \in Seq(Script)
  BY DEF SchedulerInv, SchedulerTypes, signalVars, scriptVars
<1> QED BY <1>3, <1>6, <1>7, <1>8, ThreadsKeep

LEMMA CollectKeeps ==
    ASSUME SchedulerInv, Collect, UNCHANGED place
    PROVE  SchedulerInv'
<1>1. /\ stack # <<>> /\ Top.fn = "collect" /\ UNCHANGED <<place, task, signalVars, scriptVars, paused>>
      /\ queue' = [queue EXCEPT !.sleepers = Without(@, Due)]
  BY DEF Collect, In
<1>2. queue \in Queues /\ Distinct(queue)
  BY DEF SchedulerInv, Base
<1>3. queue.sleepers \in Seq(Thread) /\ IsInjective(queue.sleepers)
  BY <1>2 DEF Queues, Distinct, QueueName
<1> DEFINE due == Within(queue.sleepers, Due)
<1>4. due \in Seq(Thread) /\ ToSet(due) = ToSet(queue.sleepers) \cap Due
  BY <1>3, WithinSet
<1>5. PICK order \in Orders(due) : stack' = Append(Below, [fn |-> "wake", list |-> order])
  BY DEF Collect
<1> HIDE DEF due
<1>6. order \in [DOMAIN due -> ToSet(due)] /\ ToSet(order) = ToSet(due) /\ IsInjective(order)
  BY <1>5 DEF Orders, Enumerates
<1>7. order \in Hand
  <2>1. ToSet(due) \subseteq Thread /\ DOMAIN due = 1..Len(due) /\ Len(due) \in Nat
    BY <1>4 DEF Due
  <2>2. order \in [1..Len(due) -> Thread]
    BY <1>6, <2>1
  <2>3. order \in Seq(Thread)
    BY <2>1, <2>2
  <2> QED BY <1>6, <2>3 DEF Hand
<1>8. Fewer(queue, queue', "sleepers", Due)
  <2>1. /\ Without(queue.sleepers, Due) \in Seq(Thread) /\ IsInjective(Without(queue.sleepers, Due))
        /\ ToSet(Without(queue.sleepers, Due)) = ToSet(queue.sleepers) \ Due
    BY <1>3, WithoutEntries
  <2>2. /\ queue' \in Queues /\ queue'["sleepers"] = Without(queue.sleepers, Due)
        /\ \A m \in QueueName \ {"sleepers"} : queue'[m] = queue[m]
    BY <1>1, <1>2, <2>1 DEF Queues, QueueName
  <2> QED BY <2>1, <2>2 DEF Fewer
<1>9. ToSet(order) = ToSet(queue["sleepers"]) \cap Due
  BY <1>4, <1>6
<1> QED BY <1>1, <1>5, <1>7, <1>8, <1>9, HandKeeps

LEMMA FireWaitersKeeps ==
    ASSUME SchedulerInv, FireWaiters, UNCHANGED place
    PROVE  SchedulerInv'
<1>1. /\ stack # <<>> /\ Top.fn = "fire" /\ UNCHANGED <<place, task, signalVars, scriptVars, paused>>
      /\ queue' = [queue EXCEPT !.waiters = <<>>]
      /\ stack' = Append(Below, [fn |-> "waiters", list |-> queue.waiters])
  BY DEF FireWaiters, In
<1>2. queue \in Queues /\ Distinct(queue)
  BY DEF SchedulerInv, Base
<1>3. queue.waiters \in Seq(Thread) /\ IsInjective(queue.waiters)
  BY <1>2 DEF Queues, Distinct, QueueName
<1>4. queue.waiters \in Hand
  BY <1>3 DEF Hand
<1> DEFINE who == ToSet(queue.waiters)
<1>5. Fewer(queue, queue', "waiters", who)
  <2>1. <<>> \in Seq(Thread) /\ IsInjective(<<>>) /\ ToSet(<<>>) = {}
    BY DEF IsInjective, ToSet
  <2>2. /\ queue' \in Queues /\ queue'["waiters"] = <<>>
        /\ \A m \in QueueName \ {"waiters"} : queue'[m] = queue[m]
    BY <1>1, <1>2, <2>1 DEF Queues, QueueName
  <2>3. ToSet(queue'["waiters"]) = ToSet(queue["waiters"]) \ who
    BY <2>1, <2>2
  <2>4. IsInjective(queue'["waiters"])
    BY <2>1, <2>2
  <2> QED BY <2>2, <2>3, <2>4 DEF Fewer
<1>6. ToSet(queue.waiters) = ToSet(queue["waiters"]) \cap who
  OBVIOUS
<1> HIDE DEF who
<1> QED BY <1>1, <1>4, <1>5, <1>6, HandKeeps

\* A loop with threads in its hand.
LEMMA HandTaken ==
    ASSUME SchedulerInv, stack # <<>>, Top.fn \in {"wake", "waiters"}
    PROVE  /\ Low(Below, Calls)
           /\ paused # None => "breakpoint" \in Calls
           /\ Top.list = <<>> => Base(task, queue, Below, paused, enabled, conn, {})
           /\ Top.list # <<>> =>
                 /\ Low(Append(Below, [Top EXCEPT !.list = Tail(@)]), Calls)
                 /\ Head(Top.list) \in Thread
                 /\ Taken(Head(Top.list), task, queue, Append(Below, [Top EXCEPT !.list = Tail(@)]), paused,
                          enabled, conn)
                 /\ task[Head(Top.list)].state = IF Top.fn = "wake" THEN "Sleeping" ELSE "WaitSignal"
                 /\ Top.fn = "wake" => task[Head(Top.list)].wakeIn = 0
                 /\ task[Head(Top.list)].args => Top.fn = "wake"
                 /\ ~task[Head(Top.list)].doomed
<1>1. /\ stack = Append(Below, Top) /\ Below \in Seq(Calling(conn, enabled)) /\ Top \in Calling(conn, enabled)
      /\ Top \in Frame /\ Below \in Seq(Frame) /\ Low(Below, Calls)
  BY TopTaken
<1>2. Base(task, queue, Append(Below, Top), paused, enabled, conn, {})
  BY <1>1 DEF SchedulerInv
<1>3. Top \in [fn : {"wake", "waiters"}, list : Hand]
  BY <1>1 DEF Frame
<1>4. PICK fn \in {"wake", "waiters"}, list \in Hand : Top = [fn |-> fn, list |-> list]
  BY <1>3
<1>5. Top.fn = fn /\ Top.list = list
  BY <1>4
<1>6. list = <<>> => Base(task, queue, Below, paused, enabled, conn, {})
  <2>1. ASSUME list = <<>> PROVE HeldBy(Top) = {}
    BY <1>5, <2>1 DEF HeldBy, ToSet
  <2> QED BY <1>1, <1>2, <2>1, FrameComesAndGoes
<1> DEFINE g == [fn |-> fn, list |-> Tail(list)]
<1>7. ASSUME list # <<>>
      PROVE  [Top EXCEPT !.list = Tail(@)] = g /\ Low(Append(Below, [Top EXCEPT !.list = Tail(@)]), Calls)
  <2> DEFINE h == [Top EXCEPT !.list = Tail(@)]
  <2>1. Tail(list) \in Hand
    BY <1>7, TailEntry DEF Hand
  <2>2. h \in [fn : {"wake", "waiters"}, list : Hand] /\ h.fn = fn /\ h.list = Tail(list)
    BY <1>3, <1>5, <2>1
  <2> HIDE DEF h
  <2>3. h = g
    BY <2>2
  <2>4. h \in Loop
    BY <2>2 DEF Loop, Frame
  <2>5. Low(Append(Below, h), Calls)
    BY <1>1, <2>4, LowGrows
  <2> QED BY <2>3, <2>5 DEF h
<1>8. list # <<>> =>
         /\ Head(list) \in Thread
         /\ Taken(Head(list), task, queue, Append(Below, g), paused, enabled, conn)
         /\ task[Head(list)].state = IF fn = "wake" THEN "Sleeping" ELSE "WaitSignal"
         /\ fn = "wake" => task[Head(list)].wakeIn = 0
         /\ task[Head(list)].args => fn = "wake"
         /\ ~task[Head(list)].doomed
  <2>1. Base(task, queue, Append(Below, [fn |-> fn, list |-> list]), paused, enabled, conn, {})
    BY <1>2, <1>4
  <2> QED BY <1>1, <2>1, HandShrinks
<1> QED BY <1>1, <1>5, <1>6, <1>7, <1>8 DEF SchedulerInv, Flat

LEMMA WakeKeeps ==
    ASSUME SchedulerInv, Wake, UNCHANGED place
    PROVE  SchedulerInv'
<1> DEFINE t == Head(Top.list)
           frames == Append(Below, [Top EXCEPT !.list = Tail(@)])
<1>1. /\ stack # <<>> /\ Top.fn = "wake" /\ UNCHANGED <<place, conns, conn, enabled, pendingStart, paused>>
  BY DEF Wake, In, signalVars, scriptVars
<1>2. conns' \in Seq(Conn) /\ pendingStart' \in Seq(Script)
  BY <1>1 DEF SchedulerInv, SchedulerTypes
<1>3. CASE Top.list = <<>>
  <2>1. Base(task, queue, Below, paused, enabled, conn, {}) /\ Low(Below, Calls)
    BY <1>1, <1>3, HandTaken
  <2>2. stack' = Below /\ UNCHANGED <<task, queue>>
    BY <1>3 DEF Wake, Pop
  <2> QED BY <1>1, <1>2, <2>1, <2>2, LoopKeeps
<1>4. CASE Top.list # <<>>
  <2>1. /\ t \in Thread /\ Taken(t, task, queue, frames, paused, enabled, conn)
        /\ task[t].state = "Sleeping" /\ task[t].wakeIn = 0 /\ ~task[t].doomed
        /\ Low(frames, Calls)
        /\ paused # None => "breakpoint" \in Calls
    BY <1>1, <1>4, HandTaken
  <2>2. Resume(t, Retried(t), queue, frames)
    BY <1>4, <2>1 DEF Wake
  <2> HIDE DEF t, frames
  <2>3. Taken(t, Retried(t), queue, frames, paused, enabled, conn) /\ Ready(t, Retried(t))
    BY <2>1, RetriedTaken
  <2>4. Base(task', queue', stack', paused, enabled, conn, {}) /\ Flat(stack', paused, Calls)
    BY <2>1, <2>2, <2>3, ResumeKeeps
  <2> QED BY <1>1, <1>2, <2>4, ThreadsKeep
<1> QED BY <1>3, <1>4

LEMMA WakeWaiterKeeps ==
    ASSUME SchedulerInv, WakeWaiter, UNCHANGED place
    PROVE  SchedulerInv'
<1> DEFINE t == Head(Top.list)
           frames == Append(Below, [Top EXCEPT !.list = Tail(@)])
<1>1. /\ stack # <<>> /\ Top.fn = "waiters" /\ UNCHANGED <<place, conn, enabled, pendingStart, paused>>
  BY DEF WakeWaiter, In, scriptVars
<1>2. conns' \in Seq(Conn) /\ pendingStart' \in Seq(Script)
  <2>1. conns' = conns \/ conns' = Within(conns, Hooked)
    BY DEF WakeWaiter
  <2>2. conns \in Seq(Conn) /\ pendingStart \in Seq(Script)
    BY DEF SchedulerInv, SchedulerTypes
  <2>3. Within(conns, Hooked) \in Seq(Conn)
    BY <2>2, WithinSet
  <2> QED BY <1>1, <2>1, <2>2, <2>3
<1>3. CASE Top.list = <<>>
  <2>1. Base(task, queue, Below, paused, enabled, conn, {}) /\ Low(Below, Calls)
    BY <1>1, <1>3, HandTaken
  <2>2. stack' = Below /\ UNCHANGED <<task, queue>>
    BY <1>3 DEF WakeWaiter, Pop
  <2> QED BY <1>1, <1>2, <2>1, <2>2, LoopKeeps
<1>4. CASE Top.list # <<>>
  <2>1. /\ t \in Thread /\ Taken(t, task, queue, frames, paused, enabled, conn)
        /\ task[t].state = "WaitSignal" /\ ~task[t].args /\ ~task[t].doomed
        /\ Low(frames, Calls)
        /\ paused # None => "breakpoint" \in Calls
    BY <1>1, <1>4, HandTaken
  <2>2. Resume(t, task, queue, frames)
    BY <1>4, <2>1 DEF WakeWaiter
  <2> HIDE DEF t, frames
  <2>3. Ready(t, task)
    BY <2>1 DEF Ready
  <2>4. Base(task', queue', stack', paused, enabled, conn, {}) /\ Flat(stack', paused, Calls)
    BY <2>1, <2>2, <2>3, ResumeKeeps
  <2> QED BY <1>1, <1>2, <2>4, ThreadsKeep
<1> QED BY <1>3, <1>4

LEMMA HostEventKeeps ==
    ASSUME SchedulerInv, HostEvent, UNCHANGED place
    PROVE  SchedulerInv'
<1> DEFINE d == Pass("deferred")
           f == Pass("fire")
<1>1. /\ stack = <<>> /\ stack' = <<d, f>> /\ UNCHANGED <<place, task, queue, conn, enabled, paused>>
      /\ UNCHANGED <<conns, pendingStart>>
  BY DEF HostEvent, signalVars, scriptVars
<1>2. d \in Passive(conn, enabled) /\ f \in Passive(conn, enabled)
  BY PassIsPassive
<1>3. conns' \in Seq(Conn) /\ pendingStart' \in Seq(Script)
  BY <1>1 DEF SchedulerInv, SchedulerTypes
<1>4. Base(task, queue, <<>>, paused, enabled, conn, {}) /\ Low(<<>>, Calls)
  BY <1>1 DEF SchedulerInv, Low
<1> HIDE DEF d, f
<1>5. Base(task, queue, Append(<<>>, d), paused, enabled, conn, {}) /\ Low(Append(<<>>, d), Calls)
  BY <1>2, <1>4, PassivePushed
<1>6. stack' = Append(Append(<<>>, d), f)
  BY <1>1
<1> QED BY <1>1, <1>2, <1>3, <1>5, <1>6, LoopKeeps

LEMMA DebugContinueKeeps ==
    ASSUME SchedulerInv, DebugContinue, UNCHANGED place
    PROVE  SchedulerInv'
<1>1. /\ stack = <<>> /\ paused # None /\ paused' = None
      /\ Resume(paused, task, queue, <<>>)
      /\ UNCHANGED <<place, conns, conn, enabled, pendingStart>>
  BY DEF DebugContinue, signalVars, scriptVars
<1>2. /\ paused \in Thread /\ Base(task, queue, <<>>, paused, enabled, conn, {})
  BY <1>1 DEF SchedulerInv, SchedulerTypes
<1>3. Sits(paused, task, queue, <<>>, paused)
  BY <1>2 DEF Base, Settled
<1>4. task[paused].state = "Parked" /\ Nowhere(paused, queue, <<>>) /\ Ready(paused, task)
  <2>1. task[paused] \in [state : State, ctx : Script \cup {None}, args : BOOLEAN, doomed : BOOLEAN, wakeIn : Nat]
    BY <1>2 DEF Base, Tasks
  <2> QED BY <1>3, <2>1 DEF Sits, Ready
<1>5. Settled(task, queue, <<>>, None, {paused})
  <2>1. ASSUME NEW u \in Thread \ {paused} PROVE Sits(u, task, queue, <<>>, None)
    <3>1. Sits(u, task, queue, <<>>, paused)
      BY <1>2 DEF Base, Settled
    <3> QED BY <3>1, SchedulerAssumption DEF Sits
  <2> QED BY <2>1 DEF Settled
<1>6. Taken(paused, task, queue, <<>>, None, enabled, conn)
  BY <1>1, <1>2, <1>4, <1>5 DEF Taken, Base
<1>7. Low(<<>>, Calls)
  BY DEF Low
<1>8. Base(task', queue', stack', None, enabled, conn, {}) /\ Flat(stack', None, Calls)
  BY <1>1, <1>2, <1>4, <1>6, <1>7, ResumeKeeps
<1>9. conns' \in Seq(Conn) /\ pendingStart' \in Seq(Script)
  BY <1>1 DEF SchedulerInv, SchedulerTypes
<1> QED BY <1>1, <1>8, <1>9, ThreadsKeep

(***************************************************************************)
(* What happens to connections, while no script's name is put on another's. *)
(***************************************************************************)
LEMMA CallingAlike ==
    ASSUME NEW cn, NEW cn2, \A c \in Conn : cn2[c].script = cn[c].script, NEW on
    PROVE  Calling(cn2, on) = Calling(cn, on)
<1>1. ASSUME NEW f \in Frame, f.fn = "fire" PROVE ToSet(f.list) \subseteq Conn
  <2>1. f.list \in Seq(Conn)
    BY <1>1 DEF Frame
  <2> QED BY <2>1 DEF ToSet
<1> QED BY <1>1 DEF Calling

LEMMA SignalsKeep ==
    ASSUME SchedulerInv, UNCHANGED <<place, enabled>>,
           conns' \in Seq(Conn), pendingStart' \in Seq(Script), paused' \in {paused, None}, conn' \in Conns,
           \A c \in Conn : /\ conn'[c].script = conn[c].script
                           /\ conn'[c].connected => conn[c].connected,
           Base(task', queue', stack', paused', enabled, conn, {}), Flat(stack', paused', Calls)
    PROVE  SchedulerInv'
<1>1. Calling(conn', enabled) = Calling(conn, enabled)
  BY CallingAlike
<1>2. Base(task', queue', stack', paused', enabled, conn', {})
  BY <1>1 DEF Base
<1>3. Hooking(conn', enabled)
  BY DEF SchedulerInv, Hooking
<1> QED BY <1>2, <1>3 DEF SchedulerInv, SchedulerTypes, Calls

LEMMA FireFrame ==
    ASSUME SchedulerInv, stack # <<>>, Top.fn = "fire", NEW last \in Conn \cup {None}
    PROVE  /\ [Top EXCEPT !.last = last] \in Passive(conn, enabled)
           /\ Top.list # <<>> =>
                 /\ Head(Top.list) \in Conn /\ conn[Head(Top.list)].script \in enabled
                 /\ [Top EXCEPT !.list = Tail(@), !.last = last] \in Passive(conn, enabled)
           /\ Top.last \in Conn \cup {None}
<1>1. Top \in Calling(conn, enabled) /\ Top \in Frame
  BY TopTaken
<1>2. /\ Top \in [fn : {"fire"}, list : Seq(Conn), last : Conn \cup {None}]
      /\ \A c \in ToSet(Top.list) : conn[c].script \in enabled
  BY <1>1 DEF Frame, Calling
<1>3. [Top EXCEPT !.last = last] \in Passive(conn, enabled)
  <2> DEFINE g == [Top EXCEPT !.last = last]
  <2>1. g \in [fn : {"fire"}, list : Seq(Conn), last : Conn \cup {None}] /\ g.list = Top.list
    BY <1>2
  <2> HIDE DEF g
  <2>2. g \in Frame /\ g.fn = "fire"
    BY <2>1 DEF Frame
  <2>3. g \in Passive(conn, enabled)
    BY <1>2, <2>1, <2>2 DEF Passive, Calling
  <2> QED BY <2>3 DEF g
<1>4. ASSUME Top.list # <<>>
      PROVE  /\ Head(Top.list) \in Conn /\ conn[Head(Top.list)].script \in enabled
             /\ [Top EXCEPT !.list = Tail(@), !.last = last] \in Passive(conn, enabled)
  <2> DEFINE g == [Top EXCEPT !.list = Tail(@), !.last = last]
  <2>1. /\ Head(Top.list) \in Conn /\ Tail(Top.list) \in Seq(Conn)
        /\ ToSet(Top.list) = {Head(Top.list)} \cup ToSet(Tail(Top.list))
    BY <1>2, <1>4, HeadAndTail
  <2>2. g \in [fn : {"fire"}, list : Seq(Conn), last : Conn \cup {None}] /\ g.list = Tail(Top.list)
    BY <1>2, <2>1
  <2> HIDE DEF g
  <2>3. g \in Frame /\ g.fn = "fire"
    BY <2>2 DEF Frame
  <2>4. \A c \in ToSet(g.list) : conn[c].script \in enabled
    BY <1>2, <2>1, <2>2
  <2>5. g \in Passive(conn, enabled)
    BY <2>3, <2>4 DEF Passive, Calling
  <2> QED BY <1>2, <2>1, <2>5 DEF g
<1> QED BY <1>2, <1>3, <1>4

LEMMA FireConnKeeps ==
    ASSUME SchedulerInv, FireConn, UNCHANGED place
    PROVE  SchedulerInv'
<1> DEFINE c == Head(Top.list)
           g(last) == [Top EXCEPT !.list = Tail(@), !.last = last]
<1>1. /\ stack # <<>> /\ Top.fn = "fire" /\ Top.list # <<>>
      /\ UNCHANGED <<place, conns, enabled, pendingStart, paused>>
  BY DEF FireConn, In, scriptVars
<1>2. /\ Base(task, queue, Below, paused, enabled, conn, {}) /\ Low(Below, Calls)
      /\ paused # None => "breakpoint" \in Calls
  BY <1>1, LoopTaken
<1>3. conns' \in Seq(Conn) /\ pendingStart' \in Seq(Script) /\ conn \in Conns /\ enabled \subseteq Script
  BY <1>1, PlacesAssumption DEF SchedulerInv, SchedulerTypes
<1>4. /\ c \in Conn /\ conn[c].script \in enabled
      /\ g(c) \in Passive(conn, enabled) /\ g(None) \in Passive(conn, enabled)
  <2>1. \A last \in Conn \cup {None} : c \in Conn /\ conn[c].script \in enabled /\ g(last) \in Passive(conn, enabled)
    BY <1>1, FireFrame
  <2> QED BY <2>1
<1>5. \/ \E t \in Fresh : /\ Resume(t, Made(t, conn[c].script), queue, Append(Below, g(c)))
                        /\ conn' = Unhooked(c)
      \/ stack' = Append(Below, g(None)) /\ UNCHANGED <<task, queue, conn>>
  BY DEF FireConn
<1> HIDE DEF c, g
<1>6. ASSUME NEW t \in Fresh, Resume(t, Made(t, conn[c].script), queue, Append(Below, g(c))), conn' = Unhooked(c)
      PROVE  SchedulerInv'
  <2>1. Base(task, queue, Append(Below, g(c)), paused, enabled, conn, {}) /\ Low(Append(Below, g(c)), Calls)
    BY <1>2, <1>4, PassivePushed
  <2>2. t \in Thread /\ task[t].state = "None"
    BY DEF Fresh, Live
  <2>3. /\ Taken(t, Made(t, conn[c].script), queue, Append(Below, g(c)), paused, enabled, conn)
        /\ Ready(t, Made(t, conn[c].script))
    <3>1. conn[c].script \in Script
      BY <1>3, <1>4
    <3> QED BY <1>4, <2>1, <2>2, <3>1, MadeTaken
  <2>4. Base(task', queue', stack', paused, enabled, conn, {}) /\ Flat(stack', paused, Calls)
    BY <1>2, <1>6, <2>1, <2>2, <2>3, ResumeKeeps
  <2>5. /\ conn' \in Conns
        /\ \A d \in Conn : /\ conn'[d].script = conn[d].script
                           /\ conn'[d].connected => conn[d].connected
    BY <1>3, <1>4, <1>6 DEF Conns, Unhooked
  <2> QED BY <1>1, <1>3, <2>4, <2>5, SignalsKeep
<1>7. CASE stack' = Append(Below, g(None)) /\ UNCHANGED <<task, queue, conn>>
  BY <1>1, <1>2, <1>3, <1>4, <1>7, LoopKeeps
<1> QED BY <1>5, <1>6, <1>7

LEMMA FireCalledKeeps ==
    ASSUME SchedulerInv, FireCalled, UNCHANGED place
    PROVE  SchedulerInv'
<1> DEFINE g == [Top EXCEPT !.last = None]
<1>1. /\ stack # <<>> /\ Top.fn = "fire" /\ Top.last # None
      /\ UNCHANGED <<place, task, queue, conns, enabled, pendingStart, paused>>
      /\ conn' = [conn EXCEPT ![Top.last].held = @ /\ ~conn[Top.last].once]
      /\ stack' = Append(Below, g)
  BY DEF FireCalled, In, scriptVars
<1>2. /\ Base(task, queue, Below, paused, enabled, conn, {}) /\ Low(Below, Calls)
      /\ paused # None => "breakpoint" \in Calls
  BY <1>1, LoopTaken
<1>3. conns' \in Seq(Conn) /\ pendingStart' \in Seq(Script) /\ conn \in Conns
  BY <1>1 DEF SchedulerInv, SchedulerTypes
<1>4. Top.last \in Conn /\ g \in Passive(conn, enabled)
  BY <1>1, FireFrame
<1>5. /\ conn' \in Conns
      /\ \A d \in Conn : /\ conn'[d].script = conn[d].script
                         /\ conn'[d].connected => conn[d].connected
  <2>1. (conn[Top.last].held /\ ~conn[Top.last].once) \in BOOLEAN
    OBVIOUS
  <2> QED BY <1>1, <1>3, <1>4, <2>1 DEF Conns
<1> HIDE DEF g
<1>6. /\ Base(task, queue, Append(Below, g), paused, enabled, conn, {}) /\ Low(Append(Below, g), Calls)
      /\ Append(Below, g) \in Seq(Frame)
  BY <1>2, <1>4, PassivePushed
<1>7. Flat(Append(Below, g), paused, Calls)
  BY <1>2, <1>6, LowIsFlat
<1>8. Base(task', queue', stack', paused', enabled, conn, {}) /\ Flat(stack', paused', Calls)
  BY <1>1, <1>6, <1>7
<1> QED BY <1>1, <1>3, <1>5, <1>8, SignalsKeep

-----------------------------------------------------------------------------
(***************************************************************************)
(* What a running thread does.  No other is at a breakpoint.                *)
(***************************************************************************)
LEMMA RunningTaken ==
    ASSUME SchedulerInv, NEW t \in Thread, Runs(t)
    PROVE  /\ Taken(t, task, queue, Below, None, enabled, conn)
           /\ task[t].state = "Running" /\ ~task[t].args
           /\ Low(Below, Calls) /\ Below \in Seq(Frame)
           /\ paused = None /\ t # None
           /\ stack = Append(Below, [fn |-> "task", t |-> t])
<1>1. stack # <<>> /\ Top.fn = "task" /\ Top.t = t
  BY DEF Runs, In
<1>2. /\ stack = Append(Below, Top) /\ Below \in Seq(Calling(conn, enabled)) /\ Top \in Frame
      /\ Below \in Seq(Frame) /\ Low(Below, Calls)
  BY <1>1, TopTaken
<1>3. Top = [fn |-> "task", t |-> t]
  BY <1>1, <1>2 DEF Frame
<1>4. paused = None
  <2>1. ASSUME stack \in Seq(Loop) PROVE FALSE
    <3>1. Last(stack) \in Loop
      BY <1>1, <2>1, FrontAndLast
    <3> QED BY <1>1, <3>1 DEF Loop, Top
  <2> QED BY <2>1 DEF SchedulerInv, Flat
<1>5. Base(task, queue, Append(Below, [fn |-> "task", t |-> t]), None, enabled, conn, {})
  BY <1>2, <1>3, <1>4 DEF SchedulerInv
<1>6. Taken(t, task, queue, Below, None, enabled, conn) /\ task[t].state = "Running" /\ ~task[t].args
  BY <1>2, <1>5, LeftTaken
<1> QED BY <1>2, <1>3, <1>4, <1>6, SchedulerAssumption

\* It yields into a queue, or is killed if it was stopped meanwhile.
LEMMA LeaveKeeps ==
    ASSUME SchedulerInv, NEW t \in Thread, Runs(t),
           NEW ts \in Tasks, \A u \in Thread \ {t} : ts[u] = task[u],
           ts[t].ctx = task[t].ctx, ts[t].doomed = task[t].doomed, ts[t].args = task[t].args,
           NEW n \in QueueName, <<ts[t].state, n>> \in Home \cup {<<"WaitSignal", "waiters">>},
           NEW qs, Queuing(t, n, queue, qs),
           Leave(t, ts, qs), UNCHANGED <<place, signalVars, scriptVars, fuel>>
    PROVE  SchedulerInv'
<1>1. /\ Taken(t, task, queue, Below, None, enabled, conn) /\ task[t].state = "Running" /\ ~task[t].args
      /\ Low(Below, Calls) /\ Below \in Seq(Frame) /\ paused = None /\ t # None
  BY RunningTaken
<1>2. Taken(t, ts, queue, Below, None, enabled, conn)
  <2>1. ts[t].state # "None" => ts[t].doomed \/ ts[t].ctx \in enabled
    BY <1>1 DEF Taken, Base, Lasting
  <2> QED BY <1>1, <2>1, ChangedTaken
<1>3. /\ queue \in Queues /\ Distinct(queue) /\ Settled(ts, queue, Below, None, {t})
      /\ Nowhere(t, queue, Below) /\ Lasting(ts, enabled) /\ Below \in Seq(Calling(conn, enabled))
  BY <1>2 DEF Taken, Base
<1>4. Parting(t, ts, qs, None, task', queue', paused') /\ stack' = Below
  BY <1>1 DEF Leave, Parting, Unpaused
<1>5. ~ts[t].args /\ None \in Thread \cup {None} /\ None # t
  BY <1>1
<1>6. /\ task' \in Tasks /\ queue' \in Queues /\ Distinct(queue') /\ paused' = None
      /\ Settled(task', queue', Below, None, {})
      /\ \A u \in Thread : task'[u] = ts[u] \/ task'[u] = NoTask
  BY <1>1, <1>3, <1>4, <1>5, LeaveSettles
<1>7. Lasting(task', enabled)
  BY <1>3, <1>6 DEF Lasting, NoTask
<1>8. Base(task', queue', stack', paused', enabled, conn, {})
  BY <1>3, <1>4, <1>6, <1>7 DEF Base
<1>9. Flat(stack', paused', Calls)
  <2>1. Flat(Below, None, Calls)
    BY <1>1, LowIsFlat
  <2> QED BY <1>4, <1>6, <2>1
<1>10. /\ conns' \in Seq(Conn) /\ pendingStart' \in Seq(Script) /\ paused' \in {paused, None}
       /\ UNCHANGED <<place, conn, enabled>>
  BY <1>6 DEF SchedulerInv, SchedulerTypes, signalVars, scriptVars
<1> QED BY <1>8, <1>9, <1>10, ThreadsKeep

LEMMA YieldsKeep ==
    ASSUME SchedulerInv, NEW t \in Thread, Runs(t), UNCHANGED place,
           \/ \E n \in 0..MaxSleep : WaitFor(t, n)
           \/ WaitSignal(t) \/ WaitForChild(t) \/ HandOff(t)
    PROVE  SchedulerInv'
<1>1. task \in Tasks /\ queue \in Queues
  BY DEF SchedulerInv, Base
<1>2. ASSUME NEW n \in 0..MaxSleep, WaitFor(t, n) PROVE SchedulerInv'
  <2> DEFINE ts == [task EXCEPT ![t].state = "Sleeping", ![t].wakeIn = n]
             qs == [queue EXCEPT !.sleepers = Append(@, t)]
  <2>1. /\ ts \in Tasks /\ \A u \in Thread \ {t} : ts[u] = task[u]
        /\ ts[t].ctx = task[t].ctx /\ ts[t].doomed = task[t].doomed /\ ts[t].args = task[t].args
        /\ ts[t].state = "Sleeping"
    <3>1. n \in Nat
      BY SchedulerAssumption
    <3>2. task[t] \in [state : State, ctx : Script \cup {None}, args : BOOLEAN, doomed : BOOLEAN, wakeIn : Nat]
      BY <1>1 DEF Tasks
    <3>3. [task[t] EXCEPT !.state = "Sleeping", !.wakeIn = n] \in
            [state : State, ctx : Script \cup {None}, args : BOOLEAN, doomed : BOOLEAN, wakeIn : Nat]
      BY <3>1, <3>2 DEF State
    <3>4. ts = [task EXCEPT ![t] = [task[t] EXCEPT !.state = "Sleeping", !.wakeIn = n]]
      BY <1>1 DEF Tasks
    <3> HIDE DEF ts
    <3>5. ts \in Tasks /\ \A u \in Thread \ {t} : ts[u] = task[u]
      BY <1>1, <3>3, <3>4 DEF Tasks
    <3>6. ts[t] = [task[t] EXCEPT !.state = "Sleeping", !.wakeIn = n]
      BY <1>1, <3>4 DEF Tasks
    <3>7. /\ ts[t].ctx = task[t].ctx /\ ts[t].doomed = task[t].doomed /\ ts[t].args = task[t].args
          /\ ts[t].state = "Sleeping"
      BY <3>2, <3>6
    <3> QED BY <3>5, <3>7
  <2>2. Queuing(t, "sleepers", queue, qs) /\ "sleepers" \in QueueName
    BY DEF Queuing, QueueName
  <2>3. Leave(t, ts, qs) /\ UNCHANGED <<place, signalVars, scriptVars, fuel>>
    BY <1>2 DEF WaitFor
  <2> HIDE DEF ts, qs
  <2>4. <<ts[t].state, "sleepers">> \in Home \cup {<<"WaitSignal", "waiters">>}
    BY <2>1 DEF Home
  <2> QED BY <2>1, <2>2, <2>3, <2>4, LeaveKeeps
<1>3. CASE WaitSignal(t)
  <2> DEFINE ts == [task EXCEPT ![t].state = "WaitSignal"]
             qs == [queue EXCEPT !.waiters = Append(@, t)]
  <2>1. /\ ts \in Tasks /\ \A u \in Thread \ {t} : ts[u] = task[u]
        /\ ts[t].ctx = task[t].ctx /\ ts[t].doomed = task[t].doomed /\ ts[t].args = task[t].args
        /\ ts[t].state = "WaitSignal"
    BY <1>1 DEF Tasks, State
  <2>2. Queuing(t, "waiters", queue, qs) /\ "waiters" \in QueueName
    BY DEF Queuing, QueueName
  <2>3. Leave(t, ts, qs) /\ UNCHANGED <<place, signalVars, scriptVars, fuel>>
    BY <1>3 DEF WaitSignal
  <2> HIDE DEF ts, qs
  <2>4. <<ts[t].state, "waiters">> \in Home \cup {<<"WaitSignal", "waiters">>}
    BY <2>1
  <2> QED BY <2>1, <2>2, <2>3, <2>4, LeaveKeeps
<1>4. CASE WaitForChild(t)
  <2> DEFINE ts == [task EXCEPT ![t].state = "WaitChild"]
             qs == [queue EXCEPT !.childWaiters = Append(@, t)]
  <2>1. /\ ts \in Tasks /\ \A u \in Thread \ {t} : ts[u] = task[u]
        /\ ts[t].ctx = task[t].ctx /\ ts[t].doomed = task[t].doomed /\ ts[t].args = task[t].args
        /\ ts[t].state = "WaitChild"
    BY <1>1 DEF Tasks, State
  <2>2. Queuing(t, "childWaiters", queue, qs) /\ "childWaiters" \in QueueName
    BY DEF Queuing, QueueName
  <2>3. Leave(t, ts, qs) /\ UNCHANGED <<place, signalVars, scriptVars, fuel>>
    BY <1>4 DEF WaitForChild
  <2> HIDE DEF ts, qs
  <2>4. <<ts[t].state, "childWaiters">> \in Home \cup {<<"WaitSignal", "waiters">>}
    BY <2>1 DEF Home
  <2> QED BY <2>1, <2>2, <2>3, <2>4, LeaveKeeps
<1>5. CASE HandOff(t)
  <2> DEFINE ts == [task EXCEPT ![t].state = "Deferred"]
             qs == [queue EXCEPT !.deferred = Append(@, t)]
  <2>1. /\ ts \in Tasks /\ \A u \in Thread \ {t} : ts[u] = task[u]
        /\ ts[t].ctx = task[t].ctx /\ ts[t].doomed = task[t].doomed /\ ts[t].args = task[t].args
        /\ ts[t].state = "Deferred"
    BY <1>1 DEF Tasks, State
  <2>2. Queuing(t, "deferred", queue, qs) /\ "deferred" \in QueueName
    BY DEF Queuing, QueueName
  <2>3. Leave(t, ts, qs) /\ UNCHANGED <<place, signalVars, scriptVars, fuel>>
    BY <1>5 DEF HandOff
  <2> HIDE DEF ts, qs
  <2>4. <<ts[t].state, "deferred">> \in Home \cup {<<"WaitSignal", "waiters">>}
    BY <2>1 DEF Home
  <2> QED BY <2>1, <2>2, <2>3, <2>4, LeaveKeeps
<1> QED BY <1>2, <1>3, <1>4, <1>5

(***************************************************************************)
(* kill.                                                                   *)
(***************************************************************************)
Killed(who, ts, ts2, qs, q2) ==
    /\ ts2 \in Tasks /\ Cleared(qs, q2, who)
    /\ \A t \in Thread \cap who : ts2[t] = NoTask
    /\ \A t \in Thread \ who : Alike(t, ts, ts2) /\ (ts2[t].doomed => ts[t].state = "Running")

LEMMA KilledSettle ==
    ASSUME NEW who, NEW ts \in Tasks, NEW qs \in Queues, NEW frames, NEW stopped \in Thread \cup {None},
           Distinct(qs), Settled(ts, qs, frames, stopped, who), \A t \in Thread \cap who : Unheld(t, frames),
           NEW ts2, NEW q2, Killed(who, ts, ts2, qs, q2),
           NEW stopped2, stopped2 = IF stopped \in who THEN None ELSE stopped
    PROVE  /\ ts2 \in Tasks /\ q2 \in Queues /\ Distinct(q2)
           /\ Settled(ts2, q2, frames, stopped2, {})
<1>1. Cleared(qs, q2, who) /\ ts2 \in Tasks /\ q2 \in Queues
  BY DEF Killed, Cleared
<1>2. /\ Distinct(q2)
      /\ \A t \in who : Queued(q2, t) = {}
      /\ \A t \in Thread \ who : Queued(q2, t) = Queued(qs, t)
  BY <1>1, UnqueuedAll
<1>3. \A t \in Thread \cap who : ts2[t] = NoTask /\ Nowhere(t, q2, frames)
  BY <1>2 DEF Killed, Nowhere
<1>4. \A t \in Thread \ who : /\ Alike(t, ts, ts2) /\ (ts2[t].doomed => ts[t].state = "Running")
                             /\ Queued(q2, t) = Queued(qs, t)
  BY <1>2 DEF Killed
<1>5. Settled(ts2, q2, frames, stopped2, {})
  BY <1>3, <1>4, GoneSettles
<1> QED BY <1>1, <1>2, <1>5

\* It ends while it runs: its frame goes with it.
LEMMA EndKeeps ==
    ASSUME SchedulerInv, NEW t \in Thread, Runs(t), stack' = Below, task' = Kill(task, {t}),
           queue' \in {queue, Unqueued(queue, {t})}, paused' = None,
           UNCHANGED <<place, signalVars, scriptVars>>
    PROVE  SchedulerInv'
<1>1. /\ Taken(t, task, queue, Below, None, enabled, conn)
      /\ Low(Below, Calls) /\ Below \in Seq(Frame) /\ paused = None /\ t # None
  BY RunningTaken
<1>2. /\ task \in Tasks /\ queue \in Queues /\ Distinct(queue) /\ Settled(task, queue, Below, None, {t})
      /\ Queued(queue, t) = {} /\ Unheld(t, Below) /\ Lasting(task, enabled)
      /\ Below \in Seq(Calling(conn, enabled))
  BY <1>1 DEF Taken, Base, Nowhere
<1>3. PICK who : who = {t}
  OBVIOUS
<1>4. Settled(task, queue, Below, None, who) /\ \A u \in Thread \cap who : Unheld(u, Below)
  BY <1>2, <1>3
<1>5. Cleared(queue, queue', who)
  <2>1. CASE queue' = Unqueued(queue, {t})
    BY <1>2, <1>3, <2>1, UnqueuedQueues
  <2>2. CASE queue' = queue
    <3>1. \A n \in QueueName : ToSet(queue[n]) \cap who = {}
      BY <1>2, <1>3 DEF Queued, Queues
    <3> QED BY <1>2, <2>2, <3>1 DEF Cleared
  <2> QED BY <2>1, <2>2
<1>6. /\ task' \in Tasks /\ task'[t] = NoTask /\ \A u \in Thread \ {t} : task'[u] = task[u]
  BY <1>2 DEF Tasks, Kill, NoTask, State
<1>7. Killed(who, task, task', queue, queue')
  <2>1. \A u \in Thread \ {t} : Alike(u, task, task') /\ (task'[u].doomed => task[u].state = "Running")
    BY <1>2, <1>6 DEF Alike, Settled, Sits
  <2> QED BY <1>3, <1>5, <1>6, <2>1 DEF Killed
<1>8. None \in Thread \cup {None} /\ None = IF None \in who THEN None ELSE None
  OBVIOUS
<1>9. /\ task' \in Tasks /\ queue' \in Queues /\ Distinct(queue')
      /\ Settled(task', queue', Below, None, {})
  BY <1>2, <1>4, <1>7, <1>8, KilledSettle
<1>10. Lasting(task', enabled)
  <2>1. \A u \in Thread : task'[u] = task[u] \/ task'[u] = NoTask
    BY <1>6
  <2>2. NoTask.state = "None"
    BY DEF NoTask
  <2> QED BY <1>2, <2>1, <2>2 DEF Lasting
<1>11. Base(task', queue', Below, None, enabled, conn, {}) /\ Flat(Below, None, Calls)
  BY <1>1, <1>2, <1>9, <1>10, LowIsFlat DEF Base
<1>12. Base(task', queue', stack', paused', enabled, conn, {}) /\ Flat(stack', paused', Calls)
  BY <1>11
<1>13. /\ conns' \in Seq(Conn) /\ pendingStart' \in Seq(Script) /\ paused' \in {paused, None}
       /\ UNCHANGED <<place, conn, enabled>>
  BY DEF SchedulerInv, SchedulerTypes, signalVars, scriptVars
<1> QED BY <1>12, <1>13, ThreadsKeep

LEMMA EndsKeep ==
    ASSUME SchedulerInv, NEW t \in Thread, Runs(t), Ends(t), UNCHANGED place
    PROVE  SchedulerInv'
<1>1. paused = None
  BY RunningTaken
<1>2. /\ stack' = Below /\ task' = Kill(task, {t}) /\ queue' \in {queue, Unqueued(queue, {t})}
      /\ paused' = None /\ UNCHANGED <<place, signalVars, scriptVars>>
  BY <1>1 DEF Ends, Unpaused
<1> QED BY <1>2, EndKeeps

LEMMA BreakKeeps ==
    ASSUME SchedulerInv, NEW t \in Thread, Runs(t), Break(t), UNCHANGED place
    PROVE  SchedulerInv'
<1>1. /\ Taken(t, task, queue, Below, None, enabled, conn) /\ task[t].state = "Running" /\ ~task[t].args
      /\ Low(Below, Calls) /\ paused = None /\ t # None
  BY RunningTaken
<1>2. CASE task[t].doomed
  <2>1. /\ stack' = Below /\ task' = Kill(task, {t}) /\ queue' \in {queue, Unqueued(queue, {t})}
        /\ paused' = None /\ UNCHANGED <<place, signalVars, scriptVars>>
    BY <1>2 DEF Break
  <2> QED BY <2>1, EndKeeps
<1>3. CASE ~task[t].doomed
  <2>1. /\ stack' = Below /\ task' = [task EXCEPT ![t].state = "Parked"] /\ paused' = t
        /\ "breakpoint" \in Calls /\ UNCHANGED <<place, queue, conns, conn, enabled, pendingStart>>
    BY <1>3 DEF Break, signalVars, scriptVars
  <2>2. /\ task \in Tasks /\ queue \in Queues /\ Distinct(queue) /\ Settled(task, queue, Below, None, {t})
        /\ Nowhere(t, queue, Below) /\ Lasting(task, enabled) /\ Below \in Seq(Calling(conn, enabled))
    BY <1>1 DEF Taken, Base
  <2>3. /\ task' \in Tasks /\ \A u \in Thread \ {t} : task'[u] = task[u]
        /\ task'[t].state = "Parked" /\ ~task'[t].args /\ ~task'[t].doomed /\ task'[t].ctx = task[t].ctx
    BY <1>1, <1>3, <2>1, <2>2 DEF Tasks, State
  <2>4. Sits(t, task', queue, Below, t)
    BY <2>2, <2>3 DEF Sits
  <2>5. ASSUME NEW u \in Thread \ {t} PROVE Sits(u, task', queue, Below, t)
    <3>1. Sits(u, task, queue, Below, None)
      BY <2>2 DEF Settled
    <3> QED BY <2>3, <3>1, SchedulerAssumption DEF Sits
  <2>6. Settled(task', queue, Below, t, {})
    BY <2>4, <2>5 DEF Settled
  <2>7. Lasting(task', enabled)
    <3>1. task[t].ctx \in enabled
      BY <1>1, <1>3, <2>2 DEF Lasting
    <3>2. \A u \in Thread : task'[u] = task[u] \/ task'[u].ctx \in enabled
      BY <2>3, <3>1
    <3> QED BY <2>2, <3>2 DEF Lasting
  <2>8. Base(task', queue, Below, t, enabled, conn, {})
    BY <2>2, <2>3, <2>6, <2>7 DEF Base
  <2>9. Flat(Below, t, Calls)
    <3>1. Below \in Seq(Frame)
      BY RunningTaken
    <3> QED BY <1>1, <2>1, <3>1, LowIsFlat
  <2> QED BY <2>1, <2>8, <2>9 DEF SchedulerInv, SchedulerTypes, Calls
<1> QED BY <1>2, <1>3

LEMMA BusyKeeps ==
    ASSUME SchedulerInv, NEW t \in Thread, Busy(t), UNCHANGED place
    PROVE  SchedulerInv'
<1>1. UNCHANGED <<place, task, queue, stack, conns, conn, enabled, pendingStart, paused>>
  BY DEF Busy, taskVars, signalVars, scriptVars
<1>2. Base(task', queue', stack', paused', enabled, conn, {}) /\ Flat(stack', paused', Calls)
  BY <1>1 DEF SchedulerInv
<1>3. conns' \in Seq(Conn) /\ pendingStart' \in Seq(Script)
  BY <1>1 DEF SchedulerInv, SchedulerTypes
<1> QED BY <1>1, <1>2, <1>3, ThreadsKeep

(***************************************************************************)
(* What it starts: always something new, in its own script's name.          *)
(***************************************************************************)
LEMMA NewCallee ==
    ASSUME SchedulerInv, Sound(place), NEW t \in Thread, Runs(t), MayStart(t), NEW u \in Callees
    PROVE  /\ u \in Thread /\ task[u].state = "None" /\ For(t, u) = Made(u, task[t].ctx)
           /\ task[t].ctx \in enabled /\ task[t].ctx \in Script
<1>1. u \in Fresh
  BY DEF Callees, Sound, Calls
<1>2. task[t].state = "Running" /\ ~task[t].doomed
  BY RunningTaken DEF MayStart, Sound, Calls
<1>3. task[t].ctx \in enabled
  BY <1>2 DEF SchedulerInv, Base, Lasting
<1>4. enabled \subseteq Script
  BY PlacesAssumption DEF SchedulerInv, SchedulerTypes
<1> QED BY <1>1, <1>3, <1>4 DEF Fresh, For, Live

LEMMA SpawnKeeps ==
    ASSUME SchedulerInv, Sound(place), NEW t \in Thread, Runs(t), NEW u \in Callees, Spawn(t, u), UNCHANGED place
    PROVE  SchedulerInv'
<1>1. /\ "spawn" \in Calls /\ MayStart(t) /\ Resume(u, For(t, u), queue, stack)
      /\ UNCHANGED <<place, conns, conn, enabled, pendingStart, paused>>
  BY DEF Spawn, Makes, signalVars, scriptVars
<1>2. /\ u \in Thread /\ task[u].state = "None" /\ For(t, u) = Made(u, task[t].ctx)
      /\ task[t].ctx \in enabled /\ task[t].ctx \in Script
  BY <1>1, NewCallee
<1>3. Base(task, queue, stack, paused, enabled, conn, {})
  BY DEF SchedulerInv
<1>4. /\ Taken(u, For(t, u), queue, stack, paused, enabled, conn)
      /\ Ready(u, For(t, u))
  BY <1>2, <1>3, MadeTaken
<1>5. paused = None /\ Low(stack, Calls)
  BY <1>1, RunningTaken DEF Low, Sound, Calls
<1>6. Base(task', queue', stack', paused, enabled, conn, {}) /\ Flat(stack', paused, Calls)
  BY <1>1, <1>2, <1>4, <1>5, ResumeKeeps
<1>7. conns' \in Seq(Conn) /\ pendingStart' \in Seq(Script)
  BY <1>1 DEF SchedulerInv, SchedulerTypes
<1> QED BY <1>1, <1>6, <1>7, ThreadsKeep

LEMMA QueuedKeeps ==
    ASSUME SchedulerInv, NEW u \in Thread, task[u].state = "None",
           NEW s \in Script, s \in enabled,
           task' \in Tasks, \A v \in Thread \ {u} : task'[v] = task[v],
           task'[u].ctx = s, ~task'[u].args, ~task'[u].doomed,
           NEW n \in QueueName, <<task'[u].state, n>> \in Home, Queuing(u, n, queue, queue'),
           UNCHANGED <<place, stack, signalVars, scriptVars, paused>>
    PROVE  SchedulerInv'
<1>1. Base(task, queue, stack, paused, enabled, conn, {}) /\ task'[u].ctx \in enabled
  BY DEF SchedulerInv
<1>2. Taken(u, task', queue, stack, paused, enabled, conn)
  BY <1>1, FreshTaken
<1>3. /\ queue \in Queues /\ Distinct(queue) /\ Settled(task', queue, stack, paused, {u})
      /\ Nowhere(u, queue, stack) /\ Lasting(task', enabled) /\ stack \in Seq(Calling(conn, enabled))
      /\ paused # u
  BY <1>2 DEF Taken, Base
<1>4. Parting(u, task', queue', paused, task', queue', paused)
  BY DEF Parting
<1>5. paused \in Thread \cup {None} /\ stack \in Seq(Frame)
  BY <1>3, CallingIsFrame DEF SchedulerInv, SchedulerTypes
<1>6. <<task'[u].state, n>> \in Home \cup {<<"WaitSignal", "waiters">>}
  OBVIOUS
<1>7. /\ queue' \in Queues /\ Distinct(queue') /\ Settled(task', queue', stack, paused, {})
  BY <1>3, <1>4, <1>5, <1>6, LeaveSettles
<1>8. Base(task', queue', stack, paused, enabled, conn, {}) /\ Flat(stack, paused, Calls)
  BY <1>3, <1>7 DEF Base, SchedulerInv
<1>9. Base(task', queue', stack', paused', enabled, conn, {}) /\ Flat(stack', paused', Calls)
  BY <1>8
<1>10. /\ conns' \in Seq(Conn) /\ pendingStart' \in Seq(Script) /\ paused' \in {paused, None}
       /\ UNCHANGED <<place, conn, enabled>>
  BY DEF SchedulerInv, SchedulerTypes, signalVars, scriptVars
<1> QED BY <1>9, <1>10, ThreadsKeep

LEMMA DeferKeeps ==
    ASSUME SchedulerInv, Sound(place), NEW t \in Thread, Runs(t), NEW u \in Callees, Defer(t, u), UNCHANGED place
    PROVE  SchedulerInv'
<1> DEFINE s == task[t].ctx
           ts == Made(u, s)
<1>1. /\ MayStart(t) /\ task' = [For(t, u) EXCEPT ![u].state = "Deferred"]
      /\ queue' = [queue EXCEPT !.deferred = Append(@, u)]
      /\ UNCHANGED <<place, stack, signalVars, scriptVars, paused>>
  BY DEF Defer
<1>2. /\ u \in Thread /\ task[u].state = "None" /\ For(t, u) = ts /\ s \in enabled /\ s \in Script
  BY <1>1, NewCallee
<1>3. Base(task, queue, stack, paused, enabled, conn, {}) /\ task \in Tasks
  BY DEF SchedulerInv, Base
<1>4. ts \in Tasks /\ Ready(u, ts)
  BY <1>2, <1>3, MadeTaken
<1>5. /\ \A v \in Thread \ {u} : ts[v] = task[v]
      /\ ts[u].ctx = s
  BY <1>2, <1>3 DEF Tasks, Made, NoTask
<1> HIDE DEF ts, s
<1>6. /\ task' \in Tasks /\ \A v \in Thread \ {u} : task'[v] = ts[v]
      /\ task'[u].state = "Deferred" /\ task'[u].ctx = ts[u].ctx /\ task'[u].args = ts[u].args
      /\ task'[u].doomed = ts[u].doomed
  BY <1>1, <1>2, <1>4 DEF Tasks, State
<1>7. Queuing(u, "deferred", queue, queue') /\ "deferred" \in QueueName
  BY <1>1 DEF Queuing, QueueName
<1>8. <<task'[u].state, "deferred">> \in Home
  BY <1>6 DEF Home
<1>9. task'[u].ctx = s /\ ~task'[u].args /\ ~task'[u].doomed
  BY <1>4, <1>5, <1>6 DEF Ready
<1> QED BY <1>1, <1>2, <1>5, <1>6, <1>7, <1>8, <1>9, QueuedKeeps

LEMMA DelayKeeps ==
    ASSUME SchedulerInv, Sound(place), NEW t \in Thread, Runs(t), NEW u \in Callees, NEW n \in 0..MaxSleep,
           Delay(t, u, n), UNCHANGED place
    PROVE  SchedulerInv'
<1> DEFINE s == task[t].ctx
           ts == Made(u, s)
<1>1. /\ MayStart(t) /\ task' = [For(t, u) EXCEPT ![u].state = "Sleeping", ![u].wakeIn = n]
      /\ queue' = [queue EXCEPT !.sleepers = Append(@, u)]
      /\ UNCHANGED <<place, stack, signalVars, scriptVars, paused>>
  BY DEF Delay
<1>2. /\ u \in Thread /\ task[u].state = "None" /\ For(t, u) = ts /\ s \in enabled /\ s \in Script
  BY <1>1, NewCallee
<1>3. Base(task, queue, stack, paused, enabled, conn, {}) /\ task \in Tasks
  BY DEF SchedulerInv, Base
<1>4. ts \in Tasks /\ Ready(u, ts)
  BY <1>2, <1>3, MadeTaken
<1>5. /\ \A v \in Thread \ {u} : ts[v] = task[v]
      /\ ts[u].ctx = s
  BY <1>2, <1>3 DEF Tasks, Made, NoTask
<1> HIDE DEF ts, s
<1> DEFINE r == [ts[u] EXCEPT !.state = "Sleeping", !.wakeIn = n]
<1>10. n \in Nat
  BY SchedulerAssumption
<1>11. ts[u] \in [state : State, ctx : Script \cup {None}, args : BOOLEAN, doomed : BOOLEAN, wakeIn : Nat]
  BY <1>2, <1>4 DEF Tasks
<1>12. /\ r \in [state : State, ctx : Script \cup {None}, args : BOOLEAN, doomed : BOOLEAN, wakeIn : Nat]
       /\ r.state = "Sleeping" /\ r.ctx = ts[u].ctx /\ r.args = ts[u].args /\ r.doomed = ts[u].doomed
  BY <1>10, <1>11 DEF State
<1>13. task' = [ts EXCEPT ![u] = r]
  BY <1>1, <1>2, <1>4 DEF Tasks
<1> HIDE DEF r
<1>14. /\ task' \in Tasks /\ \A v \in Thread \ {u} : task'[v] = ts[v]
       /\ task'[u] = r
  BY <1>2, <1>4, <1>12, <1>13 DEF Tasks
<1>7. Queuing(u, "sleepers", queue, queue') /\ "sleepers" \in QueueName
  BY <1>1 DEF Queuing, QueueName
<1>8. <<task'[u].state, "sleepers">> \in Home
  BY <1>12, <1>14 DEF Home
<1>9. task'[u].ctx = s /\ ~task'[u].args /\ ~task'[u].doomed
  BY <1>4, <1>5, <1>12, <1>14 DEF Ready
<1>15. \A v \in Thread \ {u} : task'[v] = task[v]
  BY <1>5, <1>14
<1> QED BY <1>1, <1>2, <1>7, <1>8, <1>9, <1>14, <1>15, QueuedKeeps

\* It fires the signal, or adds to the tree: a loop runs above it.
LEMMA CallKeeps ==
    ASSUME SchedulerInv, Sound(place), NEW t \in Thread, Runs(t), Fire(t) \/ Reparent(t), UNCHANGED place
    PROVE  SchedulerInv'
<1>1. /\ Calls \cap {"fire", "reparent"} # {}
      /\ \E fn \in {"fire", "children"} : stack' = Append(stack, Pass(fn))
      /\ UNCHANGED <<place, task, queue, conns, conn, enabled, pendingStart, paused>>
  BY DEF Fire, Reparent, Makes, signalVars, scriptVars
<1>2. Base(task, queue, stack, paused, enabled, conn, {}) /\ Low(stack, Calls)
  BY <1>1 DEF SchedulerInv, Low, Sound, Calls
<1>3. conns' \in Seq(Conn) /\ pendingStart' \in Seq(Script)
  BY <1>1 DEF SchedulerInv, SchedulerTypes
<1>4. PICK fn \in {"fire", "children"} : stack' = Append(stack, Pass(fn))
  BY <1>1
<1>5. Pass(fn) \in Passive(conn, enabled)
  BY PassIsPassive
<1> QED BY <1>1, <1>2, <1>3, <1>4, <1>5, LoopKeeps

(***************************************************************************)
(* What it kills: threads that wait, and that no loop has in its hand.      *)
(***************************************************************************)
LEMMA NotInHand ==
    ASSUME SchedulerInv, NEW u \in Thread, task[u].state # "Running", ~InHand(u)
    PROVE  Unheld(u, stack)
<1>1. Sits(u, task, queue, stack, paused) /\ task[u].state \in State
  BY DEF SchedulerInv, Base, Settled, Tasks
<1>2. ASSUME NEW fn \in {"wake", "waiters"}, HeldIn(u, fn, stack) PROVE FALSE
  <2>1. PICK n \in DOMAIN stack : Stacked(stack, u) = {n} /\ stack[n].fn = fn
    BY <1>2 DEF HeldIn
  <2>2. u \in HeldBy(stack[n])
    BY <2>1 DEF Stacked
  <2>3. u \in ToSet(stack[n].list)
    BY <2>1, <2>2 DEF HeldBy
  <2> QED BY <2>1, <2>3 DEF InHand
<1> QED BY <1>1, <1>2 DEF Sits, State, Nowhere, OnlyIn, OnlyHeld

LEMMA KillsKeep ==
    ASSUME SchedulerInv, NEW t \in Thread, Runs(t),
           NEW who, \A u \in Thread \cap who : task[u].state # "Running" /\ ~InHand(u),
           Killed(who, task, task', queue, queue'), paused' = IF paused \in who THEN None ELSE paused,
           UNCHANGED stack, NEW on, Lasting(task', on), NEW cn, stack \in Seq(Calling(cn, on))
    PROVE  Base(task', queue', stack', paused', on, cn, {}) /\ Flat(stack', paused', Calls)
<1>1. paused = None /\ paused' = None
  BY RunningTaken
<1>2. /\ task \in Tasks /\ queue \in Queues /\ Distinct(queue)
      /\ Settled(task, queue, stack, paused, who) /\ paused \in Thread \cup {None}
  BY DEF SchedulerInv, SchedulerTypes, Base, Settled
<1>3. \A u \in Thread \cap who : Unheld(u, stack)
  BY NotInHand
<1>4. /\ task' \in Tasks /\ queue' \in Queues /\ Distinct(queue')
      /\ Settled(task', queue', stack, paused', {})
  BY <1>2, <1>3, KilledSettle
<1>5. Flat(stack, None, Calls)
  BY <1>1 DEF SchedulerInv
<1> QED BY <1>1, <1>4, <1>5 DEF Base

LEMMA CancelKeeps ==
    ASSUME SchedulerInv, Sound(place), NEW t \in Thread, Runs(t), NEW u \in Idle, Cancel(t, u), UNCHANGED place
    PROVE  SchedulerInv'
<1>1. /\ task[u].state # "WaitSignal" /\ ~InHand(u)
      /\ task' = Kill(task, {u})
      /\ queue' = [Unqueued(queue, {u}) EXCEPT !.waiters = queue.waiters]
      /\ paused' = IF paused \in {u} THEN None ELSE paused
      /\ UNCHANGED <<place, stack, conns, conn, enabled, pendingStart>>
  BY DEF Cancel, Sound, Calls, Gentle, Unpaused, signalVars, scriptVars
<1>2. u \in Thread /\ task[u].state # "None" /\ task[u].state # "Running"
  BY DEF Idle, Live
<1>3. /\ task \in Tasks /\ queue \in Queues /\ Distinct(queue) /\ Settled(task, queue, stack, paused, {})
      /\ Lasting(task, enabled) /\ stack \in Seq(Calling(conn, enabled))
  BY DEF SchedulerInv, Base
<1>4. PICK who : who = {u}
  OBVIOUS
<1>5. u \notin ToSet(queue.waiters)
  <2>1. Sits(u, task, queue, stack, paused) /\ task[u].state \in State
    BY <1>2, <1>3 DEF Settled, Tasks
  <2>2. "waiters" \notin Queued(queue, u)
    BY <1>1, <1>2, <2>1 DEF Sits, State, Nowhere, OnlyIn, OnlyHeld
  <2> QED BY <1>3, <2>2 DEF Queued, Queues, QueueName
<1>6. Cleared(queue, queue', who)
  <2> DEFINE q1 == Unqueued(queue, who)
  <2>1. q1 \in Queues /\ Cleared(queue, q1, who)
    BY <1>3, UnqueuedQueues
  <2>2. queue' = [q1 EXCEPT !.waiters = queue.waiters]
    BY <1>1, <1>4
  <2> HIDE DEF q1
  <2>3. queue' \in Queues /\ queue'.waiters = queue.waiters
        /\ \A n \in QueueName \ {"waiters"} : queue'[n] = q1[n]
    BY <1>3, <2>1, <2>2 DEF Queues, QueueName
  <2>4. ToSet(queue.waiters) \cap who = {}
    BY <1>4, <1>5
  <2> QED BY <2>1, <2>3, <2>4 DEF Cleared
<1>7. /\ task' \in Tasks /\ task'[u] = NoTask /\ \A v \in Thread \ {u} : task'[v] = task[v]
  BY <1>1, <1>2, <1>3 DEF Tasks, Kill, NoTask, State
<1>8. Killed(who, task, task', queue, queue')
  <2>1. \A v \in Thread \ {u} : Alike(v, task, task') /\ (task'[v].doomed => task[v].state = "Running")
    BY <1>3, <1>7 DEF Alike, Settled, Sits
  <2> QED BY <1>4, <1>6, <1>7, <2>1 DEF Killed
<1>9. Lasting(task', enabled)
  <2>1. \A v \in Thread : task'[v] = task[v] \/ task'[v] = NoTask
    BY <1>7
  <2>2. NoTask.state = "None"
    BY DEF NoTask
  <2> QED BY <1>3, <2>1, <2>2 DEF Lasting
<1>10. Base(task', queue', stack', paused', enabled, conn, {}) /\ Flat(stack', paused', Calls)
  <2>1. \A v \in Thread \cap who : task[v].state # "Running" /\ ~InHand(v)
    BY <1>1, <1>2, <1>4
  <2>2. paused' = IF paused \in who THEN None ELSE paused
    BY <1>1, <1>4
  <2> QED BY <1>1, <1>3, <1>8, <1>9, <2>1, <2>2, KillsKeep
<1>11. conns' \in Seq(Conn) /\ pendingStart' \in Seq(Script) /\ paused' \in {paused, None}
  BY <1>1 DEF SchedulerInv, SchedulerTypes
<1> QED BY <1>1, <1>10, <1>11, ThreadsKeep

(***************************************************************************)
(* stopScript: the script's threads that wait are killed, those that run    *)
(* are doomed, and none of its connections is called any more.             *)
(***************************************************************************)
LEMMA CallingFewer ==
    ASSUME SchedulerInv, NEW on, NEW cn,
           \A n \in Fires : \A c \in ToSet(stack[n].list) :
              c \in Conn /\ conn[c].script \in enabled => cn[c].script \in on
    PROVE  stack \in Seq(Calling(cn, on))
<1>1. stack \in Seq(Calling(conn, enabled)) /\ DOMAIN stack = 1..Len(stack) /\ Len(stack) \in Nat
  BY DEF SchedulerInv, Base
<1>2. ASSUME NEW n \in 1..Len(stack) PROVE stack[n] \in Calling(cn, on)
  <2>1. stack[n] \in Calling(conn, enabled)
    BY <1>1
  <2>2. stack[n] \in Frame /\ (stack[n].fn = "fire" =>
            \A c \in ToSet(stack[n].list) : conn[c].script \in enabled)
    BY <2>1 DEF Calling
  <2>3. stack[n].fn = "fire" => n \in Fires /\ stack[n].list \in Seq(Conn)
    BY <1>1, <2>2 DEF Fires, Frame
  <2>4. ASSUME stack[n].fn = "fire", NEW c \in ToSet(stack[n].list) PROVE cn[c].script \in on
    <3>1. c \in Conn
      BY <2>3, <2>4 DEF ToSet
    <3> QED BY <2>2, <2>3, <2>4, <3>1
  <2> QED BY <2>2, <2>4 DEF Calling
<1>3. PICK list : list = stack
  OBVIOUS
<1>4. list \in Seq(Calling(cn, on))
  BY <1>1, <1>2, <1>3
<1> QED BY <1>3, <1>4

LEMMA DisableKeeps ==
    ASSUME SchedulerInv, Sound(place), NEW t \in Thread, Runs(t), NEW s \in place.scripts, Disable(t, s),
           UNCHANGED place
    PROVE  SchedulerInv'
<1> DEFINE dead == {u \in Victims(s) : task[u].state # "Running"}
           on == enabled \ {s}
<1>1. /\ enabled' = on /\ pendingStart' = Without(pendingStart, {s})
      /\ \A u \in Victims(s) : ~InHand(u)
      /\ \A c \in Conn : conn[c].script = s => ~Pending(c)
      /\ task' = [u \in Thread |-> IF u \in dead THEN NoTask
                                   ELSE [task[u] EXCEPT !.doomed = @ \/ u \in Victims(s)]]
      /\ queue' = Unqueued(queue, dead)
      /\ paused' = IF paused \in dead THEN None ELSE paused
      /\ conn' = [c \in Conn |-> IF conn[c].script = s
                                 THEN [conn[c] EXCEPT !.connected = FALSE,
                                                      !.held = @ /\ ~conn[c].connected]
                                 ELSE conn[c]]
      /\ UNCHANGED <<place, conns, stack>>
  BY DEF Disable, Sound, Calls, Gentle, Quiet, Forgotten, Stopped, Unpaused
<1>2. /\ task \in Tasks /\ queue \in Queues /\ Distinct(queue) /\ Settled(task, queue, stack, paused, {})
      /\ Lasting(task, enabled) /\ conn \in Conns /\ Hooking(conn, enabled)
      /\ enabled \subseteq place.scripts /\ pendingStart \in Seq(Script) /\ conns \in Seq(Conn)
      /\ place \in Places /\ paused \in Thread \cup {None}
  BY DEF SchedulerInv, SchedulerTypes, Base
<1>3. /\ conn' \in Conns
      /\ \A c \in Conn : conn'[c].script = conn[c].script
      /\ \A c \in Conn : conn'[c].connected => conn[c].connected /\ conn[c].script # s
  BY <1>1, <1>2 DEF Conns
<1>4. Hooking(conn', on)
  BY <1>2, <1>3 DEF Hooking
<1>5. stack \in Seq(Calling(conn', on))
  <2>1. ASSUME NEW n \in Fires, NEW c \in ToSet(stack[n].list), c \in Conn, conn[c].script \in enabled
        PROVE  conn'[c].script \in on
    <3>1. Pending(c)
      BY <2>1 DEF Pending
    <3> QED BY <1>1, <1>3, <2>1, <3>1
  <2> HIDE DEF on
  <2> QED BY <2>1, CallingFewer
<1>6. ASSUME NEW u \in Thread
      PROVE  /\ u \in dead => task'[u] = NoTask
             /\ u \notin dead =>
                  /\ task'[u] \in [state : State, ctx : Script \cup {None}, args : BOOLEAN,
                                   doomed : BOOLEAN, wakeIn : Nat]
                  /\ task'[u].state = task[u].state /\ task'[u].args = task[u].args
                  /\ task'[u].wakeIn = task[u].wakeIn /\ task'[u].ctx = task[u].ctx
                  /\ task'[u].doomed <=> task[u].doomed \/ u \in Victims(s)
  <2>1. task[u] \in [state : State, ctx : Script \cup {None}, args : BOOLEAN, doomed : BOOLEAN, wakeIn : Nat]
    BY <1>2 DEF Tasks
  <2>2. CASE u \in dead
    BY <1>1, <2>2
  <2>3. CASE u \notin dead
    <3>1. task'[u] = [task[u] EXCEPT !.doomed = task[u].doomed \/ u \in Victims(s)]
      BY <1>1, <2>3
    <3> HIDE DEF dead
    <3> QED BY <2>1, <2>3, <3>1
  <2> QED BY <2>2, <2>3
<1>7. \A u \in Thread : /\ u \in Victims(s) <=> task[u].state # "None" /\ task[u].ctx = s
                        /\ u \in dead <=> u \in Victims(s) /\ task[u].state # "Running"
  BY DEF Victims, Live
<1>8. PICK who : who = dead
  OBVIOUS
<1>9. Cleared(queue, queue', who)
  BY <1>1, <1>2, <1>8, UnqueuedQueues
<1>10. paused' = IF paused \in who THEN None ELSE paused
  BY <1>1, <1>8
<1>11. \A u \in Thread \cap who : task[u].state # "Running" /\ ~InHand(u)
  BY <1>1, <1>8
<1>12. \A u \in Thread : u \in who <=> u \in Victims(s) /\ task[u].state # "Running"
  BY <1>7, <1>8
<1>13. ASSUME NEW u \in Thread
       PROVE  /\ u \in who => task'[u] = NoTask
              /\ u \notin who =>
                  /\ task'[u] \in [state : State, ctx : Script \cup {None}, args : BOOLEAN,
                                   doomed : BOOLEAN, wakeIn : Nat]
                  /\ Alike(u, task, task') /\ task'[u].ctx = task[u].ctx
                  /\ task'[u].doomed <=> task[u].doomed \/ u \in Victims(s)
  BY <1>6, <1>8 DEF Alike
<1>14. \A u \in Thread : task[u].doomed => task[u].state = "Running"
  BY <1>2 DEF Settled, Sits
<1>15. task' = [u \in Thread |-> task'[u]]
  BY <1>1
<1> HIDE DEF dead, on
<1>16. Killed(who, task, task', queue, queue')
  <2>1. NoTask \in [state : State, ctx : Script \cup {None}, args : BOOLEAN, doomed : BOOLEAN, wakeIn : Nat]
    BY DEF NoTask, State
  <2>2. \A u \in Thread : task'[u] \in [state : State, ctx : Script \cup {None}, args : BOOLEAN,
                                        doomed : BOOLEAN, wakeIn : Nat]
    BY <1>13, <2>1
  <2>3. task' \in Tasks
    BY <1>15, <2>2 DEF Tasks
  <2>4. \A u \in Thread \ who : Alike(u, task, task') /\ (task'[u].doomed => task[u].state = "Running")
    BY <1>12, <1>13, <1>14
  <2> QED BY <1>9, <1>13, <2>3, <2>4 DEF Killed
<1>17. Lasting(task', on)
  <2>1. NoTask.state = "None"
    BY DEF NoTask
  <2>2. ASSUME NEW u \in Thread, task'[u].state # "None" PROVE task'[u].doomed \/ task'[u].ctx \in on
    <3>1. u \notin who /\ task'[u].ctx = task[u].ctx /\ task[u].state # "None"
          /\ (task'[u].doomed <=> task[u].doomed \/ u \in Victims(s))
      BY <1>13, <2>1, <2>2 DEF Alike
    <3>2. task[u].doomed \/ task[u].ctx \in enabled
      BY <1>2, <3>1 DEF Lasting
    <3> QED BY <1>7, <3>1, <3>2 DEF on
  <2> QED BY <2>2 DEF Lasting
<1>18. Base(task', queue', stack', paused', on, conn', {}) /\ Flat(stack', paused', Calls)
  BY <1>1, <1>5, <1>10, <1>11, <1>16, <1>17, KillsKeep
<1>19. on \subseteq place.scripts /\ paused' \in Thread \cup {None}
  BY <1>2, <1>10 DEF on
<1>20. pendingStart' \in Seq(Script)
  BY <1>1, <1>2, WithoutSet
<1> QED BY <1>1, <1>2, <1>3, <1>4, <1>18, <1>19, <1>20 DEF SchedulerInv, SchedulerTypes, Calls

\* queueStart.
LEMMA EnableKeeps ==
    ASSUME SchedulerInv, NEW t \in Thread, NEW s \in place.scripts, Enable(t, s), UNCHANGED place
    PROVE  SchedulerInv'
<1>1. /\ enabled' = enabled \cup {s} /\ pendingStart' \in {pendingStart, Append(pendingStart, s)}
      /\ UNCHANGED <<place, task, queue, stack, conns, conn, paused>>
  BY DEF Enable, taskVars, signalVars
<1>2. /\ SchedulerTypes /\ Base(task, queue, stack, paused, enabled, conn, {}) /\ Hooking(conn, enabled)
      /\ Flat(stack, paused, Calls)
  BY DEF SchedulerInv
<1>3. s \in Script
  BY <1>2, PlacesAssumption DEF SchedulerTypes
<1>4. SchedulerTypes'
  BY <1>1, <1>2, <1>3 DEF SchedulerTypes
<1>5. stack \in Seq(Calling(conn, enabled'))
  BY <1>1, CallingFewer
<1>6. Lasting(task, enabled') /\ Hooking(conn, enabled')
  BY <1>1, <1>2 DEF Base, Lasting, Hooking
<1>7. Base(task, queue, stack, paused, enabled', conn, {})
  BY <1>2, <1>5, <1>6 DEF Base
<1> QED BY <1>1, <1>2, <1>4, <1>6, <1>7 DEF SchedulerInv, Calls

(***************************************************************************)
(* Connections: one is made again when no fire is left with it.            *)
(***************************************************************************)
LEMMA ConnectKeeps ==
    ASSUME SchedulerInv, Sound(place), NEW t \in Thread, Runs(t), NEW c \in Conn, NEW once \in BOOLEAN,
           Connect(t, c, once), UNCHANGED place
    PROVE  SchedulerInv'
<1>1. /\ ~Pending(c) /\ MayStart(t) /\ conns' = Append(conns, c)
      /\ conn' = [conn EXCEPT ![c] = [script |-> task[t].ctx, once |-> once,
                                      connected |-> TRUE, held |-> TRUE]]
      /\ UNCHANGED <<place, task, queue, stack, enabled, pendingStart, paused>>
  BY DEF Connect, InUse, taskVars, scriptVars
<1>2. /\ SchedulerTypes /\ Base(task, queue, stack, paused, enabled, conn, {}) /\ Hooking(conn, enabled)
      /\ Flat(stack, paused, Calls)
  BY DEF SchedulerInv
<1>3. task[t].ctx \in enabled /\ enabled \subseteq Script
  <2>1. task[t].state = "Running" /\ ~task[t].doomed
    BY <1>1, RunningTaken DEF MayStart, Sound, Calls
  <2>2. enabled \subseteq Script
    BY <1>2, PlacesAssumption DEF SchedulerTypes
  <2> QED BY <1>2, <2>1, <2>2 DEF Base, Lasting
<1>4. /\ conn' \in Conns /\ conn'[c].script = task[t].ctx
      /\ \A d \in Conn \ {c} : conn'[d] = conn[d]
  BY <1>1, <1>2, <1>3 DEF SchedulerTypes, Conns
<1>5. SchedulerTypes'
  BY <1>1, <1>2, <1>4 DEF SchedulerTypes
<1>6. Hooking(conn', enabled)
  BY <1>2, <1>3, <1>4 DEF Hooking
<1>7. stack \in Seq(Calling(conn', enabled))
  <2>1. \A n \in Fires : c \notin ToSet(stack[n].list)
    BY <1>1 DEF Pending
  <2>2. \A n \in Fires : \A d \in ToSet(stack[n].list) :
           d \in Conn /\ conn[d].script \in enabled => conn'[d].script \in enabled
    BY <1>4, <2>1
  <2> QED BY <2>2, CallingFewer
<1>8. Base(task, queue, stack, paused, enabled, conn', {})
  BY <1>2, <1>7 DEF Base
<1> QED BY <1>1, <1>2, <1>5, <1>6, <1>8 DEF SchedulerInv, Calls

LEMMA DisconnectKeeps ==
    ASSUME SchedulerInv, NEW t \in Thread, NEW c \in Conn, Disconnect(t, c), UNCHANGED place
    PROVE  SchedulerInv'
<1>1. /\ conn' = [conn EXCEPT ![c].connected = FALSE, ![c].held = @ /\ ~conn[c].connected]
      /\ conns' = Without(conns, {c})
      /\ UNCHANGED <<place, task, queue, stack, enabled, pendingStart, paused>>
  BY DEF Disconnect, taskVars, scriptVars
<1>2. conn \in Conns /\ conns \in Seq(Conn) /\ pendingStart \in Seq(Script)
  BY DEF SchedulerInv, SchedulerTypes
<1>3. /\ conn' \in Conns
      /\ \A d \in Conn : /\ conn'[d].script = conn[d].script
                         /\ conn'[d].connected => conn[d].connected
  BY <1>1, <1>2 DEF Conns
<1>4. conns' \in Seq(Conn)
  BY <1>1, <1>2, WithoutSet
<1>5. Base(task', queue', stack', paused', enabled, conn, {}) /\ Flat(stack', paused', Calls)
  BY <1>1 DEF SchedulerInv
<1> QED BY <1>1, <1>2, <1>3, <1>4, <1>5, SignalsKeep

-----------------------------------------------------------------------------
(***************************************************************************)
(* The invariant holds: a place starts with nobody anywhere, and every step *)
(* keeps it.                                                               *)
(***************************************************************************)
LEMMA InitKeeps == Init => SchedulerInv
<1> SUFFICES ASSUME Init PROVE SchedulerInv
  OBVIOUS
<1>1. /\ task = [t \in Thread |-> NoTask]
      /\ queue = [ready |-> <<>>, sleepers |-> <<>>, deferred |-> <<>>,
                  childWaiters |-> <<>>, waiters |-> <<>>]
      /\ conns = <<>> /\ conn = [c \in Conn |-> NoConn] /\ place \in Places
      /\ enabled = place.scripts /\ pendingStart = SetToSeq(place.scripts)
      /\ paused = None /\ stack = <<>>
  BY DEF Init
<1>2. SchedulerTypes
  <2>1. place.scripts \subseteq Script /\ IsFiniteSet(place.scripts)
    BY <1>1, PlacesAssumption
  <2>2. SetToSeq(place.scripts) \in Seq(place.scripts)
    BY <2>1, SetToSeqEntries
  <2>3. pendingStart \in Seq(Script)
    BY <1>1, <2>1, <2>2
  <2>4. conn \in Conns
    BY <1>1 DEF NoConn, Conns
  <2> QED BY <1>1, <2>3, <2>4 DEF SchedulerTypes
<1>3. task \in Tasks
  BY <1>1 DEF Tasks, NoTask, State
<1>4. queue \in Queues /\ \A n \in QueueName : queue[n] = <<>>
  <2>1. queue = [n \in QueueName |-> <<>>]
    BY <1>1 DEF QueueName
  <2> QED BY <2>1 DEF Queues
<1>5. Distinct(queue) /\ \A t : Queued(queue, t) = {}
  <2>1. DOMAIN queue = QueueName
    BY <1>4 DEF Queues
  <2>2. IsInjective(<<>>)
    BY DEF IsInjective
  <2> QED BY <1>4, <2>1, <2>2, EmptyList DEF Distinct, Queued
<1>6. \A t : Stacked(stack, t) = {}
  BY <1>1 DEF Stacked
<1>7. Settled(task, queue, stack, paused, {})
  <2>1. ASSUME NEW t \in Thread PROVE Sits(t, task, queue, stack, paused)
    <3>1. task[t].state = "None" /\ ~task[t].args /\ ~task[t].doomed
      BY <1>1 DEF NoTask
    <3>2. paused # t
      BY <1>1, SchedulerAssumption
    <3> QED BY <1>5, <1>6, <3>1, <3>2 DEF Sits, Nowhere, Unheld
  <2> QED BY <2>1 DEF Settled
<1>8. Lasting(task, enabled) /\ Hooking(conn, enabled)
  BY <1>1 DEF Lasting, Hooking, NoTask, NoConn
<1>9. stack \in Seq(Calling(conn, enabled)) /\ Flat(stack, paused, Calls)
  BY <1>1 DEF Flat
<1> QED BY <1>2, <1>3, <1>4, <1>5, <1>7, <1>8, <1>9 DEF SchedulerInv, Base

LEMMA EngineKeeps ==
    ASSUME SchedulerInv, EngineRuns, UNCHANGED place
    PROVE  SchedulerInv'
BY NextPassKeeps, StartNextKeeps, RunDeferredKeeps, RunReadyKeeps, CollectKeeps, WakeKeeps, CheckChildKeeps,
   FireConnKeeps, FireCalledKeeps, FireWaitersKeeps, WakeWaiterKeeps DEF EngineRuns

LEMMA ScriptKeeps ==
    ASSUME SchedulerInv, Sound(place), ScriptRuns, UNCHANGED place
    PROVE  SchedulerInv'
<1>1. PICK t \in Thread :
         /\ Runs(t)
         /\ \/ \/ \E n \in 0..MaxSleep : WaitFor(t, n)
               \/ WaitSignal(t) \/ WaitForChild(t) \/ HandOff(t)
            \/ Ends(t) \/ Busy(t) \/ Break(t)
            \/ \E u \in Callees : Spawn(t, u) \/ Defer(t, u)
            \/ \E u \in Callees : \E n \in 0..MaxSleep : Delay(t, u, n)
            \/ \E u \in Idle : Cancel(t, u)
            \/ \E s \in place.scripts : Disable(t, s) \/ Enable(t, s)
            \/ \E c \in Conn : \E once \in BOOLEAN : Connect(t, c, once)
            \/ \E c \in Conn : Disconnect(t, c)
            \/ Fire(t) \/ Reparent(t)
  BY DEF ScriptRuns
<1>2. CASE \/ \E n \in 0..MaxSleep : WaitFor(t, n)
           \/ WaitSignal(t) \/ WaitForChild(t) \/ HandOff(t)
  BY <1>1, <1>2, YieldsKeep
<1>3. CASE Ends(t) \/ Busy(t) \/ Break(t)
  BY <1>1, <1>3, EndsKeep, BusyKeeps, BreakKeeps
<1>4. CASE \E u \in Callees : Spawn(t, u) \/ Defer(t, u)
  BY <1>1, <1>4, SpawnKeeps, DeferKeeps
<1>5. CASE \E u \in Callees : \E n \in 0..MaxSleep : Delay(t, u, n)
  BY <1>1, <1>5, DelayKeeps
<1>6. CASE \E u \in Idle : Cancel(t, u)
  BY <1>1, <1>6, CancelKeeps
<1>7. CASE \E s \in place.scripts : Disable(t, s) \/ Enable(t, s)
  BY <1>1, <1>7, DisableKeeps, EnableKeeps
<1>8. CASE \E c \in Conn : \E once \in BOOLEAN : Connect(t, c, once)
  BY <1>1, <1>8, ConnectKeeps
<1>9. CASE \E c \in Conn : Disconnect(t, c)
  BY <1>9, DisconnectKeeps
<1>10. CASE Fire(t) \/ Reparent(t)
  BY <1>1, <1>10, CallKeeps
<1> QED BY <1>1, <1>2, <1>3, <1>4, <1>5, <1>6, <1>7, <1>8, <1>9, <1>10

LEMMA NextKeeps ==
    ASSUME SchedulerInv, Sound(place), [Next]_vars
    PROVE  SchedulerInv'
<1>1. CASE UNCHANGED vars
  BY <1>1 DEF vars, taskVars, signalVars, scriptVars, SchedulerInv, SchedulerTypes, Calls
<1>2. CASE Next
  BY <1>2, StepKeeps, EngineKeeps, HostEventKeeps, DebugContinueKeeps, ScriptKeeps DEF Next
<1> QED BY <1>1, <1>2

\* The inductive invariant of the scheduler: each thread is where its state says, with what it
\* carries, and what a stopped script leaves is on its way out.
THEOREM SchedulerHolds ==
    ASSUME \A p \in Places : Sound(p)
    PROVE  Spec => []SchedulerInv
<1>1. ASSUME SchedulerInv PROVE Sound(place)
  BY <1>1 DEF SchedulerInv, SchedulerTypes
<1>2. SchedulerInv /\ [Next]_vars => SchedulerInv'
  BY <1>1, NextKeeps
<1> QED BY <1>2, InitKeeps, PTL DEF Spec

-----------------------------------------------------------------------------
LEMMA OnePlaceFollows == SchedulerInv => OnePlace
<1> SUFFICES ASSUME SchedulerInv PROVE OnePlace
  OBVIOUS
<1>1. /\ Distinct(queue) /\ task \in Tasks /\ stack \in Seq(Frame)
      /\ \A t \in Thread : Sits(t, task, queue, stack, paused)
  BY CallingIsFrame DEF SchedulerInv, Base, Settled
<1>2. \A n \in DOMAIN stack : stack[n].fn \in {"wake", "waiters"} => IsInjective(stack[n].list)
  <2>1. ASSUME NEW n \in DOMAIN stack, stack[n].fn \in {"wake", "waiters"} PROVE IsInjective(stack[n].list)
    <3>1. stack[n] \in Frame
      BY <1>1
    <3>2. stack[n] \in [fn : {"wake", "waiters"}, list : Hand]
      BY <2>1, <3>1 DEF Frame
    <3> QED BY <3>2 DEF Hand
  <2> QED BY <2>1
<1>3. ASSUME NEW t \in Thread
      PROVE  CASE task[t].state = "None" -> TRUE
               [] task[t].state = "Running" -> Only(t, {}, {"task"})
               [] task[t].state = "Ready" -> Only(t, {"ready"}, {})
               [] task[t].state = "Sleeping" -> Only(t, {"sleepers"}, {"wake"})
               [] task[t].state = "Deferred" -> Only(t, {"deferred"}, {})
               [] task[t].state = "WaitSignal" -> Only(t, {"waiters"}, {"waiters"})
               [] task[t].state = "WaitChild" -> Only(t, {"childWaiters"}, {})
               [] task[t].state = "Parked" -> paused = t
  <2>1. InQueue(t) = Queued(queue, t) /\ OnStack(t) = Stacked(stack, t)
    BY DEF InQueue, OnStack, Queued, Stacked
  <2>2. ASSUME NEW n, OnlyIn(t, n, queue, stack), NEW fns PROVE Only(t, {n}, fns)
    BY <2>1, <2>2 DEF Only, OnlyIn, Unheld
  <2>3. ASSUME NEW fn, OnlyHeld(t, fn, queue, stack), NEW places PROVE Only(t, places, {fn})
    BY <2>1, <2>3 DEF Only, OnlyHeld, HeldIn
  <2>4. Sits(t, task, queue, stack, paused) /\ task[t].state \in State
    BY <1>1 DEF Tasks
  <2> QED BY <2>2, <2>3, <2>4 DEF Sits, State
<1> QED BY <1>1, <1>2, <1>3 DEF OnePlace, Distinct

\* OnePlace: no thread is lost or queued twice, whatever was refused, woken, stopped or
\* cancelled.
THEOREM EachThreadInOnePlace ==
    ASSUME \A p \in Places : Sound(p)
    PROVE  Spec => []OnePlace
BY SchedulerHolds, OnePlaceFollows, PTL

\* NoDangling: no queue, loop or debugger is left with a deleted task.
THEOREM NoTaskDangles ==
    ASSUME \A p \in Places : Sound(p)
    PROVE  Spec => []NoDangling
<1>1. SchedulerInv => NoDangling
  <2> SUFFICES ASSUME SchedulerInv, NEW t \in Thread, ~Live(t)
               PROVE  InQueue(t) = {} /\ OnStack(t) = {} /\ paused # t
    BY DEF NoDangling
  <2>1. Sits(t, task, queue, stack, paused) /\ task[t].state = "None"
    BY DEF SchedulerInv, Base, Settled, Live
  <2> QED BY <2>1 DEF Sits, Nowhere, Unheld, Queued, Stacked, InQueue, OnStack
<1> QED BY <1>1, SchedulerHolds, PTL

\* ArgsKept: a thread that was turned away is retried with what it was given.
THEOREM ArgumentsKept ==
    ASSUME \A p \in Places : Sound(p)
    PROVE  Spec => []ArgsKept
<1>1. SchedulerInv => ArgsKept
  <2> SUFFICES ASSUME SchedulerInv PROVE ArgsKept
    OBVIOUS
  <2>1. \A t \in Thread : Sits(t, task, queue, stack, paused)
    BY DEF SchedulerInv, Base, Settled
  <2> QED BY <2>1 DEF ArgsKept, Sits
<1> QED BY <1>1, SchedulerHolds, PTL

\* StoppedIsGone: a stopped script has no connection, and no thread but those that finish
\* their slice.
THEOREM StoppedScriptsAreGone ==
    ASSUME \A p \in Places : Sound(p)
    PROVE  Spec => []StoppedIsGone
<1>1. SchedulerInv => StoppedIsGone
  <2> SUFFICES ASSUME SchedulerInv PROVE StoppedIsGone
    OBVIOUS
  <2>1. /\ \A t \in Thread : Sits(t, task, queue, stack, paused)
        /\ Lasting(task, enabled) /\ Hooking(conn, enabled) /\ conn \in Conns
    BY DEF SchedulerInv, SchedulerTypes, Base, Settled
  <2>2. ASSUME NEW t \in Thread, task[t].doomed PROVE \E n \in OnStack(t) : stack[n].fn = "task"
    <3>1. OnlyHeld(t, "task", queue, stack)
      BY <2>1, <2>2 DEF Sits
    <3> QED BY <3>1 DEF OnlyHeld, HeldIn, Stacked, OnStack
  <2>3. ASSUME NEW s \in Script \ enabled
        PROVE  /\ \A t \in Victims(s) : task[t].doomed
               /\ \A c \in Conn : conn[c].script = s => ~conn[c].connected
    BY <2>1, <2>3 DEF Victims, Live, Lasting, Hooking
  <2> QED BY <2>2, <2>3 DEF StoppedIsGone
<1> QED BY <1>1, SchedulerHolds, PTL
=============================================================================

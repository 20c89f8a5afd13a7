--------------------------- MODULE RuntimeThread ----------------------------
(***************************************************************************)
(* RuntimeThread (luau/src/rbx_host.cpp): a Runtime driven one frame at a   *)
(* time on a thread of its own: a Play Solo world has a server's and a      *)
(* client's.                                                               *)
(*                                                                         *)
(* mu_ guards hasJob_, busy_ and quit_; cv_ is waited on by the worker for  *)
(* a job and by the host in waitIdle.  A critical section is one step, and  *)
(* what runs outside the lock (the frame itself, notify_all) is a step of   *)
(* its own.  In a frame the runtime takes news of the other side, runs the  *)
(* jobs the host queued, and reports.  Left out: threaded = false, which    *)
(* runs the frame inside submit, and the wake handler, which nothing sets.  *)
(***************************************************************************)
EXTENDS Naturals, SequencesExt

Side == {"server", "client"}

VARIABLES
    inbox,          \* in_
    outbox,         \* out_, what the next take() returns
    hasJob, busy, quit,
    worker,         \* where the thread is in loop()
    frame,          \* runFrame's local `in'
    waiter,         \* the host is blocked on cv_ in waitIdle
    delivered       \* history: news the runtime was given

threadVars == <<inbox, outbox, hasJob, busy, quit, worker, frame, waiter, delivered>>

NoInput == [jobs |-> <<>>, news |-> <<>>]

(***************************************************************************)
(* What a frame reports: the server, the changes its jobs made; the client, *)
(* the answers of its scripts to what it was told.                         *)
(***************************************************************************)
Produce(s, in) == IF s = "server" THEN in.jobs ELSE in.news

ThreadInit ==
    /\ inbox = [s \in Side |-> NoInput]
    /\ outbox = [s \in Side |-> <<>>]
    /\ hasJob = [s \in Side |-> FALSE]
    /\ busy = [s \in Side |-> FALSE]
    /\ quit = [s \in Side |-> FALSE]
    /\ worker = [s \in Side |-> "check"]
    /\ frame = [s \in Side |-> NoInput]
    /\ waiter = [s \in Side |-> FALSE]
    /\ delivered = [s \in Side |-> <<>>]

-----------------------------------------------------------------------------
(***************************************************************************)
(* The worker.                                                             *)
(***************************************************************************)
Quit(s) ==
    /\ worker[s] = "check" /\ quit[s]
    /\ worker' = [worker EXCEPT ![s] = "gone"]
    /\ UNCHANGED <<inbox, outbox, hasJob, busy, quit, frame, waiter, delivered>>

PickUp(s) ==
    /\ worker[s] = "check" /\ ~quit[s] /\ hasJob[s]
    /\ hasJob' = [hasJob EXCEPT ![s] = FALSE]
    /\ busy' = [busy EXCEPT ![s] = TRUE]
    /\ worker' = [worker EXCEPT ![s] = "start"]
    /\ UNCHANGED <<inbox, outbox, quit, frame, waiter, delivered>>

Sleep(s) ==
    /\ worker[s] = "check" /\ ~quit[s] /\ ~hasJob[s]
    /\ worker' = [worker EXCEPT ![s] = "asleep"]
    /\ UNCHANGED <<inbox, outbox, hasJob, busy, quit, frame, waiter, delivered>>

\* cv_.wait may return with nobody having notified.
SpuriousWake(s) ==
    /\ worker[s] = "asleep"
    /\ worker' = [worker EXCEPT ![s] = "check"]
    /\ UNCHANGED <<inbox, outbox, hasJob, busy, quit, frame, waiter, delivered>>

StartFrame(s) ==
    /\ worker[s] = "start"
    /\ frame' = [frame EXCEPT ![s] = inbox[s]]
    /\ inbox' = [inbox EXCEPT ![s] = NoInput]
    /\ worker' = [worker EXCEPT ![s] = "running"]
    /\ UNCHANGED <<outbox, hasJob, busy, quit, waiter, delivered>>

Publish(s) ==
    /\ worker[s] = "running"
    /\ delivered' = [delivered EXCEPT ![s] = @ \o frame[s].news]
    /\ outbox' = [outbox EXCEPT ![s] = Produce(s, frame[s])]
    /\ frame' = [frame EXCEPT ![s] = NoInput]
    /\ worker' = [worker EXCEPT ![s] = "finish"]
    /\ UNCHANGED <<inbox, hasJob, busy, quit, waiter>>

FinishFrame(s) ==
    /\ worker[s] = "finish"
    /\ busy' = [busy EXCEPT ![s] = FALSE]
    /\ worker' = [worker EXCEPT ![s] = "notify"]
    /\ UNCHANGED <<inbox, outbox, hasJob, quit, frame, waiter, delivered>>

\* Mutant of NotifyIdle: nobody is told.
NotifyNobody(s) ==
    /\ worker[s] = "notify"
    /\ worker' = [worker EXCEPT ![s] = "check"]
    /\ UNCHANGED <<inbox, outbox, hasJob, busy, quit, frame, delivered, waiter>>

NotifyIdle(s) ==
    /\ worker[s] = "notify"
    /\ worker' = [worker EXCEPT ![s] = "check"]
    /\ waiter' = [waiter EXCEPT ![s] = FALSE]
    /\ UNCHANGED <<inbox, outbox, hasJob, busy, quit, frame, delivered>>

WorkerStep(s) ==
    \/ Quit(s) \/ PickUp(s) \/ Sleep(s) \/ StartFrame(s)
    \/ Publish(s) \/ FinishFrame(s) \/ NotifyIdle(s)

-----------------------------------------------------------------------------
(***************************************************************************)
(* What the host calls.                                                    *)
(***************************************************************************)
Idle(s) == ~hasJob[s] /\ ~busy[s]

Submit(s, in) ==
    /\ inbox' = [inbox EXCEPT ![s] = in]
    /\ hasJob' = [hasJob EXCEPT ![s] = TRUE]
    /\ UNCHANGED <<outbox, busy, quit, worker, frame, waiter, delivered>>

\* Mutant of NotifyWorker: submit forgets notify_all.
NotifyWorkerNever(s) == UNCHANGED threadVars

NotifyWorker(s) ==
    /\ worker' = [worker EXCEPT ![s] = IF @ = "asleep" THEN "check" ELSE @]
    /\ UNCHANGED <<inbox, outbox, hasJob, busy, quit, frame, waiter, delivered>>

Take(s) ==
    /\ outbox' = [outbox EXCEPT ![s] = <<>>]
    /\ UNCHANGED <<inbox, hasJob, busy, quit, worker, frame, waiter, delivered>>

Block(s) ==
    /\ ~Idle(s)
    /\ waiter' = [waiter EXCEPT ![s] = TRUE]
    /\ UNCHANGED <<inbox, outbox, hasJob, busy, quit, worker, frame, delivered>>

AskToQuit(s) ==
    /\ quit' = [quit EXCEPT ![s] = TRUE]
    /\ UNCHANGED <<inbox, outbox, hasJob, busy, worker, frame, waiter, delivered>>

Joined(s) == worker[s] = "gone"
=============================================================================

----------------------------- MODULE FrameLoop ------------------------------
(***************************************************************************)
(* The host side of a Play Solo world (luau/gdextension/src/                *)
(* pulseblockz_world.cpp): a server runtime and a client runtime, each on   *)
(* its RuntimeThread, and the main thread that feeds both.  _process, on    *)
(* every render frame, returns at once while a frame is running; otherwise  *)
(* it applies what the frame reported and submits the next.  flush is the   *)
(* same, blocking: Studio's single step while paused.                      *)
(*                                                                         *)
(* Followed all the way round: a job the host queues for the server makes   *)
(* one change, which is replicated to the client, whose scripts answer it   *)
(* with one message back to the server.                                    *)
(***************************************************************************)
EXTENDS RuntimeThread

CONSTANT MaxJobs    \* bound: jobs the host queues

ASSUME MaxJobsAssumption == MaxJobs \in Nat

VARIABLES
    posted,             \* how many jobs were queued: 1, 2, ... in that order
    jobs,               \* jobs_
    toClientRep,        \* toClientRep_
    toServerRemotes,    \* toServerRemotes_
    sending,            \* submit_frames' locals sin and cin
    inFlight,           \* inFlight_
    autoStep,           \* autoStep_: FALSE while Studio has it paused
    host, side,         \* where the main thread is, and with which runtime
    task                \* what it is doing: "process", "step", "settle" or "close"

hostVars == <<posted, jobs, toClientRep, toServerRemotes, sending, inFlight, autoStep, host, side, task>>
vars == <<threadVars, hostVars>>

Init ==
    /\ ThreadInit
    /\ posted = 0
    /\ jobs = <<>> /\ toClientRep = <<>> /\ toServerRemotes = <<>>
    /\ sending = [s \in Side |-> NoInput]
    /\ inFlight = FALSE
    /\ autoStep = TRUE
    /\ host = "rest" /\ side = "server" /\ task = "process"

-----------------------------------------------------------------------------
(***************************************************************************)
(* What calls into the world, on the main thread: the engine's render loop, *)
(* scripts of the host (also from the frame_finished signal), Studio.      *)
(***************************************************************************)
QueueJob ==
    /\ host \in {"rest", "fill"}
    /\ posted < MaxJobs
    /\ posted' = posted + 1
    /\ jobs' = Append(jobs, posted + 1)
    /\ UNCHANGED <<threadVars, toClientRep, toServerRemotes, sending, inFlight, autoStep, host, side, task>>

Pause ==
    /\ host = "rest"
    /\ autoStep' = ~autoStep
    /\ UNCHANGED <<threadVars, posted, jobs, toClientRep, toServerRemotes, sending, inFlight, host, side, task>>

At(h, s) == host = h /\ side = s

Go(h, s) ==
    /\ host' = h /\ side' = s
    /\ UNCHANGED <<posted, jobs, toClientRep, toServerRemotes, sending, inFlight, autoStep, task>>

Begin(t, h, s) ==
    /\ host = "rest"
    /\ host' = h /\ side' = s /\ task' = t
    /\ UNCHANGED <<threadVars, posted, jobs, toClientRep, toServerRemotes, sending, inFlight, autoStep>>

Process == Begin("process", "poll", "server")
Flush   == Begin("step", "await", "server")
Close   == Begin("close", "await", "client")

-----------------------------------------------------------------------------
(***************************************************************************)
(* _process: is_idle() takes one lock after the other.                     *)
(***************************************************************************)
PollServer ==
    /\ At("poll", "server")
    /\ IF Idle("server") THEN Go("poll", "client") ELSE Go("rest", "server")
    /\ UNCHANGED threadVars

\* Mutant of PollClient: only the server is asked.
PollServerOnly ==
    /\ At("poll", "client")
    /\ IF inFlight THEN Go("apply", "server") ELSE Go("fill", "server")
    /\ UNCHANGED threadVars

PollClient ==
    /\ At("poll", "client")
    /\ IF ~Idle("client") THEN Go("rest", "server")
       ELSE IF inFlight THEN Go("apply", "server")
       ELSE Go("fill", "server")
    /\ UNCHANGED threadVars

(***************************************************************************)
(* waitIdle, in flush and in the destructor.                               *)
(***************************************************************************)
Wait(s) ==
    /\ At("await", s) /\ ~waiter[s]
    /\ Block(s)
    /\ UNCHANGED hostVars

AwaitServer ==
    /\ At("await", "server") /\ ~waiter["server"]
    /\ Idle("server")
    /\ IF task = "close" THEN Go("quit", "server") ELSE Go("await", "client")
    /\ UNCHANGED threadVars

AwaitClient ==
    /\ At("await", "client") /\ ~waiter["client"]
    /\ Idle("client")
    /\ IF task = "close" THEN Go("quit", "client")
       ELSE IF inFlight THEN Go("apply", "server")
       ELSE Go("fill", "server")
    /\ UNCHANGED threadVars

(***************************************************************************)
(* take() and apply_server / apply_client.                                 *)
(***************************************************************************)
ApplyServer ==
    /\ At("apply", "server")
    /\ Take("server")
    /\ toClientRep' = toClientRep \o outbox["server"]
    /\ side' = "client"
    /\ UNCHANGED <<posted, jobs, toServerRemotes, sending, inFlight, autoStep, host, task>>

ApplyClient ==
    /\ At("apply", "client")
    /\ Take("client")
    /\ toServerRemotes' = toServerRemotes \o outbox["client"]
    /\ inFlight' = FALSE
    /\ host' = IF task = "settle" THEN "rest" ELSE "fill"
    /\ side' = "server"
    /\ UNCHANGED <<posted, jobs, toClientRep, sending, autoStep, task>>

(***************************************************************************)
(* submit_frames: both inputs are put together, then handed over.          *)
(***************************************************************************)
NothingToStep ==
    /\ host = "fill" /\ task = "process"
    /\ ~autoStep /\ jobs = <<>>
    /\ Go("rest", "server")
    /\ UNCHANGED threadVars

\* Mutant of SubmitFrames: toServerRemotes_ is not cleared.
SubmitFramesKeeping ==
    /\ host = "fill"
    /\ task = "process" => autoStep \/ jobs # <<>>
    /\ sending' = [s \in Side |->
                     IF s = "server" THEN [jobs |-> jobs, news |-> toServerRemotes]
                                     ELSE [jobs |-> <<>>, news |-> toClientRep]]
    /\ jobs' = <<>> /\ toClientRep' = <<>>
    /\ host' = "submit" /\ side' = "server"
    /\ UNCHANGED <<threadVars, posted, toServerRemotes, inFlight, autoStep, task>>

SubmitFrames ==
    /\ host = "fill"
    /\ task = "process" => autoStep \/ jobs # <<>>
    /\ sending' = [s \in Side |->
                     IF s = "server" THEN [jobs |-> jobs, news |-> toServerRemotes]
                                     ELSE [jobs |-> <<>>, news |-> toClientRep]]
    /\ jobs' = <<>> /\ toClientRep' = <<>> /\ toServerRemotes' = <<>>
    /\ host' = "submit" /\ side' = "server"
    /\ UNCHANGED <<threadVars, posted, inFlight, autoStep, task>>

HandOver(s) ==
    /\ At("submit", s)
    /\ Submit(s, sending[s])
    /\ sending' = [sending EXCEPT ![s] = NoInput]
    /\ host' = "notify"
    /\ UNCHANGED <<posted, jobs, toClientRep, toServerRemotes, inFlight, autoStep, side, task>>

NotifyServer ==
    /\ At("notify", "server")
    /\ NotifyWorker("server")
    /\ Go("submit", "client")

NotifyClient ==
    /\ At("notify", "client")
    /\ NotifyWorker("client")
    /\ inFlight' = TRUE
    /\ side' = "server"
    /\ host' = IF task = "step" THEN "await" ELSE "rest"
    /\ task' = IF task = "step" THEN "settle" ELSE task
    /\ UNCHANGED <<posted, jobs, toClientRep, toServerRemotes, sending, autoStep>>

(***************************************************************************)
(* The world's destructor: the client's thread first, then the server's.   *)
(***************************************************************************)
QuitThread(s) ==
    /\ At("quit", s)
    /\ AskToQuit(s)
    /\ Go("quitting", s)

NotifyQuit(s) ==
    /\ At("quitting", s)
    /\ NotifyWorker(s)
    /\ Go("join", s)

JoinThread(s) ==
    /\ At("join", s)
    /\ Joined(s)
    /\ IF s = "client" THEN Go("await", "server") ELSE Go("closed", "server")
    /\ UNCHANGED threadVars

HostStep ==
    \/ PollServer \/ PollClient \/ AwaitServer \/ AwaitClient
    \/ ApplyServer \/ ApplyClient \/ NothingToStep \/ SubmitFrames
    \/ NotifyServer \/ NotifyClient
    \/ \E s \in Side :
          Wait(s) \/ HandOver(s) \/ QuitThread(s) \/ NotifyQuit(s) \/ JoinThread(s)

Next ==
    \/ QueueJob \/ Pause \/ Process \/ Flush \/ Close
    \/ HostStep
    \/ \E s \in Side : (WorkerStep(s) \/ SpuriousWake(s)) /\ UNCHANGED hostVars

(***************************************************************************)
(* The operating system runs every thread, and the engine calls _process on *)
(* every render frame.                                                     *)
(***************************************************************************)
Fairness ==
    /\ WF_vars(Process)
    /\ WF_vars(HostStep)
    /\ \A s \in Side : WF_vars(WorkerStep(s) /\ UNCHANGED hostVars)

Spec == Init /\ [][Next]_vars
FairSpec == Spec /\ Fairness

-----------------------------------------------------------------------------
(***************************************************************************)
(* Every variable holds a value of its type; busy_ is up exactly while the  *)
(* worker is in a frame, and the host blocks where it waits and only there. *)
(***************************************************************************)
Input == [jobs : Seq(Nat), news : Seq(Nat)]

TypeOK ==
    /\ inbox \in [Side -> Input]
    /\ outbox \in [Side -> Seq(Nat)]
    /\ hasJob \in [Side -> BOOLEAN]
    /\ busy \in [Side -> BOOLEAN]
    /\ quit \in [Side -> BOOLEAN]
    /\ worker \in [Side -> {"check", "asleep", "start", "running", "finish", "notify", "gone"}]
    /\ frame \in [Side -> Input]
    /\ waiter \in [Side -> BOOLEAN]
    /\ delivered \in [Side -> Seq(Nat)]
    /\ posted \in Nat
    /\ jobs \in Seq(Nat) /\ toClientRep \in Seq(Nat) /\ toServerRemotes \in Seq(Nat)
    /\ sending \in [Side -> Input]
    /\ inFlight \in BOOLEAN /\ autoStep \in BOOLEAN
    /\ host \in {"rest", "poll", "await", "apply", "fill", "submit", "notify",
                 "quit", "quitting", "join", "closed"}
    /\ side \in Side
    /\ task \in {"process", "step", "settle", "close"}
    /\ \A s \in Side :
          /\ busy[s] <=> worker[s] \in {"start", "running", "finish"}
          /\ waiter[s] => At("await", s)

(***************************************************************************)
(* "For the length of a frame in_, logs_ and the ask queues belong to this  *)
(* function -- submit() and the locked tail are the only other writers -- so *)
(* the moves below take no lock" (rbx_host.cpp): the host is never about to *)
(* submit, nor to take what a frame reported, while the frame runs, and     *)
(* submitting overwrites neither an input nor an output that is not used    *)
(* yet.                                                                    *)
(***************************************************************************)
FrameOwnsItsInput ==
    /\ \A s \in Side :
          /\ At("submit", s) => Idle(s) /\ inbox[s] = NoInput /\ outbox[s] = <<>>
          /\ At("apply", s) => Idle(s)
    /\ host = "closed" => \A s \in Side : worker[s] = "gone"

(***************************************************************************)
(* Nothing is lost, doubled or overtaken on the way round: what the client  *)
(* has been given, followed by what is on its way in every hand it passes   *)
(* through, is every job in the order the host queued it, and likewise for  *)
(* the answers on their way back.                                          *)
(***************************************************************************)
OnTheWayToClient ==
    delivered["client"] \o frame["client"].news \o inbox["client"].news
        \o sending["client"].news \o toClientRep
        \o outbox["server"] \o frame["server"].jobs \o inbox["server"].jobs
        \o sending["server"].jobs \o jobs

OnTheWayToServer ==
    delivered["server"] \o frame["server"].news \o inbox["server"].news
        \o sending["server"].news \o toServerRemotes \o outbox["client"]

NothingLost ==
    /\ OnTheWayToClient = [n \in 1..posted |-> n]
    /\ OnTheWayToServer = delivered["client"]

(***************************************************************************)
(* As long as the world is not paused or closed for good, every job the     *)
(* host queued comes back as an answer.                                    *)
(***************************************************************************)
EveryJobComesBack ==
    \A n \in 1..MaxJobs :
        posted >= n ~> \/ Len(delivered["server"]) >= n
                       \/ ~autoStep
                       \/ task = "close"

(***************************************************************************)
(* The destructor waits for both workers and returns, whatever they were    *)
(* doing; and flush, which blocks, returns too.                            *)
(***************************************************************************)
HostComesBack == host # "rest" ~> host \in {"rest", "closed"}
=============================================================================

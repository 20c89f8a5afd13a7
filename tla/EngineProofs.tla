---------------------------- MODULE EngineProofs ----------------------------
(***************************************************************************)
(* Proofs about the engine's host side and its replicator.                  *)
(*                                                                         *)
(* FrameLoop, for any number of jobs: type correctness, that the host never *)
(* touches a running frame's input or report, and that nothing is lost on   *)
(* the way round.                                                          *)
(*                                                                         *)
(* Replicator, for any tree and any script: that the ids the filter keeps   *)
(* as known are, at the end of each frame, what is visible.                 *)
(***************************************************************************)
EXTENDS FrameLoop, Replication, DataProofs, SequenceTheorems

(***************************************************************************)
(* Where a runtime's input and report can be.  An input is in inbox from    *)
(* submit until the worker starts, and in the worker's hands while it runs; *)
(* a report lies in outbox from publish until the host takes it.           *)
(***************************************************************************)
HandsOver(s) ==
    /\ hasJob[s] => ~busy[s]
    /\ inbox[s] # NoInput => hasJob[s] \/ worker[s] = "start"
    /\ frame[s] # NoInput => worker[s] = "running"
    /\ outbox[s] # <<>> => ~hasJob[s] /\ worker[s] \notin {"start", "running"}

Empty(s) == Idle(s) /\ inbox[s] = NoInput /\ outbox[s] = <<>>

(***************************************************************************)
(* What the main thread knows at each point of _process, flush and the      *)
(* destructor.                                                             *)
(***************************************************************************)
HostKnows ==
    /\ host \in {"rest", "poll", "await", "quit", "quitting", "join"} /\ ~inFlight =>
          Empty("server") /\ Empty("client")
    /\ host = "fill" => ~inFlight /\ Empty("server") /\ Empty("client")
    /\ At("submit", "server") => Empty("server") /\ Empty("client")
    /\ At("submit", "client") => Empty("client")
    /\ At("notify", "server") => Empty("client")
    /\ At("poll", "client") => Idle("server")
    /\ At("await", "client") /\ task # "close" => Idle("server")
    /\ host = "apply" => Idle("server") /\ Idle("client") /\ inFlight
    /\ At("apply", "client") => outbox["server"] = <<>>
    /\ sending["server"] # NoInput => At("submit", "server")
    /\ sending["client"] # NoInput =>
          host \in {"submit", "notify"} /\ ~At("notify", "client")

(***************************************************************************)
(* The destructor reaches the server's thread after the client's is gone.  *)
(***************************************************************************)
Closing ==
    /\ host \in {"quit", "quitting", "join"} => task = "close"
    /\ task = "close" /\ (host = "closed" \/ (side = "server" /\ host \in {"await", "quit", "quitting", "join"}))
          => worker["client"] = "gone"
    /\ host = "closed" => worker["server"] = "gone" /\ task = "close"
    /\ host \in {"apply", "fill", "submit", "notify", "poll"} => task # "close"

Inv == TypeOK /\ (\A s \in Side : HandsOver(s)) /\ HostKnows /\ Closing /\ NothingLost

-----------------------------------------------------------------------------
(***************************************************************************)
(* A step of the system, action by action.                                 *)
(***************************************************************************)
LEMMA Steps ==
    ASSUME Next
    PROVE  \/ QueueJob \/ Pause \/ Process \/ Flush \/ Close
           \/ PollServer \/ PollClient \/ AwaitServer \/ AwaitClient
           \/ ApplyServer \/ ApplyClient \/ NothingToStep \/ SubmitFrames
           \/ NotifyServer \/ NotifyClient
           \/ \E s \in Side :
                 \/ Wait(s) \/ HandOver(s) \/ QuitThread(s) \/ NotifyQuit(s) \/ JoinThread(s)
                 \/ /\ UNCHANGED hostVars
                    /\ \/ Quit(s) \/ PickUp(s) \/ Sleep(s) \/ StartFrame(s)
                       \/ Publish(s) \/ FinishFrame(s) \/ NotifyIdle(s) \/ SpuriousWake(s)
BY DEF Next, HostStep, WorkerStep

LEMMA TypeStep ==
    ASSUME TypeOK, Next
    PROVE  TypeOK'
<1>0. NoInput \in Input
  BY DEF NoInput, Input
<1> USE DEF TypeOK, Side, At
<1>1. CASE QueueJob
  BY <1>1 DEF QueueJob, threadVars, hostVars
<1>2. CASE Pause
  BY <1>2 DEF Pause, threadVars, hostVars
<1>3. CASE Process
  BY <1>3 DEF Process, Begin, threadVars, hostVars
<1>4. CASE Flush
  BY <1>4 DEF Flush, Begin, threadVars, hostVars
<1>5. CASE Close
  BY <1>5 DEF Close, Begin, threadVars, hostVars
<1>6. CASE PollServer
  BY <1>6 DEF PollServer, Go, threadVars, hostVars
<1>7. CASE PollClient
  BY <1>7 DEF PollClient, Go, threadVars, hostVars
<1>8. CASE AwaitServer
  BY <1>8 DEF AwaitServer, Go, threadVars, hostVars
<1>9. CASE AwaitClient
  BY <1>9 DEF AwaitClient, Go, threadVars, hostVars
<1>10. CASE ApplyServer
  BY <1>10 DEF ApplyServer, Take, threadVars, hostVars
<1>11. CASE ApplyClient
  <2>1. toServerRemotes \o outbox["client"] \in Seq(Nat)
    OBVIOUS
  <2>2. inbox' = inbox /\ hasJob' = hasJob /\ busy' = busy /\ quit' = quit /\ worker' = worker
        /\ frame' = frame /\ waiter' = waiter /\ delivered' = delivered
        /\ outbox' \in [Side -> Seq(Nat)]
    BY <1>11 DEF ApplyClient, Take
  <2> QED
    BY <1>11, <2>1, <2>2 DEF ApplyClient
<1>12. CASE NothingToStep
  BY <1>12 DEF NothingToStep, Go, threadVars, hostVars
<1>13. CASE SubmitFrames
  BY <1>13 DEF SubmitFrames, Input, threadVars, hostVars
<1>14. CASE NotifyServer
  BY <1>14 DEF NotifyServer, Go, NotifyWorker, threadVars, hostVars
<1>15. CASE NotifyClient
  BY <1>15 DEF NotifyClient, NotifyWorker, threadVars, hostVars
<1>16. ASSUME NEW s \in Side,
           Wait(s) \/ HandOver(s) \/ QuitThread(s) \/ NotifyQuit(s) \/ JoinThread(s)
      PROVE  TypeOK'
  <2>1. CASE Wait(s)
    BY <2>1, <1>16 DEF Wait, Block, threadVars, hostVars
  <2>2. CASE HandOver(s)
    BY <2>2, <1>16, <1>0 DEF HandOver, Submit, threadVars, hostVars
  <2>3. CASE QuitThread(s)
    BY <2>3, <1>16 DEF QuitThread, Go, AskToQuit, threadVars, hostVars
  <2>4. CASE NotifyQuit(s)
    BY <2>4, <1>16 DEF NotifyQuit, Go, NotifyWorker, threadVars, hostVars
  <2>5. CASE JoinThread(s)
    BY <2>5, <1>16 DEF JoinThread, Go, Joined, threadVars, hostVars
  <2> QED
    BY <1>16, <2>1, <2>2, <2>3, <2>4, <2>5
<1>17. ASSUME NEW s \in Side, UNCHANGED hostVars,
           \/ Quit(s) \/ PickUp(s) \/ Sleep(s) \/ StartFrame(s)
           \/ Publish(s) \/ FinishFrame(s) \/ NotifyIdle(s) \/ SpuriousWake(s)
      PROVE  TypeOK'
  <2>1. CASE Quit(s)
    BY <2>1, <1>17 DEF Quit, hostVars
  <2>2. CASE PickUp(s)
    BY <2>2, <1>17 DEF PickUp, hostVars
  <2>3. CASE Sleep(s)
    BY <2>3, <1>17 DEF Sleep, hostVars
  <2>4. CASE StartFrame(s)
    <3>1. inbox' \in [Side -> Input] /\ frame' \in [Side -> Input]
      BY <2>4, <1>0 DEF StartFrame
    <3>2. /\ worker' \in [Side -> {"check", "asleep", "start", "running", "finish", "notify", "gone"}]
          /\ \A r \in Side : busy[r] <=> worker'[r] \in {"start", "running", "finish"}
      BY <2>4 DEF StartFrame
    <3> QED
      BY <2>4, <1>17, <3>1, <3>2 DEF StartFrame, hostVars
  <2>5. CASE Publish(s)
    <3>1. /\ delivered[s] \o frame[s].news \in Seq(Nat)
          /\ Produce(s, frame[s]) \in Seq(Nat)
      <4>1. /\ delivered[s] \in Seq(Nat)
            /\ frame[s].news \in Seq(Nat) /\ frame[s].jobs \in Seq(Nat)
        BY DEF Input
      <4>2. delivered[s] \o frame[s].news \in Seq(Nat)
        BY <4>1, ConcatProperties
      <4> QED BY <4>1, <4>2 DEF Produce
    <3>2. delivered' \in [Side -> Seq(Nat)] /\ outbox' \in [Side -> Seq(Nat)] /\ frame' \in [Side -> Input]
      <4>1. delivered' \in [Side -> Seq(Nat)] /\ outbox' \in [Side -> Seq(Nat)]
        BY <2>5, <3>1 DEF Publish
      <4>2. frame' \in [Side -> Input]
        BY <2>5, <1>0 DEF Publish
      <4> QED BY <4>1, <4>2
    <3>3. /\ worker' \in [Side -> {"check", "asleep", "start", "running", "finish", "notify", "gone"}]
          /\ \A r \in Side : busy[r] <=> worker'[r] \in {"start", "running", "finish"}
      BY <2>5 DEF Publish
    <3> QED
      BY <2>5, <1>17, <3>2, <3>3 DEF Publish, hostVars
  <2>6. CASE FinishFrame(s)
    BY <2>6, <1>17 DEF FinishFrame, hostVars
  <2>7. CASE NotifyIdle(s)
    BY <2>7, <1>17 DEF NotifyIdle, hostVars
  <2>8. CASE SpuriousWake(s)
    BY <2>8, <1>17 DEF SpuriousWake, hostVars
  <2> QED
    BY <1>17, <2>1, <2>2, <2>3, <2>4, <2>5, <2>6, <2>7, <2>8
<1> QED
  BY Steps, <1>1, <1>2, <1>3, <1>4, <1>5, <1>6, <1>7, <1>8, <1>9, <1>10, <1>11, <1>12, <1>13, <1>14, <1>15, <1>16, <1>17

-----------------------------------------------------------------------------
LEMMA HandsOverStep ==
    ASSUME Inv, Next, NEW r \in Side
    PROVE  HandsOver(r)'
<1> USE DEF Inv, TypeOK, HandsOver, Side, At
<1>1. CASE UNCHANGED threadVars
  BY <1>1 DEF threadVars
<1>2. CASE ApplyServer \/ ApplyClient
  BY <1>2 DEF ApplyServer, ApplyClient, Take
<1>3. CASE NotifyServer \/ NotifyClient
  BY <1>3 DEF NotifyServer, NotifyClient, NotifyWorker
<1>4. ASSUME NEW s \in Side, Wait(s) \/ QuitThread(s) \/ NotifyQuit(s)
      PROVE  HandsOver(r)'
  BY <1>4 DEF Wait, Block, QuitThread, AskToQuit, NotifyQuit, NotifyWorker
<1>5. ASSUME NEW s \in Side, HandOver(s)
      PROVE  HandsOver(r)'
  <2>1. Empty(s)
    BY <1>5 DEF HandOver, HostKnows
  <2> QED
    BY <1>5, <2>1 DEF HandOver, Submit, Empty, Idle
<1>6. ASSUME NEW s \in Side,
             \/ Quit(s) \/ PickUp(s) \/ Sleep(s) \/ FinishFrame(s)
             \/ NotifyIdle(s) \/ SpuriousWake(s)
      PROVE  HandsOver(r)'
  <2>1. CASE PickUp(s)
    BY <2>1 DEF PickUp
  <2>2. CASE FinishFrame(s)
    BY <2>2 DEF FinishFrame
  <2> QED
    BY <1>6, <2>1, <2>2 DEF Quit, Sleep, NotifyIdle, SpuriousWake
<1>7. ASSUME NEW s \in Side, StartFrame(s)
      PROVE  HandsOver(r)'
  BY <1>7 DEF StartFrame
<1>8. ASSUME NEW s \in Side, Publish(s)
      PROVE  HandsOver(r)'
  BY <1>8 DEF Publish
<1>9. ASSUME \/ QueueJob \/ Pause \/ Process \/ Flush \/ Close
             \/ PollServer \/ PollClient \/ AwaitServer \/ AwaitClient
             \/ NothingToStep \/ SubmitFrames
             \/ \E s \in Side : JoinThread(s)
      PROVE  UNCHANGED threadVars
  BY <1>9 DEF QueueJob, Pause, Process, Flush, Close, Begin, PollServer, PollClient,
              AwaitServer, AwaitClient, NothingToStep, SubmitFrames, JoinThread
<1> QED
  BY Steps, <1>1, <1>2, <1>3, <1>4, <1>5, <1>6, <1>7, <1>8, <1>9

(***************************************************************************)
(* Workers only ever make a runtime idle, and leave an idle one alone.     *)
(***************************************************************************)
LEMMA IdleStays ==
    ASSUME Inv, NEW s \in Side, NEW r \in Side,
           WorkerStep(s) \/ SpuriousWake(s)
    PROVE  (Idle(r) => Idle(r)') /\ (Empty(r) => Empty(r)')
                /\ (Idle(r) /\ outbox[r] = <<>> => outbox'[r] = <<>>)
<1> USE DEF Inv, TypeOK, HandsOver, Side, Idle, Empty
<1>1. CASE PickUp(s) \/ FinishFrame(s) \/ Quit(s) \/ Sleep(s)
  BY <1>1 DEF PickUp, FinishFrame, Quit, Sleep
<1>2. CASE StartFrame(s)
  BY <1>2 DEF StartFrame
<1>3. CASE Publish(s)
  BY <1>3 DEF Publish
<1>4. CASE NotifyIdle(s) \/ SpuriousWake(s)
  BY <1>4 DEF NotifyIdle, SpuriousWake
<1> QED
  BY <1>1, <1>2, <1>3, <1>4 DEF WorkerStep

LEMMA IdleIsEmpty ==
    ASSUME Inv, NEW s \in Side, Idle(s), outbox[s] = <<>>
    PROVE  Empty(s)
BY DEF Inv, TypeOK, HandsOver, Idle, Empty, Side

LEMMA UnchangedKnows ==
    ASSUME UNCHANGED threadVars
    PROVE  \A s \in Side : (Idle(s)' <=> Idle(s)) /\ (Empty(s)' <=> Empty(s)) /\ outbox' = outbox
BY DEF threadVars, Idle, Empty

LEMMA HostKnowsStep ==
    ASSUME Inv, Next
    PROVE  HostKnows'
<1> USE DEF Inv, HostKnows, Side, At, TypeOK
<1>1. CASE QueueJob
  BY <1>1, UnchangedKnows DEF QueueJob, threadVars
<1>2. CASE Pause
  BY <1>2, UnchangedKnows DEF Pause, threadVars
<1>3. CASE Process
  BY <1>3, UnchangedKnows DEF Process, Begin, threadVars
<1>4. CASE Flush
  BY <1>4, UnchangedKnows DEF Flush, Begin, threadVars
<1>5. CASE Close
  BY <1>5, UnchangedKnows DEF Close, Begin, threadVars
<1>6. CASE PollServer
  BY <1>6, UnchangedKnows DEF PollServer, Go, threadVars
<1>7. CASE PollClient
  BY <1>7, UnchangedKnows DEF PollClient, Go, threadVars
<1>8. CASE AwaitServer
  BY <1>8, UnchangedKnows DEF AwaitServer, Go, threadVars
<1>9. CASE AwaitClient
  BY <1>9, UnchangedKnows DEF AwaitClient, Go, threadVars
<1>10. CASE NothingToStep
  BY <1>10, UnchangedKnows DEF NothingToStep, Go, threadVars
<1>11. CASE ApplyServer
  BY <1>11 DEF ApplyServer, Take, Idle, Empty
<1>12. CASE ApplyClient
  <2>1. Empty("server")
    BY <1>12, IdleIsEmpty DEF ApplyClient
  <2>2. Idle("client") /\ inbox["client"] = NoInput
    BY <1>12 DEF ApplyClient, HandsOver, Idle
  <2> QED
    BY <1>12, <2>1, <2>2 DEF ApplyClient, Take, Idle, Empty
<1>13. CASE SubmitFrames
  BY <1>13, UnchangedKnows DEF SubmitFrames, threadVars
<1>14. CASE NotifyServer
  BY <1>14 DEF NotifyServer, NotifyWorker, Go, Idle, Empty
<1>15. CASE NotifyClient
  BY <1>15 DEF NotifyClient, NotifyWorker, Idle, Empty
<1>16. ASSUME NEW s \in Side, Wait(s) \/ QuitThread(s) \/ NotifyQuit(s) \/ JoinThread(s)
       PROVE  HostKnows'
  <2>1. \A r \in Side : (Idle(r)' <=> Idle(r)) /\ (Empty(r)' <=> Empty(r)) /\ outbox' = outbox
    BY <1>16 DEF Wait, Block, QuitThread, AskToQuit, NotifyQuit, NotifyWorker, JoinThread,
                 threadVars, Idle, Empty
  <2>2. CASE Wait(s)
    BY <2>1, <2>2 DEF Wait, hostVars
  <2>3. CASE QuitThread(s) \/ NotifyQuit(s)
    BY <2>1, <2>3 DEF QuitThread, NotifyQuit, Go
  <2>4. CASE JoinThread(s)
    BY <2>1, <2>4 DEF JoinThread, Go
  <2> QED
    BY <1>16, <2>2, <2>3, <2>4
<1>17. ASSUME NEW s \in Side, HandOver(s)
       PROVE  HostKnows'
  <2>1. CASE s = "server"
    BY <1>17, <2>1 DEF HandOver, Submit, Idle, Empty
  <2>2. CASE s = "client"
    BY <1>17, <2>2 DEF HandOver, Submit, Idle, Empty
  <2> QED
    BY <2>1, <2>2
<1>18. ASSUME NEW s \in Side, UNCHANGED hostVars, WorkerStep(s) \/ SpuriousWake(s)
       PROVE  HostKnows'
  <2>1. \A r \in Side : /\ Idle(r) => Idle(r)'
                        /\ Empty(r) => Empty(r)'
                        /\ Idle(r) /\ outbox[r] = <<>> => outbox'[r] = <<>>
    BY <1>18, IdleStays
  <2> QED
    BY <1>18, <2>1 DEF hostVars
<1> QED
  BY Steps, <1>1, <1>2, <1>3, <1>4, <1>5, <1>6, <1>7, <1>8, <1>9, <1>10, <1>11, <1>12, <1>13, <1>14, <1>15, <1>16, <1>17, <1>18 DEF WorkerStep

LEMMA ClosingStep ==
    ASSUME Inv, Next
    PROVE  Closing'
<1> USE DEF Inv, Closing, Side, At, TypeOK
<1>1. CASE \/ QueueJob \/ Pause \/ PollServer \/ PollClient \/ AwaitServer \/ AwaitClient
           \/ NothingToStep \/ SubmitFrames
  BY <1>1 DEF QueueJob, Pause, PollServer, PollClient, AwaitServer, AwaitClient,
              NothingToStep, SubmitFrames, Go, threadVars
<1>2. CASE Process \/ Flush \/ Close
  BY <1>2 DEF Process, Flush, Close, Begin, threadVars
<1>3. CASE ApplyServer \/ ApplyClient
  BY <1>3 DEF ApplyServer, ApplyClient, Take
<1>4. CASE NotifyServer \/ NotifyClient
  BY <1>4 DEF NotifyServer, NotifyClient, NotifyWorker, Go
<1>5. ASSUME NEW s \in Side, Wait(s) \/ HandOver(s)
      PROVE  Closing'
  BY <1>5 DEF Wait, Block, HandOver, Submit, hostVars
<1>6. ASSUME NEW s \in Side, QuitThread(s) \/ NotifyQuit(s)
      PROVE  Closing'
  BY <1>6 DEF QuitThread, NotifyQuit, AskToQuit, NotifyWorker, Go
<1>7. ASSUME NEW s \in Side, JoinThread(s)
      PROVE  Closing'
  BY <1>7 DEF JoinThread, Joined, Go, threadVars
<1>8. ASSUME NEW s \in Side, UNCHANGED hostVars, WorkerStep(s) \/ SpuriousWake(s)
      PROVE  Closing'
  <2>1. \A r \in Side : worker[r] = "gone" => worker'[r] = "gone"
    BY <1>8 DEF WorkerStep, SpuriousWake, Quit, PickUp, Sleep, StartFrame, Publish,
                FinishFrame, NotifyIdle
  <2> QED
    BY <1>8, <2>1 DEF hostVars
<1> QED
  BY Steps, <1>1, <1>2, <1>3, <1>4, <1>5, <1>6, <1>7, <1>8 DEF WorkerStep

-----------------------------------------------------------------------------
(***************************************************************************)
(* What moves along a path: two neighbours merge, or the one in front is    *)
(* empty and takes what the next one has.                                  *)
(***************************************************************************)
LEMMA Merge ==
    ASSUME NEW x \in Seq(Nat), NEW a \in Seq(Nat), NEW b \in Seq(Nat)
    PROVE  (x \o a) \o b = (x \o (a \o b)) \o <<>>
<1>1. x \o (a \o b) \in Seq(Nat)
  BY ConcatProperties
<1>2. (x \o (a \o b)) \o <<>> = x \o (a \o b)
  BY <1>1, ConcatEmptySeq
<1>3. (x \o a) \o b = x \o (a \o b)
  <2> DEFINE l == (x \o a) \o b
             r == x \o (a \o b)
  <2>1. l \in Seq(Nat) /\ r \in Seq(Nat) /\ Len(l) = Len(r)
    OBVIOUS
  <2>2. \A i \in 1..Len(l) : l[i] = r[i]
    OBVIOUS
  <2> HIDE DEF l, r
  <2>3. l = r
    BY <2>1, <2>2, SeqEqual
  <2> QED BY <2>3 DEF l, r
<1> QED BY <1>2, <1>3

LEMMA Slide ==
    ASSUME NEW x \in Seq(Nat), NEW b \in Seq(Nat)
    PROVE  /\ (x \o <<>>) \o b = (x \o b) \o <<>>
           /\ x \o <<>> = x
           /\ x \o b \in Seq(Nat)
BY ConcatEmptySeq, ConcatProperties

LEMMA Nothing == NoInput.news = <<>> /\ NoInput.jobs = <<>>
BY DEF NoInput

LEMMA SeqTypes ==
    ASSUME Inv
    PROVE  /\ \A s \in Side :
                 /\ delivered[s] \in Seq(Nat) /\ outbox[s] \in Seq(Nat)
                 /\ frame[s].news \in Seq(Nat) /\ frame[s].jobs \in Seq(Nat)
                 /\ inbox[s].news \in Seq(Nat) /\ inbox[s].jobs \in Seq(Nat)
                 /\ sending[s].news \in Seq(Nat) /\ sending[s].jobs \in Seq(Nat)
           /\ toClientRep \in Seq(Nat) /\ toServerRemotes \in Seq(Nat) /\ jobs \in Seq(Nat)
BY DEF Inv, TypeOK, Input

(***************************************************************************)
(* The two paths as far as each hand; all of them are sequences.           *)
(***************************************************************************)
C1 == delivered["client"]
C2 == C1 \o frame["client"].news
C3 == C2 \o inbox["client"].news
C4 == C3 \o sending["client"].news
C5 == C4 \o toClientRep
C6 == C5 \o outbox["server"]
C7 == C6 \o frame["server"].jobs
C8 == C7 \o inbox["server"].jobs
C9 == C8 \o sending["server"].jobs
R1 == delivered["server"]
R2 == R1 \o frame["server"].news
R3 == R2 \o inbox["server"].news
R4 == R3 \o sending["server"].news
R5 == R4 \o toServerRemotes

LEMMA PathTypes ==
    ASSUME Inv
    PROVE  /\ C1 \in Seq(Nat) /\ C2 \in Seq(Nat) /\ C3 \in Seq(Nat)
           /\ C4 \in Seq(Nat) /\ C5 \in Seq(Nat) /\ C6 \in Seq(Nat)
           /\ C7 \in Seq(Nat) /\ C8 \in Seq(Nat) /\ C9 \in Seq(Nat)
           /\ R1 \in Seq(Nat) /\ R2 \in Seq(Nat) /\ R3 \in Seq(Nat)
           /\ R4 \in Seq(Nat) /\ R5 \in Seq(Nat)
<1> USE SeqTypes, Slide DEF Side
<1>1. C1 \in Seq(Nat) /\ R1 \in Seq(Nat)
  BY DEF C1, R1
<1>2. C2 \in Seq(Nat) /\ R2 \in Seq(Nat)
  BY <1>1 DEF C2, R2
<1>3. C3 \in Seq(Nat) /\ R3 \in Seq(Nat)
  BY <1>2 DEF C3, R3
<1>4. C4 \in Seq(Nat) /\ R4 \in Seq(Nat)
  BY <1>3 DEF C4, R4
<1>5. C5 \in Seq(Nat) /\ R5 \in Seq(Nat)
  BY <1>4 DEF C5, R5
<1>6. C6 \in Seq(Nat)
  BY <1>5 DEF C6
<1>7. C7 \in Seq(Nat)
  BY <1>6 DEF C7
<1>8. C8 \in Seq(Nat)
  BY <1>7 DEF C8
<1>9. C9 \in Seq(Nat)
  BY <1>8 DEF C9
<1> QED BY <1>1, <1>2, <1>3, <1>4, <1>5, <1>6, <1>7, <1>8, <1>9

LEMMA Paths ==
    /\ OnTheWayToClient = C9 \o jobs
    /\ OnTheWayToServer = R5 \o outbox["client"]
BY DEF OnTheWayToClient, OnTheWayToServer, C1, C2, C3, C4, C5, C6, C7, C8, C9, R1, R2, R3, R4, R5

LEMMA PathsPrime ==
    /\ OnTheWayToClient' = C9' \o jobs'
    /\ OnTheWayToServer' = R5' \o outbox'["client"]
BY DEF OnTheWayToClient, OnTheWayToServer, C1, C2, C3, C4, C5, C6, C7, C8, C9, R1, R2, R3, R4, R5

LEMMA NothingLostStep ==
    ASSUME Inv, Next
    PROVE  NothingLost'
<1> DEFINE Kept == /\ OnTheWayToClient' = OnTheWayToClient /\ posted' = posted
                   /\ OnTheWayToServer' = OnTheWayToServer /\ C1' = C1
<1>0. ASSUME Kept PROVE NothingLost'
  BY <1>0 DEF Inv, NothingLost, C1
<1> HIDE DEF Kept
<1> USE DEF Side
<1>1. CASE UNCHANGED <<inbox, outbox, frame, delivered, sending, jobs, posted, toClientRep, toServerRemotes>>
  BY <1>1, <1>0 DEF Kept, OnTheWayToClient, OnTheWayToServer, C1
<1>2. CASE QueueJob
  <2>1. C9' = C9 /\ R5' = R5 /\ C1' = C1 /\ outbox' = outbox
    BY <1>2 DEF QueueJob, threadVars, C1, C2, C3, C4, C5, C6, C7, C8, C9, R1, R2, R3, R4, R5
  <2>2. OnTheWayToClient' = C9 \o Append(jobs, posted + 1)
    BY <1>2, <2>1 DEF QueueJob, OnTheWayToClient, C1, C2, C3, C4, C5, C6, C7, C8, C9
  <2>3. C9 \o Append(jobs, posted + 1) = Append(C9 \o jobs, posted + 1)
    <3>1. posted + 1 \in Nat /\ jobs \in Seq(Nat) /\ C9 \in Seq(Nat)
      BY SeqTypes, PathTypes DEF Inv, TypeOK
    <3>2. Append(jobs, posted + 1) = jobs \o <<posted + 1>>
      BY <3>1, AppendIsConcat
    <3>3. C9 \o jobs \in Seq(Nat) /\ <<posted + 1>> \in Seq(Nat)
      BY <3>1, ConcatProperties
    <3>4. Append(C9 \o jobs, posted + 1) = (C9 \o jobs) \o <<posted + 1>>
      BY <3>1, <3>3, AppendIsConcat
    <3> QED BY <3>1, <3>2, <3>3, <3>4, ConcatAssociative
  <2>4. C9 \o jobs = [n \in 1..posted |-> n] /\ OnTheWayToServer = C1
    BY Paths DEF Inv, NothingLost, C1
  <2>5. Append([n \in 1..posted |-> n], posted + 1) = [n \in 1..(posted + 1) |-> n]
    BY DEF Inv, TypeOK
  <2>6. OnTheWayToServer' = OnTheWayToServer
    BY <1>2 DEF QueueJob, threadVars, OnTheWayToServer
  <2> QED
    BY <1>2, <2>1, <2>2, <2>3, <2>4, <2>5, <2>6 DEF NothingLost, QueueJob, C1
<1>3. CASE ApplyServer
  <2>1. /\ toClientRep' = toClientRep \o outbox["server"]
        /\ outbox'["server"] = <<>> /\ outbox'["client"] = outbox["client"]
        /\ UNCHANGED <<inbox, frame, delivered, sending, jobs, posted, toServerRemotes>>
    BY <1>3 DEF ApplyServer, Take, Inv, TypeOK
  <2>2. C4' = C4 /\ C1' = C1
    BY <2>1 DEF C1, C2, C3, C4
  <2>3. C6' = C6
    <3>1. C6' = (C4 \o (toClientRep \o outbox["server"])) \o <<>>
      BY <2>1, <2>2 DEF C6, C5
    <3>2. C6 = (C4 \o toClientRep) \o outbox["server"]
      BY DEF C6, C5
    <3>3. C4 \in Seq(Nat) /\ toClientRep \in Seq(Nat) /\ outbox["server"] \in Seq(Nat)
      BY PathTypes, SeqTypes
    <3> QED BY <3>1, <3>2, <3>3, Merge
  <2>4. C9' = C9
    BY <2>1, <2>3 DEF C7, C8, C9
  <2>5. OnTheWayToServer' = OnTheWayToServer
    BY <2>1 DEF OnTheWayToServer
  <2> QED
    BY <2>1, <2>2, <2>4, <2>5, <1>0, PathsPrime, Paths DEF Kept
<1>4. CASE ApplyClient
  <2>1. /\ toServerRemotes' = toServerRemotes \o outbox["client"]
        /\ outbox'["client"] = <<>> /\ outbox'["server"] = outbox["server"]
        /\ UNCHANGED <<inbox, frame, delivered, sending, jobs, posted, toClientRep>>
    BY <1>4 DEF ApplyClient, Take, Inv, TypeOK
  <2>2. C9' = C9 /\ C1' = C1 /\ R4' = R4
    BY <2>1 DEF C1, C2, C3, C4, C5, C6, C7, C8, C9, R1, R2, R3, R4
  <2>3. R5' \o outbox'["client"] = R5 \o outbox["client"]
    <3>1. R5' \o outbox'["client"] = (R4 \o (toServerRemotes \o outbox["client"])) \o <<>>
      BY <2>1, <2>2 DEF R5
    <3>2. R5 \o outbox["client"] = (R4 \o toServerRemotes) \o outbox["client"]
      BY DEF R5
    <3>3. R4 \in Seq(Nat) /\ toServerRemotes \in Seq(Nat) /\ outbox["client"] \in Seq(Nat)
      BY PathTypes, SeqTypes
    <3> QED BY <3>1, <3>2, <3>3, Merge
  <2> QED
    BY <2>1, <2>2, <2>3, <1>0, PathsPrime, Paths DEF Kept
<1>5. CASE SubmitFrames
  <2>1. sending["server"] = NoInput /\ sending["client"] = NoInput
    BY <1>5 DEF SubmitFrames, Inv, HostKnows, At
  <2>2. /\ sending'["server"].jobs = jobs /\ sending'["server"].news = toServerRemotes
        /\ sending'["client"].news = toClientRep
        /\ jobs' = <<>> /\ toClientRep' = <<>> /\ toServerRemotes' = <<>>
        /\ UNCHANGED <<inbox, outbox, frame, delivered, posted>>
    BY <1>5 DEF SubmitFrames, threadVars
  <2>3. C3' = C3 /\ R3' = R3 /\ C1' = C1
    BY <2>2 DEF C1, C2, C3, R1, R2, R3
  <2>4. C5' = C5
    <3>1. C5 = (C3 \o <<>>) \o toClientRep
      BY <2>1, <2>2, <2>3, Nothing DEF C4, C5
    <3>2. C5' = (C3 \o toClientRep) \o <<>>
      BY <2>1, <2>2, <2>3, Nothing DEF C4, C5
    <3> QED
      BY <3>1, <3>2, Slide, PathTypes, SeqTypes DEF Side
  <2>5. R5' = R5
    <3>1. R5 = (R3 \o <<>>) \o toServerRemotes
      BY <2>1, <2>2, <2>3, Nothing DEF R4, R5
    <3>2. R5' = (R3 \o toServerRemotes) \o <<>>
      BY <2>1, <2>2, <2>3, Nothing DEF R4, R5
    <3> QED
      BY <3>1, <3>2, Slide, PathTypes, SeqTypes DEF Side
  <2>6. C8' = C8
    BY <2>2, <2>4 DEF C6, C7, C8
  <2>7. C9' \o jobs' = C9 \o jobs
    <3>1. C9 \o jobs = (C8 \o <<>>) \o jobs
      BY <2>1, <2>2, <2>6, Nothing DEF C9
    <3>2. C9' \o jobs' = (C8 \o jobs) \o <<>>
      BY <2>1, <2>2, <2>6, Nothing DEF C9
    <3> QED
      BY <3>1, <3>2, Slide, PathTypes, SeqTypes DEF Side
  <2> QED
    BY <2>2, <2>3, <2>5, <2>7, <1>0, PathsPrime, Paths DEF Kept
<1>6. CASE HandOver("server")
  <2>1. inbox["server"] = NoInput
    BY <1>6 DEF HandOver, Inv, HostKnows, At, Empty
  <2>2. /\ inbox'["server"] = sending["server"] /\ inbox'["client"] = inbox["client"]
        /\ sending'["server"] = NoInput /\ sending'["client"] = sending["client"]
        /\ UNCHANGED <<outbox, frame, delivered, posted, jobs, toClientRep, toServerRemotes>>
    BY <1>6 DEF HandOver, Submit, Inv, TypeOK
  <2>3. C7' = C7 /\ R2' = R2 /\ C1' = C1
    BY <2>2 DEF C1, C2, C3, C4, C5, C6, C7, R1, R2
  <2>4. C9' = C9
    <3>1. C9 = (C7 \o <<>>) \o sending["server"].jobs
      BY <2>1, <2>2, <2>3, Nothing DEF C8, C9
    <3>2. C9' = (C7 \o sending["server"].jobs) \o <<>>
      BY <2>1, <2>2, <2>3, Nothing DEF C8, C9
    <3> QED
      BY <3>1, <3>2, Slide, PathTypes, SeqTypes DEF Side
  <2>5. R4' = R4
    <3>1. R4 = (R2 \o <<>>) \o sending["server"].news
      BY <2>1, <2>2, <2>3, Nothing DEF R3, R4
    <3>2. R4' = (R2 \o sending["server"].news) \o <<>>
      BY <2>1, <2>2, <2>3, Nothing DEF R3, R4
    <3> QED
      BY <3>1, <3>2, Slide, PathTypes, SeqTypes DEF Side
  <2>6. R5' = R5
    BY <2>2, <2>5 DEF R5
  <2> QED
    BY <2>2, <2>3, <2>4, <2>6, <1>0, PathsPrime, Paths DEF Kept
<1>7. CASE HandOver("client")
  <2>1. inbox["client"] = NoInput
    BY <1>7 DEF HandOver, Inv, HostKnows, At, Empty
  <2>2. /\ inbox'["client"] = sending["client"] /\ inbox'["server"] = inbox["server"]
        /\ sending'["client"] = NoInput /\ sending'["server"] = sending["server"]
        /\ UNCHANGED <<outbox, frame, delivered, posted, jobs, toClientRep, toServerRemotes>>
    BY <1>7 DEF HandOver, Submit, Inv, TypeOK
  <2>3. C2' = C2 /\ R5' = R5 /\ C1' = C1
    BY <2>2 DEF C1, C2, R1, R2, R3, R4, R5
  <2>4. C4' = C4
    <3>1. C4 = (C2 \o <<>>) \o sending["client"].news
      BY <2>1, <2>2, <2>3, Nothing DEF C3, C4
    <3>2. C4' = (C2 \o sending["client"].news) \o <<>>
      BY <2>1, <2>2, <2>3, Nothing DEF C3, C4
    <3> QED
      BY <3>1, <3>2, Slide, PathTypes, SeqTypes DEF Side
  <2>5. C9' = C9
    BY <2>2, <2>4 DEF C5, C6, C7, C8, C9
  <2> QED
    BY <2>2, <2>3, <2>5, <1>0, PathsPrime, Paths DEF Kept
<1>8. ASSUME StartFrame("server"), UNCHANGED hostVars
      PROVE  NothingLost'
  <2>1. frame["server"] = NoInput
    BY <1>8 DEF StartFrame, Inv, HandsOver
  <2>2. /\ frame'["server"] = inbox["server"] /\ frame'["client"] = frame["client"]
        /\ inbox'["server"] = NoInput /\ inbox'["client"] = inbox["client"]
        /\ UNCHANGED <<outbox, sending, delivered, posted, jobs, toClientRep, toServerRemotes>>
    BY <1>8 DEF StartFrame, Inv, TypeOK, hostVars
  <2>3. C6' = C6 /\ R1' = R1 /\ C1' = C1
    BY <2>2 DEF C1, C2, C3, C4, C5, C6, R1
  <2>4. C8' = C8
    <3>1. C8 = (C6 \o <<>>) \o inbox["server"].jobs
      BY <2>1, <2>2, <2>3, Nothing DEF C7, C8
    <3>2. C8' = (C6 \o inbox["server"].jobs) \o <<>>
      BY <2>1, <2>2, <2>3, Nothing DEF C7, C8
    <3> QED
      BY <3>1, <3>2, Slide, PathTypes, SeqTypes DEF Side
  <2>5. R3' = R3
    <3>1. R3 = (R1 \o <<>>) \o inbox["server"].news
      BY <2>1, <2>2, <2>3, Nothing DEF R2, R3
    <3>2. R3' = (R1 \o inbox["server"].news) \o <<>>
      BY <2>1, <2>2, <2>3, Nothing DEF R2, R3
    <3> QED
      BY <3>1, <3>2, Slide, PathTypes, SeqTypes DEF Side
  <2>6. R5' = R5 /\ C9' = C9
    BY <2>2, <2>4, <2>5 DEF R4, R5, C9
  <2> QED
    BY <2>2, <2>3, <2>6, <1>0, PathsPrime, Paths DEF Kept
<1>9. ASSUME StartFrame("client"), UNCHANGED hostVars
      PROVE  NothingLost'
  <2>1. frame["client"] = NoInput
    BY <1>9 DEF StartFrame, Inv, HandsOver
  <2>2. /\ frame'["client"] = inbox["client"] /\ frame'["server"] = frame["server"]
        /\ inbox'["client"] = NoInput /\ inbox'["server"] = inbox["server"]
        /\ UNCHANGED <<outbox, sending, delivered, posted, jobs, toClientRep, toServerRemotes>>
    BY <1>9 DEF StartFrame, Inv, TypeOK, hostVars
  <2>3. C1' = C1 /\ R5' = R5
    BY <2>2 DEF C1, R1, R2, R3, R4, R5
  <2>4. C3' = C3
    <3>1. C3 = (C1 \o <<>>) \o inbox["client"].news
      BY <2>1, <2>2, <2>3, Nothing DEF C2, C3
    <3>2. C3' = (C1 \o inbox["client"].news) \o <<>>
      BY <2>1, <2>2, <2>3, Nothing DEF C2, C3
    <3> QED
      BY <3>1, <3>2, Slide, PathTypes, SeqTypes DEF Side
  <2>5. C9' = C9
    BY <2>2, <2>4 DEF C4, C5, C6, C7, C8, C9
  <2> QED
    BY <2>2, <2>3, <2>5, <1>0, PathsPrime, Paths DEF Kept
<1>10. ASSUME Publish("server"), UNCHANGED hostVars
       PROVE  NothingLost'
  <2>1. outbox["server"] = <<>>
    BY <1>10 DEF Publish, Inv, HandsOver
  <2>2. /\ delivered'["server"] = delivered["server"] \o frame["server"].news
        /\ delivered'["client"] = delivered["client"]
        /\ outbox'["server"] = frame["server"].jobs /\ outbox'["client"] = outbox["client"]
        /\ frame'["server"] = NoInput /\ frame'["client"] = frame["client"]
        /\ UNCHANGED <<inbox, sending, posted, jobs, toClientRep, toServerRemotes>>
    BY <1>10 DEF Publish, Produce, Inv, TypeOK, hostVars
  <2>3. C5' = C5 /\ C1' = C1
    BY <2>2 DEF C1, C2, C3, C4, C5
  <2>4. C7' = C7
    <3>1. C7 = (C5 \o <<>>) \o frame["server"].jobs
      BY <2>1, <2>2, <2>3, Nothing DEF C6, C7
    <3>2. C7' = (C5 \o frame["server"].jobs) \o <<>>
      BY <2>1, <2>2, <2>3, Nothing DEF C6, C7
    <3> QED
      BY <3>1, <3>2, Slide, PathTypes, SeqTypes DEF Side
  <2>5. R2' = R2
    <3>1. R2' = (R1 \o frame["server"].news) \o <<>>
      BY <2>2, Nothing DEF R1, R2
    <3> QED BY <3>1, PathTypes, Slide DEF R2
  <2>6. R5' = R5 /\ C9' = C9
    BY <2>2, <2>4, <2>5 DEF R3, R4, R5, C8, C9
  <2> QED
    BY <2>2, <2>3, <2>6, <1>0, PathsPrime, Paths DEF Kept
<1>11. ASSUME Publish("client"), UNCHANGED hostVars
       PROVE  NothingLost'
  <2>1. outbox["client"] = <<>>
    BY <1>11 DEF Publish, Inv, HandsOver
  <2>2. /\ delivered'["client"] = delivered["client"] \o frame["client"].news
        /\ delivered'["server"] = delivered["server"]
        /\ outbox'["client"] = frame["client"].news /\ outbox'["server"] = outbox["server"]
        /\ frame'["client"] = NoInput /\ frame'["server"] = frame["server"]
        /\ UNCHANGED <<inbox, sending, posted, jobs, toClientRep, toServerRemotes>>
    BY <1>11 DEF Publish, Produce, Inv, TypeOK, hostVars
  <2>3. C2' = C2
    <3>1. C2' = (C1 \o frame["client"].news) \o <<>>
      BY <2>2, Nothing DEF C1, C2
    <3> QED BY <3>1, PathTypes, Slide DEF C2
  <2>4. C9' = C9
    BY <2>2, <2>3 DEF C3, C4, C5, C6, C7, C8, C9
  <2>5. R5' = R5
    BY <2>2 DEF R1, R2, R3, R4, R5
  <2>6. R5 = C1
    BY <2>1, Paths, Slide, PathTypes DEF Inv, NothingLost, C1
  <2>7. OnTheWayToServer' = delivered'["client"]
    BY <2>2, <2>5, <2>6, PathsPrime DEF C1
  <2>8. OnTheWayToClient' = OnTheWayToClient
    BY <2>2, <2>4, PathsPrime, Paths
  <2> QED
    BY <2>2, <2>7, <2>8 DEF NothingLost, Inv
<1> QED
  <2>1. ASSUME \/ Pause \/ Process \/ Flush \/ Close
               \/ PollServer \/ PollClient \/ AwaitServer \/ AwaitClient
               \/ NothingToStep \/ NotifyServer \/ NotifyClient
        PROVE  NothingLost'
    BY <2>1, <1>1 DEF Pause, Process, Flush, Close, Begin, PollServer, PollClient, AwaitServer,
       AwaitClient, NothingToStep, NotifyServer, NotifyClient, NotifyWorker, Go, threadVars
  <2>2. ASSUME NEW s \in Side, Wait(s) \/ QuitThread(s) \/ NotifyQuit(s) \/ JoinThread(s)
        PROVE  NothingLost'
    BY <2>2, <1>1 DEF Wait, Block, QuitThread, AskToQuit, NotifyQuit, NotifyWorker, JoinThread,
       Go, threadVars, hostVars
  <2>3. ASSUME NEW s \in Side, UNCHANGED hostVars,
               \/ Quit(s) \/ PickUp(s) \/ Sleep(s) \/ FinishFrame(s) \/ NotifyIdle(s)
               \/ SpuriousWake(s)
        PROVE  NothingLost'
    BY <2>3, <1>1 DEF Quit, PickUp, Sleep, FinishFrame, NotifyIdle, SpuriousWake, hostVars
  <2> QED
    BY Steps, <2>1, <2>2, <2>3, <1>2, <1>3, <1>4, <1>5, <1>6, <1>7, <1>8, <1>9, <1>10, <1>11

-----------------------------------------------------------------------------
LEMMA InvInit == Init => Inv
<1> SUFFICES ASSUME Init PROVE Inv
  OBVIOUS
<1> USE DEF Init, ThreadInit, Side
<1>0. NoInput \in Input
  BY DEF Input, NoInput
<1>1. TypeOK
  <2>1. <<>> \in Seq(Nat)
    OBVIOUS
  <2> QED BY <1>0, <2>1 DEF TypeOK, At
<1>2. (\A s \in Side : HandsOver(s)) /\ HostKnows /\ Closing
  BY DEF HandsOver, HostKnows, Closing, At, Empty, Idle
<1>3. NothingLost
  <2>1. <<>> \o <<>> = <<>> /\ [n \in 1..posted |-> n] = <<>>
    OBVIOUS
  <2>2. OnTheWayToClient = <<>> /\ OnTheWayToServer = <<>>
    BY <2>1, Nothing DEF OnTheWayToClient, OnTheWayToServer
  <2> QED BY <2>1, <2>2 DEF NothingLost
<1> QED BY <1>1, <1>2, <1>3 DEF Inv

THEOREM Invariance == Spec => []Inv
<1>1. Inv /\ [Next]_vars => Inv'
  <2> SUFFICES ASSUME Inv, [Next]_vars PROVE Inv'
    OBVIOUS
  <2>1. CASE Next
    BY <2>1, TypeStep, HandsOverStep, HostKnowsStep, ClosingStep, NothingLostStep DEF Inv
  <2>2. CASE UNCHANGED vars
    <3>0. UNCHANGED threadVars /\ UNCHANGED hostVars
      BY <2>2 DEF vars
    <3> USE <3>0 DEF threadVars, hostVars, Inv
    <3>1. TypeOK'
      BY DEF TypeOK, At
    <3>2. (\A s \in Side : HandsOver(s))'
      BY DEF HandsOver
    <3>3. HostKnows'
      BY DEF HostKnows, At, Empty, Idle
    <3>4. Closing'
      BY DEF Closing, At
    <3>5. NothingLost'
      BY DEF NothingLost, OnTheWayToClient, OnTheWayToServer
    <3> QED BY <3>1, <3>2, <3>3, <3>4, <3>5
  <2> QED BY <2>1, <2>2
<1> QED BY InvInit, <1>1, PTL DEF Spec

(***************************************************************************)
(* Every variable of the frame loop keeps its type, for any number of jobs. *)
(***************************************************************************)
THEOREM TypeCorrect == Spec => []TypeOK
BY Invariance, PTL DEF Inv

(***************************************************************************)
(* The host never submits to, nor takes from, a runtime whose frame runs.  *)
(***************************************************************************)
THEOREM InputOwned == Spec => []FrameOwnsItsInput
<1>1. Inv => FrameOwnsItsInput
  BY DEF Inv, FrameOwnsItsInput, HostKnows, Closing, At, Empty, Side
<1> QED BY <1>1, Invariance, PTL

(***************************************************************************)
(* Whatever the interleaving of the three threads, no job and no answer is  *)
(* lost, doubled or overtaken.                                             *)
(***************************************************************************)
THEOREM RoundTrip == Spec => []NothingLost
BY Invariance, PTL DEF Inv

-----------------------------------------------------------------------------
(***************************************************************************)
(* Walking up the tree.                                                    *)
(***************************************************************************)
LEMMA WalkBegins ==
    ASSUME NEW i \in Instance, NEW stop
    PROVE  i \in ReachUp(i, stop)
BY DEF ReachUp

LEMMA WalkGoesOn ==
    ASSUME NEW i \in Instance, NEW stop, NEW x \in ReachUp(i, stop), parent[x] \in Instance \ stop
    PROVE  parent[x] \in ReachUp(i, stop)
<1> SUFFICES ASSUME NEW S \in SUBSET (Instance \ {parent[x]}), i \in S
             PROVE  \E y \in S : parent[y] \in Instance \ (stop \cup S)
  BY DEF ReachUp
<1>1. CASE x \in S
  BY <1>1
<1>2. CASE x \notin S
  <2>1. S \in SUBSET (Instance \ {x})
    BY <1>2
  <2> QED BY <2>1 DEF ReachUp
<1> QED BY <1>1, <1>2

LEMMA WalkIsAbove ==
    ASSUME NEW i \in Instance, NEW stop
    PROVE  ReachUp(i, stop) \subseteq Above(i)
BY DEF ReachUp, Above

\* What is above an instance is itself and what is above its parent.
LEMMA AboveParent ==
    ASSUME NEW i \in Instance, NEW x \in Instance
    PROVE  x \in Above(i) <=> (x = i \/ (parent[i] \in Instance /\ x \in Above(parent[i])))
<1>1. ASSUME x \in Above(i), x # i PROVE parent[i] \in Instance /\ x \in Above(parent[i])
  <2>1. parent[i] \in Instance
    <3>1. {i} \in SUBSET (Instance \ {x})
      BY <1>1
    <3> QED BY <1>1, <3>1 DEF Above, ReachUp
  <2>2. ASSUME NEW S \in SUBSET (Instance \ {x}), parent[i] \in S
        PROVE  \E y \in S : parent[y] \in Instance \ S
    <3>1. S \cup {i} \in SUBSET (Instance \ {x})
      BY <1>1
    <3>2. PICK y \in S \cup {i} : parent[y] \in Instance \ (S \cup {i})
      BY <1>1, <3>1 DEF Above, ReachUp
    <3> QED BY <2>2, <3>2
  <2> QED BY <2>1, <2>2 DEF Above, ReachUp
<1>2. i \in Above(i)
  BY WalkBegins DEF Above
<1>3. ASSUME parent[i] \in Instance, x \in Above(parent[i]) PROVE x \in Above(i)
  <2> SUFFICES ASSUME NEW S \in SUBSET (Instance \ {x}), i \in S
               PROVE  \E y \in S : parent[y] \in Instance \ S
    BY DEF Above, ReachUp
  <2>1. CASE parent[i] \in S
    BY <1>3, <2>1 DEF Above, ReachUp
  <2>2. CASE parent[i] \notin S
    BY <1>3, <2>2
  <2> QED BY <2>1, <2>2
<1> QED BY <1>1, <1>2, <1>3

LEMMA SubtreeIs ==
    ASSUME NEW i \in Instance
    PROVE  /\ i \in Subtree(i) /\ Subtree(i) \subseteq Instance
           /\ \A k \in Instance : /\ parent[k] \in Subtree(i) => k \in Subtree(i)
                                  /\ k \in Subtree(i) /\ k # i => parent[k] \in Subtree(i)
<1>1. i \in Subtree(i) /\ Subtree(i) \subseteq Instance
  BY WalkBegins DEF Subtree, Above
<1>2. ASSUME NEW k \in Instance
      PROVE  k \in Subtree(i) <=> (k = i \/ (parent[k] \in Instance /\ parent[k] \in Subtree(i)))
  BY AboveParent DEF Subtree
<1> QED BY <1>1, <1>2

\* A set that has the parent of each in it has all above.
LEMMA AboveStaysIn ==
    ASSUME NEW K \in SUBSET Instance, \A y \in K : parent[y] \in Instance => parent[y] \in K, NEW i \in K
    PROVE  Above(i) \subseteq K
<1> SUFFICES ASSUME NEW x \in Above(i), x \notin K PROVE FALSE
  OBVIOUS
<1>1. K \in SUBSET (Instance \ {x})
  OBVIOUS
<1> QED BY <1>1 DEF Above, ReachUp

-----------------------------------------------------------------------------
(***************************************************************************)
(* The tree: nothing is below itself, and what is not alive is outside.     *)
(***************************************************************************)
Acyclic == \A S \in SUBSET Instance : S # {} => \E y \in S : parent[y] \notin S

Grown ==
    \A i \in Instance : /\ status[i] # "alive" => parent[i] = NoParent
                        /\ parent[i] \in Instance => status[parent[i]] = "alive"

TreeTypes ==
    /\ parent \in [Instance -> Instance \cup {Root, NoParent}]
    /\ status \in [Instance -> {"unborn", "alive", "destroyed"}]
    /\ value \in [Instance -> Value]
    /\ known \in SUBSET Instance

TreeInv == TreeTypes /\ Acyclic /\ Grown

LEMMA VisibleIs ==
    ASSUME TreeInv, NEW i \in Instance
    PROVE  Visible(i) <=> \/ parent[i] = Root /\ i \notin Hidden
                          \/ parent[i] \in Instance /\ Visible(parent[i])
<1> USE InstanceAssumption DEF InstanceAssumption
<1>1. parent[i] \in Instance \cup {Root, NoParent} /\ (status[i] # "alive" => parent[i] = NoParent)
      /\ (parent[i] \in Instance => status[parent[i]] = "alive")
  BY DEF TreeInv, TreeTypes, Grown
<1>2. Above(i) \subseteq Instance
  BY DEF Above, ReachUp
<1>3. ASSUME Visible(i) PROVE \/ parent[i] = Root /\ i \notin Hidden
                              \/ parent[i] \in Instance /\ Visible(parent[i])
  <2>1. PICK top \in Above(i) : parent[top] = Root /\ top \notin Hidden
    BY <1>3 DEF Visible
  <2>2. top = i \/ (parent[i] \in Instance /\ top \in Above(parent[i]))
    BY <1>2, AboveParent
  <2> QED BY <1>1, <2>1, <2>2 DEF Visible
<1>4. ASSUME parent[i] = Root, i \notin Hidden PROVE Visible(i)
  <2>1. i \in Above(i)
    BY WalkBegins DEF Above
  <2> QED BY <1>1, <1>4, <2>1 DEF Visible
<1>5. ASSUME parent[i] \in Instance, Visible(parent[i]) PROVE Visible(i)
  <2>1. PICK top \in Above(parent[i]) : parent[top] = Root /\ top \notin Hidden
    BY <1>5 DEF Visible
  <2>2. top \in Instance
    BY DEF Above, ReachUp
  <2>3. top \in Above(i)
    BY <1>5, <2>2, AboveParent
  <2> QED BY <1>1, <1>5, <2>1, <2>3 DEF Visible
<1> QED BY <1>3, <1>4, <1>5

LEMMA VisibleAbove ==
    ASSUME TreeInv, NEW i \in Instance, Visible(i)
    PROVE  \A x \in Above(i) : Visible(x)
<1>1. ASSUME NEW y \in VisibleSet, parent[y] \in Instance PROVE parent[y] \in VisibleSet
  <2>1. parent[y] # Root
    BY <1>1, InstanceAssumption DEF InstanceAssumption
  <2> QED BY <1>1, <2>1, VisibleIs DEF VisibleSet
<1>2. i \in VisibleSet /\ VisibleSet \in SUBSET Instance
  BY DEF VisibleSet
<1>3. Above(i) \subseteq VisibleSet
  BY <1>1, <1>2, AboveStaysIn
<1> QED BY <1>3 DEF VisibleSet

-----------------------------------------------------------------------------
(***************************************************************************)
(* What the filter owes.  Clients are told of an instance under one they     *)
(* have, and of one at the top; once somebody has joined, an instance is     *)
(* known and told of, or not known and not told of, or its own change is     *)
(* still in the log.  While the filter runs that is so of visible instances  *)
(* only: the change of one that left may come before that of its parent.    *)
(***************************************************************************)
Told(i) == parent[i] \in known \/ (parent[i] = Root /\ i \notin Hidden)
Due(i) == \E c \in ToSet(log) : c.id = i /\ c.kind \in {"Parent", "Destroy"}

KnownOrDue == \A i \in known : Told(i) \/ Due(i)
UnknownOrDue == \A i \in Instance \ known : Told(i) /\ (filtering => Visible(i)) => Due(i)

Logged == log \in Seq(Change) /\ \A c \in ToSet(log) : c.kind = "Destroy" => status[c.id] = "destroyed"

FilterInv == TreeInv /\ Logged /\ (joined => KnownOrDue /\ UnknownOrDue)

LEMMA InitFilter == ReplicatorInit => FilterInv
<1> SUFFICES ASSUME ReplicatorInit PROVE FilterInv
  OBVIOUS
<1> USE DEF ReplicatorInit
<1> USE InstanceAssumption DEF InstanceAssumption
<1>1. TreeTypes
  BY DEF TreeTypes
<1>2. Acyclic
  BY DEF Acyclic
<1>3. Grown
  BY DEF Grown
<1>4. Logged
  BY EmptyList DEF Logged
<1> QED BY <1>1, <1>2, <1>3, <1>4 DEF FilterInv, TreeInv

\* At the end of the log nothing is due, and what is known is what is visible.
LEMMA KnownAtTheEnd ==
    ASSUME FilterInv, joined, log = <<>>
    PROVE  filtering => known = VisibleSet
<1> SUFFICES ASSUME filtering PROVE known = VisibleSet
  OBVIOUS
<1>1. \A i : ~Due(i)
  BY EmptyList DEF Due
<1>2. TreeInv /\ Acyclic /\ known \in SUBSET Instance /\ Root \notin Instance
  BY InstanceAssumption DEF InstanceAssumption, FilterInv, TreeInv, TreeTypes
<1>3. known \subseteq VisibleSet
  <2> DEFINE B == known \ VisibleSet
  <2> SUFFICES ASSUME B # {} PROVE FALSE
    OBVIOUS
  <2>1. PICK y \in B : parent[y] \notin B
    BY <1>2 DEF Acyclic
  <2>2. y \in Instance /\ Told(y) /\ ~Visible(y)
    BY <1>1, <1>2, <2>1 DEF FilterInv, KnownOrDue, VisibleSet
  <2>3. CASE parent[y] \in known
    <3>1. parent[y] \in VisibleSet
      BY <2>1, <2>3
    <3> QED BY <1>2, <2>2, <3>1, VisibleIs DEF VisibleSet
  <2>4. CASE parent[y] = Root /\ y \notin Hidden
    BY <1>2, <2>2, <2>4, VisibleIs
  <2> QED BY <2>2, <2>3, <2>4 DEF Told
<1>4. VisibleSet \subseteq known
  <2> DEFINE B == VisibleSet \ known
  <2> SUFFICES ASSUME B # {} PROVE FALSE
    OBVIOUS
  <2>1. PICK y \in B : parent[y] \notin B
    BY <1>2 DEF Acyclic, VisibleSet
  <2>2. y \in Instance \ known /\ Visible(y)
    BY <2>1 DEF VisibleSet
  <2>3. Told(y)
    BY <1>2, <2>1, <2>2, VisibleIs DEF Told, VisibleSet
  <2> QED BY <1>1, <2>2, <2>3 DEF FilterInv, UnknownOrDue
<1> QED BY <1>3, <1>4

-----------------------------------------------------------------------------
(***************************************************************************)
(* The end of a frame: one change is handled, of instance i.               *)
(***************************************************************************)
Handles(i) ==
    /\ joined /\ joined' = joined /\ filtering /\ filtering' = filtering
    /\ UNCHANGED <<parent, status, value>>
    /\ \A j \in Instance \ {i} : Due(j) => Due(j)'

LEMMA SendKeeps ==
    ASSUME FilterInv, NEW i \in Instance, Handles(i), NEW t \in Instance,
           known' = known \cup Subtree(t), Told(t)', i \in known', Told(i)'
    PROVE  KnownOrDue' /\ UnknownOrDue'
<1>1. known \in SUBSET Instance
  BY DEF FilterInv, TreeInv, TreeTypes
<1>2. ASSUME NEW j \in known' PROVE (Told(j) \/ Due(j))'
  <2>1. CASE j = t \/ j = i
    BY <2>1
  <2>2. CASE j \in Subtree(t) /\ j # t
    <3>1. parent[j] \in Subtree(t)
      BY <2>2, SubtreeIs
    <3> QED BY <3>1 DEF Handles, Told
  <2>3. CASE j \in known /\ j # i
    <3>1. Told(j) \/ Due(j)
      BY <2>3 DEF FilterInv, Handles, KnownOrDue
    <3> QED BY <1>1, <2>3, <3>1 DEF Handles, Told
  <2> QED BY <2>1, <2>2, <2>3
<1>3. ASSUME NEW j \in Instance \ known', Told(j)', (filtering => Visible(j))' PROVE Due(j)'
  <2>1. j # i /\ j \notin known /\ j \notin Subtree(t)
    OBVIOUS
  <2>2. parent[j] \notin Subtree(t)
    BY <2>1, SubtreeIs
  <2>3. Told(j) /\ Visible(j)
    BY <1>3, <2>2 DEF Handles, Told, Visible, Above, ReachUp
  <2> QED BY <2>1, <2>3 DEF FilterInv, Handles, UnknownOrDue
<1> QED BY <1>2, <1>3 DEF KnownOrDue, UnknownOrDue

\* All of R is forgotten, and that is nobody's parent but of its own.
LEMMA ForgetKeeps ==
    ASSUME FilterInv, NEW i \in Instance, Handles(i), NEW R \in SUBSET Instance,
           known' = known \ R, i \in R \/ ~(i \in known), \A k \in R \cup {i} : ~Visible(k),
           \A j \in Instance : parent[j] \in R => j \in R
    PROVE  KnownOrDue' /\ UnknownOrDue'
<1>1. known \in SUBSET Instance
  BY DEF FilterInv, TreeInv, TreeTypes
<1>2. ASSUME NEW j \in known' PROVE (Told(j) \/ Due(j))'
  <2>1. j # i /\ j \in known /\ j \notin R
    OBVIOUS
  <2>2. Told(j) \/ Due(j)
    BY <2>1 DEF FilterInv, Handles, KnownOrDue
  <2>3. parent[j] \notin R
    BY <1>1, <2>1
  <2> QED BY <1>1, <2>1, <2>2, <2>3 DEF Handles, Told
<1>3. ASSUME NEW j \in Instance \ known', Told(j)', (filtering => Visible(j))' PROVE Due(j)'
  <2>1. Visible(j) /\ Told(j)
    BY <1>3 DEF Handles, Told, Visible, Above, ReachUp
  <2>2. j # i /\ j \notin known
    BY <2>1
  <2> QED BY <2>1, <2>2 DEF FilterInv, Handles, UnknownOrDue
<1> QED BY <1>2, <1>3 DEF KnownOrDue, UnknownOrDue

\* The topmost one not known has a parent that is, or is at the top.
LEMMA TopUnknownIs ==
    ASSUME FilterInv, NEW i \in Instance, Visible(i)
    PROVE  /\ TopUnknown(i) \in Instance /\ i \in Subtree(TopUnknown(i))
           /\ Told(TopUnknown(i))
<1> DEFINE walk == ReachUp(i, known)
           t == TopUnknown(i)
<1>1. TreeInv /\ Acyclic
  BY DEF FilterInv, TreeInv
<1>2. walk \in SUBSET Instance /\ i \in walk
  BY WalkBegins DEF ReachUp
<1>3. \E y \in walk : parent[y] \notin walk
  BY <1>1, <1>2 DEF Acyclic
<1>4. t \in walk /\ parent[t] \notin walk
  BY <1>3 DEF TopUnknown
<1>5. t \in Instance /\ t \in Above(i)
  BY <1>2, <1>4, WalkIsAbove
<1> HIDE DEF t
<1>6. parent[t] \notin Instance \ known
  BY <1>4, WalkGoesOn
<1>7. Visible(t)
  BY <1>1, <1>5, VisibleAbove
<1>8. parent[t] \in known \/ (parent[t] = Root /\ t \notin Hidden)
  BY <1>1, <1>5, <1>6, <1>7, VisibleIs
<1> QED BY <1>5, <1>8 DEF Subtree, Told, t

LEMMA FilterParentKeeps ==
    ASSUME FilterInv, NEW c \in Change, FilterParent(c), Handles(c.id)
    PROVE  KnownOrDue' /\ UnknownOrDue'
<1>1. PICK i \in Instance : i = c.id
  BY DEF Change
<1>2. Handles(i) /\ TreeInv /\ known \in SUBSET Instance /\ Root \notin Instance
  BY <1>1, InstanceAssumption DEF InstanceAssumption, FilterInv, TreeInv, TreeTypes
<1>3. parent' = parent
  BY <1>2 DEF Handles
<1>4. \/ EnteredTree(i) \/ MovedUnderUnknown(i) \/ MovedWithin(i) \/ LeftTree(i) \/ StayedOut(i)
  BY <1>1 DEF FilterParent
<1>5. CASE EnteredTree(i)
  <2>1. PICK t : t = TopUnknown(i)
    OBVIOUS
  <2>2. t \in Instance /\ i \in Subtree(t) /\ Told(t) /\ known' = known \cup Subtree(t)
    BY <1>5, <2>1, TopUnknownIs DEF EnteredTree, SendSubtree
  <2>3. Told(t)'
    BY <1>3, <2>2 DEF Told
  <2>4. Told(i)'
    <3>1. i = t \/ parent[i] \in Subtree(t)
      BY <2>2, SubtreeIs
    <3> QED BY <1>3, <2>2, <2>3, <3>1 DEF Told
  <2> QED BY <1>2, <2>2, <2>3, <2>4, SendKeeps
<1>6. CASE MovedUnderUnknown(i)
  <2>1. PICK p : p = parent[i]
    OBVIOUS
  <2>2. p \in Instance /\ Visible(p)
    BY <1>2, <1>6, <2>1, VisibleIs DEF MovedUnderUnknown
  <2>3. PICK t : t = TopUnknown(p)
    OBVIOUS
  <2>4. t \in Instance /\ p \in Subtree(t) /\ Told(t) /\ known' = known \cup Subtree(t)
    BY <1>6, <2>1, <2>2, <2>3, TopUnknownIs DEF MovedUnderUnknown, SendSubtree
  <2>5. Told(t)' /\ Told(i)'
    BY <1>3, <2>1, <2>4 DEF Told
  <2>6. i \in known'
    BY <1>6, <2>4 DEF MovedUnderUnknown
  <2> QED BY <1>2, <2>4, <2>5, <2>6, SendKeeps
<1>7. CASE MovedWithin(i)
  <2>1. known' = known /\ i \in known
    BY <1>7 DEF MovedWithin
  <2>2. Told(i)
    BY <1>2, <1>7, VisibleIs DEF MovedWithin, Told
  <2>3. ASSUME NEW j \in known' PROVE (Told(j) \/ Due(j))'
    BY <1>2, <2>1, <2>2 DEF Handles, Told, FilterInv, KnownOrDue
  <2>4. ASSUME NEW j \in Instance \ known', Told(j)', (filtering => Visible(j))' PROVE Due(j)'
    <3>1. Visible(j) /\ Told(j) /\ j # i /\ j \notin known
      BY <1>2, <2>1, <2>4 DEF Handles, Told, Visible, Above, ReachUp
    <3> QED BY <1>2, <3>1 DEF FilterInv, Handles, UnknownOrDue
  <2> QED BY <2>3, <2>4 DEF KnownOrDue, UnknownOrDue
<1>8. CASE LeftTree(i)
  <2>1. ~Visible(i)
    BY <1>8 DEF LeftTree
  <2>2. CASE status[i] = "destroyed"
    <3>1. known' = known \ {i}
      BY <1>8, <2>2 DEF LeftTree
    <3>2. \A j \in Instance : parent[j] # i
      BY <2>2 DEF FilterInv, TreeInv, Grown
    <3>3. PICK R : R = {i}
      OBVIOUS
    <3>4. /\ R \in SUBSET Instance /\ known' = known \ R /\ \A k \in R \cup {i} : ~Visible(k)
          /\ i \in R /\ \A j \in Instance : parent[j] \in R => j \in R
      BY <2>1, <3>1, <3>2, <3>3
    <3> QED BY <1>2, <3>4, ForgetKeeps
  <2>3. CASE status[i] # "destroyed"
    <3>1. known' = known \ Subtree(i)
      BY <1>8, <2>3 DEF LeftTree
    <3>2. /\ i \in Subtree(i) /\ Subtree(i) \in SUBSET Instance
          /\ \A k \in Instance : parent[k] \in Subtree(i) => k \in Subtree(i)
      BY SubtreeIs
    <3>3. \A k \in Subtree(i) : ~Visible(k)
      BY <1>2, <2>1, VisibleAbove DEF Subtree
    <3> QED BY <1>2, <2>1, <3>1, <3>2, <3>3, ForgetKeeps
  <2> QED BY <2>2, <2>3
<1>9. CASE StayedOut(i)
  <2>1. known' = known /\ ~Visible(i) /\ i \notin known
    BY <1>9 DEF StayedOut
  <2>2. PICK R : R = {}
    OBVIOUS
  <2>3. /\ R \in SUBSET Instance /\ known' = known \ R /\ \A k \in R \cup {i} : ~Visible(k)
        /\ \A j \in Instance : parent[j] \in R => j \in R
    BY <2>1, <2>2
  <2> QED BY <1>2, <2>1, <2>3, ForgetKeeps
<1> QED BY <1>4, <1>5, <1>6, <1>7, <1>8, <1>9

LEMMA FilterChangeKeeps == FilterInv /\ FilterChange => FilterInv'
<1> SUFFICES ASSUME FilterInv, FilterChange PROVE FilterInv'
  OBVIOUS
<1>1. PICK c : c = Head(log)
  OBVIOUS
<1>2. /\ filtering /\ log # <<>> /\ log' = Tail(log)
      /\ FilterCreate(c) \/ FilterDestroy(c) \/ FilterProperty(c) \/ FilterParent(c)
      /\ UNCHANGED <<parent, status, value, filtering, joined>>
  BY <1>1 DEF FilterChange
<1>3. c \in Change /\ log' \in Seq(Change) /\ ToSet(log) = {c} \cup ToSet(log')
  BY <1>1, <1>2, HeadAndTail DEF FilterInv, Logged
<1>4. Logged'
  BY <1>2, <1>3 DEF FilterInv, Logged
<1>5. PICK i \in Instance : i = c.id
  BY <1>3 DEF Change
<1>6. \A j : Due(j) => Due(j)' \/ (j = i /\ c.kind \in {"Parent", "Destroy"})
  BY <1>3, <1>5 DEF Due
<1>7. TreeInv'
  <2>1. known' \subseteq Instance
    <3>1. \A t : Subtree(t) \subseteq Instance
      BY DEF Subtree
    <3> QED BY <1>2, <3>1 DEF FilterCreate, FilterDestroy, FilterProperty, FilterParent, EnteredTree,
                 MovedUnderUnknown, MovedWithin, LeftTree, StayedOut, SendSubtree, FilterInv, TreeInv, TreeTypes
  <2> QED BY <1>2, <2>1 DEF FilterInv, TreeInv, TreeTypes, Acyclic, Grown
<1>8. ASSUME joined PROVE KnownOrDue' /\ UnknownOrDue'
  <2>1. Handles(i)
    BY <1>2, <1>6, <1>8 DEF Handles
  <2>2. CASE FilterParent(c)
    BY <1>3, <1>5, <2>1, <2>2, FilterParentKeeps
  <2>3. CASE FilterDestroy(c)
    <3>1. status[i] = "destroyed" /\ known' = known \ {i}
      BY <1>3, <1>5, <2>3 DEF FilterInv, Logged, FilterDestroy
    <3>2. ~Visible(i) /\ \A j \in Instance : parent[j] # i
      BY <3>1 DEF Visible, FilterInv, TreeInv, Grown
    <3>3. PICK R : R = {i}
      OBVIOUS
    <3>4. /\ R \in SUBSET Instance /\ known' = known \ R /\ \A k \in R \cup {i} : ~Visible(k)
          /\ i \in R /\ \A j \in Instance : parent[j] \in R => j \in R
      BY <3>1, <3>2, <3>3
    <3> QED BY <2>1, <3>4, ForgetKeeps
  <2>4. CASE FilterCreate(c) \/ FilterProperty(c)
    <3>1. known' = known /\ c.kind \notin {"Parent", "Destroy"}
      BY <2>4 DEF FilterCreate, FilterProperty
    <3>2. \A j : Due(j) => Due(j)'
      BY <1>6, <3>1
    <3>3. \A j : (Told(j)' <=> Told(j)) /\ (Visible(j)' <=> Visible(j))
      BY <1>2, <3>1 DEF Told, Visible, Above, ReachUp
    <3> QED BY <1>2, <1>8, <3>1, <3>2, <3>3 DEF FilterInv, KnownOrDue, UnknownOrDue
  <2> QED BY <1>2, <2>2, <2>3, <2>4
<1> QED BY <1>2, <1>4, <1>7, <1>8 DEF FilterInv

LEMMA NextFrameKeeps ==
    ASSUME FilterInv, NextFrame, \/ UNCHANGED <<known, joined>>
                                 \/ known' = VisibleSet /\ joined' = TRUE
    PROVE  FilterInv'
<1>1. filtering /\ filtering' = FALSE /\ log = <<>> /\ UNCHANGED <<parent, status, value, log>>
  BY DEF NextFrame
<1>2. TreeInv /\ Root \notin Instance
  BY InstanceAssumption DEF InstanceAssumption, FilterInv
<1>3. joined' => known' = VisibleSet
  BY <1>1, KnownAtTheEnd
<1>4. known' \subseteq Instance
  BY <1>2 DEF TreeInv, TreeTypes, VisibleSet
<1>5. TreeInv' /\ Logged'
  BY <1>1, <1>4 DEF FilterInv, TreeInv, TreeTypes, Acyclic, Grown, Logged
<1>6. ASSUME joined' PROVE KnownOrDue' /\ UnknownOrDue'
  <2>1. known' = VisibleSet
    BY <1>3, <1>6
  <2>2. ASSUME NEW i \in Instance PROVE Visible(i) <=> Told(i)'
    BY <1>1, <1>2, <2>1, VisibleIs DEF Told, VisibleSet
  <2> QED BY <2>1, <2>2 DEF KnownOrDue, UnknownOrDue, VisibleSet
<1> QED BY <1>5, <1>6 DEF FilterInv

LEMMA EndFrameKeeps == FilterInv /\ EndFrame => FilterInv'
BY DEF EndFrame, FilterInv, TreeInv, TreeTypes, Acyclic, Grown, Logged, KnownOrDue, UnknownOrDue, Told, Due

-----------------------------------------------------------------------------
(***************************************************************************)
(* While scripts run: what they do to the tree is in the log.               *)
(***************************************************************************)
Logs(D) ==
    /\ log' \in Seq(Change) /\ ToSet(log) \subseteq ToSet(log')
    /\ \A c \in ToSet(log') \ ToSet(log) : c.kind = "Destroy" => status'[c.id] = "destroyed"
    /\ \A i \in D : Due(i)'

LEMMA ScriptKeeps ==
    ASSUME FilterInv, TreeInv', Running, NEW D \in SUBSET Instance, Logs(D),
           \A i \in Instance \ D : parent'[i] = parent[i],
           \A i \in Instance : status[i] = "destroyed" => status'[i] = "destroyed"
    PROVE  FilterInv'
<1>1. ~filtering /\ UNCHANGED <<filtering, known, joined>> /\ known \in SUBSET Instance
  BY DEF Running, FilterInv, TreeInv, TreeTypes
<1>2. \A i : Due(i) => Due(i)'
  BY DEF Logs, Due
<1>3. Logged'
  <2>1. \A c \in ToSet(log) : c.id \in Instance
    <3>1. ToSet(log) \subseteq Change
      BY DEF FilterInv, Logged, ToSet
    <3> QED BY <3>1 DEF Change
  <2> QED BY <2>1 DEF Logs, FilterInv, Logged
<1>4. \A i \in Instance \ D : Told(i)' <=> Told(i)
  BY <1>1 DEF Told
<1>5. joined' => KnownOrDue' /\ UnknownOrDue'
  BY <1>1, <1>2, <1>4 DEF Logs, FilterInv, KnownOrDue, UnknownOrDue
<1> QED BY <1>3, <1>5 DEF FilterInv

LEMMA AppendLogs ==
    ASSUME FilterInv, NEW c \in Change, log' = Append(log, c), c.kind # "Destroy", NEW D,
           \A i \in D : c.id = i /\ c.kind = "Parent"
    PROVE  Logs(D)
<1>1. log' \in Seq(Change) /\ ToSet(log') = ToSet(log) \cup {c}
  BY AppendSet DEF FilterInv, Logged
<1> QED BY <1>1 DEF Logs, Due

LEMMA CreateKeeps == \A i \in Instance : FilterInv /\ Create(i) => FilterInv'
<1> SUFFICES ASSUME NEW i \in Instance, FilterInv, Create(i) PROVE FilterInv'
  OBVIOUS
<1>1. PICK c : c = CreateChange(i)
  OBVIOUS
<1>2. /\ Running /\ status[i] = "unborn" /\ log' = Append(log, c)
      /\ status' = [status EXCEPT ![i] = "alive"] /\ UNCHANGED <<parent, value, known>>
  BY <1>1 DEF Create, Running
<1>3. c \in Change /\ c.kind = "Create"
  BY <1>1 DEF CreateChange, Change, FilterInv, TreeInv, TreeTypes
<1>4. Logs({})
  BY <1>2, <1>3, AppendLogs
<1>5. TreeInv'
  BY <1>2 DEF FilterInv, TreeInv, TreeTypes, Acyclic, Grown
<1> QED BY <1>2, <1>4, <1>5, ScriptKeeps DEF FilterInv, TreeInv, TreeTypes

LEMMA SetPropertyKeeps == \A i \in Instance, v \in Value : FilterInv /\ SetProperty(i, v) => FilterInv'
<1> SUFFICES ASSUME NEW i \in Instance, NEW v \in Value, FilterInv, SetProperty(i, v) PROVE FilterInv'
  OBVIOUS
<1>1. PICK c : c = PropertyChange(i, v)
  OBVIOUS
<1>2. /\ Running /\ log' = Append(log, c)
      /\ value' = [value EXCEPT ![i] = v] /\ UNCHANGED <<parent, status, known>>
  BY <1>1 DEF SetProperty, Running
<1>3. c \in Change /\ c.kind = "Property"
  BY <1>1 DEF PropertyChange, Change, FilterInv, TreeInv, TreeTypes
<1>4. Logs({})
  BY <1>2, <1>3, AppendLogs
<1>5. TreeInv'
  BY <1>2 DEF FilterInv, TreeInv, TreeTypes, Acyclic, Grown
<1> QED BY <1>2, <1>4, <1>5, ScriptKeeps DEF FilterInv, TreeInv, TreeTypes

\* Nothing is put below itself, so nothing gets there.
LEMMA SetParentKeeps ==
    \A i \in Instance, p \in Instance \cup {Root, NoParent} : FilterInv /\ SetParent(i, p) => FilterInv'
<1> SUFFICES ASSUME NEW i \in Instance, NEW p \in Instance \cup {Root, NoParent}, FilterInv, SetParent(i, p)
             PROVE  FilterInv'
  OBVIOUS
<1>1. PICK c : c = ParentChange(i, p)
  OBVIOUS
<1>2. /\ Running /\ status[i] = "alive" /\ log' = Append(log, c)
      /\ p \in Instance => status[p] = "alive" /\ i \notin Above(p)
      /\ parent' = [parent EXCEPT ![i] = p] /\ UNCHANGED <<status, value, known>>
  BY <1>1 DEF SetParent, Running
<1>3. c \in Change /\ c.kind = "Parent" /\ c.id = i
  BY <1>1, InstanceAssumption DEF InstanceAssumption, ParentChange, Change
<1>4. Logs({i})
  BY <1>2, <1>3, AppendLogs
<1>5. parent \in [Instance -> Instance \cup {Root, NoParent}]
  BY DEF FilterInv, TreeInv, TreeTypes
<1>6. parent'[i] = p /\ \A j \in Instance \ {i} : parent'[j] = parent[j]
  BY <1>2, <1>5
<1>7. TreeTypes' /\ Grown'
  BY <1>2, <1>5 DEF FilterInv, TreeInv, TreeTypes, Grown
<1>8. Acyclic'
  <2> SUFFICES ASSUME NEW S \in SUBSET Instance, S # {} PROVE \E y \in S : parent'[y] \notin S
    BY DEF Acyclic
  <2>1. CASE i \notin S
    BY <1>6, <2>1 DEF FilterInv, TreeInv, Acyclic
  <2>2. CASE i \in S /\ p \notin S
    BY <1>6, <2>2
  <2>3. CASE i \in S /\ p \in S
    <3> DEFINE T == S \cap Above(p)
    <3>1. p \in T /\ T \in SUBSET Instance
      BY <2>3, WalkBegins DEF Above
    <3>2. PICK y \in T : parent[y] \notin T
      BY <3>1 DEF FilterInv, TreeInv, Acyclic
    <3>3. p \in Instance /\ y \in Above(p) /\ y \in Instance /\ y # i
      BY <1>2, <2>3, <3>2
    <3>4. parent[y] \in Instance => parent[y] \in Above(p)
      BY <3>3, WalkGoesOn DEF Above
    <3>5. parent'[y] = parent[y] /\ parent[y] \notin S
      BY <1>6, <3>2, <3>3, <3>4
    <3> QED BY <3>2, <3>5
  <2> QED BY <2>1, <2>2, <2>3
<1> QED BY <1>2, <1>4, <1>6, <1>7, <1>8, ScriptKeeps DEF FilterInv, TreeInv

\* All of a subtree is in the log of its destruction, and nothing else is destroyed in it.
LEMMA DestroyLogged ==
    ASSUME FilterInv, NEW i \in Instance, NEW s \in DepthFirst(Subtree(i)),
           NEW L, L = {c \in Change : c.kind = "Destroy" => c.id \in Subtree(i)}
    PROVE  DestroyLog(s) \in Seq(L) /\ \A k \in Subtree(i) : DestroyChange(k) \in ToSet(DestroyLog(s))
<1> DEFINE D == Subtree(i)
           Detach(k) == IF parent[k] = NoParent THEN <<>> ELSE <<ParentChange(k, NoParent)>>
           Gone(m, n) == IF m + Cardinality(Subtree(s[m])) - 1 = n THEN <<DestroyChange(s[m])>> ELSE <<>>
           ends == [n \in DOMAIN s |-> [k \in 1..n |-> Gone(n + 1 - k, n)]]
           w == [n \in DOMAIN s |-> Detach(s[n]) \o FlattenSeq(ends[n])]
<1>1. D \subseteq Instance
  BY SubtreeIs
<1>2. s \in SetToSeqs(D) /\ \A m \in DOMAIN s : m + Cardinality(Subtree(s[m])) - 1 <= Len(s)
  BY DEF DepthFirst
<1>3. s \in Seq(D) /\ ToSet(s) = D /\ DOMAIN s = 1..Len(s) /\ Len(s) \in Nat
  <2>1. IsFiniteSet(D)
    BY <1>1, FS_Subset, InstanceAssumption DEF InstanceAssumption
  <2> QED BY <1>2, <2>1, SetToSeqsEntries
<1>4. \A k \in D : DestroyChange(k) \in L /\ ParentChange(k, NoParent) \in L
  BY <1>1, InstanceAssumption DEF InstanceAssumption, DestroyChange, ParentChange, Change
<1>5. w \in Seq(Seq(L)) /\ DOMAIN w = DOMAIN s
      /\ \A n \in DOMAIN s : ends[n] \in Seq(Seq(L)) /\ ToSet(FlattenSeq(ends[n])) \subseteq ToSet(w[n])
  <2>0. /\ <<>> \in Seq(L)
        /\ \A k \in D : <<DestroyChange(k)>> \in Seq(L) /\ <<ParentChange(k, NoParent)>> \in Seq(L)
    <3>1. <<>> \in Seq(L) /\ \A c \in L : <<c>> \in Seq(L)
      OBVIOUS
    <3> HIDE DEF D
    <3> QED BY <1>4, <3>1
  <2>1. ASSUME NEW n \in DOMAIN s
        PROVE  /\ ends[n] \in Seq(Seq(L)) /\ FlattenSeq(ends[n]) \in Seq(L)
               /\ Detach(s[n]) \in Seq(L)
    <3>1. ASSUME NEW m \in 1..n PROVE Gone(m, n) \in Seq(L)
      <4>1. m \in DOMAIN s /\ s[m] \in D
        BY <1>3
      <4>2. PICK k \in D : k = s[m]
        BY <4>1
      <4>3. <<DestroyChange(k)>> \in Seq(L)
        BY <2>0, <4>2
      <4> QED BY <2>0, <4>2, <4>3
    <3>2. ends[n] = [k \in 1..n |-> Gone(n + 1 - k, n)] /\ n \in Nat
      BY <1>3
    <3>3. \A k \in 1..n : n + 1 - k \in 1..n
      BY <3>2
    <3>4. ends[n] \in Seq(Seq(L))
      <4> HIDE DEF Gone, ends
      <4>1. PICK Q : Q = Seq(L)
        OBVIOUS
      <4>2. ends[n] \in [1..n -> Q]
        BY <3>1, <3>2, <3>3, <4>1
      <4>3. ends[n] \in Seq(Q)
        BY <3>2, <4>2, FunctionIsList
      <4> QED BY <4>1, <4>3, Zenon
    <3>5. FlattenSeq(ends[n]) \in Seq(L)
      BY <3>4, FlattenType
    <3>6. Detach(s[n]) \in Seq(L)
      <4>1. PICK k \in D : k = s[n]
        BY <1>3
      <4>2. <<ParentChange(k, NoParent)>> \in Seq(L)
        BY <2>0, <4>1
      <4> QED BY <2>0, <4>1, <4>2
    <3> QED BY <3>4, <3>5, <3>6
  <2> HIDE DEF Detach, ends
  <2>2. \A n \in DOMAIN s : /\ Detach(s[n]) \o FlattenSeq(ends[n]) \in Seq(L)
                            /\ ToSet(FlattenSeq(ends[n])) \subseteq ToSet(Detach(s[n]) \o FlattenSeq(ends[n]))
    BY <2>1, JoinedSet
  <2>3. w \in Seq(Seq(L)) /\ DOMAIN w = DOMAIN s
    BY <1>3, <2>2
  <2> QED BY <2>1, <2>2, <2>3
<1>6. DestroyLog(s) = FlattenSeq(w)
  BY DEF DestroyLog
<1>7. ASSUME NEW k \in D PROVE DestroyChange(k) \in ToSet(DestroyLog(s))
  <2>1. PICK m \in DOMAIN s : s[m] = k
    BY <1>3 DEF ToSet
  <2>2. PICK size : size = Cardinality(Subtree(k))
    OBVIOUS
  <2>3. size \in Nat /\ size > 0
    <3>1. IsFiniteSet(Subtree(k)) /\ Subtree(k) # {}
      BY <1>1, FS_Subset, SubtreeIs, InstanceAssumption DEF InstanceAssumption
    <3> QED BY <2>2, <3>1, FS_CardinalityType, FS_EmptySet
  <2>4. PICK n : n = m + size - 1
    OBVIOUS
  <2>5. n \in DOMAIN s /\ m \in 1..n
    <3>1. m + size - 1 <= Len(s)
      BY <1>2, <2>1, <2>2
    <3> QED BY <1>3, <2>3, <2>4, <3>1
  <2>6. PICK q : q = n + 1 - m
    OBVIOUS
  <2>7. q \in 1..n /\ n + 1 - q = m
    BY <1>3, <2>5, <2>6
  <2>8. Gone(m, n) = <<DestroyChange(k)>>
    BY <2>1, <2>2, <2>4
  <2>9. ends[n] = [k2 \in 1..n |-> Gone(n + 1 - k2, n)]
    BY <2>5
  <2>10. q \in DOMAIN ends[n] /\ ends[n][q] = <<DestroyChange(k)>>
    <3> HIDE DEF Gone, ends
    <3> QED BY <2>7, <2>8, <2>9
  <2>11. DestroyChange(k) \in ToSet(<<DestroyChange(k)>>)
    BY DEF ToSet
  <2> HIDE DEF ends, w
  <2>12. DestroyChange(k) \in ToSet(FlattenSeq(ends[n]))
    BY <1>5, <2>5, <2>10, <2>11, FlattenHas
  <2>13. DestroyChange(k) \in ToSet(w[n]) /\ n \in DOMAIN w
    BY <1>5, <2>5, <2>12
  <2> QED BY <1>5, <1>6, <2>13, FlattenHas
<1> HIDE DEF w
<1>8. DestroyLog(s) \in Seq(L)
  BY <1>5, <1>6, FlattenType
<1> QED BY <1>7, <1>8

LEMMA DestroyKeeps == \A i \in Instance : FilterInv /\ Destroy(i) => FilterInv'
<1> SUFFICES ASSUME NEW i \in Instance, FilterInv, Destroy(i) PROVE FilterInv'
  OBVIOUS
<1>1. PICK D : D = Subtree(i)
  OBVIOUS
<1>2. PICK s \in DepthFirst(D) : log' = log \o DestroyLog(s)
  BY <1>1 DEF Destroy
<1>3. /\ Running /\ UNCHANGED <<value, known>>
      /\ parent' = [k \in Instance |-> IF k \in D THEN NoParent ELSE parent[k]]
      /\ status' = [k \in Instance |-> IF k \in D THEN "destroyed" ELSE status[k]]
  BY <1>1 DEF Destroy, Running
<1>4. D \in SUBSET Instance /\ \A k \in Instance : parent[k] \in D => k \in D
  BY <1>1, SubtreeIs
<1>5. NoParent \notin Instance /\ NoParent # Root
  BY InstanceAssumption DEF InstanceAssumption
<1>6. TreeTypes'
  BY <1>3 DEF FilterInv, TreeInv, TreeTypes
<1>7. Grown'
  BY <1>3, <1>4, <1>5 DEF FilterInv, TreeInv, TreeTypes, Grown
<1>8. Acyclic'
  <2> SUFFICES ASSUME NEW S \in SUBSET Instance, S # {} PROVE \E y \in S : parent'[y] \notin S
    BY DEF Acyclic
  <2>1. PICK y \in S : parent[y] \notin S
    BY DEF FilterInv, TreeInv, Acyclic
  <2> QED BY <1>3, <1>5, <2>1
<1>9. Logs(D)
  <2> DEFINE L == {c \in Change : c.kind = "Destroy" => c.id \in D}
  <2>1. DestroyLog(s) \in Seq(L) /\ \A k \in D : DestroyChange(k) \in ToSet(DestroyLog(s))
    BY <1>1, DestroyLogged
  <2>2. PICK more : more = DestroyLog(s)
    OBVIOUS
  <2>3. more \in Seq(L) /\ more \in Seq(Change) /\ ToSet(more) \subseteq L
    <3>1. \A c \in L : c \in Change
      OBVIOUS
    <3> HIDE DEF L
    <3> QED BY <2>1, <2>2, <3>1 DEF ToSet
  <2>4. log' \in Seq(Change) /\ ToSet(log') = ToSet(log) \cup ToSet(more)
    BY <1>2, <2>2, <2>3, JoinedSet DEF FilterInv, Logged
  <2>5. \A c \in ToSet(log') \ ToSet(log) : c.kind = "Destroy" => status'[c.id] = "destroyed"
    BY <1>3, <1>4, <2>3, <2>4
  <2>6. ASSUME NEW k \in D PROVE Due(k)'
    <3>1. DestroyChange(k) \in ToSet(log')
      BY <2>1, <2>2, <2>4
    <3>2. DestroyChange(k).id = k /\ DestroyChange(k).kind = "Destroy"
      BY DEF DestroyChange
    <3> QED BY <3>1, <3>2 DEF Due
  <2> QED BY <2>4, <2>5, <2>6 DEF Logs
<1> QED BY <1>3, <1>4, <1>6, <1>7, <1>8, <1>9, ScriptKeeps DEF FilterInv, TreeInv, TreeTypes

LEMMA FilterStep == FilterInv /\ [ReplicatorNext]_replicatorVars => FilterInv'
<1> SUFFICES ASSUME FilterInv, [ReplicatorNext]_replicatorVars PROVE FilterInv'
  OBVIOUS
<1>1. TakeReplication \/ Join => FilterInv'
  BY NextFrameKeeps DEF TakeReplication, Join
<1>2. CASE UNCHANGED replicatorVars
  BY <1>2 DEF replicatorVars, FilterInv, TreeInv, TreeTypes, Acyclic, Grown, Logged, KnownOrDue,
       UnknownOrDue, Told, Due, Visible, Above, ReachUp
<1> QED BY <1>1, <1>2, CreateKeeps, DestroyKeeps, SetParentKeeps, SetPropertyKeeps, EndFrameKeeps,
           FilterChangeKeeps DEF ReplicatorNext

(***************************************************************************)
(* "known_; // ids every client has, == the visible set between frames"     *)
(* (rbx_net.h): once somebody has joined, and whatever the frames moved,     *)
(* created and destroyed, however deep and in whatever order, the filter     *)
(* leaves `known' equal to what is under a replicating service.             *)
(***************************************************************************)
THEOREM KnownCorrect == ReplicatorSpec => []KnownIsVisible
<1>1. FilterInv => KnownIsVisible
  BY KnownAtTheEnd DEF KnownIsVisible
<1> QED BY InitFilter, FilterStep, <1>1, PTL DEF ReplicatorSpec

(***************************************************************************)
(* The same with clients: nothing they do reaches the replicator.           *)
(***************************************************************************)
THEOREM KnownWithClients == ReplicationSpec => []KnownIsVisible
<1>1. ReplicationInit => ReplicatorInit
  BY DEF ReplicationInit
<1>2. [ReplicationNext]_allVars => [ReplicatorNext]_replicatorVars
  BY DEF ReplicationNext, allVars, ServerStep, Deliver, Welcome, Apply, Leave, ReplicatorNext
<1>3. ReplicationSpec => ReplicatorSpec
  BY <1>1, <1>2, PTL DEF ReplicationSpec, ReplicatorSpec
<1> QED BY <1>3, KnownCorrect, PTL
=============================================================================

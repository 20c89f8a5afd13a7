--------------------------- MODULE SessionProofs ----------------------------
(***************************************************************************)
(* Proofs about Session, for any clients, names, players and bounds.       *)
(***************************************************************************)
EXTENDS Session, DataProofs

(***************************************************************************)
(* Lists: what is in one after it grew or shrank, and its first element of *)
(* a kind.                                                                 *)
(***************************************************************************)
LEMMA Appended ==
    ASSUME NEW S, NEW s \in Seq(S), NEW e \in S
    PROVE  Append(s, e) \in Seq(S) /\ Range(Append(s, e)) = Range(s) \cup {e}
<1>1. Append(s, e) \in Seq(S) /\ DOMAIN Append(s, e) = 1..(Len(s) + 1)
  OBVIOUS
<1>2. \A i \in 1..Len(s) : Append(s, e)[i] = s[i]
  OBVIOUS
<1>3. Append(s, e)[Len(s) + 1] = e
  OBVIOUS
<1>4. DOMAIN s = 1..Len(s) /\ 1..(Len(s) + 1) = 1..Len(s) \cup {Len(s) + 1}
  OBVIOUS
<1> DEFINE t == Append(s, e)
<1> HIDE DEF t
<1>5. DOMAIN t = 1..Len(s) \cup {Len(s) + 1} /\ t[Len(s) + 1] = e /\ \A i \in 1..Len(s) : t[i] = s[i]
  BY <1>1, <1>2, <1>3, <1>4 DEF t
<1>6. Range(t) = Range(s) \cup {e}
  BY <1>4, <1>5 DEF Range
<1> QED BY <1>1, <1>6 DEF t

LEMMA AppendedOnce ==
    ASSUME NEW S, NEW s \in Seq(S), NEW e \in S, IsInjective(s), e \notin Range(s)
    PROVE  IsInjective(Append(s, e))
<1> SUFFICES ASSUME NEW i \in 1..(Len(s) + 1), NEW j \in 1..(Len(s) + 1),
                    Append(s, e)[i] = Append(s, e)[j]
             PROVE  i = j
  BY DEF IsInjective
<1>1. \A k \in 1..Len(s) : Append(s, e)[k] = s[k] /\ s[k] # e
  BY DEF Range
<1>2. Append(s, e)[Len(s) + 1] = e
  OBVIOUS
<1>3. CASE i \in 1..Len(s) /\ j \in 1..Len(s)
  BY <1>1, <1>3 DEF IsInjective
<1>4. CASE i = Len(s) + 1 \/ j = Len(s) + 1
  BY <1>1, <1>2, <1>4
<1> QED BY <1>3, <1>4

LEMMA Joined ==
    ASSUME NEW S, NEW s \in Seq(S), NEW t \in Seq(S)
    PROVE  s \o t \in Seq(S) /\ Range(s \o t) = Range(s) \cup Range(t)
<1>1. s \o t \in Seq(S) /\ DOMAIN (s \o t) = 1..(Len(s) + Len(t))
  OBVIOUS
<1>2. \A i \in 1..Len(s) : (s \o t)[i] = s[i]
  OBVIOUS
<1>3. \A i \in 1..Len(t) : i + Len(s) \in 1..(Len(s) + Len(t)) /\ (s \o t)[i + Len(s)] = t[i]
  OBVIOUS
<1>4. \A i \in 1..(Len(s) + Len(t)) : i \in 1..Len(s) \/ i - Len(s) \in 1..Len(t)
  OBVIOUS
<1>5. \A i \in 1..(Len(s) + Len(t)) : i \in 1..Len(s) \/ (s \o t)[i] = t[i - Len(s)]
  OBVIOUS
<1>6. 1..Len(s) \subseteq 1..(Len(s) + Len(t))
  OBVIOUS
<1>7. DOMAIN s = 1..Len(s) /\ DOMAIN t = 1..Len(t)
  OBVIOUS
<1> DEFINE u == s \o t
<1> HIDE DEF u
<1>8. Range(u) \subseteq Range(s) \cup Range(t)
  BY <1>1, <1>2, <1>4, <1>5, <1>7 DEF Range, u
<1>9. Range(s) \subseteq Range(u) /\ Range(t) \subseteq Range(u)
  BY <1>1, <1>2, <1>3, <1>6, <1>7 DEF Range, u
<1> QED BY <1>1, <1>8, <1>9 DEF u

LEMMA Taken ==
    ASSUME NEW S, NEW s \in Seq(S), s # <<>>
    PROVE  /\ Tail(s) \in Seq(S) /\ Head(s) \in S
           /\ Range(s) = Range(Tail(s)) \cup {Head(s)}
<1>1. Tail(s) \in Seq(S) /\ Head(s) \in S /\ Head(s) = s[1] /\ Len(s) > 0
  OBVIOUS
<1>2. DOMAIN Tail(s) = 1..(Len(s) - 1) /\ DOMAIN s = 1..Len(s)
  OBVIOUS
<1>3. \A i \in 1..(Len(s) - 1) : Tail(s)[i] = s[i + 1] /\ i + 1 \in 1..Len(s)
  OBVIOUS
<1>4. \A i \in 1..Len(s) : i = 1 \/ (i - 1 \in 1..(Len(s) - 1) /\ Tail(s)[i - 1] = s[i])
  OBVIOUS
<1>5. 1 \in 1..Len(s)
  BY <1>1
<1> DEFINE t == Tail(s)
<1> HIDE DEF t
<1>6. Range(t) \subseteq Range(s) /\ Head(s) \in Range(s)
  BY <1>1, <1>2, <1>3, <1>5 DEF Range, t
<1>7. Range(s) \subseteq Range(t) \cup {Head(s)}
  BY <1>1, <1>2, <1>4 DEF Range, t
<1> QED BY <1>1, <1>6, <1>7 DEF t

LEMMA TakenOnce ==
    ASSUME NEW S, NEW s \in Seq(S), IsInjective(s), s # <<>>
    PROVE  IsInjective(Tail(s)) /\ Head(s) \notin Range(Tail(s))
<1>1. /\ Len(s) > 0 /\ DOMAIN Tail(s) = 1..(Len(s) - 1) /\ DOMAIN s = 1..Len(s)
      /\ Head(s) = s[1]
  OBVIOUS
<1>2. \A i \in 1..(Len(s) - 1) : Tail(s)[i] = s[i + 1] /\ i + 1 \in 1..Len(s) /\ i + 1 # 1
  OBVIOUS
<1>3. \A i, j \in 1..Len(s) : s[i] = s[j] => i = j
  BY <1>1 DEF IsInjective
<1>4. 1 \in 1..Len(s)
  BY <1>1
<1>5. Head(s) \notin Range(Tail(s))
  BY <1>1, <1>2, <1>3, <1>4 DEF Range
<1>6. IsInjective(Tail(s))
  <2> SUFFICES ASSUME NEW i \in 1..(Len(s) - 1), NEW j \in 1..(Len(s) - 1), Tail(s)[i] = Tail(s)[j]
               PROVE  i = j
    BY <1>1 DEF IsInjective
  <2>1. i + 1 = j + 1
    BY <1>2, <1>3
  <2> QED BY <2>1
<1> QED BY <1>5, <1>6

\* Removing the one place where something is leaves all that was elsewhere, and nothing else.
LEMMA RemovedAt ==
    ASSUME NEW S, NEW s \in Seq(S), NEW i \in 1..Len(s)
    PROVE  /\ RemoveAt(s, i) \in Seq(S)
           /\ Len(RemoveAt(s, i)) = Len(s) - 1
           /\ \A j \in 1..(Len(s) - 1) :
                 RemoveAt(s, i)[j] = IF j < i THEN s[j] ELSE s[j + 1]
<1> DEFINE a == SubSeq(s, 1, i - 1)
           b == SubSeq(s, i + 1, Len(s))
<1>1. a \in Seq(S) /\ Len(a) = i - 1 /\ \A j \in 1..(i - 1) : a[j] = s[j]
  OBVIOUS
<1>2. b \in Seq(S) /\ Len(b) = Len(s) - i
  OBVIOUS
<1>3. \A j \in 1..(Len(s) - i) : b[j] = s[i + j]
  OBVIOUS
<1> HIDE DEF a, b
<1>4. RemoveAt(s, i) = a \o b
  BY DEF RemoveAt, a, b
<1>5. a \o b \in Seq(S) /\ Len(a \o b) = Len(s) - 1
  BY <1>1, <1>2
<1>6. ASSUME NEW j \in 1..(Len(s) - 1)
      PROVE  (a \o b)[j] = IF j < i THEN s[j] ELSE s[j + 1]
  <2>1. CASE j < i
    BY <1>1, <1>2, <2>1
  <2>2. CASE ~(j < i)
    <3>1. (a \o b)[j] = b[j - (i - 1)]
      BY <1>1, <1>2, <2>2
    <3>2. j - (i - 1) \in 1..(Len(s) - i) /\ i + (j - (i - 1)) = j + 1
      BY <2>2
    <3>3. b[j - (i - 1)] = s[i + (j - (i - 1))]
      BY <1>3, <3>2
    <3> QED BY <2>2, <3>1, <3>2, <3>3
  <2> QED BY <2>1, <2>2
<1> QED BY <1>4, <1>5, <1>6

LEMMA Removed ==
    ASSUME NEW S, NEW s \in Seq(S), IsInjective(s), NEW x
    PROVE  /\ RemoveFirst(s, x) \in Seq(S) /\ IsInjective(RemoveFirst(s, x))
           /\ Range(RemoveFirst(s, x)) = Range(s) \ {x}
<1>1. CASE \A i \in 1..Len(s) : s[i] # x
  <2>1. RemoveFirst(s, x) = s
    BY <1>1 DEF RemoveFirst
  <2> QED BY <1>1, <2>1 DEF Range
<1>2. CASE \E i \in 1..Len(s) : s[i] = x
  <2> DEFINE I == {i \in 1..Len(s) : s[i] = x}
             p == Min(I)
             t == RemoveAt(s, p)
  <2>1. p \in I
    <3>1. I # {} /\ I \subseteq Nat
      BY <1>2
    <3> HIDE DEF I
    <3> QED BY <3>1, MinIs
  <2>2. SelectInSeq(s, LAMBDA v : v = x) = p
    BY <1>2 DEF SelectInSeq
  <2>3. RemoveFirst(s, x) = t
    BY <1>2, <2>2 DEF RemoveFirst
  <2> HIDE DEF p, t
  <2>4. p \in 1..Len(s) /\ s[p] = x
    BY <2>1
  <2>5. /\ t \in Seq(S) /\ Len(t) = Len(s) - 1
        /\ \A j \in 1..(Len(s) - 1) : t[j] = IF j < p THEN s[j] ELSE s[j + 1]
    BY <2>4, RemovedAt DEF t
  <2>6. \A j, k \in 1..Len(s) : s[j] = s[k] => j = k
    BY DEF IsInjective
  <2>7. DOMAIN t = 1..(Len(s) - 1) /\ DOMAIN s = 1..Len(s)
    BY <2>5
  <2>8. \A j \in 1..(Len(s) - 1) :
           /\ j < p => j \in 1..Len(s) /\ j # p /\ t[j] = s[j]
           /\ ~(j < p) => j + 1 \in 1..Len(s) /\ j + 1 # p /\ t[j] = s[j + 1]
    BY <2>4, <2>5
  <2>9. \A j \in 1..Len(s) :
           /\ j < p => j \in 1..(Len(s) - 1) /\ t[j] = s[j]
           /\ j > p => j - 1 \in 1..(Len(s) - 1) /\ t[j - 1] = s[j]
    BY <2>4, <2>5
  <2>10. Range(t) \subseteq Range(s) \ {x}
    BY <2>4, <2>6, <2>7, <2>8 DEF Range
  <2>11. Range(s) \ {x} \subseteq Range(t)
    <3> SUFFICES ASSUME NEW j \in 1..Len(s), s[j] # x PROVE s[j] \in Range(t)
      BY <2>7 DEF Range
    <3>1. j < p \/ j > p
      BY <2>4
    <3> QED BY <2>7, <2>9, <3>1 DEF Range
  <2>12. IsInjective(t)
    <3> SUFFICES ASSUME NEW j \in 1..(Len(s) - 1), NEW k \in 1..(Len(s) - 1), t[j] = t[k]
                 PROVE  j = k
      BY <2>7 DEF IsInjective
    <3>1. CASE j < p /\ k < p
      BY <2>6, <2>8, <3>1
    <3>2. CASE j < p /\ ~(k < p)
      BY <2>4, <2>6, <2>8, <3>2
    <3>3. CASE ~(j < p) /\ k < p
      BY <2>4, <2>6, <2>8, <3>3
    <3>4. CASE ~(j < p) /\ ~(k < p)
      BY <2>6, <2>8, <3>4
    <3> QED BY <3>1, <3>2, <3>3, <3>4
  <2> QED BY <2>3, <2>5, <2>10, <2>11, <2>12
<1> QED BY <1>1, <1>2

-----------------------------------------------------------------------------
(***************************************************************************)
(* What a step of a session is to the joining: one of Joining's actions, or *)
(* nothing.                                                                *)
(***************************************************************************)
Idle == UNCHANGED <<hostVars, frame, given, players, made, taken, report, wireVars>>

JoiningStep ==
    \/ \E c \in Client : Connect(c) \/ Hello(c) \/ Leave(c) \/ Receive(c) \/ AddPlayer(c) \/ RemoveById(c)
    \/ \E n \in Name : RemoveByName(n)
    \/ Submit \/ ApplyServer \/ Stepping \/ EndFrame(outbox[Server]) \/ Change

LEMMA NextIsJoining == [Next]_vars => JoiningStep \/ Idle
<1>1. ASSUME NEW s \in Side, Acts(s) PROVE Idle
  BY <1>1 DEF Acts, Idle, hostVars, wireVars
<1>2. ASSUME UNCHANGED joiningVars PROVE Idle
  BY <1>2 DEF joiningVars, frameVars, Idle
<1>3. Server \in Side /\ Client \subseteq Side
  BY DEF Side
<1>4. ASSUME NEW c \in Client, ClientStep(c) PROVE JoiningStep \/ Idle
  <2>1. Connected(c) \/ Named(c) \/ Left(c) \/ Receives(c) => JoiningStep
    BY DEF Connected, Named, Left, Receives, JoiningStep
  <2>2. Posts(c) \/ ClientDelivers(c) \/ ClientHandsOver(c) => Idle
    BY <1>2 DEF Posts, ClientDelivers, ClientHandsOver
  <2>3. FireServer(c) \/ InvokeServer(c) => Idle
    BY <1>1, <1>3 DEF FireServer, FiresTo, InvokeServer
  <2> QED BY <1>4, <2>1, <2>2, <2>3 DEF ClientStep
<1>5. ASSUME NEW c \in Client, FireClient(c) \/ InvokeClient(c) PROVE Idle
  BY <1>1, <1>3, <1>5 DEF FireClient, FiresTo, InvokeClient
<1>6. Submits \/ Applies => JoiningStep
  BY DEF Submits, Applies, JoiningStep
<1>7. ServerFrame => JoiningStep \/ Idle
  BY <1>2 DEF ServerFrame, ServerDelivers, RunsJob, RunJob, StepBegins, FrameEnds, JoiningStep
<1>8. FireAllClients => Idle
  BY <1>1, <1>3 DEF FireAllClients, FiresTo
<1>9. ServerChanges => JoiningStep
  BY DEF ServerChanges, JoiningStep
<1>10. ASSUME NEW s \in Side, Scripts(s) \/ Answers(s) PROVE Idle
  BY <1>1, <1>2, <1>10 DEF Scripts, Answers
<1>11. UNCHANGED vars => Idle
  BY <1>2 DEF vars
<1> QED BY <1>4, <1>5, <1>6, <1>7, <1>8, <1>9, <1>10, <1>11 DEF Next

-----------------------------------------------------------------------------
(***************************************************************************)
(* Who is where.  A client is queued, then the one whose join is under way, *)
(* then has joined; its Player is made in the middle.  Only Submit gives   *)
(* the running frame an "add", and gives it last, so there is never a      *)
(* second one to come when a join is done.                                 *)
(***************************************************************************)
Job == [do : {"add", "remove"}, who : Client] \cup [do : {"remove named"}, name : Name]

JoiningTypes ==
    /\ peer \in [Client -> {"away", "connected", "named", "joined", "gone"}]
    /\ joinQueue \in Seq(Client) /\ IsInjective(joinQueue)
    /\ players \in Seq(Client) /\ IsInjective(players)
    /\ jobs \in Seq(Job) /\ given \in Seq(Job)
    /\ join \in [who : Client \cup {Nobody}, peer : Client \cup {Nobody}, done : BOOLEAN,
                 before : Nat, asOf : Nat]
    /\ frame \in {"apply", "run", "step", "report"}
    /\ made \in Nat /\ taken \in Nat

QueueIsNamed == \A c \in Range(joinQueue) : peer[c] = "named" /\ c # join.who

OneJoin ==
    /\ join.peer \in {join.who, Nobody}
    /\ join.who = Nobody => join = NoJoin
    /\ join.who # Nobody => peer[join.who] = IF join.peer = Nobody THEN "gone" ELSE "named"

AddsAreDue ==
    /\ frame # "run" => given = <<>>
    /\ \A j \in Range(jobs) : j.do # "add"
    /\ \A i \in DOMAIN given : given[i].do = "add" =>
          i = Len(given) /\ join.who = given[i].who /\ ~join.done

PlayersAreKnown ==
    \A c \in Range(players) :
        /\ peer[c] \in {"named", "joined", "gone"}
        /\ peer[c] = "named" => join.who = c
        /\ join.who = c => join.done

JoinInv ==
    JoiningTypes /\ QueueIsNamed /\ OneJoin /\ AddsAreDue /\ PlayersAreKnown /\ GhostsAreDoomed

LEMMA JobTypes ==
    /\ \A c \in Client : Adding(c) \in Job /\ Removing(c) \in Job
    /\ \A n \in Name : RemovingNamed(n) \in Job
    /\ \A c, d \in Client : Removing(c) = Removing(d) => c = d
    /\ \A c, d \in Client : Removing(c) # Adding(d)
    /\ \A c \in Client, n \in Name : Removing(c) # RemovingNamed(n)
    /\ \A c \in Client : Adding(c).do = "add" /\ Adding(c).who = c /\ Removing(c).do # "add"
    /\ \A n \in Name : RemovingNamed(n).do # "add"
BY DEF Adding, Removing, RemovingNamed, Job

LEMMA InitInv == Init => JoinInv
<1> SUFFICES ASSUME Init PROVE JoinInv
  OBVIOUS
<1> USE DEF Init, JoiningInit
<1>1. Range(<<>>) = {} /\ IsInjective(<<>>) /\ <<>> \in Seq(Client) /\ <<>> \in Seq(Job)
  BY DEF Range, IsInjective
<1>2. NoJoin \in [who : Client \cup {Nobody}, peer : Client \cup {Nobody}, done : BOOLEAN,
                 before : Nat, asOf : Nat]
  BY DEF NoJoin
<1>3. JoiningTypes
  BY <1>1, <1>2 DEF JoiningTypes
<1>4. OneJoin
  BY DEF OneJoin, NoJoin
<1>5. QueueIsNamed /\ PlayersAreKnown /\ GhostsAreDoomed /\ AddsAreDue
  BY <1>1 DEF QueueIsNamed, PlayersAreKnown, GhostsAreDoomed, AddsAreDue
<1> QED BY <1>3, <1>4, <1>5 DEF JoinInv

(***************************************************************************)
(* The poll.                                                               *)
(***************************************************************************)
LEMMA ConnectStep ==
    ASSUME JoinInv, NEW c \in Client, Connect(c)
    PROVE  JoinInv'
<1> USE DEF Connect, frameVars, wireVars, JoinInv
<1>1. peer' = [peer EXCEPT ![c] = "connected"] /\ peer[c] = "away"
  OBVIOUS
<1>2. UNCHANGED <<joinQueue, join, jobs, frame, given, players, made, taken>>
  OBVIOUS
<1>3. /\ peer'[c] = "connected"
      /\ \A d \in Client : d # c => peer'[d] = peer[d]
  BY <1>1 DEF JoiningTypes
<1>4. Range(joinQueue) \subseteq Client /\ Range(players) \subseteq Client
  BY DEF JoiningTypes, Range
<1>5. JoiningTypes'
  BY <1>1, <1>2 DEF JoiningTypes
<1>6. QueueIsNamed'
  BY <1>1, <1>2, <1>3, <1>4 DEF QueueIsNamed
<1>7. OneJoin'
  BY <1>1, <1>2, <1>3 DEF OneJoin, JoiningTypes
<1>8. AddsAreDue'
  BY <1>2 DEF AddsAreDue
<1>9. PlayersAreKnown'
  BY <1>1, <1>2, <1>3, <1>4 DEF PlayersAreKnown
<1>10. GhostsAreDoomed'
  BY <1>1, <1>2, <1>3, <1>4 DEF GhostsAreDoomed
<1> QED BY <1>5, <1>6, <1>7, <1>8, <1>9, <1>10

LEMMA HelloStep ==
    ASSUME JoinInv, NEW c \in Client, Hello(c)
    PROVE  JoinInv'
<1> USE DEF Hello, frameVars, wireVars, JoinInv
<1>1. peer' = [peer EXCEPT ![c] = "named"] /\ peer[c] = "connected" /\ joinQueue' = Append(joinQueue, c)
  OBVIOUS
<1>2. UNCHANGED <<join, jobs, frame, given, players, made, taken>>
  OBVIOUS
<1>3. /\ peer'[c] = "named"
      /\ \A d \in Client : d # c => peer'[d] = peer[d]
  BY <1>1 DEF JoiningTypes
<1>4. Range(joinQueue) \subseteq Client /\ Range(players) \subseteq Client
  BY DEF JoiningTypes, Range
<1>5. c \notin Range(joinQueue) /\ c # join.who /\ c \notin Range(players)
  BY <1>1, JoiningAssumption DEF QueueIsNamed, OneJoin, PlayersAreKnown, JoiningAssumption
<1>6. joinQueue' \in Seq(Client) /\ Range(joinQueue') = Range(joinQueue) \cup {c} /\ IsInjective(joinQueue')
  BY <1>1, <1>5, Appended, AppendedOnce DEF JoiningTypes
<1>7. JoiningTypes'
  BY <1>1, <1>2, <1>6 DEF JoiningTypes
<1>8. QueueIsNamed'
  BY <1>2, <1>3, <1>4, <1>5, <1>6 DEF QueueIsNamed
<1>9. OneJoin'
  BY <1>1, <1>2, <1>3 DEF OneJoin, JoiningTypes
<1>10. AddsAreDue'
  BY <1>2 DEF AddsAreDue
<1>11. PlayersAreKnown'
  BY <1>2, <1>3, <1>4, <1>5 DEF PlayersAreKnown
<1>12. GhostsAreDoomed'
  BY <1>2, <1>3, <1>4, <1>5 DEF GhostsAreDoomed
<1> QED BY <1>7, <1>8, <1>9, <1>10, <1>11, <1>12

LEMMA LeaveStep ==
    ASSUME JoinInv, NEW c \in Client, Leave(c)
    PROVE  JoinInv'
<1> USE DEF Leave, frameVars, JoinInv
<1>1. /\ peer' = [peer EXCEPT ![c] = "gone"] /\ peer[c] \in {"connected", "named", "joined"}
      /\ joinQueue' = RemoveFirst(joinQueue, c)
      /\ join' = IF join.peer = c THEN [join EXCEPT !.peer = Nobody] ELSE join
      /\ jobs' = jobs \o Removal(c)
  OBVIOUS
<1>2. UNCHANGED <<frame, given, players, made, taken>>
  OBVIOUS
<1>3. /\ peer'[c] = "gone"
      /\ \A d \in Client : d # c => peer'[d] = peer[d]
  BY <1>1 DEF JoiningTypes
<1>4. Range(joinQueue) \subseteq Client /\ Range(players) \subseteq Client
  BY DEF JoiningTypes, Range
<1>5. /\ joinQueue' \in Seq(Client) /\ IsInjective(joinQueue')
      /\ Range(joinQueue') = Range(joinQueue) \ {c}
  BY <1>1, Removed DEF JoiningTypes
<1>6. /\ Removal(c) \in Seq(Job)
      /\ \A j \in Range(Removal(c)) : j.do # "add"
      /\ peer[c] = "joined" => Removing(c) \in Range(Removal(c))
  <2>1. ASSUME NEW j \in Job PROVE <<j>> \in Seq(Job) /\ Range(<<j>>) = {j}
    BY DEF Range
  <2>2. NameOf[c] \in Name
    BY JoiningAssumption DEF JoiningAssumption
  <2>3. CASE peer[c] = "joined"
    BY <2>1, <2>3, JobTypes DEF Removal
  <2>4. CASE peer[c] = "named"
    BY <2>1, <2>2, <2>4, JobTypes DEF Removal
  <2>5. CASE peer[c] = "connected"
    <3>1. Removal(c) = <<>>
      BY <2>5 DEF Removal
    <3> QED BY <2>5, <3>1 DEF Range
  <2> QED BY <1>1, <2>3, <2>4, <2>5
<1>7. jobs' \in Seq(Job) /\ Range(jobs') = Range(jobs) \cup Range(Removal(c))
  BY <1>1, <1>6, Joined DEF JoiningTypes
<1>8. /\ join'.who = join.who /\ join'.done = join.done
      /\ join'.peer = IF join.peer = c THEN Nobody ELSE join.peer
      /\ join' \in [who : Client \cup {Nobody}, peer : Client \cup {Nobody}, done : BOOLEAN,
                    before : Nat, asOf : Nat]
      /\ join.peer # c => join' = join
  BY <1>1 DEF JoiningTypes
<1>9. JoiningTypes'
  BY <1>1, <1>2, <1>5, <1>7, <1>8 DEF JoiningTypes
<1>10. QueueIsNamed'
  BY <1>3, <1>4, <1>5, <1>8 DEF QueueIsNamed
<1>11. OneJoin'
  <2>1. c # Nobody
    BY JoiningAssumption DEF JoiningAssumption
  <2>2. CASE join.who = Nobody
    <3>1. join.peer = Nobody
      BY <2>2 DEF OneJoin
    <3> QED BY <1>8, <2>1, <2>2, <3>1 DEF OneJoin
  <2>3. CASE join.who # Nobody /\ join.peer = c
    BY <1>3, <1>8, <2>1, <2>3 DEF OneJoin
  <2>4. CASE join.who # Nobody /\ join.peer # c
    <3>1. join.who \in Client
      BY <2>4 DEF JoiningTypes
    <3>2. CASE join.who = c
      BY <1>3, <1>8, <2>4, <3>2 DEF OneJoin
    <3>3. CASE join.who # c
      BY <1>3, <1>8, <2>4, <3>1, <3>3 DEF OneJoin
    <3> QED BY <3>2, <3>3
  <2> QED BY <2>2, <2>3, <2>4
<1>12. AddsAreDue'
  BY <1>2, <1>6, <1>7, <1>8 DEF AddsAreDue
<1>13. PlayersAreKnown'
  BY <1>2, <1>3, <1>4, <1>8 DEF PlayersAreKnown
<1>14. GhostsAreDoomed'
  BY <1>1, <1>2, <1>3, <1>4, <1>6, <1>7, <1>8 DEF GhostsAreDoomed, PlayersAreKnown
<1> QED BY <1>9, <1>10, <1>11, <1>12, <1>13, <1>14

(***************************************************************************)
(* The host between two frames.                                            *)
(***************************************************************************)
LEMMA SubmitStep ==
    ASSUME JoinInv, Submit
    PROVE  JoinInv'
<1> USE DEF JoinInv
<1>1. /\ frame = "apply" /\ frame' = "run" /\ jobs' = <<>>
      /\ UNCHANGED <<peer, players, made, taken>>
  BY DEF Submit
<1>2. Range(<<>>) = {} /\ <<>> \in Seq(Job)
  BY DEF Range
<1>3. Range(joinQueue) \subseteq Client /\ Range(players) \subseteq Client
  BY DEF JoiningTypes, Range
<1>4. given = <<>>
  BY <1>1 DEF AddsAreDue
<1>5. CASE ~Dispatches
  <2>1. given' = jobs /\ UNCHANGED <<join, joinQueue>>
    BY <1>5 DEF Submit
  <2>2. JoiningTypes'
    BY <1>1, <1>2, <2>1 DEF JoiningTypes
  <2>3. QueueIsNamed' /\ OneJoin' /\ PlayersAreKnown'
    BY <1>1, <2>1 DEF QueueIsNamed, OneJoin, PlayersAreKnown
  <2>4. AddsAreDue'
    BY <1>1, <1>2, <2>1 DEF AddsAreDue, Range
  <2>5. GhostsAreDoomed'
    BY <1>1, <1>2, <1>4, <2>1 DEF GhostsAreDoomed
  <2> QED BY <2>2, <2>3, <2>4, <2>5
<1>6. CASE Dispatches
  <2> DEFINE c == Head(joinQueue)
  <2>1. join = NoJoin /\ joinQueue # <<>>
    BY <1>6 DEF Dispatches
  <2>2. /\ c \in Client /\ joinQueue' = Tail(joinQueue) /\ joinQueue' \in Seq(Client)
        /\ Range(joinQueue) = Range(joinQueue') \cup {c}
    <3>1. joinQueue' = Tail(joinQueue)
      BY <1>6 DEF Submit
    <3>2. joinQueue \in Seq(Client)
      BY DEF JoiningTypes
    <3> QED BY <2>1, <3>1, <3>2, Taken
  <2>3. IsInjective(joinQueue') /\ c \notin Range(joinQueue')
    BY <2>1, <2>2, TakenOnce DEF JoiningTypes
  <2>4. join' = [who |-> c, peer |-> c, done |-> FALSE, before |-> 0, asOf |-> 0]
    BY <1>6 DEF Submit, NoJoin
  <2>5. given' = Append(jobs, Adding(c))
    BY <1>6 DEF Submit
  <2> HIDE DEF c
  <2>6. /\ given' \in Seq(Job) /\ Range(given') = Range(jobs) \cup {Adding(c)}
        /\ Len(given') = Len(jobs) + 1
        /\ \A i \in 1..Len(jobs) : given'[i] = jobs[i]
        /\ given'[Len(given')] = Adding(c)
    <3>1. Adding(c) \in Job /\ jobs \in Seq(Job)
      BY <2>2, JobTypes DEF JoiningTypes
    <3>2. given' \in Seq(Job) /\ Range(given') = Range(jobs) \cup {Adding(c)}
      BY <2>5, <3>1, Appended
    <3> QED BY <2>5, <3>1, <3>2
  <2>7. peer[c] = "named" /\ c \notin Range(players)
    BY <2>1, <2>2, JoiningAssumption DEF QueueIsNamed, PlayersAreKnown, NoJoin, JoiningAssumption
  <2>8. JoiningTypes'
    BY <1>1, <1>2, <2>2, <2>3, <2>4, <2>6 DEF JoiningTypes
  <2>9. QueueIsNamed'
    BY <1>1, <2>2, <2>3, <2>4 DEF QueueIsNamed
  <2>10. OneJoin'
    BY <1>1, <2>2, <2>4, <2>7, JoiningAssumption DEF OneJoin, JoiningAssumption
  <2>11. AddsAreDue'
    <3>1. \A j \in Range(jobs)' : j.do # "add"
      BY <1>1, <1>2
    <3>2. ASSUME NEW i \in DOMAIN given', given'[i].do = "add"
          PROVE  i = Len(given') /\ join'.who = given'[i].who /\ ~join'.done
      <4>1. i \in 1..Len(jobs) \/ i = Len(given')
        BY <2>6 DEF JoiningTypes
      <4>2. i \notin 1..Len(jobs)
        BY <2>6, <3>2 DEF AddsAreDue, Range, JoiningTypes
      <4> QED BY <2>2, <2>4, <2>6, <4>1, <4>2, JobTypes
    <3> QED BY <1>1, <3>1, <3>2 DEF AddsAreDue
  <2>12. PlayersAreKnown'
    BY <1>1, <2>1, <2>4, <2>7, <1>3, JoiningAssumption
       DEF PlayersAreKnown, NoJoin, JoiningAssumption
  <2>13. GhostsAreDoomed'
    BY <1>1, <1>2, <1>3, <1>4, <2>1, <2>6, JoiningAssumption DEF GhostsAreDoomed, NoJoin, JoiningAssumption
  <2> QED BY <2>8, <2>9, <2>10, <2>11, <2>12, <2>13
<1> QED BY <1>5, <1>6

(***************************************************************************)
(* The frame.                                                              *)
(***************************************************************************)
LEMMA NextJobStep ==
    ASSUME JoinInv, NEW job, NextJob(job)
    PROVE  /\ given' \in Seq(Job) /\ Range(given) = Range(given') \cup {job} /\ frame = "run"
           /\ job.do = "add" => given' = <<>> /\ join.who = job.who /\ ~join.done
           /\ \A i \in DOMAIN given' : given'[i].do = "add" =>
                 i = Len(given') /\ join.who = given'[i].who /\ ~join.done
           /\ UNCHANGED <<peer, joinQueue, jobs, frame>>
<1> USE DEF JoinInv
<1>1. given \in Seq(Job) /\ given # <<>> /\ given' = Tail(given) /\ job = Head(given) /\ frame = "run"
  BY DEF NextJob, JoiningTypes
<1>2. UNCHANGED <<peer, joinQueue, jobs, frame>>
  BY DEF NextJob
<1>3. given' \in Seq(Job) /\ Range(given) = Range(given') \cup {job}
  BY <1>1, Taken
<1>4. /\ Len(given) > 0 /\ job = given[1] /\ Len(given') = Len(given) - 1
      /\ DOMAIN given = 1..Len(given) /\ DOMAIN given' = 1..Len(given')
      /\ \A i \in 1..(Len(given) - 1) : given'[i] = given[i + 1]
  BY <1>1
<1>5. ASSUME job.do = "add"
      PROVE  given' = <<>> /\ join.who = job.who /\ ~join.done
  <2>1. 1 = Len(given) /\ join.who = job.who /\ ~join.done
    BY <1>4, <1>5 DEF AddsAreDue
  <2>2. Len(given') = 0
    BY <1>1, <1>4, <2>1
  <2>3. given' = <<>>
    BY <1>3, <2>2
  <2> QED BY <2>1, <2>3
<1>6. ASSUME NEW i \in DOMAIN given', given'[i].do = "add"
      PROVE  i = Len(given') /\ join.who = given'[i].who /\ ~join.done
  <2>1. i + 1 \in DOMAIN given /\ given'[i] = given[i + 1]
    BY <1>4
  <2>2. i + 1 = Len(given) /\ join.who = given'[i].who /\ ~join.done
    BY <1>6, <2>1 DEF AddsAreDue
  <2> QED BY <1>4, <2>2
<1> QED BY <1>1, <1>2, <1>3, <1>5, <1>6

LEMMA AddPlayerStep ==
    ASSUME JoinInv, NEW c \in Client, AddPlayer(c)
    PROVE  JoinInv'
<1> USE DEF JoinInv
<1>1. /\ players' = Append(players, c) /\ made' = made + 1 /\ taken' = made'
      /\ join' = [join EXCEPT !.done = TRUE, !.before = taken, !.asOf = made']
      /\ NextJob(Adding(c))
  BY DEF AddPlayer
<1>2. /\ given' = <<>> /\ given' \in Seq(Job) /\ Range(given) = Range(given') \cup {Adding(c)}
      /\ join.who = c /\ ~join.done
      /\ UNCHANGED <<peer, joinQueue, jobs, frame>>
  BY <1>1, NextJobStep, JobTypes
<1>3. Range(joinQueue) \subseteq Client /\ Range(players) \subseteq Client
  BY DEF JoiningTypes, Range
<1>4. c \notin Range(players)
  BY <1>2 DEF PlayersAreKnown
<1>5. players' \in Seq(Client) /\ Range(players') = Range(players) \cup {c} /\ IsInjective(players')
  BY <1>1, <1>4, Appended, AppendedOnce DEF JoiningTypes
<1>6. /\ join'.who = join.who /\ join'.peer = join.peer /\ join'.done = TRUE
      /\ join' \in [who : Client \cup {Nobody}, peer : Client \cup {Nobody}, done : BOOLEAN,
                    before : Nat, asOf : Nat]
  <2>1. taken \in Nat /\ made' \in Nat
    BY <1>1 DEF JoiningTypes
  <2>2. join \in [who : Client \cup {Nobody}, peer : Client \cup {Nobody}, done : BOOLEAN,
                 before : Nat, asOf : Nat]
    BY DEF JoiningTypes
  <2> QED BY <1>1, <2>1, <2>2
<1>7. made' \in Nat /\ taken' \in Nat
  BY <1>1 DEF JoiningTypes
<1>8. JoiningTypes'
  BY <1>2, <1>5, <1>6, <1>7 DEF JoiningTypes
<1>9. QueueIsNamed'
  BY <1>2, <1>6 DEF QueueIsNamed
<1>10. OneJoin'
  BY <1>2, <1>6, JoiningAssumption DEF OneJoin, JoiningAssumption
<1>11. AddsAreDue'
  BY <1>2 DEF AddsAreDue
<1>12. PlayersAreKnown'
  <2>1. peer[c] \in {"named", "gone"}
    BY <1>2, JoiningAssumption DEF OneJoin, JoiningAssumption
  <2> QED BY <1>2, <1>5, <1>6, <2>1 DEF PlayersAreKnown
<1>13. GhostsAreDoomed'
  <2>1. \A d \in Client : Removing(d) \in Range(given) => Removing(d) \in Range(given')
    BY <1>2, JobTypes
  <2> QED BY <1>2, <1>3, <1>5, <1>6, <2>1 DEF GhostsAreDoomed
<1> QED BY <1>8, <1>9, <1>10, <1>11, <1>12, <1>13

\* Either way of removing takes one Player, and its client is gone if it was a Removing that did.
LEMMA RemoveStep ==
    ASSUME JoinInv, NEW job, NextJob(job), job.do # "add", UNCHANGED <<join, taken>>,
           \/ \E c \in Client : /\ \A d \in Client : job = Removing(d) => c = d
                                /\ players' = RemoveFirst(players, c)
           \/ UNCHANGED players /\ \A d \in Client : job # Removing(d),
           made' \in {made, made + 1}
    PROVE  JoinInv'
<1> USE DEF JoinInv
<1>1. /\ given' \in Seq(Job) /\ Range(given) = Range(given') \cup {job} /\ frame = "run"
      /\ \A i \in DOMAIN given' : given'[i].do = "add" =>
            i = Len(given') /\ join.who = given'[i].who /\ ~join.done
      /\ UNCHANGED <<peer, joinQueue, jobs, frame, join, taken>>
  BY NextJobStep
<1>2. Range(joinQueue) \subseteq Client /\ Range(players) \subseteq Client
  BY DEF JoiningTypes, Range
<1>3. /\ players' \in Seq(Client) /\ IsInjective(players') /\ Range(players') \subseteq Range(players)
      /\ \A d \in Client : job = Removing(d) => d \notin Range(players')
  <2>1. players \in Seq(Client) /\ IsInjective(players)
    BY DEF JoiningTypes
  <2>2. CASE UNCHANGED players /\ \A d \in Client : job # Removing(d)
    BY <2>1, <2>2
  <2>3. ASSUME NEW c \in Client, \A d \in Client : job = Removing(d) => c = d,
               players' = RemoveFirst(players, c)
        PROVE  /\ players' \in Seq(Client) /\ IsInjective(players')
               /\ Range(players') \subseteq Range(players)
               /\ \A d \in Client : job = Removing(d) => d \notin Range(players')
    <3>1. /\ players' \in Seq(Client) /\ IsInjective(players')
          /\ Range(players') = Range(players) \ {c}
      BY <2>1, <2>3, Removed
    <3> QED BY <2>3, <3>1
  <2> QED BY <2>2, <2>3
<1>4. made' \in Nat
  BY DEF JoiningTypes
<1>5. JoiningTypes'
  BY <1>1, <1>3, <1>4 DEF JoiningTypes
<1>6. QueueIsNamed' /\ OneJoin'
  BY <1>1 DEF QueueIsNamed, OneJoin
<1>7. AddsAreDue'
  BY <1>1 DEF AddsAreDue
<1>8. PlayersAreKnown'
  BY <1>1, <1>3 DEF PlayersAreKnown
<1>9. GhostsAreDoomed'
  <2> SUFFICES ASSUME NEW d \in Range(players'), peer[d] = "gone"
               PROVE  join.who = d \/ Removing(d) \in Range(jobs) \cup Range(given')
    BY <1>1 DEF GhostsAreDoomed
  <2>1. d \in Client /\ job # Removing(d)
    BY <1>2, <1>3
  <2> QED BY <1>1, <1>3, <2>1 DEF GhostsAreDoomed
<1> QED BY <1>5, <1>6, <1>7, <1>8, <1>9

LEMMA FirstCalled ==
    ASSUME NEW n, players \in Seq(Client), Called(n) # 0
    PROVE  players[Called(n)] \in Range(players) /\ NameOf[players[Called(n)]] = n
<1> DEFINE I == {i \in 1..Len(players) : NameOf[players[i]] = n}
<1>1. SelectInSeq(players, LAMBDA c : NameOf[c] = n) = IF I # {} THEN Min(I) ELSE 0
  BY DEF SelectInSeq
<1>2. I # {} /\ Called(n) = Min(I)
  BY <1>1 DEF Called
<1>3. I \subseteq Nat
  OBVIOUS
<1>4. Min(I) \in I
  <2> HIDE DEF I
  <2> QED BY <1>2, <1>3, MinIs
<1>5. Called(n) \in 1..Len(players) /\ NameOf[players[Called(n)]] = n
  BY <1>2, <1>4
<1>6. DOMAIN players = 1..Len(players)
  OBVIOUS
<1> QED BY <1>5, <1>6 DEF Range

LEMMA RemoveByIdStep ==
    ASSUME JoinInv, NEW c \in Client, RemoveById(c)
    PROVE  JoinInv'
<1>1. /\ NextJob(Removing(c)) /\ players' = RemoveFirst(players, c) /\ UNCHANGED <<join, taken>>
      /\ made' \in {made, made + 1}
  BY DEF RemoveById, RemovePlayer
<1>2. Removing(c).do # "add" /\ \A d \in Client : Removing(c) = Removing(d) => c = d
  BY JobTypes
<1> QED BY <1>1, <1>2, RemoveStep

LEMMA RemoveByNameStep ==
    ASSUME JoinInv, NEW n \in Name, RemoveByName(n)
    PROVE  JoinInv'
<1>1. RemovingNamed(n).do # "add" /\ \A d \in Client : RemovingNamed(n) # Removing(d)
  BY JobTypes
<1>2. NextJob(RemovingNamed(n))
  BY DEF RemoveByName
<1>3. CASE Called(n) = 0
  <2>1. UNCHANGED <<players, made, join, taken>>
    BY <1>3 DEF RemoveByName
  <2> QED BY <1>1, <1>2, <2>1, RemoveStep
<1>4. CASE Called(n) # 0
  <2>1. players[Called(n)] \in Client
    <3>1. players \in Seq(Client)
      BY DEF JoinInv, JoiningTypes
    <3>2. players[Called(n)] \in Range(players)
      BY <1>4, <3>1, FirstCalled
    <3> QED BY <3>1, <3>2 DEF Range
  <2>2. /\ players' = RemoveFirst(players, players[Called(n)]) /\ UNCHANGED <<join, taken>>
        /\ made' \in {made, made + 1}
    BY <1>4 DEF RemoveByName, RemovePlayer
  <2> QED BY <1>1, <1>2, <2>1, <2>2, RemoveStep
<1> QED BY <1>3, <1>4

(***************************************************************************)
(* Steps that leave the clients and their Players as they are.             *)
(***************************************************************************)
LEMMA OtherStep ==
    ASSUME JoinInv, UNCHANGED <<peer, joinQueue, join, jobs, given, players>>,
           made' \in Nat, taken' \in Nat, frame' \in {"apply", "run", "step", "report"},
           frame' # "run" => given = <<>>
    PROVE  JoinInv'
<1> USE DEF JoinInv
<1>1. JoiningTypes'
  BY DEF JoiningTypes
<1>2. QueueIsNamed' /\ OneJoin'
  BY DEF QueueIsNamed, OneJoin
<1>3. AddsAreDue'
  BY DEF AddsAreDue
<1>4. PlayersAreKnown' /\ GhostsAreDoomed'
  BY DEF PlayersAreKnown, GhostsAreDoomed
<1> QED BY <1>1, <1>2, <1>3, <1>4

LEMMA OtherSteps ==
    ASSUME JoinInv, NEW ms,
           (\E c \in Client : Receive(c)) \/ Stepping \/ EndFrame(ms) \/ Change \/ Idle
    PROVE  JoinInv'
<1>1. /\ UNCHANGED <<peer, joinQueue, join, jobs, given, players>>
      /\ made' \in {made, made + 1} /\ taken' \in {taken, made}
      /\ frame' \in {frame, "step", "report"} /\ (frame' # frame => given = <<>> \/ frame = "step")
  <2>1. CASE \E c \in Client : Receive(c)
    BY <2>1 DEF Receive, hostVars, frameVars
  <2>2. CASE Stepping
    BY <2>2 DEF Stepping, hostVars
  <2>3. CASE EndFrame(ms)
    BY <2>3 DEF EndFrame, hostVars
  <2>4. CASE Change
    BY <2>4 DEF Change, hostVars
  <2>5. CASE Idle
    BY <2>5 DEF Idle, hostVars
  <2> QED BY <2>1, <2>2, <2>3, <2>4, <2>5
<1>2. made \in Nat /\ taken \in Nat /\ frame \in {"apply", "run", "step", "report"}
  BY DEF JoinInv, JoiningTypes
<1>3. frame' # "run" => given = <<>>
  BY <1>1, <1>2 DEF JoinInv, AddsAreDue
<1>4. made' \in Nat /\ taken' \in Nat
  BY <1>1, <1>2
<1>5. frame' \in {"apply", "run", "step", "report"}
  BY <1>1, <1>2
<1> QED BY <1>1, <1>3, <1>4, <1>5, OtherStep

(***************************************************************************)
(* The end of a frame: a join that is done is welcomed, or its Player goes. *)
(***************************************************************************)
LEMMA ApplyStep ==
    ASSUME JoinInv, ApplyServer
    PROVE  JoinInv'
<1> USE DEF JoinInv
<1>1. /\ frame' = "apply" /\ frame = "report"
      /\ peer' = [c \in Client |-> IF Welcomes(c) THEN "joined" ELSE peer[c]]
      /\ jobs' = jobs \o LeftBefore /\ join' = AfterJoin
      /\ UNCHANGED <<joinQueue, given, players, made, taken>>
  BY DEF ApplyServer
<1>2. Range(joinQueue) \subseteq Client /\ Range(players) \subseteq Client
  BY DEF JoiningTypes, Range
<1>3. given = <<>> /\ Range(given) = {}
  BY <1>1 DEF AddsAreDue, Range
<1>4. CASE ~Joining
  <2>1. peer' = peer
    BY <1>1, <1>4 DEF Welcomes, JoiningTypes
  <2>2. UNCHANGED <<join, jobs>>
    <3>1. LeftBefore = <<>> /\ AfterJoin = join
      BY <1>4 DEF LeftBefore, AfterJoin
    <3> QED BY <1>1, <3>1 DEF JoiningTypes
  <2>3. made' \in Nat /\ taken' \in Nat
    BY <1>1 DEF JoiningTypes
  <2> QED BY <1>1, <1>3, <2>1, <2>2, <2>3, OtherStep
<1>5. CASE Joining
  <2> DEFINE c == join.who
  <2>1. join.done /\ c \in Client /\ c # Nobody /\ join' = NoJoin
    BY <1>1, <1>5, JoiningAssumption DEF Joining, AfterJoin, OneJoin, NoJoin, JoiningTypes, JoiningAssumption
  <2>2. join'.who = Nobody /\ ~join'.done
    BY <2>1 DEF NoJoin
  <2> HIDE DEF c
  <2>3. \A d \in Client : Welcomes(d) <=> join.peer = d
    BY <1>5 DEF Welcomes
  <2>4. c \notin Range(joinQueue)
    BY DEF QueueIsNamed, c
  <2>5. \A d \in Client \ {c} : peer'[d] = peer[d]
    <3>1. \A d \in Client \ {c} : join.peer # d
      BY JoiningAssumption DEF OneJoin, c, JoiningAssumption
    <3> QED BY <1>1, <2>3, <3>1 DEF JoiningTypes
  <2>6. /\ join.peer = Nobody => peer'[c] = "gone"
        /\ join.peer # Nobody => peer'[c] = "joined"
    <3>1. CASE join.peer = Nobody
      BY <1>1, <2>1, <2>3, <3>1 DEF OneJoin, c, JoiningTypes
    <3>2. CASE join.peer # Nobody
      BY <1>1, <2>1, <2>3, <3>2 DEF OneJoin, c
    <3> QED BY <3>1, <3>2
  <2>7. /\ LeftBefore \in Seq(Job) /\ \A j \in Range(LeftBefore) : j.do # "add"
        /\ join.peer = Nobody => Removing(c) \in Range(LeftBefore)
    <3>1. CASE join.peer = Nobody
      <4>1. LeftBefore = <<Removing(c)>>
        BY <1>5, <3>1 DEF LeftBefore, c
      <4>2. Removing(c) \in Job /\ Removing(c).do # "add"
        BY <2>1, JobTypes
      <4>3. Range(<<Removing(c)>>) = {Removing(c)}
        BY DEF Range
      <4> QED BY <4>1, <4>2, <4>3
    <3>2. CASE join.peer # Nobody
      <4>1. LeftBefore = <<>> /\ Range(<<>>) = {}
        BY <3>2 DEF LeftBefore, Range
      <4> QED BY <3>2, <4>1
    <3> QED BY <3>1, <3>2
  <2>8. jobs' \in Seq(Job) /\ Range(jobs') = Range(jobs) \cup Range(LeftBefore)
    BY <1>1, <2>7, Joined DEF JoiningTypes
  <2>9. JoiningTypes'
    <3>1. peer' \in [Client -> {"away", "connected", "named", "joined", "gone"}]
      BY <1>1 DEF JoiningTypes
    <3>2. NoJoin \in [who : Client \cup {Nobody}, peer : Client \cup {Nobody}, done : BOOLEAN,
                     before : Nat, asOf : Nat]
      BY DEF NoJoin
    <3> QED BY <1>1, <2>1, <2>8, <3>1, <3>2 DEF JoiningTypes
  <2>10. QueueIsNamed'
    BY <1>1, <1>2, <2>2, <2>4, <2>5, JoiningAssumption DEF QueueIsNamed, JoiningAssumption
  <2>11. OneJoin'
    BY <2>1 DEF OneJoin, NoJoin
  <2>12. AddsAreDue'
    BY <1>1, <1>3, <2>7, <2>8 DEF AddsAreDue
  <2>13. PlayersAreKnown'
    <3> SUFFICES ASSUME NEW d \in Range(players)
                 PROVE  /\ peer'[d] \in {"named", "joined", "gone"}
                        /\ peer'[d] # "named"
                        /\ join'.who # d
      BY <1>1 DEF PlayersAreKnown
    <3>1. join'.who # d
      BY <1>2, <2>2, JoiningAssumption DEF JoiningAssumption
    <3>2. CASE d = c
      BY <2>6, <3>1, <3>2
    <3>3. CASE d # c
      BY <1>2, <2>5, <3>1, <3>3 DEF PlayersAreKnown, c
    <3> QED BY <3>2, <3>3
  <2>14. GhostsAreDoomed'
    <3> SUFFICES ASSUME NEW d \in Range(players), peer'[d] = "gone"
                 PROVE  Removing(d) \in Range(jobs')
      BY <1>1 DEF GhostsAreDoomed
    <3>1. CASE d = c
      BY <2>6, <2>7, <2>8, <3>1
    <3>2. CASE d # c
      BY <1>2, <1>3, <2>5, <2>8, <3>2 DEF GhostsAreDoomed, c
    <3> QED BY <3>1, <3>2
  <2> QED BY <2>9, <2>10, <2>11, <2>12, <2>13, <2>14
<1> QED BY <1>4, <1>5

LEMMA StepInv == JoinInv /\ [Next]_vars => JoinInv'
<1> SUFFICES ASSUME JoinInv, JoiningStep \/ Idle PROVE JoinInv'
  BY NextIsJoining
<1>1. ASSUME NEW c \in Client,
             Connect(c) \/ Hello(c) \/ Leave(c) \/ AddPlayer(c) \/ RemoveById(c)
      PROVE  JoinInv'
  BY <1>1, ConnectStep, HelloStep, LeaveStep, AddPlayerStep, RemoveByIdStep
<1>2. ASSUME NEW n \in Name, RemoveByName(n) PROVE JoinInv'
  BY <1>2, RemoveByNameStep
<1>3. CASE Submit \/ ApplyServer
  BY <1>3, SubmitStep, ApplyStep
<1>4. CASE (\E c \in Client : Receive(c)) \/ Stepping \/ EndFrame(outbox[Server]) \/ Change \/ Idle
  BY <1>4, OtherSteps
<1> QED BY <1>1, <1>2, <1>3, <1>4 DEF JoiningStep

(***************************************************************************)
(* No Player is left behind, whenever its client leaves: for any clients,  *)
(* any names, and whatever the scripts do meanwhile.                       *)
(***************************************************************************)
THEOREM GhostsGo == Spec => []GhostsAreDoomed
<1>1. JoinInv => GhostsAreDoomed
  BY DEF JoinInv
<1> QED BY <1>1, InitInv, StepInv, PTL DEF Spec

-----------------------------------------------------------------------------
(***************************************************************************)
(* Where no two clients share a name, a removal only ever takes the Player *)
(* of a client that has left, and so nobody who stays loses theirs.        *)
(***************************************************************************)
NamesDiffer == \A c, d \in Client : NameOf[c] = NameOf[d] => c = d

RemovalsAreDue ==
    \A j \in Range(jobs) \cup Range(given) :
        /\ j.do = "remove" => peer[j.who] = "gone"
        /\ j.do = "remove named" => \E c \in Client : peer[c] = "gone" /\ NameOf[c] = j.name

MadeWhenDone == join.done /\ join.peer # Nobody => join.who \in Range(players)

KeepInv == RemovalsAreDue /\ MadeWhenDone /\ KeepsItsPlayer

LEMMA JobKinds ==
    /\ \A j \in Job : \/ j.do \in {"add", "remove"} /\ j.who \in Client
                      \/ j.do = "remove named" /\ j.name \in Name
    /\ \A c \in Client : Removing(c).do = "remove" /\ Removing(c).who = c
    /\ \A n \in Name : RemovingNamed(n).do = "remove named" /\ RemovingNamed(n).name = n
    /\ \A c \in Client : Adding(c).do = "add"
BY DEF Job, Adding, Removing, RemovingNamed

LEMMA InitKeep == Init => KeepInv
<1> SUFFICES ASSUME Init PROVE KeepInv
  OBVIOUS
<1>1. Range(<<>>) = {}
  BY DEF Range
<1>2. RemovalsAreDue
  BY <1>1 DEF Init, JoiningInit, RemovalsAreDue
<1>3. MadeWhenDone
  BY DEF Init, JoiningInit, NoJoin, MadeWhenDone
<1>4. KeepsItsPlayer
  BY DEF Init, JoiningInit, KeepsItsPlayer
<1> QED BY <1>2, <1>3, <1>4 DEF KeepInv

LEMMA KeepQuiet ==
    ASSUME JoinInv, KeepInv,
           jobs' \in Seq(Job), given' \in Seq(Job),
           \A d \in Client : /\ peer[d] = "gone" => peer'[d] = "gone"
                             /\ peer'[d] = "joined" => peer[d] = "joined",
           Range(players) \subseteq Range(players'),
           \A j \in Range(jobs') \cup Range(given') :
              j \in Range(jobs) \cup Range(given) \/ j.do = "add",
           join'.done /\ join'.peer # Nobody =>
              \/ join'.who \in Range(players')
              \/ join.done /\ join.peer # Nobody /\ join'.who = join.who
    PROVE  KeepInv'
<1>1. RemovalsAreDue'
  <2> SUFFICES ASSUME NEW j \in Range(jobs') \cup Range(given')
               PROVE  /\ j.do = "remove" => peer'[j.who] = "gone"
                      /\ j.do = "remove named" =>
                            \E c \in Client : peer'[c] = "gone" /\ NameOf[c] = j.name
    BY DEF RemovalsAreDue
  <2>1. j \in Job
    BY DEF Range
  <2>2. CASE j.do = "add"
    BY <2>2
  <2>3. CASE j \in Range(jobs) \cup Range(given)
    <3>1. j.do = "remove" => j.who \in Client
      BY <2>1, JobKinds
    <3> QED BY <2>3, <3>1 DEF KeepInv, RemovalsAreDue
  <2> QED BY <2>2, <2>3
<1>2. MadeWhenDone'
  BY DEF KeepInv, MadeWhenDone
<1>3. KeepsItsPlayer'
  BY DEF KeepInv, KeepsItsPlayer
<1> QED BY <1>1, <1>2, <1>3 DEF KeepInv

LEMMA KeepPoll ==
    ASSUME JoinInv, KeepInv, NEW c \in Client, Connect(c) \/ Hello(c)
    PROVE  KeepInv'
<1>1. /\ peer[c] \in {"away", "connected"} /\ peer' = [peer EXCEPT ![c] = IF peer[c] = "away" THEN "connected" ELSE "named"]
      /\ UNCHANGED <<join, jobs, given, players>>
  BY DEF Connect, Hello, frameVars
<1>2. \A d \in Client : /\ peer[d] = "gone" => peer'[d] = "gone"
                        /\ peer'[d] = "joined" => peer[d] = "joined"
  BY <1>1 DEF JoinInv, JoiningTypes
<1>3. jobs \in Seq(Job) /\ given \in Seq(Job)
  BY DEF JoinInv, JoiningTypes
<1>4. join'.done /\ join'.peer # Nobody => join.done /\ join.peer # Nobody /\ join'.who = join.who
  BY <1>1
<1> QED BY <1>1, <1>2, <1>3, <1>4, KeepQuiet

LEMMA KeepOthers ==
    ASSUME JoinInv, KeepInv, NEW ms,
           (\E c \in Client : Receive(c)) \/ Stepping \/ EndFrame(ms) \/ Change \/ Idle
    PROVE  KeepInv'
<1>1. UNCHANGED <<peer, join, jobs, given, players>>
  BY DEF Receive, Stepping, EndFrame, Change, Idle, hostVars, frameVars
<1> QED BY <1>1 DEF KeepInv, RemovalsAreDue, MadeWhenDone, KeepsItsPlayer

LEMMA KeepSubmit ==
    ASSUME JoinInv, KeepInv, Submit
    PROVE  KeepInv'
<1>1. UNCHANGED <<peer, players>> /\ jobs' = <<>> /\ Range(<<>>) = {}
  BY DEF Submit, Range
<1>2. JoinInv'
  BY SubmitStep
<1>3. jobs' \in Seq(Job) /\ given' \in Seq(Job) /\ jobs \in Seq(Job)
  BY <1>2 DEF JoinInv, JoiningTypes
<1>4. CASE ~Dispatches
  <2>1. given' = jobs /\ join' = join
    BY <1>4 DEF Submit
  <2> QED BY <1>1, <1>3, <2>1, KeepQuiet
<1>5. CASE Dispatches
  <2> DEFINE c == Head(joinQueue)
  <2>1. c \in Client
    <3>1. joinQueue \in Seq(Client) /\ joinQueue # <<>>
      BY <1>5 DEF Dispatches, JoinInv, JoiningTypes
    <3> QED BY <3>1, Taken
  <2>2. given' = Append(jobs, Adding(c)) /\ join'.done = FALSE
    BY <1>5 DEF Submit, NoJoin
  <2> HIDE DEF c
  <2>3. Range(given') = Range(jobs) \cup {Adding(c)}
    BY <1>3, <2>1, <2>2, Appended, JobTypes
  <2>4. Adding(c).do = "add"
    BY <2>1, JobKinds
  <2> QED BY <1>1, <1>3, <2>2, <2>3, <2>4, KeepQuiet
<1> QED BY <1>4, <1>5

LEMMA KeepAddPlayer ==
    ASSUME JoinInv, KeepInv, NEW c \in Client, AddPlayer(c)
    PROVE  KeepInv'
<1>1. players' = Append(players, c) /\ join' = [join EXCEPT !.done = TRUE, !.before = taken, !.asOf = made']
  BY DEF AddPlayer
<1>2. /\ given' \in Seq(Job) /\ Range(given') \subseteq Range(given) /\ join.who = c
      /\ UNCHANGED <<peer, jobs>>
  <2>1. NextJob(Adding(c))
    BY DEF AddPlayer
  <2> QED BY <2>1, NextJobStep, JobTypes
<1>3. jobs \in Seq(Job) /\ players \in Seq(Client)
  BY DEF JoinInv, JoiningTypes
<1>4. Range(players') = Range(players) \cup {c}
  BY <1>1, <1>3, Appended
<1>5. join'.who = c
  BY <1>1, <1>2 DEF JoinInv, JoiningTypes
<1> QED BY <1>2, <1>3, <1>4, <1>5, KeepQuiet

LEMMA KeepRemove ==
    ASSUME JoinInv, KeepInv, NEW job, NextJob(job), job.do # "add", UNCHANGED join,
           \/ UNCHANGED players
           \/ \E c \in Client : peer[c] = "gone" /\ players' = RemoveFirst(players, c)
    PROVE  KeepInv'
<1>1. /\ given' \in Seq(Job) /\ Range(given') \subseteq Range(given)
      /\ UNCHANGED <<peer, jobs>>
  BY NextJobStep
<1>2. jobs \in Seq(Job) /\ players \in Seq(Client) /\ IsInjective(players)
  BY DEF JoinInv, JoiningTypes
<1>3. CASE UNCHANGED players
  BY <1>1, <1>2, <1>3, KeepQuiet
<1>4. ASSUME NEW c \in Client, peer[c] = "gone", players' = RemoveFirst(players, c)
      PROVE  KeepInv'
  <2>1. Range(players') = Range(players) \ {c}
    BY <1>2, <1>4, Removed
  <2>2. RemovalsAreDue'
    BY <1>1 DEF KeepInv, RemovalsAreDue
  <2>3. KeepsItsPlayer'
    BY <1>1, <1>4, <2>1 DEF KeepInv, KeepsItsPlayer
  <2>4. MadeWhenDone'
    <3>1. join.done /\ join.peer # Nobody => join.who # c
      BY <1>4 DEF JoinInv, OneJoin
    <3> QED BY <2>1, <3>1 DEF KeepInv, MadeWhenDone
  <2> QED BY <2>2, <2>3, <2>4 DEF KeepInv
<1> QED BY <1>3, <1>4

LEMMA KeepRemoves ==
    ASSUME NamesDiffer, JoinInv, KeepInv,
           (\E c \in Client : RemoveById(c)) \/ (\E n \in Name : RemoveByName(n))
    PROVE  KeepInv'
<1>1. players \in Seq(Client) /\ given \in Seq(Job)
  BY DEF JoinInv, JoiningTypes
<1>2. ASSUME NEW job, NextJob(job) PROVE job \in Range(given)
  <2>1. given # <<>> /\ job = Head(given)
    BY <1>2 DEF NextJob
  <2> QED BY <1>1, <2>1, Taken
<1>3. ASSUME NEW c \in Client, RemoveById(c) PROVE KeepInv'
  <2>1. NextJob(Removing(c)) /\ players' = RemoveFirst(players, c) /\ UNCHANGED join
    BY <1>3 DEF RemoveById, RemovePlayer
  <2>2. Removing(c) \in Range(given) /\ Removing(c).do = "remove" /\ Removing(c).who = c
    BY <1>2, <2>1, JobKinds
  <2>3. peer[c] = "gone"
    BY <2>2 DEF KeepInv, RemovalsAreDue
  <2>4. Removing(c).do # "add"
    BY <2>2
  <2> HIDE DEF KeepInv
  <2> QED BY <2>1, <2>3, <2>4, KeepRemove
<1>4. ASSUME NEW n \in Name, RemoveByName(n) PROVE KeepInv'
  <2>1. NextJob(RemovingNamed(n)) /\ UNCHANGED join
    BY <1>4 DEF RemoveByName, RemovePlayer
  <2>2. RemovingNamed(n) \in Range(given) /\ RemovingNamed(n).do = "remove named" /\ RemovingNamed(n).name = n
    BY <1>2, <2>1, JobKinds
  <2>3. PICK c \in Client : peer[c] = "gone" /\ NameOf[c] = n
    BY <2>2 DEF KeepInv, RemovalsAreDue
  <2>4. CASE Called(n) = 0
    <3>1. UNCHANGED players
      BY <1>4, <2>4 DEF RemoveByName
    <3> QED BY <2>1, <2>2, <3>1, KeepRemove
  <2>5. CASE Called(n) # 0
    <3>1. players[Called(n)] \in Client /\ NameOf[players[Called(n)]] = n
      BY <1>1, <2>5, FirstCalled DEF Range
    <3>2. players[Called(n)] = c
      BY <2>3, <3>1 DEF NamesDiffer
    <3>3. players' = RemoveFirst(players, c)
      BY <1>4, <2>5, <3>2 DEF RemoveByName, RemovePlayer
    <3> QED BY <2>1, <2>2, <2>3, <3>3, KeepRemove
  <2> QED BY <2>4, <2>5
<1> QED BY <1>3, <1>4

LEMMA KeepLeave ==
    ASSUME JoinInv, KeepInv, NEW c \in Client, Leave(c)
    PROVE  KeepInv'
<1>1. /\ peer' = [peer EXCEPT ![c] = "gone"] /\ jobs' = jobs \o Removal(c)
      /\ join' = IF join.peer = c THEN [join EXCEPT !.peer = Nobody] ELSE join
      /\ UNCHANGED <<given, players>>
  BY DEF Leave, frameVars
<1>2. jobs \in Seq(Job) /\ given \in Seq(Job)
  BY DEF JoinInv, JoiningTypes
<1>3. /\ peer'[c] = "gone"
      /\ \A d \in Client : d # c => peer'[d] = peer[d]
  BY <1>1 DEF JoinInv, JoiningTypes
<1>4. /\ Removal(c) \in Seq(Job)
      /\ \A j \in Range(Removal(c)) : j \in {Removing(c), RemovingNamed(NameOf[c])}
  <2>1. \A j \in Job : <<j>> \in Seq(Job) /\ Range(<<j>>) = {j}
    BY DEF Range
  <2>2. <<>> \in Seq(Job) /\ Range(<<>>) = {}
    BY DEF Range
  <2>3. Removing(c) \in Job /\ RemovingNamed(NameOf[c]) \in Job
    BY JobTypes, JoiningAssumption DEF JoiningAssumption
  <2>4. Removal(c) \in {<<Removing(c)>>, <<RemovingNamed(NameOf[c])>>, <<>>}
    BY DEF Removal
  <2> QED BY <2>1, <2>2, <2>3, <2>4
<1>5. Range(jobs') = Range(jobs) \cup Range(Removal(c))
  BY <1>1, <1>2, <1>4, Joined
<1>6. RemovalsAreDue'
  <2> SUFFICES ASSUME NEW j \in Range(jobs') \cup Range(given)
               PROVE  /\ j.do = "remove" => peer'[j.who] = "gone"
                      /\ j.do = "remove named" =>
                            \E d \in Client : peer'[d] = "gone" /\ NameOf[d] = j.name
    BY <1>1 DEF RemovalsAreDue
  <2>1. CASE j \in Range(jobs) \cup Range(given)
    <3>1. j \in Job
      BY <1>2, <2>1 DEF Range
    <3>2. j.do = "remove" => j.who \in Client
      BY <3>1, JobKinds
    <3> QED BY <1>3, <2>1, <3>2 DEF KeepInv, RemovalsAreDue
  <2>2. CASE j = Removing(c)
    BY <1>3, <2>2, JobKinds
  <2>3. CASE j = RemovingNamed(NameOf[c])
    <3>1. j.do = "remove named" /\ j.name = NameOf[c]
      BY <2>3, JobKinds, JoiningAssumption DEF JoiningAssumption
    <3> QED BY <1>3, <3>1
  <2> QED BY <1>4, <1>5, <2>1, <2>2, <2>3
<1>7. MadeWhenDone'
  BY <1>1 DEF KeepInv, MadeWhenDone, JoinInv, JoiningTypes
<1>8. KeepsItsPlayer'
  BY <1>1, <1>3 DEF KeepInv, KeepsItsPlayer
<1> QED BY <1>6, <1>7, <1>8 DEF KeepInv

LEMMA KeepApply ==
    ASSUME JoinInv, KeepInv, ApplyServer
    PROVE  KeepInv'
<1>1. /\ peer' = [c \in Client |-> IF Welcomes(c) THEN "joined" ELSE peer[c]]
      /\ jobs' = jobs \o LeftBefore /\ join' = AfterJoin
      /\ UNCHANGED <<given, players>>
  BY DEF ApplyServer
<1>2. jobs \in Seq(Job) /\ given \in Seq(Job)
  BY DEF JoinInv, JoiningTypes
<1>3. ASSUME NEW d \in Client, Welcomes(d)
      PROVE  join.done /\ join.peer = d /\ d # Nobody /\ join.who = d /\ peer[d] = "named"
  BY <1>3, JoiningAssumption DEF Welcomes, Joining, JoinInv, OneJoin, JoiningAssumption
<1>4. \A d \in Client : peer[d] = "gone" => peer'[d] = "gone"
  BY <1>1, <1>3
<1>5. KeepsItsPlayer'
  <2> SUFFICES ASSUME NEW d \in Client, peer'[d] = "joined" PROVE d \in Range(players)
    BY <1>1 DEF KeepsItsPlayer
  <2>1. CASE Welcomes(d)
    BY <1>3, <2>1 DEF KeepInv, MadeWhenDone
  <2>2. CASE ~Welcomes(d)
    BY <1>1, <2>2 DEF KeepInv, KeepsItsPlayer
  <2> QED BY <2>1, <2>2
<1>6. MadeWhenDone'
  <2>1. ~join'.done
    BY <1>1 DEF AfterJoin, Joining, NoJoin, JoinInv, JoiningTypes
  <2> QED BY <2>1 DEF MadeWhenDone
<1>7. /\ LeftBefore \in Seq(Job)
      /\ \A j \in Range(LeftBefore) : \E c \in Client : peer[c] = "gone" /\ j = Removing(c)
  <2>1. CASE Joining /\ join.peer = Nobody
    <3>1. join.who \in Client /\ peer[join.who] = "gone"
      BY <2>1 DEF Joining, JoinInv, OneJoin, NoJoin, JoiningTypes
    <3>2. LeftBefore = <<Removing(join.who)>> /\ Range(LeftBefore) = {Removing(join.who)}
      BY <2>1 DEF LeftBefore, Range
    <3>3. Removing(join.who) \in Job
      BY <3>1, JobTypes
    <3> QED BY <3>1, <3>2, <3>3
  <2>2. CASE ~(Joining /\ join.peer = Nobody)
    <3>1. LeftBefore = <<>> /\ Range(LeftBefore) = {}
      BY <2>2 DEF LeftBefore, Range
    <3> QED BY <3>1
  <2> QED BY <2>1, <2>2
<1>8. Range(jobs') = Range(jobs) \cup Range(LeftBefore)
  BY <1>1, <1>2, <1>7, Joined
<1>9. RemovalsAreDue'
  <2> SUFFICES ASSUME NEW j \in Range(jobs') \cup Range(given)
               PROVE  /\ j.do = "remove" => peer'[j.who] = "gone"
                      /\ j.do = "remove named" =>
                            \E d \in Client : peer'[d] = "gone" /\ NameOf[d] = j.name
    BY <1>1 DEF RemovalsAreDue
  <2>1. CASE j \in Range(jobs) \cup Range(given)
    <3>1. j \in Job
      BY <1>2, <2>1 DEF Range
    <3>2. j.do = "remove" => j.who \in Client
      BY <3>1, JobKinds
    <3> QED BY <1>4, <2>1, <3>2 DEF KeepInv, RemovalsAreDue
  <2>2. CASE j \in Range(LeftBefore)
    <3>1. PICK c \in Client : peer[c] = "gone" /\ j = Removing(c)
      BY <1>7, <2>2
    <3> QED BY <1>4, <3>1, JobKinds
  <2> QED BY <1>8, <2>1, <2>2
<1> QED BY <1>5, <1>6, <1>9 DEF KeepInv

LEMMA StepKeep ==
    ASSUME NamesDiffer, JoinInv, KeepInv, [Next]_vars
    PROVE  KeepInv'
<1>1. JoiningStep \/ Idle
  BY NextIsJoining
<1>2. ASSUME NEW c \in Client, Connect(c) \/ Hello(c) \/ Leave(c) \/ AddPlayer(c) PROVE KeepInv'
  BY <1>2, KeepPoll, KeepLeave, KeepAddPlayer
<1>3. CASE (\E c \in Client : RemoveById(c)) \/ (\E n \in Name : RemoveByName(n))
  BY <1>3, KeepRemoves
<1>4. CASE Submit \/ ApplyServer
  BY <1>4, KeepSubmit, KeepApply
<1>5. CASE (\E c \in Client : Receive(c)) \/ Stepping \/ EndFrame(outbox[Server]) \/ Change \/ Idle
  BY <1>5, KeepOthers
<1> QED BY <1>1, <1>2, <1>3, <1>4, <1>5 DEF JoiningStep

(***************************************************************************)
(* A client that has joined and stays keeps its Player, if no two clients  *)
(* share a name; the run session_twins shows what happens if they do.      *)
(***************************************************************************)
THEOREM PlayersAreKept == ASSUME NamesDiffer PROVE Spec => []KeepsItsPlayer
<1>1. JoinInv /\ KeepInv /\ [Next]_vars => JoinInv' /\ KeepInv'
  BY StepInv, StepKeep
<1>2. Init => JoinInv /\ KeepInv
  BY InitInv, InitKeep
<1>3. KeepInv => KeepsItsPlayer
  BY DEF KeepInv
<1> QED BY <1>1, <1>2, <1>3, PTL DEF Spec

-----------------------------------------------------------------------------
(***************************************************************************)
(* Replication around a join.  At any time what clients have been told     *)
(* reaches up to Base: what the frame in hand will report starts there, or, *)
(* if it made the joiner's Player, what it replicated before that does.    *)
(***************************************************************************)
Chained(s, h) == \A i \in DOMAIN s : s[i].from = IF i = 1 THEN h ELSE s[i - 1].to
EndOf(s, h) == IF s = <<>> THEN h ELSE Last(s).to

Start == IF frame = "report" THEN report.from ELSE taken
Base == IF join.done THEN join.before ELSE Start

IsList(s) == \E S : s \in Seq(S)

WireTypes ==
    /\ wire = [c \in Client |-> wire[c]] /\ have = [c \in Client |-> have[c]]
    /\ \A c \in Client : IsList(wire[c])

ToldInv ==
    /\ WireTypes
    /\ \A c \in Client : peer[c] \in {"away", "connected", "named"} => wire[c] = <<>> /\ have[c] = -1
    /\ frame = "apply" => ~join.done
    /\ frame \in {"apply", "report"} => taken = made
    /\ frame = "report" => report.to = made
    /\ join.done => join.asOf = Start
    /\ \A c \in Client : peer[c] = "joined" =>
          Chained(wire[c], have[c]) /\ EndOf(wire[c], have[c]) = Base

LEMMA ListIsSeq ==
    ASSUME NEW s, IsList(s)
    PROVE  Len(s) \in Nat /\ DOMAIN s = 1..Len(s)
BY DEF IsList

LEMMA ChainGrows ==
    ASSUME NEW s, NEW h, NEW p, IsList(s), Chained(s, h), p.from = EndOf(s, h)
    PROVE  /\ IsList(s \o <<p>>) /\ Chained(s \o <<p>>, h) /\ EndOf(s \o <<p>>, h) = p.to
<1>1. PICK S : s \in Seq(S)
  BY DEF IsList
<1> DEFINE T == S \cup {p}
           t == s \o <<p>>
<1>2. s \in Seq(T) /\ <<p>> \in Seq(T)
  BY <1>1
<1>3. /\ t \in Seq(T) /\ Len(t) = Len(s) + 1 /\ Len(s) \in Nat
      /\ t[Len(s) + 1] = p
  BY <1>2
<1>4. \A i \in 1..Len(s) : t[i] = s[i]
  BY <1>2
<1> HIDE DEF T, t
<1>5. DOMAIN t = 1..(Len(s) + 1) /\ DOMAIN s = 1..Len(s)
  BY <1>1, <1>3
<1>6. t # <<>> /\ Last(t) = p
  BY <1>3 DEF Last
<1>7. EndOf(t, h) = p.to
  BY <1>6 DEF EndOf
<1>8. ASSUME NEW i \in 1..(Len(s) + 1) PROVE t[i].from = IF i = 1 THEN h ELSE t[i - 1].to
  <2>1. CASE i \in 1..Len(s)
    <3>1. t[i] = s[i] /\ (i # 1 => i - 1 \in 1..Len(s))
      BY <1>4, <2>1
    <3>2. i # 1 => t[i - 1] = s[i - 1]
      BY <1>4, <3>1
    <3>3. s[i].from = IF i = 1 THEN h ELSE s[i - 1].to
      BY <1>5, <2>1 DEF Chained
    <3> QED BY <3>1, <3>2, <3>3
  <2>2. CASE i = Len(s) + 1
    <3>1. t[i].from = EndOf(s, h)
      BY <1>3, <2>2
    <3>2. CASE s = <<>>
      <4>1. i = 1
        BY <2>2, <3>2
      <4> QED BY <3>1, <3>2, <4>1 DEF EndOf
    <3>3. CASE s # <<>>
      <4>1. Len(s) \in 1..Len(s) /\ i # 1 /\ i - 1 = Len(s)
        BY <1>1, <2>2, <3>3
      <4>2. EndOf(s, h) = s[Len(s)].to /\ t[Len(s)] = s[Len(s)]
        BY <1>4, <3>3, <4>1 DEF EndOf, Last
      <4> QED BY <3>1, <4>1, <4>2
    <3> QED BY <3>2, <3>3
  <2> QED BY <1>3, <2>1, <2>2
<1>9. Chained(t, h)
  BY <1>5, <1>8 DEF Chained
<1>10. IsList(t)
  BY <1>3 DEF IsList
<1> QED BY <1>7, <1>9, <1>10 DEF t

LEMMA ChainShrinks ==
    ASSUME NEW s, NEW h, IsList(s), Chained(s, h), s # <<>>
    PROVE  /\ IsList(Tail(s)) /\ Chained(Tail(s), Head(s).to)
           /\ EndOf(Tail(s), Head(s).to) = EndOf(s, h)
<1>1. PICK S : s \in Seq(S)
  BY DEF IsList
<1> DEFINE t == Tail(s)
<1>2. /\ t \in Seq(S) /\ Len(t) = Len(s) - 1 /\ Len(s) \in Nat /\ Len(s) > 0
      /\ Head(s) = s[1]
  BY <1>1
<1>3. \A i \in 1..(Len(s) - 1) : t[i] = s[i + 1]
  BY <1>1
<1> HIDE DEF t
<1>4. DOMAIN t = 1..(Len(s) - 1) /\ DOMAIN s = 1..Len(s)
  BY <1>1, <1>2
<1>5. ASSUME NEW i \in 1..(Len(s) - 1) PROVE t[i].from = IF i = 1 THEN Head(s).to ELSE t[i - 1].to
  <2>1. i + 1 \in 1..Len(s) /\ i + 1 # 1 /\ (i + 1) - 1 = i
    BY <1>2
  <2>2. s[i + 1].from = s[i].to
    BY <1>4, <2>1 DEF Chained
  <2>3. i # 1 => i - 1 \in 1..(Len(s) - 1) /\ (i - 1) + 1 = i
    BY <1>2
  <2>4. i # 1 => t[i - 1] = s[i]
    BY <1>3, <2>3
  <2> QED BY <1>2, <1>3, <2>2, <2>4
<1>6. Chained(t, Head(s).to)
  BY <1>4, <1>5 DEF Chained
<1>7. EndOf(t, Head(s).to) = EndOf(s, h)
  <2>1. CASE t = <<>>
    <3>1. Len(s) = 1
      BY <1>2, <2>1
    <3> QED BY <1>2, <2>1, <3>1 DEF EndOf, Last
  <2>2. CASE t # <<>>
    <3>1. Len(t) > 0
      BY <1>2, <2>2
    <3>2. Len(t) \in 1..(Len(s) - 1) /\ Len(t) + 1 = Len(s)
      BY <1>2, <3>1
    <3>3. t[Len(t)] = s[Len(s)]
      BY <1>3, <3>2
    <3> QED BY <2>2, <3>3 DEF EndOf, Last
  <2> QED BY <2>1, <2>2
<1> QED BY <1>2, <1>6, <1>7 DEF IsList, t

LEMMA InitTold == Init => ToldInv
<1> SUFFICES ASSUME Init PROVE ToldInv
  OBVIOUS
<1> USE DEF Init, JoiningInit
<1>1. WireTypes
  <2>1. <<>> \in Seq({}) /\ \A c \in Client : wire[c] = <<>>
    OBVIOUS
  <2> QED BY <2>1 DEF WireTypes, IsList
<1>2. ~join.done /\ frame = "apply" /\ taken = made
  BY DEF NoJoin
<1>3. \A c \in Client : peer[c] = "away" /\ wire[c] = <<>> /\ have[c] = -1
  OBVIOUS
<1> QED BY <1>1, <1>2, <1>3 DEF ToldInv

LEMMA ToldQuiet ==
    ASSUME ToldInv, UNCHANGED <<wire, have>>,
           \A c \in Client : /\ peer'[c] = "joined" => peer[c] = "joined"
                             /\ peer'[c] \in {"away", "connected", "named"} =>
                                   peer[c] \in {"away", "connected", "named"},
           Base' = Base,
           join'.done => join'.asOf = Start',
           frame' = "apply" => ~join'.done,
           frame' \in {"apply", "report"} => taken' = made',
           frame' = "report" => report'.to = made'
    PROVE  ToldInv'
<1>1. WireTypes'
  BY DEF ToldInv, WireTypes
<1>2. \A c \in Client : peer'[c] = "joined" =>
        Chained(wire'[c], have'[c]) /\ EndOf(wire'[c], have'[c]) = Base'
  BY DEF ToldInv
<1>3. \A c \in Client : peer'[c] \in {"away", "connected", "named"} => wire'[c] = <<>> /\ have'[c] = -1
  BY DEF ToldInv
<1> QED BY <1>1, <1>2, <1>3 DEF ToldInv

LEMMA ToldPoll ==
    ASSUME JoinInv, ToldInv, NEW c \in Client, Connect(c) \/ Hello(c)
    PROVE  ToldInv'
<1>1. /\ peer[c] \in {"away", "connected"}
      /\ peer' = [peer EXCEPT ![c] = IF peer[c] = "away" THEN "connected" ELSE "named"]
      /\ UNCHANGED <<join, frame, taken, made, report, wire, have>>
  BY DEF Connect, Hello, frameVars, wireVars
<1>2. \A d \in Client : /\ peer'[d] = "joined" => peer[d] = "joined"
                        /\ peer'[d] \in {"away", "connected", "named"} =>
                              peer[d] \in {"away", "connected", "named"}
  BY <1>1 DEF JoinInv, JoiningTypes
<1>3. Base' = Base /\ Start' = Start
  BY <1>1 DEF Base, Start
<1> QED BY <1>1, <1>2, <1>3, ToldQuiet DEF ToldInv

LEMMA ToldFrame ==
    ASSUME JoinInv, ToldInv, NEW ms,
           \/ Submit \/ Stepping \/ EndFrame(ms) \/ Change \/ Idle
           \/ \E c \in Client : AddPlayer(c) \/ RemoveById(c)
           \/ \E n \in Name : RemoveByName(n)
    PROVE  ToldInv'
<1>1. CASE Submit
  <2>1. UNCHANGED <<peer, made, taken, report, wire, have>> /\ frame = "apply" /\ frame' = "run"
    BY <1>1 DEF Submit, wireVars
  <2>2. ~join.done
    BY <2>1 DEF ToldInv
  <2>3. ~join'.done
    BY <1>1, <2>2 DEF Submit, NoJoin
  <2>4. Base' = Base
    BY <2>1, <2>2, <2>3 DEF Base, Start
  <2> QED BY <2>1, <2>3, <2>4, ToldQuiet
<1>2. CASE Stepping
  <2>1. UNCHANGED <<peer, join, made, taken, report, wire, have>> /\ frame = "run" /\ frame' = "step"
    BY <1>2 DEF Stepping, hostVars, wireVars
  <2>2. Base' = Base /\ Start' = Start
    BY <2>1 DEF Base, Start
  <2> QED BY <2>1, <2>2, ToldQuiet DEF ToldInv
<1>3. CASE EndFrame(ms)
  <2>1. /\ UNCHANGED <<peer, join, made, wire, have>> /\ frame = "step" /\ frame' = "report"
        /\ taken' = made /\ report'.from = taken /\ report'.to = made
    BY <1>3 DEF EndFrame, hostVars, wireVars
  <2>2. Base' = Base /\ Start' = Start
    BY <2>1 DEF Base, Start
  <2> QED BY <2>1, <2>2, ToldQuiet DEF ToldInv
<1>4. CASE Change
  <2>1. UNCHANGED <<peer, join, frame, taken, report, wire, have>> /\ frame \in {"run", "step"}
    BY <1>4 DEF Change, ServerActs, hostVars, wireVars
  <2>2. Base' = Base /\ Start' = Start
    BY <2>1 DEF Base, Start
  <2> QED BY <2>1, <2>2, ToldQuiet DEF ToldInv
<1>5. CASE Idle
  <2>1. UNCHANGED <<peer, join, frame, made, taken, report, wire, have>>
    BY <1>5 DEF Idle, hostVars, wireVars
  <2>2. Base' = Base /\ Start' = Start
    BY <2>1 DEF Base, Start
  <2> QED BY <2>1, <2>2, ToldQuiet DEF ToldInv
<1>6. ASSUME NEW c \in Client, AddPlayer(c) PROVE ToldInv'
  <2>1. /\ NextJob(Adding(c)) /\ taken' = made'
        /\ join' = [join EXCEPT !.done = TRUE, !.before = taken, !.asOf = made']
    BY <1>6 DEF AddPlayer
  <2>2. UNCHANGED <<peer, frame, report, wire, have>> /\ frame = "run"
    BY <2>1 DEF NextJob, wireVars
  <2>3. ~join.done
    BY <2>1, NextJobStep, JobTypes
  <2>4. join'.done /\ join'.before = taken /\ join'.asOf = taken'
    BY <2>1 DEF JoinInv, JoiningTypes
  <2>5. Base' = Base /\ Start' = taken'
    BY <2>2, <2>3, <2>4 DEF Base, Start
  <2> QED BY <2>2, <2>4, <2>5, ToldQuiet
<1>7. ASSUME NEW job, NextJob(job), UNCHANGED <<join, taken>> PROVE ToldInv'
  <2>1. UNCHANGED <<peer, join, frame, taken, report, wire, have>> /\ frame = "run"
    BY <1>7 DEF NextJob, wireVars
  <2>2. Base' = Base /\ Start' = Start
    BY <2>1 DEF Base, Start
  <2> QED BY <2>1, <2>2, ToldQuiet DEF ToldInv
<1>8. ASSUME NEW c \in Client, RemoveById(c) PROVE ToldInv'
  BY <1>7, <1>8 DEF RemoveById, RemovePlayer
<1>9. ASSUME NEW n \in Name, RemoveByName(n) PROVE ToldInv'
  BY <1>7, <1>9 DEF RemoveByName, RemovePlayer
<1> QED BY <1>1, <1>2, <1>3, <1>4, <1>5, <1>6, <1>8, <1>9

LEMMA ToldLeave ==
    ASSUME JoinInv, ToldInv, NEW c \in Client, Leave(c)
    PROVE  ToldInv'
<1>1. /\ peer' = [peer EXCEPT ![c] = "gone"] /\ wire' = [wire EXCEPT ![c] = <<>>]
      /\ join' = IF join.peer = c THEN [join EXCEPT !.peer = Nobody] ELSE join
      /\ UNCHANGED <<frame, taken, made, report, have>>
  BY DEF Leave, frameVars
<1>2. join'.done = join.done /\ join'.before = join.before /\ join'.asOf = join.asOf
  BY <1>1 DEF JoinInv, JoiningTypes
<1>3. peer'[c] = "gone" /\ wire'[c] = <<>>
  BY <1>1 DEF JoinInv, JoiningTypes, ToldInv, WireTypes
<1>4. \A d \in Client : d # c => peer'[d] = peer[d] /\ wire'[d] = wire[d]
  BY <1>1 DEF JoinInv, JoiningTypes, ToldInv, WireTypes
<1>5. Base' = Base /\ Start' = Start
  BY <1>1, <1>2 DEF Base, Start
<1>6. WireTypes'
  <2>1. <<>> \in Seq({})
    OBVIOUS
  <2>2. \A d \in Client : IsList(wire'[d])
    BY <1>3, <1>4, <2>1 DEF ToldInv, WireTypes, IsList
  <2>3. wire' = [d \in Client |-> wire'[d]]
    BY <1>1 DEF ToldInv, WireTypes
  <2> QED BY <1>1, <2>2, <2>3 DEF ToldInv, WireTypes
<1>7. \A d \in Client : peer'[d] = "joined" =>
        Chained(wire'[d], have'[d]) /\ EndOf(wire'[d], have'[d]) = Base'
  BY <1>1, <1>3, <1>4, <1>5 DEF ToldInv
<1>8. \A d \in Client : peer'[d] \in {"away", "connected", "named"} => wire'[d] = <<>> /\ have'[d] = -1
  BY <1>1, <1>3, <1>4 DEF ToldInv
<1> QED BY <1>1, <1>2, <1>5, <1>6, <1>7, <1>8 DEF ToldInv

LEMMA ToldReceive ==
    ASSUME JoinInv, ToldInv, NEW c \in Client, Receive(c)
    PROVE  ToldInv'
<1>1. /\ wire[c] # <<>> /\ wire' = [wire EXCEPT ![c] = Tail(@)]
      /\ have' = [have EXCEPT ![c] = Head(wire[c]).to]
      /\ UNCHANGED <<peer, join, frame, taken, made, report>>
  BY DEF Receive, hostVars, frameVars
<1>2. wire'[c] = Tail(wire[c]) /\ have'[c] = Head(wire[c]).to
  BY <1>1 DEF ToldInv, WireTypes
<1>3. \A d \in Client : d # c => wire'[d] = wire[d] /\ have'[d] = have[d]
  BY <1>1 DEF ToldInv, WireTypes
<1>4. Base' = Base /\ Start' = Start
  BY <1>1 DEF Base, Start
<1>5. IsList(wire[c])
  BY DEF ToldInv, WireTypes
<1>6. WireTypes'
  <2>1. IsList(wire'[c])
    <3>1. PICK S : wire[c] \in Seq(S)
      BY <1>5 DEF IsList
    <3>2. Tail(wire[c]) \in Seq(S)
      BY <1>1, <3>1
    <3> QED BY <1>2, <3>2 DEF IsList
  <2>2. \A d \in Client : IsList(wire'[d])
    BY <1>3, <2>1 DEF ToldInv, WireTypes
  <2>3. wire' = [d \in Client |-> wire'[d]] /\ have' = [d \in Client |-> have'[d]]
    BY <1>1 DEF ToldInv, WireTypes
  <2> QED BY <2>2, <2>3 DEF WireTypes
<1>7. peer[c] = "joined" => Chained(wire'[c], have'[c]) /\ EndOf(wire'[c], have'[c]) = Base
  BY <1>1, <1>2, <1>5, ChainShrinks DEF ToldInv
<1>8. \A d \in Client : peer'[d] = "joined" =>
        Chained(wire'[d], have'[d]) /\ EndOf(wire'[d], have'[d]) = Base'
  BY <1>1, <1>3, <1>4, <1>7 DEF ToldInv
<1>9. \A d \in Client : peer'[d] \in {"away", "connected", "named"} => wire'[d] = <<>> /\ have'[d] = -1
  BY <1>1, <1>3 DEF ToldInv
<1> QED BY <1>1, <1>4, <1>6, <1>8, <1>9 DEF ToldInv

\* Whoever was told up to `from' and is flushed what came after it, is told up to `to'.
LEMMA FlushTells ==
    ASSUME NEW s, NEW h, NEW to, NEW remotes, IsList(s), Chained(s, h)
    PROVE  LET t == s \o Flush(EndOf(s, h), to, remotes)
           IN  IsList(t) /\ Chained(t, h) /\ EndOf(t, h) = to
<1> DEFINE from == EndOf(s, h)
<1>1. CASE from = to /\ remotes = <<>>
  <2>1. Flush(from, to, remotes) = <<>>
    BY <1>1 DEF Flush
  <2>2. s \o <<>> = s
    BY DEF IsList
  <2> QED BY <1>1, <2>1, <2>2
<1>2. CASE ~(from = to /\ remotes = <<>>)
  <2> DEFINE p == Packet(from, to, remotes)
  <2>1. Flush(from, to, remotes) = <<p>>
    BY <1>2 DEF Flush
  <2>2. p.from = from /\ p.to = to
    BY DEF Packet
  <2> HIDE DEF p, from
  <2>3. IsList(s \o <<p>>) /\ Chained(s \o <<p>>, h) /\ EndOf(s \o <<p>>, h) = to
    BY <2>2, ChainGrows DEF from
  <2> QED BY <2>1, <2>3 DEF from
<1> QED BY <1>1, <1>2

LEMMA ToldApply ==
    ASSUME JoinInv, ToldInv, ApplyServer
    PROVE  ToldInv'
<1>1. /\ frame = "report" /\ frame' = "apply" /\ join' = AfterJoin
      /\ peer' = [c \in Client |-> IF Welcomes(c) THEN "joined" ELSE peer[c]]
      /\ wire' = [c \in Client |-> wire[c] \o Sent(c)]
      /\ UNCHANGED <<taken, made, have>>
  BY DEF ApplyServer
<1>2. taken = made /\ report.to = made /\ Start = report.from
  BY <1>1 DEF ToldInv, Start
<1>3. ~join'.done
  BY <1>1 DEF AfterJoin, Joining, NoJoin, JoinInv, JoiningTypes
<1>4. Base' = made
  BY <1>1, <1>2, <1>3 DEF Base, Start
<1>5. ASSUME NEW c \in Client, Welcomes(c)
      PROVE  /\ IsList(wire'[c]) /\ Chained(wire'[c], have[c]) /\ EndOf(wire'[c], have[c]) = made
  <2> DEFINE p == Packet(-1, join.asOf, <<>>)
             fl == Flush(report.from, report.to, RemotesFor(c))
  <2>1. join.done /\ join.peer = c /\ peer[c] = "named"
    BY <1>5, JoiningAssumption DEF Welcomes, Joining, JoinInv, OneJoin, JoiningAssumption
  <2>2. wire[c] = <<>> /\ have[c] = -1 /\ join.asOf = report.from
    BY <1>2, <2>1 DEF ToldInv
  <2>3. p.from = -1 /\ p.to = join.asOf
    BY DEF Packet
  <2>4. Sent(c) = <<p>> \o fl
    BY <1>5 DEF Sent
  <2> HIDE DEF p
  <2>5. IsList(<<p>>) /\ Chained(<<p>>, -1) /\ EndOf(<<p>>, -1) = join.asOf
    <3>1. <<p>> \in Seq({p}) /\ DOMAIN <<p>> = {1} /\ <<p>>[1] = p /\ <<p>> # <<>> /\ Last(<<p>>) = p
      BY DEF Last
    <3> QED BY <2>3, <3>1 DEF IsList, Chained, EndOf
  <2>6. fl = Flush(EndOf(<<p>>, -1), made, RemotesFor(c))
    BY <1>2, <2>2, <2>5
  <2> HIDE DEF fl
  <2>7. IsList(<<p>> \o fl) /\ Chained(<<p>> \o fl, -1) /\ EndOf(<<p>> \o fl, -1) = made
    BY <2>5, <2>6, FlushTells
  <2>8. wire'[c] = <<p>> \o fl
    <3>1. wire'[c] = <<>> \o (<<p>> \o fl)
      BY <1>1, <2>2, <2>4
    <3> DEFINE q == <<p>> \o fl
    <3>2. IsList(q)
      BY <2>7
    <3> HIDE DEF q
    <3>3. <<>> \o q = q
      BY <3>2 DEF IsList
    <3> QED BY <3>1, <3>3 DEF q
  <2> QED BY <2>2, <2>7, <2>8
<1>6. ASSUME NEW c \in Client, ~Welcomes(c), peer[c] = "joined"
      PROVE  /\ IsList(wire'[c]) /\ Chained(wire'[c], have[c]) /\ EndOf(wire'[c], have[c]) = made
  <2>1. IsList(wire[c]) /\ Chained(wire[c], have[c]) /\ EndOf(wire[c], have[c]) = Base
    BY <1>6 DEF ToldInv, WireTypes
  <2>2. Sent(c) = Flush(Base, made, RemotesFor(c))
    BY <1>2, <1>6 DEF Sent, Joining, Base
  <2>3. wire'[c] = wire[c] \o Sent(c)
    BY <1>1
  <2> QED BY <2>1, <2>2, <2>3, FlushTells
<1>7. ASSUME NEW c \in Client, ~Welcomes(c), peer[c] # "joined"
      PROVE  peer'[c] = peer[c] /\ wire'[c] = wire[c]
  <2>1. Sent(c) = <<>>
    BY <1>7 DEF Sent
  <2>2. wire[c] \o <<>> = wire[c]
    BY DEF ToldInv, WireTypes, IsList
  <2> QED BY <1>1, <1>7, <2>1, <2>2
<1>8. WireTypes'
  <2>1. \A c \in Client : IsList(wire'[c])
    BY <1>5, <1>6, <1>7 DEF ToldInv, WireTypes
  <2>2. wire' = [c \in Client |-> wire'[c]] /\ have' = [c \in Client |-> have'[c]]
    BY <1>1 DEF ToldInv, WireTypes
  <2> QED BY <2>1, <2>2 DEF WireTypes
<1>9. \A c \in Client : peer'[c] = "joined" =>
        Chained(wire'[c], have'[c]) /\ EndOf(wire'[c], have'[c]) = Base'
  BY <1>1, <1>4, <1>5, <1>6, <1>7
<1>10. \A c \in Client : peer'[c] \in {"away", "connected", "named"} => wire'[c] = <<>> /\ have'[c] = -1
  <2> SUFFICES ASSUME NEW c \in Client, peer'[c] \in {"away", "connected", "named"}
               PROVE  wire'[c] = <<>> /\ have'[c] = -1
    OBVIOUS
  <2>1. ~Welcomes(c) /\ peer[c] # "joined"
    BY <1>1
  <2> QED BY <1>1, <1>7, <2>1 DEF ToldInv
<1> QED BY <1>1, <1>2, <1>3, <1>8, <1>9, <1>10 DEF ToldInv

LEMMA StepTold == JoinInv /\ ToldInv /\ [Next]_vars => ToldInv'
<1> SUFFICES ASSUME JoinInv, ToldInv, JoiningStep \/ Idle PROVE ToldInv'
  BY NextIsJoining
<1>1. ASSUME NEW c \in Client, Connect(c) \/ Hello(c) \/ Leave(c) \/ Receive(c) PROVE ToldInv'
  BY <1>1, ToldPoll, ToldLeave, ToldReceive
<1>2. CASE ApplyServer
  BY <1>2, ToldApply
<1>3. CASE \/ Submit \/ Stepping \/ EndFrame(outbox[Server]) \/ Change \/ Idle
           \/ \E c \in Client : AddPlayer(c) \/ RemoveById(c)
           \/ \E n \in Name : RemoveByName(n)
  BY <1>3, ToldFrame
<1> QED BY <1>1, <1>2, <1>3 DEF JoiningStep

(***************************************************************************)
(* What a client is sent reliably has no gap and nothing twice, from the    *)
(* snapshot it is welcomed with on, whoever joins and leaves in which part *)
(* of a frame.                                                             *)
(***************************************************************************)
THEOREM NobodyMisses == Spec => []JoinerMissesNothing
<1>1. JoinInv /\ ToldInv => JoinerMissesNothing
  <2> SUFFICES ASSUME JoinInv, ToldInv, NEW c \in Client, peer[c] = "joined"
               PROVE  /\ Chained(wire[c], have[c])
                      /\ frame = "apply" => Told(c) = made
    BY DEF JoinerMissesNothing, Chained
  <2>1. Chained(wire[c], have[c]) /\ Told(c) = Base
    BY DEF ToldInv, Told, EndOf
  <2>2. frame = "apply" => Base = made
    BY DEF ToldInv, Base, Start
  <2> QED BY <2>1, <2>2
<1>2. Init => JoinInv /\ ToldInv
  BY InitInv, InitTold
<1>3. JoinInv /\ ToldInv /\ [Next]_vars => JoinInv' /\ ToldInv'
  BY StepInv, StepTold
<1> QED BY <1>1, <1>2, <1>3, PTL DEF Spec
-----------------------------------------------------------------------------
(***************************************************************************)
(* Messages.  What a step of a session is to them: nothing, but that a step *)
(* of a frame may begin; or one of the actions that move, say or take some.  *)
(***************************************************************************)
Message == [kind : {"event", "invoke", "result"}, n : Nat, player : Client \cup {Nobody}, asOf : Nat]
Events == {m \in Message : m.kind = "event"}
PacketType == [from : Int, to : Int, remotes : Seq(Message)]
Answerer == [at : Side, n : Nat, player : Client \cup {Nobody}]

FrameGoesOn == frame' = frame \/ (frame = "run" /\ frame' = "step" /\ inbox[Server] = <<>>)

Still ==
    /\ UNCHANGED <<inVars, outbox, posted, firings, report, wireVars>>
    /\ FrameGoesOn
    /\ \A c \in Client : peer'[c] = "gone" => peer[c] = "gone"
    /\ acts' = acts \/ Acting
    /\ UNCHANGED callVars

Stops(s) ==
    /\ UNCHANGED <<inbox, outbox, kept, heard, lost, posted, firings, report, wireVars, frame, peer>>
    /\ Acting
    /\ \/ UNCHANGED <<calls, pending, answering, failed>>
       \/ StopCaller(s) \/ StopAnswerer(s)

Delivery(s) ==
    /\ Deliver(s, IF s = Server THEN made ELSE 0)
    /\ UNCHANGED <<posted, firings, joiningVars>>

Handing(s) ==
    /\ HandOver(s)
    /\ UNCHANGED <<posted, firings, report, wireVars, peer, acts>>
    /\ FrameGoesOn

MessageStep ==
    \/ Still \/ Submits \/ Applies \/ FrameEnds
    \/ \E c \in Client : Left(c) \/ Posts(c) \/ Receives(c)
    \/ \E s \in Side : Stops(s) \/ Delivery(s) \/ Handing(s) \/ Answers(s)
    \/ FireAllClients
    \/ \E c \in Client : FireClient(c) \/ FireServer(c) \/ InvokeClient(c) \/ InvokeServer(c)

LEMMA NextIsMessages == JoinInv /\ [Next]_vars => MessageStep
<1> SUFFICES ASSUME JoinInv, [Next]_vars PROVE MessageStep
  OBVIOUS
<1> USE DEF Quiet, NoRemotes
<1>1. Server \in Side /\ Client \subseteq Side
  BY DEF Side
<1>2. ASSUME NEW c \in Client, Connected(c) \/ Named(c) PROVE Still
  <2>1. \A d \in Client : peer'[d] = "gone" => peer[d] = "gone"
    BY <1>2 DEF Connected, Named, Connect, Hello, JoinInv, JoiningTypes
  <2> QED BY <1>2, <2>1 DEF Connected, Named, Connect, Hello, Still, FrameGoesOn, remoteVars, frameVars, wireVars
<1>3. ASSUME RunsJob PROVE Still
  <2>1. ASSUME NEW job, NextJob(job) PROVE UNCHANGED <<report, wireVars, frame, peer, acts>>
    BY <2>1 DEF NextJob
  <2>2. UNCHANGED <<report, wireVars, frame, peer, acts>>
    BY <1>3, <2>1 DEF RunsJob, RunJob, AddPlayer, RemoveById, RemoveByName
  <2> QED BY <1>3, <2>2 DEF RunsJob, Still, FrameGoesOn, remoteVars
<1>4. ASSUME ServerChanges PROVE Still
  BY <1>4 DEF ServerChanges, Change, ServerActs, Still, FrameGoesOn, remoteVars, hostVars, wireVars
<1>5. ASSUME StepBegins PROVE Still \/ Handing(Server)
  <2>1. /\ frame = "run" /\ frame' = "step" /\ UNCHANGED <<posted, firings, report, wireVars, peer, acts>>
        /\ inbox[Server] = <<>>
    BY <1>5 DEF StepBegins, Stepping, Delivering, hostVars
  <2>2. CASE HandOver(Server)
    BY <2>1, <2>2 DEF Handing, FrameGoesOn
  <2>3. CASE NothingToHandOver(Server) /\ UNCHANGED <<inbox, outbox, callVars>>
    BY <2>1, <2>3 DEF Still, FrameGoesOn, NothingToHandOver, inVars
  <2> QED BY <1>5, <2>2, <2>3 DEF StepBegins
<1>6. ASSUME NEW s \in Side, Scripts(s) PROVE Stops(s)
  <2>1. Acting /\ UNCHANGED <<posted, firings, report, wireVars, frame, peer>>
    BY <1>6 DEF Scripts, Acts, hostVars
  <2>2. CASE Connects(s) \/ Disconnects(s) \/ SetsCallback(s)
    BY <2>1, <2>2 DEF Connects, Disconnects, SetsCallback, Stops, inVars, callVars
  <2>3. CASE StopCaller(s) \/ StopAnswerer(s)
    BY <2>1, <2>3 DEF StopCaller, StopAnswerer, Stops, inVars
  <2> QED BY <1>6, <2>2, <2>3 DEF Scripts
<1>7. ASSUME ServerDelivers PROVE Delivery(Server)
  BY <1>7 DEF ServerDelivers, Delivery
<1>8. ASSUME NEW c \in Client, ClientDelivers(c) PROVE Delivery(c)
  <2>1. c # Server
    BY RemotesAssumption DEF RemotesAssumption
  <2> QED BY <1>8, <2>1 DEF ClientDelivers, Delivery
<1>9. ASSUME NEW c \in Client, ClientHandsOver(c) PROVE Handing(c)
  BY <1>9 DEF ClientHandsOver, Handing, FrameGoesOn, joiningVars, hostVars, frameVars
<1>10. ASSUME UNCHANGED vars PROVE Still
  BY <1>10 DEF vars, joiningVars, hostVars, frameVars, remoteVars, Still, FrameGoesOn
<1>11. ASSUME NEW c \in Client, ClientStep(c) PROVE MessageStep
  BY <1>1, <1>2, <1>8, <1>9, <1>11 DEF ClientStep, MessageStep
<1>12. ASSUME ServerFrame PROVE MessageStep
  BY <1>1, <1>3, <1>5, <1>7, <1>12 DEF ServerFrame, MessageStep
<1>13. ASSUME Next PROVE MessageStep
  BY <1>4, <1>6, <1>11, <1>12, <1>13 DEF Next, MessageStep
<1> QED BY <1>10, <1>13 DEF MessageStep

-----------------------------------------------------------------------------
(***************************************************************************)
(* What messages are, and where there are none.                            *)
(***************************************************************************)
MessageTypes ==
    /\ inbox \in [Side -> Seq(Message)] /\ outbox \in [Side -> Seq(Message)]
    /\ kept \in [Side -> Seq(Events)]
    /\ heard \in [Side -> Seq(Nat)] /\ lost \in [Side -> Seq(Nat)]
    /\ posted \in Seq(Message)
    /\ report \in PacketType /\ wire \in [Client -> Seq(PacketType)] /\ have \in [Client -> Int]
    /\ acts \in Nat /\ calls \in [Side -> Nat]
    /\ answering \subseteq Answerer

FromClients == \A m \in Range(posted) \cup Range(inbox[Server]) : m.player \in Client

Emptied ==
    /\ frame # "run" => inbox[Server] = <<>>
    /\ frame # "report" => report.remotes = <<>>
    /\ \A c \in Client : peer[c] = "gone" => wire[c] = <<>>

MessageInv == MessageTypes /\ FromClients /\ Emptied

LEMMA Said ==
    /\ \A n \in Nat, asOf \in Nat, p \in Client \cup {Nobody} :
          Event(n, p, asOf) \in Message /\ Invoke(n, p, asOf) \in Message /\ Result(n, p, asOf) \in Message
    /\ \A n, p, asOf : /\ Event(n, p, asOf).kind = "event" /\ Event(n, p, asOf).n = n
                       /\ Event(n, p, asOf).player = p /\ Event(n, p, asOf).asOf = asOf
    /\ \A n, p, asOf : /\ Invoke(n, p, asOf).kind = "invoke" /\ Invoke(n, p, asOf).n = n
                       /\ Invoke(n, p, asOf).player = p /\ Invoke(n, p, asOf).asOf = asOf
    /\ \A n, p, asOf : /\ Result(n, p, asOf).kind = "result" /\ Result(n, p, asOf).n = n
                       /\ Result(n, p, asOf).player = p /\ Result(n, p, asOf).asOf = asOf
BY DEF Event, Invoke, Result, Message

LEMMA EndsDiffer ==
    /\ Server \in Side /\ Client \subseteq Side /\ Server \notin Client
    /\ \A s \in Side : s # Server => s \in Client
    /\ Nobody \notin Client
BY RemotesAssumption, JoiningAssumption DEF RemotesAssumption, JoiningAssumption, Side

LEMMA InitMessages == Init => MessageInv
<1> SUFFICES ASSUME Init PROVE MessageInv
  OBVIOUS
<1> USE DEF Init, JoiningInit, RemotesInit
<1>1. <<>> \in Seq(Message) /\ <<>> \in Seq(Events) /\ <<>> \in Seq(Nat) /\ <<>> \in Seq(PacketType)
      /\ Range(<<>>) = {}
  BY DEF Range
<1>2. NoReport \in PacketType /\ NoReport.remotes = <<>>
  BY <1>1 DEF NoReport, PacketType
<1>3. MessageTypes
  BY <1>1, <1>2 DEF MessageTypes
<1>4. FromClients /\ Emptied
  BY <1>1, <1>2, EndsDiffer DEF FromClients, Emptied
<1> QED BY <1>3, <1>4 DEF MessageInv

\* A filter of messages.
LEMMA ForSome ==
    ASSUME NEW c, NEW ms \in Seq(Message)
    PROVE  For(c, ms) \in Seq(Message) /\ Range(For(c, ms)) \subseteq Range(ms)
<1> DEFINE T == {m \in Range(ms) : m.player \in {Nobody, c}}
<1>1. Within(ms, T) \in Seq(Message) /\ ToSet(Within(ms, T)) = ToSet(ms) \cap T
  BY WithinSet
<1>2. \A s : ToSet(s) = Range(s)
  BY DEF ToSet, Range
<1> QED BY <1>1, <1>2 DEF For

LEMMA FlushType ==
    ASSUME NEW from \in Int, NEW to \in Int, NEW ms \in Seq(Message)
    PROVE  /\ Flush(from, to, ms) \in Seq(PacketType)
           /\ Packet(from, to, ms) \in PacketType
<1>1. Packet(from, to, ms) \in PacketType
  BY DEF Packet, PacketType
<1> QED BY <1>1 DEF Flush

LEMMA SentType ==
    ASSUME MessageTypes, JoinInv, NEW c \in Client
    PROVE  Sent(c) \in Seq(PacketType)
<1>1. RemotesFor(c) \in Seq(Message) /\ <<>> \in Seq(Message)
  BY ForSome DEF RemotesFor, MessageTypes, PacketType
<1>2. report.from \in Int /\ report.to \in Int /\ join.before \in Int /\ join.asOf \in Int /\ -1 \in Int
  BY DEF MessageTypes, PacketType, JoinInv, JoiningTypes
<1>3. <<Packet(-1, join.asOf, <<>>)>> \in Seq(PacketType)
  <2>1. Packet(-1, join.asOf, <<>>) \in PacketType
    BY <1>1, <1>2, FlushType
  <2> QED BY <2>1
<1>4. /\ Flush(report.from, report.to, RemotesFor(c)) \in Seq(PacketType)
      /\ Flush(join.before, report.to, RemotesFor(c)) \in Seq(PacketType)
  BY <1>1, <1>2, FlushType
<1>5. \A s, t \in Seq(PacketType) : s \o t \in Seq(PacketType)
  OBVIOUS
<1>6. <<>> \in Seq(PacketType)
  OBVIOUS
<1> QED BY <1>3, <1>4, <1>5, <1>6 DEF Sent

(***************************************************************************)
(* One end's list grows or shrinks.                                        *)
(***************************************************************************)
LEMMA Grown ==
    ASSUME NEW I, NEW S, NEW f \in [I -> Seq(S)], NEW i \in I, NEW e \in S
    PROVE  [f EXCEPT ![i] = Append(@, e)] \in [I -> Seq(S)]
OBVIOUS

LEMMA Set ==
    ASSUME NEW I, NEW S, NEW f \in [I -> Seq(S)], NEW i \in I, NEW s \in Seq(S)
    PROVE  [f EXCEPT ![i] = s] \in [I -> Seq(S)]
OBVIOUS

LEMMA MessagesSaid ==
    ASSUME MessageInv, NEW s \in Side, NEW m \in Message, Says(s, m),
           UNCHANGED <<inVars, posted, report, wireVars>>, acts' \in Nat, calls' \in [Side -> Nat],
           answering' \subseteq Answerer, FrameGoesOn,
           \A c \in Client : peer'[c] = "gone" => peer[c] = "gone"
    PROVE  MessageInv'
<1> USE DEF MessageInv
<1>1. outbox' \in [Side -> Seq(Message)]
  BY Grown DEF MessageTypes, Says
<1>2. MessageTypes'
  BY <1>1 DEF MessageTypes, inVars, wireVars
<1>3. FromClients' /\ Emptied'
  BY DEF FromClients, Emptied, FrameGoesOn, inVars, wireVars
<1> QED BY <1>2, <1>3

LEMMA MessagesStill ==
    ASSUME JoinInv, MessageInv, Still \/ \E s \in Side : Stops(s)
    PROVE  MessageInv'
<1> USE DEF MessageInv
<1>1. /\ UNCHANGED <<inbox, outbox, kept, heard, lost, posted, report, wireVars, calls>>
      /\ FrameGoesOn /\ acts' \in Nat /\ answering' \subseteq answering
      /\ \A c \in Client : peer'[c] = "gone" => peer[c] = "gone"
  <2>1. acts' = acts \/ Acting => acts' \in Nat
    BY DEF MessageTypes, Acting
  <2>2. CASE Still
    BY <2>1, <2>2 DEF Still, inVars, callVars
  <2>3. ASSUME NEW s \in Side, Stops(s) PROVE UNCHANGED calls /\ answering' \subseteq answering
    BY <2>3 DEF Stops, StopCaller, StopAnswerer
  <2>4. CASE \E s \in Side : Stops(s)
    BY <2>1, <2>3, <2>4 DEF Stops, FrameGoesOn
  <2> QED BY <2>2, <2>4
<1>2. MessageTypes'
  BY <1>1 DEF MessageTypes, wireVars
<1>3. FromClients' /\ Emptied'
  BY <1>1 DEF FromClients, Emptied, FrameGoesOn, wireVars
<1> QED BY <1>2, <1>3

LEMMA MessagesLeft ==
    ASSUME JoinInv, MessageInv, NEW c \in Client, Left(c)
    PROVE  MessageInv'
<1> USE DEF MessageInv
<1>1. /\ inbox' = [inbox EXCEPT ![c] = <<>>] /\ outbox' = [outbox EXCEPT ![c] = <<>>]
      /\ kept' = [kept EXCEPT ![c] = <<>>] /\ wire' = [wire EXCEPT ![c] = <<>>]
      /\ peer' = [peer EXCEPT ![c] = "gone"]
      /\ answering' \subseteq answering
      /\ UNCHANGED <<heard, lost, posted, report, have, acts, calls, frame>>
  BY DEF Left, Leave, Closes, Quiet, frameVars
<1>2. c \in Side /\ c # Server
  BY EndsDiffer
<1>3. <<>> \in Seq(Message) /\ <<>> \in Seq(Events) /\ <<>> \in Seq(PacketType)
  OBVIOUS
<1>4. /\ inbox' \in [Side -> Seq(Message)] /\ outbox' \in [Side -> Seq(Message)]
      /\ kept' \in [Side -> Seq(Events)] /\ wire' \in [Client -> Seq(PacketType)]
  BY <1>1, <1>2, <1>3, Set DEF MessageTypes
<1>5. MessageTypes'
  BY <1>1, <1>4 DEF MessageTypes
<1>6. inbox'[Server] = inbox[Server]
  BY <1>1, <1>2 DEF MessageTypes
<1>7. \A d \in Client : peer'[d] = "gone" => wire'[d] = <<>>
  BY <1>1 DEF MessageTypes, Emptied, JoinInv, JoiningTypes
<1>8. FromClients' /\ Emptied'
  BY <1>1, <1>6, <1>7 DEF FromClients, Emptied
<1> QED BY <1>5, <1>8

LEMMA MessagesPosted ==
    ASSUME MessageInv, NEW c \in Client, Posts(c)
    PROVE  MessageInv'
<1> USE DEF MessageInv
<1> DEFINE m == [Head(outbox[c]) EXCEPT !.player = c]
<1>1. /\ outbox[c] # <<>> /\ posted' = Append(posted, m) /\ outbox' = [outbox EXCEPT ![c] = Tail(@)]
      /\ UNCHANGED <<inbox, kept, heard, lost, report, wire, have, acts, calls, frame, peer, answering>>
  BY DEF Posts, joiningVars, hostVars, frameVars, wireVars, inVars, callVars
<1>2. c \in Side
  BY EndsDiffer
<1>3. outbox[c] \in Seq(Message) /\ Head(outbox[c]) \in Message /\ Tail(outbox[c]) \in Seq(Message)
  BY <1>1, <1>2 DEF MessageTypes
<1>4. m \in Message /\ m.player = c
  BY <1>3 DEF Message
<1> HIDE DEF m
<1>5. outbox' \in [Side -> Seq(Message)]
  BY <1>1, <1>2, <1>3, Set DEF MessageTypes
<1>6. posted' \in Seq(Message) /\ Range(posted') = Range(posted) \cup {m}
  BY <1>1, <1>4, Appended DEF MessageTypes
<1>7. MessageTypes'
  BY <1>1, <1>5, <1>6 DEF MessageTypes
<1>8. FromClients' /\ Emptied'
  BY <1>1, <1>4, <1>6 DEF FromClients, Emptied
<1> QED BY <1>7, <1>8

LEMMA MessagesSubmitted ==
    ASSUME MessageInv, Submits
    PROVE  MessageInv'
<1> USE DEF MessageInv
<1>1. /\ inbox' = [inbox EXCEPT ![Server] = posted] /\ posted' = <<>>
      /\ frame = "apply" /\ frame' = "run"
      /\ UNCHANGED <<outbox, kept, heard, lost, report, wire, have, acts, calls, peer, answering>>
  BY DEF Submits, Submit, wireVars, callVars
<1>2. Range(<<>>) = {} /\ <<>> \in Seq(Message)
  BY DEF Range
<1>3. inbox' \in [Side -> Seq(Message)] /\ inbox'[Server] = posted
  BY <1>1, EndsDiffer, Set DEF MessageTypes
<1>4. MessageTypes'
  BY <1>1, <1>2, <1>3 DEF MessageTypes
<1>5. FromClients' /\ Emptied'
  BY <1>1, <1>2, <1>3 DEF FromClients, Emptied
<1> QED BY <1>4, <1>5

LEMMA MessagesApplied ==
    ASSUME JoinInv, MessageInv, Applies
    PROVE  MessageInv'
<1> USE DEF MessageInv
<1>1. /\ frame = "report" /\ frame' = "apply" /\ report' = NoReport
      /\ peer' = [c \in Client |-> IF Welcomes(c) THEN "joined" ELSE peer[c]]
      /\ wire' = [c \in Client |-> wire[c] \o Sent(c)]
      /\ UNCHANGED <<inbox, outbox, kept, heard, lost, posted, have, acts, calls, answering>>
  BY DEF Applies, ApplyServer, NoRemotes, remoteVars, inVars, callVars
<1>2. wire' \in [Client -> Seq(PacketType)]
  <2>1. \A c \in Client : wire[c] \in Seq(PacketType) /\ Sent(c) \in Seq(PacketType)
    BY SentType DEF MessageTypes
  <2>2. \A s, t \in Seq(PacketType) : s \o t \in Seq(PacketType)
    OBVIOUS
  <2> QED BY <1>1, <2>1, <2>2
<1>3. NoReport \in PacketType /\ NoReport.remotes = <<>>
  BY DEF NoReport, PacketType
<1>4. MessageTypes'
  BY <1>1, <1>2, <1>3 DEF MessageTypes
<1>5. ASSUME NEW c \in Client, peer'[c] = "gone" PROVE wire'[c] = <<>>
  <2>1. ~Welcomes(c) /\ peer[c] = "gone"
    BY <1>1, <1>5
  <2>2. Sent(c) = <<>> /\ wire[c] = <<>>
    BY <2>1 DEF Sent, Emptied
  <2> QED BY <1>1, <2>2
<1>6. FromClients' /\ Emptied'
  BY <1>1, <1>3, <1>5 DEF FromClients, Emptied
<1> QED BY <1>4, <1>6

LEMMA MessagesReported ==
    ASSUME JoinInv, MessageInv, FrameEnds
    PROVE  MessageInv'
<1> USE DEF MessageInv
<1>1. /\ frame = "step" /\ frame' = "report"
      /\ report' = [from |-> taken, to |-> made, remotes |-> outbox[Server]]
      /\ outbox' = [outbox EXCEPT ![Server] = <<>>]
      /\ UNCHANGED <<inbox, kept, heard, lost, posted, wire, have, acts, calls, peer, answering>>
  BY DEF FrameEnds, EndFrame, Quiet, inVars, callVars, hostVars, wireVars
<1>2. <<>> \in Seq(Message) /\ outbox[Server] \in Seq(Message)
  BY EndsDiffer DEF MessageTypes
<1>3. report' \in PacketType
  BY <1>1, <1>2 DEF PacketType, JoinInv, JoiningTypes
<1>4. outbox' \in [Side -> Seq(Message)]
  BY <1>1, <1>2, EndsDiffer, Set DEF MessageTypes
<1>5. MessageTypes'
  BY <1>1, <1>3, <1>4 DEF MessageTypes
<1>6. FromClients' /\ Emptied'
  BY <1>1 DEF FromClients, Emptied
<1> QED BY <1>5, <1>6

LEMMA MessagesReceived ==
    ASSUME MessageInv, NEW c \in Client, Receives(c)
    PROVE  MessageInv'
<1> USE DEF MessageInv
<1>1. /\ wire[c] # <<>> /\ wire' = [wire EXCEPT ![c] = Tail(@)]
      /\ have' = [have EXCEPT ![c] = Head(wire[c]).to]
      /\ inbox' = [inbox EXCEPT ![c] = @ \o Head(wire[c]).remotes]
      /\ UNCHANGED <<outbox, kept, heard, lost, posted, report, acts, calls, frame, peer, answering>>
  BY DEF Receives, Receive, Quiet, frameVars, hostVars, callVars
<1>2. c \in Side /\ c # Server
  BY EndsDiffer
<1>3. /\ Head(wire[c]) \in PacketType /\ Tail(wire[c]) \in Seq(PacketType)
  BY <1>1 DEF MessageTypes
<1>4. Head(wire[c]).to \in Int /\ Head(wire[c]).remotes \in Seq(Message)
  BY <1>3 DEF PacketType
<1>5. inbox[c] \o Head(wire[c]).remotes \in Seq(Message)
  BY <1>2, <1>4, Joined DEF MessageTypes
<1>6. /\ inbox' \in [Side -> Seq(Message)] /\ wire' \in [Client -> Seq(PacketType)]
      /\ have' \in [Client -> Int] /\ inbox'[Server] = inbox[Server]
  BY <1>1, <1>2, <1>3, <1>4, <1>5, Set DEF MessageTypes
<1>7. MessageTypes'
  BY <1>1, <1>6 DEF MessageTypes
<1>8. \A d \in Client : wire[d] = <<>> => wire'[d] = <<>>
  BY <1>1 DEF MessageTypes
<1>9. FromClients' /\ Emptied'
  BY <1>1, <1>6, <1>8 DEF FromClients, Emptied
<1> QED BY <1>7, <1>9

(***************************************************************************)
(* deliverRemote, of the first message.                                    *)
(***************************************************************************)
LEMMA DeliveryTakes ==
    ASSUME MessageInv, NEW s \in Side, Delivery(s)
    PROVE  /\ inbox[s] # <<>> /\ Head(inbox[s]) \in Message
           /\ inbox' = [inbox EXCEPT ![s] = Tail(@)]
           /\ inbox' \in [Side -> Seq(Message)]
           /\ UNCHANGED <<posted, firings, joiningVars>>
           /\ s = Server => Head(inbox[s]).player \in Client
           /\ Range(inbox'[Server]) \subseteq Range(inbox[Server])
<1>1. /\ inbox[s] # <<>> /\ inbox' = [inbox EXCEPT ![s] = Tail(@)]
      /\ UNCHANGED <<posted, firings, joiningVars>>
  BY DEF Delivery, Deliver, DeliverEvent, DeliverInvoke, DeliverResult, Delivers
<1>2. inbox[s] \in Seq(Message) /\ Server \in Side
  BY EndsDiffer DEF MessageInv, MessageTypes
<1>3. /\ Tail(inbox[s]) \in Seq(Message) /\ Head(inbox[s]) \in Message
      /\ Range(inbox[s]) = Range(Tail(inbox[s])) \cup {Head(inbox[s])}
  BY <1>1, <1>2, Taken
<1>4. inbox' \in [Side -> Seq(Message)]
  BY <1>1, <1>3, Set DEF MessageInv, MessageTypes
<1>5. Range(inbox'[Server]) \subseteq Range(inbox[Server])
  <2>1. inbox'[Server] = IF s = Server THEN Tail(inbox[s]) ELSE inbox[Server]
    BY <1>1, <1>2 DEF MessageInv, MessageTypes
  <2> QED BY <1>3, <2>1
<1> QED BY <1>1, <1>3, <1>4, <1>5 DEF MessageInv, FromClients

LEMMA MessagesDelivered ==
    ASSUME JoinInv, MessageInv, NEW s \in Side, Delivery(s)
    PROVE  MessageInv'
<1> DEFINE m == Head(inbox[s])
           asOf == IF s = Server THEN made ELSE 0
<1>1. /\ m \in Message /\ inbox' \in [Side -> Seq(Message)]
      /\ inbox' = [inbox EXCEPT ![s] = Tail(@)] /\ inbox[s] # <<>>
      /\ UNCHANGED <<posted, report, wire, have, acts, frame, peer>>
      /\ Range(inbox'[Server]) \subseteq Range(inbox[Server])
  BY DeliveryTakes DEF joiningVars, frameVars, wireVars, hostVars
<1>2. m.n \in Nat /\ m.player \in Client \cup {Nobody} /\ asOf \in Nat
  BY <1>1 DEF Message, JoinInv, JoiningTypes
<1> HIDE DEF m, asOf
<1> USE DEF MessageInv
<1>3. outbox' \in [Side -> Seq(Message)]
  <2>1. Result(m.n, m.player, asOf) \in Message
    BY <1>2, Said
  <2>2. UNCHANGED outbox \/ Says(s, Result(m.n, m.player, asOf))
    BY DEF Delivery, Deliver, DeliverEvent, DeliverInvoke, DeliverResult, m, asOf
  <2>3. [outbox EXCEPT ![s] = Append(@, Result(m.n, m.player, asOf))] \in [Side -> Seq(Message)]
    BY <2>1, Grown DEF MessageTypes
  <2> QED BY <2>2, <2>3 DEF Says, MessageTypes
<1>4. answering' \subseteq Answerer
  <2>1. [at |-> s, n |-> m.n, player |-> m.player] \in Answerer
    BY <1>2 DEF Answerer
  <2>2. answering' \subseteq answering \cup {[at |-> s, n |-> m.n, player |-> m.player]}
    BY DEF Delivery, Deliver, DeliverEvent, DeliverInvoke, DeliverResult, callVars, m
  <2> QED BY <2>1, <2>2 DEF MessageTypes
<1>5. /\ kept' \in [Side -> Seq(Events)] /\ heard' \in [Side -> Seq(Nat)] /\ lost' \in [Side -> Seq(Nat)]
      /\ calls' = calls
  <2>1. CASE DeliverEvent(s)
    <3>1. m \in Events
      BY <1>1, <2>1 DEF DeliverEvent, Delivers, Events, m
    <3>2. \/ heard' = [heard EXCEPT ![s] = Append(@, m.n)] /\ UNCHANGED <<kept, lost>>
          \/ kept' = [kept EXCEPT ![s] = Append(@, m)] /\ UNCHANGED <<heard, lost>>
          \/ lost' = [lost EXCEPT ![s] = Append(@, m.n)] /\ UNCHANGED <<heard, kept>>
      BY <2>1 DEF DeliverEvent, m
    <3>3. calls' = calls
      BY <2>1 DEF DeliverEvent, callVars
    <3>4. /\ [heard EXCEPT ![s] = Append(@, m.n)] \in [Side -> Seq(Nat)]
          /\ [lost EXCEPT ![s] = Append(@, m.n)] \in [Side -> Seq(Nat)]
          /\ [kept EXCEPT ![s] = Append(@, m)] \in [Side -> Seq(Events)]
      BY <1>2, <3>1, Grown DEF MessageTypes
    <3> QED BY <3>2, <3>3, <3>4 DEF MessageTypes
  <2>2. CASE DeliverInvoke(s, asOf) \/ DeliverResult(s)
    BY <2>2 DEF DeliverInvoke, DeliverResult, MessageTypes
  <2> QED BY <2>1, <2>2 DEF Delivery, Deliver, asOf
<1>6. MessageTypes'
  BY <1>1, <1>3, <1>4, <1>5 DEF MessageTypes
<1>7. inbox[Server] = <<>> => inbox'[Server] = <<>>
  BY <1>1, EndsDiffer DEF MessageTypes
<1>8. FromClients' /\ Emptied'
  BY <1>1, <1>7 DEF FromClients, Emptied
<1> QED BY <1>6, <1>8

LEMMA EventsAreMessages ==
    ASSUME NEW ms \in Seq(Events)
    PROVE  ms \in Seq(Message) /\ DOMAIN ms = 1..Len(ms)
<1>1. Events \subseteq Message
  BY DEF Events
<1> HIDE DEF Events
<1> QED BY <1>1

LEMMA NumbersType ==
    ASSUME NEW ms \in Seq(Message)
    PROVE  Numbers(ms) \in Seq(Nat) /\ Len(Numbers(ms)) = Len(ms) /\ \A i \in 1..Len(ms) : Numbers(ms)[i] = ms[i].n
<1>1. \A i \in 1..Len(ms) : ms[i].n \in Nat
  <2>1. \A i \in 1..Len(ms) : ms[i] \in Message
    OBVIOUS
  <2> QED BY <2>1 DEF Message
<1> QED BY <1>1 DEF Numbers

LEMMA MessagesHanded ==
    ASSUME MessageInv, NEW s \in Side, Handing(s)
    PROVE  MessageInv'
<1> USE DEF MessageInv
<1>1. PICK k \in DOMAIN kept[s] :
          /\ heard' = [heard EXCEPT ![s] = @ \o Numbers(SubSeq(kept[s], 1, k))]
          /\ lost' = [lost EXCEPT ![s] = @ \o Numbers(SubSeq(kept[s], k + 1, Len(kept[s])))]
  BY DEF Handing, HandOver
<1>2. /\ kept' = [kept EXCEPT ![s] = <<>>] /\ FrameGoesOn
      /\ UNCHANGED <<inbox, outbox, posted, report, wire, have, acts, calls, answering, peer>>
  BY DEF Handing, HandOver, wireVars, callVars
<1>3. kept[s] \in Seq(Message) /\ k \in 1..Len(kept[s])
  <2>1. kept[s] \in Seq(Events)
    BY DEF MessageTypes
  <2> QED BY <2>1, EventsAreMessages
<1>4. SubSeq(kept[s], 1, k) \in Seq(Message) /\ SubSeq(kept[s], k + 1, Len(kept[s])) \in Seq(Message)
  BY <1>3
<1>5. /\ heard[s] \o Numbers(SubSeq(kept[s], 1, k)) \in Seq(Nat)
      /\ lost[s] \o Numbers(SubSeq(kept[s], k + 1, Len(kept[s]))) \in Seq(Nat)
  BY <1>4, NumbersType, Joined DEF MessageTypes
<1>6. <<>> \in Seq(Events)
  OBVIOUS
<1>7. /\ kept' \in [Side -> Seq(Events)] /\ heard' \in [Side -> Seq(Nat)] /\ lost' \in [Side -> Seq(Nat)]
  BY <1>1, <1>2, <1>5, <1>6, Set DEF MessageTypes
<1>8. MessageTypes'
  BY <1>2, <1>7 DEF MessageTypes
<1>9. FromClients' /\ Emptied'
  BY <1>2 DEF FromClients, Emptied, FrameGoesOn
<1> QED BY <1>8, <1>9

(***************************************************************************)
(* What scripts say.                                                       *)
(***************************************************************************)
Fires(s, player, for) ==
    /\ FiresTo(s, player, for)
    /\ \/ s = Server /\ for \subseteq Range(players) /\ for # {} /\ \A c \in for : player \in {Nobody, c}
       \/ s \in Client /\ player = Nobody /\ for = {Server}
    /\ player \in Client \cup {Nobody}

Calls(s, player) ==
    /\ Acts(s) /\ UNCHANGED firings /\ Call(s, player, IF s = Server THEN made ELSE 0)
    /\ IF s = Server THEN player \in Client /\ player \in Range(players)
                     ELSE s \in Client /\ player = Nobody

LEMMA Speaking ==
    ASSUME JoinInv
    PROVE  /\ FireAllClients => Fires(Server, Nobody, Range(players))
           /\ \A c \in Client : FireClient(c) => Fires(Server, c, {c})
           /\ \A c \in Client : FireServer(c) => Fires(c, Nobody, {Server})
           /\ \A c \in Client : InvokeClient(c) => Calls(Server, c)
           /\ \A c \in Client : InvokeServer(c) => Calls(c, Nobody)
<1>1. \A c \in Client : c # Server
  BY EndsDiffer
<1>2. players # <<>> => Range(players) # {}
  <2> SUFFICES ASSUME players # <<>> PROVE Range(players) # {}
    OBVIOUS
  <2>1. players \in Seq(Client)
    BY DEF JoinInv, JoiningTypes
  <2>2. 1 \in DOMAIN players
    BY <2>1
  <2> QED BY <2>2 DEF Range
<1>3. FireAllClients => Fires(Server, Nobody, Range(players))
  BY <1>2 DEF FireAllClients, Fires
<1>4. \A c \in Client : FireClient(c) => Fires(Server, c, {c})
  BY DEF FireClient, Fires
<1>5. \A c \in Client : FireServer(c) => Fires(c, Nobody, {Server})
  BY DEF FireServer, Fires
<1>6. \A c \in Client : InvokeClient(c) => Calls(Server, c)
  BY DEF InvokeClient, Calls
<1>7. \A c \in Client : InvokeServer(c) => Calls(c, Nobody)
  BY <1>1 DEF InvokeServer, Calls
<1> QED BY <1>3, <1>4, <1>5, <1>6, <1>7

LEMMA MessagesSpoken ==
    ASSUME JoinInv, MessageInv, NEW s \in Side,
           \/ Answers(s)
           \/ \E player, for : Fires(s, player, for)
           \/ \E player : Calls(s, player)
    PROVE  MessageInv'
<1> DEFINE asOf == IF s = Server THEN made ELSE 0
<1>1. asOf \in Nat
  BY DEF JoinInv, JoiningTypes
<1> HIDE DEF asOf
<1>2. Acts(s) => UNCHANGED <<posted, report, wireVars, frame, peer>> /\ acts' = acts + 1
  BY DEF Acts, Acting, hostVars
<1>3. CASE \E player, for : Fires(s, player, for)
  <2>1. PICK player, for : Fires(s, player, for)
    BY <1>3
  <2>2. player \in Client \cup {Nobody} /\ Fire(s, acts', player, asOf) /\ Acts(s)
    BY <2>1 DEF Fires, FiresTo, asOf
  <2>3. acts' \in Nat
    BY <1>2, <2>2 DEF MessageInv, MessageTypes
  <2>4. Event(acts', player, asOf) \in Message
    BY <1>1, <2>2, <2>3, Said
  <2>5. Says(s, Event(acts', player, asOf)) /\ UNCHANGED <<inVars, callVars>>
    BY <2>2 DEF Fire
  <2>6. /\ calls' \in [Side -> Nat] /\ answering' \subseteq Answerer /\ FrameGoesOn
        /\ UNCHANGED <<inVars, posted, report, wireVars>>
        /\ \A c \in Client : peer'[c] = "gone" => peer[c] = "gone"
    BY <1>2, <2>2, <2>5 DEF callVars, MessageInv, MessageTypes, FrameGoesOn
  <2> QED BY <2>3, <2>4, <2>5, <2>6, MessagesSaid
<1>4. CASE \E player : Calls(s, player)
  <2>1. PICK player : Calls(s, player)
    BY <1>4
  <2>2. player \in Client \cup {Nobody} /\ Call(s, player, asOf) /\ Acts(s)
    BY <2>1 DEF Calls, asOf
  <2>3. calls[s] + 1 \in Nat /\ acts' \in Nat
    BY <1>2, <2>2 DEF MessageInv, MessageTypes
  <2>4. Invoke(calls[s] + 1, player, asOf) \in Message
    BY <1>1, <2>2, <2>3, Said
  <2>5. /\ Says(s, Invoke(calls[s] + 1, player, asOf)) /\ UNCHANGED <<inVars, answering>>
        /\ calls' = [calls EXCEPT ![s] = calls[s] + 1]
    BY <2>2 DEF Call
  <2>6. /\ calls' \in [Side -> Nat] /\ answering' \subseteq Answerer /\ FrameGoesOn
        /\ UNCHANGED <<inVars, posted, report, wireVars>>
        /\ \A c \in Client : peer'[c] = "gone" => peer[c] = "gone"
    BY <1>2, <2>2, <2>3, <2>5 DEF MessageInv, MessageTypes, FrameGoesOn
  <2> QED BY <2>3, <2>4, <2>5, <2>6, MessagesSaid
<1>5. CASE Answers(s)
  <2>1. PICK x \in answering : Answer(s, x, asOf)
    BY <1>5 DEF Answers, asOf
  <2>2. x.n \in Nat /\ x.player \in Client \cup {Nobody}
    BY DEF MessageInv, MessageTypes, Answerer
  <2>3. Result(x.n, x.player, asOf) \in Message
    BY <1>1, <2>2, Said
  <2>4. UNCHANGED <<inVars, posted, report, wireVars, calls, acts, frame, peer>>
    BY <1>5, <2>1 DEF Answers, Answer, Quiet, joiningVars, frameVars, hostVars
  <2>5. Says(s, Result(x.n, x.player, asOf)) /\ answering' \subseteq answering
    BY <2>1 DEF Answer
  <2>6. /\ acts' \in Nat /\ calls' \in [Side -> Nat] /\ answering' \subseteq Answerer /\ FrameGoesOn
        /\ \A c \in Client : peer'[c] = "gone" => peer[c] = "gone"
    BY <2>4, <2>5 DEF MessageInv, MessageTypes, FrameGoesOn
  <2> QED BY <2>3, <2>4, <2>5, <2>6, MessagesSaid
<1> QED BY <1>3, <1>4, <1>5

LEMMA StepMessages == JoinInv /\ MessageInv /\ [Next]_vars => MessageInv'
<1> SUFFICES ASSUME JoinInv, MessageInv, MessageStep PROVE MessageInv'
  BY NextIsMessages
<1>1. CASE Still \/ Submits \/ Applies \/ FrameEnds
  BY <1>1, MessagesStill, MessagesSubmitted, MessagesApplied, MessagesReported
<1>2. ASSUME NEW c \in Client, Left(c) \/ Posts(c) \/ Receives(c) PROVE MessageInv'
  BY <1>2, MessagesLeft, MessagesPosted, MessagesReceived
<1>3. ASSUME NEW s \in Side, Stops(s) \/ Delivery(s) \/ Handing(s) \/ Answers(s) PROVE MessageInv'
  BY <1>3, MessagesStill, MessagesDelivered, MessagesHanded, MessagesSpoken
<1>4. CASE FireAllClients \/ \E c \in Client : FireClient(c) \/ FireServer(c) \/ InvokeClient(c) \/ InvokeServer(c)
  <2>1. \E s \in Side : (\E player, for : Fires(s, player, for)) \/ (\E player : Calls(s, player))
    BY <1>4, Speaking, EndsDiffer
  <2> QED BY <2>1, MessagesSpoken
<1> QED BY <1>1, <1>2, <1>3, <1>4 DEF MessageStep
-----------------------------------------------------------------------------
(***************************************************************************)
(* How far what a message speaks of goes: never further than what its list *)
(* will have told by the time it is delivered.                             *)
(***************************************************************************)
Ascending ==
    /\ taken <= made
    /\ join.done => join.before <= taken /\ join.before <= join.asOf
    /\ report.from <= report.to
    /\ \A c \in Client : \A p \in Range(wire[c]) : p.from <= p.to

SpokenOf ==
    /\ \A m \in Range(outbox[Server]) : m.asOf <= made
    /\ \A m \in Range(report.remotes) : m.asOf <= report.to
    /\ \A c \in Client : \A p \in Range(wire[c]) : \A m \in Range(p.remotes) : m.asOf <= p.to

AheadInv == Ascending /\ SpokenOf /\ MessagesAreNotAhead

LEMMA InitAhead == Init => AheadInv
<1> SUFFICES ASSUME Init PROVE AheadInv
  OBVIOUS
<1> USE DEF Init, JoiningInit, RemotesInit
<1>1. Range(<<>>) = {}
  BY DEF Range
<1>2. Ascending
  BY <1>1 DEF Ascending, NoJoin, NoReport
<1>3. SpokenOf /\ MessagesAreNotAhead
  BY <1>1, EndsDiffer DEF SpokenOf, MessagesAreNotAhead, NoReport
<1> QED BY <1>2, <1>3 DEF AheadInv

\* What is sent to a client is of the frame's report, or is its snapshot.
LEMMA SentIs ==
    ASSUME JoinInv, MessageInv, ToldInv, Ascending, frame = "report", NEW c \in Client, NEW p \in Range(Sent(c))
    PROVE  /\ p.from <= p.to
           /\ p.remotes = <<>> \/ (p.to = report.to /\ Range(p.remotes) \subseteq Range(report.remotes))
<1>1. /\ report.from \in Int /\ report.to \in Int /\ report.remotes \in Seq(Message)
      /\ join.before \in Nat /\ join.asOf \in Nat
  BY DEF MessageInv, MessageTypes, PacketType, JoinInv, JoiningTypes
<1>2. RemotesFor(c) \in Seq(Message) /\ Range(RemotesFor(c)) \subseteq Range(report.remotes)
  BY <1>1, ForSome DEF RemotesFor
<1>3. join.done => join.before <= report.to
  BY <1>1 DEF Ascending, ToldInv, JoinInv, JoiningTypes
<1>4. Range(<<>>) = {} /\ \A q : Range(<<q>>) = {q}
  BY DEF Range
<1>5. ASSUME NEW from \in Int, from <= report.to, p \in Range(Flush(from, report.to, RemotesFor(c)))
      PROVE  p.from <= p.to /\ p.to = report.to /\ Range(p.remotes) \subseteq Range(report.remotes)
  <2>1. p = Packet(from, report.to, RemotesFor(c))
    BY <1>4, <1>5 DEF Flush
  <2> QED BY <1>2, <1>5, <2>1 DEF Packet
<1>6. CASE Welcomes(c)
  <2> DEFINE w == Packet(-1, join.asOf, <<>>)
             fl == Flush(report.from, report.to, RemotesFor(c))
  <2>1. Sent(c) = <<w>> \o fl
    BY <1>6 DEF Sent
  <2>2. fl \in Seq(PacketType) /\ w \in PacketType
    <3>1. <<>> \in Seq(Message) /\ -1 \in Int /\ join.asOf \in Int
      BY <1>1
    <3> QED BY <1>1, <1>2, <3>1, FlushType
  <2>3. w.from <= w.to /\ w.remotes = <<>>
    BY <1>1 DEF Packet
  <2> HIDE DEF w, fl
  <2>4. <<w>> \in Seq(PacketType)
    BY <2>2
  <2>5. p \in Range(<<w>>) \cup Range(fl)
    BY <2>1, <2>2, <2>4, Joined
  <2>6. p = w \/ p \in Range(fl)
    BY <1>4, <2>5
  <2>7. CASE p = w
    BY <2>3, <2>7
  <2>8. CASE p \in Range(fl)
    <3>1. report.from <= report.to
      BY DEF Ascending
    <3> QED BY <1>1, <1>5, <2>8, <3>1 DEF fl
  <2> QED BY <2>6, <2>7, <2>8
<1>7. CASE peer[c] = "joined" /\ ~Welcomes(c)
  <2> DEFINE from == IF Joining THEN join.before ELSE report.from
  <2>1. Sent(c) = Flush(from, report.to, RemotesFor(c))
    BY <1>7 DEF Sent
  <2>2. from \in Int /\ from <= report.to
    BY <1>1, <1>3 DEF Joining, Ascending
  <2> HIDE DEF from
  <2> QED BY <1>5, <2>1, <2>2
<1>8. CASE peer[c] # "joined" /\ ~Welcomes(c)
  <2>1. Sent(c) = <<>>
    BY <1>8 DEF Sent
  <2> QED BY <1>4, <2>1
<1> QED BY <1>6, <1>7, <1>8

\* What is on the wire to a client after the host has a frame back.
LEMMA WireApplied ==
    ASSUME JoinInv, MessageInv, ApplyServer, NEW c \in Client
    PROVE  wire'[c] = wire[c] \o Sent(c) /\ Range(wire'[c]) = Range(wire[c]) \cup Range(Sent(c))
<1>1. wire'[c] = wire[c] \o Sent(c)
  BY DEF ApplyServer
<1>2. wire[c] \in Seq(PacketType) /\ Sent(c) \in Seq(PacketType)
  BY SentType DEF MessageInv, MessageTypes
<1> QED BY <1>1, <1>2, Joined

LEMMA MadeGrows ==
    ASSUME JoinInv, JoiningStep \/ Idle
    PROVE  made' >= made
<1>1. made \in Nat
  BY DEF JoinInv, JoiningTypes
<1>2. ASSUME NEW c \in Client, Connect(c) \/ Hello(c) \/ Leave(c) \/ Receive(c) PROVE made' = made
  BY <1>2 DEF Connect, Hello, Leave, Receive, frameVars
<1>3. ASSUME NEW c, RemovePlayer(c) PROVE made' >= made
  BY <1>1, <1>3 DEF RemovePlayer
<1>4. ASSUME NEW c \in Client, AddPlayer(c) \/ RemoveById(c) PROVE made' >= made
  BY <1>1, <1>3, <1>4 DEF AddPlayer, RemoveById
<1>5. ASSUME NEW n \in Name, RemoveByName(n) PROVE made' >= made
  BY <1>1, <1>3, <1>5 DEF RemoveByName
<1>6. CASE Submit \/ ApplyServer \/ Stepping \/ EndFrame(outbox[Server]) \/ Change \/ Idle
  BY <1>1, <1>6 DEF Submit, ApplyServer, Stepping, EndFrame, Change, Idle
<1> QED BY <1>1, <1>2, <1>4, <1>5, <1>6 DEF JoiningStep

LEMMA AscendingStep ==
    ASSUME JoinInv, MessageInv, ToldInv, Ascending, JoiningStep \/ Idle
    PROVE  Ascending'
<1>1. made \in Nat /\ taken \in Nat
  BY DEF JoinInv, JoiningTypes
<1>2. ASSUME NEW c \in Client, Connect(c) \/ Hello(c) PROVE Ascending'
  BY <1>2 DEF Connect, Hello, Ascending, frameVars, wireVars
<1>3. ASSUME NEW c \in Client, Leave(c) PROVE Ascending'
  <2>1. UNCHANGED <<made, taken, report>> /\ wire' = [wire EXCEPT ![c] = <<>>]
    BY <1>3 DEF Leave, frameVars
  <2>2. join'.done = join.done /\ join'.before = join.before /\ join'.asOf = join.asOf
    BY <1>3 DEF Leave, JoinInv, JoiningTypes
  <2>3. ASSUME NEW d \in Client PROVE \A p \in Range(wire'[d]) : p.from <= p.to
    <3>1. wire'[d] = IF d = c THEN <<>> ELSE wire[d]
      BY <2>1 DEF MessageInv, MessageTypes
    <3> QED BY <3>1 DEF Ascending, Range
  <2> QED BY <2>1, <2>2, <2>3 DEF Ascending
<1>4. ASSUME NEW c \in Client, Receive(c) PROVE Ascending'
  <2>1. UNCHANGED <<made, taken, report, join>> /\ wire' = [wire EXCEPT ![c] = Tail(@)] /\ wire[c] # <<>>
    BY <1>4 DEF Receive, frameVars, hostVars
  <2>2. Range(Tail(wire[c])) \subseteq Range(wire[c])
    BY <2>1, Taken DEF MessageInv, MessageTypes
  <2>3. ASSUME NEW d \in Client PROVE \A p \in Range(wire'[d]) : p.from <= p.to
    <3>1. wire'[d] = IF d = c THEN Tail(wire[d]) ELSE wire[d]
      BY <2>1 DEF MessageInv, MessageTypes
    <3> QED BY <2>2, <3>1 DEF Ascending
  <2> QED BY <2>1, <2>3 DEF Ascending
<1>5. ASSUME NEW c \in Client, AddPlayer(c) PROVE Ascending'
  <2>1. /\ made' = made + 1 /\ taken' = made' /\ UNCHANGED <<report, wire>>
        /\ join' = [join EXCEPT !.done = TRUE, !.before = taken, !.asOf = made']
    BY <1>5 DEF AddPlayer, NextJob, wireVars
  <2>2. join'.before = taken /\ join'.asOf = made'
    BY <2>1 DEF JoinInv, JoiningTypes
  <2> QED BY <1>1, <2>1, <2>2 DEF Ascending
<1>6. ASSUME UNCHANGED <<join, taken, report, wire>>, made' >= made, made' \in Nat PROVE Ascending'
  BY <1>1, <1>6 DEF Ascending
<1>8. ASSUME NEW c \in Client, RemoveById(c) PROVE Ascending'
  BY <1>6, <1>8, MadeGrows, <1>1 DEF RemoveById, NextJob, RemovePlayer, JoiningStep, wireVars
<1>9. ASSUME NEW n \in Name, RemoveByName(n) PROVE Ascending'
  <2>1. UNCHANGED <<join, taken, report, wire>> /\ made' \in Nat
    BY <1>1, <1>9 DEF RemoveByName, NextJob, RemovePlayer, wireVars
  <2> QED BY <1>6, <1>9, <2>1, MadeGrows DEF JoiningStep
<1>10. CASE Submit
  <2>1. UNCHANGED <<made, taken, report, wire>> /\ (join' = join \/ ~join'.done)
    BY <1>10 DEF Submit, NoJoin, wireVars
  <2> QED BY <2>1 DEF Ascending
<1>11. CASE ApplyServer
  <2>1. /\ UNCHANGED <<made, taken>> /\ report' = NoReport /\ join' = AfterJoin /\ frame = "report"
    BY <1>11 DEF ApplyServer
  <2>2. ~join'.done
    BY <2>1 DEF AfterJoin, Joining, NoJoin, JoinInv, JoiningTypes
  <2>3. ASSUME NEW d \in Client PROVE \A p \in Range(wire'[d]) : p.from <= p.to
    BY <1>11, <2>1, WireApplied, SentIs DEF Ascending
  <2>4. report'.from <= report'.to
    BY <2>1 DEF NoReport
  <2> QED BY <2>1, <2>2, <2>3, <2>4 DEF Ascending
<1>12. CASE EndFrame(outbox[Server])
  <2>1. /\ taken' = made /\ made' = made /\ report'.from = taken /\ report'.to = made /\ UNCHANGED <<join, wire>>
    BY <1>12 DEF EndFrame, wireVars, hostVars
  <2>2. join.done => join.before <= made /\ join.before <= join.asOf
    BY <1>1 DEF Ascending, JoinInv, JoiningTypes
  <2> QED BY <1>1, <2>1, <2>2 DEF Ascending
<1>13. CASE Stepping \/ Change \/ Idle
  <2>1. UNCHANGED <<join, taken, report, wire>> /\ made' \in Nat /\ made' >= made
    BY <1>1, <1>13 DEF Stepping, Change, Idle, hostVars, wireVars
  <2> QED BY <1>6, <2>1
<1> QED BY <1>2, <1>3, <1>4, <1>5, <1>8, <1>9, <1>10, <1>11, <1>12, <1>13 DEF JoiningStep

\* Where nothing is sent, received or said by the server.
LEMMA AheadQuiet ==
    ASSUME AheadInv, made' >= made, made \in Nat, made' \in Nat, MessageInv, Ascending',
           UNCHANGED <<report, wireVars>>, Range(outbox'[Server]) \subseteq Range(outbox[Server]),
           \A c \in Client : Range(inbox'[c]) \subseteq Range(inbox[c])
    PROVE  AheadInv'
<1>1. \A m \in Range(outbox[Server]) : m.asOf \in Nat
  <2>1. outbox[Server] \in Seq(Message)
    BY EndsDiffer DEF MessageInv, MessageTypes
  <2>2. Range(outbox[Server]) \subseteq Message
    BY <2>1 DEF Range
  <2> QED BY <2>2 DEF Message
<1>2. SpokenOf'
  BY <1>1 DEF AheadInv, SpokenOf, wireVars
<1>3. MessagesAreNotAhead'
  BY DEF AheadInv, MessagesAreNotAhead, wireVars
<1> QED BY <1>2, <1>3 DEF AheadInv

LEMMA AheadSaid ==
    ASSUME AheadInv, MessageInv, UNCHANGED <<made, inbox, report, wireVars>>, made \in Nat, Ascending',
           NEW s \in Side, NEW m \in Message, Says(s, m), s = Server => m.asOf = made
    PROVE  AheadInv'
<1>1. outbox'[Server] = IF s = Server THEN Append(outbox[Server], m) ELSE outbox[Server]
  BY EndsDiffer DEF Says, MessageInv, MessageTypes
<1>2. Range(outbox'[Server]) \subseteq Range(outbox[Server]) \cup (IF s = Server THEN {m} ELSE {})
  <2>1. outbox[Server] \in Seq(Message)
    BY EndsDiffer DEF MessageInv, MessageTypes
  <2>2. Range(Append(outbox[Server], m)) = Range(outbox[Server]) \cup {m}
    BY <2>1, Appended
  <2> QED BY <1>1, <2>2
<1>3. SpokenOf'
  BY <1>2 DEF AheadInv, SpokenOf, wireVars
<1>4. MessagesAreNotAhead'
  BY DEF AheadInv, MessagesAreNotAhead, wireVars
<1> QED BY <1>3, <1>4 DEF AheadInv

LEMMA AheadReceived ==
    ASSUME JoinInv, MessageInv, ToldInv, AheadInv, Ascending', NEW c \in Client, Receives(c)
    PROVE  AheadInv'
<1> DEFINE p == Head(wire[c])
<1>1. /\ wire[c] # <<>> /\ wire' = [wire EXCEPT ![c] = Tail(@)]
      /\ have' = [have EXCEPT ![c] = p.to]
      /\ inbox' = [inbox EXCEPT ![c] = @ \o p.remotes]
      /\ UNCHANGED <<outbox, report, made>>
  BY DEF Receives, Receive, frameVars
<1>2. /\ wire[c] \in Seq(PacketType) /\ inbox[c] \in Seq(Message) /\ have[c] \in Int
  BY EndsDiffer DEF MessageInv, MessageTypes
<1>3. /\ p \in PacketType /\ p = wire[c][1] /\ 1 \in DOMAIN wire[c]
  BY <1>1, <1>2
<1>4. Range(wire[c]) = Range(Tail(wire[c])) \cup {p}
  BY <1>1, <1>2, Taken
<1> HIDE DEF p
<1>5. p.to \in Int /\ p.from \in Int /\ p.remotes \in Seq(Message)
  BY <1>3 DEF PacketType
<1>6. have[c] <= p.to
  <2>1. peer[c] = "joined"
    BY <1>1 DEF ToldInv, MessageInv, Emptied, JoinInv, JoiningTypes
  <2>2. p.from = have[c]
    BY <1>3, <2>1 DEF ToldInv, Chained
  <2>3. p.from <= p.to
    BY <1>4 DEF AheadInv, Ascending
  <2> QED BY <2>2, <2>3
<1>7. SpokenOf'
  <2>1. ASSUME NEW d \in Client PROVE Range(wire'[d]) \subseteq Range(wire[d])
    <3>1. wire'[d] = IF d = c THEN Tail(wire[c]) ELSE wire[d]
      BY <1>1 DEF MessageInv, MessageTypes
    <3> QED BY <1>4, <3>1
  <2> QED BY <1>1, <2>1 DEF AheadInv, SpokenOf
<1>8. Range(inbox[c] \o p.remotes) = Range(inbox[c]) \cup Range(p.remotes)
  BY <1>2, <1>5, Joined
<1>9. ASSUME NEW d \in Client, NEW m \in Range(inbox'[d]) PROVE m.asOf <= have'[d]
  <2>1. CASE d = c
    <3>1. inbox'[d] = inbox[c] \o p.remotes /\ have'[d] = p.to
      BY <1>1, <2>1, EndsDiffer DEF MessageInv, MessageTypes
    <3>2. CASE m \in Range(inbox[c])
      <4>1. m.asOf <= have[c]
        BY <3>2 DEF AheadInv, MessagesAreNotAhead
      <4>2. m.asOf \in Nat
        <5>1. m \in Message
          BY <1>2, <3>2 DEF Range
        <5> QED BY <5>1 DEF Message
      <4> QED BY <1>2, <1>5, <1>6, <3>1, <4>1, <4>2
    <3>3. CASE m \in Range(p.remotes)
      BY <1>4, <3>1, <3>3 DEF AheadInv, SpokenOf
    <3> QED BY <1>8, <1>9, <3>1, <3>2, <3>3
  <2>2. CASE d # c
    <3>1. inbox'[d] = inbox[d] /\ have'[d] = have[d]
      BY <1>1, <2>2, EndsDiffer DEF MessageInv, MessageTypes
    <3> QED BY <1>9, <3>1 DEF AheadInv, MessagesAreNotAhead
  <2> QED BY <2>1, <2>2
<1> QED BY <1>7, <1>9 DEF AheadInv, MessagesAreNotAhead

LEMMA AheadApplied ==
    ASSUME JoinInv, MessageInv, ToldInv, AheadInv, Ascending', Applies
    PROVE  AheadInv'
<1>1. /\ UNCHANGED <<outbox, inbox, made, have>> /\ report' = NoReport /\ frame = "report" /\ ApplyServer
  BY DEF Applies, ApplyServer, NoRemotes, remoteVars, inVars
<1>2. ASSUME NEW c \in Client, NEW p \in Range(wire'[c]), NEW m \in Range(p.remotes) PROVE m.asOf <= p.to
  <2>1. CASE p \in Range(wire[c])
    BY <1>2, <2>1 DEF AheadInv, SpokenOf
  <2>2. CASE p \in Range(Sent(c))
    <3>1. Range(<<>>) = {}
      BY DEF Range
    <3>2. p.to = report.to /\ m \in Range(report.remotes)
      BY <1>1, <1>2, <2>2, <3>1, SentIs DEF AheadInv
    <3> QED BY <3>2 DEF AheadInv, SpokenOf
  <2> QED BY <1>1, <1>2, <2>1, <2>2, WireApplied
<1>3. \A m \in Range(report'.remotes) : m.asOf <= report'.to
  BY <1>1 DEF NoReport, Range
<1>4. SpokenOf'
  BY <1>1, <1>2, <1>3 DEF AheadInv, SpokenOf
<1>5. MessagesAreNotAhead'
  BY <1>1 DEF AheadInv, MessagesAreNotAhead
<1> QED BY <1>4, <1>5 DEF AheadInv

LEMMA AheadReported ==
    ASSUME JoinInv, MessageInv, AheadInv, Ascending', FrameEnds
    PROVE  AheadInv'
<1>1. /\ report' = [from |-> taken, to |-> made, remotes |-> outbox[Server]]
      /\ outbox' = [outbox EXCEPT ![Server] = <<>>]
      /\ UNCHANGED <<inbox, wire, have, made>>
  BY DEF FrameEnds, EndFrame, inVars, hostVars, wireVars
<1>2. outbox'[Server] = <<>> /\ Range(<<>>) = {}
  BY <1>1, EndsDiffer DEF MessageInv, MessageTypes, Range
<1>3. SpokenOf'
  BY <1>1, <1>2 DEF AheadInv, SpokenOf
<1>4. MessagesAreNotAhead'
  BY <1>1 DEF AheadInv, MessagesAreNotAhead
<1> QED BY <1>3, <1>4 DEF AheadInv

LEMMA AheadDelivered ==
    ASSUME JoinInv, MessageInv, AheadInv, Ascending', NEW s \in Side, Delivery(s)
    PROVE  AheadInv'
<1> DEFINE m == Head(inbox[s])
           asOf == IF s = Server THEN made ELSE 0
           r == Result(m.n, m.player, asOf)
<1>1. /\ m \in Message /\ inbox[s] # <<>> /\ inbox' = [inbox EXCEPT ![s] = Tail(@)]
      /\ UNCHANGED <<report, wire, have, made>>
  BY DeliveryTakes DEF joiningVars, frameVars, wireVars
<1>2. made \in Nat /\ asOf \in Nat
  BY DEF JoinInv, JoiningTypes
<1>3. r \in Message /\ (s = Server => r.asOf = made)
  BY <1>1, <1>2, Said DEF Message
<1>4. outbox' = outbox \/ Says(s, r)
  BY DEF Delivery, Deliver, DeliverEvent, DeliverInvoke, DeliverResult
<1> HIDE DEF m, asOf, r
<1>5. ASSUME NEW c \in Client PROVE Range(inbox'[c]) \subseteq Range(inbox[c])
  <2>1. inbox'[c] = IF c = s THEN Tail(inbox[c]) ELSE inbox[c]
    BY <1>1, EndsDiffer DEF MessageInv, MessageTypes
  <2>2. c = s => Range(Tail(inbox[c])) \subseteq Range(inbox[c])
    BY <1>1, Taken DEF MessageInv, MessageTypes
  <2> QED BY <2>1, <2>2
<1>6. \A t \in Range(outbox'[Server]) : t.asOf <= made
  <2>1. CASE outbox' = outbox
    BY <2>1 DEF AheadInv, SpokenOf
  <2>2. CASE Says(s, r)
    <3>1. outbox'[Server] = IF s = Server THEN Append(outbox[Server], r) ELSE outbox[Server]
      BY <2>2, EndsDiffer DEF Says, MessageInv, MessageTypes
    <3>2. Range(Append(outbox[Server], r)) = Range(outbox[Server]) \cup {r}
      <4>1. outbox[Server] \in Seq(Message)
        BY EndsDiffer DEF MessageInv, MessageTypes
      <4> QED BY <1>3, <4>1, Appended
    <3> QED BY <1>2, <1>3, <3>1, <3>2 DEF AheadInv, SpokenOf
  <2> QED BY <1>4, <2>1, <2>2
<1>7. SpokenOf'
  BY <1>1, <1>6 DEF AheadInv, SpokenOf
<1>8. MessagesAreNotAhead'
  BY <1>1, <1>5 DEF AheadInv, MessagesAreNotAhead
<1> QED BY <1>7, <1>8 DEF AheadInv

LEMMA AheadSpoken ==
    ASSUME JoinInv, MessageInv, AheadInv, Ascending', NEW s \in Side,
           \/ Answers(s)
           \/ \E player, for : Fires(s, player, for)
           \/ \E player : Calls(s, player)
    PROVE  AheadInv'
<1> DEFINE asOf == IF s = Server THEN made ELSE 0
<1>1. asOf \in Nat /\ made \in Nat /\ (s = Server => asOf = made)
  BY DEF JoinInv, JoiningTypes
<1> HIDE DEF asOf
<1>2. Acts(s) => UNCHANGED <<report, wireVars, made>> /\ acts' = acts + 1
  BY DEF Acts, Acting
<1>3. CASE \E player, for : Fires(s, player, for)
  <2>1. PICK player, for : Fires(s, player, for)
    BY <1>3
  <2>2. player \in Client \cup {Nobody} /\ Fire(s, acts', player, asOf) /\ Acts(s)
    BY <2>1 DEF Fires, FiresTo, asOf
  <2>3. acts' \in Nat
    BY <1>2, <2>2 DEF MessageInv, MessageTypes
  <2>4. Event(acts', player, asOf) \in Message /\ Event(acts', player, asOf).asOf = asOf
    BY <1>1, <2>2, <2>3, Said
  <2>5. Says(s, Event(acts', player, asOf)) /\ UNCHANGED inbox
    BY <2>2 DEF Fire, inVars
  <2> QED BY <1>1, <1>2, <2>2, <2>4, <2>5, AheadSaid
<1>4. CASE \E player : Calls(s, player)
  <2>1. PICK player : Calls(s, player)
    BY <1>4
  <2>2. player \in Client \cup {Nobody} /\ Call(s, player, asOf) /\ Acts(s)
    BY <2>1 DEF Calls, asOf
  <2>3. calls[s] + 1 \in Nat
    BY DEF MessageInv, MessageTypes
  <2>4. Invoke(calls[s] + 1, player, asOf) \in Message /\ Invoke(calls[s] + 1, player, asOf).asOf = asOf
    BY <1>1, <2>2, <2>3, Said
  <2>5. Says(s, Invoke(calls[s] + 1, player, asOf)) /\ UNCHANGED inbox
    BY <2>2 DEF Call, inVars
  <2> QED BY <1>1, <1>2, <2>2, <2>4, <2>5, AheadSaid
<1>5. CASE Answers(s)
  <2>1. PICK x \in answering : Answer(s, x, asOf)
    BY <1>5 DEF Answers, asOf
  <2>2. x.n \in Nat /\ x.player \in Client \cup {Nobody}
    BY DEF MessageInv, MessageTypes, Answerer
  <2>3. Result(x.n, x.player, asOf) \in Message /\ Result(x.n, x.player, asOf).asOf = asOf
    BY <1>1, <2>2, Said
  <2>4. UNCHANGED <<inbox, report, wireVars, made>>
    BY <1>5, <2>1 DEF Answers, Answer, joiningVars, frameVars, inVars
  <2>5. Says(s, Result(x.n, x.player, asOf))
    BY <2>1 DEF Answer
  <2> QED BY <1>1, <2>3, <2>4, <2>5, AheadSaid
<1> QED BY <1>3, <1>4, <1>5

LEMMA StepAhead == JoinInv /\ ToldInv /\ MessageInv /\ AheadInv /\ [Next]_vars => AheadInv'
<1> SUFFICES ASSUME JoinInv, ToldInv, MessageInv, AheadInv, [Next]_vars PROVE AheadInv'
  OBVIOUS
<1>1. JoiningStep \/ Idle
  BY NextIsJoining
<1>2. MessageStep
  BY NextIsMessages
<1>3. Ascending' /\ made' >= made /\ made \in Nat /\ made' \in Nat
  BY <1>1, AscendingStep, MadeGrows, StepInv DEF AheadInv, JoinInv, JoiningTypes
<1>4. ASSUME UNCHANGED <<inbox, outbox, report, wireVars>> PROVE AheadInv'
  BY <1>3, <1>4, AheadQuiet
<1>5. CASE Still \/ \E s \in Side : Stops(s) \/ Handing(s)
  <2>1. UNCHANGED <<inbox, outbox, report, wireVars>>
    BY <1>5 DEF Still, Stops, Handing, HandOver, inVars
  <2> QED BY <1>4, <2>1
<1>6. ASSUME NEW c \in Client, Left(c) PROVE AheadInv'
  <2>1. /\ inbox' = [inbox EXCEPT ![c] = <<>>] /\ outbox' = [outbox EXCEPT ![c] = <<>>]
        /\ wire' = [wire EXCEPT ![c] = <<>>] /\ UNCHANGED <<report, have, made>>
    BY <1>6 DEF Left, Leave, Closes, frameVars
  <2>2. Range(<<>>) = {}
    BY DEF Range
  <2>3. \A d \in Client : /\ inbox'[d] = IF d = c THEN <<>> ELSE inbox[d]
                          /\ wire'[d] = IF d = c THEN <<>> ELSE wire[d]
    BY <2>1, EndsDiffer DEF MessageInv, MessageTypes
  <2>4. outbox'[Server] = outbox[Server]
    BY <2>1, EndsDiffer DEF MessageInv, MessageTypes
  <2>5. SpokenOf'
    BY <2>1, <2>2, <2>3, <2>4 DEF AheadInv, SpokenOf
  <2>6. MessagesAreNotAhead'
    BY <2>1, <2>2, <2>3 DEF AheadInv, MessagesAreNotAhead
  <2> QED BY <1>3, <2>5, <2>6 DEF AheadInv
<1>7. ASSUME NEW c \in Client, Posts(c) PROVE AheadInv'
  <2>1. /\ outbox' = [outbox EXCEPT ![c] = Tail(@)] /\ UNCHANGED <<inbox, report, wireVars>>
    BY <1>7 DEF Posts, joiningVars, frameVars, inVars
  <2>2. outbox'[Server] = outbox[Server]
    BY <2>1, EndsDiffer DEF MessageInv, MessageTypes
  <2> QED BY <1>3, <2>1, <2>2, AheadQuiet
<1>8. CASE Submits
  <2>1. /\ inbox' = [inbox EXCEPT ![Server] = posted] /\ UNCHANGED <<outbox, report, wireVars>>
    BY <1>8 DEF Submits, Submit
  <2>2. \A c \in Client : inbox'[c] = inbox[c]
    BY <2>1, EndsDiffer DEF MessageInv, MessageTypes
  <2> QED BY <1>3, <2>1, <2>2, AheadQuiet
<1>9. CASE Applies \/ FrameEnds
  BY <1>3, <1>9, AheadApplied, AheadReported
<1>10. ASSUME NEW c \in Client, Receives(c) PROVE AheadInv'
  BY <1>3, <1>10, AheadReceived
<1>11. ASSUME NEW s \in Side, Delivery(s) \/ Answers(s) PROVE AheadInv'
  BY <1>3, <1>11, AheadDelivered, AheadSpoken
<1>12. CASE FireAllClients \/ \E c \in Client : FireClient(c) \/ FireServer(c) \/ InvokeClient(c) \/ InvokeServer(c)
  <2>1. \E s \in Side : (\E player, for : Fires(s, player, for)) \/ (\E player : Calls(s, player))
    BY <1>12, Speaking, EndsDiffer
  <2> QED BY <1>3, <2>1, AheadSpoken
<1> QED BY <1>2, <1>5, <1>6, <1>7, <1>8, <1>9, <1>10, <1>11, <1>12 DEF MessageStep

(***************************************************************************)
(* No message is delivered to a client before what it can speak of has been *)
(* replicated to it, whatever is joined, left, said and changed meanwhile: *)
(* of all that goes reliably.                                              *)
(***************************************************************************)
THEOREM NothingIsAhead == Spec => []MessagesAreNotAhead
<1>1. Init => JoinInv /\ ToldInv /\ MessageInv /\ AheadInv
  BY InitInv, InitTold, InitMessages, InitAhead
<1>2. JoinInv /\ ToldInv /\ MessageInv /\ AheadInv /\ [Next]_vars => (JoinInv /\ ToldInv /\ MessageInv /\ AheadInv)'
  BY StepInv, StepTold, StepMessages, StepAhead
<1>3. AheadInv => MessagesAreNotAhead
  BY DEF AheadInv
<1> QED BY <1>1, <1>2, <1>3, PTL DEF Spec
-----------------------------------------------------------------------------
(***************************************************************************)
(* Counting the messages of a kind and a number on their way down to a     *)
(* client and up from one, and the firings an end keeps, heard or dropped. *)
(***************************************************************************)
Numbered(kind, n) == {m \in Message : m.kind = kind /\ m.n = n}
NumberedFor(kind, n, c) == {m \in Message : m.kind = kind /\ m.n = n /\ m.player \in {Nobody, c}}
NumberedFrom(kind, n, c) == {m \in Message : m.kind = kind /\ m.n = n /\ m.player = c}

DownOf(kind, n, c) ==
    CountIn(outbox[Server], NumberedFor(kind, n, c)) + CountIn(report.remotes, NumberedFor(kind, n, c))
        + CountIn(OnWire(c), Numbered(kind, n)) + CountIn(inbox[c], Numbered(kind, n))

UpOf(kind, n, c) ==
    CountIn(outbox[c], Numbered(kind, n)) + CountIn(posted, NumberedFrom(kind, n, c))
        + CountIn(inbox[Server], NumberedFrom(kind, n, c))

Held(n, s) == CountIn(kept[s], Numbered("event", n)) + CountIn(heard[s], {n}) + CountIn(lost[s], {n})

LEMMA CountAgrees ==
    ASSUME NEW S, NEW s \in Seq(S), NEW T, NEW U, \A e \in Range(s) : e \in T <=> e \in U
    PROVE  CountIn(s, T) = CountIn(s, U)
<1>1. \A i \in 1..Len(s) : s[i] \in Range(s)
  BY DEF Range
<1>2. \A i \in 1..Len(s) : s[i] \in T <=> s[i] \in U
  BY <1>1
<1> QED BY <1>2, CountAlike

LEMMA AmongCounts ==
    ASSUME NEW ms \in Seq(Message), NEW kind, NEW n
    PROVE  Among(ms, kind, n) = CountIn(ms, Numbered(kind, n))
<1> DEFINE T == {m \in Range(ms) : m.kind = kind /\ m.n = n}
<1>1. Among(ms, kind, n) = CountIn(ms, T)
  BY DEF Among, CountIn
<1>2. \A m \in Range(ms) : m \in Message
  BY DEF Range
<1>3. \A m \in Range(ms) : m \in T <=> m \in Numbered(kind, n)
  BY <1>2 DEF Numbered
<1> HIDE DEF T
<1>4. CountIn(ms, T) = CountIn(ms, Numbered(kind, n))
  BY <1>3, CountAgrees
<1> QED BY <1>1, <1>4

LEMMA ForCounts ==
    ASSUME NEW ms \in Seq(Message), NEW kind, NEW n, NEW c
    PROVE  CountIn(For(c, ms), Numbered(kind, n)) = CountIn(ms, NumberedFor(kind, n, c))
<1> DEFINE T == {m \in Range(ms) : m.player \in {Nobody, c}}
<1>1. CountIn(For(c, ms), Numbered(kind, n)) = CountIn(ms, T \cap Numbered(kind, n))
  BY CountWithin DEF For
<1>2. \A m \in Range(ms) : m \in Message
  BY DEF Range
<1>3. \A m \in Range(ms) : m \in T \cap Numbered(kind, n) <=> m \in NumberedFor(kind, n, c)
  BY <1>2 DEF Numbered, NumberedFor
<1> HIDE DEF T
<1>4. CountIn(ms, T \cap Numbered(kind, n)) = CountIn(ms, NumberedFor(kind, n, c))
  BY <1>3, CountAgrees
<1> QED BY <1>1, <1>4

LEMMA FromCounts ==
    ASSUME NEW ms \in Seq(Message), NEW kind, NEW n, NEW c
    PROVE  /\ From(c, ms) \in Seq(Message)
           /\ CountIn(From(c, ms), Numbered(kind, n)) = CountIn(ms, NumberedFrom(kind, n, c))
<1> DEFINE T == {m \in Range(ms) : m.player = c}
<1>1. CountIn(From(c, ms), Numbered(kind, n)) = CountIn(ms, T \cap Numbered(kind, n))
  BY CountWithin DEF From
<1>2. \A m \in Range(ms) : m \in Message
  BY DEF Range
<1>3. \A m \in Range(ms) : m \in T \cap Numbered(kind, n) <=> m \in NumberedFrom(kind, n, c)
  BY <1>2 DEF Numbered, NumberedFrom
<1> HIDE DEF T
<1>4. CountIn(ms, T \cap Numbered(kind, n)) = CountIn(ms, NumberedFrom(kind, n, c))
  BY <1>3, CountAgrees
<1>5. From(c, ms) \in Seq(Message)
  BY WithinSet DEF From
<1> QED BY <1>1, <1>4, <1>5

\* The messages of packets on the wire.
Carried(w) == [i \in DOMAIN w |-> w[i].remotes]
WireCount(w, T) == CountIn(FlattenSeq(Carried(w)), T)

LEMMA CarriedType ==
    ASSUME NEW w \in Seq(PacketType)
    PROVE  /\ Carried(w) \in Seq(Seq(Message)) /\ FlattenSeq(Carried(w)) \in Seq(Message)
           /\ Len(Carried(w)) = Len(w) /\ \A i \in 1..Len(w) : Carried(w)[i] = w[i].remotes
<1>1. \A i \in 1..Len(w) : w[i].remotes \in Seq(Message)
  <2>1. \A i \in 1..Len(w) : w[i] \in PacketType
    OBVIOUS
  <2> QED BY <2>1 DEF PacketType
<1>2. DOMAIN w = 1..Len(w) /\ Len(w) \in Nat
  OBVIOUS
<1>3. Carried(w) = [i \in 1..Len(w) |-> w[i].remotes]
  BY <1>2 DEF Carried
<1>4. Carried(w) \in Seq(Seq(Message)) /\ Len(Carried(w)) = Len(w)
  BY <1>1, <1>2, <1>3
<1> QED BY <1>3, <1>4, FlattenType

LEMMA CarriedAppend ==
    ASSUME NEW w \in Seq(PacketType), NEW p \in PacketType
    PROVE  Carried(Append(w, p)) = Append(Carried(w), p.remotes) /\ p.remotes \in Seq(Message)
<1>1. p.remotes \in Seq(Message)
  BY DEF PacketType
<1> DEFINE a == Append(w, p)
           b == Append(Carried(w), p.remotes)
<1>2. /\ DOMAIN a = 1..(Len(w) + 1) /\ a[Len(w) + 1] = p /\ \A i \in 1..Len(w) : a[i] = w[i]
      /\ Len(w) \in Nat /\ DOMAIN w = 1..Len(w)
  OBVIOUS
<1>3. Carried(w) \in Seq(Seq(Message)) /\ Len(Carried(w)) = Len(w)
  BY CarriedType
<1>4. /\ DOMAIN b = 1..(Len(w) + 1) /\ b[Len(w) + 1] = p.remotes
      /\ \A i \in 1..Len(w) : b[i] = Carried(w)[i]
      /\ b \in Seq(Seq(Message))
  BY <1>1, <1>3
<1> HIDE DEF a, b
<1>5. \A i \in 1..Len(w) : b[i] = w[i].remotes
  BY <1>2, <1>4 DEF Carried
<1>6. \A i \in 1..(Len(w) + 1) : b[i] = a[i].remotes
  BY <1>2, <1>4, <1>5
<1>7. b = [i \in 1..(Len(w) + 1) |-> b[i]]
  BY <1>4
<1>8. Carried(a) = b
  BY <1>2, <1>6, <1>7 DEF Carried
<1> QED BY <1>1, <1>8 DEF a, b

LEMMA CarriedTail ==
    ASSUME NEW w \in Seq(PacketType), w # <<>>
    PROVE  /\ Carried(w) \in Seq(Seq(Message)) /\ Carried(w) # <<>>
           /\ Head(Carried(w)) = Head(w).remotes /\ Tail(Carried(w)) = Carried(Tail(w))
<1> DEFINE u == Carried(w)
           v == Carried(Tail(w))
<1>1. /\ Len(w) \in Nat /\ Len(w) > 0 /\ DOMAIN w = 1..Len(w) /\ Head(w) = w[1]
      /\ Tail(w) \in Seq(PacketType) /\ DOMAIN Tail(w) = 1..(Len(w) - 1)
      /\ \A i \in 1..(Len(w) - 1) : Tail(w)[i] = w[i + 1]
  OBVIOUS
<1>2. u \in Seq(Seq(Message)) /\ v \in Seq(Seq(Message)) /\ Len(u) = Len(w) /\ Len(v) = Len(w) - 1
  <2>1. u \in Seq(Seq(Message)) /\ Len(u) = Len(w)
    BY CarriedType
  <2>2. Len(Tail(w)) = Len(w) - 1
    BY <1>1
  <2>3. v \in Seq(Seq(Message)) /\ Len(v) = Len(Tail(w))
    BY <1>1, CarriedType
  <2> QED BY <2>1, <2>2, <2>3
<1>3. u # <<>> /\ Head(u) = Head(w).remotes
  BY <1>1, <1>2 DEF Carried
<1>4. \A i \in 1..(Len(w) - 1) : v[i] = u[i + 1]
  <2>1. \A i \in 1..(Len(w) - 1) : i + 1 \in 1..Len(w)
    BY <1>1
  <2> QED BY <1>1, <2>1 DEF Carried
<1> HIDE DEF u, v
<1>5. Tail(u) = v
  <2>1. /\ Tail(u) \in Seq(Seq(Message)) /\ Len(Tail(u)) = Len(w) - 1
        /\ \A i \in 1..(Len(w) - 1) : Tail(u)[i] = u[i + 1]
    BY <1>1, <1>2, <1>3
  <2> DEFINE x == Tail(u)
  <2> HIDE DEF x
  <2>2. x \in Seq(Seq(Message)) /\ Len(x) = Len(v) /\ \A i \in 1..Len(v) : x[i] = v[i]
    BY <1>2, <1>4, <2>1 DEF x
  <2>3. x = v
    <3>1. x = [i \in 1..Len(x) |-> x[i]] /\ v = [i \in 1..Len(v) |-> v[i]]
      BY <1>2, <2>2
    <3> QED BY <2>2, <3>1
  <2> QED BY <2>3 DEF x
<1> QED BY <1>2, <1>3, <1>5 DEF u, v

LEMMA WireCountAppend ==
    ASSUME NEW w \in Seq(PacketType), NEW p \in PacketType, NEW T
    PROVE  WireCount(Append(w, p), T) = WireCount(w, T) + CountIn(p.remotes, T)
<1>1. Carried(Append(w, p)) = Append(Carried(w), p.remotes) /\ p.remotes \in Seq(Message)
  BY CarriedAppend
<1>2. CountIn(FlattenSeq(Append(Carried(w), p.remotes)), T) = WireCount(w, T) + CountIn(p.remotes, T)
  BY <1>1, CarriedType, FlatCountAppend DEF WireCount
<1> QED BY <1>1, <1>2 DEF WireCount

LEMMA WireCountTail ==
    ASSUME NEW w \in Seq(PacketType), w # <<>>, NEW T
    PROVE  WireCount(w, T) = CountIn(Head(w).remotes, T) + WireCount(Tail(w), T)
<1> DEFINE u == Carried(w)
<1>1. u \in Seq(Seq(Message)) /\ u # <<>> /\ Head(u) = Head(w).remotes /\ Tail(u) = Carried(Tail(w))
  BY CarriedTail
<1> HIDE DEF u
<1>2. CountIn(FlattenSeq(u), T) = CountIn(Head(u), T) + CountIn(FlattenSeq(Tail(u)), T)
  BY <1>1, FlatCountTail
<1> QED BY <1>1, <1>2 DEF WireCount, u

LEMMA WireCountNone == \A T : WireCount(<<>>, T) = 0
<1> TAKE T
<1>1. Carried(<<>>) = <<>>
  BY DEF Carried
<1> QED BY <1>1, FlattenNone, CountNone DEF WireCount

LEMMA OnWireIs == \A c : OnWire(c) = FlattenSeq(Carried(wire[c]))
BY DEF OnWire, Carried

LEMMA CountsAreNat ==
    ASSUME MessageInv
    PROVE  /\ \A s \in Side : \A T : /\ CountIn(inbox[s], T) \in Nat /\ CountIn(outbox[s], T) \in Nat
                                     /\ CountIn(kept[s], T) \in Nat
                                     /\ CountIn(heard[s], T) \in Nat /\ CountIn(lost[s], T) \in Nat
           /\ \A T : CountIn(posted, T) \in Nat /\ CountIn(report.remotes, T) \in Nat
           /\ \A c \in Client : \A T : CountIn(OnWire(c), T) \in Nat /\ WireCount(wire[c], T) \in Nat
<1> USE DEF MessageInv, MessageTypes
<1>1. \A s \in Side : \A T : CountIn(inbox[s], T) \in Nat /\ CountIn(outbox[s], T) \in Nat
  BY CountType
<1>2. \A s \in Side : \A T : CountIn(kept[s], T) \in Nat
  BY CountType
<1>3. \A s \in Side : \A T : CountIn(heard[s], T) \in Nat /\ CountIn(lost[s], T) \in Nat
  BY CountType
<1>4. report.remotes \in Seq(Message)
  BY DEF PacketType
<1>5. \A T : CountIn(posted, T) \in Nat /\ CountIn(report.remotes, T) \in Nat
  BY <1>4, CountType
<1>6. ASSUME NEW c \in Client PROVE \A T : CountIn(OnWire(c), T) \in Nat /\ WireCount(wire[c], T) \in Nat
  <2>1. FlattenSeq(Carried(wire[c])) \in Seq(Message)
    BY CarriedType
  <2> QED BY <2>1, CountType, OnWireIs DEF WireCount
<1> QED BY <1>1, <1>2, <1>3, <1>5, <1>6

LEMMA SumsAreNat ==
    ASSUME MessageInv
    PROVE  /\ \A kind, n : \A c \in Client : DownOf(kind, n, c) \in Nat /\ UpOf(kind, n, c) \in Nat
           /\ \A n : \A s \in Side : Held(n, s) \in Nat
BY CountsAreNat, EndsDiffer DEF DownOf, UpOf, Held

\* The counts are those of Session's properties.
LEMMA DownAndUp ==
    ASSUME MessageInv, NEW c \in Client, NEW kind, NEW n
    PROVE  Among(Down(c), kind, n) = DownOf(kind, n, c) /\ Among(Up(c), kind, n) = UpOf(kind, n, c)
<1> DEFINE N == Numbered(kind, n)
           NF == NumberedFor(kind, n, c)
           a == outbox[Server] \o report.remotes
           b == For(c, a) \o OnWire(c)
           d == posted \o inbox[Server]
<1>1. /\ outbox[Server] \in Seq(Message) /\ report.remotes \in Seq(Message) /\ inbox[c] \in Seq(Message)
      /\ posted \in Seq(Message) /\ inbox[Server] \in Seq(Message) /\ outbox[c] \in Seq(Message)
  BY EndsDiffer DEF MessageInv, MessageTypes, PacketType
<1>2. OnWire(c) \in Seq(Message)
  BY CarriedType, OnWireIs DEF MessageInv, MessageTypes
<1>3. a \in Seq(Message) /\ CountIn(a, NF) = CountIn(outbox[Server], NF) + CountIn(report.remotes, NF)
  BY <1>1, CountJoin, Joined
<1>4. For(c, a) \in Seq(Message) /\ CountIn(For(c, a), N) = CountIn(a, NF)
  <2> HIDE DEF a
  <2> QED BY <1>3, ForSome, ForCounts
<1>5. b \in Seq(Message) /\ CountIn(b, N) = CountIn(For(c, a), N) + CountIn(OnWire(c), N)
  <2> HIDE DEF a, N
  <2> QED BY <1>2, <1>4, CountJoin, Joined
<1>6. Down(c) = b \o inbox[c] /\ Up(c) = outbox[c] \o From(c, d)
  BY DEF Down, Up
<1>7. d \in Seq(Message) /\ CountIn(d, NumberedFrom(kind, n, c)) = CountIn(posted, NumberedFrom(kind, n, c))
                                 + CountIn(inbox[Server], NumberedFrom(kind, n, c))
  BY <1>1, CountJoin, Joined
<1>8. From(c, d) \in Seq(Message) /\ CountIn(From(c, d), N) = CountIn(d, NumberedFrom(kind, n, c))
  <2> HIDE DEF d
  <2> QED BY <1>7, FromCounts
<1> HIDE DEF a, b, d, N, NF
<1>9. b \o inbox[c] \in Seq(Message) /\ CountIn(b \o inbox[c], N) = CountIn(b, N) + CountIn(inbox[c], N)
  BY <1>1, <1>5, CountJoin, Joined
<1>10. outbox[c] \o From(c, d) \in Seq(Message)
       /\ CountIn(outbox[c] \o From(c, d), N) = CountIn(outbox[c], N) + CountIn(From(c, d), N)
  BY <1>1, <1>8, CountJoin, Joined
<1>11. Among(Down(c), kind, n) = CountIn(Down(c), N) /\ Among(Up(c), kind, n) = CountIn(Up(c), N)
  BY <1>6, <1>9, <1>10, AmongCounts DEF N
<1>12. CountIn(Down(c), N) = DownOf(kind, n, c)
  <2>1. CountIn(Down(c), N) = CountIn(a, NF) + CountIn(OnWire(c), N) + CountIn(inbox[c], N)
    BY <1>4, <1>5, <1>6, <1>9
  <2> QED BY <1>3, <2>1 DEF DownOf, N, NF
<1>13. CountIn(Up(c), N) = UpOf(kind, n, c)
  <2>1. CountIn(Up(c), N) = CountIn(outbox[c], N) + CountIn(d, NumberedFrom(kind, n, c))
    BY <1>6, <1>8, <1>10
  <2>2. /\ CountIn(outbox[c], N) \in Nat /\ CountIn(posted, NumberedFrom(kind, n, c)) \in Nat
        /\ CountIn(inbox[Server], NumberedFrom(kind, n, c)) \in Nat
    BY CountsAreNat, EndsDiffer
  <2>3. UpOf(kind, n, c) = CountIn(outbox[c], N) + CountIn(posted, NumberedFrom(kind, n, c))
                               + CountIn(inbox[Server], NumberedFrom(kind, n, c))
    BY DEF UpOf, N
  <2> QED BY <1>7, <2>1, <2>2, <2>3
<1> QED BY <1>11, <1>12, <1>13

LEMMA HeldIs ==
    ASSUME MessageInv, NEW s \in Side, NEW n
    PROVE  Among(kept[s], "event", n) + Times(heard[s], n) + Times(lost[s], n) = Held(n, s)
<1>1. kept[s] \in Seq(Message)
  BY EventsAreMessages DEF MessageInv, MessageTypes
<1>2. Among(kept[s], "event", n) = CountIn(kept[s], Numbered("event", n))
  BY <1>1, AmongCounts
<1> QED BY <1>2 DEF Times, Held, CountIn

(***************************************************************************)
(* The steps that move messages, and leave these counts as they are.       *)
(***************************************************************************)
DownStays(c) == \A kind, n : DownOf(kind, n, c)' = DownOf(kind, n, c)
UpStays(c) == \A kind, n : UpOf(kind, n, c)' = UpOf(kind, n, c)
HeldStays(s) == \A n : Held(n, s)' = Held(n, s)

LEMMA Unmoved ==
    /\ \A s \in Side : kept'[s] = kept[s] /\ heard'[s] = heard[s] /\ lost'[s] = lost[s] => HeldStays(s)
    /\ \A c \in Client :
          /\ outbox'[Server] = outbox[Server] /\ report'.remotes = report.remotes
          /\ wire'[c] = wire[c] /\ inbox'[c] = inbox[c]
          => DownStays(c)
    /\ \A c \in Client :
          outbox'[c] = outbox[c] /\ posted' = posted /\ inbox'[Server] = inbox[Server] => UpStays(c)
BY OnWireIs DEF HeldStays, Held, DownStays, DownOf, UpStays, UpOf, OnWire

LEMMA OneIs ==
    /\ \A e, T : One(e, T) \in {0, 1}
    /\ \A e, T : e \notin T => One(e, T) = 0
    /\ \A e, T : e \in T => One(e, T) = 1
BY DEF One

LEMMA CountsPosted ==
    ASSUME MessageInv, NEW c \in Client, Posts(c)
    PROVE  (\A d \in Client : DownStays(d) /\ UpStays(d)) /\ (\A s \in Side : HeldStays(s))
<1> DEFINE h == Head(outbox[c])
           m == [h EXCEPT !.player = c]
<1>1. /\ outbox[c] # <<>> /\ posted' = Append(posted, m) /\ outbox' = [outbox EXCEPT ![c] = Tail(@)]
      /\ UNCHANGED <<inbox, kept, heard, lost, report, wire>>
  BY DEF Posts, joiningVars, frameVars, wireVars, inVars
<1>2. outbox[c] \in Seq(Message) /\ posted \in Seq(Message) /\ h \in Message
  BY <1>1, EndsDiffer DEF MessageInv, MessageTypes
<1>3. m \in Message /\ m.player = c /\ m.kind = h.kind /\ m.n = h.n
  BY <1>2 DEF Message
<1>4. \A T : CountIn(outbox[c], T) = One(h, T) + CountIn(Tail(outbox[c]), T)
  BY <1>1, <1>2, CountTail
<1> HIDE DEF m, h
<1>5. \A T : CountIn(posted', T) = CountIn(posted, T) + One(m, T)
  BY <1>1, <1>2, <1>3, CountAppend
<1>6. \A d \in Side : outbox'[d] = IF d = c THEN Tail(outbox[c]) ELSE outbox[d]
  BY <1>1 DEF MessageInv, MessageTypes
<1>7. \A d \in Client : DownStays(d)
  BY <1>1, <1>6, EndsDiffer, Unmoved
<1>8. ASSUME NEW d \in Client, NEW kind, NEW n PROVE UpOf(kind, n, d)' = UpOf(kind, n, d)
  <2> DEFINE N == Numbered(kind, n)
             F == NumberedFrom(kind, n, d)
  <2>1. /\ CountIn(outbox[d], N) \in Nat /\ CountIn(posted, F) \in Nat /\ CountIn(inbox[Server], F) \in Nat
        /\ d \in Side
    BY CountsAreNat, EndsDiffer
  <2>2. UpOf(kind, n, d) = CountIn(outbox[d], N) + CountIn(posted, F) + CountIn(inbox[Server], F)
    BY DEF UpOf
  <2>3. UpOf(kind, n, d)' = CountIn(outbox'[d], N) + CountIn(posted', F) + CountIn(inbox[Server], F)
    BY <1>1 DEF UpOf
  <2>4. One(m, F) = IF d = c THEN One(h, N) ELSE 0
    BY <1>2, <1>3 DEF One, Numbered, NumberedFrom
  <2>5. CountIn(posted', F) = CountIn(posted, F) + One(m, F)
    BY <1>5
  <2> HIDE DEF N, F
  <2>6. CASE d = c
    <3>1. CountIn(outbox'[d], N) = CountIn(Tail(outbox[c]), N)
      BY <1>6, <2>1, <2>6
    <3>2. CountIn(outbox[d], N) = One(h, N) + CountIn(Tail(outbox[c]), N)
      BY <1>4, <2>6
    <3>3. CountIn(Tail(outbox[c]), N) \in Nat
      <4>1. Tail(outbox[c]) \in Seq(Message)
        BY <1>1, <1>2
      <4> QED BY <4>1, CountType
    <3>4. One(h, N) \in {0, 1}
      BY OneIs
    <3> QED BY <2>1, <2>2, <2>3, <2>4, <2>5, <2>6, <3>1, <3>2, <3>3, <3>4
  <2>7. CASE d # c
    <3>1. outbox'[d] = outbox[d]
      BY <1>6, <2>1, <2>7
    <3> QED BY <2>1, <2>2, <2>3, <2>4, <2>5, <2>7, <3>1
  <2> QED BY <2>6, <2>7
<1>9. \A s \in Side : HeldStays(s)
  BY <1>1, Unmoved
<1> QED BY <1>7, <1>8, <1>9 DEF UpStays

LEMMA CountsSubmitted ==
    ASSUME MessageInv, Submits
    PROVE  (\A d \in Client : DownStays(d) /\ UpStays(d)) /\ (\A s \in Side : HeldStays(s))
<1>1. /\ inbox' = [inbox EXCEPT ![Server] = posted] /\ posted' = <<>> /\ frame = "apply"
      /\ UNCHANGED <<outbox, kept, heard, lost, report, wire>>
  BY DEF Submits, Submit, wireVars
<1>2. \A d \in Side : inbox'[d] = IF d = Server THEN posted ELSE inbox[d]
  BY <1>1 DEF MessageInv, MessageTypes
<1>3. inbox[Server] = <<>>
  BY <1>1 DEF MessageInv, Emptied
<1>4. ASSUME NEW d \in Client PROVE DownStays(d)
  <2>1. inbox'[d] = inbox[d]
    BY <1>2, EndsDiffer
  <2> QED BY <1>1, <2>1, Unmoved
<1>5. ASSUME NEW d \in Client, NEW kind, NEW n PROVE UpOf(kind, n, d)' = UpOf(kind, n, d)
  <2> DEFINE N == Numbered(kind, n)
             F == NumberedFrom(kind, n, d)
  <2>1. CountIn(outbox[d], N) \in Nat /\ CountIn(posted, F) \in Nat
    BY CountsAreNat, EndsDiffer
  <2>2. UpOf(kind, n, d) = CountIn(outbox[d], N) + CountIn(posted, F) + CountIn(<<>>, F)
    BY <1>3 DEF UpOf
  <2>3. UpOf(kind, n, d)' = CountIn(outbox[d], N) + CountIn(<<>>, F) + CountIn(posted, F)
    <3>1. inbox'[Server] = posted
      BY <1>2, EndsDiffer
    <3> QED BY <1>1, <3>1 DEF UpOf
  <2>4. CountIn(<<>>, F) = 0
    BY CountNone
  <2> HIDE DEF N, F
  <2> QED BY <2>1, <2>2, <2>3, <2>4
<1>6. \A s \in Side : HeldStays(s)
  BY <1>1, Unmoved
<1> QED BY <1>4, <1>5, <1>6 DEF UpStays

LEMMA CountsReported ==
    ASSUME MessageInv, FrameEnds
    PROVE  (\A d \in Client : DownStays(d) /\ UpStays(d)) /\ (\A s \in Side : HeldStays(s))
<1>1. /\ report'.remotes = outbox[Server] /\ outbox' = [outbox EXCEPT ![Server] = <<>>] /\ frame = "step"
      /\ UNCHANGED <<inbox, kept, heard, lost, posted, wire>>
  BY DEF FrameEnds, EndFrame, Quiet, inVars, wireVars
<1>2. \A d \in Side : outbox'[d] = IF d = Server THEN <<>> ELSE outbox[d]
  BY <1>1 DEF MessageInv, MessageTypes
<1>3. report.remotes = <<>>
  BY <1>1 DEF MessageInv, Emptied
<1>4. ASSUME NEW d \in Client PROVE UpStays(d)
  <2>1. outbox'[d] = outbox[d]
    BY <1>2, EndsDiffer
  <2> QED BY <1>1, <2>1, Unmoved
<1>5. ASSUME NEW d \in Client, NEW kind, NEW n PROVE DownOf(kind, n, d)' = DownOf(kind, n, d)
  <2> DEFINE N == Numbered(kind, n)
             F == NumberedFor(kind, n, d)
  <2>1. CountIn(outbox[Server], F) \in Nat /\ CountIn(OnWire(d), N) \in Nat /\ CountIn(inbox[d], N) \in Nat
    BY CountsAreNat, EndsDiffer
  <2>2. DownOf(kind, n, d) = CountIn(outbox[Server], F) + CountIn(<<>>, F) + CountIn(OnWire(d), N)
                                 + CountIn(inbox[d], N)
    BY <1>3 DEF DownOf
  <2>3. DownOf(kind, n, d)' = CountIn(<<>>, F) + CountIn(outbox[Server], F) + CountIn(OnWire(d), N)
                                 + CountIn(inbox[d], N)
    <3>1. outbox'[Server] = <<>> /\ OnWire(d)' = OnWire(d)
      BY <1>1, <1>2, EndsDiffer DEF OnWire
    <3> QED BY <1>1, <3>1 DEF DownOf
  <2>4. CountIn(<<>>, F) = 0
    BY CountNone
  <2> HIDE DEF N, F
  <2> QED BY <2>1, <2>2, <2>3, <2>4
<1>6. \A s \in Side : HeldStays(s)
  BY <1>1, Unmoved
<1> QED BY <1>4, <1>5, <1>6 DEF DownStays

LEMMA CountsReceived ==
    ASSUME MessageInv, NEW c \in Client, Receives(c)
    PROVE  (\A d \in Client : DownStays(d) /\ UpStays(d)) /\ (\A s \in Side : HeldStays(s))
<1> DEFINE p == Head(wire[c])
<1>1. /\ wire[c] # <<>> /\ wire' = [wire EXCEPT ![c] = Tail(@)]
      /\ inbox' = [inbox EXCEPT ![c] = @ \o p.remotes]
      /\ UNCHANGED <<outbox, kept, heard, lost, posted, report>>
  BY DEF Receives, Receive, Quiet, frameVars
<1>2. wire[c] \in Seq(PacketType) /\ inbox[c] \in Seq(Message) /\ p \in PacketType
  BY <1>1, EndsDiffer DEF MessageInv, MessageTypes
<1>3. \A T : WireCount(wire[c], T) = CountIn(p.remotes, T) + WireCount(Tail(wire[c]), T)
  BY <1>1, <1>2, WireCountTail
<1> HIDE DEF p
<1>4. p.remotes \in Seq(Message)
  BY <1>2 DEF PacketType
<1>5. \A T : CountIn(inbox[c] \o p.remotes, T) = CountIn(inbox[c], T) + CountIn(p.remotes, T)
  BY <1>2, <1>4, CountJoin
<1>6. /\ \A d \in Side : inbox'[d] = IF d = c THEN inbox[c] \o p.remotes ELSE inbox[d]
      /\ \A d \in Client : wire'[d] = IF d = c THEN Tail(wire[c]) ELSE wire[d]
  BY <1>1 DEF MessageInv, MessageTypes
<1>7. \A d \in Client : UpStays(d)
  BY <1>1, <1>6, EndsDiffer, Unmoved
<1>8. ASSUME NEW kind, NEW n PROVE DownOf(kind, n, c)' = DownOf(kind, n, c)
  <2> DEFINE N == Numbered(kind, n)
             F == NumberedFor(kind, n, c)
  <2>1. /\ CountIn(outbox[Server], F) \in Nat /\ CountIn(report.remotes, F) \in Nat
        /\ CountIn(inbox[c], N) \in Nat
    BY CountsAreNat, EndsDiffer
  <2>2. CountIn(p.remotes, N) \in Nat
    BY <1>4, CountType
  <2>3. WireCount(Tail(wire[c]), N) \in Nat
    <3>1. Tail(wire[c]) \in Seq(PacketType)
      BY <1>1, <1>2
    <3>2. FlattenSeq(Carried(Tail(wire[c]))) \in Seq(Message)
      BY <3>1, CarriedType
    <3> QED BY <3>2, CountType DEF WireCount
  <2>4. CountIn(OnWire(c), N) = WireCount(wire[c], N)
    BY OnWireIs DEF WireCount
  <2>5. CountIn(OnWire(c)', N) = WireCount(Tail(wire[c]), N)
    <3>1. OnWire(c)' = FlattenSeq(Carried(wire'[c]))
      BY DEF OnWire, Carried
    <3> QED BY <1>6, <3>1 DEF WireCount
  <2>6. DownOf(kind, n, c) = CountIn(outbox[Server], F) + CountIn(report.remotes, F)
                                 + WireCount(wire[c], N) + CountIn(inbox[c], N)
    BY <2>4 DEF DownOf
  <2>7. DownOf(kind, n, c)' = CountIn(outbox[Server], F) + CountIn(report.remotes, F)
                                 + WireCount(Tail(wire[c]), N) + CountIn(inbox[c] \o p.remotes, N)
    <3>1. inbox'[c] = inbox[c] \o p.remotes
      BY <1>6, EndsDiffer
    <3> QED BY <1>1, <2>5, <3>1 DEF DownOf
  <2> HIDE DEF N, F
  <2>8. /\ WireCount(wire[c], N) = CountIn(p.remotes, N) + WireCount(Tail(wire[c]), N)
        /\ CountIn(inbox[c] \o p.remotes, N) = CountIn(inbox[c], N) + CountIn(p.remotes, N)
    BY <1>3, <1>5
  <2> QED BY <2>1, <2>2, <2>3, <2>6, <2>7, <2>8
<1>9. ASSUME NEW d \in Client, d # c PROVE DownStays(d)
  <2>1. inbox'[d] = inbox[d] /\ wire'[d] = wire[d]
    BY <1>6, <1>9, EndsDiffer
  <2> QED BY <1>1, <2>1, Unmoved
<1>10. \A s \in Side : HeldStays(s)
  BY <1>1, Unmoved
<1> QED BY <1>7, <1>8, <1>9, <1>10 DEF DownStays

LEMMA FlushCounts ==
    ASSUME NEW w \in Seq(PacketType), NEW from \in Int, NEW to \in Int, NEW ms \in Seq(Message), NEW T
    PROVE  WireCount(w \o Flush(from, to, ms), T) = WireCount(w, T) + CountIn(ms, T)
<1> DEFINE p == Packet(from, to, ms)
<1>1. WireCount(w, T) \in Nat
  BY CarriedType, CountType DEF WireCount
<1>2. CASE from = to /\ ms = <<>>
  <2>1. Flush(from, to, ms) = <<>> /\ w \o <<>> = w /\ CountIn(ms, T) = 0
    BY <1>2, CountNone DEF Flush
  <2> QED BY <1>1, <2>1
<1>3. CASE ~(from = to /\ ms = <<>>)
  <2>1. Flush(from, to, ms) = <<p>>
    BY <1>3 DEF Flush
  <2>2. p \in PacketType /\ p.remotes = ms
    BY FlushType DEF Packet
  <2> HIDE DEF p
  <2>3. w \o <<p>> = Append(w, p)
    BY <2>2
  <2> QED BY <2>1, <2>2, <2>3, WireCountAppend
<1> QED BY <1>2, <1>3

LEMMA PushedFirst ==
    ASSUME NEW S, NEW x \in Seq(S), NEW e \in S, NEW y \in Seq(S)
    PROVE  x \o (<<e>> \o y) = Append(x, e) \o y
OBVIOUS

\* Whoever is sent the frame's report is sent the messages for it once.
LEMMA SentCounts ==
    ASSUME JoinInv, MessageInv, NEW c \in Client, Welcomes(c) \/ peer[c] = "joined", NEW T
    PROVE  WireCount(wire[c] \o Sent(c), T) = WireCount(wire[c], T) + CountIn(RemotesFor(c), T)
<1>1. /\ report.from \in Int /\ report.to \in Int /\ report.remotes \in Seq(Message)
      /\ join.before \in Int /\ join.asOf \in Int /\ wire[c] \in Seq(PacketType)
  <2>1. report.from \in Int /\ report.to \in Int /\ report.remotes \in Seq(Message)
    BY DEF MessageInv, MessageTypes, PacketType
  <2>2. join.before \in Int /\ join.asOf \in Int
    BY DEF JoinInv, JoiningTypes
  <2> QED BY <2>1, <2>2 DEF MessageInv, MessageTypes
<1>2. RemotesFor(c) \in Seq(Message)
  BY <1>1, ForSome DEF RemotesFor
<1>3. CASE Welcomes(c)
  <2> DEFINE w == Packet(-1, join.asOf, <<>>)
             fl == Flush(report.from, report.to, RemotesFor(c))
  <2>1. Sent(c) = <<w>> \o fl
    BY <1>3 DEF Sent
  <2>2. fl \in Seq(PacketType) /\ w \in PacketType /\ w.remotes = <<>>
    <3>1. <<>> \in Seq(Message) /\ -1 \in Int
      OBVIOUS
    <3> QED BY <1>1, <1>2, <3>1, FlushType DEF Packet
  <2> HIDE DEF w
  <2> DEFINE a == Append(wire[c], w)
  <2>3. a \in Seq(PacketType)
    BY <1>1, <2>2
  <2>4. WireCount(a, T) = WireCount(wire[c], T) + CountIn(<<>>, T)
    BY <1>1, <2>2, WireCountAppend
  <2> HIDE DEF fl
  <2>5. wire[c] \o (<<w>> \o fl) = Append(wire[c], w) \o fl
    <3> DEFINE x == wire[c]
    <3>1. x \in Seq(PacketType) /\ fl \in Seq(PacketType) /\ w \in PacketType
      BY <1>1, <2>2
    <3> HIDE DEF x
    <3>2. x \o (<<w>> \o fl) = Append(x, w) \o fl
      BY <3>1, PushedFirst
    <3> QED BY <3>2 DEF x
  <2> HIDE DEF a
  <2>6. WireCount(a \o fl, T) = WireCount(a, T) + CountIn(RemotesFor(c), T)
    BY <1>1, <1>2, <2>3, FlushCounts DEF fl
  <2>7. WireCount(wire[c], T) \in Nat /\ CountIn(<<>>, T) = 0
    BY CountsAreNat, CountNone
  <2>8. WireCount(wire[c] \o Sent(c), T) = WireCount(a \o fl, T)
    BY <2>1, <2>5 DEF a
  <2> QED BY <2>4, <2>6, <2>7, <2>8
<1>4. CASE peer[c] = "joined" /\ ~Welcomes(c)
  <2> DEFINE from == IF Joining THEN join.before ELSE report.from
  <2>1. Sent(c) = Flush(from, report.to, RemotesFor(c))
    BY <1>4 DEF Sent
  <2>2. from \in Int
    BY <1>1
  <2> HIDE DEF from
  <2> QED BY <1>1, <1>2, <2>1, <2>2, FlushCounts
<1> QED BY <1>3, <1>4

LEMMA CountsApplied ==
    ASSUME JoinInv, MessageInv, Applies
    PROVE  /\ \A d \in Client : UpStays(d)
           /\ \A s \in Side : HeldStays(s)
           /\ \A d \in Client : peer'[d] = "joined" => DownStays(d)
           /\ \A d \in Client : \A kind, n : DownOf(kind, n, d)' <= DownOf(kind, n, d)
<1>1. /\ report' = NoReport /\ ApplyServer
      /\ peer' = [c \in Client |-> IF Welcomes(c) THEN "joined" ELSE peer[c]]
      /\ wire' = [c \in Client |-> wire[c] \o Sent(c)]
      /\ UNCHANGED <<inbox, outbox, kept, heard, lost, posted>>
  BY DEF Applies, ApplyServer, NoRemotes, remoteVars, inVars
<1>2. report'.remotes = <<>>
  BY <1>1 DEF NoReport
<1>3. \A d \in Client : UpStays(d)
  BY <1>1, Unmoved
<1>4. \A s \in Side : HeldStays(s)
  BY <1>1, Unmoved
<1>5. ASSUME NEW d \in Client, NEW kind, NEW n
      PROVE  /\ peer'[d] = "joined" => DownOf(kind, n, d)' = DownOf(kind, n, d)
             /\ DownOf(kind, n, d)' <= DownOf(kind, n, d)
  <2> DEFINE N == Numbered(kind, n)
             F == NumberedFor(kind, n, d)
  <2>1. /\ CountIn(outbox[Server], F) \in Nat /\ CountIn(report.remotes, F) \in Nat
        /\ CountIn(inbox[d], N) \in Nat /\ WireCount(wire[d], N) \in Nat
    BY CountsAreNat, EndsDiffer
  <2>2. DownOf(kind, n, d) = CountIn(outbox[Server], F) + CountIn(report.remotes, F)
                                 + WireCount(wire[d], N) + CountIn(inbox[d], N)
    BY OnWireIs DEF DownOf, WireCount
  <2>3. DownOf(kind, n, d)' = CountIn(outbox[Server], F) + CountIn(<<>>, F)
                                 + WireCount(wire[d] \o Sent(d), N) + CountIn(inbox[d], N)
    <3>1. OnWire(d)' = FlattenSeq(Carried(wire'[d]))
      BY DEF OnWire, Carried
    <3>2. wire'[d] = wire[d] \o Sent(d)
      BY <1>1
    <3> QED BY <1>1, <1>2, <3>1, <3>2 DEF DownOf, WireCount
  <2>4. CountIn(<<>>, F) = 0
    BY CountNone
  <2>5. CountIn(RemotesFor(d), N) = CountIn(report.remotes, F)
    BY ForCounts DEF RemotesFor, MessageInv, MessageTypes, PacketType
  <2> HIDE DEF N, F
  <2>6. CASE Welcomes(d) \/ peer[d] = "joined"
    <3>1. WireCount(wire[d] \o Sent(d), N) = WireCount(wire[d], N) + CountIn(report.remotes, F)
      BY <2>5, <2>6, SentCounts
    <3> QED BY <2>1, <2>2, <2>3, <2>4, <3>1
  <2>7. CASE ~Welcomes(d) /\ peer[d] # "joined"
    <3>1. Sent(d) = <<>> /\ peer'[d] # "joined"
      BY <1>1, <2>7 DEF Sent
    <3>2. wire[d] \o <<>> = wire[d]
      BY DEF MessageInv, MessageTypes
    <3> QED BY <2>1, <2>2, <2>3, <2>4, <3>1, <3>2
  <2> QED BY <2>6, <2>7
<1> QED BY <1>3, <1>4, <1>5 DEF DownStays

LEMMA CountsLeft ==
    ASSUME MessageInv, NEW c \in Client, Left(c)
    PROVE  /\ \A d \in Client : d # c => DownStays(d) /\ UpStays(d)
           /\ \A s \in Side : s # c => HeldStays(s)
           /\ \A kind, n : DownOf(kind, n, c)' <= DownOf(kind, n, c) /\ UpOf(kind, n, c)' <= UpOf(kind, n, c)
           /\ \A n : Held(n, c)' <= Held(n, c)
<1>1. /\ inbox' = [inbox EXCEPT ![c] = <<>>] /\ outbox' = [outbox EXCEPT ![c] = <<>>]
      /\ kept' = [kept EXCEPT ![c] = <<>>] /\ wire' = [wire EXCEPT ![c] = <<>>]
      /\ UNCHANGED <<heard, lost, posted, report>>
  BY DEF Left, Leave, Closes, Quiet, frameVars
<1>2. /\ \A s \in Side : /\ inbox'[s] = IF s = c THEN <<>> ELSE inbox[s]
                         /\ outbox'[s] = IF s = c THEN <<>> ELSE outbox[s]
                         /\ kept'[s] = IF s = c THEN <<>> ELSE kept[s]
      /\ \A d \in Client : wire'[d] = IF d = c THEN <<>> ELSE wire[d]
  BY <1>1 DEF MessageInv, MessageTypes
<1>3. ASSUME NEW d \in Client, d # c PROVE DownStays(d) /\ UpStays(d)
  BY <1>1, <1>2, <1>3, EndsDiffer, Unmoved
<1>4. ASSUME NEW s \in Side, s # c PROVE HeldStays(s)
  BY <1>1, <1>2, <1>4, Unmoved
<1>5. /\ inbox'[c] = <<>> /\ outbox'[c] = <<>> /\ kept'[c] = <<>> /\ wire'[c] = <<>>
      /\ inbox'[Server] = inbox[Server] /\ outbox'[Server] = outbox[Server]
  BY <1>2, EndsDiffer
<1>6. OnWire(c)' = FlattenSeq(Carried(<<>>))
  <2>1. OnWire(c)' = FlattenSeq(Carried(wire'[c]))
    BY DEF OnWire, Carried
  <2> QED BY <1>5, <2>1
<1>7. \A T : CountIn(<<>>, T) = 0 /\ CountIn(FlattenSeq(Carried(<<>>)), T) = 0
  BY CountNone, WireCountNone DEF WireCount
<1>8. ASSUME NEW kind, NEW n
      PROVE  DownOf(kind, n, c)' <= DownOf(kind, n, c) /\ UpOf(kind, n, c)' <= UpOf(kind, n, c)
  <2> DEFINE N == Numbered(kind, n)
             F == NumberedFor(kind, n, c)
             G == NumberedFrom(kind, n, c)
  <2>1. /\ CountIn(outbox[Server], F) \in Nat /\ CountIn(report.remotes, F) \in Nat
        /\ CountIn(inbox[c], N) \in Nat /\ CountIn(OnWire(c), N) \in Nat /\ CountIn(outbox[c], N) \in Nat
        /\ CountIn(posted, G) \in Nat /\ CountIn(inbox[Server], G) \in Nat
    BY CountsAreNat, EndsDiffer
  <2>2. DownOf(kind, n, c) = CountIn(outbox[Server], F) + CountIn(report.remotes, F)
                                 + CountIn(OnWire(c), N) + CountIn(inbox[c], N)
    BY DEF DownOf
  <2>3. DownOf(kind, n, c)' = CountIn(outbox[Server], F) + CountIn(report.remotes, F)
                                 + CountIn(FlattenSeq(Carried(<<>>)), N) + CountIn(<<>>, N)
    BY <1>1, <1>5, <1>6 DEF DownOf
  <2>4. UpOf(kind, n, c) = CountIn(outbox[c], N) + CountIn(posted, G) + CountIn(inbox[Server], G)
    BY DEF UpOf
  <2>5. UpOf(kind, n, c)' = CountIn(<<>>, N) + CountIn(posted, G) + CountIn(inbox[Server], G)
    BY <1>1, <1>5 DEF UpOf
  <2> HIDE DEF N, F, G
  <2> QED BY <1>7, <2>1, <2>2, <2>3, <2>4, <2>5
<1>9. ASSUME NEW n PROVE Held(n, c)' <= Held(n, c)
  <2>1. Held(n, c)' = CountIn(<<>>, Numbered("event", n)) + CountIn(heard[c], {n}) + CountIn(lost[c], {n})
    BY <1>1, <1>5 DEF Held
  <2>2. /\ CountIn(kept[c], Numbered("event", n)) \in Nat
        /\ CountIn(heard[c], {n}) \in Nat /\ CountIn(lost[c], {n}) \in Nat
    BY CountsAreNat, EndsDiffer
  <2> QED BY <1>7, <2>1, <2>2 DEF Held
<1> QED BY <1>3, <1>4, <1>8, <1>9

LEMMA NumbersCount ==
    ASSUME NEW ms \in Seq(Events), NEW n
    PROVE  /\ Numbers(ms) \in Seq(Nat)
           /\ CountIn(Numbers(ms), {n}) = CountIn(ms, Numbered("event", n))
<1>1. ms \in Seq(Message)
  BY EventsAreMessages
<1>2. Numbers(ms) \in Seq(Nat) /\ Len(Numbers(ms)) = Len(ms) /\ \A i \in 1..Len(ms) : Numbers(ms)[i] = ms[i].n
  BY <1>1, NumbersType
<1>3. \A i \in 1..Len(ms) : ms[i] \in Events
  OBVIOUS
<1>4. \A i \in 1..Len(ms) : ms[i] \in Numbered("event", n) <=> Numbers(ms)[i] \in {n}
  BY <1>2, <1>3 DEF Events, Numbered
<1>5. CountIn(ms, Numbered("event", n)) = CountIn(Numbers(ms), {n})
  BY <1>2, <1>4, CountAlike
<1> QED BY <1>2, <1>5

LEMMA SameSequence ==
    ASSUME NEW S, NEW s \in Seq(S), NEW t \in Seq(S), Len(s) = Len(t), \A i \in 1..Len(t) : s[i] = t[i]
    PROVE  s = t
OBVIOUS

LEMMA CountsHanded ==
    ASSUME MessageInv, NEW s \in Side, Handing(s)
    PROVE  (\A d \in Client : DownStays(d) /\ UpStays(d)) /\ (\A r \in Side : HeldStays(r))
<1>1. PICK k \in DOMAIN kept[s] :
          /\ heard' = [heard EXCEPT ![s] = @ \o Numbers(SubSeq(kept[s], 1, k))]
          /\ lost' = [lost EXCEPT ![s] = @ \o Numbers(SubSeq(kept[s], k + 1, Len(kept[s])))]
  BY DEF Handing, HandOver
<1>2. /\ kept' = [kept EXCEPT ![s] = <<>>]
      /\ UNCHANGED <<inbox, outbox, posted, report, wire>>
  BY DEF Handing, HandOver, wireVars
<1> DEFINE a == SubSeq(kept[s], 1, k)
           b == SubSeq(kept[s], k + 1, Len(kept[s]))
<1>3. kept[s] \in Seq(Events) /\ k \in 1..Len(kept[s])
  BY DEF MessageInv, MessageTypes
<1>4. a \in Seq(Events) /\ b \in Seq(Events) /\ kept[s] = a \o b
  <2> DEFINE L == kept[s]
  <2> HIDE DEF L
  <2>1. L \in Seq(Events) /\ k \in 1..Len(L)
    BY <1>3 DEF L
  <2> DEFINE x == SubSeq(L, 1, k)
             y == SubSeq(L, k + 1, Len(L))
  <2>2. /\ x \in Seq(Events) /\ Len(x) = k /\ \A i \in 1..k : x[i] = L[i]
        /\ y \in Seq(Events) /\ Len(y) = Len(L) - k /\ \A i \in 1..(Len(L) - k) : y[i] = L[k + i]
    BY <2>1
  <2> HIDE DEF x, y
  <2>3. x \o y \in Seq(Events) /\ Len(x \o y) = Len(L)
    BY <2>1, <2>2
  <2>4. \A i \in 1..Len(L) : (x \o y)[i] = L[i]
    <3> SUFFICES ASSUME NEW i \in 1..Len(L) PROVE (x \o y)[i] = L[i]
      OBVIOUS
    <3>1. CASE i <= k
      BY <2>1, <2>2, <3>1
    <3>2. CASE ~(i <= k)
      <4>1. (x \o y)[i] = y[i - k] /\ i - k \in 1..(Len(L) - k) /\ k + (i - k) = i
        BY <2>1, <2>2, <3>2
      <4> QED BY <2>2, <4>1
    <3> QED BY <3>1, <3>2
  <2>5. L = x \o y
    <3> DEFINE z == x \o y
    <3>1. z \in Seq(Events) /\ Len(z) = Len(L) /\ \A i \in 1..Len(L) : z[i] = L[i]
      BY <2>3, <2>4
    <3> HIDE DEF z
    <3>2. z = L
      BY <2>1, <3>1, SameSequence
    <3> QED BY <3>2 DEF z
  <2> QED BY <2>2, <2>5 DEF L, x, y
<1> HIDE DEF a, b
<1>5. /\ \A r \in Side : /\ kept'[r] = IF r = s THEN <<>> ELSE kept[r]
                         /\ heard'[r] = IF r = s THEN heard[s] \o Numbers(a) ELSE heard[r]
                         /\ lost'[r] = IF r = s THEN lost[s] \o Numbers(b) ELSE lost[r]
  BY <1>1, <1>2 DEF MessageInv, MessageTypes, a, b
<1>6. ASSUME NEW n PROVE Held(n, s)' = Held(n, s)
  <2> DEFINE N == Numbered("event", n)
  <2>1. /\ Numbers(a) \in Seq(Nat) /\ CountIn(Numbers(a), {n}) = CountIn(a, N)
        /\ Numbers(b) \in Seq(Nat) /\ CountIn(Numbers(b), {n}) = CountIn(b, N)
    BY <1>4, NumbersCount
  <2>2. CountIn(kept[s], N) = CountIn(a, N) + CountIn(b, N)
    BY <1>4, CountJoin
  <2>3. /\ CountIn(heard[s] \o Numbers(a), {n}) = CountIn(heard[s], {n}) + CountIn(Numbers(a), {n})
        /\ CountIn(lost[s] \o Numbers(b), {n}) = CountIn(lost[s], {n}) + CountIn(Numbers(b), {n})
    BY <2>1, CountJoin DEF MessageInv, MessageTypes
  <2>4. /\ CountIn(a, N) \in Nat /\ CountIn(b, N) \in Nat
        /\ CountIn(heard[s], {n}) \in Nat /\ CountIn(lost[s], {n}) \in Nat
    BY <1>4, CountsAreNat, CountType
  <2>5. Held(n, s)' = CountIn(<<>>, N) + CountIn(heard[s] \o Numbers(a), {n}) + CountIn(lost[s] \o Numbers(b), {n})
    BY <1>5 DEF Held
  <2>6. Held(n, s) = CountIn(kept[s], N) + CountIn(heard[s], {n}) + CountIn(lost[s], {n})
    BY DEF Held
  <2>7. CountIn(<<>>, N) = 0
    BY CountNone
  <2> HIDE DEF N
  <2> QED BY <2>1, <2>2, <2>3, <2>4, <2>5, <2>6, <2>7
<1>7. \A r \in Side : r # s => HeldStays(r)
  BY <1>5, Unmoved
<1>8. \A d \in Client : DownStays(d) /\ UpStays(d)
  BY <1>2, Unmoved
<1> QED BY <1>6, <1>7, <1>8 DEF HeldStays
-----------------------------------------------------------------------------
(***************************************************************************)
(* An end takes messages it was handed, and says others.                   *)
(***************************************************************************)
Steady == (\A c \in Client : DownStays(c) /\ UpStays(c)) /\ (\A s \in Side : HeldStays(s))

Exchange(s, x, y) ==
    /\ x \in Seq(Message) /\ y \in Seq(Message)
    /\ \A T : CountIn(inbox[s], T) = CountIn(inbox'[s], T) + CountIn(x, T)
    /\ \A T : CountIn(outbox'[s], T) = CountIn(outbox[s], T) + CountIn(y, T)
    /\ \A r \in Side : r # s => inbox'[r] = inbox[r] /\ outbox'[r] = outbox[r]
    /\ UNCHANGED <<posted, report, wire>>

LEMMA ServerExchanges ==
    ASSUME MessageInv, MessageInv', NEW x, NEW y, Exchange(Server, x, y), NEW c \in Client, NEW kind, NEW n
    PROVE  /\ UpOf(kind, n, c) = UpOf(kind, n, c)' + CountIn(x, NumberedFrom(kind, n, c))
           /\ DownOf(kind, n, c)' = DownOf(kind, n, c) + CountIn(y, NumberedFor(kind, n, c))
<1> DEFINE N == Numbered(kind, n)
           F == NumberedFor(kind, n, c)
           G == NumberedFrom(kind, n, c)
<1>1. /\ CountIn(outbox[Server], F) \in Nat /\ CountIn(report.remotes, F) \in Nat
      /\ CountIn(OnWire(c), N) \in Nat /\ CountIn(inbox[c], N) \in Nat
      /\ CountIn(outbox[c], N) \in Nat /\ CountIn(posted, G) \in Nat /\ CountIn(inbox[Server], G) \in Nat
  BY CountsAreNat, EndsDiffer
<1>2. CountIn(inbox'[Server], G) \in Nat
  BY CountType, EndsDiffer DEF MessageInv, MessageTypes
<1>3. CountIn(x, G) \in Nat /\ CountIn(y, F) \in Nat
  BY CountType DEF Exchange
<1>4. /\ inbox'[c] = inbox[c] /\ outbox'[c] = outbox[c] /\ OnWire(c)' = OnWire(c)
      /\ posted' = posted /\ report' = report
  BY EndsDiffer DEF Exchange, OnWire
<1>5. /\ CountIn(inbox[Server], G) = CountIn(inbox'[Server], G) + CountIn(x, G)
      /\ CountIn(outbox'[Server], F) = CountIn(outbox[Server], F) + CountIn(y, F)
  BY DEF Exchange
<1>6. /\ UpOf(kind, n, c) = CountIn(outbox[c], N) + CountIn(posted, G) + CountIn(inbox[Server], G)
      /\ UpOf(kind, n, c)' = CountIn(outbox[c], N) + CountIn(posted, G) + CountIn(inbox'[Server], G)
  BY <1>4 DEF UpOf
<1>7. /\ DownOf(kind, n, c) = CountIn(outbox[Server], F) + CountIn(report.remotes, F)
                                + CountIn(OnWire(c), N) + CountIn(inbox[c], N)
      /\ DownOf(kind, n, c)' = CountIn(outbox'[Server], F) + CountIn(report.remotes, F)
                                + CountIn(OnWire(c), N) + CountIn(inbox[c], N)
  BY <1>4 DEF DownOf
<1> HIDE DEF N, F, G
<1>8. UpOf(kind, n, c) = UpOf(kind, n, c)' + CountIn(x, G)
  BY <1>1, <1>2, <1>3, <1>5, <1>6
<1>9. DownOf(kind, n, c)' = DownOf(kind, n, c) + CountIn(y, F)
  BY <1>1, <1>3, <1>5, <1>7
<1> QED BY <1>8, <1>9 DEF F, G

LEMMA ClientExchanges ==
    ASSUME MessageInv, MessageInv', NEW c \in Client, NEW x, NEW y, Exchange(c, x, y)
    PROVE  /\ \A d \in Client : d # c => DownStays(d) /\ UpStays(d)
           /\ \A kind, n : /\ DownOf(kind, n, c) = DownOf(kind, n, c)' + CountIn(x, Numbered(kind, n))
                           /\ UpOf(kind, n, c)' = UpOf(kind, n, c) + CountIn(y, Numbered(kind, n))
<1>1. /\ inbox'[Server] = inbox[Server] /\ outbox'[Server] = outbox[Server]
      /\ \A d \in Client : d # c => inbox'[d] = inbox[d] /\ outbox'[d] = outbox[d]
      /\ UNCHANGED <<posted, report, wire>>
  BY EndsDiffer DEF Exchange
<1>2. \A d \in Client : d # c => DownStays(d) /\ UpStays(d)
  BY <1>1, Unmoved
<1>3. ASSUME NEW kind, NEW n
      PROVE  /\ DownOf(kind, n, c) = DownOf(kind, n, c)' + CountIn(x, Numbered(kind, n))
             /\ UpOf(kind, n, c)' = UpOf(kind, n, c) + CountIn(y, Numbered(kind, n))
  <2> DEFINE N == Numbered(kind, n)
             F == NumberedFor(kind, n, c)
             G == NumberedFrom(kind, n, c)
  <2>1. /\ CountIn(outbox[Server], F) \in Nat /\ CountIn(report.remotes, F) \in Nat
        /\ CountIn(OnWire(c), N) \in Nat /\ CountIn(inbox[c], N) \in Nat
        /\ CountIn(outbox[c], N) \in Nat /\ CountIn(posted, G) \in Nat /\ CountIn(inbox[Server], G) \in Nat
    BY CountsAreNat, EndsDiffer
  <2>2. CountIn(inbox'[c], N) \in Nat
    BY CountType, EndsDiffer DEF MessageInv, MessageTypes
  <2>3. CountIn(x, N) \in Nat /\ CountIn(y, N) \in Nat
    BY CountType DEF Exchange
  <2>4. OnWire(c)' = OnWire(c)
    BY <1>1 DEF OnWire
  <2>5. /\ CountIn(inbox[c], N) = CountIn(inbox'[c], N) + CountIn(x, N)
        /\ CountIn(outbox'[c], N) = CountIn(outbox[c], N) + CountIn(y, N)
    BY DEF Exchange
  <2>6. /\ UpOf(kind, n, c) = CountIn(outbox[c], N) + CountIn(posted, G) + CountIn(inbox[Server], G)
        /\ UpOf(kind, n, c)' = CountIn(outbox'[c], N) + CountIn(posted, G) + CountIn(inbox[Server], G)
    BY <1>1 DEF UpOf
  <2>7. /\ DownOf(kind, n, c) = CountIn(outbox[Server], F) + CountIn(report.remotes, F)
                                  + CountIn(OnWire(c), N) + CountIn(inbox[c], N)
        /\ DownOf(kind, n, c)' = CountIn(outbox[Server], F) + CountIn(report.remotes, F)
                                  + CountIn(OnWire(c), N) + CountIn(inbox'[c], N)
    BY <1>1, <2>4 DEF DownOf
  <2> HIDE DEF N, F, G
  <2>8. DownOf(kind, n, c) = DownOf(kind, n, c)' + CountIn(x, N)
    BY <2>1, <2>2, <2>3, <2>5, <2>7
  <2>9. UpOf(kind, n, c)' = UpOf(kind, n, c) + CountIn(y, N)
    BY <2>1, <2>3, <2>5, <2>6
  <2> QED BY <2>8, <2>9 DEF N
<1> QED BY <1>2, <1>3

LEMMA SaysExchanges ==
    ASSUME MessageInv, NEW s \in Side, NEW m \in Message, Says(s, m), UNCHANGED <<inVars, posted, report, wireVars>>
    PROVE  Exchange(s, <<>>, <<m>>) /\ \A r \in Side : HeldStays(r)
<1>1. /\ <<>> \in Seq(Message) /\ <<m>> \in Seq(Message) /\ outbox[s] \in Seq(Message)
      /\ inbox[s] \in Seq(Message)
  BY DEF MessageInv, MessageTypes
<1>2. \A r \in Side : outbox'[r] = IF r = s THEN Append(outbox[s], m) ELSE outbox[r]
  BY DEF Says, MessageInv, MessageTypes
<1>3. \A T : CountIn(outbox'[s], T) = CountIn(outbox[s], T) + CountIn(<<m>>, T)
  BY <1>1, <1>2, CountAppend, CountOne
<1>4. UNCHANGED <<inbox, kept, heard, lost, posted, report, wire>>
  BY DEF inVars, wireVars
<1>5. \A T : CountIn(inbox[s], T) = CountIn(inbox'[s], T) + CountIn(<<>>, T)
  <2> TAKE T
  <2>1. CountIn(inbox[s], T) \in Nat /\ CountIn(<<>>, T) = 0
    BY <1>1, CountType, CountNone
  <2> QED BY <1>4, <2>1
<1>6. \A r \in Side : HeldStays(r)
  BY <1>4, Unmoved
<1> QED BY <1>1, <1>2, <1>3, <1>4, <1>5, <1>6 DEF Exchange

\* What an end says when it is delivered the message m: that it has no callback, or nothing yet.
Reply(s, m) ==
    IF m.kind = "invoke" /\ s \notin callbacks
    THEN <<Result(m.n, m.player, IF s = Server THEN made ELSE 0)>> ELSE <<>>

LEMMA DeliveryExchanges ==
    ASSUME JoinInv, MessageInv, NEW s \in Side, Delivery(s)
    PROVE  LET m == Head(inbox[s]) IN
           /\ Exchange(s, <<m>>, Reply(s, m))
           /\ \A r \in Side : r # s => HeldStays(r)
           /\ \A n : Held(n, s)' = Held(n, s) + One(m, Numbered("event", n))
<1> DEFINE m == Head(inbox[s])
           y == Reply(s, m)
<1>1. /\ m \in Message /\ inbox' = [inbox EXCEPT ![s] = Tail(@)] /\ inbox[s] # <<>>
      /\ UNCHANGED <<posted, report, wire>> /\ inbox[s] \in Seq(Message) /\ outbox[s] \in Seq(Message)
  BY DeliveryTakes DEF joiningVars, frameVars, wireVars, MessageInv, MessageTypes
<1>2. \A T : CountIn(inbox[s], T) = One(m, T) + CountIn(Tail(inbox[s]), T)
  BY <1>1, CountTail
<1>3. /\ DeliverEvent(s) => m.kind = "event" /\ UNCHANGED outbox
      /\ DeliverInvoke(s, IF s = Server THEN made ELSE 0) =>
            /\ m.kind = "invoke" /\ UNCHANGED <<kept, heard, lost>>
            /\ IF s \in callbacks THEN UNCHANGED outbox
               ELSE Says(s, Result(m.n, m.player, IF s = Server THEN made ELSE 0))
      /\ DeliverResult(s) => m.kind = "result" /\ UNCHANGED <<outbox, kept, heard, lost>>
  BY DEF DeliverEvent, DeliverInvoke, DeliverResult, Delivers
<1>4. DeliverEvent(s) =>
          \/ heard' = [heard EXCEPT ![s] = Append(@, m.n)] /\ UNCHANGED <<kept, lost>>
          \/ kept' = [kept EXCEPT ![s] = Append(@, m)] /\ UNCHANGED <<heard, lost>>
          \/ lost' = [lost EXCEPT ![s] = Append(@, m.n)] /\ UNCHANGED <<heard, kept>>
  BY DEF DeliverEvent
<1>5. DeliverEvent(s) \/ DeliverInvoke(s, IF s = Server THEN made ELSE 0) \/ DeliverResult(s)
  BY DEF Delivery, Deliver
<1> HIDE DEF m
<1>6. m.n \in Nat /\ m.player \in Client \cup {Nobody} /\ (IF s = Server THEN made ELSE 0) \in Nat
  BY <1>1 DEF Message, JoinInv, JoiningTypes
<1>7. y \in Seq(Message)
  <2>1. Result(m.n, m.player, IF s = Server THEN made ELSE 0) \in Message
    BY <1>6, Said
  <2> QED BY <2>1 DEF Reply
<1>8. \A r \in Side : r # s => outbox'[r] = outbox[r] /\ inbox'[r] = inbox[r]
  BY <1>1, <1>3, <1>5 DEF Says, MessageInv, MessageTypes
<1>9. inbox'[s] = Tail(inbox[s])
  BY <1>1 DEF MessageInv, MessageTypes
<1>10. \A T : CountIn(inbox[s], T) = CountIn(inbox'[s], T) + CountIn(<<m>>, T)
  <2> TAKE T
  <2>1. CountIn(Tail(inbox[s]), T) \in Nat /\ One(m, T) \in {0, 1}
    <3>1. Tail(inbox[s]) \in Seq(Message)
      BY <1>1
    <3> QED BY <3>1, CountType, OneIs
  <2> QED BY <1>2, <1>9, <2>1, CountOne
<1>11. \A T : CountIn(outbox'[s], T) = CountIn(outbox[s], T) + CountIn(y, T)
  <2> TAKE T
  <2>1. CountIn(outbox[s], T) \in Nat /\ CountIn(<<>>, T) = 0
    BY CountsAreNat, CountNone
  <2>2. CASE m.kind = "invoke" /\ s \notin callbacks
    <3> DEFINE a == Result(m.n, m.player, IF s = Server THEN made ELSE 0)
    <3>1. Says(s, a)
      BY <1>3, <1>5, <2>2
    <3>2. a \in Message /\ y = <<a>>
      BY <1>6, <2>2, Said DEF Reply
    <3> HIDE DEF a, y
    <3>3. outbox'[s] = Append(outbox[s], a)
      BY <3>1 DEF Says, MessageInv, MessageTypes
    <3> QED BY <1>1, <3>2, <3>3, CountAppend, CountOne
  <2>3. CASE ~(m.kind = "invoke" /\ s \notin callbacks)
    <3>1. outbox' = outbox /\ y = <<>>
      BY <1>3, <1>5, <2>3 DEF Reply
    <3> HIDE DEF y
    <3> QED BY <2>1, <3>1
  <2> QED BY <2>2, <2>3
<1>12. Exchange(s, <<m>>, y)
  BY <1>1, <1>7, <1>8, <1>10, <1>11 DEF Exchange
<1>13. \A r \in Side : r # s => HeldStays(r)
  BY <1>3, <1>4, <1>5, Unmoved DEF MessageInv, MessageTypes
<1>14. ASSUME NEW n PROVE Held(n, s)' = Held(n, s) + One(m, Numbered("event", n))
  <2> DEFINE N == Numbered("event", n)
  <2>1. /\ CountIn(kept[s], N) \in Nat /\ CountIn(heard[s], {n}) \in Nat /\ CountIn(lost[s], {n}) \in Nat
        /\ kept[s] \in Seq(Events) /\ heard[s] \in Seq(Nat) /\ lost[s] \in Seq(Nat)
    BY CountsAreNat DEF MessageInv, MessageTypes
  <2>2. Held(n, s) = CountIn(kept[s], N) + CountIn(heard[s], {n}) + CountIn(lost[s], {n})
    BY DEF Held
  <2>3. Held(n, s)' = CountIn(kept'[s], N) + CountIn(heard'[s], {n}) + CountIn(lost'[s], {n})
    BY DEF Held
  <2>4. CASE DeliverEvent(s)
    <3>1. m \in Events /\ One(m, N) = One(m.n, {n})
      BY <1>1, <1>3, <2>4 DEF Events, Numbered, One
    <3>2. One(m, N) \in {0, 1}
      BY OneIs
    <3>3. CountIn(Append(kept[s], m), N) = CountIn(kept[s], N) + One(m, N)
      BY <2>1, <3>1, CountAppend
    <3>7. CountIn(Append(heard[s], m.n), {n}) = CountIn(heard[s], {n}) + One(m, N)
      <4>1. CountIn(Append(heard[s], m.n), {n}) = CountIn(heard[s], {n}) + One(m.n, {n})
        BY <1>6, <2>1, CountAppend
      <4> QED BY <3>1, <4>1
    <3>8. CountIn(Append(lost[s], m.n), {n}) = CountIn(lost[s], {n}) + One(m, N)
      <4>1. CountIn(Append(lost[s], m.n), {n}) = CountIn(lost[s], {n}) + One(m.n, {n})
        BY <1>6, <2>1, CountAppend
      <4> QED BY <3>1, <4>1
    <3>4. CASE heard' = [heard EXCEPT ![s] = Append(@, m.n)] /\ UNCHANGED <<kept, lost>>
      <4>1. heard'[s] = Append(heard[s], m.n) /\ kept'[s] = kept[s] /\ lost'[s] = lost[s]
        BY <3>4 DEF MessageInv, MessageTypes
      <4> QED BY <2>1, <2>2, <2>3, <3>2, <3>7, <4>1
    <3>5. CASE kept' = [kept EXCEPT ![s] = Append(@, m)] /\ UNCHANGED <<heard, lost>>
      <4>1. kept'[s] = Append(kept[s], m) /\ heard'[s] = heard[s] /\ lost'[s] = lost[s]
        BY <3>5 DEF MessageInv, MessageTypes
      <4> QED BY <2>1, <2>2, <2>3, <3>2, <3>3, <4>1
    <3>6. CASE lost' = [lost EXCEPT ![s] = Append(@, m.n)] /\ UNCHANGED <<heard, kept>>
      <4>1. lost'[s] = Append(lost[s], m.n) /\ kept'[s] = kept[s] /\ heard'[s] = heard[s]
        BY <3>6 DEF MessageInv, MessageTypes
      <4> QED BY <2>1, <2>2, <2>3, <3>2, <3>8, <4>1
    <3> QED BY <1>4, <2>4, <3>4, <3>5, <3>6
  <2>5. CASE ~DeliverEvent(s)
    <3>1. UNCHANGED <<kept, heard, lost>> /\ m.kind # "event"
      BY <1>3, <1>5, <2>5
    <3>2. One(m, N) = 0
      BY <3>1 DEF One, Numbered
    <3> QED BY <2>1, <2>2, <2>3, <3>1, <3>2
  <2> QED BY <2>4, <2>5
<1> QED BY <1>12, <1>13, <1>14 DEF m

LEMMA SteadySteps ==
    ASSUME JoinInv, MessageInv,
           \/ Still \/ Submits \/ FrameEnds
           \/ \E c \in Client : Posts(c) \/ Receives(c)
           \/ \E s \in Side : Stops(s) \/ Handing(s)
    PROVE  Steady
<1>1. ASSUME UNCHANGED <<inbox, outbox, kept, heard, lost, posted, report, wire>> PROVE Steady
  BY <1>1, Unmoved DEF Steady
<1>2. CASE Still \/ \E s \in Side : Stops(s)
  <2>1. UNCHANGED <<inbox, outbox, kept, heard, lost, posted, report, wire>>
    BY <1>2 DEF Still, Stops, inVars, wireVars
  <2> QED BY <1>1, <2>1
<1>3. CASE Submits \/ FrameEnds
  BY <1>3, CountsSubmitted, CountsReported DEF Steady
<1>4. CASE \E c \in Client : Posts(c) \/ Receives(c)
  BY <1>4, CountsPosted, CountsReceived DEF Steady
<1>5. CASE \E s \in Side : Handing(s)
  BY <1>5, CountsHanded DEF Steady
<1> QED BY <1>2, <1>3, <1>4, <1>5

-----------------------------------------------------------------------------
(***************************************************************************)
(* Who has a Player made, and is told of every frame's report from then on.  *)
(***************************************************************************)
Present(c) == peer[c] \notin {"away", "connected"} /\ (peer[c] = "named" => join.who = c /\ join.done)

LEMMA PresentStays ==
    ASSUME JoinInv, JoiningStep \/ Idle, NEW c \in Client
    PROVE  (Present(c) => Present(c)') /\ (peer[c] = "gone" => peer'[c] = "gone")
<1> USE DEF Present
<1>1. /\ peer \in [Client -> {"away", "connected", "named", "joined", "gone"}]
      /\ join \in [who : Client \cup {Nobody}, peer : Client \cup {Nobody}, done : BOOLEAN,
                   before : Nat, asOf : Nat]
      /\ c # Nobody
  BY EndsDiffer DEF JoinInv, JoiningTypes
<1>2. ASSUME peer' = peer, join'.who = join.who, join.done => join'.done PROVE (Present(c) => Present(c)') /\ (peer[c] = "gone" => peer'[c] = "gone")
  BY <1>2
<1>3. ASSUME NEW d \in Client, Connect(d) \/ Hello(d)
      PROVE (Present(c) => Present(c)') /\ (peer[c] = "gone" => peer'[c] = "gone")
  BY <1>1, <1>3 DEF Connect, Hello
<1>4. ASSUME NEW d \in Client, Leave(d)
      PROVE (Present(c) => Present(c)') /\ (peer[c] = "gone" => peer'[c] = "gone")
  <2>1. peer' = [peer EXCEPT ![d] = "gone"] /\ join' = IF join.peer = d THEN [join EXCEPT !.peer = Nobody] ELSE join
    BY <1>4 DEF Leave
  <2>2. join'.who = join.who /\ join'.done = join.done
    BY <1>1, <2>1
  <2>3. peer'[c] = IF c = d THEN "gone" ELSE peer[c]
    BY <1>1, <2>1
  <2> QED BY <2>2, <2>3
<1>5. ASSUME NEW d \in Client, Receive(d) \/ RemoveById(d)
      PROVE (Present(c) => Present(c)') /\ (peer[c] = "gone" => peer'[c] = "gone")
  <2>1. peer' = peer /\ join' = join
    BY <1>5 DEF Receive, RemoveById, RemovePlayer, NextJob, hostVars
  <2> QED BY <1>2, <2>1
<1>6. ASSUME NEW d \in Client, AddPlayer(d)
      PROVE (Present(c) => Present(c)') /\ (peer[c] = "gone" => peer'[c] = "gone")
  <2>1. peer' = peer /\ join' = [join EXCEPT !.done = TRUE, !.before = taken, !.asOf = made']
    BY <1>6 DEF AddPlayer, NextJob
  <2>2. join'.who = join.who /\ join'.done
    BY <1>1, <2>1
  <2> QED BY <1>2, <2>1, <2>2
<1>7. ASSUME NEW n \in Name, RemoveByName(n)
      PROVE (Present(c) => Present(c)') /\ (peer[c] = "gone" => peer'[c] = "gone")
  <2>1. peer' = peer /\ join' = join
    BY <1>7 DEF RemoveByName, RemovePlayer, NextJob
  <2> QED BY <1>2, <2>1
<1>8. CASE Submit
  <2>1. peer' = peer /\ (join' = join \/ join = NoJoin)
    BY <1>8 DEF Submit, Dispatches
  <2>2. NoJoin.who = Nobody
    BY DEF NoJoin
  <2> QED BY <1>1, <2>1, <2>2
<1>9. CASE ApplyServer
  <2>1. peer'[c] = IF Welcomes(c) THEN "joined" ELSE peer[c]
    BY <1>9 DEF ApplyServer
  <2>2. ASSUME peer[c] = "named", join.who = c, join.done PROVE Welcomes(c)
    BY <1>1, <2>2 DEF Welcomes, Joining, JoinInv, OneJoin
  <2>3. Welcomes(c) => peer[c] = "named"
    BY <1>1 DEF Welcomes, JoinInv, OneJoin
  <2> QED BY <1>1, <2>1, <2>2, <2>3
<1>10. CASE Stepping \/ EndFrame(outbox[Server]) \/ Change \/ Idle
  <2>1. peer' = peer /\ join' = join
    BY <1>10 DEF Stepping, EndFrame, Change, Idle, hostVars
  <2> QED BY <1>2, <2>1
<1> QED BY <1>3, <1>4, <1>5, <1>6, <1>7, <1>8, <1>9, <1>10 DEF JoiningStep

LEMMA PresentIsTold ==
    ASSUME JoinInv, ApplyServer, NEW c \in Client, Present(c), peer'[c] # "gone"
    PROVE  peer'[c] = "joined"
<1>1. peer'[c] = IF Welcomes(c) THEN "joined" ELSE peer[c]
  BY DEF ApplyServer
<1>2. ASSUME peer[c] = "named", join.who = c, join.done PROVE Welcomes(c)
  BY <1>2, EndsDiffer DEF Welcomes, Joining, JoinInv, OneJoin
<1>3. peer[c] \in {"away", "connected", "named", "joined", "gone"}
  BY DEF JoinInv, JoiningTypes
<1> QED BY <1>1, <1>2, <1>3 DEF Present

LEMMA WhoIsPresent ==
    ASSUME JoinInv, ToldInv, NEW c \in Client
    PROVE  /\ c \in Range(players) => Present(c)
           /\ Runs(c) => peer[c] = "joined" /\ Present(c)
<1>1. c \in Range(players) => Present(c)
  BY DEF Present, JoinInv, PlayersAreKnown
<1>2. ASSUME Runs(c) PROVE peer[c] = "joined"
  <2>1. have[c] >= 0 /\ peer[c] # "gone"
    BY <1>2, EndsDiffer DEF Runs
  <2>2. ~(-1 >= 0)
    OBVIOUS
  <2> QED BY <2>1, <2>2 DEF ToldInv, JoinInv, JoiningTypes
<1> QED BY <1>1, <1>2 DEF Present
-----------------------------------------------------------------------------
(***************************************************************************)
(* The firings.  At(n, c): where a client has the firing n, or the server  *)
(* has it for that client.                                                 *)
(***************************************************************************)
At(n, c) == Held(n, c) + DownOf("event", n, c)

ToPlayers(f) ==
    /\ f.by = Server /\ f.for \subseteq Client
    /\ \A c \in Client : At(f.n, c) <= (IF f.player \in {Nobody, c} THEN 1 ELSE 0) /\ UpOf("event", f.n, c) = 0
    /\ Held(f.n, Server) = 0
    /\ \A c \in f.for : Present(c) /\ (peer[c] # "gone" => At(f.n, c) = 1)

ToServer(f) ==
    /\ f.by \in Client /\ f.for = {Server}
    /\ \A c \in Client : At(f.n, c) = 0 /\ (c # f.by => UpOf("event", f.n, c) = 0)
    /\ Held(f.n, Server) + UpOf("event", f.n, f.by) <= 1
    /\ peer[f.by] # "gone" => Held(f.n, Server) + UpOf("event", f.n, f.by) = 1

Nowhere(n) == (\A c \in Client : At(n, c) = 0 /\ UpOf("event", n, c) = 0) /\ Held(n, Server) = 0

FlowInv ==
    /\ \A f \in firings : f.n \in Nat /\ f.n <= acts /\ (ToPlayers(f) \/ ToServer(f))
    /\ \A n \in Nat : n > acts => Nowhere(n)

LEMMA FlowNat ==
    ASSUME MessageInv
    PROVE  /\ \A n : \A c \in Client : At(n, c) \in Nat /\ UpOf("event", n, c) \in Nat /\ DownOf("event", n, c) \in Nat
           /\ \A n : \A s \in Side : Held(n, s) \in Nat
BY SumsAreNat, EndsDiffer DEF At

FlowCounts ==
    /\ \A n : \A c \in Client : At(n, c) \in Nat /\ UpOf("event", n, c) \in Nat
    /\ \A n : \A s \in Side : Held(n, s) \in Nat

LEMMA FlowNatNext == MessageInv' => FlowCounts'
<1>1. MessageInv => FlowCounts
  BY FlowNat DEF FlowCounts
<1> QED BY <1>1, PTL

Sums ==
    /\ \A kind, n : \A c \in Client : DownOf(kind, n, c) \in Nat /\ UpOf(kind, n, c) \in Nat
    /\ \A n : \A s \in Side : Held(n, s) \in Nat

SumsNext == Sums'

LEMMA SumsAreNatNext == MessageInv' => SumsNext
<1>1. MessageInv => Sums
  BY SumsAreNat DEF Sums
<1>2. MessageInv' => Sums'
  BY <1>1, PTL
<1> QED BY <1>2 DEF SumsNext

\* A step that fires nothing: a firing goes on, is held, or goes with the client that leaves.
Flows ==
    /\ \A n : \A c \in Client : /\ At(n, c)' <= At(n, c) /\ UpOf("event", n, c)' <= UpOf("event", n, c)
                                /\ Present(c) /\ peer'[c] # "gone" => At(n, c)' = At(n, c)
    /\ \A n : (\A c \in Client : UpOf("event", n, c) = 0) => Held(n, Server)' = Held(n, Server)
    /\ \A n : \A b \in Client :
          (\A c \in Client : c # b => UpOf("event", n, c) = 0) =>
              /\ Held(n, Server)' + UpOf("event", n, b)' <= Held(n, Server) + UpOf("event", n, b)
              /\ (peer'[b] = "gone" => peer[b] = "gone") =>
                     Held(n, Server)' + UpOf("event", n, b)' = Held(n, Server) + UpOf("event", n, b)

GoesOn == \A c \in Client : (Present(c) => Present(c)') /\ (peer[c] = "gone" => peer'[c] = "gone")

LEMMA FlowGoesOn ==
    ASSUME MessageInv, MessageInv', Flows, GoesOn, FlowInv, firings' = firings, acts' >= acts
    PROVE  FlowInv'
<1>1. /\ \A n : \A c \in Client : At(n, c) \in Nat /\ UpOf("event", n, c) \in Nat
      /\ \A n : \A s \in Side : Held(n, s) \in Nat
      /\ acts \in Nat /\ acts' \in Nat
  BY FlowNat DEF MessageInv, MessageTypes
<1>2. /\ \A n : \A c \in Client : At(n, c)' \in Nat /\ UpOf("event", n, c)' \in Nat
      /\ \A n : \A s \in Side : Held(n, s)' \in Nat
  BY FlowNatNext DEF FlowCounts
<1>3. ASSUME NEW n, \A c \in Client : At(n, c) = 0 PROVE \A c \in Client : At(n, c)' = 0
  BY <1>1, <1>2, <1>3 DEF Flows
<1>4. ASSUME NEW n, NEW c \in Client, UpOf("event", n, c) = 0 PROVE UpOf("event", n, c)' = 0
  BY <1>1, <1>2, <1>4 DEF Flows
<1>5. ASSUME NEW f \in firings, ToPlayers(f) PROVE ToPlayers(f)'
  <2>1. ASSUME NEW c \in Client
        PROVE  At(f.n, c)' <= (IF f.player \in {Nobody, c} THEN 1 ELSE 0) /\ UpOf("event", f.n, c)' = 0
    <3>1. At(f.n, c)' <= At(f.n, c) /\ At(f.n, c) <= (IF f.player \in {Nobody, c} THEN 1 ELSE 0)
      BY <1>5 DEF Flows, ToPlayers
    <3>2. UpOf("event", f.n, c)' = 0
      BY <1>4, <1>5 DEF ToPlayers
    <3> QED BY <1>1, <1>2, <3>1, <3>2
  <2>2. Held(f.n, Server)' = 0
    BY <1>5 DEF Flows, ToPlayers
  <2>3. ASSUME NEW c \in f.for PROVE Present(c)' /\ (peer'[c] # "gone" => At(f.n, c)' = 1)
    <3>1. c \in Client /\ Present(c) /\ (peer[c] # "gone" => At(f.n, c) = 1)
      BY <1>5 DEF ToPlayers
    <3>2. Present(c)' /\ (peer[c] = "gone" => peer'[c] = "gone")
      BY <3>1 DEF GoesOn
    <3>3. peer'[c] # "gone" => At(f.n, c)' = At(f.n, c)
      BY <3>1 DEF Flows
    <3> QED BY <3>1, <3>2, <3>3
  <2> QED BY <1>5, <2>1, <2>2, <2>3 DEF ToPlayers
<1>6. ASSUME NEW f \in firings, ToServer(f) PROVE ToServer(f)'
  <2>1. f.by \in Client /\ f.for = {Server}
    BY <1>6 DEF ToServer
  <2>2. \A c \in Client : c # f.by => UpOf("event", f.n, c) = 0
    BY <1>6 DEF ToServer
  <2>3. \A c \in Client : c # f.by => UpOf("event", f.n, c)' = 0
    BY <1>4, <2>2
  <2>4. \A c \in Client : At(f.n, c)' = 0
    BY <1>3, <1>6 DEF ToServer
  <2>5. /\ Held(f.n, Server)' + UpOf("event", f.n, f.by)' <= Held(f.n, Server) + UpOf("event", f.n, f.by)
        /\ (peer'[f.by] = "gone" => peer[f.by] = "gone") =>
             Held(f.n, Server)' + UpOf("event", f.n, f.by)' = Held(f.n, Server) + UpOf("event", f.n, f.by)
    BY <2>1, <2>2 DEF Flows
  <2>6. /\ Held(f.n, Server) + UpOf("event", f.n, f.by) <= 1
        /\ peer[f.by] # "gone" => Held(f.n, Server) + UpOf("event", f.n, f.by) = 1
    BY <1>6 DEF ToServer
  <2>7. peer'[f.by] # "gone" => peer[f.by] # "gone"
    BY <2>1 DEF GoesOn
  <2>8. Held(f.n, Server) \in Nat /\ UpOf("event", f.n, f.by) \in Nat /\ Held(f.n, Server)' \in Nat
        /\ UpOf("event", f.n, f.by)' \in Nat
    BY <1>1, <1>2, <2>1, EndsDiffer
  <2>9. /\ Held(f.n, Server)' + UpOf("event", f.n, f.by)' <= 1
        /\ peer'[f.by] # "gone" => Held(f.n, Server)' + UpOf("event", f.n, f.by)' = 1
    BY <2>5, <2>6, <2>7, <2>8
  <2> QED BY <2>1, <2>3, <2>4, <2>9 DEF ToServer
<1>7. ASSUME NEW n \in Nat, n > acts' PROVE Nowhere(n)'
  <2>1. Nowhere(n)
    BY <1>1, <1>7 DEF FlowInv
  <2>2. \A c \in Client : At(n, c)' = 0 /\ UpOf("event", n, c)' = 0
    BY <1>3, <1>4, <2>1 DEF Nowhere
  <2>3. Held(n, Server)' = 0
    BY <2>1 DEF Nowhere, Flows
  <2> QED BY <2>2, <2>3 DEF Nowhere
<1>8. ASSUME NEW f \in firings' PROVE f.n \in Nat /\ f.n <= acts' /\ (ToPlayers(f) \/ ToServer(f))'
  <2>1. f \in firings /\ f.n \in Nat /\ f.n <= acts /\ (ToPlayers(f) \/ ToServer(f))
    BY <1>8 DEF FlowInv
  <2> QED BY <1>1, <1>5, <1>6, <2>1
<1> QED BY <1>7, <1>8 DEF FlowInv

LEMMA SteadyFlows ==
    ASSUME MessageInv,
           \A n : \A c \in Client : DownOf("event", n, c)' = DownOf("event", n, c) /\ UpOf("event", n, c)' = UpOf("event", n, c),
           \A s \in Side : HeldStays(s)
    PROVE  Flows
<1>1. /\ \A n : \A c \in Client : At(n, c)' = At(n, c) /\ UpOf("event", n, c)' = UpOf("event", n, c)
      /\ \A n : Held(n, Server)' = Held(n, Server)
  BY EndsDiffer DEF At, HeldStays
<1>2. /\ \A n : \A c \in Client : At(n, c) \in Nat /\ UpOf("event", n, c) \in Nat
      /\ \A n : Held(n, Server) \in Nat
  BY FlowNat, EndsDiffer
<1> QED BY <1>1, <1>2 DEF Flows

LEMMA OtherKinds ==
    ASSUME NEW m, NEW kind, m.kind # kind, NEW n
    PROVE  /\ CountIn(<<m>>, Numbered(kind, n)) = 0
           /\ \A c : CountIn(<<m>>, NumberedFor(kind, n, c)) = 0 /\ CountIn(<<m>>, NumberedFrom(kind, n, c)) = 0
BY CountOne, OneIs DEF Numbered, NumberedFor, NumberedFrom

LEMMA AppliesFlows ==
    ASSUME JoinInv, MessageInv, MessageInv', Applies
    PROVE  Flows
<1>1. /\ \A d \in Client : UpStays(d)
      /\ \A s \in Side : HeldStays(s)
      /\ \A d \in Client : peer'[d] = "joined" => DownStays(d)
      /\ \A d \in Client : \A kind, n : DownOf(kind, n, d)' <= DownOf(kind, n, d)
  BY CountsApplied
<1>2. \A c \in Client : Present(c) /\ peer'[c] # "gone" => peer'[c] = "joined"
  BY PresentIsTold DEF Applies
<1>3. /\ \A n : \A c \in Client : DownOf("event", n, c) \in Nat /\ UpOf("event", n, c) \in Nat
      /\ \A n : \A s \in Side : Held(n, s) \in Nat
  BY FlowNat
<1>4. /\ \A n : \A c \in Client : UpOf("event", n, c)' = UpOf("event", n, c)
      /\ \A n : \A s \in Side : Held(n, s)' = Held(n, s)
  BY <1>1 DEF UpStays, HeldStays
<1>5. ASSUME NEW n, NEW c \in Client
      PROVE  At(n, c)' <= At(n, c) /\ (Present(c) /\ peer'[c] # "gone" => At(n, c)' = At(n, c))
  <2>1. DownOf("event", n, c)' <= DownOf("event", n, c) /\ Held(n, c)' = Held(n, c)
    BY <1>1, <1>4, EndsDiffer
  <2>2. DownOf("event", n, c)' \in Nat
    BY SumsAreNatNext DEF SumsNext, Sums
  <2>3. Present(c) /\ peer'[c] # "gone" => DownOf("event", n, c)' = DownOf("event", n, c)
    BY <1>1, <1>2 DEF DownStays
  <2>4. Held(n, c) \in Nat /\ DownOf("event", n, c) \in Nat
    BY <1>3, EndsDiffer
  <2>5. /\ At(n, c) = Held(n, c) + DownOf("event", n, c)
        /\ At(n, c)' = Held(n, c)' + DownOf("event", n, c)'
    BY DEF At
  <2> QED BY <2>1, <2>2, <2>3, <2>4, <2>5
<1> QED BY <1>3, <1>4, <1>5, EndsDiffer DEF Flows

LEMMA LeftFlows ==
    ASSUME JoinInv, MessageInv, MessageInv', NEW c \in Client, Left(c)
    PROVE  Flows
<1>1. /\ \A d \in Client : d # c => DownStays(d) /\ UpStays(d)
      /\ \A s \in Side : s # c => HeldStays(s)
      /\ \A kind, n : DownOf(kind, n, c)' <= DownOf(kind, n, c) /\ UpOf(kind, n, c)' <= UpOf(kind, n, c)
      /\ \A n : Held(n, c)' <= Held(n, c)
  BY CountsLeft
<1>2. peer'[c] = "gone" /\ peer[c] # "gone"
  BY DEF Left, Leave, JoinInv, JoiningTypes
<1>3. /\ \A n : \A d \in Client : DownOf("event", n, d) \in Nat /\ UpOf("event", n, d) \in Nat
      /\ \A n : \A s \in Side : Held(n, s) \in Nat
  BY FlowNat
<1>4. /\ \A n : \A d \in Client : DownOf("event", n, d)' \in Nat /\ UpOf("event", n, d)' \in Nat
      /\ \A n : \A s \in Side : Held(n, s)' \in Nat
  BY SumsAreNatNext DEF SumsNext, Sums
<1>5. \A n : Held(n, Server)' = Held(n, Server)
  BY <1>1, EndsDiffer DEF HeldStays
<1>6. ASSUME NEW n, NEW d \in Client
      PROVE  /\ At(n, d)' <= At(n, d) /\ UpOf("event", n, d)' <= UpOf("event", n, d)
             /\ peer'[d] # "gone" => At(n, d)' = At(n, d)
             /\ d # c => UpOf("event", n, d)' = UpOf("event", n, d)
  <2>1. /\ At(n, d) = Held(n, d) + DownOf("event", n, d)
        /\ At(n, d)' = Held(n, d)' + DownOf("event", n, d)'
    BY DEF At
  <2>2. /\ Held(n, d) \in Nat /\ DownOf("event", n, d) \in Nat /\ UpOf("event", n, d) \in Nat
        /\ Held(n, d)' \in Nat /\ DownOf("event", n, d)' \in Nat /\ UpOf("event", n, d)' \in Nat
    BY <1>3, <1>4, EndsDiffer
  <2>3. CASE d = c
    <3>1. /\ Held(n, d)' <= Held(n, d) /\ DownOf("event", n, d)' <= DownOf("event", n, d)
          /\ UpOf("event", n, d)' <= UpOf("event", n, d)
      BY <1>1, <2>3
    <3> QED BY <1>2, <2>1, <2>2, <2>3, <3>1
  <2>4. CASE d # c
    <3>1. /\ Held(n, d)' = Held(n, d) /\ DownOf("event", n, d)' = DownOf("event", n, d)
          /\ UpOf("event", n, d)' = UpOf("event", n, d)
      BY <1>1, <2>4, EndsDiffer DEF HeldStays, DownStays, UpStays
    <3> QED BY <2>1, <2>2, <3>1
  <2> QED BY <2>3, <2>4
<1>7. ASSUME NEW n, NEW b \in Client
      PROVE  /\ Held(n, Server)' + UpOf("event", n, b)' <= Held(n, Server) + UpOf("event", n, b)
             /\ (peer'[b] = "gone" => peer[b] = "gone") =>
                    Held(n, Server)' + UpOf("event", n, b)' = Held(n, Server) + UpOf("event", n, b)
  <2>1. Held(n, Server) \in Nat /\ UpOf("event", n, b) \in Nat /\ UpOf("event", n, b)' \in Nat
    BY <1>3, <1>4, EndsDiffer
  <2>2. (peer'[b] = "gone" => peer[b] = "gone") => b # c
    BY <1>2
  <2> QED BY <1>5, <1>6, <2>1, <2>2
<1> QED BY <1>5, <1>6, <1>7 DEF Flows

LEMMA DeliveryFlows ==
    ASSUME JoinInv, MessageInv, MessageInv', NEW s \in Side, Delivery(s)
    PROVE  Flows
<1> DEFINE m == Head(inbox[s])
           y == Reply(s, m)
<1>1. /\ Exchange(s, <<m>>, y)
      /\ \A r \in Side : r # s => HeldStays(r)
      /\ \A n : Held(n, s)' = Held(n, s) + One(m, Numbered("event", n))
  BY DeliveryExchanges
<1>2. \A n : /\ CountIn(y, Numbered("event", n)) = 0
             /\ \A c : CountIn(y, NumberedFor("event", n, c)) = 0
  BY CountNone, OtherKinds, Said DEF Reply
<1>3. /\ \A n : \A d \in Client : DownOf("event", n, d) \in Nat /\ UpOf("event", n, d) \in Nat
      /\ \A n : \A r \in Side : Held(n, r) \in Nat
  BY FlowNat
<1>4. /\ \A n : \A d \in Client : DownOf("event", n, d)' \in Nat /\ UpOf("event", n, d)' \in Nat
      /\ \A n : \A r \in Side : Held(n, r)' \in Nat
  BY SumsAreNatNext DEF SumsNext, Sums
<1>5. m \in Message /\ (s = Server => m.player \in Client)
  BY DeliveryTakes
<1> HIDE DEF m, y
<1>6. CASE s = Server
  <2>1. ASSUME NEW n, NEW c \in Client
        PROVE  /\ UpOf("event", n, c) = UpOf("event", n, c)' + One(m, NumberedFrom("event", n, c))
               /\ DownOf("event", n, c)' = DownOf("event", n, c) + 0
               /\ Held(n, c)' = Held(n, c)
    BY <1>1, <1>2, <1>6, ServerExchanges, CountOne, EndsDiffer DEF HeldStays
  <2>2. ASSUME NEW n, NEW c \in Client PROVE At(n, c)' = At(n, c) /\ At(n, c) \in Nat
    <3>1. Held(n, c) \in Nat /\ DownOf("event", n, c) \in Nat
      BY <1>3, EndsDiffer
    <3> QED BY <2>1, <3>1 DEF At
  <2>3. ASSUME NEW n, NEW c \in Client
        PROVE  One(m, NumberedFrom("event", n, c)) = IF m.player = c THEN One(m, Numbered("event", n)) ELSE 0
    BY <1>5 DEF One, Numbered, NumberedFrom
  <2>4. \A n : One(m, Numbered("event", n)) \in {0, 1}
    BY OneIs
  <2>5. ASSUME NEW n, NEW c \in Client PROVE UpOf("event", n, c)' <= UpOf("event", n, c)
    BY <1>3, <1>4, <2>1, <2>3, <2>4
  <2>6. ASSUME NEW n, \A c \in Client : UpOf("event", n, c) = 0 PROVE Held(n, Server)' = Held(n, Server)
    <3>1. One(m, Numbered("event", n)) = 0
      BY <1>4, <1>5, <1>6, <2>1, <2>3, <2>4, <2>6
    <3>2. Held(n, Server) \in Nat
      BY <1>3, EndsDiffer
    <3> QED BY <1>1, <1>6, <3>1, <3>2
  <2>7. ASSUME NEW n, NEW b \in Client, \A c \in Client : c # b => UpOf("event", n, c) = 0
        PROVE  Held(n, Server)' + UpOf("event", n, b)' = Held(n, Server) + UpOf("event", n, b)
    <3>1. Held(n, Server) \in Nat /\ UpOf("event", n, b) \in Nat /\ UpOf("event", n, b)' \in Nat
      BY <1>3, <1>4, EndsDiffer
    <3>2. Held(n, Server)' = Held(n, Server) + One(m, Numbered("event", n))
      BY <1>1, <1>6
    <3>3. UpOf("event", n, b) = UpOf("event", n, b)' + One(m, NumberedFrom("event", n, b))
      BY <2>1
    <3>4. CASE m.player = b
      BY <2>3, <2>4, <3>1, <3>2, <3>3, <3>4
    <3>5. CASE m.player # b
      <4>1. PICK d \in Client : d = m.player /\ d # b
        BY <1>5, <1>6, <3>5
      <4>6. UpOf("event", n, d) = 0
        BY <2>7, <4>1
      <4>7. UpOf("event", n, d)' \in Nat
        BY <1>4, <4>1
      <4>8. UpOf("event", n, d) = UpOf("event", n, d)' + One(m, NumberedFrom("event", n, d))
        BY <2>1, <4>1
      <4>2. UpOf("event", n, d)' + One(m, NumberedFrom("event", n, d)) = 0
        BY <4>6, <4>8
      <4>3. One(m, NumberedFrom("event", n, d)) = One(m, Numbered("event", n))
        BY <2>3, <4>1
      <4>4. One(m, Numbered("event", n)) = 0
        BY <2>4, <4>2, <4>3, <4>7
      <4>5. One(m, NumberedFrom("event", n, b)) = 0
        BY <2>3, <3>5
      <4> QED BY <3>1, <3>2, <3>3, <4>4, <4>5
    <3> QED BY <3>4, <3>5
  <2>8. \A n : \A b \in Client : Held(n, Server) + UpOf("event", n, b) \in Nat
    BY <1>3, EndsDiffer
  <2> QED BY <2>2, <2>5, <2>6, <2>7, <2>8 DEF Flows
<1>7. CASE s # Server
  <2>1. s \in Client
    BY <1>7, EndsDiffer
  <2>2. /\ \A d \in Client : d # s => DownStays(d) /\ UpStays(d) /\ HeldStays(d)
        /\ HeldStays(Server)
    BY <1>1, <1>7, <2>1, ClientExchanges, EndsDiffer
  <2>3. \A n : /\ DownOf("event", n, s) = DownOf("event", n, s)' + One(m, Numbered("event", n))
               /\ UpOf("event", n, s)' = UpOf("event", n, s) + 0
    BY <1>1, <1>2, <2>1, ClientExchanges, CountOne
  <2>4. ASSUME NEW n, NEW c \in Client
        PROVE  At(n, c)' = At(n, c) /\ At(n, c) \in Nat /\ UpOf("event", n, c)' = UpOf("event", n, c)
    <3>1. /\ Held(n, c) \in Nat /\ DownOf("event", n, c) \in Nat /\ UpOf("event", n, c) \in Nat
          /\ DownOf("event", n, c)' \in Nat
      BY <1>3, <1>4, EndsDiffer
    <3>2. /\ At(n, c) = Held(n, c) + DownOf("event", n, c)
          /\ At(n, c)' = Held(n, c)' + DownOf("event", n, c)'
      BY DEF At
    <3>3. CASE c = s
      <4>1. /\ DownOf("event", n, c) = DownOf("event", n, c)' + One(m, Numbered("event", n))
            /\ UpOf("event", n, c)' = UpOf("event", n, c) + 0
            /\ Held(n, c)' = Held(n, c) + One(m, Numbered("event", n))
        BY <1>1, <2>3, <3>3
      <4>2. One(m, Numbered("event", n)) \in {0, 1}
        BY OneIs
      <4> QED BY <3>1, <3>2, <4>1, <4>2
    <3>4. CASE c # s
      BY <2>2, <3>1, <3>2, <3>4 DEF DownStays, UpStays, HeldStays
    <3> QED BY <3>3, <3>4
  <2>5. \A n : Held(n, Server)' = Held(n, Server) /\ Held(n, Server) \in Nat
    BY <1>3, <2>2, EndsDiffer DEF HeldStays
  <2>6. \A n : \A b \in Client : UpOf("event", n, b) \in Nat
    BY <1>3
  <2> QED BY <2>4, <2>5, <2>6 DEF Flows
<1> QED BY <1>6, <1>7

\* A firing is somewhere from then on, and nothing else moves.
LEMMA FiringCounts ==
    ASSUME JoinInv, MessageInv, MessageInv', NEW s \in Side, NEW player, NEW for, Fires(s, player, for)
    PROVE  /\ acts' = acts + 1 /\ acts \in Nat /\ UNCHANGED <<peer, join>> /\ Runs(s)
           /\ firings' = firings \cup {[n |-> acts', by |-> s, player |-> player, for |-> for]}
           /\ \A k : \A r \in Side : Held(k, r)' = Held(k, r)
           /\ \A k : \A c \in Client :
                 /\ At(k, c)' = At(k, c) + (IF s = Server /\ k = acts' /\ player \in {Nobody, c} THEN 1 ELSE 0)
                 /\ UpOf("event", k, c)' = UpOf("event", k, c) + (IF s = c /\ k = acts' THEN 1 ELSE 0)
<1>1. /\ Acts(s) /\ player \in Client \cup {Nobody}
      /\ Fire(s, acts', player, IF s = Server THEN made ELSE 0)
      /\ firings' = firings \cup {[n |-> acts', by |-> s, player |-> player, for |-> for]}
  BY DEF Fires, FiresTo
<1>2. /\ acts' = acts + 1 /\ UNCHANGED <<peer, join, posted, report, wireVars>> /\ Runs(s)
  BY <1>1 DEF Acts, Acting, hostVars
<1>3. PICK n \in Nat : n = acts'
  BY DEF MessageInv, MessageTypes
<1>4. PICK asOf \in Nat : asOf = IF s = Server THEN made ELSE 0
  BY DEF JoinInv, JoiningTypes
<1> DEFINE m == Event(n, player, asOf)
<1>5. Says(s, m) /\ UNCHANGED inVars
  BY <1>1, <1>3, <1>4 DEF Fire
<1>6. m \in Message /\ m.kind = "event" /\ m.n = n /\ m.player = player
  BY <1>1, Said
<1> HIDE DEF m
<1>7. Exchange(s, <<>>, <<m>>) /\ \A r \in Side : HeldStays(r)
  BY <1>2, <1>5, <1>6, SaysExchanges
<1>8. \A k : /\ \A c : One(m, NumberedFor("event", k, c)) = IF k = n /\ player \in {Nobody, c} THEN 1 ELSE 0
             /\ One(m, Numbered("event", k)) = IF k = n THEN 1 ELSE 0
  BY <1>6 DEF One, Numbered, NumberedFor
<1>9. \A T : CountIn(<<>>, T) = 0 /\ CountIn(<<m>>, T) = One(m, T)
  BY CountNone, CountOne
<1>10. \A k : \A r \in Side : Held(k, r)' = Held(k, r)
  BY <1>7 DEF HeldStays
<1>11. ASSUME NEW k, NEW c \in Client
       PROVE  /\ At(k, c)' = At(k, c) + (IF s = Server /\ k = n /\ player \in {Nobody, c} THEN 1 ELSE 0)
              /\ UpOf("event", k, c)' = UpOf("event", k, c) + (IF s = c /\ k = n THEN 1 ELSE 0)
  <2>1. /\ Held(k, c) \in Nat /\ DownOf("event", k, c) \in Nat /\ UpOf("event", k, c) \in Nat
        /\ DownOf("event", k, c)' \in Nat /\ UpOf("event", k, c)' \in Nat
        /\ Held(k, c)' = Held(k, c)
    BY <1>10, SumsAreNat, SumsAreNatNext, EndsDiffer DEF SumsNext, Sums
  <2>2. /\ At(k, c) = Held(k, c) + DownOf("event", k, c)
        /\ At(k, c)' = Held(k, c)' + DownOf("event", k, c)'
    BY DEF At
  <2>3. CASE s = Server
    <3>1. /\ UpOf("event", k, c) = UpOf("event", k, c)' + 0
          /\ DownOf("event", k, c)' = DownOf("event", k, c) + One(m, NumberedFor("event", k, c))
      BY <1>7, <1>9, <2>3, ServerExchanges
    <3>2. s # c
      BY <2>3, EndsDiffer
    <3> QED BY <1>8, <2>1, <2>2, <2>3, <3>1, <3>2
  <2>4. CASE s # Server
    <3>1. s \in Client
      BY <2>4, EndsDiffer
    <3>2. /\ c # s => DownStays(c) /\ UpStays(c)
          /\ DownOf("event", k, s) = DownOf("event", k, s)' + 0
          /\ UpOf("event", k, s)' = UpOf("event", k, s) + One(m, Numbered("event", k))
      BY <1>7, <1>9, <3>1, ClientExchanges
    <3>3. CASE c = s
      BY <1>8, <2>1, <2>2, <2>4, <3>2, <3>3
    <3>4. CASE c # s
      BY <2>1, <2>2, <2>4, <3>2, <3>4 DEF DownStays, UpStays
    <3> QED BY <3>3, <3>4
  <2> QED BY <2>3, <2>4
<1>12. acts \in Nat
  BY DEF MessageInv, MessageTypes
<1> QED BY <1>1, <1>2, <1>3, <1>10, <1>11, <1>12

LEMMA FlowFires ==
    ASSUME JoinInv, ToldInv, MessageInv, MessageInv', FlowInv,
           NEW s \in Side, NEW player, NEW for, Fires(s, player, for)
    PROVE  FlowInv'
<1>1. /\ acts' = acts + 1 /\ acts \in Nat /\ UNCHANGED <<peer, join>> /\ Runs(s)
      /\ firings' = firings \cup {[n |-> acts', by |-> s, player |-> player, for |-> for]}
      /\ \A k : \A r \in Side : Held(k, r)' = Held(k, r)
  BY FiringCounts
<1>2. \A k : \A c \in Client :
          /\ At(k, c)' = At(k, c) + (IF s = Server /\ k = acts' /\ player \in {Nobody, c} THEN 1 ELSE 0)
          /\ UpOf("event", k, c)' = UpOf("event", k, c) + (IF s = c /\ k = acts' THEN 1 ELSE 0)
  BY FiringCounts
<1>3. /\ \A n : \A c \in Client : At(n, c) \in Nat /\ UpOf("event", n, c) \in Nat
      /\ \A n : \A r \in Side : Held(n, r) \in Nat
  BY FlowNat
<1>4. /\ \A k : \A c \in Client : k # acts' => At(k, c)' = At(k, c) /\ UpOf("event", k, c)' = UpOf("event", k, c)
      /\ \A k : Held(k, Server)' = Held(k, Server)
  BY <1>1, <1>2, <1>3, EndsDiffer
<1>5. \A c \in Client : Present(c)' <=> Present(c)
  BY <1>1 DEF Present
<1>6. ASSUME NEW f \in firings PROVE f.n \in Nat /\ f.n <= acts' /\ (ToPlayers(f) \/ ToServer(f))'
  <2>1. f.n \in Nat /\ f.n <= acts /\ f.n # acts' /\ (ToPlayers(f) \/ ToServer(f))
    BY <1>1 DEF FlowInv
  <2>2. /\ \A c \in Client : At(f.n, c)' = At(f.n, c) /\ UpOf("event", f.n, c)' = UpOf("event", f.n, c)
        /\ Held(f.n, Server)' = Held(f.n, Server)
    BY <1>4, <2>1
  <2>3. ToPlayers(f) => ToPlayers(f)'
    BY <1>1, <1>5, <2>2 DEF ToPlayers
  <2>4. ToServer(f) => ToServer(f)'
    BY <1>1, <2>2 DEF ToServer
  <2> QED BY <1>1, <2>1, <2>3, <2>4
<1>7. ASSUME NEW n \in Nat, n > acts' PROVE Nowhere(n)'
  <2>1. Nowhere(n) /\ n # acts'
    BY <1>1, <1>7 DEF FlowInv
  <2> QED BY <1>4, <2>1 DEF Nowhere
<1>8. PICK n \in Nat : n = acts'
  BY <1>1
<1>9. PICK g : g = [n |-> n, by |-> s, player |-> player, for |-> for]
  OBVIOUS
<1>10. Nowhere(n)
  BY <1>1, <1>8 DEF FlowInv
<1>11. (ToPlayers(g) \/ ToServer(g))'
  <2>1. g.n = n /\ g.by = s /\ g.player = player /\ g.for = for
    BY <1>9
  <2>2. CASE s = Server
    <3>1. ASSUME NEW c \in Client
          PROVE At(n, c)' = (IF player \in {Nobody, c} THEN 1 ELSE 0) /\ UpOf("event", n, c)' = 0
      <4>1. /\ At(n, c)' = 0 + (IF s = Server /\ n = acts' /\ player \in {Nobody, c} THEN 1 ELSE 0)
            /\ UpOf("event", n, c)' = 0 + (IF s = c /\ n = acts' THEN 1 ELSE 0)
        BY <1>2, <1>10 DEF Nowhere
      <4>2. s # c
        BY <2>2, EndsDiffer
      <4> QED BY <1>8, <2>2, <4>1, <4>2
    <3>2. Held(n, Server)' = 0
      BY <1>4, <1>10 DEF Nowhere
    <3>3. /\ for \subseteq Range(players) /\ \A c \in for : player \in {Nobody, c}
          /\ Range(players) \subseteq Client
      BY <2>2, EndsDiffer DEF Fires, JoinInv, JoiningTypes, Range
    <3>4. \A c \in for : Present(c)'
      BY <1>5, <3>3, WhoIsPresent
    <3>5. \A c \in Client : At(n, c)' <= (IF player \in {Nobody, c} THEN 1 ELSE 0)
      BY <3>1
    <3>6. \A c \in for : At(n, c)' = 1
      BY <3>1, <3>3
    <3>7. ToPlayers(g)'
      BY <2>1, <2>2, <3>1, <3>2, <3>3, <3>4, <3>5, <3>6 DEF ToPlayers
    <3> QED BY <3>7
  <2>3. CASE s # Server
    <3>1. s \in Client /\ for = {Server}
      BY <2>3, EndsDiffer DEF Fires
    <3>2. ASSUME NEW c \in Client
          PROVE At(n, c)' = 0 /\ UpOf("event", n, c)' = IF c = s THEN 1 ELSE 0
      <4>1. /\ At(n, c)' = 0 + (IF s = Server /\ n = acts' /\ player \in {Nobody, c} THEN 1 ELSE 0)
            /\ UpOf("event", n, c)' = 0 + (IF s = c /\ n = acts' THEN 1 ELSE 0)
        BY <1>2, <1>10 DEF Nowhere
      <4> QED BY <1>8, <2>3, <4>1
    <3>3. Held(n, Server)' = 0
      BY <1>4, <1>10 DEF Nowhere
    <3>4. UpOf("event", n, s)' = 1
      BY <3>1, <3>2
    <3>5. ToServer(g)'
      BY <2>1, <3>1, <3>2, <3>3, <3>4 DEF ToServer
    <3> QED BY <3>5
  <2> QED BY <2>2, <2>3
<1>12. ASSUME NEW f \in firings' PROVE f.n \in Nat /\ f.n <= acts' /\ (ToPlayers(f) \/ ToServer(f))'
  <2>1. f \in firings \/ f = g
    BY <1>1, <1>8, <1>9
  <2>2. g.n \in Nat /\ g.n <= acts'
    BY <1>8, <1>9
  <2>3. CASE f = g
    BY <1>11, <2>2, <2>3
  <2> QED BY <1>6, <2>1, <2>3
<1> QED BY <1>7, <1>12 DEF FlowInv

\* What else is said is no firing.
LEMMA SaysFlows ==
    ASSUME MessageInv, MessageInv', NEW s \in Side, NEW m \in Message, m.kind # "event", Says(s, m),
           UNCHANGED <<inVars, posted, report, wireVars>>
    PROVE  Flows
<1>1. Exchange(s, <<>>, <<m>>) /\ \A r \in Side : HeldStays(r)
  BY SaysExchanges
<1>2. /\ \A n : \A c \in Client : DownOf("event", n, c) \in Nat /\ UpOf("event", n, c) \in Nat
      /\ \A n : \A c \in Client : DownOf("event", n, c)' \in Nat /\ UpOf("event", n, c)' \in Nat
  BY SumsAreNat, SumsAreNatNext DEF SumsNext, Sums
<1>3. /\ \A n : CountIn(<<m>>, Numbered("event", n)) = 0
      /\ \A n, c : CountIn(<<m>>, NumberedFor("event", n, c)) = 0
      /\ \A T : CountIn(<<>>, T) = 0
  BY OtherKinds, CountNone
<1>4. ASSUME NEW n, NEW c \in Client
      PROVE  DownOf("event", n, c)' = DownOf("event", n, c) /\ UpOf("event", n, c)' = UpOf("event", n, c)
  <2>1. CASE s = Server
    <3>1. /\ UpOf("event", n, c) = UpOf("event", n, c)' + 0
          /\ DownOf("event", n, c)' = DownOf("event", n, c) + 0
      BY <1>1, <1>3, <2>1, ServerExchanges
    <3> QED BY <1>2, <3>1
  <2>2. CASE s # Server
    <3>1. s \in Client
      BY <2>2, EndsDiffer
    <3>2. /\ c # s => DownStays(c) /\ UpStays(c)
          /\ DownOf("event", n, s) = DownOf("event", n, s)' + 0
          /\ UpOf("event", n, s)' = UpOf("event", n, s) + 0
      BY <1>1, <1>3, <3>1, ClientExchanges
    <3> QED BY <1>2, <3>1, <3>2 DEF DownStays, UpStays
  <2> QED BY <2>1, <2>2
<1> QED BY <1>1, <1>4, SteadyFlows

\* A call and an answer are messages of their kinds.
LEMMA TalkIs ==
    ASSUME JoinInv, MessageInv, NEW s \in Side
    PROVE  /\ Answers(s) => \E x \in answering, asOf \in Nat :
                 /\ x.at = s /\ answering' = answering \ {x} /\ Says(s, Result(x.n, x.player, asOf))
                 /\ Result(x.n, x.player, asOf) \in Message
                 /\ UNCHANGED <<inVars, posted, report, wireVars, firings, acts, peer, join, calls, pending, failed>>
           /\ \A player : Calls(s, player) => \E asOf \in Nat :
                 /\ Says(s, Invoke(calls[s] + 1, player, asOf))
                 /\ Invoke(calls[s] + 1, player, asOf) \in Message
                 /\ calls' = [calls EXCEPT ![s] = calls[s] + 1] /\ calls[s] + 1 \in Nat
                 /\ pending' = pending \cup
                        {[by |-> s, n |-> calls[s] + 1, of |-> IF s = Server THEN player ELSE Server]}
                 /\ Runs(s) /\ acts' = acts + 1
                 /\ UNCHANGED <<inVars, posted, report, wireVars, firings, peer, join, answering, failed>>
<1>1. PICK asOf \in Nat : asOf = IF s = Server THEN made ELSE 0
  BY DEF JoinInv, JoiningTypes
<1>2. ASSUME Answers(s)
      PROVE  \E x \in answering : 
                 /\ x.at = s /\ answering' = answering \ {x} /\ Says(s, Result(x.n, x.player, asOf))
                 /\ Result(x.n, x.player, asOf) \in Message
                 /\ UNCHANGED <<inVars, posted, report, wireVars, firings, acts, peer, join, calls, pending, failed>>
  <2>1. PICK x \in answering : Answer(s, x, asOf)
    BY <1>1, <1>2 DEF Answers
  <2>2. x.n \in Nat /\ x.player \in Client \cup {Nobody}
    BY DEF MessageInv, MessageTypes, Answerer
  <2>3. Result(x.n, x.player, asOf) \in Message
    BY <2>2, Said
  <2>4. UNCHANGED <<inVars, posted, report, wireVars, firings, acts, peer, join, calls, pending, failed>>
    BY <1>2, <2>1 DEF Answers, Answer, Quiet, joiningVars, frameVars, hostVars
  <2> QED BY <2>1, <2>3, <2>4 DEF Answer
<1>3. ASSUME NEW player, Calls(s, player)
      PROVE  /\ Says(s, Invoke(calls[s] + 1, player, asOf))
             /\ Invoke(calls[s] + 1, player, asOf) \in Message
             /\ calls' = [calls EXCEPT ![s] = calls[s] + 1] /\ calls[s] + 1 \in Nat
             /\ pending' = pending \cup
                    {[by |-> s, n |-> calls[s] + 1, of |-> IF s = Server THEN player ELSE Server]}
             /\ Runs(s) /\ acts' = acts + 1
             /\ UNCHANGED <<inVars, posted, report, wireVars, firings, peer, join, answering, failed>>
  <2>1. player \in Client \cup {Nobody} /\ Call(s, player, asOf) /\ Acts(s) /\ UNCHANGED firings
    BY <1>1, <1>3 DEF Calls
  <2>2. calls[s] + 1 \in Nat
    BY DEF MessageInv, MessageTypes
  <2>3. Invoke(calls[s] + 1, player, asOf) \in Message
    BY <2>1, <2>2, Said
  <2>4. Runs(s) /\ acts' = acts + 1 /\ UNCHANGED <<posted, report, wireVars, peer, join>>
    BY <2>1 DEF Acts, Acting, hostVars
  <2> QED BY <2>1, <2>2, <2>3, <2>4 DEF Call
<1> QED BY <1>1, <1>2, <1>3

\* A step fires, or moves the firings there are.
LEMMA FlowsOrFires ==
    ASSUME JoinInv, MessageInv, MessageInv', MessageStep
    PROVE  \/ Flows /\ firings' = firings /\ acts' >= acts
           \/ \E s \in Side : \E player, for : Fires(s, player, for)
<1>1. acts \in Nat /\ (acts' = acts \/ Acting => acts' >= acts)
  BY DEF MessageInv, MessageTypes, Acting
<1>2. Steady => Flows
  BY SteadyFlows DEF Steady, DownStays, UpStays
<1>3. CASE \/ Still \/ Submits \/ FrameEnds
           \/ \E c \in Client : Posts(c) \/ Receives(c)
           \/ \E s \in Side : Stops(s) \/ Handing(s)
  <2>1. firings' = firings /\ (acts' = acts \/ Acting)
    BY <1>3 DEF Still, Submits, Submit, FrameEnds, EndFrame, Posts, Receives, Receive, Stops, Handing,
                Quiet, joiningVars, frameVars
  <2> QED BY <1>1, <1>2, <1>3, <2>1, SteadySteps
<1>4. CASE Applies
  <2>1. firings' = firings /\ acts' = acts
    BY <1>4 DEF Applies, ApplyServer, NoRemotes
  <2> QED BY <1>1, <1>4, <2>1, AppliesFlows
<1>5. ASSUME NEW c \in Client, Left(c) PROVE Flows /\ firings' = firings /\ acts' >= acts
  <2>1. firings' = firings /\ acts' = acts
    BY <1>5 DEF Left, Leave, Quiet, frameVars
  <2> QED BY <1>1, <1>5, <2>1, LeftFlows
<1>6. ASSUME NEW s \in Side, Delivery(s) PROVE Flows /\ firings' = firings /\ acts' >= acts
  <2>1. firings' = firings /\ acts' = acts
    BY <1>6 DEF Delivery, joiningVars, frameVars
  <2> QED BY <1>1, <1>6, <2>1, DeliveryFlows
<1>7. ASSUME NEW s \in Side, Answers(s) PROVE Flows /\ firings' = firings /\ acts' >= acts
  <2>1. PICK x \in answering, asOf \in Nat :
            /\ Says(s, Result(x.n, x.player, asOf)) /\ Result(x.n, x.player, asOf) \in Message
            /\ UNCHANGED <<inVars, posted, report, wireVars, firings, acts>>
    BY <1>7, TalkIs
  <2>2. Flows
    BY <2>1, SaysFlows, Said
  <2> QED BY <1>1, <2>1, <2>2
<1>8. ASSUME NEW s \in Side, NEW player, Calls(s, player) PROVE Flows /\ firings' = firings /\ acts' >= acts
  <2>1. PICK asOf \in Nat :
            /\ Says(s, Invoke(calls[s] + 1, player, asOf)) /\ Invoke(calls[s] + 1, player, asOf) \in Message
            /\ UNCHANGED <<inVars, posted, report, wireVars, firings>> /\ acts' = acts + 1
    BY <1>8, TalkIs
  <2>2. Flows
    BY <2>1, SaysFlows, Said
  <2> QED BY <1>1, <2>1, <2>2
<1>9. CASE FireAllClients \/ \E c \in Client : FireClient(c) \/ FireServer(c) \/ InvokeClient(c) \/ InvokeServer(c)
  <2>1. \E s \in Side : (\E player, for : Fires(s, player, for)) \/ (\E player : Calls(s, player))
    BY <1>9, Speaking, EndsDiffer
  <2> QED BY <1>8, <2>1
<1> QED BY <1>3, <1>4, <1>5, <1>6, <1>7, <1>9 DEF MessageStep

LEMMA StepFlow == JoinInv /\ ToldInv /\ MessageInv /\ FlowInv /\ [Next]_vars => FlowInv'
<1> SUFFICES ASSUME JoinInv, ToldInv, MessageInv, FlowInv, [Next]_vars PROVE FlowInv'
  OBVIOUS
<1>1. MessageStep /\ MessageInv'
  BY NextIsMessages, StepMessages
<1>2. GoesOn
  BY NextIsJoining, PresentStays DEF GoesOn
<1>3. CASE Flows /\ firings' = firings /\ acts' >= acts
  BY <1>1, <1>2, <1>3, FlowGoesOn
<1>4. ASSUME NEW s \in Side, NEW player, NEW for, Fires(s, player, for) PROVE FlowInv'
  BY <1>1, <1>4, FlowFires
<1> QED BY <1>1, <1>3, <1>4, FlowsOrFires

LEMMA InitFlow == Init => FlowInv
<1> SUFFICES ASSUME Init PROVE FlowInv
  OBVIOUS
<1> USE DEF Init, JoiningInit, RemotesInit
<1>1. \A T : CountIn(<<>>, T) = 0 /\ WireCount(<<>>, T) = 0
  BY CountNone, WireCountNone
<1>2. NoReport.remotes = <<>>
  BY DEF NoReport
<1>3. ASSUME NEW kind, NEW n, NEW c \in Client PROVE DownOf(kind, n, c) = 0 /\ UpOf(kind, n, c) = 0
  <2>1. CountIn(OnWire(c), Numbered(kind, n)) = WireCount(wire[c], Numbered(kind, n))
    BY OnWireIs DEF WireCount
  <2>2. DownOf(kind, n, c) = 0 + 0 + 0 + 0
    BY <1>1, <1>2, <2>1, EndsDiffer DEF DownOf
  <2>3. UpOf(kind, n, c) = 0 + 0 + 0
    BY <1>1, EndsDiffer DEF UpOf
  <2> QED BY <2>2, <2>3
<1>4. ASSUME NEW n, NEW s \in Side PROVE Held(n, s) = 0
  <2>1. Held(n, s) = 0 + 0 + 0
    BY <1>1 DEF Held
  <2> QED BY <2>1
<1>5. ASSUME NEW n PROVE Nowhere(n)
  <2>1. \A c \in Client : At(n, c) = 0 + 0 /\ UpOf("event", n, c) = 0
    BY <1>3, <1>4, EndsDiffer DEF At
  <2> QED BY <1>4, <2>1, EndsDiffer DEF Nowhere
<1> QED BY <1>5 DEF FlowInv

LEMMA FlowArrives ==
    ASSUME MessageInv, FlowInv
    PROVE  EachFiringArrives
<1> SUFFICES ASSUME NEW f \in firings, NEW s \in Side
             PROVE  /\ Copies(f, s) <= IF MeantFor(f, s) THEN 1 ELSE 0
                    /\ s \in f.for /\ (s = Server \/ peer[s] # "gone") /\ (f.by = Server \/ peer[f.by] # "gone")
                           => Copies(f, s) = 1
  BY DEF EachFiringArrives
<1>1. ToPlayers(f) \/ ToServer(f)
  BY DEF FlowInv
<1>2. /\ \A c \in Client : At(f.n, c) \in Nat /\ UpOf("event", f.n, c) \in Nat
      /\ \A r \in Side : Held(f.n, r) \in Nat
  BY FlowNat
<1>3. CASE s # Server
  <2>1. s \in Client
    BY <1>3, EndsDiffer
  <2>2. Copies(f, s) = Held(f.n, s) + DownOf("event", f.n, s)
    BY <1>3, <2>1, HeldIs, DownAndUp DEF Copies
  <2>3. Copies(f, s) = At(f.n, s)
    BY <2>2 DEF At
  <2>4. CASE ToPlayers(f)
    BY <1>3, <2>1, <2>3, <2>4 DEF ToPlayers, MeantFor
  <2>5. CASE ToServer(f)
    <3>1. f.by # Server /\ s \notin f.for /\ Copies(f, s) = 0
      BY <1>3, <2>1, <2>3, <2>5, EndsDiffer DEF ToServer
    <3> QED BY <1>3, <3>1 DEF MeantFor
  <2> QED BY <1>1, <2>4, <2>5
<1>4. CASE s = Server
  <2>1. CASE ToPlayers(f)
    <3>1. f.by = Server /\ s \notin f.for
      BY <1>4, <2>1, EndsDiffer DEF ToPlayers
    <3>2. Copies(f, s) = Held(f.n, s) + 0
      BY <1>4, <3>1, HeldIs DEF Copies
    <3>3. Held(f.n, s) = 0
      BY <1>4, <2>1 DEF ToPlayers
    <3> QED BY <1>4, <3>1, <3>2, <3>3 DEF MeantFor
  <2>2. CASE ToServer(f)
    <3>1. f.by \in Client /\ f.by # Server
      BY <2>2, EndsDiffer DEF ToServer
    <3>2. Copies(f, s) = Held(f.n, s) + UpOf("event", f.n, f.by)
      BY <1>4, <3>1, HeldIs, DownAndUp DEF Copies
    <3> QED BY <1>4, <2>2, <3>1, <3>2 DEF ToServer, MeantFor
  <2> QED BY <1>1, <2>1, <2>2
<1> QED BY <1>3, <1>4

(***************************************************************************)
(* A firing is, at any time, in exactly one place on the way to each Player  *)
(* it was for whose client is still there, and never with another: packets,  *)
(* queues and frames neither lose nor repeat one, around joins and leaves. *)
(***************************************************************************)
THEOREM FiringsArrive == Spec => []EachFiringArrives
<1>1. Init => JoinInv /\ ToldInv /\ MessageInv /\ FlowInv
  BY InitInv, InitTold, InitMessages, InitFlow
<1>2. JoinInv /\ ToldInv /\ MessageInv /\ FlowInv /\ [Next]_vars => (JoinInv /\ ToldInv /\ MessageInv /\ FlowInv)'
  BY StepInv, StepTold, StepMessages, StepFlow
<1>3. MessageInv /\ FlowInv => EachFiringArrives
  BY FlowArrives
<1> QED BY <1>1, <1>2, <1>3, PTL DEF Spec
-----------------------------------------------------------------------------
(***************************************************************************)
(* Calls.  Whose a call or a result is, on each list: that of the client   *)
(* whose list it is, and the server's own lists name a client for each.    *)
(***************************************************************************)
Directed ==
    /\ \A m \in Range(outbox[Server]) \cup Range(report.remotes) : m.kind = "event" \/ m.player \in Client
    /\ \A c \in Client : \A m \in Range(inbox[c]) : m.kind = "event" \/ m.player = c
    /\ \A c \in Client : \A p \in Range(wire[c]) : \A m \in Range(p.remotes) : m.kind = "event" \/ m.player = c
    /\ \A x \in answering : x.player \in Client /\ x.at \in {Server, x.player}
    /\ failed \subseteq Answerer

LEMMA DirectedShrinks ==
    ASSUME MessageInv, Directed, report' = report, Range(outbox'[Server]) \subseteq Range(outbox[Server]),
           \A c \in Client : /\ Range(inbox'[c]) \subseteq Range(inbox[c])
                             /\ Range(wire'[c]) \subseteq Range(wire[c]),
           answering' \subseteq answering, failed' \subseteq failed \cup answering
    PROVE  Directed'
<1>1. failed' \subseteq Answerer
  BY DEF Directed, MessageInv, MessageTypes
<1>2. \A x \in answering' : x.player \in Client /\ x.at \in {Server, x.player}
  BY DEF Directed
<1> QED BY <1>1, <1>2 DEF Directed

LEMMA SentFor ==
    ASSUME JoinInv, MessageInv, NEW c \in Client, NEW p \in Range(Sent(c)), NEW m \in Range(p.remotes)
    PROVE  m \in Range(report.remotes) /\ m.player \in {Nobody, c}
<1>1. /\ report.from \in Int /\ report.to \in Int /\ report.remotes \in Seq(Message)
      /\ join.before \in Int /\ join.asOf \in Int
  <2>1. report.from \in Int /\ report.to \in Int /\ report.remotes \in Seq(Message)
    BY DEF MessageInv, MessageTypes, PacketType
  <2> QED BY <2>1 DEF JoinInv, JoiningTypes
<1>2. /\ RemotesFor(c) \in Seq(Message)
      /\ \A t \in Range(RemotesFor(c)) : t \in Range(report.remotes) /\ t.player \in {Nobody, c}
  <2> DEFINE T == {t \in Range(report.remotes) : t.player \in {Nobody, c}}
  <2>1. /\ Within(report.remotes, T) \in Seq(Message)
        /\ ToSet(Within(report.remotes, T)) = ToSet(report.remotes) \cap T
    BY <1>1, WithinSet
  <2>2. \A s : ToSet(s) = Range(s)
    BY DEF ToSet, Range
  <2>3. RemotesFor(c) = Within(report.remotes, T)
    BY DEF RemotesFor, For
  <2> QED BY <2>1, <2>2, <2>3
<1>3. Range(<<>>) = {} /\ \A q : Range(<<q>>) = {q}
  BY DEF Range
<1>4. ASSUME NEW from \in Int, p \in Range(Flush(from, report.to, RemotesFor(c)))
      PROVE  p.remotes = RemotesFor(c)
  <2>1. p = Packet(from, report.to, RemotesFor(c))
    BY <1>3, <1>4 DEF Flush
  <2> QED BY <2>1 DEF Packet
<1>5. CASE Welcomes(c)
  <2> DEFINE w == Packet(-1, join.asOf, <<>>)
             fl == Flush(report.from, report.to, RemotesFor(c))
  <2>1. Sent(c) = <<w>> \o fl
    BY <1>5 DEF Sent
  <2>2. fl \in Seq(PacketType) /\ w \in PacketType
    <3>1. <<>> \in Seq(Message) /\ -1 \in Int
      OBVIOUS
    <3> QED BY <1>1, <1>2, <3>1, FlushType
  <2>3. w.remotes = <<>>
    BY DEF Packet
  <2> HIDE DEF w, fl
  <2>4. <<w>> \in Seq(PacketType)
    BY <2>2
  <2>5. p \in Range(<<w>>) \cup Range(fl)
    BY <2>1, <2>2, <2>4, Joined
  <2>6. p = w \/ p \in Range(fl)
    BY <1>3, <2>5
  <2>7. CASE p = w
    BY <1>3, <2>3, <2>7
  <2>8. CASE p \in Range(fl)
    BY <1>1, <1>2, <1>4, <2>8 DEF fl
  <2> QED BY <2>6, <2>7, <2>8
<1>6. CASE peer[c] = "joined" /\ ~Welcomes(c)
  <2>1. PICK from \in Int : Sent(c) = Flush(from, report.to, RemotesFor(c))
    BY <1>1, <1>6 DEF Sent
  <2> QED BY <1>2, <1>4, <2>1
<1>7. CASE peer[c] # "joined" /\ ~Welcomes(c)
  <2>1. Sent(c) = <<>>
    BY <1>7 DEF Sent
  <2> QED BY <1>3, <2>1
<1> QED BY <1>5, <1>6, <1>7

LEMMA DirectedSaid ==
    ASSUME MessageInv, Directed, NEW s \in Side, NEW m \in Message, Says(s, m), UNCHANGED <<report, wire>>,
           s = Server => m.kind = "event" \/ m.player \in Client,
           \A c \in Client : Range(inbox'[c]) \subseteq Range(inbox[c]),
           answering' \subseteq answering, failed' = failed
    PROVE  Directed'
<1>1. outbox[Server] \in Seq(Message)
  BY EndsDiffer DEF MessageInv, MessageTypes
<1>2. outbox'[Server] = IF s = Server THEN Append(outbox[Server], m) ELSE outbox[Server]
  BY EndsDiffer DEF Says, MessageInv, MessageTypes
<1>3. Range(Append(outbox[Server], m)) = Range(outbox[Server]) \cup {m}
  BY <1>1, Appended
<1>4. \A t \in Range(outbox'[Server]) : t.kind = "event" \/ t.player \in Client
  BY <1>2, <1>3 DEF Directed
<1>5. \A x \in answering' : x.player \in Client /\ x.at \in {Server, x.player}
  BY DEF Directed
<1> QED BY <1>4, <1>5 DEF Directed

LEMMA DirectedDelivered ==
    ASSUME JoinInv, MessageInv, Directed, NEW s \in Side, Delivery(s)
    PROVE  Directed'
<1> DEFINE m == Head(inbox[s])
           a == Result(m.n, m.player, IF s = Server THEN made ELSE 0)
           x == [at |-> s, n |-> m.n, player |-> m.player]
<1>1. /\ inbox[s] # <<>> /\ m \in Message /\ inbox' = [inbox EXCEPT ![s] = Tail(@)]
      /\ UNCHANGED <<report, wire>> /\ (s = Server => m.player \in Client)
  BY DeliveryTakes DEF joiningVars, frameVars, wireVars
<1>2. m \in Range(inbox[s]) /\ Range(Tail(inbox[s])) \subseteq Range(inbox[s])
  <2>1. inbox[s] \in Seq(Message)
    BY DEF MessageInv, MessageTypes
  <2> QED BY <1>1, <2>1, Taken
<1>3. \/ outbox' = outbox /\ answering' = answering
      \/ m.kind = "invoke" /\ outbox' = outbox /\ answering' = answering \cup {x}
      \/ m.kind = "invoke" /\ Says(s, a) /\ answering' = answering
  BY DEF Delivery, Deliver, DeliverEvent, DeliverInvoke, DeliverResult, Delivers, callVars
<1>4. failed' = failed
  BY DEF Delivery, Deliver, DeliverEvent, DeliverInvoke, DeliverResult, callVars
<1>5. a \in Message /\ a.player = m.player
  <2>1. (IF s = Server THEN made ELSE 0) \in Nat
    BY DEF JoinInv, JoiningTypes
  <2>2. m.n \in Nat /\ m.player \in Client \cup {Nobody}
    BY <1>1 DEF Message
  <2> HIDE DEF m
  <2> QED BY <2>1, <2>2, Said
<1>6. x.at = s /\ x.player = m.player
  OBVIOUS
<1> HIDE DEF m, a, x
<1>7. \A c \in Client : Range(inbox'[c]) \subseteq Range(inbox[c]) /\ Range(wire'[c]) \subseteq Range(wire[c])
  BY <1>1, <1>2, EndsDiffer DEF MessageInv, MessageTypes
<1>8. m.kind = "invoke" => m.player \in Client /\ s \in {Server, m.player}
  BY <1>1, <1>2, EndsDiffer DEF Directed
<1>9. CASE outbox' = outbox /\ answering' = answering
  BY <1>1, <1>4, <1>7, <1>9, DirectedShrinks
<1>10. CASE m.kind = "invoke" /\ outbox' = outbox /\ answering' = answering \cup {x}
  <2>1. \A z \in answering' : z.player \in Client /\ z.at \in {Server, z.player}
    BY <1>6, <1>8, <1>10 DEF Directed
  <2> QED BY <1>1, <1>4, <1>7, <1>10, <2>1 DEF Directed
<1>11. CASE m.kind = "invoke" /\ Says(s, a) /\ answering' = answering
  BY <1>1, <1>4, <1>5, <1>7, <1>8, <1>11, DirectedSaid
<1> QED BY <1>3, <1>9, <1>10, <1>11

LEMMA DirectedReceived ==
    ASSUME MessageInv, Directed, NEW c \in Client, Receives(c)
    PROVE  Directed'
<1> DEFINE p == Head(wire[c])
<1>1. /\ wire[c] # <<>> /\ wire' = [wire EXCEPT ![c] = Tail(@)]
      /\ inbox' = [inbox EXCEPT ![c] = @ \o p.remotes]
      /\ UNCHANGED <<outbox, report, answering, failed>>
  BY DEF Receives, Receive, frameVars, callVars
<1>2. wire[c] \in Seq(PacketType) /\ inbox[c] \in Seq(Message)
  BY EndsDiffer DEF MessageInv, MessageTypes
<1>3. p \in PacketType /\ Range(wire[c]) = Range(Tail(wire[c])) \cup {p}
  BY <1>1, <1>2, Taken
<1> HIDE DEF p
<1>4. Range(inbox[c] \o p.remotes) = Range(inbox[c]) \cup Range(p.remotes)
  BY <1>2, <1>3, Joined DEF PacketType
<1>5. \A d \in Client : /\ wire'[d] = IF d = c THEN Tail(wire[c]) ELSE wire[d]
                        /\ inbox'[d] = IF d = c THEN inbox[c] \o p.remotes ELSE inbox[d]
  BY <1>1, EndsDiffer DEF MessageInv, MessageTypes
<1>6. \A d \in Client : \A m \in Range(inbox'[d]) : m.kind = "event" \/ m.player = d
  BY <1>3, <1>4, <1>5 DEF Directed
<1>7. \A d \in Client : \A q \in Range(wire'[d]) : \A m \in Range(q.remotes) : m.kind = "event" \/ m.player = d
  BY <1>3, <1>5 DEF Directed
<1> QED BY <1>1, <1>6, <1>7 DEF Directed

LEMMA DirectedApplied ==
    ASSUME JoinInv, MessageInv, Directed, Applies
    PROVE  Directed'
<1>1. UNCHANGED <<outbox, inbox, answering, failed>> /\ report' = NoReport /\ ApplyServer
  BY DEF Applies, ApplyServer, NoRemotes, remoteVars, inVars, callVars
<1>2. Range(report'.remotes) = {}
  BY <1>1 DEF NoReport, Range
<1>3. ASSUME NEW c \in Client, NEW p \in Range(wire'[c]), NEW m \in Range(p.remotes)
      PROVE  m.kind = "event" \/ m.player = c
  <2>1. CASE p \in Range(wire[c])
    BY <1>3, <2>1 DEF Directed
  <2>2. CASE p \in Range(Sent(c))
    <3>1. m \in Range(report.remotes) /\ m.player \in {Nobody, c}
      BY <1>3, <2>2, SentFor
    <3> QED BY <3>1, EndsDiffer DEF Directed
  <2> QED BY <1>1, <1>3, <2>1, <2>2, WireApplied
<1> QED BY <1>1, <1>2, <1>3 DEF Directed

LEMMA StepDirected == JoinInv /\ MessageInv /\ Directed /\ [Next]_vars => Directed'
<1> SUFFICES ASSUME JoinInv, MessageInv, Directed, [Next]_vars PROVE Directed'
  OBVIOUS
<1>1. MessageStep
  BY NextIsMessages
<1>2. ASSUME UNCHANGED <<inbox, outbox, report, wire>>,
             answering' \subseteq answering, failed' \subseteq failed \cup answering
      PROVE  Directed'
  BY <1>2, DirectedShrinks
<1>3. CASE Still \/ \E s \in Side : Stops(s) \/ Handing(s)
  <2>1. UNCHANGED <<inbox, outbox, report, wire>>
    BY <1>3 DEF Still, Stops, Handing, HandOver, inVars, wireVars
  <2>2. answering' \subseteq answering /\ failed' \subseteq failed \cup answering
    BY <1>3 DEF Still, Stops, Handing, HandOver, StopCaller, StopAnswerer, callVars
  <2> QED BY <1>2, <2>1, <2>2
<1>4. Range(<<>>) = {}
  BY DEF Range
<1>5. ASSUME NEW c \in Client, Left(c) PROVE Directed'
  <2>1. /\ inbox' = [inbox EXCEPT ![c] = <<>>] /\ outbox' = [outbox EXCEPT ![c] = <<>>]
        /\ wire' = [wire EXCEPT ![c] = <<>>] /\ UNCHANGED <<report, failed>> /\ answering' \subseteq answering
    BY <1>5 DEF Left, Leave, Closes, frameVars
  <2>2. outbox'[Server] = outbox[Server]
    BY <2>1, EndsDiffer DEF MessageInv, MessageTypes
  <2>3. \A d \in Client : Range(inbox'[d]) \subseteq Range(inbox[d]) /\ Range(wire'[d]) \subseteq Range(wire[d])
    BY <1>4, <2>1, EndsDiffer DEF MessageInv, MessageTypes
  <2> QED BY <2>1, <2>2, <2>3, DirectedShrinks
<1>6. ASSUME NEW c \in Client, Posts(c) PROVE Directed'
  <2>1. outbox' = [outbox EXCEPT ![c] = Tail(@)] /\ UNCHANGED <<inbox, report, wire, answering, failed>>
    BY <1>6 DEF Posts, joiningVars, frameVars, wireVars, inVars, callVars
  <2>2. outbox'[Server] = outbox[Server]
    BY <2>1, EndsDiffer DEF MessageInv, MessageTypes
  <2> QED BY <2>1, <2>2, DirectedShrinks
<1>7. CASE Submits
  <2>1. /\ inbox' = [inbox EXCEPT ![Server] = posted] /\ UNCHANGED <<outbox, report, wire, answering, failed>>
    BY <1>7 DEF Submits, Submit, callVars, wireVars
  <2>2. \A c \in Client : inbox'[c] = inbox[c]
    BY <2>1, EndsDiffer DEF MessageInv, MessageTypes
  <2> QED BY <2>1, <2>2, DirectedShrinks
<1>8. CASE FrameEnds
  <2>1. /\ report'.remotes = outbox[Server] /\ outbox' = [outbox EXCEPT ![Server] = <<>>]
        /\ UNCHANGED <<inbox, wire, answering, failed>>
    BY <1>8 DEF FrameEnds, EndFrame, inVars, wireVars, callVars
  <2>2. outbox'[Server] = <<>>
    BY <2>1, EndsDiffer DEF MessageInv, MessageTypes
  <2> QED BY <1>4, <2>1, <2>2 DEF Directed
<1>9. ASSUME NEW c \in Client, Receives(c) PROVE Directed'
  BY <1>9, DirectedReceived
<1>10. ASSUME NEW s \in Side, Delivery(s) PROVE Directed'
  BY <1>10, DirectedDelivered
<1>11. ASSUME NEW s \in Side, Answers(s) PROVE Directed'
  <2>1. PICK x \in answering, asOf \in Nat :
            /\ answering' = answering \ {x} /\ Says(s, Result(x.n, x.player, asOf))
            /\ Result(x.n, x.player, asOf) \in Message /\ UNCHANGED <<inVars, report, wireVars, failed>>
    BY <1>11, TalkIs
  <2>2. Result(x.n, x.player, asOf).player \in Client
    BY Said DEF Directed
  <2> QED BY <2>1, <2>2, DirectedSaid DEF inVars, wireVars
<1>12. ASSUME NEW s \in Side, NEW player, Calls(s, player) PROVE Directed'
  <2>1. PICK asOf \in Nat :
            /\ Says(s, Invoke(calls[s] + 1, player, asOf)) /\ Invoke(calls[s] + 1, player, asOf) \in Message
            /\ UNCHANGED <<inVars, report, wireVars, answering, failed>>
    BY <1>12, TalkIs
  <2>2. s = Server => Invoke(calls[s] + 1, player, asOf).player \in Client
    BY <1>12, Said DEF Calls
  <2> QED BY <2>1, <2>2, DirectedSaid DEF inVars, wireVars
<1>13. ASSUME NEW s \in Side, NEW player, NEW for, Fires(s, player, for) PROVE Directed'
  <2>1. /\ Acts(s) /\ player \in Client \cup {Nobody}
        /\ Fire(s, acts', player, IF s = Server THEN made ELSE 0)
    BY <1>13 DEF Fires, FiresTo
  <2>2. acts' \in Nat /\ (IF s = Server THEN made ELSE 0) \in Nat
    <3>1. acts' = acts + 1
      BY <2>1 DEF Acts, Acting
    <3> QED BY <3>1 DEF MessageInv, MessageTypes, JoinInv, JoiningTypes
  <2> DEFINE e == Event(acts', player, IF s = Server THEN made ELSE 0)
  <2>3. e \in Message /\ e.kind = "event"
    BY <2>1, <2>2, Said
  <2>4. Says(s, e) /\ UNCHANGED <<inbox, report, wire, answering, failed>>
    BY <2>1 DEF Fire, Acts, inVars, callVars, wireVars
  <2> HIDE DEF e
  <2> QED BY <2>3, <2>4, DirectedSaid
<1>14. CASE FireAllClients \/ \E c \in Client : FireClient(c) \/ FireServer(c) \/ InvokeClient(c) \/ InvokeServer(c)
  <2>1. \E s \in Side : (\E player, for : Fires(s, player, for)) \/ (\E player : Calls(s, player))
    BY <1>14, Speaking, EndsDiffer
  <2> QED BY <1>12, <1>13, <2>1
<1>15. CASE Applies
  BY <1>15, DirectedApplied
<1> QED BY <1>1, <1>3, <1>5, <1>6, <1>7, <1>8, <1>9, <1>10, <1>11, <1>14, <1>15 DEF MessageStep
-----------------------------------------------------------------------------
(***************************************************************************)
(* The routes.  A call of the client c, or of the server of it, that the end *)
(* s answers is on its way to s, with a thread of s, or its result is on its *)
(* way to the end that asked.                                              *)
(***************************************************************************)
Asker(s, c) == IF s = Server THEN c ELSE Server
To(s, kind, n, c) == IF s = Server THEN UpOf(kind, n, c) ELSE DownOf(kind, n, c)
Thread(s, n, c) == [at |-> s, n |-> n, player |-> c]
Busy(s, n, c) == One(Thread(s, n, c), answering) + One(Thread(s, n, c), failed)
Route(s, n, c) == To(s, "invoke", n, c) + Busy(s, n, c) + To(Asker(s, c), "result", n, c)

RoutesInv ==
    /\ \A c \in Client : \A s \in {Server, c} : \A n \in Nat :
          Route(s, n, c) <= 1 /\ (n > calls[Asker(s, c)] => Route(s, n, c) = 0)
    /\ \A p \in pending : \E c \in Client : \E s \in {Server, c} :
          /\ p.of = s /\ p.by = Asker(s, c) /\ p.n \in Nat /\ p.n <= calls[p.by]
          /\ Present(c) /\ (peer[c] # "gone" => Route(s, p.n, c) = 1)

LEMMA RouteParts ==
    ASSUME MessageInv, NEW c \in Client, NEW s \in {Server, c}, NEW n
    PROVE  /\ To(s, "invoke", n, c) \in Nat /\ To(Asker(s, c), "result", n, c) \in Nat
           /\ Busy(s, n, c) \in {0, 1, 2} /\ Route(s, n, c) \in Nat
           /\ Asker(s, c) \in {Server, c} /\ Asker(s, c) # s /\ Asker(Asker(s, c), c) = s
<1>1. /\ DownOf("invoke", n, c) \in Nat /\ UpOf("invoke", n, c) \in Nat
      /\ DownOf("result", n, c) \in Nat /\ UpOf("result", n, c) \in Nat
  BY SumsAreNat
<1>2. Busy(s, n, c) \in {0, 1, 2}
  <2>1. One(Thread(s, n, c), answering) \in {0, 1} /\ One(Thread(s, n, c), failed) \in {0, 1}
    BY OneIs
  <2> QED BY <2>1 DEF Busy
<1>3. To(s, "invoke", n, c) \in Nat /\ To(Asker(s, c), "result", n, c) \in Nat
  BY <1>1 DEF To
<1>4. Asker(s, c) \in {Server, c} /\ Asker(s, c) # s /\ Asker(Asker(s, c), c) = s
  BY EndsDiffer DEF Asker
<1> QED BY <1>2, <1>3, <1>4 DEF Route

RoutesAreNat ==
    \A c \in Client : \A s \in {Server, c} : \A n :
        To(s, "invoke", n, c) \in Nat /\ To(s, "result", n, c) \in Nat /\ Route(s, n, c) \in Nat

LEMMA RoutesAreNatNow == MessageInv => RoutesAreNat
<1> SUFFICES ASSUME MessageInv, NEW c \in Client, NEW s \in {Server, c}, NEW n
             PROVE To(s, "invoke", n, c) \in Nat /\ To(s, "result", n, c) \in Nat /\ Route(s, n, c) \in Nat
  BY DEF RoutesAreNat
<1>1. Asker(s, c) \in {Server, c} /\ Asker(Asker(s, c), c) = s
  BY RouteParts
<1> QED BY <1>1, RouteParts

LEMMA RoutesAreNatNext == MessageInv' => RoutesAreNat'
BY RoutesAreNatNow, PTL

\* A step that asks nothing: a route goes on, ends with its result, or with its client.
RoutesGoOn ==
    \A c \in Client : \A s \in {Server, c} : \A n \in Nat :
        /\ Route(s, n, c)' <= Route(s, n, c)
        /\ Present(c) /\ peer'[c] # "gone" =>
              \/ Route(s, n, c)' = Route(s, n, c)
              \/ \A p \in pending' : ~(p.by = Asker(s, c) /\ p.n = n)

LEMMA RoutesKept ==
    ASSUME MessageInv, MessageInv', RoutesInv, RoutesGoOn, GoesOn, pending' \subseteq pending, calls' = calls
    PROVE  RoutesInv'
<1>1. ASSUME NEW c \in Client, NEW s \in {Server, c}, NEW n \in Nat
      PROVE  Route(s, n, c)' <= 1 /\ (n > calls'[Asker(s, c)] => Route(s, n, c)' = 0)
  <2>1. Route(s, n, c)' \in Nat /\ Route(s, n, c) \in Nat /\ Route(s, n, c)' <= Route(s, n, c)
    BY RoutesAreNatNow, RoutesAreNatNext DEF RoutesAreNat, RoutesGoOn
  <2>2. Route(s, n, c) <= 1 /\ (n > calls[Asker(s, c)] => Route(s, n, c) = 0)
    BY DEF RoutesInv
  <2> QED BY <2>1, <2>2
<1>2. ASSUME NEW p \in pending'
      PROVE  \E c \in Client : \E s \in {Server, c} :
                 /\ p.of = s /\ p.by = Asker(s, c) /\ p.n \in Nat /\ p.n <= calls'[p.by]
                 /\ Present(c)' /\ (peer'[c] # "gone" => Route(s, p.n, c)' = 1)
  <2>4. PICK c \in Client : \E s \in {Server, c} :
            /\ p.of = s /\ p.by = Asker(s, c) /\ p.n \in Nat /\ p.n <= calls[p.by]
            /\ Present(c) /\ (peer[c] # "gone" => Route(s, p.n, c) = 1)
    BY DEF RoutesInv
  <2>1. PICK s \in {Server, c} :
            /\ p.of = s /\ p.by = Asker(s, c) /\ p.n \in Nat /\ p.n <= calls[p.by]
            /\ Present(c) /\ (peer[c] # "gone" => Route(s, p.n, c) = 1)
    BY <2>4
  <2>2. Present(c)' /\ (peer[c] = "gone" => peer'[c] = "gone")
    BY <2>1 DEF GoesOn
  <2>3. ASSUME peer'[c] # "gone" PROVE Route(s, p.n, c)' = 1
    <3>1. \/ Route(s, p.n, c)' = Route(s, p.n, c)
          \/ \A q \in pending' : ~(q.by = Asker(s, c) /\ q.n = p.n)
      BY <2>1, <2>3 DEF RoutesGoOn
    <3> QED BY <2>1, <2>2, <2>3, <3>1
  <2> QED BY <2>1, <2>2, <2>3
<1>3. \A c \in Client : \A s \in {Server, c} : Asker(s, c)' = Asker(s, c)
  BY DEF Asker
<1> QED BY <1>1, <1>2, <1>3 DEF RoutesInv

\* Where the lists stay and no thread answers or is asked.
LEMMA RoutesStay ==
    ASSUME MessageInv, Steady, answering' = answering, failed' = failed
    PROVE  RoutesGoOn
<1> SUFFICES ASSUME NEW c \in Client, NEW s \in {Server, c}, NEW n \in Nat
             PROVE  Route(s, n, c)' = Route(s, n, c) /\ Route(s, n, c)' <= Route(s, n, c)
  BY DEF RoutesGoOn
<1>1. Route(s, n, c) \in Nat
  BY RouteParts
<1>2. \A kind : UpOf(kind, n, c)' = UpOf(kind, n, c) /\ DownOf(kind, n, c)' = DownOf(kind, n, c)
  BY DEF Steady, UpStays, DownStays
<1>3. \A r \in {Server, c} : \A kind : To(r, kind, n, c)' = To(r, kind, n, c)
  BY <1>2 DEF To
<1>4. Busy(s, n, c)' = Busy(s, n, c)
  BY DEF Busy
<1>5. Asker(s, c) \in {Server, c}
  BY RouteParts
<1>6. Route(s, n, c)' = Route(s, n, c)
  BY <1>3, <1>4, <1>5 DEF Route, Asker
<1> QED BY <1>1, <1>6

\* The thread that answers is stopped: it is counted once, as before.
LEMMA RoutesStopped ==
    ASSUME MessageInv, RoutesInv, Steady, NEW t \in Side, StopAnswerer(t)
    PROVE  RoutesGoOn
<1> SUFFICES ASSUME NEW c \in Client, NEW s \in {Server, c}, NEW n \in Nat
             PROVE  Route(s, n, c)' = Route(s, n, c) /\ Route(s, n, c)' <= Route(s, n, c)
  BY DEF RoutesGoOn
<1>1. PICK x \in answering : answering' = answering \ {x} /\ failed' = failed \cup {x}
  BY DEF StopAnswerer
<1>2. /\ Route(s, n, c) \in Nat /\ Route(s, n, c) <= 1
      /\ To(s, "invoke", n, c) \in Nat /\ To(Asker(s, c), "result", n, c) \in Nat
      /\ Busy(s, n, c) \in {0, 1, 2}
  BY RouteParts DEF RoutesInv
<1>3. \A kind : UpOf(kind, n, c)' = UpOf(kind, n, c) /\ DownOf(kind, n, c)' = DownOf(kind, n, c)
  BY DEF Steady, UpStays, DownStays
<1>4. \A r \in {Server, c} : \A kind : To(r, kind, n, c)' = To(r, kind, n, c)
  BY <1>3 DEF To
<1>5. Busy(s, n, c) <= 1
  BY <1>2 DEF Route
<1>6. Busy(s, n, c)' = Busy(s, n, c)
  BY <1>1, <1>5 DEF Busy, One
<1>7. Asker(s, c) \in {Server, c}
  BY RouteParts
<1>8. Route(s, n, c)' = Route(s, n, c)
  BY <1>4, <1>6, <1>7 DEF Route, Asker
<1> QED BY <1>2, <1>8

LEMMA RoutesApplied ==
    ASSUME JoinInv, MessageInv, MessageInv', Applies
    PROVE  RoutesGoOn
<1> SUFFICES ASSUME NEW c \in Client, NEW s \in {Server, c}, NEW n \in Nat
             PROVE  /\ Route(s, n, c)' <= Route(s, n, c)
                    /\ Present(c) /\ peer'[c] # "gone" => Route(s, n, c)' = Route(s, n, c)
  BY DEF RoutesGoOn
<1>1. UNCHANGED <<answering, failed>>
  BY DEF Applies, NoRemotes, remoteVars, callVars
<1>2. \A kind : /\ UpOf(kind, n, c)' = UpOf(kind, n, c) /\ DownOf(kind, n, c)' <= DownOf(kind, n, c)
                /\ peer'[c] = "joined" => DownOf(kind, n, c)' = DownOf(kind, n, c)
  BY CountsApplied DEF UpStays, DownStays
<1>3. Present(c) /\ peer'[c] # "gone" => peer'[c] = "joined"
  BY PresentIsTold DEF Applies
<1>4. \A kind : UpOf(kind, n, c) \in Nat /\ DownOf(kind, n, c) \in Nat /\ DownOf(kind, n, c)' \in Nat
  BY SumsAreNat, SumsAreNatNext DEF SumsNext, Sums
<1>5. \A r \in {Server, c} : \A kind :
          /\ To(r, kind, n, c) \in Nat /\ To(r, kind, n, c)' \in Nat
          /\ To(r, kind, n, c)' <= To(r, kind, n, c)
          /\ peer'[c] = "joined" => To(r, kind, n, c)' = To(r, kind, n, c)
  BY <1>2, <1>4 DEF To
<1>6. Busy(s, n, c)' = Busy(s, n, c) /\ Busy(s, n, c) \in {0, 1, 2}
  BY <1>1, RouteParts DEF Busy
<1>7. Asker(s, c) \in {Server, c} /\ Asker(s, c)' = Asker(s, c)
  BY RouteParts DEF Asker
<1>8. /\ Route(s, n, c) = To(s, "invoke", n, c) + Busy(s, n, c) + To(Asker(s, c), "result", n, c)
      /\ Route(s, n, c)' = To(s, "invoke", n, c)' + Busy(s, n, c)' + To(Asker(s, c), "result", n, c)'
  BY <1>7 DEF Route
<1> QED BY <1>3, <1>5, <1>6, <1>7, <1>8

LEMMA RoutesLeft ==
    ASSUME JoinInv, MessageInv, MessageInv', NEW d \in Client, Left(d)
    PROVE  RoutesGoOn
<1> SUFFICES ASSUME NEW c \in Client, NEW s \in {Server, c}, NEW n \in Nat
             PROVE  /\ Route(s, n, c)' <= Route(s, n, c)
                    /\ Present(c) /\ peer'[c] # "gone" => Route(s, n, c)' = Route(s, n, c)
  BY DEF RoutesGoOn
<1>1. failed' = failed /\ answering' = {x \in answering : x.at # d} /\ peer'[d] = "gone"
  BY DEF Left, Closes, Leave, JoinInv, JoiningTypes
<1>2. \A kind : UpOf(kind, n, c)' <= UpOf(kind, n, c) /\ DownOf(kind, n, c)' <= DownOf(kind, n, c)
  <2>1. \A kind : UpOf(kind, n, c) \in Nat /\ DownOf(kind, n, c) \in Nat
    BY SumsAreNat
  <2> QED BY <2>1, CountsLeft DEF UpStays, DownStays
<1>3. c # d => \A kind : UpOf(kind, n, c)' = UpOf(kind, n, c) /\ DownOf(kind, n, c)' = DownOf(kind, n, c)
  BY CountsLeft DEF UpStays, DownStays
<1>4. \A kind : /\ UpOf(kind, n, c) \in Nat /\ DownOf(kind, n, c) \in Nat
                /\ UpOf(kind, n, c)' \in Nat /\ DownOf(kind, n, c)' \in Nat
  BY SumsAreNat, SumsAreNatNext DEF SumsNext, Sums
<1>5. \A r \in {Server, c} : \A kind :
          /\ To(r, kind, n, c) \in Nat /\ To(r, kind, n, c)' \in Nat
          /\ To(r, kind, n, c)' <= To(r, kind, n, c)
          /\ c # d => To(r, kind, n, c)' = To(r, kind, n, c)
  BY <1>2, <1>3, <1>4 DEF To
<1>6. /\ Busy(s, n, c) \in {0, 1, 2} /\ Busy(s, n, c)' \in {0, 1, 2} /\ Busy(s, n, c)' <= Busy(s, n, c)
      /\ c # d => Busy(s, n, c)' = Busy(s, n, c)
  <2>1. Thread(s, n, c).at = s /\ (c # d => s # d)
    BY EndsDiffer DEF Thread
  <2>2. /\ One(Thread(s, n, c), answering) \in {0, 1} /\ One(Thread(s, n, c), failed) \in {0, 1}
        /\ One(Thread(s, n, c), answering') \in {0, 1}
    BY OneIs
  <2>3. /\ One(Thread(s, n, c), answering') <= One(Thread(s, n, c), answering)
        /\ c # d => One(Thread(s, n, c), answering') = One(Thread(s, n, c), answering)
    BY <1>1, <2>1 DEF One
  <2>4. /\ Busy(s, n, c) = One(Thread(s, n, c), answering) + One(Thread(s, n, c), failed)
        /\ Busy(s, n, c)' = One(Thread(s, n, c), answering') + One(Thread(s, n, c), failed)
    BY <1>1 DEF Busy, Thread
  <2> QED BY <2>2, <2>3, <2>4
<1>7. Asker(s, c) \in {Server, c} /\ Asker(s, c)' = Asker(s, c)
  BY RouteParts DEF Asker
<1>8. /\ Route(s, n, c) = To(s, "invoke", n, c) + Busy(s, n, c) + To(Asker(s, c), "result", n, c)
      /\ Route(s, n, c)' = To(s, "invoke", n, c)' + Busy(s, n, c)' + To(Asker(s, c), "result", n, c)'
  BY <1>7 DEF Route
<1>9. /\ To(s, "invoke", n, c) \in Nat /\ To(s, "invoke", n, c)' \in Nat
      /\ To(s, "invoke", n, c)' <= To(s, "invoke", n, c)
      /\ c # d => To(s, "invoke", n, c)' = To(s, "invoke", n, c)
  BY <1>5
<1>10. /\ To(Asker(s, c), "result", n, c) \in Nat /\ To(Asker(s, c), "result", n, c)' \in Nat
       /\ To(Asker(s, c), "result", n, c)' <= To(Asker(s, c), "result", n, c)
       /\ c # d => To(Asker(s, c), "result", n, c)' = To(Asker(s, c), "result", n, c)
  BY <1>5, <1>7
<1>11. Route(s, n, c)' <= Route(s, n, c) /\ (c # d => Route(s, n, c)' = Route(s, n, c))
  BY <1>6, <1>8, <1>9, <1>10
<1> QED BY <1>1, <1>11

\* A message for or of the client d that the end s says, on the way to the other end.
LEMMA SaysMoves ==
    ASSUME MessageInv, MessageInv', NEW d \in Client, NEW s \in {Server, d}, NEW m \in Message,
           Says(s, m), UNCHANGED <<inVars, posted, report, wireVars>>, s = Server => m.player = d,
           NEW c \in Client, NEW r \in {Server, c}, NEW kind, NEW n
    PROVE  To(r, kind, n, c)' = To(r, kind, n, c)
               + (IF r = Asker(s, d) /\ c = d /\ m.kind = kind /\ m.n = n THEN 1 ELSE 0)
<1>1. Exchange(s, <<>>, <<m>>)
  BY SaysExchanges, EndsDiffer
<1>2. \A T : CountIn(<<>>, T) = 0 /\ CountIn(<<m>>, T) = One(m, T)
  BY CountNone, CountOne
<1>3. /\ UpOf(kind, n, c) \in Nat /\ DownOf(kind, n, c) \in Nat
      /\ UpOf(kind, n, c)' \in Nat /\ DownOf(kind, n, c)' \in Nat
  BY SumsAreNat, SumsAreNatNext DEF SumsNext, Sums
<1>4. To(r, kind, n, c) = (IF r = Server THEN UpOf(kind, n, c) ELSE DownOf(kind, n, c))
      /\ To(r, kind, n, c)' = (IF r = Server THEN UpOf(kind, n, c)' ELSE DownOf(kind, n, c)')
  BY DEF To
<1>5. CASE s = Server
  <2>1. /\ UpOf(kind, n, c) = UpOf(kind, n, c)' + 0
        /\ DownOf(kind, n, c)' = DownOf(kind, n, c) + One(m, NumberedFor(kind, n, c))
    BY <1>1, <1>2, <1>5, ServerExchanges
  <2>2. One(m, NumberedFor(kind, n, c)) = IF c = d /\ m.kind = kind /\ m.n = n THEN 1 ELSE 0
    BY <1>5, EndsDiffer DEF One, NumberedFor
  <2>3. r = Asker(s, d) /\ c = d <=> r # Server /\ c = d
    BY <1>5, EndsDiffer DEF Asker
  <2> QED BY <1>3, <1>4, <2>1, <2>2, <2>3
<1>6. CASE s # Server
  <2>1. s = d
    BY <1>6
  <2>2. /\ c # d => DownOf(kind, n, c)' = DownOf(kind, n, c) /\ UpOf(kind, n, c)' = UpOf(kind, n, c)
        /\ DownOf(kind, n, d) = DownOf(kind, n, d)' + 0
        /\ UpOf(kind, n, d)' = UpOf(kind, n, d) + One(m, Numbered(kind, n))
    BY <1>1, <1>2, <2>1, ClientExchanges DEF DownStays, UpStays
  <2>3. One(m, Numbered(kind, n)) = IF m.kind = kind /\ m.n = n THEN 1 ELSE 0
    BY DEF One, Numbered
  <2>4. Asker(s, d) = Server
    BY <1>6 DEF Asker
  <2> QED BY <1>3, <1>4, <2>2, <2>3, <2>4
<1> QED BY <1>5, <1>6

\* A message is delivered: it is no longer on the way to s, and what s has no callback for is
\* answered on the way back.
LEMMA DeliveryMoves ==
    ASSUME JoinInv, MessageInv, MessageInv', Directed, NEW s \in Side, Delivery(s), NEW m, m = Head(inbox[s]),
           NEW c \in Client, NEW r \in {Server, c}, NEW kind \in {"invoke", "result"}, NEW n
    PROVE  /\ r = s => To(r, kind, n, c) = To(r, kind, n, c)'
                           + (IF m.kind = kind /\ m.n = n /\ m.player = c THEN 1 ELSE 0)
           /\ r # s => To(r, kind, n, c)' = To(r, kind, n, c)
                           + (IF /\ kind = "result" /\ m.kind = "invoke" /\ s \notin callbacks
                                 /\ m.n = n /\ m.player = c /\ s \in {Server, c} THEN 1 ELSE 0)
<1>1. Exchange(s, <<m>>, Reply(s, m))
  BY DeliveryExchanges
<1>2. \A T : CountIn(<<>>, T) = 0 /\ CountIn(<<m>>, T) = One(m, T)
  BY CountNone, CountOne
<1>3. m \in Message /\ (s = Server => m.player \in Client) /\ (m.kind # "event" /\ s # Server => m.player = s)
  <2>1. inbox[s] # <<>> /\ m \in Message /\ (s = Server => m.player \in Client) /\ inbox[s] \in Seq(Message)
    BY DeliveryTakes DEF MessageInv, MessageTypes
  <2>2. m \in Range(inbox[s])
    BY <2>1, Taken
  <2> QED BY <2>1, <2>2, EndsDiffer DEF Directed
<1>4. /\ UpOf(kind, n, c) \in Nat /\ DownOf(kind, n, c) \in Nat
      /\ UpOf(kind, n, c)' \in Nat /\ DownOf(kind, n, c)' \in Nat
  BY SumsAreNat, SumsAreNatNext DEF SumsNext, Sums
<1>5. To(r, kind, n, c) = (IF r = Server THEN UpOf(kind, n, c) ELSE DownOf(kind, n, c))
      /\ To(r, kind, n, c)' = (IF r = Server THEN UpOf(kind, n, c)' ELSE DownOf(kind, n, c)')
  BY DEF To
<1> DEFINE answered == m.kind = "invoke" /\ s \notin callbacks
<1>6. /\ ~answered => Reply(s, m) = <<>>
      /\ answered => Reply(s, m) = <<Result(m.n, m.player, IF s = Server THEN made ELSE 0)>>
  BY DEF Reply
<1>7. PICK a : a = Result(m.n, m.player, IF s = Server THEN made ELSE 0)
  OBVIOUS
<1>8. a \in Message /\ a.kind = "result" /\ a.n = m.n /\ a.player = m.player
  <2>1. m.n \in Nat /\ m.player \in Client \cup {Nobody} /\ (IF s = Server THEN made ELSE 0) \in Nat
    BY <1>3 DEF Message, JoinInv, JoiningTypes
  <2> QED BY <1>7, <2>1, Said
<1>9. \A T : CountIn(Reply(s, m), T) = IF answered THEN One(a, T) ELSE 0
  BY <1>2, <1>6, <1>7, CountOne
<1>10. CASE s = Server
  <2>1. /\ UpOf(kind, n, c) = UpOf(kind, n, c)' + One(m, NumberedFrom(kind, n, c))
        /\ DownOf(kind, n, c)' = DownOf(kind, n, c) + CountIn(Reply(s, m), NumberedFor(kind, n, c))
    BY <1>1, <1>2, <1>10, ServerExchanges
  <2>2. One(m, NumberedFrom(kind, n, c)) = IF m.kind = kind /\ m.n = n /\ m.player = c THEN 1 ELSE 0
    BY <1>3 DEF One, NumberedFrom
  <2>3. One(a, NumberedFor(kind, n, c)) = IF kind = "result" /\ m.n = n /\ m.player = c THEN 1 ELSE 0
    BY <1>3, <1>8, <1>10, EndsDiffer DEF One, NumberedFor
  <2>4. CountIn(Reply(s, m), NumberedFor(kind, n, c)) =
            IF kind = "result" /\ m.kind = "invoke" /\ s \notin callbacks /\ m.n = n /\ m.player = c THEN 1 ELSE 0
    BY <1>9, <2>3
  <2>5. c # Server
    BY EndsDiffer
  <2> HIDE DEF answered
  <2> QED BY <1>4, <1>5, <1>10, <2>1, <2>2, <2>4, <2>5
<1>11. CASE s # Server
  <2>1. s \in Client
    BY <1>11, EndsDiffer
  <2>2. /\ c # s => DownOf(kind, n, c)' = DownOf(kind, n, c) /\ UpOf(kind, n, c)' = UpOf(kind, n, c)
        /\ DownOf(kind, n, s) = DownOf(kind, n, s)' + One(m, Numbered(kind, n))
        /\ UpOf(kind, n, s)' = UpOf(kind, n, s) + CountIn(Reply(s, m), Numbered(kind, n))
    BY <1>1, <1>2, <2>1, ClientExchanges DEF DownStays, UpStays
  <2>3. One(m, Numbered(kind, n)) = IF m.kind = kind /\ m.n = n /\ m.player = s THEN 1 ELSE 0
    BY <1>3, <1>11 DEF One, Numbered
  <2>4. One(a, Numbered(kind, n)) = IF kind = "result" /\ m.n = n THEN 1 ELSE 0
    BY <1>8 DEF One, Numbered
  <2>5. CountIn(Reply(s, m), Numbered(kind, n)) =
            IF kind = "result" /\ m.kind = "invoke" /\ s \notin callbacks /\ m.n = n /\ m.player = s THEN 1 ELSE 0
    BY <1>3, <1>9, <1>11, <2>4
  <2> HIDE DEF answered
  <2>6. CASE c = s
    BY <1>4, <1>5, <1>11, <2>2, <2>3, <2>5, <2>6
  <2>7. CASE c # s
    BY <1>4, <1>5, <1>11, <2>2, <2>7
  <2> QED BY <2>6, <2>7
<1> QED BY <1>10, <1>11

LEMMA DeliveryIs ==
    ASSUME NEW s \in Side, Delivery(s), NEW m, m = Head(inbox[s])
    PROVE  /\ answering' = IF m.kind = "invoke" /\ s \in callbacks
                           THEN answering \cup {Thread(s, m.n, m.player)} ELSE answering
           /\ m.kind = "result" => \A p \in pending' : ~(p.by = s /\ p.n = m.n)
           /\ pending' \subseteq pending /\ failed' = failed /\ calls' = calls
BY DEF Delivery, Deliver, DeliverEvent, DeliverInvoke, DeliverResult, Delivers, callVars, Thread

\* An invoke becomes a thread or a result, a result ends the wait for it.
LEMMA RoutesDelivered ==
    ASSUME JoinInv, MessageInv, MessageInv', Directed, RoutesInv, NEW s \in Side, Delivery(s)
    PROVE  RoutesGoOn
<1> SUFFICES ASSUME NEW c \in Client, NEW r \in {Server, c}, NEW n \in Nat
             PROVE  /\ Route(r, n, c)' <= Route(r, n, c)
                    /\ \/ Route(r, n, c)' = Route(r, n, c)
                       \/ \A p \in pending' : ~(p.by = Asker(r, c) /\ p.n = n)
  BY DEF RoutesGoOn
<1>1. PICK m : m = Head(inbox[s])
  OBVIOUS
<1>2. PICK a : a = Asker(r, c)
  OBVIOUS
<1>3. a \in {Server, c} /\ a # r /\ Asker(r, c)' = a
  BY <1>2, RouteParts DEF Asker
<1>4. /\ To(r, "invoke", n, c) \in Nat /\ To(a, "result", n, c) \in Nat
      /\ To(r, "invoke", n, c)' \in Nat /\ To(a, "result", n, c)' \in Nat
  BY <1>3, RoutesAreNatNow, RoutesAreNatNext DEF RoutesAreNat
<1>5. /\ Route(r, n, c) = To(r, "invoke", n, c) + Busy(r, n, c) + To(a, "result", n, c)
      /\ Route(r, n, c)' = To(r, "invoke", n, c)' + Busy(r, n, c)' + To(a, "result", n, c)'
  BY <1>2, <1>3 DEF Route
<1>6. Busy(r, n, c) \in {0, 1, 2} /\ Route(r, n, c) <= 1
  BY RouteParts DEF RoutesInv
<1> DEFINE mine == m.n = n /\ m.player = c
<1>7. /\ r = s => To(r, "invoke", n, c) = To(r, "invoke", n, c)' + (IF m.kind = "invoke" /\ mine THEN 1 ELSE 0)
      /\ r # s => To(r, "invoke", n, c)' = To(r, "invoke", n, c) + 0
  BY <1>1, DeliveryMoves
<1>8. /\ a = s => To(a, "result", n, c) = To(a, "result", n, c)' + (IF m.kind = "result" /\ mine THEN 1 ELSE 0)
      /\ a # s => To(a, "result", n, c)' = To(a, "result", n, c)
                    + (IF m.kind = "invoke" /\ s \notin callbacks /\ mine /\ s \in {Server, c} THEN 1 ELSE 0)
  BY <1>1, <1>3, DeliveryMoves
<1>9. /\ answering' = IF m.kind = "invoke" /\ s \in callbacks
                      THEN answering \cup {Thread(s, m.n, m.player)} ELSE answering
      /\ m.kind = "result" => \A p \in pending' : ~(p.by = s /\ p.n = m.n)
      /\ failed' = failed
  BY <1>1, DeliveryIs
<1>10. /\ Busy(r, n, c) = One(Thread(r, n, c), answering) + One(Thread(r, n, c), failed)
       /\ Busy(r, n, c)' = One(Thread(r, n, c), answering') + One(Thread(r, n, c), failed)
  BY <1>9 DEF Busy, Thread
<1>11. /\ One(Thread(r, n, c), answering) \in {0, 1} /\ One(Thread(r, n, c), failed) \in {0, 1}
       /\ One(Thread(r, n, c), answering') \in {0, 1}
  BY OneIs
<1>12. Thread(s, m.n, m.player) = Thread(r, n, c) <=> s = r /\ mine
  BY DEF Thread
<1>13. One(Thread(r, n, c), answering') =
          IF m.kind = "invoke" /\ s \in callbacks /\ s = r /\ mine THEN 1 ELSE One(Thread(r, n, c), answering)
  BY <1>9, <1>12 DEF One
<1> HIDE DEF mine
<1>14. CASE r = s
  <2>1. a # s
    BY <1>3, <1>14
  <2>2. Route(r, n, c)' = Route(r, n, c)
    BY <1>4, <1>5, <1>6, <1>7, <1>8, <1>10, <1>11, <1>13, <1>14, <2>1
  <2> QED BY <1>4, <1>5, <1>6, <2>2
<1>15. CASE a = s
  <2>1. r # s
    BY <1>3, <1>15
  <2>2. Busy(r, n, c)' = Busy(r, n, c)
    BY <1>10, <1>13, <2>1
  <2>3. CASE m.kind = "result" /\ mine
    <3>1. \A p \in pending' : ~(p.by = Asker(r, c) /\ p.n = n)
      BY <1>2, <1>9, <1>15, <2>3 DEF mine
    <3>2. Route(r, n, c)' <= Route(r, n, c)
      BY <1>4, <1>5, <1>6, <1>7, <1>8, <1>15, <2>1, <2>2, <2>3
    <3> QED BY <3>1, <3>2
  <2>4. CASE ~(m.kind = "result" /\ mine)
    <3>1. Route(r, n, c)' = Route(r, n, c)
      BY <1>4, <1>5, <1>6, <1>7, <1>8, <1>15, <2>1, <2>2, <2>4
    <3>2. Route(r, n, c) \in Nat
      BY RouteParts
    <3> QED BY <3>1, <3>2
  <2> QED BY <2>3, <2>4
<1>16. CASE r # s /\ a # s
  <2>1. s \notin {Server, c}
    BY <1>2, <1>16, EndsDiffer DEF Asker
  <2>2. Route(r, n, c)' = Route(r, n, c)
    BY <1>4, <1>5, <1>6, <1>7, <1>8, <1>10, <1>11, <1>13, <1>16, <2>1
  <2>3. Route(r, n, c) \in Nat
    BY RouteParts
  <2> QED BY <2>2, <2>3
<1> QED BY <1>14, <1>15, <1>16

\* A thread that answers becomes a result.
LEMMA RoutesAnswered ==
    ASSUME JoinInv, MessageInv, MessageInv', Directed, RoutesInv, NEW s \in Side, Answers(s)
    PROVE  RoutesGoOn
<1> SUFFICES ASSUME NEW c \in Client, NEW r \in {Server, c}, NEW n \in Nat
             PROVE  Route(r, n, c)' = Route(r, n, c) /\ Route(r, n, c)' <= Route(r, n, c)
  BY DEF RoutesGoOn
<1>1. PICK x \in answering : \E asOf \in Nat :
            /\ x.at = s /\ answering' = answering \ {x} /\ Says(s, Result(x.n, x.player, asOf))
            /\ Result(x.n, x.player, asOf) \in Message
            /\ UNCHANGED <<inVars, posted, report, wireVars, failed>>
  BY TalkIs
<1>2. PICK asOf \in Nat : 
            /\ x.at = s /\ answering' = answering \ {x} /\ Says(s, Result(x.n, x.player, asOf))
            /\ Result(x.n, x.player, asOf) \in Message
            /\ UNCHANGED <<inVars, posted, report, wireVars, failed>>
  BY <1>1
<1>3. x.player \in Client /\ s \in {Server, x.player}
  BY <1>2 DEF Directed
<1>4. PICK d \in Client : d = x.player
  BY <1>3
<1>5. PICK a : a = Asker(r, c)
  OBVIOUS
<1>6. a \in {Server, c} /\ a # r /\ Asker(r, c)' = a
  BY <1>5, RouteParts DEF Asker
<1>7. PICK m \in Message : m = Result(x.n, x.player, asOf)
  BY <1>2
<1>8. m.kind = "result" /\ m.n = x.n /\ m.player = d
  BY <1>4, <1>7, Said
<1>9. /\ To(r, "invoke", n, c)' = To(r, "invoke", n, c)
                 + (IF r = Asker(s, d) /\ c = d /\ m.kind = "invoke" /\ m.n = n THEN 1 ELSE 0)
      /\ To(a, "result", n, c)' = To(a, "result", n, c)
                 + (IF a = Asker(s, d) /\ c = d /\ m.kind = "result" /\ m.n = n THEN 1 ELSE 0)
  <2>1. Says(s, m) /\ UNCHANGED <<inVars, posted, report, wireVars>> /\ s \in {Server, d}
    BY <1>2, <1>3, <1>4, <1>7
  <2> QED BY <1>6, <1>8, <2>1, SaysMoves
<1>10. a = Asker(s, d) /\ c = d <=> r = s /\ c = d
  BY <1>3, <1>4, <1>5, EndsDiffer DEF Asker
<1>11. /\ Route(r, n, c) = To(r, "invoke", n, c) + Busy(r, n, c) + To(a, "result", n, c)
       /\ Route(r, n, c)' = To(r, "invoke", n, c)' + Busy(r, n, c)' + To(a, "result", n, c)'
  BY <1>5, <1>6 DEF Route
<1>12. /\ Busy(r, n, c) = One(Thread(r, n, c), answering) + One(Thread(r, n, c), failed)
       /\ Busy(r, n, c)' = One(Thread(r, n, c), answering') + One(Thread(r, n, c), failed)
  BY <1>2 DEF Busy, Thread
<1>13. /\ One(Thread(r, n, c), answering) \in {0, 1} /\ One(Thread(r, n, c), failed) \in {0, 1}
       /\ One(Thread(r, n, c), answering') \in {0, 1}
  BY OneIs
<1>14. x = Thread(r, n, c) <=> r = s /\ c = d /\ x.n = n
  <2>1. x \in Answerer
    BY DEF MessageInv, MessageTypes
  <2>2. x = [at |-> x.at, n |-> x.n, player |-> x.player]
    BY <2>1 DEF Answerer
  <2>3. x = Thread(x.at, x.n, x.player)
    BY <2>2 DEF Thread
  <2>4. Thread(x.at, x.n, x.player) = Thread(r, n, c) <=> x.at = r /\ x.n = n /\ x.player = c
    BY DEF Thread
  <2> QED BY <1>2, <1>4, <2>3, <2>4
<1>15. One(Thread(r, n, c), answering) =
          One(Thread(r, n, c), answering') + (IF r = s /\ c = d /\ x.n = n THEN 1 ELSE 0)
  BY <1>2, <1>14 DEF One
<1>16. /\ To(r, "invoke", n, c) \in Nat /\ To(a, "result", n, c) \in Nat /\ Route(r, n, c) \in Nat
  BY <1>6, RoutesAreNatNow DEF RoutesAreNat
<1>17. /\ To(r, "invoke", n, c)' = To(r, "invoke", n, c)
       /\ To(a, "result", n, c)' = To(a, "result", n, c) + (IF r = s /\ c = d /\ x.n = n THEN 1 ELSE 0)
  BY <1>8, <1>9, <1>10, <1>16
<1>18. Route(r, n, c)' = Route(r, n, c)
  BY <1>11, <1>12, <1>13, <1>15, <1>16, <1>17
<1> QED BY <1>16, <1>18

\* A new call has a number that none on its route has had.
LEMMA RoutesCalled ==
    ASSUME JoinInv, ToldInv, MessageInv, MessageInv', Directed, RoutesInv,
           NEW s \in Side, NEW player, Calls(s, player)
    PROVE  RoutesInv'
<1>1. PICK asOf \in Nat :
           /\ Says(s, Invoke(calls[s] + 1, player, asOf))
           /\ Invoke(calls[s] + 1, player, asOf) \in Message
           /\ calls' = [calls EXCEPT ![s] = calls[s] + 1] /\ calls[s] + 1 \in Nat
           /\ pending' = pending \cup
                  {[by |-> s, n |-> calls[s] + 1, of |-> IF s = Server THEN player ELSE Server]}
           /\ Runs(s) /\ UNCHANGED <<inVars, posted, report, wireVars, peer, join, answering, failed>>
  BY TalkIs
<1>2. PICK k \in Nat : k = calls[s] + 1
  BY <1>1
<1>3. PICK m \in Message : m = Invoke(k, player, asOf)
  BY <1>1, <1>2
<1>4. m.kind = "invoke" /\ m.n = k /\ m.player = player
  BY <1>3, Said
<1>5. IF s = Server THEN player \in Client /\ player \in Range(players) ELSE s \in Client
  BY DEF Calls
<1>6. PICK d \in Client : s \in {Server, d} /\ (s = Server => player = d)
                            /\ Asker(s, d) = IF s = Server THEN player ELSE Server
  BY <1>5 DEF Asker
<1>7. PICK o \in {Server, d} : o = Asker(s, d)
  BY <1>6, RouteParts
<1>8. o # s /\ Asker(o, d) = s
  BY <1>6, <1>7, RouteParts
<1>9. Present(d)
  <2>1. CASE s = Server
    BY <1>5, <1>6, <2>1, WhoIsPresent
  <2>2. CASE s # Server
    BY <1>1, <1>6, <2>2, WhoIsPresent
  <2> QED BY <2>1, <2>2
<1>10. PICK q : q = [by |-> s, n |-> k, of |-> o]
  OBVIOUS
<1>11. pending' = pending \cup {q} /\ q.by = s /\ q.n = k /\ q.of = o
  BY <1>1, <1>2, <1>6, <1>7, <1>10
<1>12. calls \in [Side -> Nat] /\ \A r \in Side : calls'[r] = IF r = s THEN k ELSE calls[r]
  BY <1>1, <1>2 DEF MessageInv, MessageTypes
<1>13. ASSUME NEW c \in Client, NEW r \in {Server, c}, NEW n \in Nat
       PROVE  /\ Asker(r, c)' = Asker(r, c) /\ Asker(r, c) \in Side
              /\ Route(r, n, c)' = Route(r, n, c) + (IF r = o /\ c = d /\ n = k THEN 1 ELSE 0)
  <2>1. PICK a \in {Server, c} : a = Asker(r, c) /\ Asker(r, c)' = a
    BY RouteParts DEF Asker
  <2>2. /\ Route(r, n, c) = To(r, "invoke", n, c) + Busy(r, n, c) + To(a, "result", n, c)
        /\ Route(r, n, c)' = To(r, "invoke", n, c)' + Busy(r, n, c)' + To(a, "result", n, c)'
    BY <2>1 DEF Route
  <2>3. Busy(r, n, c)' = Busy(r, n, c) /\ Busy(r, n, c) \in {0, 1, 2}
    BY <1>1, RouteParts DEF Busy, Thread
  <2>4. Says(s, m) /\ UNCHANGED <<inVars, posted, report, wireVars>>
    BY <1>1, <1>2, <1>3
  <2>5. /\ To(r, "invoke", n, c)' = To(r, "invoke", n, c)
                 + (IF r = Asker(s, d) /\ c = d /\ m.kind = "invoke" /\ m.n = n THEN 1 ELSE 0)
        /\ To(a, "result", n, c)' = To(a, "result", n, c)
                 + (IF a = Asker(s, d) /\ c = d /\ m.kind = "result" /\ m.n = n THEN 1 ELSE 0)
    BY <1>4, <1>6, <2>4, SaysMoves
  <2>6. To(r, "invoke", n, c) \in Nat /\ To(a, "result", n, c) \in Nat
    BY RoutesAreNatNow DEF RoutesAreNat
  <2>7. Route(r, n, c)' = Route(r, n, c) + (IF r = o /\ c = d /\ n = k THEN 1 ELSE 0)
    BY <1>4, <1>7, <2>2, <2>3, <2>5, <2>6
  <2> QED BY <2>1, <2>7, EndsDiffer
<1>14. ASSUME NEW c \in Client, NEW r \in {Server, c}, NEW n \in Nat
       PROVE  /\ Route(r, n, c)' <= 1 /\ (n > calls'[Asker(r, c)'] => Route(r, n, c)' = 0)
              /\ n <= calls[Asker(r, c)] => Route(r, n, c)' = Route(r, n, c) /\ n <= calls'[Asker(r, c)]
  <2>1. PICK a \in Side : a = Asker(r, c) /\ a = Asker(r, c)'
    BY <1>13
  <2>2. Route(r, n, c)' = Route(r, n, c) + (IF r = o /\ c = d /\ n = k THEN 1 ELSE 0)
    BY <1>13
  <2>3. Route(r, n, c) \in Nat /\ Route(r, n, c) <= 1 /\ (n > calls[a] => Route(r, n, c) = 0)
    BY <2>1, RouteParts DEF RoutesInv
  <2>4. calls[a] \in Nat /\ calls'[a] = (IF a = s THEN k ELSE calls[a]) /\ calls[s] \in Nat
    BY <1>12
  <2>5. r = o /\ c = d => a = s
    BY <1>8, <2>1
  <2> QED BY <1>2, <2>1, <2>2, <2>3, <2>4, <2>5
<1>15. \A c \in Client : Present(c)' <=> Present(c)
  BY <1>1 DEF Present
<1>16. ASSUME NEW p \in pending'
       PROVE  \E c \in Client : \E r \in {Server, c} :
                 /\ p.of = r /\ p.by = Asker(r, c)' /\ p.n \in Nat /\ p.n <= calls'[p.by]
                 /\ Present(c)' /\ (peer'[c] # "gone" => Route(r, p.n, c)' = 1)
  <2>1. CASE p \in pending
    <3>1. PICK c \in Client : \E r \in {Server, c} :
              /\ p.of = r /\ p.by = Asker(r, c) /\ p.n \in Nat /\ p.n <= calls[p.by]
              /\ Present(c) /\ (peer[c] # "gone" => Route(r, p.n, c) = 1)
      BY <2>1 DEF RoutesInv
    <3>2. PICK r \in {Server, c} :
              /\ p.of = r /\ p.by = Asker(r, c) /\ p.n \in Nat /\ p.n <= calls[p.by]
              /\ Present(c) /\ (peer[c] # "gone" => Route(r, p.n, c) = 1)
      BY <3>1
    <3>3. Asker(r, c)' = Asker(r, c) /\ Route(r, p.n, c)' = Route(r, p.n, c) /\ p.n <= calls'[p.by]
      BY <1>13, <1>14, <3>2
    <3> QED BY <1>1, <1>15, <3>2, <3>3
  <2>2. CASE p = q
    <3>1. Asker(o, d)' = s
      BY <1>8, <1>13
    <3>2. Route(o, k, d)' = 1
      <4>1. Route(o, k, d) = 0
        <5>1. k > calls[s] /\ calls[s] \in Nat
          BY <1>2, <1>12
        <5> QED BY <1>8, <5>1 DEF RoutesInv
      <4>2. Route(o, k, d)' = Route(o, k, d) + 1
        BY <1>13
      <4> QED BY <4>1, <4>2
    <3>3. calls'[s] = k
      BY <1>12
    <3> QED BY <1>9, <1>11, <1>15, <2>2, <3>1, <3>2, <3>3
  <2> QED BY <1>11, <2>1, <2>2
<1> QED BY <1>14, <1>16 DEF RoutesInv

\* A firing is neither a call nor a result.
LEMMA RoutesFired ==
    ASSUME JoinInv, MessageInv, MessageInv', NEW s \in Side, NEW player, NEW for, Fires(s, player, for)
    PROVE  RoutesGoOn /\ UNCHANGED callVars
<1>1. /\ Acts(s) /\ player \in Client \cup {Nobody}
      /\ Fire(s, acts', player, IF s = Server THEN made ELSE 0)
  BY DEF Fires, FiresTo
<1>2. acts' \in Nat /\ (IF s = Server THEN made ELSE 0) \in Nat
  <2>1. acts' = acts + 1
    BY <1>1 DEF Acts, Acting
  <2> QED BY <2>1 DEF MessageInv, MessageTypes, JoinInv, JoiningTypes
<1>3. PICK m : m = Event(acts', player, IF s = Server THEN made ELSE 0)
  OBVIOUS
<1>4. m \in Message /\ m.kind = "event"
  BY <1>1, <1>2, <1>3, Said
<1>5. Says(s, m) /\ UNCHANGED <<inVars, posted, report, wireVars, callVars>>
  BY <1>1, <1>3 DEF Fire, Acts
<1>6. Exchange(s, <<>>, <<m>>)
  BY <1>4, <1>5, SaysExchanges
<1>7. ASSUME NEW c \in Client, NEW kind \in {"invoke", "result"}, NEW n
      PROVE  UpOf(kind, n, c)' = UpOf(kind, n, c) /\ DownOf(kind, n, c)' = DownOf(kind, n, c)
  <2>1. /\ CountIn(<<m>>, Numbered(kind, n)) = 0 /\ CountIn(<<m>>, NumberedFor(kind, n, c)) = 0
        /\ \A T : CountIn(<<>>, T) = 0
    BY <1>4, OtherKinds, CountNone
  <2>2. /\ UpOf(kind, n, c) \in Nat /\ DownOf(kind, n, c) \in Nat
        /\ UpOf(kind, n, c)' \in Nat /\ DownOf(kind, n, c)' \in Nat
    BY SumsAreNat, SumsAreNatNext DEF SumsNext, Sums
  <2>3. CASE s = Server
    <3>1. /\ UpOf(kind, n, c) = UpOf(kind, n, c)' + 0 /\ DownOf(kind, n, c)' = DownOf(kind, n, c) + 0
      BY <1>6, <2>1, <2>3, ServerExchanges
    <3> QED BY <2>2, <3>1
  <2>4. CASE s # Server
    <3>1. s \in Client
      BY <2>4, EndsDiffer
    <3>2. /\ c # s => DownStays(c) /\ UpStays(c)
          /\ DownOf(kind, n, s) = DownOf(kind, n, s)' + CountIn(<<>>, Numbered(kind, n))
          /\ UpOf(kind, n, s)' = UpOf(kind, n, s) + CountIn(<<m>>, Numbered(kind, n))
      BY <1>6, <3>1, ClientExchanges
    <3> QED BY <2>1, <2>2, <3>2 DEF DownStays, UpStays
  <2> QED BY <2>3, <2>4
<1>8. ASSUME NEW c \in Client, NEW r \in {Server, c}, NEW n \in Nat
      PROVE  Route(r, n, c)' = Route(r, n, c) /\ Route(r, n, c)' <= Route(r, n, c)
  <2>1. Busy(r, n, c)' = Busy(r, n, c)
    BY <1>5 DEF Busy, Thread, callVars
  <2>2. Asker(r, c) \in {Server, c} /\ Route(r, n, c) \in Nat
    BY RouteParts
  <2>3. \A t \in {Server, c} : \A kind \in {"invoke", "result"} : To(t, kind, n, c)' = To(t, kind, n, c)
    BY <1>7 DEF To
  <2>4. Route(r, n, c)' = Route(r, n, c)
    BY <2>1, <2>2, <2>3 DEF Route, Asker
  <2> QED BY <2>2, <2>4
<1> QED BY <1>5, <1>8 DEF RoutesGoOn

LEMMA StepRoutes == JoinInv /\ ToldInv /\ MessageInv /\ Directed /\ RoutesInv /\ [Next]_vars => RoutesInv'
<1> SUFFICES ASSUME JoinInv, ToldInv, MessageInv, Directed, RoutesInv, [Next]_vars PROVE RoutesInv'
  OBVIOUS
<1>1. MessageStep /\ MessageInv'
  BY NextIsMessages, StepMessages
<1>2. GoesOn
  BY NextIsJoining, PresentStays DEF GoesOn
<1>3. ASSUME RoutesGoOn, pending' \subseteq pending, calls' = calls PROVE RoutesInv'
  BY <1>1, <1>2, <1>3, RoutesKept
<1>4. ASSUME Steady, answering' = answering, failed' = failed, pending' \subseteq pending, calls' = calls
      PROVE  RoutesInv'
  BY <1>3, <1>4, RoutesStay
<1>5. CASE \/ Still \/ Submits \/ FrameEnds
           \/ \E c \in Client : Posts(c) \/ Receives(c)
           \/ \E s \in Side : Handing(s)
  <2>1. UNCHANGED <<answering, failed, pending, calls>>
    BY <1>5 DEF Still, Submits, FrameEnds, Posts, Receives, Handing, HandOver, callVars
  <2>2. Steady
    BY <1>5, SteadySteps
  <2> QED BY <1>4, <2>1, <2>2
<1>6. ASSUME NEW s \in Side, Stops(s) PROVE RoutesInv'
  <2>1. Steady
    BY <1>6, SteadySteps
  <2>2. CASE UNCHANGED <<calls, pending, answering, failed>>
    BY <1>4, <2>1, <2>2
  <2>3. CASE StopCaller(s)
    <3>1. UNCHANGED <<answering, failed, calls>> /\ pending' \subseteq pending
      BY <2>3 DEF StopCaller
    <3> QED BY <1>4, <2>1, <3>1
  <2>4. CASE StopAnswerer(s)
    <3>1. UNCHANGED <<pending, calls>>
      BY <2>4 DEF StopAnswerer
    <3> QED BY <1>3, <2>1, <2>4, <3>1, RoutesStopped
  <2> QED BY <1>6, <2>2, <2>3, <2>4 DEF Stops
<1>7. CASE Applies
  <2>1. UNCHANGED <<pending, calls>>
    BY <1>7 DEF Applies, NoRemotes, remoteVars, callVars
  <2> QED BY <1>1, <1>3, <1>7, <2>1, RoutesApplied
<1>8. ASSUME NEW c \in Client, Left(c) PROVE RoutesInv'
  <2>1. pending' \subseteq pending /\ calls' = calls
    BY <1>8 DEF Left, Closes
  <2> QED BY <1>1, <1>3, <1>8, <2>1, RoutesLeft
<1>9. ASSUME NEW s \in Side, Delivery(s) PROVE RoutesInv'
  <2>1. pending' \subseteq pending /\ calls' = calls
    BY <1>9, DeliveryIs
  <2> QED BY <1>1, <1>3, <1>9, <2>1, RoutesDelivered
<1>10. ASSUME NEW s \in Side, Answers(s) PROVE RoutesInv'
  <2>1. UNCHANGED <<pending, calls>>
    BY <1>10 DEF Answers, Answer
  <2> QED BY <1>1, <1>3, <1>10, <2>1, RoutesAnswered
<1>11. CASE FireAllClients \/ \E c \in Client : FireClient(c) \/ FireServer(c) \/ InvokeClient(c) \/ InvokeServer(c)
  <2>1. \E s \in Side : (\E player, for : Fires(s, player, for)) \/ (\E player : Calls(s, player))
    BY <1>11, Speaking, EndsDiffer
  <2>2. ASSUME NEW s \in Side, NEW player, NEW for, Fires(s, player, for) PROVE RoutesInv'
    <3>1. RoutesGoOn /\ UNCHANGED callVars
      BY <1>1, <2>2, RoutesFired
    <3> QED BY <1>3, <3>1 DEF callVars
  <2>3. ASSUME NEW s \in Side, NEW player, Calls(s, player) PROVE RoutesInv'
    BY <1>1, <2>3, RoutesCalled
  <2> QED BY <2>1, <2>2, <2>3
<1> QED BY <1>1, <1>5, <1>6, <1>7, <1>8, <1>9, <1>10, <1>11 DEF MessageStep

LEMMA InitRoutes == Init => Directed /\ RoutesInv
<1> SUFFICES ASSUME Init PROVE Directed /\ RoutesInv
  OBVIOUS
<1> USE DEF Init, JoiningInit, RemotesInit
<1>1. \A T : CountIn(<<>>, T) = 0 /\ WireCount(<<>>, T) = 0
  BY CountNone, WireCountNone
<1>2. NoReport.remotes = <<>> /\ Range(<<>>) = {}
  BY DEF NoReport, Range
<1>3. ASSUME NEW kind, NEW n, NEW c \in Client PROVE DownOf(kind, n, c) = 0 /\ UpOf(kind, n, c) = 0
  <2>1. CountIn(OnWire(c), Numbered(kind, n)) = WireCount(wire[c], Numbered(kind, n))
    BY OnWireIs DEF WireCount
  <2>2. DownOf(kind, n, c) = 0 + 0 + 0 + 0
    BY <1>1, <1>2, <2>1, EndsDiffer DEF DownOf
  <2>3. UpOf(kind, n, c) = 0 + 0 + 0
    BY <1>1, EndsDiffer DEF UpOf
  <2> QED BY <2>2, <2>3
<1>4. ASSUME NEW c \in Client, NEW s \in {Server, c}, NEW n \in Nat
      PROVE  Route(s, n, c) <= 1 /\ (n > calls[Asker(s, c)] => Route(s, n, c) = 0)
  <2>1. Busy(s, n, c) = 0 + 0
    BY DEF Busy, One
  <2>2. \A r, kind : To(r, kind, n, c) = 0
    BY <1>3 DEF To
  <2>3. Route(s, n, c) = 0
    BY <2>1, <2>2 DEF Route
  <2> QED BY <2>3
<1>5. RoutesInv
  BY <1>4 DEF RoutesInv
<1>6. Directed
  BY <1>2, EndsDiffer DEF Directed
<1> QED BY <1>5, <1>6

LEMMA RoutesAnswer ==
    ASSUME MessageInv, Directed, RoutesInv
    PROVE  CallHasOneAnswer
<1> SUFFICES ASSUME NEW p \in pending, peer[ClientOf(p)] # "gone" PROVE Carriers(p) = 1
  BY DEF CallHasOneAnswer
<1>1. PICK c \in Client : \E s \in {Server, c} :
          /\ p.of = s /\ p.by = Asker(s, c) /\ p.n \in Nat /\ (peer[c] # "gone" => Route(s, p.n, c) = 1)
  BY DEF RoutesInv
<1>2. PICK s \in {Server, c} :
          /\ p.of = s /\ p.by = Asker(s, c) /\ p.n \in Nat /\ (peer[c] # "gone" => Route(s, p.n, c) = 1)
  BY <1>1
<1>3. ClientOf(p) = c /\ (p.by = Server <=> s # Server)
  BY <1>2, EndsDiffer DEF ClientOf, Asker
<1>4. PICK n \in Nat : n = p.n
  BY <1>2
<1>5. Route(s, n, c) = 1
  BY <1>2, <1>3, <1>4
<1> DEFINE who == {x \in answering \cup failed : x.at = p.of /\ x.n = p.n /\ x.player = c}
<1>6. \A x \in who : x = Thread(s, n, c)
  <2> SUFFICES ASSUME NEW x \in who PROVE x = Thread(s, n, c)
    OBVIOUS
  <2>1. x \in Answerer /\ x.at = s /\ x.n = n /\ x.player = c
    BY <1>2, <1>4 DEF Directed, MessageInv, MessageTypes
  <2>2. x = [at |-> x.at, n |-> x.n, player |-> x.player]
    BY <2>1 DEF Answerer
  <2> QED BY <2>1, <2>2 DEF Thread
<1>7. Thread(s, n, c) \in answering \cup failed => Thread(s, n, c) \in who
  BY <1>2, <1>4 DEF Thread
<1>8. PICK set : set = who
  OBVIOUS
<1>9. Carriers(p) = To(s, "invoke", n, c) + To(Asker(s, c), "result", n, c) + Cardinality(set)
  <2>1. \A kind : /\ Among(Down(c), kind, n) = DownOf(kind, n, c)
                  /\ Among(Up(c), kind, n) = UpOf(kind, n, c)
    BY DownAndUp
  <2>2. Carriers(p) = Among(IF p.by = Server THEN Down(c) ELSE Up(c), "invoke", n)
            + Among(IF p.by = Server THEN Up(c) ELSE Down(c), "result", n) + Cardinality(set)
    BY <1>3, <1>4, <1>8 DEF Carriers
  <2>3. Asker(s, c) = Server <=> s # Server
    BY EndsDiffer DEF Asker
  <2> QED BY <1>3, <2>1, <2>2, <2>3 DEF To
<1> HIDE DEF who
<1>10. Cardinality(set) = Busy(s, n, c)
  <2>1. /\ One(Thread(s, n, c), answering) \in {0, 1} /\ One(Thread(s, n, c), failed) \in {0, 1}
    BY OneIs
  <2>2. Busy(s, n, c) <= 1
    <3>1. /\ To(s, "invoke", n, c) \in Nat /\ To(Asker(s, c), "result", n, c) \in Nat
          /\ Busy(s, n, c) \in {0, 1, 2}
      BY RouteParts
    <3> QED BY <1>5, <3>1 DEF Route
  <2>3. CASE Thread(s, n, c) \in answering \cup failed
    <3>1. set = {Thread(s, n, c)}
      BY <1>6, <1>7, <1>8, <2>3
    <3>2. Cardinality(set) = 1
      BY <3>1, FS_Singleton
    <3>3. Busy(s, n, c) = 1
      BY <2>1, <2>2, <2>3, OneIs DEF Busy
    <3> QED BY <3>2, <3>3
  <2>4. CASE Thread(s, n, c) \notin answering \cup failed
    <3>1. set = {}
      <4>1. \A x \in set : x \in answering \cup failed
        BY <1>8 DEF who
      <4> QED BY <1>6, <1>8, <2>4, <4>1
    <3>2. Cardinality(set) = 0
      BY <3>1, FS_EmptySet
    <3>3. Busy(s, n, c) = 0
      BY <2>4 DEF Busy, One
    <3> QED BY <3>2, <3>3
  <2> QED BY <2>3, <2>4
<1>11. /\ To(s, "invoke", n, c) \in Nat /\ To(Asker(s, c), "result", n, c) \in Nat
       /\ Busy(s, n, c) \in {0, 1, 2}
  BY RouteParts
<1> QED BY <1>5, <1>9, <1>10, <1>11 DEF Route

(***************************************************************************)
(* A thread that waits for the other end is owed exactly one answer: the   *)
(* call is on its way, or a thread that answers it has it, or the result is  *)
(* on its way back, and never two of these.  A client that leaves takes its  *)
(* own with it; a thread that is stopped while it answers owes it for good.  *)
(***************************************************************************)
THEOREM CallsAreAnswered == Spec => []CallHasOneAnswer
<1>1. Init => JoinInv /\ ToldInv /\ MessageInv /\ Directed /\ RoutesInv
  BY InitInv, InitTold, InitMessages, InitRoutes
<1>2. JoinInv /\ ToldInv /\ MessageInv /\ Directed /\ RoutesInv /\ [Next]_vars
          => (JoinInv /\ ToldInv /\ MessageInv /\ Directed /\ RoutesInv)'
  BY StepInv, StepTold, StepMessages, StepDirected, StepRoutes
<1>3. MessageInv /\ Directed /\ RoutesInv => CallHasOneAnswer
  BY RoutesAnswer
<1> QED BY <1>1, <1>2, <1>3, PTL DEF Spec

-----------------------------------------------------------------------------
(***************************************************************************)
(* Order.  What is on its way to an end is one line: what that end keeps,  *)
(* what it was handed, what is on the way, what the sender has said. The   *)
(* events in it are in the order in which they were fired; on the way up,  *)
(* those of one client are.                                                *)
(***************************************************************************)
FiredBy(c) == {m \in Events : m.player \in {Nobody, c}}
Later(T) == {e \in Message \X Message : e[1] \in T /\ e[2] \in T => e[1].n <= e[2].n}

DownLine(c) == InLine(kept[c], inbox[c], OnWire(c) \o report.remotes, outbox[Server])
UpLine(c) == InLine(kept[Server], inbox[Server], posted, outbox[c])

\* No event of the line is newer than a.
Lined(l, T, a) == Ordered(l, Later(T)) /\ \A m \in ToSet(l) \cap Events : m.n <= a

OrderInv == \A c \in Client : Lined(DownLine(c), Events, acts) /\ Lined(UpLine(c), FiredBy(c), acts)

LEMMA StagesAre ==
    ASSUME MessageInv
    PROVE  /\ \A s \in Side : kept[s] \in Seq(Message) /\ inbox[s] \in Seq(Message) /\ outbox[s] \in Seq(Message)
           /\ posted \in Seq(Message) /\ report.remotes \in Seq(Message)
           /\ \A c \in Client : OnWire(c) \in Seq(Message) /\ OnWire(c) \o report.remotes \in Seq(Message)
           /\ acts \in Nat
<1>1. \A s \in Side : kept[s] \in Seq(Message)
  BY EventsAreMessages DEF MessageInv, MessageTypes
<1>2. \A c \in Client : OnWire(c) \in Seq(Message)
  BY CarriedType, OnWireIs DEF MessageInv, MessageTypes
<1>3. posted \in Seq(Message) /\ report.remotes \in Seq(Message)
  BY DEF MessageInv, MessageTypes, PacketType
<1>4. \A c \in Client : OnWire(c) \o report.remotes \in Seq(Message)
  BY <1>2, <1>3
<1> QED BY <1>1, <1>2, <1>3, <1>4 DEF MessageInv, MessageTypes

LEMMA LinesAre ==
    ASSUME MessageInv, NEW c \in Client
    PROVE  /\ DownLine(c) \in Seq(Message) /\ UpLine(c) \in Seq(Message)
           /\ ToSet(UpLine(c)) = ToSet(kept[Server]) \cup ToSet(inbox[Server]) \cup ToSet(posted) \cup ToSet(outbox[c])
<1>1. c \in Side /\ Server \in Side
  BY EndsDiffer
<1> DEFINE w == OnWire(c) \o report.remotes
<1>2. /\ kept[c] \in Seq(Message) /\ inbox[c] \in Seq(Message) /\ outbox[c] \in Seq(Message)
      /\ kept[Server] \in Seq(Message) /\ inbox[Server] \in Seq(Message) /\ outbox[Server] \in Seq(Message)
      /\ posted \in Seq(Message) /\ w \in Seq(Message)
  BY <1>1, StagesAre
<1> HIDE DEF w
<1>3. InLine(kept[c], inbox[c], w, outbox[Server]) \in Seq(Message)
  BY <1>2, LineParts
<1>4. /\ InLine(kept[Server], inbox[Server], posted, outbox[c]) \in Seq(Message)
      /\ ToSet(InLine(kept[Server], inbox[Server], posted, outbox[c]))
             = ToSet(kept[Server]) \cup ToSet(inbox[Server]) \cup ToSet(posted) \cup ToSet(outbox[c])
  BY <1>2, LineParts
<1> QED BY <1>3, <1>4 DEF DownLine, UpLine, w

Lines == \A c \in Client : DownLine(c) \in Seq(Message) /\ UpLine(c) \in Seq(Message)

LEMMA LinesAreNext == MessageInv' => Lines'
<1>1. MessageInv => Lines
  BY LinesAre DEF Lines
<1> QED BY <1>1, PTL

LEMMA EventNumbers ==
    \A m \in Events :
        /\ m \in Message /\ m.kind = "event" /\ m.n \in Nat
        /\ \A c : m \in FiredBy(c) <=> m.player \in {Nobody, c}
BY DEF Events, Message, FiredBy

LEMMA LinedThinner ==
    ASSUME NEW s, NEW t, NEW T, NEW a \in Nat, NEW b \in Nat, a <= b, Lined(s, T, a), Thinner(t, s)
    PROVE  Lined(t, T, b)
<1>1. Ordered(t, Later(T)) /\ ToSet(t) \subseteq ToSet(s)
  BY DEF Lined, Thinner
<1>2. ASSUME NEW m \in ToSet(t) \cap Events PROVE m.n <= b
  <2>1. m.n \in Nat /\ m.n <= a
    BY <1>1, <1>2, EventNumbers DEF Lined
  <2> QED BY <2>1
<1> QED BY <1>1, <1>2 DEF Lined

LEMMA LinedSaid ==
    ASSUME NEW s \in Seq(Message), NEW m \in Message, NEW T, T \subseteq Events, NEW a \in Nat, NEW b \in Nat, a <= b,
           Lined(s, T, a), m \in Events => a <= m.n /\ m.n <= b
    PROVE  Lined(Append(s, m), T, b)
<1>1. ToSet(Append(s, m)) = ToSet(s) \cup {m} /\ ToSet(s) \subseteq Message
  BY AppendSet DEF ToSet
<1>2. ASSUME NEW x \in ToSet(s) PROVE <<x, m>> \in Later(T)
  <2>1. x \in Message /\ m \in Message
    BY <1>1, <1>2
  <2>2. ASSUME x \in T, m \in T PROVE x.n <= m.n
    <3>1. x.n \in Nat /\ m.n \in Nat /\ x.n <= a /\ a <= m.n
      BY <1>2, <2>2, EventNumbers DEF Lined
    <3> QED BY <3>1
  <2> QED BY <2>1, <2>2 DEF Later
<1>3. Ordered(Append(s, m), Later(T))
  BY <1>2, AppendOrdered DEF Lined
<1>4. ASSUME NEW x \in ToSet(Append(s, m)) \cap Events PROVE x.n <= b
  <2>1. x.n \in Nat /\ (x.n <= a \/ x.n <= b)
    BY <1>1, <1>4, EventNumbers DEF Lined
  <2> QED BY <2>1
<1> QED BY <1>3, <1>4 DEF Lined

\* Messages of which an event is of a firing that is made now.
Newer(a, b) == {m \in Message : m \in Events => a <= m.n /\ m.n <= b}

LEMMA LinedGoes ==
    ASSUME NEW s \in Seq(Message), NEW t, NEW T, T \subseteq Events, NEW a \in Nat, NEW b \in Nat, a <= b,
           Lined(s, T, a), Goes(t, s, Newer(a, b))
    PROVE  Lined(t, T, b)
<1>1. CASE Thinner(t, s)
  BY <1>1, LinedThinner
<1>2. CASE \E m \in Newer(a, b) : t = Append(s, m)
  <2>1. PICK m \in Newer(a, b) : t = Append(s, m)
    BY <1>2
  <2>2. m \in Message /\ (m \in Events => a <= m.n /\ m.n <= b)
    BY DEF Newer
  <2> QED BY <2>1, <2>2, LinedSaid
<1> QED BY <1>1, <1>2 DEF Goes

LinesGo ==
    \A c \in Client :
        /\ Goes(DownLine(c)', DownLine(c), Newer(acts, acts'))
        /\ Goes(UpLine(c)', UpLine(c), Newer(acts, acts'))

LEMMA OrderGoes ==
    ASSUME MessageInv, MessageInv', OrderInv, LinesGo, acts' >= acts
    PROVE  OrderInv'
<1>1. acts \in Nat /\ acts' \in Nat /\ acts <= acts'
  BY DEF MessageInv, MessageTypes
<1>2. ASSUME NEW c \in Client
      PROVE  Lined(DownLine(c)', Events, acts') /\ Lined(UpLine(c)', FiredBy(c), acts')
  <2>1. DownLine(c) \in Seq(Message) /\ UpLine(c) \in Seq(Message)
    BY LinesAre
  <2>2. FiredBy(c) \subseteq Events /\ Events \subseteq Events
    BY DEF FiredBy
  <2>3. Goes(DownLine(c)', DownLine(c), Newer(acts, acts')) /\ Goes(UpLine(c)', UpLine(c), Newer(acts, acts'))
    BY DEF LinesGo
  <2>4. Lined(DownLine(c), Events, acts) /\ Lined(UpLine(c), FiredBy(c), acts)
    BY DEF OrderInv
  <2>5. Lined(DownLine(c)', Events, acts')
    BY <1>1, <2>1, <2>2, <2>3, <2>4, LinedGoes
  <2>6. Lined(UpLine(c)', FiredBy(c), acts')
    BY <1>1, <2>1, <2>2, <2>3, <2>4, LinedGoes
  <2> QED BY <2>5, <2>6
<1>3. \A c \in Client : Lined(DownLine(c), Events, acts)' /\ Lined(UpLine(c), FiredBy(c), acts)'
  BY <1>2 DEF Lined, Later, FiredBy, Ordered
<1> QED BY <1>3 DEF OrderInv

\* One end takes the first of what it was handed, or of what it kept, or says something.
Acted(s) ==
    /\ UNCHANGED <<posted, report, wire>>
    /\ \A r \in Side : r # s => kept'[r] = kept[r] /\ inbox'[r] = inbox[r] /\ outbox'[r] = outbox[r]
    /\ Thinner(kept'[s] \o inbox'[s], kept[s] \o inbox[s])
    /\ \/ outbox'[s] = outbox[s]
       \/ \E m \in Message :
             /\ outbox'[s] = Append(outbox[s], m)
             /\ m \in Events => /\ acts <= m.n /\ m.n <= acts'
                                /\ s = Server \/ (peer[s] # "gone" /\ m.player = Nobody)
    /\ acts' \in {acts, acts + 1}
    /\ \A c \in Client : peer'[c] = "gone" => peer[c] = "gone"

\* One that has left fires no more.
NothingNew == \A c \in Client : peer[c] = "gone" => ToSet(UpLine(c)') \cap FiredBy(c) \subseteq ToSet(UpLine(c))

UpSets ==
    \A c \in Client :
        ToSet(UpLine(c)) = ToSet(kept[Server]) \cup ToSet(inbox[Server]) \cup ToSet(posted) \cup ToSet(outbox[c])

LEMMA UpSetsNext == MessageInv' => UpSets'
<1>1. MessageInv => UpSets
  BY LinesAre DEF UpSets
<1> QED BY <1>1, PTL

StagesNext ==
    /\ \A s \in Side : kept'[s] \in Seq(Message) /\ inbox'[s] \in Seq(Message) /\ outbox'[s] \in Seq(Message)
    /\ posted' \in Seq(Message) /\ report'.remotes \in Seq(Message)

LEMMA StagesAreNext == MessageInv' => StagesNext
<1> DEFINE St == /\ \A s \in Side : kept[s] \in Seq(Message) /\ inbox[s] \in Seq(Message) /\ outbox[s] \in Seq(Message)
                 /\ posted \in Seq(Message) /\ report.remotes \in Seq(Message)
<1>1. MessageInv => St
  BY StagesAre
<1>2. MessageInv' => St'
  BY <1>1, PTL
<1> QED BY <1>2 DEF StagesNext

LEMMA ActedLines ==
    ASSUME MessageInv, MessageInv', NEW s \in Side, Acted(s)
    PROVE  LinesGo /\ NothingNew
<1>0. Newer(acts, acts') \subseteq Message
  BY DEF Newer
<1>1. /\ \A r \in Side : kept[r] \in Seq(Message) /\ inbox[r] \in Seq(Message) /\ outbox[r] \in Seq(Message)
      /\ \A r \in Side : kept'[r] \in Seq(Message) /\ inbox'[r] \in Seq(Message)
      /\ posted \in Seq(Message) /\ posted' = posted
  BY StagesAre, StagesAreNext DEF StagesNext, Acted
<1>2. \A r \in Side : Thinner(kept'[r] \o inbox'[r], kept[r] \o inbox[r])
  BY ThinnerThings DEF Acted
<1>3. \A r \in Side : r # s => kept'[r] = kept[r] /\ inbox'[r] = inbox[r] /\ outbox'[r] = outbox[r]
  BY DEF Acted
<1>4. \/ outbox'[s] = outbox[s]
      \/ \E m \in Newer(acts, acts') : outbox'[s] = Append(outbox[s], m)
  BY DEF Acted, Newer
<1>5. ASSUME NEW c \in Client PROVE Goes(DownLine(c)', DownLine(c), Newer(acts, acts'))
  <2> DEFINE w == OnWire(c) \o report.remotes
  <2>1. w \in Seq(Message)
    BY StagesAre
  <2>2. DownLine(c)' = InLine(kept'[c], inbox'[c], w, outbox'[Server])
    BY DEF DownLine, OnWire, Acted
  <2>3. DownLine(c) = InLine(kept[c], inbox[c], w, outbox[Server])
    BY DEF DownLine
  <2> HIDE DEF w
  <2>4. c \in Side /\ Server \in Side /\ c # Server
    BY EndsDiffer
  <2>5. \/ Thinner(kept'[c] \o inbox'[c], kept[c] \o inbox[c]) /\ outbox'[Server] = outbox[Server]
        \/ /\ kept'[c] = kept[c] /\ inbox'[c] = inbox[c]
           /\ \E m \in Newer(acts, acts') : outbox'[Server] = Append(outbox[Server], m)
    <3>1. CASE s = Server
      BY <1>2, <1>3, <1>4, <2>4, <3>1
    <3>2. CASE s # Server
      BY <1>2, <1>3, <2>4, <3>2
    <3> QED BY <3>1, <3>2
  <2>6. Goes(InLine(kept'[c], inbox'[c], w, outbox'[Server]),
             InLine(kept[c], inbox[c], w, outbox[Server]), Newer(acts, acts'))
    BY <1>0, <1>1, <2>1, <2>4, <2>5, LineGoes
  <2> QED BY <2>2, <2>3, <2>6
<1>6. ASSUME NEW c \in Client PROVE Goes(UpLine(c)', UpLine(c), Newer(acts, acts'))
  <2>1. c \in Side /\ Server \in Side /\ c # Server
    BY EndsDiffer
  <2>2. UpLine(c)' = InLine(kept'[Server], inbox'[Server], posted, outbox'[c])
    BY <1>1 DEF UpLine
  <2>3. \/ Thinner(kept'[Server] \o inbox'[Server], kept[Server] \o inbox[Server]) /\ outbox'[c] = outbox[c]
        \/ /\ kept'[Server] = kept[Server] /\ inbox'[Server] = inbox[Server]
           /\ \E m \in Newer(acts, acts') : outbox'[c] = Append(outbox[c], m)
    <3>1. CASE s = c
      BY <1>2, <1>3, <1>4, <2>1, <3>1
    <3>2. CASE s # c
      BY <1>2, <1>3, <2>1, <3>2
    <3> QED BY <3>1, <3>2
  <2>4. Goes(InLine(kept'[Server], inbox'[Server], posted, outbox'[c]),
             InLine(kept[Server], inbox[Server], posted, outbox[c]), Newer(acts, acts'))
    BY <1>0, <1>1, <2>1, <2>3, LineGoes
  <2> QED BY <2>2, <2>4 DEF UpLine
<1>7. ASSUME NEW c \in Client, peer[c] = "gone" PROVE ToSet(UpLine(c)') \cap FiredBy(c) \subseteq ToSet(UpLine(c))
  <2>1. c \in Side /\ Server \in Side /\ c # Server
    BY EndsDiffer
  <2>2. ToSet(kept'[Server]) \cup ToSet(inbox'[Server]) \subseteq ToSet(kept[Server]) \cup ToSet(inbox[Server])
    <3>1. ToSet(kept'[Server] \o inbox'[Server]) \subseteq ToSet(kept[Server] \o inbox[Server])
      BY <1>2, <2>1 DEF Thinner
    <3>2. /\ ToSet(kept'[Server] \o inbox'[Server]) = ToSet(kept'[Server]) \cup ToSet(inbox'[Server])
          /\ ToSet(kept[Server] \o inbox[Server]) = ToSet(kept[Server]) \cup ToSet(inbox[Server])
      BY <1>1, <2>1, JoinedSet
    <3> QED BY <3>1, <3>2
  <2>3. ToSet(outbox'[c]) \cap FiredBy(c) \subseteq ToSet(outbox[c])
    <3>1. CASE outbox'[c] = outbox[c]
      BY <3>1
    <3>2. CASE outbox'[c] # outbox[c]
      <4>1. s = c
        BY <1>3, <2>1, <3>2
      <4>2. PICK m \in Message : outbox'[c] = Append(outbox[c], m) /\ m \notin Events
        BY <1>7, <2>1, <3>2, <4>1 DEF Acted
      <4>3. ToSet(outbox'[c]) = ToSet(outbox[c]) \cup {m}
        BY <1>1, <2>1, <4>2, AppendSet
      <4> QED BY <4>2, <4>3 DEF FiredBy
    <3> QED BY <3>1, <3>2
  <2>4. ToSet(UpLine(c)) = ToSet(kept[Server]) \cup ToSet(inbox[Server]) \cup ToSet(posted) \cup ToSet(outbox[c])
    BY LinesAre
  <2>5. ToSet(UpLine(c)') = ToSet(kept'[Server]) \cup ToSet(inbox'[Server]) \cup ToSet(posted') \cup ToSet(outbox'[c])
    BY UpSetsNext DEF UpSets
  <2> QED BY <1>1, <2>2, <2>3, <2>4, <2>5
<1> QED BY <1>5, <1>6, <1>7 DEF LinesGo, NothingNew

LEMMA KeptOfLine ==
    ASSUME NEW k \in Seq(Message), NEW i \in Seq(Message), i # <<>>
    PROVE  Append(k, Head(i)) \o Tail(i) = k \o i
<1> QED OBVIOUS

LEMMA StillActs ==
    ASSUME Still \/ \E s \in Side : Stops(s)
    PROVE  Acted(Server)
<1>1. UNCHANGED <<posted, report, wire, kept, inbox, outbox>>
  BY DEF Still, Stops, inVars, wireVars
<1>2. Thinner(kept'[Server] \o inbox'[Server], kept[Server] \o inbox[Server])
  BY <1>1, ThinnerThings
<1>3. acts' \in {acts, acts + 1} /\ \A c \in Client : peer'[c] = "gone" => peer[c] = "gone"
  BY DEF Still, Stops, Acting
<1> QED BY <1>1, <1>2, <1>3 DEF Acted

LEMMA HandingActs ==
    ASSUME MessageInv, NEW s \in Side, Handing(s)
    PROVE  Acted(s)
<1>1. kept' = [kept EXCEPT ![s] = <<>>] /\ UNCHANGED <<posted, report, wire, inbox, outbox, acts, peer>>
  BY DEF Handing, HandOver, wireVars
<1>2. kept'[s] = <<>> /\ \A r \in Side : r # s => kept'[r] = kept[r]
  BY <1>1 DEF MessageInv, MessageTypes
<1>3. kept[s] \in Seq(Message) /\ inbox[s] \in Seq(Message) /\ <<>> \in Seq(Message)
  BY StagesAre
<1>4. Thinner(<<>> \o inbox[s], kept[s] \o inbox[s])
  BY <1>3, ThinnerThings, ThinnerJoined
<1> QED BY <1>1, <1>2, <1>4 DEF Acted

LEMMA DeliveryActs ==
    ASSUME JoinInv, MessageInv, NEW s \in Side, Delivery(s)
    PROVE  Acted(s)
<1> DEFINE m == Head(inbox[s])
           asOf == IF s = Server THEN made ELSE 0
<1>1. /\ inbox[s] # <<>> /\ m \in Message
      /\ inbox' = [inbox EXCEPT ![s] = Tail(@)]
      /\ UNCHANGED <<posted, joiningVars>>
  BY DeliveryTakes
<1>2. UNCHANGED <<posted, report, wire, acts, peer>>
  BY <1>1 DEF joiningVars, frameVars, wireVars, hostVars
<1>3. inbox'[s] = Tail(inbox[s]) /\ \A r \in Side : r # s => inbox'[r] = inbox[r]
  BY <1>1 DEF MessageInv, MessageTypes
<1>4. kept[s] \in Seq(Message) /\ inbox[s] \in Seq(Message) /\ Tail(inbox[s]) \in Seq(Message)
  BY <1>1, StagesAre
<1>5. kept' = kept \/ kept' = [kept EXCEPT ![s] = Append(@, Head(inbox[s]))]
  BY DEF Delivery, Deliver, DeliverEvent, DeliverInvoke, DeliverResult
<1>6. /\ kept'[s] = kept[s] \/ kept'[s] = Append(kept[s], Head(inbox[s]))
      /\ \A r \in Side : r # s => kept'[r] = kept[r]
  BY <1>5 DEF MessageInv, MessageTypes
<1>7. Thinner(kept'[s] \o inbox'[s], kept[s] \o inbox[s])
  <2>1. CASE kept'[s] = kept[s]
    <3>1. Thinner(kept[s], kept[s]) /\ Thinner(Tail(inbox[s]), inbox[s])
      BY <1>1, <1>4, ThinnerThings
    <3>2. Thinner(kept[s] \o Tail(inbox[s]), kept[s] \o inbox[s])
      BY <1>4, <3>1, ThinnerJoined
    <3> QED BY <1>3, <2>1, <3>2
  <2>2. CASE kept'[s] = Append(kept[s], Head(inbox[s]))
    <3>1. Append(kept[s], Head(inbox[s])) \o Tail(inbox[s]) = kept[s] \o inbox[s]
      BY <1>1, <1>4, KeptOfLine
    <3>2. kept'[s] \o inbox'[s] = kept[s] \o inbox[s]
      BY <1>3, <2>2, <3>1
    <3> QED BY <3>2, ThinnerThings
  <2> QED BY <1>6, <2>1, <2>2
<1>8. /\ \A r \in Side : r # s => outbox'[r] = outbox[r]
      /\ \/ outbox'[s] = outbox[s]
         \/ \E x \in Message : outbox'[s] = Append(outbox[s], x) /\ x \notin Events
  <2>1. UNCHANGED outbox \/ Says(s, Result(m.n, m.player, asOf))
    BY DEF Delivery, Deliver, DeliverEvent, DeliverInvoke, DeliverResult, m, asOf
  <2>2. m.n \in Nat /\ m.player \in Client \cup {Nobody} /\ asOf \in Nat
    BY <1>1 DEF Message, JoinInv, JoiningTypes
  <2>3. Result(m.n, m.player, asOf) \in Message /\ Result(m.n, m.player, asOf) \notin Events
    BY <2>2, Said DEF Events
  <2> HIDE DEF m, asOf
  <2>4. CASE Says(s, Result(m.n, m.player, asOf))
    BY <2>3, <2>4 DEF Says, MessageInv, MessageTypes
  <2> QED BY <2>1, <2>4
<1> QED BY <1>2, <1>3, <1>6, <1>7, <1>8 DEF Acted

LEMMA SpeakerActs ==
    ASSUME MessageInv, NEW s \in Side, NEW m \in Message, Says(s, m),
           UNCHANGED <<posted, report, wire, kept, inbox, peer>>, acts' \in {acts, acts + 1},
           m \in Events => /\ acts <= m.n /\ m.n <= acts'
                           /\ s = Server \/ (peer[s] # "gone" /\ m.player = Nobody)
    PROVE  Acted(s)
<1>1. outbox'[s] = Append(outbox[s], m) /\ \A r \in Side : r # s => outbox'[r] = outbox[r]
  BY DEF Says, MessageInv, MessageTypes
<1>2. Thinner(kept'[s] \o inbox'[s], kept[s] \o inbox[s])
  BY ThinnerThings
<1> QED BY <1>1, <1>2 DEF Acted

LEMMA FiringActs ==
    ASSUME JoinInv, MessageInv, NEW s \in Side, NEW player, NEW for, Fires(s, player, for)
    PROVE  Acted(s)
<1> DEFINE asOf == IF s = Server THEN made ELSE 0
           e == Event(acts', player, asOf)
<1>1. /\ player \in Client \cup {Nobody} /\ Runs(s) /\ acts' = acts + 1
      /\ Says(s, e) /\ UNCHANGED <<inVars, posted, report, wireVars, peer>>
  BY DEF Fires, FiresTo, Fire, Acts, Acting, hostVars
<1>2. acts \in Nat /\ acts' \in Nat /\ asOf \in Nat
  BY <1>1 DEF MessageInv, MessageTypes, JoinInv, JoiningTypes
<1>3. e \in Message /\ e.n = acts' /\ e.player = player
  BY <1>1, <1>2, Said
<1>4. s = Server \/ (peer[s] # "gone" /\ player = Nobody)
  BY <1>1 DEF Runs, Fires
<1> HIDE DEF e, asOf
<1> QED BY <1>1, <1>2, <1>3, <1>4, SpeakerActs DEF inVars, wireVars

LEMMA TalkActs ==
    ASSUME JoinInv, MessageInv, NEW s \in Side, Answers(s) \/ \E player : Calls(s, player)
    PROVE  Acted(s)
<1> DEFINE asOf == IF s = Server THEN made ELSE 0
<1>1. asOf \in Nat
  BY DEF JoinInv, JoiningTypes
<1> HIDE DEF asOf
<1>2. CASE \E player : Calls(s, player)
  <2>1. PICK player : Calls(s, player)
    BY <1>2
  <2>2. player \in Client \cup {Nobody} /\ Call(s, player, asOf) /\ Acts(s)
    BY <2>1 DEF Calls, asOf
  <2>3. calls[s] + 1 \in Nat
    BY DEF MessageInv, MessageTypes
  <2>4. Invoke(calls[s] + 1, player, asOf) \in Message /\ Invoke(calls[s] + 1, player, asOf) \notin Events
    BY <1>1, <2>2, <2>3, Said DEF Events
  <2>5. /\ Says(s, Invoke(calls[s] + 1, player, asOf)) /\ acts' = acts + 1
        /\ UNCHANGED <<posted, report, wire, kept, inbox, peer>>
    BY <2>2 DEF Call, Acts, Acting, inVars, wireVars, hostVars
  <2> QED BY <2>4, <2>5, SpeakerActs
<1>3. CASE Answers(s)
  <2>1. PICK x \in answering : Answer(s, x, asOf)
    BY <1>3 DEF Answers, asOf
  <2>2. x.n \in Nat /\ x.player \in Client \cup {Nobody}
    BY DEF MessageInv, MessageTypes, Answerer
  <2>3. Result(x.n, x.player, asOf) \in Message /\ Result(x.n, x.player, asOf) \notin Events
    BY <1>1, <2>2, Said DEF Events
  <2>4. /\ Says(s, Result(x.n, x.player, asOf))
        /\ UNCHANGED <<posted, report, wire, kept, inbox, acts, peer>>
    BY <1>3, <2>1 DEF Answers, Answer, Quiet, joiningVars, frameVars, wireVars, inVars, hostVars
  <2> QED BY <2>3, <2>4, SpeakerActs
<1> QED BY <1>2, <1>3

\* A step is one end's, or one of the host's.
LEMMA StepActs ==
    ASSUME JoinInv, MessageInv, MessageStep
    PROVE  \/ \E s \in Side : Acted(s)
           \/ Submits \/ Applies \/ FrameEnds
           \/ \E c \in Client : Left(c) \/ Posts(c) \/ Receives(c)
<1>1. ASSUME Still \/ \E s \in Side : Stops(s) PROVE \E s \in Side : Acted(s)
  BY <1>1, StillActs, EndsDiffer
<1>2. ASSUME NEW s \in Side, Delivery(s) \/ Handing(s) \/ Answers(s) PROVE Acted(s)
  BY <1>2, DeliveryActs, HandingActs, TalkActs
<1>3. ASSUME FireAllClients PROVE Acted(Server)
  BY <1>3, Speaking, FiringActs, EndsDiffer
<1>4. ASSUME NEW c \in Client, FireClient(c) \/ FireServer(c) \/ InvokeClient(c) \/ InvokeServer(c)
      PROVE  \E s \in Side : Acted(s)
  BY <1>4, Speaking, FiringActs, TalkActs, EndsDiffer
<1> QED BY <1>1, <1>2, <1>3, <1>4, EndsDiffer DEF MessageStep

LinesThin ==
    \A c \in Client : Thinner(DownLine(c)', DownLine(c)) /\ Thinner(UpLine(c)', UpLine(c))

LEMMA ThinLines ==
    ASSUME LinesThin
    PROVE  LinesGo /\ NothingNew
<1>1. LinesGo
  BY DEF LinesThin, LinesGo, Goes
<1>2. NothingNew
  BY DEF LinesThin, NothingNew, Thinner
<1> QED BY <1>1, <1>2

LEMMA SubmitsLines ==
    ASSUME MessageInv, Submits
    PROVE  LinesThin
<1>1. /\ inbox' = [inbox EXCEPT ![Server] = posted] /\ posted' = <<>> /\ frame = "apply"
      /\ UNCHANGED <<outbox, kept, report, wire>>
  BY DEF Submits, Submit, wireVars
<1>2. inbox[Server] = <<>>
  BY <1>1 DEF MessageInv, Emptied
<1>3. inbox'[Server] = posted /\ \A c \in Client : inbox'[c] = inbox[c]
  BY <1>1, EndsDiffer DEF MessageInv, MessageTypes
<1>4. ASSUME NEW c \in Client PROVE Thinner(DownLine(c)', DownLine(c))
  <2>1. DownLine(c)' = DownLine(c)
    BY <1>1, <1>3 DEF DownLine, OnWire
  <2> QED BY <2>1, ThinnerThings
<1>5. ASSUME NEW c \in Client PROVE Thinner(UpLine(c)', UpLine(c))
  <2>1. kept[Server] \in Seq(Message) /\ posted \in Seq(Message) /\ outbox[c] \in Seq(Message)
    BY StagesAre, EndsDiffer
  <2>2. InLine(kept[Server], posted, <<>>, outbox[c]) = InLine(kept[Server], <<>>, posted, outbox[c])
    BY <2>1, LineSubmitted
  <2>3. UpLine(c)' = InLine(kept[Server], posted, <<>>, outbox[c])
    BY <1>1, <1>3 DEF UpLine
  <2>4. UpLine(c) = InLine(kept[Server], <<>>, posted, outbox[c])
    BY <1>2 DEF UpLine
  <2>5. UpLine(c)' = UpLine(c)
    BY <2>2, <2>3, <2>4
  <2> QED BY <2>5, ThinnerThings
<1> QED BY <1>4, <1>5 DEF LinesThin

LEMMA ReportedLines ==
    ASSUME MessageInv, FrameEnds
    PROVE  LinesThin
<1>1. /\ outbox' = [outbox EXCEPT ![Server] = <<>>] /\ frame = "step" /\ report'.remotes = outbox[Server]
      /\ UNCHANGED <<inbox, kept, posted, wire>>
  BY DEF FrameEnds, EndFrame, Quiet, inVars, wireVars
<1>2. report.remotes = <<>>
  BY <1>1 DEF MessageInv, Emptied
<1>3. outbox'[Server] = <<>> /\ \A c \in Client : outbox'[c] = outbox[c]
  BY <1>1, EndsDiffer DEF MessageInv, MessageTypes
<1>4. ASSUME NEW c \in Client PROVE Thinner(DownLine(c)', DownLine(c))
  <2> DEFINE k == kept[c]
             i == inbox[c]
             w == OnWire(c)
             o == outbox[Server]
  <2>1. k \in Seq(Message) /\ i \in Seq(Message) /\ w \in Seq(Message) /\ o \in Seq(Message)
    BY StagesAre, EndsDiffer
  <2>2. DownLine(c)' = InLine(k, i, w \o o, <<>>)
    BY <1>1, <1>3 DEF DownLine, OnWire
  <2>3. DownLine(c) = InLine(k, i, w \o <<>>, o)
    BY <1>2 DEF DownLine
  <2> HIDE DEF k, i, w, o
  <2>4. InLine(k, i, w \o o, <<>>) = InLine(k, i, w \o <<>>, o)
    BY <2>1, LineReported
  <2>5. DownLine(c)' = DownLine(c)
    BY <2>2, <2>3, <2>4
  <2> QED BY <2>5, ThinnerThings
<1>5. ASSUME NEW c \in Client PROVE Thinner(UpLine(c)', UpLine(c))
  <2>1. UpLine(c)' = UpLine(c)
    BY <1>1, <1>3 DEF UpLine
  <2> QED BY <2>1, ThinnerThings
<1> QED BY <1>4, <1>5 DEF LinesThin

LEMMA LeftLines ==
    ASSUME MessageInv, NEW c \in Client, Left(c)
    PROVE  LinesThin
<1>1. /\ inbox' = [inbox EXCEPT ![c] = <<>>] /\ outbox' = [outbox EXCEPT ![c] = <<>>]
      /\ kept' = [kept EXCEPT ![c] = <<>>] /\ wire' = [wire EXCEPT ![c] = <<>>]
      /\ UNCHANGED <<posted, report>>
  BY DEF Left, Leave, Closes, Quiet, frameVars
<1>2. /\ \A s \in Side : /\ inbox'[s] = IF s = c THEN <<>> ELSE inbox[s]
                         /\ outbox'[s] = IF s = c THEN <<>> ELSE outbox[s]
                         /\ kept'[s] = IF s = c THEN <<>> ELSE kept[s]
      /\ \A d \in Client : wire'[d] = IF d = c THEN <<>> ELSE wire[d]
  BY <1>1 DEF MessageInv, MessageTypes
<1>3. OnWire(c)' = <<>>
  <2>1. OnWire(c)' = FlattenSeq(Carried(wire'[c]))
    BY DEF OnWire, Carried
  <2>2. Carried(<<>>) = <<>>
    BY DEF Carried
  <2> QED BY <1>2, <2>1, <2>2, FlattenNone
<1>4. \A d \in Client : d # c => OnWire(d)' = OnWire(d)
  BY <1>2 DEF OnWire
<1>5. ASSUME NEW d \in Client PROVE Thinner(DownLine(d)', DownLine(d))
  <2>1. CASE d # c
    <3>1. DownLine(d)' = DownLine(d)
      BY <1>1, <1>2, <1>4, <2>1, EndsDiffer DEF DownLine
    <3> QED BY <3>1, ThinnerThings
  <2>2. CASE d = c
    <3> DEFINE k == kept[c]
               i == inbox[c]
               w == OnWire(c)
               r == report.remotes
               o == outbox[Server]
    <3>1. /\ k \in Seq(Message) /\ i \in Seq(Message) /\ w \in Seq(Message) /\ r \in Seq(Message)
          /\ o \in Seq(Message) /\ <<>> \in Seq(Message)
      BY StagesAre, EndsDiffer
    <3>2. DownLine(c)' = InLine(<<>>, <<>>, <<>> \o r, o)
      BY <1>1, <1>2, <1>3, EndsDiffer DEF DownLine
    <3>3. DownLine(c) = InLine(k, i, w \o r, o)
      BY DEF DownLine
    <3> HIDE DEF k, i, w, r, o
    <3>4. Thinner(<<>>, k) /\ Thinner(<<>>, i) /\ Thinner(<<>>, w) /\ Thinner(r, r) /\ Thinner(o, o)
      BY ThinnerThings
    <3> DEFINE ww == w \o r
               rr == <<>> \o r
    <3>5. Thinner(rr, ww)
      BY <3>1, <3>4, ThinnerJoined
    <3>6. ww \in Seq(Message) /\ rr \in Seq(Message)
      BY <3>1
    <3> HIDE DEF ww, rr
    <3>7. Thinner(InLine(<<>>, <<>>, rr, o), InLine(k, i, ww, o))
      BY <3>1, <3>4, <3>5, <3>6, LineThinned
    <3> QED BY <2>2, <3>2, <3>3, <3>7 DEF ww, rr
  <2> QED BY <2>1, <2>2
<1>6. ASSUME NEW d \in Client PROVE Thinner(UpLine(d)', UpLine(d))
  <2> DEFINE k == kept[Server]
             i == inbox[Server]
             w == posted
             o == outbox[d]
             oo == outbox'[d]
  <2>1. k \in Seq(Message) /\ i \in Seq(Message) /\ w \in Seq(Message) /\ o \in Seq(Message)
    BY StagesAre, EndsDiffer
  <2>2. oo = o \/ oo = <<>>
    BY <1>2, EndsDiffer
  <2>3. UpLine(d)' = InLine(k, i, w, oo)
    BY <1>1, <1>2, EndsDiffer DEF UpLine
  <2>4. UpLine(d) = InLine(k, i, w, o)
    BY DEF UpLine
  <2> HIDE DEF k, i, w, o, oo
  <2>5. Thinner(k, k) /\ Thinner(i, i) /\ Thinner(w, w) /\ Thinner(oo, o)
    BY <2>2, ThinnerThings
  <2>6. oo \in Seq(Message)
    <3>1. <<>> \in Seq(Message)
      OBVIOUS
    <3> QED BY <2>1, <2>2, <3>1
  <2>7. Thinner(InLine(k, i, w, oo), InLine(k, i, w, o))
    BY <2>1, <2>5, <2>6, LineThinned
  <2> QED BY <2>3, <2>4, <2>7
<1> QED BY <1>5, <1>6 DEF LinesThin

LEMMA ReceivedLines ==
    ASSUME MessageInv, NEW c \in Client, Receives(c)
    PROVE  LinesThin
<1> DEFINE p == Head(wire[c]).remotes
<1>1. /\ wire[c] # <<>> /\ wire' = [wire EXCEPT ![c] = Tail(@)]
      /\ inbox' = [inbox EXCEPT ![c] = @ \o p]
      /\ UNCHANGED <<outbox, kept, posted, report>>
  BY DEF Receives, Receive, Quiet, frameVars
<1>2. wire[c] \in Seq(PacketType) /\ Tail(wire[c]) \in Seq(PacketType) /\ Head(wire[c]) \in PacketType
  BY <1>1 DEF MessageInv, MessageTypes
<1>3. p \in Seq(Message)
  BY <1>2 DEF PacketType
<1> HIDE DEF p
<1>4. /\ \A d \in Side : inbox'[d] = IF d = c THEN inbox[c] \o p ELSE inbox[d]
      /\ \A d \in Client : wire'[d] = IF d = c THEN Tail(wire[c]) ELSE wire[d]
  BY <1>1 DEF MessageInv, MessageTypes
<1> DEFINE v == Carried(Tail(wire[c]))
           r == FlattenSeq(v)
<1>5. v \in Seq(Seq(Message)) /\ r \in Seq(Message)
  BY <1>2, CarriedType
<1>6. OnWire(c)' = r
  <2>1. OnWire(c)' = FlattenSeq(Carried(wire'[c]))
    BY DEF OnWire, Carried
  <2> QED BY <1>4, <2>1
<1>7. OnWire(c) = p \o r
  <2> DEFINE u == Carried(wire[c])
  <2>1. u \in Seq(Seq(Message)) /\ u # <<>> /\ Head(u) = p /\ Tail(u) = v
    BY <1>1, <1>2, CarriedTail DEF p
  <2>2. OnWire(c) = FlattenSeq(u)
    BY OnWireIs
  <2> HIDE DEF u, v, r
  <2>3. u = <<Head(u)>> \o Tail(u)
    BY <2>1
  <2>4. u = <<p>> \o v
    BY <2>1, <2>3
  <2>5. FlattenSeq(<<p>> \o v) = p \o FlattenSeq(v)
    BY <1>3, <1>5, FlattenFirst
  <2> QED BY <2>2, <2>4, <2>5 DEF r
<1> HIDE DEF v, r
<1>8. ASSUME NEW d \in Client PROVE Thinner(DownLine(d)', DownLine(d))
  <2>1. CASE d # c
    <3>1. DownLine(d)' = DownLine(d)
      BY <1>1, <1>4, <2>1, EndsDiffer DEF DownLine, OnWire
    <3> QED BY <3>1, ThinnerThings
  <2>2. CASE d = c
    <3> DEFINE k == kept[c]
               i == inbox[c]
               w == report.remotes
               o == outbox[Server]
    <3>1. k \in Seq(Message) /\ i \in Seq(Message) /\ w \in Seq(Message) /\ o \in Seq(Message)
      BY StagesAre, EndsDiffer
    <3>2. DownLine(c)' = InLine(k, i \o p, r \o w, o)
      BY <1>1, <1>4, <1>6, EndsDiffer DEF DownLine
    <3>3. DownLine(c) = InLine(k, i, (p \o r) \o w, o)
      BY <1>7 DEF DownLine
    <3> HIDE DEF k, i, w, o
    <3>4. InLine(k, i \o p, r \o w, o) = InLine(k, i, (p \o r) \o w, o)
      BY <1>3, <1>5, <3>1, LineReceived
    <3>5. DownLine(d)' = DownLine(d)
      BY <2>2, <3>2, <3>3, <3>4
    <3> QED BY <3>5, ThinnerThings
  <2> QED BY <2>1, <2>2
<1>9. ASSUME NEW d \in Client PROVE Thinner(UpLine(d)', UpLine(d))
  <2>1. UpLine(d)' = UpLine(d)
    BY <1>1, <1>4, EndsDiffer DEF UpLine
  <2> QED BY <2>1, ThinnerThings
<1> QED BY <1>8, <1>9 DEF LinesThin

Carries(w) == FlattenSeq(Carried(w))

LEMMA CarriesAppend ==
    ASSUME NEW w \in Seq(PacketType), NEW p \in PacketType
    PROVE  /\ Carries(w) \in Seq(Message) /\ p.remotes \in Seq(Message)
           /\ Carries(Append(w, p)) = Carries(w) \o p.remotes
<1>1. Carried(Append(w, p)) = Append(Carried(w), p.remotes) /\ p.remotes \in Seq(Message)
  BY CarriedAppend
<1> DEFINE v == Carried(w)
           e == p.remotes
<1>2. v \in Seq(Seq(Message)) /\ e \in Seq(Message) /\ FlattenSeq(v) \in Seq(Message)
  BY <1>1, CarriedType
<1> HIDE DEF v, e
<1>3. FlattenSeq(Append(v, e)) = FlattenSeq(v) \o e
  BY <1>2, FlattenAppend
<1>4. FlattenSeq(Append(Carried(w), p.remotes)) = Carries(w) \o p.remotes
  BY <1>3 DEF v, e, Carries
<1> QED BY <1>1, <1>2, <1>4 DEF v, Carries

LEMMA CarriesFlushed ==
    ASSUME NEW w \in Seq(PacketType), NEW from \in Int, NEW to \in Int, NEW ms \in Seq(Message)
    PROVE  Carries(w \o Flush(from, to, ms)) = Carries(w) \o ms
<1> DEFINE p == Packet(from, to, ms)
<1>1. Carries(w) \in Seq(Message)
  BY CarriedType DEF Carries
<1>2. CASE from = to /\ ms = <<>>
  <2>1. Flush(from, to, ms) = <<>> /\ w \o <<>> = w
    BY <1>2 DEF Flush
  <2> DEFINE f == Carries(w)
  <2> HIDE DEF f
  <2>2. f \o <<>> = f
    BY <1>1 DEF f
  <2> QED BY <1>2, <2>1, <2>2 DEF f
<1>3. CASE ~(from = to /\ ms = <<>>)
  <2>1. Flush(from, to, ms) = <<p>>
    BY <1>3 DEF Flush
  <2>2. p \in PacketType /\ p.remotes = ms
    BY FlushType DEF Packet
  <2> HIDE DEF p
  <2>3. w \o <<p>> = Append(w, p)
    BY <2>2
  <2>4. Carries(Append(w, p)) = Carries(w) \o ms
    BY <2>2, CarriesAppend
  <2> QED BY <2>1, <2>3, <2>4
<1> QED BY <1>2, <1>3

\* apply_server puts what is for a client behind all that it was sent, or sends it nothing.
LEMMA CarriesSent ==
    ASSUME JoinInv, MessageInv, NEW c \in Client
    PROVE  \E x \in {<<>>, RemotesFor(c)} : Carries(wire[c] \o Sent(c)) = Carries(wire[c]) \o x
<1>1. /\ report.from \in Int /\ report.to \in Int /\ report.remotes \in Seq(Message)
      /\ join.before \in Int /\ join.asOf \in Int /\ wire[c] \in Seq(PacketType)
  <2>1. report.from \in Int /\ report.to \in Int /\ report.remotes \in Seq(Message)
    BY DEF MessageInv, MessageTypes, PacketType
  <2>2. join.before \in Int /\ join.asOf \in Int
    BY DEF JoinInv, JoiningTypes
  <2> QED BY <2>1, <2>2 DEF MessageInv, MessageTypes
<1>2. RemotesFor(c) \in Seq(Message)
  BY <1>1, ForSome DEF RemotesFor
<1>3. CASE Welcomes(c)
  <2> DEFINE w == Packet(-1, join.asOf, <<>>)
             fl == Flush(report.from, report.to, RemotesFor(c))
             x == wire[c]
  <2>1. Sent(c) = <<w>> \o fl
    BY <1>3 DEF Sent
  <2>2. fl \in Seq(PacketType) /\ w \in PacketType /\ w.remotes = <<>> /\ x \in Seq(PacketType)
    <3>1. <<>> \in Seq(Message) /\ -1 \in Int
      OBVIOUS
    <3> QED BY <1>1, <1>2, <3>1, FlushType DEF Packet
  <2> HIDE DEF w, fl, x
  <2> DEFINE a == Append(x, w)
  <2>3. a \in Seq(PacketType)
    BY <2>2
  <2>4. x \o (<<w>> \o fl) = a \o fl
    BY <2>2, PushedFirst
  <2>5. Carries(x) \in Seq(Message) /\ Carries(a) = Carries(x) \o <<>>
    BY <2>2, CarriesAppend
  <2> HIDE DEF a
  <2>6. Carries(a) = Carries(x)
    <3> DEFINE f == Carries(x)
    <3>1. f \in Seq(Message)
      BY <2>5
    <3> HIDE DEF f
    <3>2. f \o <<>> = f
      BY <3>1
    <3> QED BY <2>5, <3>2 DEF f
  <2>7. Carries(a \o fl) = Carries(a) \o RemotesFor(c)
    BY <1>1, <1>2, <2>3, CarriesFlushed DEF fl
  <2>8. Carries(wire[c] \o Sent(c)) = Carries(wire[c]) \o RemotesFor(c)
    BY <2>1, <2>4, <2>6, <2>7 DEF x
  <2> QED BY <2>8
<1>4. CASE peer[c] = "joined" /\ ~Welcomes(c)
  <2> DEFINE from == IF Joining THEN join.before ELSE report.from
  <2>1. Sent(c) = Flush(from, report.to, RemotesFor(c))
    BY <1>4 DEF Sent
  <2>2. from \in Int
    BY <1>1
  <2> HIDE DEF from
  <2>3. Carries(wire[c] \o Sent(c)) = Carries(wire[c]) \o RemotesFor(c)
    BY <1>1, <1>2, <2>1, <2>2, CarriesFlushed
  <2> QED BY <2>3
<1>5. CASE ~Welcomes(c) /\ peer[c] # "joined"
  <2>1. Sent(c) = <<>> /\ wire[c] \o <<>> = wire[c]
    BY <1>1, <1>5 DEF Sent
  <2>2. Carries(wire[c]) \in Seq(Message)
    BY <1>1, CarriedType DEF Carries
  <2> DEFINE f == Carries(wire[c])
  <2> HIDE DEF f
  <2>3. f \o <<>> = f
    BY <2>2 DEF f
  <2>4. Carries(wire[c] \o Sent(c)) = Carries(wire[c]) \o <<>>
    BY <2>1, <2>3 DEF f
  <2> QED BY <2>4
<1> QED BY <1>3, <1>4, <1>5

LEMMA AppliedLines ==
    ASSUME JoinInv, MessageInv, Applies
    PROVE  LinesThin
<1>1. /\ report' = NoReport
      /\ wire' = [c \in Client |-> wire[c] \o Sent(c)]
      /\ UNCHANGED <<inbox, outbox, kept, posted>>
  BY DEF Applies, ApplyServer, NoRemotes, remoteVars, inVars
<1>2. report'.remotes = <<>>
  BY <1>1 DEF NoReport
<1>3. ASSUME NEW c \in Client PROVE Thinner(DownLine(c)', DownLine(c))
  <2> DEFINE k == kept[c]
             i == inbox[c]
             w == OnWire(c)
             r == report.remotes
             o == outbox[Server]
  <2>1. k \in Seq(Message) /\ i \in Seq(Message) /\ w \in Seq(Message) /\ r \in Seq(Message) /\ o \in Seq(Message)
    BY StagesAre, EndsDiffer
  <2>2. PICK x \in {<<>>, RemotesFor(c)} : Carries(wire[c] \o Sent(c)) = Carries(wire[c]) \o x
    BY CarriesSent
  <2>3. x \in Seq(Message) /\ Thinner(x, r)
    <3>1. RemotesFor(c) \in Seq(Message)
      BY <2>1, ForSome DEF RemotesFor
    <3>2. Thinner(RemotesFor(c), r)
      BY <2>1, ThinnerThings DEF RemotesFor, For
    <3>3. <<>> \in Seq(Message) /\ Thinner(<<>>, r)
      BY ThinnerThings
    <3> QED BY <2>2, <3>1, <3>2, <3>3
  <2>4. OnWire(c)' = w \o x
    <3>1. OnWire(c)' = Carries(wire'[c])
      BY DEF OnWire, Carried, Carries
    <3>2. wire'[c] = wire[c] \o Sent(c)
      BY <1>1
    <3>3. w = Carries(wire[c])
      BY OnWireIs DEF Carries
    <3> QED BY <2>2, <3>1, <3>2, <3>3
  <2>5. DownLine(c)' = InLine(k, i, (w \o x) \o <<>>, o)
    BY <1>1, <1>2, <2>4 DEF DownLine
  <2>6. DownLine(c) = InLine(k, i, w \o r, o)
    BY DEF DownLine
  <2> HIDE DEF k, i, w, r, o
  <2> DEFINE ww == w \o r
             xx == w \o x
  <2>7. ww \in Seq(Message) /\ xx \in Seq(Message)
    BY <2>1, <2>3
  <2>8. Thinner(w, w) /\ Thinner(k, k) /\ Thinner(i, i) /\ Thinner(o, o)
    BY ThinnerThings
  <2>9. Thinner(xx, ww)
    BY <2>1, <2>3, <2>8, ThinnerJoined
  <2> HIDE DEF ww, xx
  <2>10. xx \o <<>> = xx
    BY <2>7
  <2>11. Thinner(InLine(k, i, xx, o), InLine(k, i, ww, o))
    BY <2>1, <2>7, <2>8, <2>9, LineThinned
  <2>12. DownLine(c)' = InLine(k, i, xx, o)
    BY <2>5, <2>10 DEF xx
  <2>13. DownLine(c) = InLine(k, i, ww, o)
    BY <2>6 DEF ww
  <2> QED BY <2>11, <2>12, <2>13
<1>4. ASSUME NEW c \in Client PROVE Thinner(UpLine(c)', UpLine(c))
  <2>1. UpLine(c)' = UpLine(c)
    BY <1>1 DEF UpLine
  <2> QED BY <2>1, ThinnerThings
<1> QED BY <1>3, <1>4 DEF LinesThin

\* What a client says has no Player until the host stamps it.
Unstamped == \A c \in Client : \A m \in ToSet(outbox[c]) \cap Events : m.player = Nobody

LEMMA PostedLines ==
    ASSUME MessageInv, MessageInv', OrderInv, Unstamped, NEW c \in Client, Posts(c)
    PROVE  OrderInv' /\ NothingNew
<1> DEFINE h == Head(outbox[c])
           e == [h EXCEPT !.player = c]
           tl == Tail(outbox[c])
<1>1. /\ outbox[c] # <<>> /\ posted' = Append(posted, e) /\ outbox' = [outbox EXCEPT ![c] = tl]
      /\ peer[c] = "joined"
      /\ UNCHANGED <<inbox, kept, report, wire, acts, peer>>
  BY DEF Posts, joiningVars, hostVars, frameVars, wireVars, inVars
<1>2. /\ outbox[c] \in Seq(Message) /\ h \in Message /\ tl \in Seq(Message)
      /\ ToSet(outbox[c]) = {h} \cup ToSet(tl)
  <2>1. outbox[c] \in Seq(Message)
    BY StagesAre, EndsDiffer
  <2> QED BY <1>1, <2>1, HeadAndTail
<1>3. e \in Message /\ e.player = c /\ e.n = h.n /\ e.kind = h.kind
  BY <1>2 DEF Message
<1> HIDE DEF e, tl
<1>4. /\ outbox'[Server] = outbox[Server]
      /\ \A d \in Client : outbox'[d] = IF d = c THEN tl ELSE outbox[d]
  BY <1>1, EndsDiffer DEF MessageInv, MessageTypes
<1>5. acts \in Nat /\ acts' = acts
  BY <1>1 DEF MessageInv, MessageTypes
<1>6. e \in Events => h \in Events /\ h \in FiredBy(c) /\ h.n <= acts
  <2> SUFFICES ASSUME e \in Events PROVE h \in Events /\ h \in FiredBy(c) /\ h.n <= acts
    OBVIOUS
  <2>1. h \in Events
    BY <1>2, <1>3 DEF Events
  <2>2. h.player = Nobody
    BY <1>2, <2>1 DEF Unstamped
  <2>3. h \in ToSet(UpLine(c))
    BY <1>2, LinesAre
  <2> QED BY <2>1, <2>2, <2>3 DEF FiredBy, OrderInv, Lined
<1>7. \A d \in Client : d # c => e \notin FiredBy(d)
  BY <1>3, EndsDiffer DEF FiredBy
<1>8. ASSUME NEW d \in Client PROVE Lined(DownLine(d)', Events, acts)
  <2>1. DownLine(d)' = DownLine(d)
    BY <1>1, <1>4 DEF DownLine, OnWire
  <2> QED BY <2>1 DEF OrderInv
<1>9. ASSUME NEW d \in Client
      PROVE  /\ Lined(UpLine(d)', FiredBy(d), acts)
             /\ d # c => ToSet(UpLine(d)') \cap FiredBy(d) \subseteq ToSet(UpLine(d))
  <2> DEFINE k == kept[Server]
             i == inbox[Server]
             w == posted
             o == outbox[d]
             oo == outbox'[d]
             we == Append(w, e)
             L == Later(FiredBy(d))
  <2>1. k \in Seq(Message) /\ i \in Seq(Message) /\ w \in Seq(Message) /\ o \in Seq(Message) /\ oo \in Seq(Message)
    <3>1. oo \in Seq(Message)
      BY <1>4, <1>2, StagesAre, EndsDiffer
    <3> QED BY <3>1, StagesAre, EndsDiffer
  <2>2. UpLine(d) = InLine(k, i, w, o) /\ UpLine(d)' = InLine(k, i, we, oo)
    BY <1>1, <1>4 DEF UpLine
  <2>3. Ordered(InLine(k, i, w, o), L) /\ \A m \in ToSet(InLine(k, i, w, o)) \cap Events : m.n <= acts
    BY <2>2 DEF OrderInv, Lined
  <2>4. IF d = c THEN oo = tl /\ o # <<>> /\ h = Head(o) /\ tl = Tail(o) ELSE oo = o
    BY <1>1, <1>4 DEF tl
  <2> HIDE DEF k, i, w, o, oo, h, L
  <2>5. /\ Ordered(k, L) /\ Ordered(i, L) /\ Ordered(w, L) /\ Ordered(o, L)
        /\ AllBefore(k, i, L) /\ AllBefore(k, w, L) /\ AllBefore(k, o, L)
        /\ AllBefore(i, w, L) /\ AllBefore(i, o, L) /\ AllBefore(w, o, L)
        /\ ToSet(InLine(k, i, w, o)) = ToSet(k) \cup ToSet(i) \cup ToSet(w) \cup ToSet(o)
        /\ ToSet(k) \cup ToSet(i) \cup ToSet(w) \cup ToSet(o) \subseteq Message
    <3>1. ToSet(k) \cup ToSet(i) \cup ToSet(w) \cup ToSet(o) \subseteq Message
      BY <2>1 DEF ToSet
    <3> QED BY <2>1, <2>3, <3>1, LineParts
  <2>6. Thinner(oo, o) /\ ToSet(oo) \subseteq ToSet(o)
    BY <2>1, <2>4, ThinnerThings DEF Thinner
  <2>7. Thinner(InLine(k, i, w, oo), InLine(k, i, w, o))
    BY <2>1, <2>6, LineThinned, ThinnerThings
  <2>8. \A x \in ToSet(k) \cup ToSet(i) \cup ToSet(w) : <<x, e>> \in L
    <3> SUFFICES ASSUME NEW x \in ToSet(k) \cup ToSet(i) \cup ToSet(w) PROVE <<x, e>> \in L
      OBVIOUS
    <3>1. x \in Message
      BY <2>5
    <3>2. CASE d = c /\ e \in FiredBy(c)
      <4>1. h \in ToSet(o) /\ h \in FiredBy(c)
        BY <1>6, <2>1, <2>4, <3>2, HeadAndTail DEF FiredBy
      <4>2. <<x, h>> \in L
        BY <2>5, <4>1 DEF AllBefore
      <4> QED BY <1>3, <3>1, <3>2, <4>1, <4>2 DEF L, Later
    <3>3. CASE ~(d = c /\ e \in FiredBy(c))
      BY <1>3, <1>7, <3>1, <3>3 DEF L, Later
    <3> QED BY <3>2, <3>3
  <2>9. \A y \in ToSet(oo) : <<e, y>> \in L
    <3> SUFFICES ASSUME NEW y \in ToSet(oo) PROVE <<e, y>> \in L
      OBVIOUS
    <3>1. y \in Message
      BY <2>5, <2>6
    <3>2. CASE d = c /\ e \in FiredBy(c)
      <4>1. h \in FiredBy(c)
        BY <1>6, <3>2 DEF FiredBy
      <4>2. <<h, y>> \in L
        BY <2>1, <2>4, <2>5, <3>2, TailOrdered
      <4> QED BY <1>3, <3>1, <3>2, <4>1, <4>2 DEF L, Later
    <3>3. CASE ~(d = c /\ e \in FiredBy(c))
      BY <1>3, <1>7, <3>1, <3>3 DEF L, Later
    <3> QED BY <3>2, <3>3
  <2>10. Ordered(InLine(k, i, w, oo), L)
    BY <2>3, <2>7 DEF Thinner
  <2>11. Ordered(InLine(k, i, we, oo), L)
    BY <1>3, <2>1, <2>8, <2>9, <2>10, LinePosts
  <2>12. ToSet(InLine(k, i, we, oo)) \subseteq ToSet(InLine(k, i, w, o)) \cup {e}
    <3>1. we \in Seq(Message) /\ ToSet(we) = ToSet(w) \cup {e}
      BY <1>3, <2>1, AppendSet
    <3> HIDE DEF we
    <3>2. ToSet(InLine(k, i, we, oo)) = ToSet(k) \cup ToSet(i) \cup ToSet(we) \cup ToSet(oo)
      BY <2>1, <3>1, LineParts
    <3> QED BY <2>5, <2>6, <3>1, <3>2
  <2>13. \A m \in ToSet(InLine(k, i, we, oo)) \cap Events : m.n <= acts
    BY <1>3, <1>6, <2>3, <2>12
  <2>14. Lined(UpLine(d)', FiredBy(d), acts)
    BY <2>2, <2>11, <2>13 DEF Lined, L
  <2> QED BY <1>7, <2>2, <2>12, <2>14
<1>10. \A d \in Client : Lined(DownLine(d), Events, acts)' /\ Lined(UpLine(d), FiredBy(d), acts)'
  BY <1>5, <1>8, <1>9 DEF Lined, Later, FiredBy, Ordered
<1>11. NothingNew
  BY <1>1, <1>9 DEF NothingNew
<1> QED BY <1>10, <1>11 DEF OrderInv


\* Every step keeps the lines in order.
LEMMA StepOrder ==
    ASSUME JoinInv, MessageInv, MessageInv', OrderInv, Unstamped, MessageStep
    PROVE  OrderInv' /\ NothingNew
<1>1. acts \in Nat /\ acts + 1 >= acts /\ acts >= acts
  BY DEF MessageInv, MessageTypes
<1>2. ASSUME NEW s \in Side, Acted(s) PROVE OrderInv' /\ NothingNew
  <2>1. acts' >= acts
    BY <1>1, <1>2 DEF Acted
  <2> QED BY <1>2, <2>1, ActedLines, OrderGoes
<1>3. ASSUME LinesThin, acts' = acts PROVE OrderInv' /\ NothingNew
  BY <1>1, <1>3, ThinLines, OrderGoes
<1>4. CASE Submits
  BY <1>3, <1>4, SubmitsLines DEF Submits, Submit
<1>5. CASE Applies
  BY <1>3, <1>5, AppliedLines DEF Applies, ApplyServer
<1>6. CASE FrameEnds
  BY <1>3, <1>6, ReportedLines DEF FrameEnds, EndFrame
<1>7. ASSUME NEW c \in Client, Left(c) \/ Receives(c) PROVE OrderInv' /\ NothingNew
  <2>1. acts' = acts
    BY <1>7 DEF Left, Leave, Receives, Receive, frameVars
  <2> QED BY <1>3, <1>7, <2>1, LeftLines, ReceivedLines
<1>8. ASSUME NEW c \in Client, Posts(c) PROVE OrderInv' /\ NothingNew
  BY <1>8, PostedLines
<1> QED BY <1>2, <1>4, <1>5, <1>6, <1>7, <1>8, StepActs

\* A kept firing is of the client it says.
KeptFrom == \A m \in ToSet(kept[Server]) : \A f \in firings : f.n = m.n => m.player = f.by

\* The world of one that has left is closed.
Hushed == \A c \in Client : peer[c] = "gone" => inbox[c] = <<>> /\ kept[c] = <<>>

\* What has left with its client left with all that was behind it.
LostBehind ==
    \A f \in firings :
        f.by \in Client /\ peer[f.by] = "gone" /\ Held(f.n, Server) + UpOf("event", f.n, f.by) = 0
            => \A m \in ToSet(UpLine(f.by)) \cap FiredBy(f.by) : m.n <= f.n

LEMMA CountHas ==
    ASSUME NEW S, NEW s \in Seq(S), NEW T, NEW m \in ToSet(s), m \in T
    PROVE  CountIn(s, T) \in Nat /\ CountIn(s, T) # 0
BY CountType

LEMMA EventIs ==
    ASSUME NEW m \in Events
    PROVE  m \in Message /\ m.n \in Nat /\ m \in Numbered("event", m.n) /\ m \in NumberedFrom("event", m.n, m.player)
BY DEF Events, Message, Numbered, NumberedFrom

\* A firing that the server is handed is of the client it is stamped with.
LEMMA SenderIs ==
    ASSUME MessageInv, FlowInv, NEW m \in ToSet(inbox[Server]) \cap Events, NEW g \in firings, g.n = m.n
    PROVE  m.player = g.by
<1>1. m.player \in Client
  BY DEF MessageInv, FromClients, Range, ToSet
<1> DEFINE T == NumberedFrom("event", m.n, m.player)
<1>2. CountIn(inbox[Server], T) \in Nat /\ CountIn(inbox[Server], T) # 0
  <2>1. inbox[Server] \in Seq(Message) /\ m \in T
    BY EventIs, StagesAre, EndsDiffer
  <2> HIDE DEF T
  <2> QED BY <2>1, CountHas
<1>3. CountIn(outbox[m.player], Numbered("event", m.n)) \in Nat /\ CountIn(posted, T) \in Nat
  BY <1>1, CountsAreNat, EndsDiffer
<1>4. UpOf("event", g.n, m.player) # 0
  <2>1. UpOf("event", g.n, m.player) = CountIn(outbox[m.player], Numbered("event", m.n))
                                           + CountIn(posted, T) + CountIn(inbox[Server], T)
    BY DEF UpOf
  <2> HIDE DEF T
  <2> QED BY <1>2, <1>3, <2>1
<1> QED BY <1>1, <1>4 DEF FlowInv, ToPlayers, ToServer

-----------------------------------------------------------------------------
\* What the server keeps it was handed.
LEMMA KeptComes ==
    ASSUME JoinInv, MessageInv, MessageInv', MessageStep
    PROVE  ToSet(kept'[Server]) \subseteq ToSet(kept[Server]) \cup (ToSet(inbox[Server]) \cap Events)
<1>1. Server \in Side /\ \A c \in Client : c # Server
  BY EndsDiffer
<1>2. ASSUME NEW s \in Side, Acted(s)
      PROVE  ToSet(kept'[Server]) \subseteq ToSet(kept[Server]) \cup ToSet(inbox[Server])
  <2>1. CASE s # Server
    BY <1>1, <1>2, <2>1 DEF Acted
  <2>2. CASE s = Server
    <3>1. /\ kept[s] \in Seq(Message) /\ inbox[s] \in Seq(Message)
          /\ kept'[s] \in Seq(Message) /\ inbox'[s] \in Seq(Message)
      BY StagesAre, StagesAreNext DEF StagesNext
    <3>2. ToSet(kept'[s] \o inbox'[s]) \subseteq ToSet(kept[s] \o inbox[s])
      BY <1>2 DEF Acted, Thinner
    <3>3. /\ ToSet(kept'[s] \o inbox'[s]) = ToSet(kept'[s]) \cup ToSet(inbox'[s])
          /\ ToSet(kept[s] \o inbox[s]) = ToSet(kept[s]) \cup ToSet(inbox[s])
      BY <3>1, JoinedSet
    <3> QED BY <2>2, <3>2, <3>3
  <2> QED BY <2>1, <2>2
<1>3. Submits \/ Applies \/ FrameEnds => kept' = kept
  BY DEF Submits, Applies, FrameEnds, NoRemotes, remoteVars, inVars
<1>4. ASSUME NEW c \in Client, Left(c) \/ Posts(c) \/ Receives(c) PROVE kept'[Server] = kept[Server]
  <2>1. kept' = kept \/ kept' = [kept EXCEPT ![c] = <<>>]
    BY <1>4 DEF Left, Closes, Posts, Receives, inVars
  <2> QED BY <1>1, <2>1 DEF MessageInv, MessageTypes
<1>5. ToSet(kept'[Server]) \subseteq ToSet(kept[Server]) \cup ToSet(inbox[Server])
  BY <1>2, <1>3, <1>4, StepActs
<1>6. ToSet(kept'[Server]) \subseteq Events
  BY <1>1 DEF MessageInv, MessageTypes, ToSet
<1> QED BY <1>5, <1>6

LEMMA StepUnstamped ==
    ASSUME JoinInv, MessageInv, MessageStep, Unstamped
    PROVE  Unstamped'
<1>1. \A c \in Client : c \in Side /\ c # Server /\ outbox[c] \in Seq(Message)
  BY StagesAre, EndsDiffer
<1>2. ASSUME NEW s \in Side, Acted(s), NEW c \in Client, NEW m \in ToSet(outbox'[c]) \cap Events
      PROVE  m.player = Nobody
  <2>1. CASE m \in ToSet(outbox[c])
    BY <1>2, <2>1 DEF Unstamped
  <2>2. CASE m \notin ToSet(outbox[c])
    <3>1. s = c
      BY <1>1, <1>2, <2>2 DEF Acted
    <3>2. PICK x \in Message : /\ outbox'[c] = Append(outbox[c], x)
                               /\ x \in Events => x.player = Nobody
      BY <1>1, <1>2, <2>2, <3>1 DEF Acted
    <3>3. ToSet(outbox'[c]) = ToSet(outbox[c]) \cup {x}
      BY <1>1, <3>2, AppendSet
    <3> QED BY <1>2, <2>2, <3>2, <3>3
  <2> QED BY <2>1, <2>2
<1>3. ASSUME \A c \in Client : ToSet(outbox'[c]) \subseteq ToSet(outbox[c]) PROVE Unstamped'
  BY <1>3 DEF Unstamped, Events, Message
<1>4. Submits \/ Applies => outbox' = outbox
  BY DEF Submits, Applies, NoRemotes, remoteVars
<1>5. FrameEnds => \A c \in Client : outbox'[c] = outbox[c]
  BY <1>1 DEF FrameEnds, MessageInv, MessageTypes
<1>6. ASSUME NEW d \in Client, Left(d) \/ Posts(d) \/ Receives(d), NEW c \in Client
      PROVE  ToSet(outbox'[c]) \subseteq ToSet(outbox[c])
  <2>1. \/ outbox' = outbox
        \/ outbox' = [outbox EXCEPT ![d] = <<>>]
        \/ outbox[d] # <<>> /\ outbox' = [outbox EXCEPT ![d] = Tail(@)]
    BY <1>6 DEF Left, Closes, Posts, Receives
  <2>2. outbox'[c] \in {outbox[c], <<>>} \/ (outbox[c] # <<>> /\ outbox'[c] = Tail(outbox[c]))
    BY <1>1, <2>1 DEF MessageInv, MessageTypes
  <2>3. outbox[c] # <<>> => ToSet(Tail(outbox[c])) \subseteq ToSet(outbox[c])
    BY <1>1, HeadAndTail
  <2> QED BY <2>2, <2>3, EmptyList
<1>7. CASE \E s \in Side : Acted(s)
  BY <1>2, <1>7 DEF Unstamped, Events, Message
<1>8. CASE Submits \/ Applies \/ FrameEnds \/ \E c \in Client : Left(c) \/ Posts(c) \/ Receives(c)
  BY <1>3, <1>4, <1>5, <1>6, <1>8
<1> QED BY <1>7, <1>8, StepActs

LEMMA StepKeptFrom ==
    ASSUME JoinInv, MessageInv, MessageInv', FlowInv, KeptFrom, MessageStep
    PROVE  KeptFrom'
<1> SUFFICES ASSUME NEW m \in ToSet(kept'[Server]), NEW f \in firings', f.n = m.n PROVE m.player = f.by
  BY DEF KeptFrom
<1>1. m \in ToSet(kept[Server]) \/ m \in ToSet(inbox[Server]) \cap Events
  BY KeptComes
<1>2. CASE f \in firings
  BY <1>1, <1>2, SenderIs DEF KeptFrom
<1>3. CASE f \notin firings
  <2>1. PICK s \in Side : \E player, for : Fires(s, player, for)
    BY <1>3, FlowsOrFires
  <2>2. PICK player, for : Fires(s, player, for)
    BY <2>1
  <2>3. acts' = acts + 1 /\ acts \in Nat /\ f.n = acts'
    BY <1>3, <2>2, FiringCounts
  <2>4. kept'[Server] = kept[Server]
    BY <2>2 DEF Fires, FiresTo, Fire, inVars
  <2>5. m \in Events /\ kept[Server] \in Seq(Message) /\ Server \in Side
    <3>1. kept[Server] \in Seq(Events)
      BY EndsDiffer DEF MessageInv, MessageTypes
    <3>2. m \in ToSet(kept[Server])
      BY <2>4
    <3> QED BY <3>1, <3>2, StagesAre, EndsDiffer DEF ToSet
  <2>6. Held(m.n, Server) = 0
    <3>1. m.n \in Nat /\ m.n > acts
      BY <2>3
    <3> QED BY <3>1 DEF FlowInv, Nowhere
  <2>7. CountIn(kept[Server], Numbered("event", m.n)) # 0
    BY <2>4, <2>5, EventIs, CountHas
  <2>8. /\ CountIn(kept[Server], Numbered("event", m.n)) \in Nat
        /\ CountIn(heard[Server], {m.n}) \in Nat /\ CountIn(lost[Server], {m.n}) \in Nat
    BY <2>5, CountsAreNat
  <2> QED BY <2>6, <2>7, <2>8 DEF Held
<1> QED BY <1>2, <1>3

LEMMA StepHushed ==
    ASSUME JoinInv, MessageInv, MessageInv', Hushed, MessageStep
    PROVE  Hushed'
<1>1. \A c \in Client : c \in Side /\ c # Server
  BY EndsDiffer
<1>2. ASSUME NEW s \in Side, Acted(s), NEW c \in Client, peer'[c] = "gone" PROVE inbox'[c] = <<>> /\ kept'[c] = <<>>
  <2>1. inbox[c] = <<>> /\ kept[c] = <<>>
    BY <1>2 DEF Acted, Hushed
  <2>2. CASE s # c
    BY <1>1, <1>2, <2>1, <2>2 DEF Acted
  <2>3. CASE s = c
    <3>1. kept'[c] \in Seq(Message) /\ inbox'[c] \in Seq(Message)
      BY <1>1, StagesAreNext DEF StagesNext
    <3>2. ToSet(kept'[c] \o inbox'[c]) = {}
      <4>1. <<>> \o <<>> = <<>>
        OBVIOUS
      <4> QED BY <1>2, <2>1, <2>3, <4>1, EmptyList DEF Acted, Thinner
    <3>3. ToSet(kept'[c]) = {} /\ ToSet(inbox'[c]) = {}
      BY <3>1, <3>2, JoinedSet
    <3>4. ASSUME NEW l \in Seq(Message), ToSet(l) = {} PROVE l = <<>>
      <4>1. ASSUME l # <<>> PROVE ToSet(l) = {Head(l)} \cup ToSet(Tail(l))
        BY <4>1, HeadAndTail
      <4> QED BY <3>4, <4>1
    <3> QED BY <3>1, <3>3, <3>4
  <2> QED BY <2>2, <2>3
<1>3. Submits \/ FrameEnds => peer' = peer /\ kept' = kept /\ \A c \in Client : inbox'[c] = inbox[c]
  BY <1>1 DEF Submits, Submit, FrameEnds, EndFrame, inVars, hostVars, MessageInv, MessageTypes
<1>4. ASSUME Applies PROVE Hushed'
  <2>1. inbox' = inbox /\ kept' = kept /\ peer' = [c \in Client |-> IF Welcomes(c) THEN "joined" ELSE peer[c]]
    BY <1>4 DEF Applies, ApplyServer, NoRemotes, remoteVars, inVars
  <2>2. \A c \in Client : peer'[c] = "gone" => peer[c] = "gone"
    BY <2>1
  <2> QED BY <2>1, <2>2 DEF Hushed
<1>5. ASSUME NEW d \in Client, Left(d) PROVE Hushed'
  <2>1. /\ inbox' = [inbox EXCEPT ![d] = <<>>] /\ kept' = [kept EXCEPT ![d] = <<>>]
        /\ peer' = [peer EXCEPT ![d] = "gone"]
    BY <1>5 DEF Left, Leave, Closes
  <2> QED BY <1>1, <2>1 DEF Hushed, MessageInv, MessageTypes, JoinInv, JoiningTypes
<1>6. ASSUME NEW d \in Client, Posts(d) PROVE Hushed'
  BY <1>6 DEF Posts, Hushed, inVars, joiningVars, hostVars
<1>7. ASSUME NEW d \in Client, Receives(d) PROVE Hushed'
  <2>1. /\ inbox' = [inbox EXCEPT ![d] = @ \o Head(wire[d]).remotes] /\ wire[d] # <<>>
        /\ kept' = kept /\ peer' = peer
    BY <1>7 DEF Receives, Receive, hostVars
  <2>2. peer[d] # "gone" /\ \A c \in Client : c # d => inbox'[c] = inbox[c]
    BY <1>1, <2>1 DEF MessageInv, MessageTypes, Emptied
  <2> QED BY <2>1, <2>2 DEF Hushed
<1>8. CASE \E s \in Side : Acted(s)
  BY <1>2, <1>8 DEF Hushed
<1>9. CASE Submits \/ FrameEnds
  BY <1>3, <1>9 DEF Hushed
<1> QED BY <1>4, <1>5, <1>6, <1>7, <1>8, <1>9, StepActs

\* Of a firing that leaves with its client the message was among the last.
LEMMA LeftBehind ==
    ASSUME MessageInv, OrderInv, Unstamped, FlowInv, NEW b \in Client, Left(b),
           NEW f \in firings, f.by = b, peer[b] # "gone",
           Held(f.n, Server)' + UpOf("event", f.n, b)' = 0,
           NEW m \in ToSet(UpLine(b)') \cap FiredBy(b), UpSets'
    PROVE  m.n <= f.n
<1> DEFINE N == Numbered("event", f.n)
           G == NumberedFrom("event", f.n, b)
<1>1. /\ inbox' = [inbox EXCEPT ![b] = <<>>] /\ outbox' = [outbox EXCEPT ![b] = <<>>]
      /\ kept' = [kept EXCEPT ![b] = <<>>] /\ UNCHANGED <<posted, heard, lost>>
  BY DEF Left, Leave, Closes, Quiet, frameVars
<1>2. /\ inbox'[Server] = inbox[Server] /\ kept'[Server] = kept[Server] /\ outbox'[b] = <<>>
      /\ Server \in Side /\ b \in Side /\ b # Server
  BY <1>1, EndsDiffer DEF MessageInv, MessageTypes
<1>3. ToServer(f) /\ f.n \in Nat
  BY EndsDiffer DEF FlowInv, ToPlayers
<1>4. Held(f.n, Server)' = Held(f.n, Server) /\ Held(f.n, Server) \in Nat
  BY <1>1, <1>2, FlowNat DEF Held
<1>5. /\ UpOf("event", f.n, b) = CountIn(outbox[b], N) + CountIn(posted, G) + CountIn(inbox[Server], G)
      /\ UpOf("event", f.n, b)' = CountIn(<<>>, N) + CountIn(posted, G) + CountIn(inbox[Server], G)
  BY <1>1, <1>2 DEF UpOf
<1>6. CountIn(outbox[b], N) \in Nat /\ CountIn(posted, G) \in Nat /\ CountIn(inbox[Server], G) \in Nat
  BY <1>2, CountsAreNat
<1>7. Held(f.n, Server) + UpOf("event", f.n, b) = 1
  BY <1>3 DEF ToServer
<1> HIDE DEF N, G
<1>8. CountIn(outbox[b], N) # 0
  BY <1>4, <1>5, <1>6, <1>7, CountNone
<1>9. outbox[b] \in Seq(Message)
  BY <1>2, StagesAre
<1>10. PICK x \in ToSet(outbox[b]) : x \in N
  BY <1>8, <1>9, CountType
<1>11. x \in Events /\ x.n = f.n
  BY <1>10 DEF N, Numbered, Events
<1>12. x \in FiredBy(b)
  BY <1>10, <1>11 DEF Unstamped, FiredBy
<1>13. ToSet(UpLine(b)') = ToSet(kept[Server]) \cup ToSet(inbox[Server]) \cup ToSet(posted)
  BY <1>1, <1>2, EmptyList DEF UpSets
<1>14. Ordered(InLine(kept[Server], inbox[Server], posted, outbox[b]), Later(FiredBy(b)))
  BY DEF OrderInv, Lined, UpLine
<1>15. <<m, x>> \in Later(FiredBy(b))
  <2>1. kept[Server] \in Seq(Message) /\ inbox[Server] \in Seq(Message) /\ posted \in Seq(Message)
    BY <1>2, StagesAre
  <2>2. /\ AllBefore(kept[Server], outbox[b], Later(FiredBy(b)))
        /\ AllBefore(inbox[Server], outbox[b], Later(FiredBy(b)))
        /\ AllBefore(posted, outbox[b], Later(FiredBy(b)))
    BY <1>9, <1>14, <2>1, LineParts
  <2> QED BY <1>10, <1>13, <2>2 DEF AllBefore
<1> QED BY <1>11, <1>12, <1>15 DEF Later

LEMMA StepLost ==
    ASSUME JoinInv, ToldInv, MessageInv, MessageInv', FlowInv, OrderInv, Unstamped, LostBehind,
           MessageStep, NothingNew
    PROVE  LostBehind'
<1> SUFFICES ASSUME NEW f \in firings', f.by \in Client, peer'[f.by] = "gone",
                    Held(f.n, Server)' + UpOf("event", f.n, f.by)' = 0,
                    NEW m \in ToSet(UpLine(f.by)') \cap FiredBy(f.by)
             PROVE  m.n <= f.n
  BY DEF LostBehind
<1>1. PICK b \in Client : b = f.by
  OBVIOUS
<1>2. ASSUME f \in firings, peer[b] = "gone", Held(f.n, Server) + UpOf("event", f.n, b) = 0 PROVE m.n <= f.n
  BY <1>1, <1>2 DEF NothingNew, LostBehind
<1>3. ASSUME f \in firings PROVE ToServer(f) /\ f.n <= acts /\ f.n \in Nat
  BY <1>3, EndsDiffer DEF FlowInv, ToPlayers
<1>4. CASE \E s \in Side : \E player, for : Fires(s, player, for)
  <2>1. PICK s \in Side : \E player, for : Fires(s, player, for)
    BY <1>4
  <2>2. PICK player, for : Fires(s, player, for)
    BY <2>1
  <2>3. /\ acts' = acts + 1 /\ acts \in Nat /\ peer' = peer /\ Runs(s)
        /\ firings' = firings \cup {[n |-> acts', by |-> s, player |-> player, for |-> for]}
    BY <2>2, FiringCounts
  <2>4. f \in firings
    <3>1. ASSUME f.by = s PROVE peer[b] # "gone"
      BY <1>1, <2>3, <3>1, EndsDiffer DEF Runs
    <3> QED BY <1>1, <2>3, <3>1
  <2>5. Held(f.n, Server)' = Held(f.n, Server)
    BY <2>2, FiringCounts, EndsDiffer
  <2>6. UpOf("event", f.n, b)' = UpOf("event", f.n, b) + (IF s = b /\ f.n = acts' THEN 1 ELSE 0)
    BY <2>2, FiringCounts
  <2>7. f.n # acts' /\ UpOf("event", f.n, b) \in Nat
    BY <1>3, <2>3, <2>4, FlowNat
  <2> QED BY <1>1, <1>2, <2>3, <2>4, <2>5, <2>6, <2>7
<1>5. CASE Flows /\ firings' = firings
  <2>1. f \in firings
    BY <1>5
  <2>2. CASE peer[b] = "gone"
    <3>1. \A c \in Client : c # b => UpOf("event", f.n, c) = 0
      BY <1>1, <1>3, <2>1 DEF ToServer
    <3>2. Held(f.n, Server)' + UpOf("event", f.n, b)' = Held(f.n, Server) + UpOf("event", f.n, b)
      BY <1>5, <2>2, <3>1 DEF Flows
    <3> QED BY <1>1, <1>2, <2>1, <2>2, <3>2
  <2>3. CASE peer[b] # "gone"
    <3>1. Left(b)
      <4>1. ASSUME NEW s \in Side, Acted(s) PROVE FALSE
        BY <1>1, <2>3, <4>1 DEF Acted
      <4>2. ASSUME Submits \/ FrameEnds PROVE FALSE
        BY <1>1, <2>3, <4>2 DEF Submits, Submit, FrameEnds, EndFrame, hostVars
      <4>3. ASSUME Applies PROVE FALSE
        BY <1>1, <2>3, <4>3 DEF Applies, ApplyServer
      <4>4. ASSUME NEW c \in Client, Posts(c) \/ Receives(c) PROVE FALSE
        BY <1>1, <2>3, <4>4 DEF Posts, Receives, Receive, joiningVars, hostVars
      <4>5. ASSUME NEW c \in Client, Left(c), c # b PROVE FALSE
        BY <1>1, <2>3, <4>5 DEF Left, Leave, JoinInv, JoiningTypes
      <4> QED BY <4>1, <4>2, <4>3, <4>4, <4>5, StepActs
    <3>2. UpSets'
      BY UpSetsNext
    <3> QED BY <1>1, <2>1, <2>3, <3>1, <3>2, LeftBehind
  <2> QED BY <2>2, <2>3
<1> QED BY <1>4, <1>5, FlowsOrFires

-----------------------------------------------------------------------------
LEMMA SomeCounted ==
    ASSUME NEW l \in Seq(Message), NEW T, CountIn(l, T) # 0
    PROVE  \E x \in ToSet(l) : x \in T
BY CountType

\* What an end has next has nothing behind it that was fired earlier and is for that end.
LEMMA NothingBehind ==
    ASSUME MessageInv, FlowInv, OrderInv, Unstamped, KeptFrom, Hushed, LostBehind,
           NEW s \in Side, NEW m \in Events,
           m \in ToSet(kept[s]) \/ (inbox[s] # <<>> /\ m = Head(inbox[s])),
           NEW f \in firings, NEW g \in firings, f.n < m.n, g.n = m.n, f.by = g.by, s \in f.for, s \in g.for
    PROVE  Held(f.n, s) # 0
<1> SUFFICES ASSUME Held(f.n, s) = 0 PROVE FALSE
  OBVIOUS
<1>1. f.n \in Nat /\ m.n \in Nat /\ ~(m.n <= f.n) /\ m \in Message
  BY EventIs DEF FlowInv
<1>2. /\ (ToPlayers(f) \/ ToServer(f)) /\ (ToPlayers(g) \/ ToServer(g))
  BY DEF FlowInv
<1>3. CASE s # Server
  <2> DEFINE k == kept[s]
             i == inbox[s]
             w == OnWire(s) \o report.remotes
             o == outbox[Server]
             N == Numbered("event", f.n)
             F == NumberedFor("event", f.n, s)
  <2>1. s \in Client /\ ToPlayers(f)
    BY <1>2, <1>3, EndsDiffer DEF ToServer
  <2>2. peer[s] # "gone"
    <3>1. kept[s] # <<>> \/ inbox[s] # <<>>
      BY EmptyList
    <3> QED BY <2>1, <3>1 DEF Hushed
  <2>3. DownOf("event", f.n, s) = 1
    <3>1. At(f.n, s) = 1 /\ Held(f.n, s) + DownOf("event", f.n, s) = At(f.n, s)
      BY <2>1, <2>2 DEF ToPlayers, At
    <3>2. DownOf("event", f.n, s) \in Nat
      BY <2>1, FlowNat
    <3> QED BY <3>1, <3>2
  <2>4. /\ k \in Seq(Message) /\ i \in Seq(Message) /\ w \in Seq(Message) /\ o \in Seq(Message)
        /\ OnWire(s) \in Seq(Message) /\ report.remotes \in Seq(Message)
    BY <2>1, StagesAre, EndsDiffer
  <2>5. ToSet(w) = ToSet(OnWire(s)) \cup ToSet(report.remotes)
    BY <2>4, JoinedSet
  <2>6. CountIn(o, F) + CountIn(report.remotes, F) + CountIn(OnWire(s), N) + CountIn(i, N) = 1
    BY <2>3 DEF DownOf
  <2>7. \A x : x \in N \/ x \in F => x \in Events /\ x.n = f.n
    BY DEF Numbered, NumberedFor, Events
  <2>8. Ordered(InLine(k, i, w, o), Later(Events))
    BY <2>1 DEF OrderInv, Lined, DownLine
  <2>9. m \in ToSet(k) \/ (i # <<>> /\ m = Head(i))
    OBVIOUS
  <2> HIDE DEF k, i, w, o, N, F
  <2>10. PICK x \in ToSet(i) \cup ToSet(w) \cup ToSet(o) : x \in N \/ x \in F
    <3>1. \/ CountIn(o, F) # 0 \/ CountIn(report.remotes, F) # 0
          \/ CountIn(OnWire(s), N) # 0 \/ CountIn(i, N) # 0
      BY <2>6
    <3> QED BY <2>4, <2>5, <3>1, SomeCounted
  <2>11. x = m \/ <<m, x>> \in Later(Events)
    BY <2>4, <2>8, <2>9, <2>10, LineFront
  <2>12. x \in Events /\ x.n = f.n
    BY <2>7, <2>10
  <2>13. <<m, x>> \in Later(Events) => m.n <= x.n
    BY <2>12 DEF Later
  <2>14. x = m => m.n <= f.n
    BY <1>1, <2>12
  <2> QED BY <1>1, <2>11, <2>12, <2>13, <2>14
<1>4. CASE s = Server
  <2>1. ToServer(f) /\ ToServer(g)
    BY <1>2, <1>4, EndsDiffer DEF ToPlayers
  <2>2. PICK b \in Client : b = f.by /\ b = g.by
    BY <2>1 DEF ToServer
  <2> DEFINE k == kept[Server]
             i == inbox[Server]
             w == posted
             o == outbox[b]
             N == Numbered("event", f.n)
             G == NumberedFrom("event", f.n, b)
             L == Later(FiredBy(b))
  <2>3. k \in Seq(Message) /\ i \in Seq(Message) /\ w \in Seq(Message) /\ o \in Seq(Message)
    BY StagesAre, EndsDiffer
  <2>4. m \in ToSet(k) \/ m \in ToSet(i)
    BY <1>4, <2>3, HeadAndTail
  <2>5. m.player = b /\ m \in FiredBy(b)
    <3>1. m.player = b
      BY <2>2, <2>4, SenderIs DEF KeptFrom
    <3> QED BY <3>1 DEF FiredBy
  <2>6. m \in ToSet(UpLine(b))
    BY <2>4, LinesAre
  <2>7. UpOf("event", f.n, b) # 0
    <3> SUFFICES ASSUME UpOf("event", f.n, b) = 0 PROVE FALSE
      OBVIOUS
    <3>1. Held(f.n, Server) + UpOf("event", f.n, b) = 0
      BY <1>4
    <3>2. peer[b] = "gone"
      BY <2>1, <2>2, <3>1 DEF ToServer
    <3>3. m.n <= f.n
      BY <2>2, <2>5, <2>6, <3>1, <3>2 DEF LostBehind
    <3> QED BY <1>1, <3>3
  <2>8. UpOf("event", f.n, b) = CountIn(o, N) + CountIn(w, G) + CountIn(i, G)
    BY DEF UpOf
  <2>9. Ordered(InLine(k, i, w, o), L)
    BY DEF OrderInv, Lined, UpLine
  <2>10. m \in ToSet(k) \/ (i # <<>> /\ m = Head(i))
    BY <1>4
  <2>11. \A x : x \in N \/ x \in G => x \in Events /\ x.n = f.n
    BY DEF Numbered, NumberedFrom, Events
  <2>12. \A x \in ToSet(o) : x \in N => x \in FiredBy(b)
    BY <2>11 DEF Unstamped, FiredBy
  <2>13. \A x \in G : x \in FiredBy(b)
    BY <2>11 DEF NumberedFrom, FiredBy
  <2> HIDE DEF k, i, w, o, N, G, L
  <2>14. PICK x \in ToSet(i) \cup ToSet(w) \cup ToSet(o) : x \in FiredBy(b) /\ (x \in N \/ x \in G)
    <3>1. CountIn(o, N) # 0 \/ CountIn(w, G) # 0 \/ CountIn(i, G) # 0
      BY <2>7, <2>8
    <3> QED BY <2>3, <2>12, <2>13, <3>1, SomeCounted
  <2>15. x = m \/ <<m, x>> \in L
    BY <2>3, <2>9, <2>10, <2>14, LineFront
  <2>16. x \in Events /\ x.n = f.n
    BY <2>11, <2>14
  <2>17. <<m, x>> \in L => m.n <= x.n
    BY <2>5, <2>14 DEF L, Later
  <2>18. x = m => m.n <= f.n
    BY <1>1, <2>16
  <2> QED BY <1>1, <2>15, <2>16, <2>17, <2>18
<1> QED BY <1>3, <1>4

LEMMA HeldIsSomewhere ==
    ASSUME MessageInv, NEW s \in Side, NEW n, Held(n, s) # 0
    PROVE  n \in Range(Numbers(kept[s])) \/ n \in Range(heard[s]) \/ n \in Range(lost[s])
<1>1. kept[s] \in Seq(Events) /\ heard[s] \in Seq(Nat) /\ lost[s] \in Seq(Nat)
  BY DEF MessageInv, MessageTypes
<1>2. Numbers(kept[s]) \in Seq(Nat) /\ CountIn(Numbers(kept[s]), {n}) = CountIn(kept[s], Numbered("event", n))
  BY <1>1, NumbersCount
<1>3. \/ CountIn(Numbers(kept[s]), {n}) # 0 \/ CountIn(heard[s], {n}) # 0 \/ CountIn(lost[s], {n}) # 0
  BY <1>2 DEF Held
<1>4. ASSUME NEW l \in Seq(Nat), CountIn(l, {n}) # 0 PROVE n \in Range(l)
  <2>1. ToSet(l) \cap {n} # {}
    BY <1>4, CountType
  <2> QED BY <2>1 DEF ToSet, Range
<1> QED BY <1>1, <1>2, <1>3, <1>4

\* What an end comes to hear is what it was handed first, or one it kept; it forgets nothing.
Hears(s) ==
    /\ Settled(s) \subseteq Settled(s)'
    /\ \A n \in Range(heard'[s]) \ Range(heard[s]) :
          \E m \in Events : m.n = n /\ (m \in ToSet(kept[s]) \/ (inbox[s] # <<>> /\ m = Head(inbox[s])))

LEMMA HandingHears ==
    ASSUME MessageInv, NEW s \in Side, Handing(s)
    PROVE  Hears(s)
<1>1. PICK k \in DOMAIN kept[s] :
          /\ heard' = [heard EXCEPT ![s] = @ \o Numbers(SubSeq(kept[s], 1, k))]
          /\ lost' = [lost EXCEPT ![s] = @ \o Numbers(SubSeq(kept[s], k + 1, Len(kept[s])))]
  BY DEF Handing, HandOver
<1> DEFINE a == SubSeq(kept[s], 1, k)
           b == SubSeq(kept[s], k + 1, Len(kept[s]))
<1>2. kept[s] \in Seq(Message) /\ kept[s] \in Seq(Events) /\ k \in 1..Len(kept[s])
  <2>1. kept[s] \in Seq(Events)
    BY DEF MessageInv, MessageTypes
  <2> QED BY <2>1, EventsAreMessages
<1>3. a \in Seq(Message) /\ b \in Seq(Message) /\ Len(a) = k /\ \A j \in 1..k : a[j] = kept[s][j]
  BY <1>2
<1>4. /\ Numbers(a) \in Seq(Nat) /\ Numbers(b) \in Seq(Nat)
      /\ Len(Numbers(a)) = k /\ \A j \in 1..k : Numbers(a)[j] = kept[s][j].n
  BY <1>3, NumbersType
<1>5. heard[s] \in Seq(Nat) /\ lost[s] \in Seq(Nat)
  BY DEF MessageInv, MessageTypes
<1>6. heard'[s] = heard[s] \o Numbers(a) /\ lost'[s] = lost[s] \o Numbers(b)
  BY <1>1 DEF MessageInv, MessageTypes
<1> HIDE DEF a, b
<1>7. /\ Range(heard'[s]) = Range(heard[s]) \cup Range(Numbers(a))
      /\ Range(lost'[s]) = Range(lost[s]) \cup Range(Numbers(b))
  BY <1>4, <1>5, <1>6, Joined
<1>8. ASSUME NEW n \in Range(Numbers(a)) PROVE \E m \in Events : m.n = n /\ m \in ToSet(kept[s])
  <2>1. PICK j \in 1..k : Numbers(a)[j] = n
    BY <1>4 DEF Range
  <2>2. j \in DOMAIN kept[s] /\ kept[s][j] \in Events
    BY <1>2
  <2>3. kept[s][j].n = n /\ kept[s][j] \in ToSet(kept[s])
    BY <1>4, <2>1, <2>2 DEF ToSet
  <2> QED BY <2>2, <2>3
<1> QED BY <1>7, <1>8 DEF Hears, Settled

LEMMA DeliveryHears ==
    ASSUME MessageInv, NEW s \in Side, Delivery(s)
    PROVE  Hears(s)
<1> DEFINE m == Head(inbox[s])
<1>1. inbox[s] # <<>> /\ m \in Message
  BY DeliveryTakes
<1>2. heard[s] \in Seq(Nat) /\ lost[s] \in Seq(Nat) /\ m.n \in Nat
  BY <1>1 DEF MessageInv, MessageTypes, Message
<1>3. CASE DeliverEvent(s)
  <2>1. m \in Events
    BY <1>1, <1>3 DEF DeliverEvent, Delivers, Events
  <2>2. \/ heard' = [heard EXCEPT ![s] = Append(@, m.n)] /\ lost' = lost
        \/ heard' = heard /\ (lost' = lost \/ lost' = [lost EXCEPT ![s] = Append(@, m.n)])
    BY <1>3 DEF DeliverEvent
  <2>3. \/ heard'[s] = Append(heard[s], m.n) /\ lost'[s] = lost[s]
        \/ heard'[s] = heard[s] /\ lost'[s] \in {lost[s], Append(lost[s], m.n)}
    BY <2>2 DEF MessageInv, MessageTypes
  <2> HIDE DEF m
  <2>4. /\ Range(Append(heard[s], m.n)) = Range(heard[s]) \cup {m.n}
        /\ Range(Append(lost[s], m.n)) = Range(lost[s]) \cup {m.n}
    BY <1>2, Appended
  <2>5. /\ Range(heard[s]) \subseteq Range(heard'[s]) /\ Range(heard'[s]) \subseteq Range(heard[s]) \cup {m.n}
        /\ Range(lost[s]) \subseteq Range(lost'[s])
    BY <2>3, <2>4
  <2> QED BY <1>1, <2>1, <2>5 DEF Hears, Settled, m
<1>4. CASE ~DeliverEvent(s)
  <2>1. UNCHANGED <<heard, lost>>
    BY <1>4 DEF Delivery, Deliver, DeliverInvoke, DeliverResult
  <2> QED BY <2>1 DEF Hears, Settled
<1> QED BY <1>3, <1>4

LEMMA StepHears ==
    ASSUME JoinInv, MessageInv, MessageStep, NEW s \in Side
    PROVE  Hears(s)
<1>1. ASSUME heard'[s] = heard[s], lost'[s] = lost[s] PROVE Hears(s)
  BY <1>1 DEF Hears, Settled
<1>2. ASSUME NEW r \in Side, Delivery(r) \/ Handing(r) PROVE Hears(s)
  <2>1. CASE r = s
    BY <1>2, <2>1, DeliveryHears, HandingHears
  <2>2. CASE r # s
    <3>1. /\ heard' = heard \/ \E x : heard' = [heard EXCEPT ![r] = x]
          /\ lost' = lost \/ \E x : lost' = [lost EXCEPT ![r] = x]
      BY <1>2 DEF Delivery, Deliver, DeliverEvent, DeliverInvoke, DeliverResult, Handing, HandOver
    <3>2. heard'[s] = heard[s] /\ lost'[s] = lost[s]
      BY <2>2, <3>1 DEF MessageInv, MessageTypes
    <3> QED BY <1>1, <3>2
  <2> QED BY <2>1, <2>2
<1>3. CASE Still \/ Submits \/ Applies \/ FrameEnds \/ \E c \in Client : Left(c) \/ Posts(c) \/ Receives(c)
  <2>1. UNCHANGED <<heard, lost>>
    BY <1>3 DEF Still, Submits, Applies, FrameEnds, Left, Closes, Posts, Receives, NoRemotes, remoteVars, inVars
  <2> QED BY <1>1, <2>1
<1>4. ASSUME NEW r \in Side, Stops(r) \/ Answers(r) PROVE Hears(s)
  <2>1. UNCHANGED <<heard, lost>>
    BY <1>4 DEF Stops, Answers, Answer, inVars
  <2> QED BY <1>1, <2>1
<1>5. ASSUME NEW r \in Side, (\E player, for : Fires(r, player, for)) \/ (\E player : Calls(r, player)) PROVE Hears(s)
  <2>1. UNCHANGED <<heard, lost>>
    BY <1>5 DEF Fires, FiresTo, Fire, Calls, Call, inVars
  <2> QED BY <1>1, <2>1
<1>6. CASE FireAllClients \/ \E c \in Client : FireClient(c) \/ FireServer(c) \/ InvokeClient(c) \/ InvokeServer(c)
  <2>1. \E r \in Side : (\E player, for : Fires(r, player, for)) \/ (\E player : Calls(r, player))
    BY <1>6, Speaking, EndsDiffer
  <2> QED BY <1>5, <2>1
<1> QED BY <1>2, <1>3, <1>4, <1>6 DEF MessageStep

-----------------------------------------------------------------------------
InOrderInv == OrderInv /\ Unstamped /\ KeptFrom /\ Hushed /\ LostBehind

LEMMA InitOrder == Init => InOrderInv
<1> SUFFICES ASSUME Init PROVE InOrderInv
  OBVIOUS
<1> USE DEF Init, JoiningInit, RemotesInit
<1>1. ToSet(<<>>) = {} /\ \A Less : Ordered(<<>>, Less)
  BY EmptyList
<1>2. <<>> \o <<>> = <<>> /\ InLine(<<>>, <<>>, <<>>, <<>>) = <<>>
  BY DEF InLine
<1>3. ASSUME NEW c \in Client PROVE DownLine(c) = <<>> /\ UpLine(c) = <<>>
  <2>1. /\ kept[c] = <<>> /\ inbox[c] = <<>> /\ kept[Server] = <<>> /\ inbox[Server] = <<>>
        /\ outbox[Server] = <<>> /\ outbox[c] = <<>> /\ posted = <<>> /\ report.remotes = <<>> /\ wire[c] = <<>>
    BY EndsDiffer DEF NoReport
  <2>2. OnWire(c) = <<>>
    <3>1. Carried(<<>>) = <<>>
      BY DEF Carried
    <3> QED BY <2>1, <3>1, OnWireIs, FlattenNone
  <2> QED BY <1>2, <2>1, <2>2 DEF DownLine, UpLine
<1>4. OrderInv
  BY <1>1, <1>3 DEF OrderInv, Lined
<1>5. Unstamped
  BY <1>1, EndsDiffer DEF Unstamped
<1>6. KeptFrom /\ Hushed /\ LostBehind
  BY DEF KeptFrom, Hushed, LostBehind
<1> QED BY <1>4, <1>5, <1>6 DEF InOrderInv

LEMMA StepInOrder ==
    JoinInv /\ ToldInv /\ MessageInv /\ FlowInv /\ InOrderInv /\ [Next]_vars => InOrderInv'
<1> SUFFICES ASSUME JoinInv, ToldInv, MessageInv, FlowInv, InOrderInv, [Next]_vars PROVE InOrderInv'
  OBVIOUS
<1>1. MessageStep /\ MessageInv'
  BY NextIsMessages, StepMessages
<1>2. OrderInv /\ Unstamped /\ KeptFrom /\ Hushed /\ LostBehind
  BY DEF InOrderInv
<1>3. OrderInv' /\ NothingNew
  BY <1>1, <1>2, StepOrder
<1>4. Unstamped' /\ KeptFrom' /\ Hushed'
  BY <1>1, <1>2, StepUnstamped, StepKeptFrom, StepHushed
<1>5. LostBehind'
  BY <1>1, <1>2, <1>3, StepLost
<1> QED BY <1>3, <1>4, <1>5 DEF InOrderInv

NoneOvertakes ==
    \A s \in Side : \A n \in Range(heard'[s]) \ Range(heard[s]) :
         \A f, g \in firings :
            f.n < n /\ g.n = n /\ f.by = g.by /\ s \in f.for \cap g.for
              => f.n \in Settled(s)' \cup Range(Numbers(kept[s]))

LEMMA StepOvertakes ==
    JoinInv /\ MessageInv /\ FlowInv /\ InOrderInv /\ [Next]_vars => NoneOvertakes
<1> SUFFICES ASSUME JoinInv, MessageInv, FlowInv, InOrderInv, [Next]_vars,
                    NEW s \in Side, NEW n \in Range(heard'[s]) \ Range(heard[s]),
                    NEW f \in firings, NEW g \in firings,
                    f.n < n, g.n = n, f.by = g.by, s \in f.for \cap g.for
             PROVE  f.n \in Settled(s)' \cup Range(Numbers(kept[s]))
  BY DEF NoneOvertakes
<1>1. Hears(s)
  BY NextIsMessages, StepHears
<1>2. PICK m \in Events : m.n = n /\ (m \in ToSet(kept[s]) \/ (inbox[s] # <<>> /\ m = Head(inbox[s])))
  BY <1>1 DEF Hears
<1>3. Held(f.n, s) # 0
  BY <1>2, NothingBehind DEF InOrderInv
<1>4. f.n \in Range(Numbers(kept[s])) \/ f.n \in Range(heard[s]) \/ f.n \in Range(lost[s])
  BY <1>3, HeldIsSomewhere
<1> QED BY <1>1, <1>4 DEF Hears, Settled

(***************************************************************************)
(* Firings of one end are heard in the order they were made, whichever way *)
(* they went: one that an end comes to hear has before it, heard, dropped or *)
(* still kept aside there, every earlier one of the same sender for it.    *)
(***************************************************************************)
THEOREM FiringsInOrder == Spec => OvertakesOnlyTheKept
<1>1. Init => JoinInv /\ ToldInv /\ MessageInv /\ FlowInv /\ InOrderInv
  BY InitInv, InitTold, InitMessages, InitFlow, InitOrder
<1>2. JoinInv /\ ToldInv /\ MessageInv /\ FlowInv /\ InOrderInv /\ [Next]_vars
          => (JoinInv /\ ToldInv /\ MessageInv /\ FlowInv /\ InOrderInv)'
  BY StepInv, StepTold, StepMessages, StepFlow, StepInOrder
<1>3. JoinInv /\ MessageInv /\ FlowInv /\ InOrderInv /\ [Next]_vars => [NoneOvertakes]_vars
  BY StepOvertakes
<1> QED BY <1>1, <1>2, <1>3, PTL DEF Spec, OvertakesOnlyTheKept, NoneOvertakes
=============================================================================

---------------------------- MODULE Replication -----------------------------
(***************************************************************************)
(* The server's replicator and the clients that follow it.                 *)
(*                                                                         *)
(* What a frame replicated goes, in order, to every client that has joined  *)
(* (LocalSession::pump in process, net_flush_clients over ENet's reliable   *)
(* channel); a joiner gets the snapshot instead.  A client applies what     *)
(* arrives one change at a time with DataModel::apply, which refuses a      *)
(* change it cannot make and goes on.  Scripts of the client see the tree   *)
(* between two batches only.                                               *)
(***************************************************************************)
EXTENDS Replicator

CONSTANTS
    Client,
    Absent,         \* the client has no such instance
    QueueBound      \* bound: a frame ends only while every queue is this short

ASSUME ClientAssumption ==
    /\ Absent \notin Instance \cup {Root, NoParent}
    /\ QueueBound \in Nat

VARIABLES
    member,         \* clients that have joined and not left
    channel,        \* changes under way to each client, oldest first
    copyParent,     \* a client's tree: the parent it has for an instance, or Absent
    copyValue,      \* the properties it has for an instance
    mixed           \* history: a frame took away something clients had, and did more than that

clientVars == <<member, channel, copyParent, copyValue, mixed>>
allVars == <<replicatorVars, clientVars>>

(***************************************************************************)
(* A client's DataModel starts with the services, at the same fixed ids.   *)
(***************************************************************************)
Skeleton == [i \in Instance |-> IF i \in Service THEN Root ELSE Absent]

ClientInit ==
    /\ member = {}
    /\ channel = [c \in Client |-> <<>>]
    /\ copyParent = [c \in Client |-> Skeleton]
    /\ copyValue = [c \in Client |-> [i \in Instance |-> DefaultValue]]
    /\ mixed = FALSE

(***************************************************************************)
(* DataModel::apply on client c.  Applies says when it changes anything; a  *)
(* "Create" is the code's, then that of the parent and of the properties.  *)
(* Where the parent is refused, the new instance is an orphan, and one that *)
(* was there stays where it was; the rest of it is done all the same.      *)
(***************************************************************************)
CopyAbove(c, i) ==
    {x \in Instance :
        \A S \in SUBSET Instance :
            /\ i \in S
            /\ \A y \in S : copyParent[c][y] \in Instance => copyParent[c][y] \in S
            => x \in S}

Has(c, i) == copyParent[c][i] # Absent

CanParent(c, i, p) ==
    p \in Instance => Has(c, p) /\ (p = copyParent[c][i] \/ i \notin CopyAbove(c, p))

Applies(c, ch) ==
    CASE ch.kind \in {"Create", "Destroy"} -> TRUE
      [] ch.kind = "Parent" -> Has(c, ch.id) /\ CanParent(c, ch.id, ch.parent)
      [] ch.kind = "Property" -> Has(c, ch.id)

PlaceOf(c, ch) ==
    CASE CanParent(c, ch.id, ch.parent) -> ch.parent
      [] ~CanParent(c, ch.id, ch.parent) /\ Has(c, ch.id) -> copyParent[c][ch.id]
      [] OTHER -> NoParent

ApplyPlace(c, ch) ==
    /\ ch.kind \in {"Create", "Parent"}
    /\ copyParent' = [copyParent EXCEPT ![c][ch.id] = PlaceOf(c, ch)]
    /\ copyValue' =
          IF ch.kind = "Create" /\ ~(Has(c, ch.id) /\ ch.value = DefaultValue)
          THEN [copyValue EXCEPT ![c][ch.id] = ch.value]
          ELSE copyValue

ApplyDestroy(c, ch) ==
    LET gone == {k \in Instance : ch.id \in CopyAbove(c, k)}
    IN  /\ ch.kind = "Destroy"
        /\ copyParent' =
              [copyParent EXCEPT ![c] = [k \in Instance |-> IF k \in gone THEN Absent ELSE @[k]]]
        /\ copyValue' =
              [copyValue EXCEPT ![c] = [k \in Instance |-> IF k \in gone THEN DefaultValue ELSE @[k]]]

ApplyProperty(c, ch) ==
    /\ ch.kind = "Property"
    /\ copyValue' = [copyValue EXCEPT ![c][ch.id] = ch.value]
    /\ UNCHANGED copyParent

Apply(c) ==
    /\ channel[c] # <<>>
    /\ channel' = [channel EXCEPT ![c] = Tail(@)]
    /\ LET ch == Head(channel[c])
       IN  IF Applies(c, ch)
           THEN ApplyPlace(c, ch) \/ ApplyDestroy(c, ch) \/ ApplyProperty(c, ch)
           ELSE UNCHANGED <<copyParent, copyValue>>
    /\ UNCHANGED <<replicatorVars, member, mixed>>

(***************************************************************************)
(* The end of a server frame, without and with a join, and a client that    *)
(* goes away.                                                              *)
(***************************************************************************)
QueuesShort == \A c \in Client : Len(channel[c]) <= QueueBound

Deliver ==
    /\ QueuesShort
    /\ TakeReplication
    /\ channel' = [c \in Client |-> IF c \in member THEN channel[c] \o pendingRep ELSE <<>>]
    /\ UNCHANGED <<member, copyParent, copyValue, mixed>>

\* Mutant of Welcome: what the frame replicated before the join is dropped.
WelcomeDropsFrame(c) ==
    /\ QueuesShort
    /\ c \notin member
    /\ Join
    /\ member' = member \cup {c}
    /\ \E s \in DepthFirst(VisibleSet) : channel' = [channel EXCEPT ![c] = SnapshotOf(s)]
    /\ UNCHANGED <<copyParent, copyValue, mixed>>

Welcome(c) ==
    /\ QueuesShort
    /\ c \notin member
    /\ Join
    /\ member' = member \cup {c}
    /\ \E s \in DepthFirst(VisibleSet) :
          channel' = [d \in Client |->
                        IF d = c THEN SnapshotOf(s)
                        ELSE IF d \in member THEN channel[d] \o pendingRep ELSE <<>>]
    /\ UNCHANGED <<copyParent, copyValue, mixed>>

Leave(c) ==
    /\ c \in member
    /\ member' = member \ {c}
    /\ channel' = [channel EXCEPT ![c] = <<>>]
    /\ copyParent' = [copyParent EXCEPT ![c] = Skeleton]
    /\ copyValue' = [copyValue EXCEPT ![c] = [i \in Instance |-> DefaultValue]]
    /\ UNCHANGED <<replicatorVars, mixed>>

ServerStep ==
    /\ \/ \E i \in Instance :
             \/ Create(i)
             \/ Destroy(i)
             \/ \E p \in Instance \cup {Root, NoParent} : SetParent(i, p)
             \/ \E v \in Value : SetProperty(i, v)
       \/ EndFrame
       \/ FilterChange
    /\ mixed' = (mixed \/ (ops' > 1 /\ ~(known' \subseteq VisibleSet')))
    /\ UNCHANGED <<member, channel, copyParent, copyValue>>

ReplicationInit == ReplicatorInit /\ ClientInit

ReplicationNext ==
    \/ ServerStep
    \/ Deliver
    \/ \E c \in Client : Welcome(c) \/ Apply(c) \/ Leave(c)

ReplicationSpec == ReplicationInit /\ [][ReplicationNext]_allVars

-----------------------------------------------------------------------------
(***************************************************************************)
(* The server is between frames and everything it sent c has been applied. *)
(***************************************************************************)
CaughtUp(c) ==
    /\ c \in member
    /\ channel[c] = <<>>
    /\ ~filtering /\ log = <<>>

(***************************************************************************)
(* A client that has applied everything holds exactly the replicated part   *)
(* of the server's tree: nothing hidden, nothing missing, each instance     *)
(* where the server has it and with the server's properties.  (The client's *)
(* own copies of the services that do not replicate are not the server's.)  *)
(***************************************************************************)
CopyMatches ==
    ~mixed => \A c \in Client : CaughtUp(c) =>
        \A i \in Instance \ (Service \cap Hidden) :
            IF Visible(i)
            THEN copyParent[c][i] = parent[i] /\ copyValue[c][i] = value[i]
            ELSE ~Has(c, i)

(***************************************************************************)
(* The comment on known_ (rbx_net.h: "ids every client has") taken at its   *)
(* word, whatever a frame did: a client that has applied everything has     *)
(* every id in known_ and, its own services aside, no other.               *)
(***************************************************************************)
KnownIsWhatClientsHave ==
    \A c \in Client : CaughtUp(c) =>
        \A i \in Instance \ Service : Has(c, i) <=> i \in known

=============================================================================

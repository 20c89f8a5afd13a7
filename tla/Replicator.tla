----------------------------- MODULE Replicator -----------------------------
(***************************************************************************)
(* The server half of replication: the instance tree of the server's       *)
(* DataModel (luau/src/rbx_instance.cpp), the change log it keeps during a  *)
(* frame, and the Replicator (luau/src/rbx_net.cpp) that turns the log into *)
(* what the clients receive.                                               *)
(*                                                                         *)
(* A frame has two halves.  While scripts run, every operation on the tree  *)
(* appends to the log and the replicator does nothing.  When the frame ends *)
(* the runtime filters the log one change at a time, reading where an       *)
(* instance is NOW rather than where the change says it went, and keeps     *)
(* `known', the ids every client has.                                      *)
(*                                                                         *)
(* Abstracted: a name, a class and all properties of an instance are one    *)
(* value; siblings have no order, so a walk over a subtree is any of its    *)
(* depth-first orders; NoReplicate properties, the root's own properties    *)
(* and Team Create's setAll are left out.                                  *)
(***************************************************************************)
EXTENDS Naturals, FiniteSets, SequencesExt

CONSTANTS
    Instance,       \* ids of instances, the root excepted
    Service,        \* instances the DataModel's constructor makes under the root
    Hidden,         \* instances whose class replicates() refuses, e.g. ServerStorage
    Value,          \* what the properties of an instance may hold
    DefaultValue,
    Root,           \* the DataModel itself
    NoParent,       \* kNoParent
    OpsPerFrame     \* bound: operations scripts perform between two filterings

ASSUME InstanceAssumption ==
    /\ IsFiniteSet(Instance)
    /\ Service \subseteq Instance
    /\ Root \notin Instance
    /\ NoParent \notin Instance
    /\ Root # NoParent
    /\ DefaultValue \in Value
    /\ OpsPerFrame \in Nat

VARIABLES
    parent,         \* where each instance is in the server's tree
    status,         \* "unborn", "alive" or "destroyed"
    value,          \* its properties
    log,            \* DataModel::changes_ from repCursor on
    filtering,      \* filterReplication is running: scripts are not
    known,          \* Replicator::known_
    pendingRep,     \* what the next takeReplication returns
    joined,         \* some client has joined, so join() has run
    ops             \* operations so far in this frame

replicatorVars == <<parent, status, value, log, filtering, known, pendingRep, joined, ops>>

Change == [kind : {"Create", "Destroy", "Parent", "Property"},
           id : Instance,
           parent : Instance \cup {Root, NoParent},
           value : Value]

(***************************************************************************)
(* The tree.  ReachUp(i, stop) is what a walk from i towards the root      *)
(* visits when it does not go on to a parent in `stop': the x without which *)
(* no set that has i is closed under the walk.                             *)
(***************************************************************************)
ReachUp(i, stop) ==
    {x \in Instance :
        \A S \in SUBSET (Instance \ {x}) :
            i \in S => \E y \in S : parent[y] \in Instance \ (stop \cup S)}

Above(i) == ReachUp(i, {})

Subtree(i) == {k \in Instance : i \in Above(k)}

Visible(i) ==
    /\ status[i] = "alive"
    /\ \E top \in Above(i) : parent[top] = Root /\ top \notin Hidden

VisibleSet == {i \in Instance : Visible(i)}

DepthFirst(S) ==
    {s \in SetToSeqs(S) :
        \A m \in DOMAIN s :
            LET last == m + Cardinality(Subtree(s[m])) - 1
            IN  last <= Len(s) /\ {s[n] : n \in m..last} = Subtree(s[m])}

(***************************************************************************)
(* Changes.  A snapshot gives, for one instance, Create, then Parent, then  *)
(* its Properties with nothing in between: one record carries the three.    *)
(***************************************************************************)
CreateChange(i)      == [kind |-> "Create", id |-> i, parent |-> parent[i], value |-> value[i]]
DestroyChange(i)     == [kind |-> "Destroy", id |-> i, parent |-> NoParent, value |-> DefaultValue]
ParentChange(i, p)   == [kind |-> "Parent", id |-> i, parent |-> p, value |-> DefaultValue]
PropertyChange(i, v) == [kind |-> "Property", id |-> i, parent |-> NoParent, value |-> v]

SnapshotOf(s) == [n \in DOMAIN s |-> CreateChange(s[n])]

(***************************************************************************)
(* destroy() takes an instance out of its parent, destroys the children the *)
(* same way, and is gone: `s' is the order in which it reaches them.       *)
(***************************************************************************)
DestroyLog(s) ==
    LET Detach(i) == IF parent[i] = NoParent THEN <<>> ELSE <<ParentChange(i, NoParent)>>
        Gone(m, n) == IF m + Cardinality(Subtree(s[m])) - 1 = n THEN <<DestroyChange(s[m])>> ELSE <<>>
    IN  FlattenSeq([n \in DOMAIN s |->
            Detach(s[n]) \o FlattenSeq([k \in 1..n |-> Gone(n + 1 - k, n)])])

-----------------------------------------------------------------------------
ReplicatorInit ==
    /\ parent = [i \in Instance |-> IF i \in Service THEN Root ELSE NoParent]
    /\ status = [i \in Instance |-> IF i \in Service THEN "alive" ELSE "unborn"]
    /\ value = [i \in Instance |-> DefaultValue]
    /\ log = <<>>
    /\ filtering = FALSE
    /\ known = {}
    /\ pendingRep = <<>>
    /\ joined = FALSE
    /\ ops = 0

(***************************************************************************)
(* Operations of scripts and of the host on the tree.                      *)
(***************************************************************************)
Running ==
    /\ ~filtering
    /\ ops < OpsPerFrame
    /\ ops' = ops + 1
    /\ UNCHANGED <<filtering, known, pendingRep, joined>>

Create(i) ==
    /\ Running
    /\ status[i] = "unborn"
    /\ status' = [status EXCEPT ![i] = "alive"]
    /\ log' = Append(log, CreateChange(i))
    /\ UNCHANGED <<parent, value>>

SetParent(i, p) ==
    /\ Running
    /\ status[i] = "alive"
    /\ p # parent[i]
    /\ p \in Instance => status[p] = "alive" /\ i \notin Above(p)
    /\ parent' = [parent EXCEPT ![i] = p]
    /\ log' = Append(log, ParentChange(i, p))
    /\ UNCHANGED <<status, value>>

Destroy(i) ==
    /\ Running
    /\ status[i] = "alive"
    /\ ~(i \in Service /\ parent[i] = Root)
    /\ parent' = [k \in Instance |-> IF k \in Subtree(i) THEN NoParent ELSE parent[k]]
    /\ status' = [k \in Instance |-> IF k \in Subtree(i) THEN "destroyed" ELSE status[k]]
    /\ \E s \in DepthFirst(Subtree(i)) : log' = log \o DestroyLog(s)
    /\ UNCHANGED value

SetProperty(i, v) ==
    /\ Running
    /\ status[i] = "alive"
    /\ v # value[i]
    /\ value' = [value EXCEPT ![i] = v]
    /\ log' = Append(log, PropertyChange(i, v))
    /\ UNCHANGED <<parent, status>>

(***************************************************************************)
(* The end of a frame: filterReplication over the log.                     *)
(***************************************************************************)
EndFrame ==
    /\ ~filtering
    /\ filtering' = TRUE
    /\ UNCHANGED <<parent, status, value, log, known, pendingRep, joined, ops>>

Send(changes) == pendingRep' = pendingRep \o changes

TopUnknown(i) ==
    LET walk == ReachUp(i, known)
    IN  CHOOSE t \in walk : parent[t] \notin walk

SendSubtree(t) ==
    /\ known' = known \cup Subtree(t)
    /\ \E s \in DepthFirst(Subtree(t)) : Send(SnapshotOf(s))

FilterCreate(c) ==
    /\ c.kind = "Create"
    /\ UNCHANGED <<known, pendingRep>>

FilterDestroy(c) ==
    /\ c.kind = "Destroy"
    /\ known' = known \ {c.id}
    /\ IF c.id \in known THEN Send(<<c>>) ELSE UNCHANGED pendingRep

FilterProperty(c) ==
    /\ c.kind = "Property"
    /\ UNCHANGED known
    /\ IF c.id \in known THEN Send(<<c>>) ELSE UNCHANGED pendingRep

(***************************************************************************)
(* A Parent change of i, by where i is now and whether clients have it.    *)
(* find() knows no destroyed instance, so of one only its own id goes.      *)
(***************************************************************************)
EnteredTree(i) ==
    /\ Visible(i) /\ i \notin known
    /\ SendSubtree(TopUnknown(i))

MovedUnderUnknown(i) ==
    /\ Visible(i) /\ i \in known
    /\ parent[i] # Root /\ parent[i] \notin known
    /\ SendSubtree(TopUnknown(parent[i]))

MovedWithin(i) ==
    /\ Visible(i) /\ i \in known
    /\ parent[i] = Root \/ parent[i] \in known
    /\ Send(<<ParentChange(i, parent[i])>>)
    /\ UNCHANGED known

\* Mutant of LeftTree: the subtree stays known.
LeftTreeAlone(i) ==
    /\ ~Visible(i) /\ i \in known
    /\ known' = known \ {i}
    /\ Send(<<DestroyChange(i)>>)

LeftTree(i) ==
    /\ ~Visible(i) /\ i \in known
    /\ known' = known \ (IF status[i] = "destroyed" THEN {i} ELSE Subtree(i))
    /\ Send(<<DestroyChange(i)>>)

StayedOut(i) ==
    /\ ~Visible(i) /\ i \notin known
    /\ UNCHANGED <<known, pendingRep>>

FilterParent(c) ==
    /\ c.kind = "Parent"
    /\ \/ EnteredTree(c.id)
       \/ MovedUnderUnknown(c.id)
       \/ MovedWithin(c.id)
       \/ LeftTree(c.id)
       \/ StayedOut(c.id)

FilterChange ==
    /\ filtering
    /\ log # <<>>
    /\ log' = Tail(log)
    /\ LET c == Head(log)
       IN  FilterCreate(c) \/ FilterDestroy(c) \/ FilterProperty(c) \/ FilterParent(c)
    /\ UNCHANGED <<parent, status, value, filtering, joined, ops>>

(***************************************************************************)
(* The host takes what the frame replicated, and the next frame begins.    *)
(* A join, in a frame that has one, takes it for the clients already there, *)
(* then resets `known' to the whole visible tree, which is what the joiner  *)
(* is sent.                                                                *)
(***************************************************************************)
NextFrame ==
    /\ filtering
    /\ log = <<>>
    /\ filtering' = FALSE
    /\ pendingRep' = <<>>
    /\ ops' = 0
    /\ UNCHANGED <<parent, status, value, log>>

TakeReplication ==
    /\ NextFrame
    /\ UNCHANGED <<known, joined>>

Join ==
    /\ NextFrame
    /\ known' = VisibleSet
    /\ joined' = TRUE

ReplicatorNext ==
    \/ \E i \in Instance :
          \/ Create(i)
          \/ Destroy(i)
          \/ \E p \in Instance \cup {Root, NoParent} : SetParent(i, p)
          \/ \E v \in Value : SetProperty(i, v)
    \/ EndFrame
    \/ FilterChange
    \/ TakeReplication
    \/ Join

ReplicatorSpec == ReplicatorInit /\ [][ReplicatorNext]_replicatorVars

-----------------------------------------------------------------------------
(***************************************************************************)
(* "known_; // ids every client has, == the visible set between frames"     *)
(* (rbx_net.h): once somebody has joined, whatever a frame moved, created   *)
(* and destroyed, and in whatever order, the filter leaves `known' equal to *)
(* the set of instances under a replicating service.                       *)
(***************************************************************************)
KnownIsVisible ==
    joined /\ log = <<>> /\ filtering => known = VisibleSet
=============================================================================

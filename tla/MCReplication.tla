--------------------------- MODULE MCReplication ----------------------------
(***************************************************************************)
(* Replication on a small tree with one or two clients.                    *)
(***************************************************************************)
EXTENDS Replication

CONSTANTS Workspace, ServerStorage, a, b

MCInstance2 == {Workspace, ServerStorage, a, b}

MCService == {Workspace, ServerStorage}
MCHidden == {ServerStorage}

\* Bound: services stay where they are.
ServicesStay == \A s \in Service : parent[s] = Root

\* Bounds: one instance has properties worth the name, and two operations a frame and properties
\* other than as made are for one client at a time.  After a mixed frame the server goes on as
\* after any other, so nothing more is looked at.
OneByOne ==
    /\ ServicesStay
    /\ \A i \in Instance \ {a} : value[i] = DefaultValue
    /\ value[a] # DefaultValue => ops <= 1
    /\ member = Client => ops <= 1 /\ value[a] = DefaultValue
    /\ mixed => ops # 0

Alike == Permutations(Client)

(***************************************************************************)
(* A frame of moves only, on a server all of whose clients are level with    *)
(* it: three instances, one of them in another, that stay in the Workspace.  *)
(***************************************************************************)
MCService1 == {Workspace}

LevelInit ==
    /\ parent = [i \in Instance |-> CASE i = Workspace -> Root [] i = b -> a [] OTHER -> Workspace]
    /\ status = [i \in Instance |-> "alive"]
    /\ value = [i \in Instance |-> DefaultValue]
    /\ log = <<>> /\ filtering = FALSE /\ ops = 0
    /\ known = Instance /\ pendingRep = <<>> /\ joined = TRUE
    /\ member = Client /\ channel = [c \in Client |-> <<>>]
    /\ copyParent = [c \in Client |-> parent] /\ copyValue = [c \in Client |-> value]
    /\ mixed = FALSE

LevelSpec == LevelInit /\ [][ReplicationNext /\ UNCHANGED <<status, member>>]_allVars

OneFrameOfMoves ==
    /\ ServicesStay
    /\ \A i \in Instance \ {Workspace} : parent[i] \in Instance
    /\ ops # 0 => \A c \in Client : channel[c] = <<>>
=============================================================================

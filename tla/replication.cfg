CONSTANTS
    Workspace = Workspace
    ServerStorage = ServerStorage
    a = a
    b = b
    Instance <- MCInstance2
    Service <- MCService
    Hidden <- MCHidden
    Value = {v0, v1}
    DefaultValue = v0
    Root = Root
    NoParent = NoParent
    Absent = Absent
    Client = {c1, c2}
    OpsPerFrame = 2
    QueueBound = 0
SPECIFICATION ReplicationSpec
INVARIANTS CopyMatches KnownIsVisible
CONSTRAINT OneByOne
SYMMETRY Alike

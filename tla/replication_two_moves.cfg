CONSTANTS
    Workspace = Workspace
    ServerStorage = ServerStorage
    a = a
    b = b
    Instance <- MCInstance2
    Service <- MCService
    Hidden <- MCHidden
    Value = {v0}
    DefaultValue = v0
    Root = Root
    NoParent = NoParent
    Absent = Absent
    Client = {c1}
    OpsPerFrame = 2
    QueueBound = 0
SPECIFICATION ReplicationSpec
INVARIANT KnownIsWhatClientsHave
CONSTRAINT ServicesStay

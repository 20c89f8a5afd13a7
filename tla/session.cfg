CONSTANTS
    c1 = c1
    c2 = c2
    ann = ann
    bob = bob
    Client = {c1, c2}
    Nobody = Nobody
    Server = Server
    Name = {ann, bob}
    NameOf <- Strangers
    MaxActs = 3
    Kept = 2
SPECIFICATION Spec
INVARIANTS GhostsAreDoomed KeepsItsPlayer JoinerMissesNothing EachFiringArrives CallHasOneAnswer MessagesAreNotAhead
PROPERTIES OvertakesOnlyTheKept JoinsComeThrough
CONSTRAINT Bounds
CHECK_DEADLOCK FALSE

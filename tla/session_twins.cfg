CONSTANTS
    c1 = c1
    c2 = c2
    ann = ann
    bob = bob
    Client = {c1, c2}
    Nobody = Nobody
    Server = Server
    Name = {ann, bob}
    NameOf <- Twins
    MaxActs = 0
    Kept = 2
SPECIFICATION Spec
INVARIANT KeepsItsPlayer
CONSTRAINT Bounds
CHECK_DEADLOCK FALSE

CONSTANTS
    ann = ann
    bob = bob
    cat = cat
    first = first
    second = second
    Player <- MCPlayer
    Id = {first, second}
    Result <- MCResult
    NoRecord = NoRecord
    MaxTeam = 4
    MaxWitnesses = 2
    MaxCount = 3
    Visitor = {1, 2, 3}
    AddressOf <- MCAddressOf
    Fought <- MCFought
    Unsigned = Unsigned
    Forged = Forged
SPECIFICATION AgreementSpec
INVARIANTS BothSidesAgreed CountsAddUp TownIsBehindTheChain WhatIsOfferedGoes
PROPERTY AgreementIsLast
CONSTRAINT Bounds

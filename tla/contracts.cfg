CONSTANTS
    ann = ann
    bob = bob
    fee = fee
    d1 = d1
    pls = pls
    usd = usd
    u1 = u1
    u2 = u2
    small = small
    large = large
    c1 = c1
    c2 = c2
    c3 = c3
    lua = lua
    rbxm = rbxm
    Account = {ann, bob}
    DataHash = {d1}
    NoData = NoData
    Tier = {0, 1}
    RecordTier = 255
    Thresholds <- MCThresholds
    Founder = ann
    Seed <- MCSeed
    MaxSlots = 2
    MaxGiftSlots = 1
    MaxCount = 1
    MaxBalance = 1
    Party <- MCParty
    MaxAssets = 1
    Token <- MCToken
    Uri <- MCUri
    NoUri = NoUri
    Nobody = Nobody
    FeeBps = 1
    BasisPoints = 2
    FeeRecipient = fee
    MaxUint = 4
    Purse <- MCPurse
    Amounts = {0, 1, 3}
    MaxSupplies = {0, 1}
    Angler = {ann, bob}
    NoAngler = NoAngler
    COLOURS = 1
    BITE_EXTRA = 1
    REEL_WINDOW = 0
    FirstBlock = 1
    LastBlock = 4
    Path = {small, large}
    DataOf <- MCDataOf
    MimeOf <- MCMimeOf
    ManifestMime = json
    Foreign <- MCForeign
    ChunksPerTx = 2
    MaxBlobs = 4
    MaxChunks = 8
SPECIFICATION ContractsSpec
INVARIANTS ListIsKnown GiftSlotsAreBacked OffersListed OneCatchPerCast ClaimsAreEarned ManifestIsWhole
PROPERTIES ImplementsHoldings ImplementsSales
CONSTRAINT Bounds
\* LastBlock is a bound, so the chain stops there.
CHECK_DEADLOCK FALSE

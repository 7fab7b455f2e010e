CONSTANTS
    a = a
    b = b
    a1 = a1
    a2 = a2
    b1 = b1
    NoOffer = NoOffer
    Providers = {a, b}
    Offers = {a1, b1}
    Keys = {a1, b1}
    Names = {a, b}
    ProviderOf <- MCProviderOf
    KeyOf <- OwnKey
    Rank <- MCRank
    Eligible = {a1, b1}
    CacheTTL = 2
    BlacklistTTL = 4
    BrokenTTL = 5
    MaxAttempts = 3
    SleepStep = 1
    MaxSleep = 2
SPECIFICATION FairSpec
INVARIANTS
    TypeOK
    RetriesSeeFreshOffers
    BrokenNotTried
    AvailableTried
PROPERTY
    CallEnds

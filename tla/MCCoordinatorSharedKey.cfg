CONSTANTS
    a = a
    b = b
    a1 = a1
    a2 = a2
    b1 = b1
    NoOffer = NoOffer
    Providers = {a}
    Offers = {a1, a2}
    Keys = {a1}
    Names = {a}
    ProviderOf <- MCProviderOf
    KeyOf <- SharedKey
    Rank <- MCRank
    Eligible = {a1, a2}
    CacheTTL = 2
    BlacklistTTL = 4
    BrokenTTL = 5
    MaxAttempts = 3
    SleepStep = 1
    MaxSleep = 2
SPECIFICATION FairSpec
INVARIANT
    AvailableTried

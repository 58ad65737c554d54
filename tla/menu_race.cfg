SPECIFICATION Spec
CONSTANTS
    r1 = r1
    r2 = r2
    f1 = f1
    durable = durable
    live = live
    All = All
    NoEntry = NoEntry
    Restaurants <- TwoRestaurants
    Fetchers <- OneFetcher
    Consumers <- Both
    Broadcasters <- Live
    Attempts = 2
    MaxTTL = 2
    FetchTimeout = 2
    ValidUntil <- Boundaries
    MaxNow = 2
    MaxChanges = 2
    MaxStops = 0
    MaxFaults = 0
INVARIANT SettledFresh
CHECK_DEADLOCK FALSE

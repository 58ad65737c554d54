SPECIFICATION FairSpec
CONSTANTS
    r1 = r1
    r2 = r2
    f1 = f1
    durable = durable
    live = live
    All = All
    NoEntry = NoEntry
    Restaurants <- OneRestaurant
    Fetchers <- OneFetcher
    Consumers <- Durable
    Broadcasters <- Nobody
    Attempts = 2
    MaxTTL = 2
    FetchTimeout = 1
    ValidUntil <- Boundaries
    MaxNow = 5
    MaxChanges = 1
    MaxStops = 1
    MaxFaults = 2
INVARIANTS TypeOK StalenessBounded BoundaryRespected SkipTakesAllAttempts
PROPERTY EventsDrain
CHECK_DEADLOCK FALSE

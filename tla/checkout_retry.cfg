SPECIFICATION FairSpec
CONSTANTS
    c1 = c1
    c2 = c2
    c3 = c3
    k1 = k1
    NoKey = NoKey
    Calls <- TwoCalls
    Keys <- OneKey
    KeyOf <- OneRetries
    Redeems <- TwoCalls
    Balance = 1
INVARIANTS NoPointsWithoutOrder PlacedMeansOrdered
PROPERTY EverythingSettles
CHECK_DEADLOCK FALSE

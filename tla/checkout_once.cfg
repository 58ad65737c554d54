SPECIFICATION Spec
CONSTANTS
    c1 = c1
    c2 = c2
    c3 = c3
    k1 = k1
    NoKey = NoKey
    Calls <- ThreeCalls
    Keys <- OneKey
    KeyOf <- NobodyRetries
    Redeems <- TwoCalls
    Balance = 1
INVARIANTS TypeOK RefusedMeansNothing DiscountBacked
PROPERTY ImplementsRedemption
CHECK_DEADLOCK FALSE

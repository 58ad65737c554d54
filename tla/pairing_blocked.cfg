SPECIFICATION Spec
CONSTANTS
    s1 = s1
    s2 = s2
    r1 = r1
    r2 = r2
    crm1 = crm1
    crm2 = crm2
    p1 = p1
    p2 = p2
    None = None
    Serials = {s1}
    Restaurants = {r1}
    CrmCalls = {crm1}
    Pairs = {p1}
    CodeTTL = 2
    TokenTTL = 2
    MaxNow = 4
    MaxCached = 1
    MaxTokens = 1
    MaxFaults = 0
INVARIANT BlockedStaysOut
CHECK_DEADLOCK FALSE

SPECIFICATION Spec
CONSTANTS
    k1 = k1
    k2 = k2
    kds = kds
    hall = hall
    m1 = m1
    r1 = r1
    r2 = r2
    q1 = q1
    none = none
    Kiosks = {k1, k2}
    Kitchens = {kds}
    Displays = {hall}
    RestaurantOf <- At
    Members = {m1}
    Nobody = none
    NoVariation = none
    Menus <- TwoMenus
    Carts <- TwoCarts
    Points <- SomePoints
    Taps <- SomeTaps
    Requests = {q1}
    MaxQuantity = 2
    PointValue = 4
    Int32Span = 16
    FallsShort <- BelowHalf
    DeviceTTL = 2
    AccessTTL = 1
    KioskTTL = 1
    CodeTTL = 1
    MaxNow = 2
    MaxTokens = 6
    MaxRevoked = 1
    MaxOrders = 1
    secretA = secretA
    secretB = secretB
    unset = unset
    noFile = noFile
    Unset = unset
    NoFile = noFile
    LongSecrets = {secretA, secretB}
    Processes <- SomeProcesses
    Directories <- SomeDirectories
INVARIANTS TypeOK ActsForMember KitchenMovesItsOwn PaidIsCharged DiscountIsHeld EachToItsOwnRoutes PrivateStaysPrivate SettingsHold
CHECK_DEADLOCK FALSE

SPECIFICATION FairSpec
CONSTANTS
    Streams = {s1}
    o1 = o1
    r1 = r1
    r2 = r2
    Orders = {o1}
    Restaurants = {r1, r2}
    Home <- AtR1
    All = All
    Capacity = 1
    MaxChanges = 2
INVARIANTS TypeOK NoSendOnClosed NothingLost
PROPERTIES ScreensCatchUp StreamsLetGo ShutdownEnds
CHECK_DEADLOCK FALSE

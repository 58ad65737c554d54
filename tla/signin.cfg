SPECIFICATION Spec
CONSTANTS
    Phones = {p1}
    IPs = {i1}
    Requests = {q1, q2}
    Verifies = {v1, v2, v3}
    MaxAttempts = 2
    Cooldown = 1
    Hour = 2
    PhoneLimit = 1
    IPLimit = 1
    CodeTTL = 4
    Second = 3
    MaxNow = 3
    MaxFaults = 1
    NoCode = NoCode
    Wrong = Wrong
SYMMETRY Calls
INVARIANTS TypeOK SendsThrottled SentCodeUsable GuessesBounded
CHECK_DEADLOCK FALSE

SPECIFICATION Spec
CONSTANTS
    Browsers = {b1}
    SignIns = {s1, s2}
    Refreshes = {r1, r2, r3}
    Logouts = {l1}
    MaxFaults = 1
    NoToken = NoToken
SYMMETRY Alike
INVARIANTS TypeOK ChainLinear NoDeadCookie StaysSignedIn
PROPERTIES ImplementsTokenChain
CHECK_DEADLOCK FALSE

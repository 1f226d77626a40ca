CONSTANTS
    r1 = r1
    r2 = r2
    w1 = w1
    w2 = w2
    w3 = w3
    Reader = {r1, r2}
    Writer = {w1}
    Mortal = {}
    Stoppable = {}
SPECIFICATION Spec
CHECK_DEADLOCK FALSE
INVARIANTS
    WaitsForToken

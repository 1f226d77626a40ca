CONSTANTS
    r1 = r1
    r2 = r2
    w1 = w1
    w2 = w2
    w3 = w3
    Reader = {r1}
    Writer = {w1, w2, w3}
    Mortal = {r1, w1, w2, w3}
    Stoppable = {r1}
SPECIFICATION Spec
CHECK_DEADLOCK FALSE
INVARIANTS
    TypeOK
    ReaderGetsMessage
    LeftIsWhole
PROPERTIES
    ReaderReturns

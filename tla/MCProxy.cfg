CONSTANTS
    c1 = c1
    c2 = c2
    None = None
    Client = {c1, c2}
    BUFFER = 2
    MaxBytes = 2
    MaxFaults = 1
SPECIFICATION Spec
CHECK_DEADLOCK FALSE
INVARIANTS
    TypeOK
    OneStepAtATime
PROPERTIES
    RelaysStreams
    WaitingIsAccepted
    OriginEndEndsSession

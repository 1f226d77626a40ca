CONSTANTS
    c1 = c1
    c2 = c2
    c3 = c3
    c4 = c4
    None = None
    Client = {c1, c2}
    NUM_THREADS = 2
    MAX_EVENTS = 2
    BUFFER_SIZE = 3
    MSG_LEN = 2
    BACKLOG = 1
    FirstFd = 8
    Limits = {8, 9}
    MaxFaults = 1
SPECIFICATION MCSpec
CHECK_DEADLOCK FALSE
INVARIANTS
    TypeOK
    TerminatorInBuffer
PROPERTIES
    ServesStreams
    EndedIsClosed
    QueueDrains
    SigintTerminates

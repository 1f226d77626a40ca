CONSTANTS
    c1 = c1
    c2 = c2
    c3 = c3
    c4 = c4
    None = None
    Client = {c1, c2, c3, c4}
    NUM_THREADS = 2
    MAX_EVENTS = 2
    BUFFER_SIZE = 2
    MSG_LEN = 1
    BACKLOG = 0
    FirstFd = 8
    Limits = {10}
    MaxFaults = 0
SPECIFICATION Spec
SYMMETRY ClientSymmetry
CHECK_DEADLOCK FALSE
INVARIANTS
    EventsAreOwn

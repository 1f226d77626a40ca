CONSTANTS
    cpu0 = cpu0
    cpu1 = cpu1
    t = t
    None = None
    CPU = {cpu0, cpu1}
    Task = t
    TaskCpu = cpu1
    NSEC_PER_USEC = 1
    U64 = 2
    targ_min_us = 0
    MaxClock = 1
    MaxSegs = 2
    MaxReads = 2
SPECIFICATION MCSpec
CHECK_DEADLOCK FALSE
INVARIANTS
    TypeOK
    LoopTracesAll
    PathInOrder

CONSTANTS
    c1 = c1
    c2 = c2
    s1 = s1
    cpu0 = cpu0
    cpu1 = cpu1
    p1 = p1
    p2 = p2
    None = None
    Sock = {s1}
    Ctx = {c1}
    CPU = {cpu0}
    CpuOf <- MCCpuOf
    Pid = {p1, p2}
    MAX_ENTRIES = 1
    RING_SIZE = 2
    NSEC_PER_USEC = 1
    U64 = 16
    targ_min_us = 0
    env_pid = p1
    MaxClock = 0
    MaxCalls = 2
SPECIFICATION MCSpec
CHECK_DEADLOCK FALSE
INVARIANTS
    TracesThisPidOnly

CONSTANTS
    c1 = c1
    c2 = c2
    s1 = s1
    s2 = s2
    cpu0 = cpu0
    p1 = p1
    None = None
    Sock = {s1, s2}
    Ctx = {c1, c2}
    CPU = {cpu0}
    CpuOf <- MCCpuOf
    Pid = {p1}
    MAX_ENTRIES = 1
    RING_SIZE = 1
    NSEC_PER_USEC = 2
    U64 = 16
    targ_min_us = 0
    MaxClock = 4
    MaxCalls = 3
SPECIFICATION MCSpec
SYMMETRY Symm
INVARIANTS
    BpfInv
    ConnectTimeSound
    ConnectTimeNeverWraps

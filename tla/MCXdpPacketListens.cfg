CONSTANTS
    cpu0 = cpu0
    cpu1 = cpu1
    None = None
    CPU = {cpu0, cpu1}
    Frame <- AllFrames
    RING_SIZE = 1
    MaxPackets = 2
SPECIFICATION Spec
CHECK_DEADLOCK FALSE
INVARIANTS
    JustListens

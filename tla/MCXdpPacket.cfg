CONSTANTS
    cpu0 = cpu0
    cpu1 = cpu1
    None = None
    CPU = {cpu0, cpu1}
    Frame <- MCFrame
    RING_SIZE = 2
    MaxPackets = 3
SPECIFICATION EndlessSpec
CHECK_DEADLOCK FALSE
INVARIANTS
    TypeOK
PROPERTIES
    RingIsFifo
    EveryPacketHandled
    SigintTerminates

SPECIFICATION FairSpec
CONSTANTS
    A = A
    B = B
    C = C
    e1 = e1
    e2 = e2
    Devices = {A, B, C}
    Events = {e1, e2}
    OriginOf <- OneSource
    Peers <- LoopAndBack
    MaxHops = 3
    Capacity = 1
    Restarting = {C}
    MaxFaults = 1
    MaxInjections = 2
INVARIANTS TypeOK MemoryBounded OwnNeverInjected AtMostOnce
PROPERTIES HookNeverInjects FallsSilent
CHECK_DEADLOCK FALSE

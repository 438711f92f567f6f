CONSTANTS
    Leases <- SomeLeases
    TimeMod = 32
    MAX_TIMER_DELAY = 5
    FIRST_TIMEOUT = 3
    LAST_TIMEOUT = 6
    RESTART_DELAY = 3
    SPREAD = 1
    MIN_RETRANSMIT = 2
    MARGIN = 4
    PROBE_TIME = 1
SPECIFICATION ServedSpec
INVARIANTS NeverStuck LeaseKept
PROPERTIES BoundIsProbed Connects

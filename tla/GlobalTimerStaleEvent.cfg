CONSTANTS
    TIMER_QUANTITY = 2
    Owners = {1, 2}
    Events = {1}
    Delays = {2}
    DelayMod = 8
    StaleStarts = TRUE
SPECIFICATION Spec
PROPERTIES NeverSentEarly

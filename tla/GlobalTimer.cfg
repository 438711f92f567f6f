CONSTANTS
    TIMER_QUANTITY = 3
    Owners = {1, 2}
    Events = {1, 2}
    Delays = {1, 2, 3}
    DelayMod = 8
    StaleStarts = FALSE
SPECIFICATION FairSpec
PROPERTIES ImplementsSoftwareTimers EveryTimerRunsOut

CONSTANTS
    NumTasks = 2
    TaskTable <- LowPowerTable
    SingleReaders = {}
    LowPowerTask = 2
    TickMod = 3
    Delays = {0, 2}
    TimerEvents = {1}
    Requests <- ActivatingRequests
    MaxOps = 1
    MaxIrqs = 1
SPECIFICATION FairSpec
INVARIANTS SleepsOnlyWhenIdle NoLostWakeup TimerEventDeliverable
PROPERTIES ScheduledTasksRun MessagesAreRead TimersRunOut

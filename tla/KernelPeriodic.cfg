CONSTANTS
    NumTasks = 2
    TaskTable <- PeriodicTable
    SingleReaders = {1}
    LowPowerTask = 0
    TickMod = 4
    Delays = {0, 3}
    TimerEvents = {1}
    Requests <- StoppingRequests
    MaxOps = 1
    MaxIrqs = 1
SPECIFICATION Spec
PROPERTIES KernelStrandsNoWork ImplementsTaskTimers

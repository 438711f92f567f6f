CONSTANTS
    Values = {b1, b2}
    TxQueueSize = 3
    RxQueueSize = 8
    LOW_WATER_MARK = 1
    HIGH_WATER_MARK = 5
    UART_DEPTH = 2
    Sizes = {1, 2}
    Undisturbed = FALSE
SPECIFICATION Spec
PROPERTIES ImplementsByteFifo

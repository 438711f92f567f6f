CONSTANTS
    Values = {b1, b2}
    buf_length = 4
    Sizes = {1, 3}
    MaxNesting = 2
    Bursts = FALSE
SPECIFICATION Spec
INVARIANTS BytesFit NothingStaysReserved
PROPERTIES ImplementsByteFifo

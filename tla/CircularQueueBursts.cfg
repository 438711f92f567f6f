CONSTANTS
    Values = {b1, b2}
    buf_length = 4
    Sizes = {1, 3}
    MaxNesting = 2
    Bursts = TRUE
SPECIFICATION Spec
INVARIANTS BytesFit

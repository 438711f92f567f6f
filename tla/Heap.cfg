CONSTANTS
    HeapSize = 7
    HEAP_OBJECTS = 5
    BREAK_DOWN_BLOCKS_LIMIT = 3
    Sizes = {1, 3}
SPECIFICATION Spec
INVARIANTS NothingLost HolesMerged FreeMemoryIsZero RefusedOnlyWithoutRoom
PROPERTIES ImplementsAllocator

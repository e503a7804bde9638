\* Three threads and three buffers.  All threads may wait for a buffer.
SPECIFICATION FairSpec
CONSTANTS
    Threads = {t1, t2, t3}
    Buffers = {b1, b2, b3}
    Null = Null
INVARIANTS
    ListIsQueue
    SemaphoreCounts
PROPERTIES
    ImplementsQueue
    CallsReturn
CHECK_DEADLOCK FALSE

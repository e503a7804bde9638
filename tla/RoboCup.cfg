\* Two detector threads, no limit or a limit of two frames, and a buffer
\* with images of up to two different seconds.  The system stops when it exits
\* or has crashed.
SPECIFICATION FairSpec
CONSTANTS
    NumThreads = 2
    Counts = {0, 2}
    MaxSeconds = 1
INVARIANTS
    QuietAtExit
PROPERTIES
    RetryEnds
    SignalEnds
    
CHECK_DEADLOCK FALSE

\* The system stops when the camera is released, with or without its port
\* closed, or waits for a frame with no buffer left.
SPECIFICATION FairSpec
CONSTANTS
    NumBuffers = 4
    NumFrames = 3
INVARIANTS
    NextFrame
    WholeFrame
    QueueNeverEmpty
    QuietWhenReleased
PROPERTIES
    GrabReturns
    ReleaseReturns
CHECK_DEADLOCK FALSE

\* Two detector threads (four slots) and a clock that only moves forward.
SPECIFICATION Spec
CONSTANTS
    MaxElements = 4
    MaxFrames = 10
    MaxTime = 3
    ClockMayStepBack = FALSE
INVARIANT
    NewestNotTooOld
PROPERTIES
    DeliveredInOrder
    StoredIsTakeable
    ImplementsChannel

\* The wall clock is corrected backwards while the program runs.
SPECIFICATION Spec
CONSTANTS
    MaxElements = 4
    MaxFrames = 7
    MaxTime = 2
    ClockMayStepBack = TRUE
INVARIANT
    AtMostOnce
PROPERTY
    HiddenNeverGrows

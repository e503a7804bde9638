\* Two detector threads, two kinds of pictures, three frames.
SPECIFICATION Spec
CONSTANTS
    Workers = {w1, w2}
    ImageCount = 2
    ShowFiltered = TRUE
    MaxFrames = 3
    Buffers = {b1, b2, b3, b4}
    None = None
INVARIANTS
    ServedWhole
    PageConsistent
    ArrayLive
CHECK_DEADLOCK FALSE

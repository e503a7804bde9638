\* Two detector threads and four images.  The program ends.
SPECIFICATION FairSpec
CONSTANTS
    Workers = {w1, w2}
    MaxImages = 4
INVARIANT
    AllShown
PROPERTIES
    ShownInOrder
    ShutdownCompletes
CHECK_DEADLOCK FALSE

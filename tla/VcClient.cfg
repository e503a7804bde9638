\* Two threads, a waiter for each, components, and everything that VCHIQ may
\* refuse.  After a bulk transfer has failed all may be blocked.
SPECIFICATION Spec
CONSTANTS
    Threads = {t1, t2}
    MaxWaiters = 2
    MaxMessages = 1
    MaxComponents = 1
    MayFail = {"use", "release", "bulk"}
    None = None
SYMMETRY Symmetry
INVARIANT
    UsedWhileNeeded
PROPERTY
    AnswerIsOwn
CHECK_DEADLOCK FALSE

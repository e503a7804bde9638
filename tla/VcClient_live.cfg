\* Two threads that want the one waiter.  vchiq_use_service may
\* fail.  The threads stop when they call no more.
SPECIFICATION FairSpec
CONSTANTS
    Threads = {t1, t2}
    MaxWaiters = 1
    MaxMessages = 2
    MaxComponents = 0
    MayFail = {"use"}
    None = None
INVARIANTS
    WaiterFound
    BulkIsOwn
PROPERTY
    CallsReturn
CHECK_DEADLOCK FALSE

\* Two daemons and two killers.  In the end all processes have ended.
SPECIFICATION FairSpec
CONSTANTS
    Starters = {p1, p2}
    Killers = {k1, k2}
    None = None
    Empty = Empty
INVARIANTS
    SingleUntilUnlink
    PidfileNamesDaemon
    KillMeansDead
PROPERTY
    KillReturns
CHECK_DEADLOCK FALSE

\* Three workers.  The program ends when stopThreads has returned.
SPECIFICATION PoolFairSpec
CONSTANT
    NumThreads = 3
INVARIANTS
    NoUseAfterDelete
    AllEnded
PROPERTIES
    SurvivedForGood
    LateStopCompletes
CHECK_DEADLOCK FALSE

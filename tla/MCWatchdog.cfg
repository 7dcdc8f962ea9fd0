\* Two tasks, delays on either side of the spin threshold.
SPECIFICATION FairSpec
CONSTANTS
    Tasks = {t1, t2}
    Deltas = {0, 1, 3}
    Threshold = 1
    MaxTime = 6
    NoTask = NoTask
INVARIANTS
    NoLostWakeup
    DueTasksRunBeforeDestroyed
    LateOnlyBehindSleep
PROPERTIES
    ImplementsDeferredCalls
    EveryTaskIsServed
    DestructorReturns
CHECK_DEADLOCK FALSE

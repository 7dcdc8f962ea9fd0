\* One tick is 10 ms, the spin threshold.  The test schedules a task for 10 ms
\* and looks after 100 ms; here another task, due later, is already queued.
SPECIFICATION Spec
CONSTANTS
    Tasks = {t1, t2}
    Deltas = {1, 20}
    Threshold = 1
    MaxTime = 22
    NoTask = NoTask
INVARIANT RunsWithinGrace
CHECK_DEADLOCK FALSE

\* Two descriptors, one of which may be closed and reopened at any time, and
\* three calls to notify and cancel.
SPECIFICATION FairSpec
CONSTANTS
    FDs = {f1, f2}
    MaxGen = 3
    ReusedFDs = {f2}
    Polite = FALSE
INVARIANTS
    PollSetInSync
    AtMostOneLateCall
PROPERTIES
    ReadableIsCalled
    ClosedIsReported
    DestructorReturns
CHECK_DEADLOCK FALSE

\* One descriptor whose number comes back, once its user has cancelled it.
SPECIFICATION FairSpec
CONSTANTS
    FDs = {f1}
    MaxGen = 3
    ReusedFDs = {f1}
    Polite = TRUE
PROPERTY ReadableIsCalledAfterReuse
CHECK_DEADLOCK FALSE

\* Two or three segments of which one may begin in the padding of another.
SPECIFICATION DataSpec
CONSTANTS
    Nodes = {1}
    nullptr = nullptr
    Last = 6
    IntervalsOf <- FewIntervals
CHECK_DEADLOCK FALSE
INVARIANT ElfPaddingNeverOverwrites

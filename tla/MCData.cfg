\* Trees of nine nodes in every shape, and removals from trees of twelve, which
\* make it rotate at two levels.  A behaviour of a pure function ends with its
\* input.
SPECIFICATION DataSpec
CONSTANTS
    Nodes = {1, 2, 3, 4, 5, 6, 7, 8, 9, 10, 11, 12}
    nullptr = nullptr
    Last = 6
    IntervalsOf <- FewIntervals
CHECK_DEADLOCK FALSE
INVARIANTS
    Validates
    QueriesAreExact
    WordsAreExact
    FilesAreReadBack
    TextIsUnderstood
PROPERTY IteratorsStayValid

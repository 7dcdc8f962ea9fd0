\* The parts that share nothing, each explored from a state of its own.
SPECIFICATION Spec
CONSTANTS
    Solo = {s}
    Pair = {p, q}
    Twins = {m, n}
    Triple = {a, b, c}
    Unused = Unused
    Nobody = Nobody
    NoMsg = NoMsg
    Console = Console
    Pty = Pty
    Closed = Closed
    Idle = Idle
    nullptr = nullptr
    MAP_FAILED = MAP_FAILED
    MaxAddrs = 2
    MaxSockets = 2
    NUM_LOG_LEVELS = 3
    MaxFilters = 2
    MaxChildren = 2
    MaxData = 1
    MaxRead = 1
    FDs = {0, 1}
    Stdin = 0
    MaxStack = 2
    MAXIMUM_WAIT_OBJECTS = 2
    ByteBits = 2
    NativeSizes = {1}
    CasSizes = {1, 2}
    LongBits = 4
    MaxCopies = 3
    page_size = 2
    Sizes = {0, 1, 2, 3}
    Modes = {"r", "a", "a+"}
    MaxBuffer = 2
    MaxBytes = 2
SYMMETRY Symmetry
CONSTRAINT UntilClash
INVARIANTS
    TypesOK
    ConsistentWhenQuiescent
    TransfersOnPresentConnection
    RegistryMatchesLevels
    DeliveredOnce
    ReportsPrintSource
    PidsMatchChildren
    ReadOfStdoutEnds
    RestoredAtExit
    CalledForAReason
    SeparateInstances
    NoCopyLeftBehind
    OneOwnerPerMapping
    TransfersAreWhole
PROPERTY ImplementsAtomicMemory

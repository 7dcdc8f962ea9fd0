\* Two pollers, at most one client, three connections on Linux.
SPECIFICATION Spec
CONSTANTS
    Threads = {t1, t2}
    Pollers = {t1, t2}
    Nobody = Nobody
    m_max_clients = 1
    MaxConnects = 3
    MaxListens = 2
    ReuseFDs = FALSE
SYMMETRY ThreadSymmetry
INVARIANTS
    TypeOK
    ClientsBounded
    OnlyLivePortReported
    NoConnectionLeaks
    OwnConnection
    DisconnectNotifiedOnce
CHECK_DEADLOCK FALSE
